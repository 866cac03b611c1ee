------------------------------ MODULE Inventory ------------------------------
(***************************************************************************)
(* Stock documents: receipts, issues, transfers and counts of one item.    *)
(*                                                                         *)
(* A document is posted in one transaction that reads its status, then     *)
(* each balance, and writes the balance it computed.  At the isolation     *)
(* level the program runs at, another transaction may commit between the   *)
(* reads, but not to a balance this one has written.  Costs are left out.  *)
(***************************************************************************)
EXTENDS Documents

CONSTANTS
    Warehouses,
    StockDocs,   \* bound: stock documents
    Kind,        \* "receipt", "issue", "transfer" or "count"
    Quantity,    \* what a document is for; what a count found
    From,        \* the warehouse of a document
    To           \* where a transfer goes

ASSUME InventoryAssumption ==
    /\ Kind \in [StockDocs -> {"receipt", "issue", "transfer", "count"}]
    /\ Quantity \in [StockDocs -> Nat]
    /\ From \in [StockDocs -> Warehouses] /\ To \in [StockDocs -> Warehouses]
    /\ Warehouses \cap StockDocs = {}   \* they are rows of two tables
    /\ \A d \in StockDocs : Kind[d] = "transfer" => From[d] # To[d]

NoStockDoc == [status |-> "ABSENT", variance |-> 0, posted |-> 0]
NoStock == [onHand |-> 0, moved |-> 0]

InventoryTypeOK ==
    /\ \A d \in StockDocs :
          /\ db[d].status \in {"ABSENT", "DRAFT", "POSTED"}
          /\ db[d].variance \in Int /\ db[d].posted \in Nat
    /\ \A w \in Warehouses : db[w].onHand \in Int /\ db[w].moved \in Int

CreateStockDoc(d) ==
    Statement(In(d, {"ABSENT"}) /\ Kind[d] # "count", Becomes(d, "DRAFT"))

\* The variance of a count is fixed when the count is entered.
CreateStockCount(d) ==
    Statement(In(d, {"ABSENT"}) /\ Kind[d] = "count",
        db' = [db EXCEPT ![d].status = "DRAFT", ![d].variance = Quantity[d] - db[From[d]].onHand])

\* A transfer that has written one balance and not yet the other holds it.
Held(w, c) ==
    \E e \in Calls \ {c} :
        call[e].op = "postStockTransfer" /\ call[e].at = "commit" /\ From[call[e].row] = w

ReadBalance(c, op, d) ==
    /\ At(c, op, "balance", d, None)
    /\ Keep(c, IF Kind[d] = "transfer" THEN "destination" ELSE "commit",
            [from |-> db[From[d]].onHand, to |-> 0])
    /\ UNCHANGED db

\* Mutated form of ReadDocument: a document that was posted is posted again.
ReadDocumentAgain(c, op, d) ==
    \/ ~In(d, {"ABSENT"}) /\ Enter(c, op, "balance", d, None, None)
    \/ ReadBalance(c, op, d)

\* The first two reads of a posting: the status, then the balance.
ReadDocument(c, op, d) ==
    \/ In(d, {"DRAFT"}) /\ Enter(c, op, "balance", d, None, None)
    \/ ReadBalance(c, op, d)

\* applyMovement: what would drive the balance negative is refused and rolled
\* back, with whatever the document moved before.
Move(c, op, d, quantity) ==
    /\ At(c, op, "commit", d, None) /\ ~Held(From[d], c)
    /\ IF call[c].seen.from + quantity >= 0
       THEN db' = [db EXCEPT ![From[d]].onHand = call[c].seen.from + quantity,
                             ![From[d]].moved = @ + quantity,
                             ![d].status = "POSTED", ![d].posted = @ + 1]
       ELSE UNCHANGED db
    /\ Leave(c)

PostGoodsReceipt(c, d) ==
    /\ Kind[d] = "receipt"
    /\ ReadDocument(c, "postReceipt", d) \/ Move(c, "postReceipt", d, Quantity[d])

PostMaterialIssue(c, d) ==
    /\ Kind[d] = "issue"
    /\ ReadDocument(c, "postIssue", d) \/ Move(c, "postIssue", d, -Quantity[d])

PostStockCount(c, d) ==
    /\ Kind[d] = "count"
    /\ ReadDocument(c, "postCount", d) \/ Move(c, "postCount", d, db[d].variance)

\* Out of one balance, then into the other.
PostStockTransfer(c, d) ==
    /\ Kind[d] = "transfer"
    /\ \/ ReadDocument(c, "postStockTransfer", d)
       \/ /\ At(c, "postStockTransfer", "destination", d, None) /\ ~Held(From[d], c)
          /\ IF call[c].seen.from >= Quantity[d]
             THEN Keep(c, "commit", [call[c].seen EXCEPT !.to = db[To[d]].onHand])
             ELSE Leave(c)
          /\ UNCHANGED db
       \/ /\ At(c, "postStockTransfer", "commit", d, None) /\ ~Held(To[d], c)
          /\ db' = [db EXCEPT ![From[d]].onHand = call[c].seen.from - Quantity[d],
                              ![From[d]].moved = @ - Quantity[d],
                              ![To[d]].onHand = call[c].seen.to + Quantity[d],
                              ![To[d]].moved = @ + Quantity[d],
                              ![d].status = "POSTED", ![d].posted = @ + 1]
          /\ Leave(c)

InventoryNext ==
    \E d \in StockDocs :
        \/ CreateStockDoc(d) \/ CreateStockCount(d)
        \/ \E c \in Calls :
              \/ PostGoodsReceipt(c, d) \/ PostMaterialIssue(c, d)
              \/ PostStockCount(c, d) \/ PostStockTransfer(c, d)

-----------------------------------------------------------------------------
\* No balance is ever negative, although balances are written from old reads.
StockNeverNegative == \A w \in Warehouses : db[w].onHand >= 0

\* While postings take turns, each balance is the sum of its movements and no
\* document is moved twice.  (Two postings at once may lose a movement or move
\* a document twice.)
StockIsMovements ==
    tidy => /\ \A w \in Warehouses : db[w].onHand = db[w].moved
            /\ \A d \in StockDocs : db[d].posted = IF In(d, {"POSTED"}) THEN 1 ELSE 0

\* The balances of the warehouses stand for what was moved: StockNeverNegative
\* always, StockIsMovements while postings take turns.
StockSound == InventoryTypeOK /\ StockNeverNegative /\ StockIsMovements
=============================================================================

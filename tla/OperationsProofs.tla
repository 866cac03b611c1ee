-------------------------- MODULE OperationsProofs ---------------------------
(***************************************************************************)
(* What the back office rests on: stock, whose balances stand for what was *)
(* moved; budgets, which are approved by two people and release no more    *)
(* than was reserved; deals, which the books of both entities mirror;      *)
(* assets, whose depreciation the journal has taken; and orders, which     *)
(* stand on signatures and a reservation.                                  *)
(*                                                                         *)
(* The argument for stock: a posting writes balances that it computed from *)
(* what it read, and checked; as what it read was no negative balance,     *)
(* neither is what it writes, however old the read is.  As long as         *)
(* postings take turns, what it read is still there when it writes.        *)
(***************************************************************************)
EXTENDS Procurement, Intercompany, FixedAssets, SumTheorems

StockInit ==
    /\ db = [x \in StockDocs \cup Warehouses |-> IF x \in Warehouses THEN NoStock ELSE NoStockDoc]
    /\ CallsStart
StockNext == InventoryNext \/ \E c \in Calls : CutOff(c)
StockSpec == StockInit /\ [][StockNext]_docVars

DocRow == [status : {"ABSENT", "DRAFT", "POSTED"}, variance : Int, posted : Nat]
BalanceRow == [onHand : Int, moved : Int]

PostingOps == {"postReceipt", "postIssue", "postStockTransfer", "postCount"}
StockCall == [op : {"none"} \cup PostingOps,
              at : {"idle", "balance", "destination", "commit"},
              row : StockDocs \cup {None}, arg : {None},
              seen : {None} \cup [from : Int, to : Int]]

StockTyped ==
    /\ DOMAIN db = StockDocs \cup Warehouses
    /\ db = [x \in DOMAIN db |-> db[x]]
    /\ \A d \in StockDocs : db[d] \in DocRow
    /\ \A w \in Warehouses : db[w] \in BalanceRow
    /\ call \in [Calls -> StockCall]
    /\ tidy \in BOOLEAN

\* What a posting has read, and what it has checked of that.
PostingOK(q) ==
    \/ q = Idle
    \/ /\ q.op \in PostingOps /\ q.row \in StockDocs
       /\ q.op = "postStockTransfer" <=> Kind[q.row] = "transfer"
       /\ q.at \in {"balance", "destination", "commit"}
       /\ q.at # "balance" => q.seen \in [from : Nat, to : Nat]
       /\ q.at = "commit" /\ q.op = "postStockTransfer" => q.seen.from >= Quantity[q.row]

\* What still holds of it when nothing came in between.
Current(q) ==
    q # Idle =>
        /\ db[q.row].status = "DRAFT"
        /\ q.at # "balance" => q.seen.from = db[From[q.row]].onHand
        /\ q.at = "commit" /\ q.op = "postStockTransfer" => q.seen.to = db[To[q.row]].onHand

InTurn ==
    tidy => /\ \A c, e \in Calls : call[c] # Idle /\ call[e] # Idle => c = e
            /\ \A c \in Calls : Current(call[c])

StockInv ==
    /\ StockTyped /\ StockNeverNegative /\ StockIsMovements
    /\ \A c \in Calls : PostingOK(call[c])
    /\ InTurn

-----------------------------------------------------------------------------
\* A posting reads: only what is known of it changes.
LEMMA PostingReads ==
    ASSUME StockInv, UNCHANGED db, NEW c \in Calls, NEW q \in StockCall,
           call' = [call EXCEPT ![c] = q], PostingOK(q), tidy' \in BOOLEAN,
           tidy' => tidy /\ (call[c] = Idle => Alone) /\ Current(q)
    PROVE  StockInv'
<1>1. call' \in [Calls -> StockCall] /\ call'[c] = q /\ \A e \in Calls \ {c} : call'[e] = call[e]
  BY DEF StockInv, StockTyped
<1>2. StockTyped' /\ StockNeverNegative' /\ \A e \in Calls : PostingOK(call[e])'
  BY <1>1 DEF StockInv, StockTyped, StockNeverNegative, PostingOK
<1>3. StockIsMovements'
  BY DEF StockInv, StockIsMovements, In
<1>4. InTurn'
  BY <1>1 DEF StockInv, InTurn, Current, Alone
<1> QED  BY <1>2, <1>3, <1>4 DEF StockInv

\* A document is entered while no posting is under way, or requests do not take
\* turns any more.
LEMMA DocumentEntered ==
    ASSUME StockInv, NEW d \in StockDocs, In(d, {"ABSENT"}), NEW row \in DocRow,
           row.status = "DRAFT", row.posted = db[d].posted,
           db' = [db EXCEPT ![d] = row], UNCHANGED call, tidy' = (tidy /\ Alone)
    PROVE  StockInv'
<1>1. /\ DOMAIN db' = StockDocs \cup Warehouses /\ db' = [x \in DOMAIN db' |-> db'[x]]
      /\ db'[d] = row /\ \A x \in (StockDocs \cup Warehouses) \ {d} : db'[x] = db[x]
      /\ d \notin Warehouses
  BY InventoryAssumption DEF StockInv, StockTyped
<1>2. StockTyped' /\ StockNeverNegative' /\ \A c \in Calls : PostingOK(call[c])'
  BY <1>1 DEF StockInv, StockTyped, StockNeverNegative, PostingOK
<1>3. StockIsMovements'
  BY <1>1 DEF StockInv, StockIsMovements, In
<1>4. InTurn'
  BY DEF InTurn, Alone, Current
<1> QED  BY <1>2, <1>3, <1>4 DEF StockInv

\* A posting writes the document and the balances, a and the other one b.
LEMMA PostingWrites ==
    ASSUME StockInv, NEW c \in Calls, call[c] # Idle, NEW d \in StockDocs, d = call[c].row,
           Leave(c), NEW a \in Warehouses, NEW b \in Warehouses,
           NEW m \in Int, NEW n \in Int, NEW x \in Int, NEW y \in Int,
           x >= 0, y >= 0,
           tidy => x = db[a].onHand + m /\ y = db[b].onHand + n,
           DOMAIN db' = DOMAIN db, db' = [z \in DOMAIN db' |-> db'[z]],
           db'[d] = [status |-> "POSTED", variance |-> db[d].variance, posted |-> db[d].posted + 1],
           db'[a] = [onHand |-> x, moved |-> db[a].moved + m],
           db'[b] = [onHand |-> y, moved |-> db[b].moved + n],
           \A z \in (StockDocs \cup Warehouses) \ {a, b, d} : db'[z] = db[z]
    PROVE  StockInv'
<1>1. call' \in [Calls -> StockCall] /\ call'[c] = Idle /\ \A e \in Calls \ {c} : call'[e] = call[e]
  BY DEF StockInv, StockTyped, Leave, Idle, StockCall
<1>3. /\ \A z \in StockDocs \ {d} : db'[z] = db[z]
      /\ \A w \in Warehouses \ {a, b} : db'[w] = db[w]
  BY InventoryAssumption
<1>4. StockTyped'
  BY <1>1, <1>3 DEF StockInv, StockTyped, DocRow, BalanceRow, Leave
<1>5. StockNeverNegative'
  BY <1>3 DEF StockInv, StockNeverNegative
<1>6. \A e \in Calls : PostingOK(call[e])'
  BY <1>1 DEF StockInv, PostingOK
<1>7. StockIsMovements'
  <2> SUFFICES ASSUME tidy PROVE /\ \A w \in Warehouses : db'[w].onHand = db'[w].moved
                                 /\ \A z \in StockDocs : db'[z].posted = IF In(z, {"POSTED"})' THEN 1 ELSE 0
    BY DEF StockIsMovements, Leave
  <2>1. \A w \in Warehouses : db[w].onHand = db[w].moved /\ db[w].moved \in Int
    BY DEF StockInv, StockIsMovements, StockTyped, BalanceRow
  <2>2. \A w \in Warehouses : db'[w].onHand = db'[w].moved
    BY <1>3, <2>1
  <2>3. db[d].posted = 0
    BY DEF StockInv, StockIsMovements, InTurn, Current, In
  <2>4. \A z \in StockDocs : db'[z].posted = IF In(z, {"POSTED"})' THEN 1 ELSE 0
    BY <1>3, <2>3 DEF StockInv, StockIsMovements, In
  <2> QED  BY <2>2, <2>4
<1>8. InTurn'
  BY <1>1 DEF StockInv, InTurn, Current, Leave
<1> QED  BY <1>4, <1>5, <1>6, <1>7, <1>8 DEF StockInv


LEMMA DocumentRead ==
    ASSUME StockInv, NEW c \in Calls, NEW d \in StockDocs, NEW op \in PostingOps,
           op = "postStockTransfer" <=> Kind[d] = "transfer", ReadDocument(c, op, d)
    PROVE  StockInv'
<1>1. CASE In(d, {"DRAFT"}) /\ Enter(c, op, "balance", d, None, None)
  <2>1. PICK q : q = [op |-> op, at |-> "balance", row |-> d, arg |-> None, seen |-> None]
    OBVIOUS
  <2>2. /\ q \in StockCall /\ PostingOK(q) /\ call[c] = Idle
        /\ call' = [call EXCEPT ![c] = q] /\ UNCHANGED db
        /\ tidy' \in BOOLEAN /\ (tidy' => tidy /\ Alone)
    BY <1>1, <2>1 DEF Enter, StockCall, PostingOK
  <2>3. Current(q)
    BY <1>1, <2>1 DEF Current, In
  <2> QED  BY <2>2, <2>3, PostingReads
<1>2. CASE ReadBalance(c, op, d)
  <2>0. PICK w \in Warehouses : w = From[d]
    BY InventoryAssumption
  <2>1. PICK q : q = [call[c] EXCEPT !.at = IF Kind[d] = "transfer" THEN "destination" ELSE "commit",
                                     !.seen = [from |-> db[w].onHand, to |-> 0]]
    OBVIOUS
  <2>2. /\ call[c] \in StockCall /\ call[c] # Idle /\ call[c].op = op /\ call[c].row = d
        /\ PostingOK(call[c]) /\ db[w].onHand \in Nat
    BY <1>2 DEF ReadBalance, At, Idle, PostingOps, StockInv, StockTyped, BalanceRow, StockNeverNegative
  <2>3. /\ q.op = op /\ q.row = d /\ q.at = IF Kind[d] = "transfer" THEN "destination" ELSE "commit"
        /\ q.seen = [from |-> db[w].onHand, to |-> 0] /\ q \in StockCall
    <3>1. PICK at \in {"destination", "commit"} : at = IF Kind[d] = "transfer" THEN "destination" ELSE "commit"
      OBVIOUS
    <3>0. [from |-> db[w].onHand, to |-> 0] \in [from : Int, to : Int]
      BY <2>2
    <3>2. PICK seen \in [from : Int, to : Int] : seen = [from |-> db[w].onHand, to |-> 0]
      BY <3>0
    <3>3. q = [call[c] EXCEPT !.at = at, !.seen = seen]
      BY <2>1, <3>1, <3>2
    <3> QED  BY <2>2, <3>1, <3>2, <3>3 DEF StockCall
  <2>4. /\ call' = [call EXCEPT ![c] = q] /\ UNCHANGED <<db, tidy>>
    BY <1>2, <2>0, <2>1, <2>2 DEF ReadBalance, Keep, StockInv, StockTyped
  <2>5. PostingOK(q)
    BY <2>2, <2>3 DEF PostingOK
  <2>6. tidy => Current(q)
    BY <2>0, <2>2, <2>3 DEF StockInv, InTurn, Current
  <2> QED  BY <2>2, <2>3, <2>4, <2>5, <2>6, PostingReads DEF StockInv, StockTyped
<1> QED  BY <1>1, <1>2 DEF ReadDocument

\* A posting that is refused, or a request that is cut off, writes nothing.
LEMMA PostingGone ==
    ASSUME StockInv, NEW c \in Calls, UNCHANGED db, call' = [call EXCEPT ![c] = Idle],
           tidy' \in BOOLEAN, tidy' => tidy, call[c] # Idle
    PROVE  StockInv'
<1>1. Idle \in StockCall /\ PostingOK(Idle) /\ Current(Idle)
  BY DEF Idle, StockCall, PostingOK, Current
<1> QED  BY <1>1, PostingReads

LEMMA DocumentMoved ==
    ASSUME StockInv, NEW c \in Calls, NEW d \in StockDocs, NEW op \in PostingOps,
           Kind[d] # "transfer", NEW quantity \in Int, Move(c, op, d, quantity)
    PROVE  StockInv'
<1>0. PICK w \in Warehouses : w = From[d]
  BY InventoryAssumption
<1>1. /\ call[c].row = d /\ call[c] # Idle /\ PostingOK(call[c]) /\ Leave(c)
      /\ call[c].at = "commit" /\ w # d
  BY <1>0, InventoryAssumption DEF Move, At, Idle, PostingOps, StockInv
<1>2. call[c].seen.from \in Int
  BY <1>1 DEF PostingOK
<1>3. CASE call[c].seen.from + quantity >= 0
  <2>1. PICK x \in Int : x = call[c].seen.from + quantity
    BY <1>2
  <2>2. db' = [db EXCEPT ![w].onHand = x, ![w].moved = @ + quantity,
                         ![d].status = "POSTED", ![d].posted = @ + 1]
    BY <1>0, <1>3, <2>1 DEF Move
  <2>3. /\ DOMAIN db' = DOMAIN db /\ db' = [z \in DOMAIN db' |-> db'[z]]
        /\ db'[d] = [status |-> "POSTED", variance |-> db[d].variance, posted |-> db[d].posted + 1]
        /\ db'[w] = [onHand |-> x, moved |-> db[w].moved + quantity]
        /\ \A z \in (StockDocs \cup Warehouses) \ {w, d} : db'[z] = db[z]
    BY <1>1, <2>2 DEF StockInv, StockTyped, BalanceRow, DocRow
  <2>4. x >= 0 /\ (tidy => x = db[w].onHand + quantity)
    BY <1>0, <1>1, <1>3, <2>1 DEF StockInv, InTurn, Current
  <2> QED  BY SMTT(30), <1>1, <2>3, <2>4, PostingWrites
<1>4. CASE ~(call[c].seen.from + quantity >= 0)
  <2>1. UNCHANGED <<db, tidy>> /\ call' = [call EXCEPT ![c] = Idle] /\ tidy \in BOOLEAN
    BY SMTT(30), <1>4 DEF Move, Leave, StockInv, StockTyped
  <2> QED  BY <1>1, <2>1, PostingGone
<1> QED  BY <1>3, <1>4

LEMMA TransferMoved ==
    ASSUME StockInv, NEW c \in Calls, NEW d \in StockDocs, PostStockTransfer(c, d)
    PROVE  StockInv'
<1>0. PICK a \in Warehouses, b \in Warehouses : a = From[d] /\ b = To[d]
  BY SMTT(30), InventoryAssumption
<1>1. /\ Kind[d] = "transfer" /\ a # b /\ a # d /\ b # d /\ Quantity[d] \in Nat
  BY ZenonT(40), <1>0, InventoryAssumption DEF PostStockTransfer
<1>2. CASE ReadDocument(c, "postStockTransfer", d)
  BY <1>1, <1>2, DocumentRead DEF PostingOps
<1>3. CASE /\ At(c, "postStockTransfer", "destination", d, None) /\ ~Held(From[d], c)
           /\ IF call[c].seen.from >= Quantity[d]
              THEN Keep(c, "commit", [call[c].seen EXCEPT !.to = db[To[d]].onHand])
              ELSE Leave(c)
           /\ UNCHANGED db
  <2>1. /\ call[c] \in StockCall /\ call[c] # Idle /\ PostingOK(call[c])
        /\ call[c].row = d /\ call[c].op = "postStockTransfer" /\ call[c].at = "destination"
        /\ call[c].seen \in [from : Nat, to : Nat] /\ db[b].onHand \in Nat
    BY <1>0, <1>3 DEF At, Idle, PostingOK, StockInv, StockTyped, BalanceRow, StockNeverNegative
  <2>2. CASE call[c].seen.from >= Quantity[d]
    <3>1. PICK q : q = [call[c] EXCEPT !.at = "commit",
                                       !.seen = [call[c].seen EXCEPT !.to = db[b].onHand]]
      OBVIOUS
    <3>2. /\ q.op = "postStockTransfer" /\ q.row = d /\ q.at = "commit"
          /\ q.seen = [from |-> call[c].seen.from, to |-> db[b].onHand] /\ q \in StockCall
      <4>0. /\ [from |-> call[c].seen.from, to |-> db[b].onHand] \in [from : Int, to : Int]
            /\ [call[c].seen EXCEPT !.to = db[b].onHand] = [from |-> call[c].seen.from, to |-> db[b].onHand]
        BY <2>1
      <4>1. PICK seen \in [from : Int, to : Int] :
                /\ seen = [call[c].seen EXCEPT !.to = db[b].onHand]
                /\ seen = [from |-> call[c].seen.from, to |-> db[b].onHand]
        BY <4>0
      <4>2. q = [call[c] EXCEPT !.at = "commit", !.seen = seen]
        BY <3>1, <4>1
      <4> QED  BY <2>1, <4>1, <4>2 DEF StockCall
    <3>3. call' = [call EXCEPT ![c] = q] /\ UNCHANGED <<db, tidy>>
      BY <1>0, <1>3, <2>1, <2>2, <3>1 DEF Keep, StockInv, StockTyped
    <3>4. PostingOK(q)
      BY <1>1, <2>1, <2>2, <3>2 DEF PostingOK, PostingOps
    <3>5. tidy => Current(q)
      BY <1>0, <2>1, <3>2 DEF StockInv, InTurn, Current
    <3> QED  BY <2>1, <3>2, <3>3, <3>4, <3>5, PostingReads DEF StockInv, StockTyped
  <2>3. CASE ~(call[c].seen.from >= Quantity[d])
    BY <1>3, <2>1, <2>3, PostingGone DEF Leave, StockInv, StockTyped
  <2> QED  BY <2>2, <2>3
<1>4. CASE /\ At(c, "postStockTransfer", "commit", d, None) /\ ~Held(To[d], c)
           /\ db' = [db EXCEPT ![From[d]].onHand = call[c].seen.from - Quantity[d],
                               ![From[d]].moved = @ - Quantity[d],
                               ![To[d]].onHand = call[c].seen.to + Quantity[d],
                               ![To[d]].moved = @ + Quantity[d],
                               ![d].status = "POSTED", ![d].posted = @ + 1]
           /\ Leave(c)
  <2>1. /\ call[c] # Idle /\ PostingOK(call[c])
        /\ call[c].row = d /\ call[c].op = "postStockTransfer" /\ call[c].at = "commit"
        /\ call[c].seen \in [from : Nat, to : Nat] /\ call[c].seen.from >= Quantity[d]
    <3>0. At(c, "postStockTransfer", "commit", d, None)
      BY ZenonT(40), <1>4
    <3>1. PostingOK(call[c]) /\ call[c] # Idle
      BY <3>0 DEF At, Idle, StockInv
    <3> QED  BY <3>0, <3>1 DEF At, PostingOK
  <2>2. PICK m \in Int, n \in Int : m = -Quantity[d] /\ n = Quantity[d]
    BY <1>1
  <2>3. PICK x \in Int, y \in Int : x = call[c].seen.from + m /\ y = call[c].seen.to + n
    BY <2>1, <2>2
  <2>4. /\ db[a] \in BalanceRow /\ db[b] \in BalanceRow
        /\ db[a].moved - Quantity[d] = db[a].moved + m
        /\ call[c].seen.from - Quantity[d] = x
    BY SMTT(30), <1>1, <2>1, <2>2, <2>3 DEF StockInv, StockTyped, BalanceRow
  <2>5. db' = [db EXCEPT ![a].onHand = x, ![a].moved = db[a].moved + m,
                         ![b].onHand = y, ![b].moved = db[b].moved + n,
                         ![d].status = "POSTED", ![d].posted = @ + 1]
    BY ZenonT(40), <1>0, <1>1, <1>4, <2>2, <2>3, <2>4 DEF StockInv, StockTyped
  <2>6. /\ DOMAIN db' = DOMAIN db /\ db' = [z \in DOMAIN db' |-> db'[z]]
        /\ db'[d] = [status |-> "POSTED", variance |-> db[d].variance, posted |-> db[d].posted + 1]
        /\ db'[a] = [onHand |-> x, moved |-> db[a].moved + m]
        /\ db'[b] = [onHand |-> y, moved |-> db[b].moved + n]
        /\ \A z \in (StockDocs \cup Warehouses) \ {a, b, d} : db'[z] = db[z]
    <3>1. db[d] \in DocRow /\ DOMAIN db = StockDocs \cup Warehouses /\ db = [z \in DOMAIN db |-> db[z]]
      BY DEF StockInv, StockTyped
    <3>2. DOMAIN db' = DOMAIN db /\ db' = [z \in DOMAIN db' |-> db'[z]]
      BY ZenonT(40), <2>5
    <3>3. \A z \in (StockDocs \cup Warehouses) \ {a, b, d} : db'[z] = db[z]
      BY <2>5, <3>1
    <3>4. db'[d] = [db[d] EXCEPT !.status = "POSTED", !.posted = db[d].posted + 1]
      BY <1>1, <2>5, <3>1
    <3>5. /\ db'[a] = [db[a] EXCEPT !.onHand = x, !.moved = db[a].moved + m]
          /\ db'[b] = [db[b] EXCEPT !.onHand = y, !.moved = db[b].moved + n]
      BY <1>1, <2>5, <3>1
    <3> QED  BY ZenonT(40), <2>4, <3>1, <3>2, <3>3, <3>4, <3>5 DEF BalanceRow, DocRow
  <2>7. x >= 0 /\ y >= 0
    BY <1>1, <2>1, <2>2, <2>3
  <2>8. tidy => x = db[a].onHand + m /\ y = db[b].onHand + n
    BY SMTT(30), <1>0, <2>1, <2>3 DEF StockInv, InTurn, Current
  <2>9. Leave(c)
    BY ZenonT(40), <1>4
  <2> QED  BY SMTT(30), <2>1, <2>6, <2>7, <2>8, <2>9, PostingWrites
<1> QED  BY ZenonT(40), <1>2, <1>3, <1>4 DEF PostStockTransfer

LEMMA StockStep == StockInv /\ [StockNext]_docVars => StockInv'
<1> SUFFICES ASSUME StockInv, [StockNext]_docVars PROVE StockInv'
  OBVIOUS
<1>1. ASSUME NEW d \in StockDocs, CreateStockDoc(d) PROVE StockInv'
  <2>1. PICK row : row = [db[d] EXCEPT !.status = "DRAFT"]
    OBVIOUS
  <2>2. row \in DocRow /\ row.status = "DRAFT" /\ row.posted = db[d].posted
    BY <2>1 DEF StockInv, StockTyped, DocRow
  <2>3. db' = [db EXCEPT ![d] = row]
    BY <1>1, <2>1 DEF CreateStockDoc, Statement, Becomes
  <2> QED  BY <1>1, <2>2, <2>3, DocumentEntered DEF CreateStockDoc, Statement
<1>2. ASSUME NEW d \in StockDocs, CreateStockCount(d) PROVE StockInv'
  <2>0. Quantity[d] - db[From[d]].onHand \in Int
    BY InventoryAssumption DEF StockInv, StockTyped, BalanceRow
  <2>1. PICK row : row = [db[d] EXCEPT !.status = "DRAFT", !.variance = Quantity[d] - db[From[d]].onHand]
    OBVIOUS
  <2>2. row \in DocRow /\ row.status = "DRAFT" /\ row.posted = db[d].posted
    BY <2>0, <2>1 DEF StockInv, StockTyped, DocRow
  <2>3. db' = [db EXCEPT ![d] = row]
    BY <1>2, <2>1 DEF CreateStockCount, Statement, StockInv, StockTyped, DocRow
  <2> QED  BY <1>2, <2>2, <2>3, DocumentEntered DEF CreateStockCount, Statement
<1>3. ASSUME NEW d \in StockDocs, NEW c \in Calls, PostGoodsReceipt(c, d) PROVE StockInv'
  BY <1>3, DocumentRead, DocumentMoved, InventoryAssumption DEF PostGoodsReceipt, PostingOps
<1>4. ASSUME NEW d \in StockDocs, NEW c \in Calls, PostMaterialIssue(c, d) PROVE StockInv'
  <2>1. -Quantity[d] \in Int
    BY InventoryAssumption
  <2> QED  BY <1>4, <2>1, DocumentRead, DocumentMoved DEF PostMaterialIssue, PostingOps
<1>5. ASSUME NEW d \in StockDocs, NEW c \in Calls, PostStockCount(c, d) PROVE StockInv'
  <2>1. db[d].variance \in Int
    BY DEF StockInv, StockTyped, DocRow
  <2> QED  BY <1>5, <2>1, DocumentRead, DocumentMoved DEF PostStockCount, PostingOps
<1>6. ASSUME NEW c \in Calls, CutOff(c) PROVE StockInv'
  BY <1>6, PostingGone DEF CutOff
<1>7. ASSUME UNCHANGED docVars PROVE StockInv'
  BY <1>7 DEF docVars, StockInv, StockTyped, StockNeverNegative, StockIsMovements, PostingOK,
              InTurn, Current, In
<1> QED
  BY <1>1, <1>2, <1>3, <1>4, <1>5, <1>6, <1>7, TransferMoved DEF StockNext, InventoryNext

LEMMA StockInitInv == StockInit => StockInv
<1> SUFFICES ASSUME StockInit PROVE StockInv
  OBVIOUS
<1>1. \A c \in Calls : call[c] = Idle
  BY DEF StockInit, CallsStart
<1>2. /\ \A w \in Warehouses : db[w] = NoStock
      /\ \A d \in StockDocs : db[d] = NoStockDoc
  BY InventoryAssumption DEF StockInit
<1>3. StockTyped
  BY <1>1, <1>2 DEF StockInit, CallsStart, StockTyped, NoStock, NoStockDoc, DocRow, BalanceRow,
                    Idle, StockCall
<1> QED
  BY <1>1, <1>2, <1>3 DEF StockInv, StockNeverNegative, StockIsMovements, PostingOK, InTurn,
                          Current, In, NoStock, NoStockDoc

\* For any number of warehouses, documents and requests: no balance is ever
\* negative, although postings write what they computed from old reads; and
\* while postings take turns, every balance is the sum of its movements and no
\* document is moved twice.
THEOREM StockIsAlwaysSound == StockSpec => []StockSound
<1>1. StockInv => StockSound
  BY DEF StockInv, StockTyped, DocRow, BalanceRow, StockSound, InventoryTypeOK
<1> QED  BY <1>1, StockInitInv, StockStep, PTL DEF StockSpec

-----------------------------------------------------------------------------
(* Budgets and commitments.  A checker is only ever written over a budget    *)
(* that has another maker, and its maker stays; a release writes no more     *)
(* than the commitment, whose amount stays, had room for.                    *)

BudgetInit ==
    /\ \E planned \in [Lines -> Nat] :
          db = [x \in Budgets \cup Lines \cup Commitments |->
                   IF x \in Budgets THEN NoBudget
                   ELSE IF x \in Lines THEN NewLine(planned[x]) ELSE NoCommitment]
    /\ CallsStart
BudgetSystem == BudgetNext \/ \E c \in Calls : CutOff(c)
BudgetSpec == BudgetInit /\ [][BudgetSystem]_docVars

BudgetStatus == {"ABSENT", "DRAFT", "SUBMITTED", "APPROVED", "REJECTED", "CLOSED"}
BudgetRow == [status : BudgetStatus, maker : Users \cup {None}, checker : Users \cup {None}]
LineRow == [revised : Int, actual : Nat]
CommitmentStatus == Open \cup {"ABSENT", "RELEASED", "CANCELLED"}
CommitmentRow == [status : CommitmentStatus, line : Lines \cup {None}, amount : Nat,
                  released : Nat, source : {None}]

BudgetRows ==
    /\ db = [x \in Budgets \cup Lines \cup Commitments |-> db[x]]
    /\ \A b \in Budgets : db[b] \in BudgetRow /\ (In(b, {"ABSENT"}) => db[b].checker = None)
    /\ \A l \in Lines : db[l] \in LineRow
    /\ \A k \in Commitments : db[k] \in CommitmentRow

BudgetTyped ==
    /\ BudgetRows
    /\ call = [c \in Calls |-> call[c]] /\ CallTypeOK

\* What a request has read of the row it is going to write, and still holds.
BudgetCallOK(q) ==
    /\ q.op \in {"submit", "approve", "reject", "close"} =>
          q.row \in Budgets /\ ~In(q.row, {"ABSENT"})
    /\ q.op = "approve" => q.arg \in Users /\ q.arg # db[q.row].maker
    /\ q.op = "close" => FourEyes(q.row)
    /\ q.op = "transfer" => q.arg[1] # q.row /\ BudgetOf[q.arg[1]] = BudgetOf[q.row]
    /\ q.op = "releaseCommitment" =>
          /\ q.row \in Commitments /\ ~In(q.row, {"ABSENT"})
          /\ q.seen \in Nat /\ q.arg \in Nat /\ q.seen + q.arg <= db[q.row].amount

BudgetInv ==
    /\ BudgetTyped /\ BudgetFourEyes /\ ReleasedWithin
    /\ \A c \in Calls : BudgetCallOK(call[c])

\* What requests rely on: nothing that exists disappears, budgets keep their
\* makers and commitments their amounts.
BudgetsStay ==
    /\ \A b \in Budgets : ~In(b, {"ABSENT"}) =>
          ~In(b, {"ABSENT"})' /\ db'[b].maker = db[b].maker /\ (FourEyes(b) => FourEyes(b)')
    /\ \A k \in Commitments : ~In(k, {"ABSENT"}) =>
          ~In(k, {"ABSENT"})' /\ db'[k].amount = db[k].amount

\* Whatever stays for requests keeps what they hold.
LEMMA BudgetCallsGoOn ==
    ASSUME BudgetsStay, NEW q, BudgetCallOK(q)
    PROVE  BudgetCallOK(q)'
BY DEF BudgetsStay, BudgetCallOK

\* A request enters.
LEMMA BudgetEnters ==
    ASSUME BudgetInv, NEW c \in Calls, NEW op, NEW at, NEW x, NEW arg, NEW seen,
           Enter(c, op, at, x, arg, seen), op # "none", at # "idle",
           BudgetCallOK([op |-> op, at |-> at, row |-> x, arg |-> arg, seen |-> seen])
    PROVE  BudgetInv'
<1>1. PICK q : q = [op |-> op, at |-> at, row |-> x, arg |-> arg, seen |-> seen]
  OBVIOUS
<1>2. /\ call' = [call EXCEPT ![c] = q] /\ UNCHANGED db /\ tidy' \in BOOLEAN
      /\ DOMAIN q = DOMAIN Idle /\ q.op # "none" /\ q.at # "idle" /\ BudgetCallOK(q)
  BY <1>1 DEF Enter, Idle, BudgetInv, BudgetTyped, CallTypeOK
<1>3. /\ call' = [e \in Calls |-> call'[e]] /\ call'[c] = q
      /\ \A e \in Calls \ {c} : call'[e] = call[e]
  BY <1>2 DEF BudgetInv, BudgetTyped
<1>4. CallTypeOK'
  BY <1>2, <1>3 DEF BudgetInv, BudgetTyped, CallTypeOK
<1>5. BudgetRows' /\ BudgetFourEyes' /\ ReleasedWithin'
  BY <1>2 DEF BudgetInv, BudgetTyped, BudgetRows, BudgetFourEyes, FourEyes, ReleasedWithin, In
<1>6. \A e \in Calls : BudgetCallOK(call[e])'
  <2>1. BudgetsStay
    BY <1>2 DEF BudgetsStay, In, FourEyes
  <2>2. ASSUME NEW e \in Calls PROVE BudgetCallOK(call[e])'
    <3>1. PICK p : p = call'[e]
      OBVIOUS
    <3>2. BudgetCallOK(p)
      BY <1>2, <1>3, <3>1 DEF BudgetInv
    <3>3. BudgetCallOK(p)'
      BY <2>1, <3>2, BudgetCallsGoOn
    <3> QED  BY <3>1, <3>3 DEF BudgetCallOK
  <2> QED  BY <2>2
<1> QED  BY <1>3, <1>4, <1>5, <1>6 DEF BudgetInv, BudgetTyped

\* Rows are written, by a statement or by a request that leaves.
LEMMA BudgetWritten ==
    ASSUME BudgetInv, BudgetsStay, BudgetRows', BudgetFourEyes', ReleasedWithin',
           tidy' \in BOOLEAN,
           UNCHANGED call \/ \E c \in Calls : call' = [call EXCEPT ![c] = Idle]
    PROVE  BudgetInv'
<1>1. /\ call' = [e \in Calls |-> call'[e]]
      /\ \A e \in Calls : call'[e] = call[e] \/ call'[e] = Idle
  BY DEF BudgetInv, BudgetTyped
<1>2. CallTypeOK'
  BY <1>1 DEF BudgetInv, BudgetTyped, CallTypeOK, Idle
<1>3. ASSUME NEW e \in Calls PROVE BudgetCallOK(call[e])'
  <2>1. PICK p : p = call'[e]
    OBVIOUS
  <2>2. BudgetCallOK(Idle)
    BY DEF BudgetCallOK, Idle
  <2>3. BudgetCallOK(p)
    BY <1>1, <2>1, <2>2 DEF BudgetInv
  <2>4. BudgetCallOK(p)'
    BY <2>3, BudgetCallsGoOn
  <2> QED  BY <2>1, <2>4 DEF BudgetCallOK
<1> QED  BY <1>1, <1>2, <1>3 DEF BudgetInv, BudgetTyped

\* A budget is written, and nothing else.
LEMMA OneBudgetWritten ==
    ASSUME BudgetInv, NEW b \in Budgets, NEW row \in BudgetRow, db' = [db EXCEPT ![b] = row],
           row.status # "ABSENT",
           db[b].status # "ABSENT" => row.maker = db[b].maker,
           FourEyes(b) => row.checker \notin {None, row.maker},
           row.status \in {"APPROVED", "CLOSED"} => row.checker \notin {None, row.maker},
           tidy' \in BOOLEAN,
           UNCHANGED call \/ \E c \in Calls : call' = [call EXCEPT ![c] = Idle]
    PROVE  BudgetInv'
<1>1. /\ db' = [x \in Budgets \cup Lines \cup Commitments |-> db'[x]]
      /\ db'[b] = row /\ \A x \in (Budgets \cup Lines \cup Commitments) \ {b} : db'[x] = db[x]
      /\ b \notin Lines /\ b \notin Commitments
  BY BudgetAssumption DEF BudgetInv, BudgetTyped, BudgetRows
<1>2. BudgetRows'
  BY <1>1 DEF BudgetInv, BudgetTyped, BudgetRows, In
<1>3. BudgetsStay
  BY <1>1 DEF BudgetsStay, In, FourEyes
<1>4. BudgetFourEyes' /\ ReleasedWithin'
  BY <1>1 DEF BudgetInv, BudgetFourEyes, ReleasedWithin, In, FourEyes
<1> QED  BY <1>2, <1>3, <1>4, BudgetWritten

\* The lines are written, and nothing else.
LEMMA LinesWritten ==
    ASSUME BudgetInv, db' = [x \in Budgets \cup Lines \cup Commitments |-> db'[x]],
           \A x \in Lines : db'[x] \in LineRow,
           \A x \in Budgets \cup Commitments : db'[x] = db[x], tidy' \in BOOLEAN,
           \E c \in Calls : call' = [call EXCEPT ![c] = Idle]
    PROVE  BudgetInv'
<1>1. BudgetRows'
  BY DEF BudgetInv, BudgetTyped, BudgetRows, In
<1>2. BudgetsStay
  BY DEF BudgetsStay, In, FourEyes
<1>3. BudgetFourEyes' /\ ReleasedWithin'
  BY DEF BudgetInv, BudgetFourEyes, ReleasedWithin, In, FourEyes
<1> QED  BY <1>1, <1>2, <1>3, BudgetWritten

\* A commitment is written, and nothing else.
LEMMA CommitmentWritten ==
    ASSUME BudgetInv, NEW k \in Commitments, NEW row \in CommitmentRow, db' = [db EXCEPT ![k] = row],
           db[k].status # "ABSENT" => row.status # "ABSENT" /\ row.amount = db[k].amount,
           row.released <= row.amount, tidy' \in BOOLEAN,
           \E c \in Calls : call' = [call EXCEPT ![c] = Idle]
    PROVE  BudgetInv'
<1>1. /\ db' = [x \in Budgets \cup Lines \cup Commitments |-> db'[x]]
      /\ db'[k] = row /\ \A x \in (Budgets \cup Lines \cup Commitments) \ {k} : db'[x] = db[x]
      /\ k \notin Lines /\ k \notin Budgets
  BY BudgetAssumption DEF BudgetInv, BudgetTyped, BudgetRows
<1>2. BudgetRows'
  BY <1>1 DEF BudgetInv, BudgetTyped, BudgetRows, In
<1>3. BudgetsStay
  BY <1>1 DEF BudgetsStay, In, FourEyes
<1>4. BudgetFourEyes' /\ ReleasedWithin'
  BY <1>1 DEF BudgetInv, BudgetFourEyes, ReleasedWithin, In, FourEyes
<1> QED  BY <1>2, <1>3, <1>4, BudgetWritten

-----------------------------------------------------------------------------
\* A request leaves, and leaves the requests well typed.
LEMMA BudgetLeaves ==
    ASSUME NEW c \in Calls, BudgetInv, Leave(c)
    PROVE  tidy' \in BOOLEAN /\ \E e \in Calls : call' = [call EXCEPT ![e] = Idle]
BY DEF Leave, BudgetInv, BudgetTyped, CallTypeOK

\* A handler that gives a budget another status.
LEMMA BudgetStatusWritten ==
    ASSUME BudgetInv, NEW c \in Calls, NEW b \in Budgets, NEW status \in BudgetStatus \ {"ABSENT"},
           status = "CLOSED" => FourEyes(b), status # "APPROVED",
           Becomes(b, status), Leave(c)
    PROVE  BudgetInv'
<1>1. PICK row : row = [db[b] EXCEPT !.status = status]
  OBVIOUS
<1>2. db[b] \in BudgetRow
  BY DEF BudgetInv, BudgetTyped, BudgetRows
<1>3. /\ row \in BudgetRow /\ row.status = status
      /\ row.maker = db[b].maker /\ row.checker = db[b].checker
  BY <1>1, <1>2 DEF BudgetRow
<1>4. db' = [db EXCEPT ![b] = row]
  BY <1>1 DEF Becomes
<1> QED  BY <1>3, <1>4, BudgetLeaves, OneBudgetWritten DEF FourEyes

LEMMA ApprovalsKeep == ASSUME BudgetInv, ApprovalsNext PROVE BudgetInv'
<1>1. ASSUME NEW b \in Budgets, NEW u \in Users, CreateBudget(b, u) PROVE BudgetInv'
  <2>1. PICK row : row = [db[b] EXCEPT !.status = "DRAFT", !.maker = u]
    OBVIOUS
  <2>2. db[b] \in BudgetRow /\ db[b].status = "ABSENT" /\ db[b].checker = None
        /\ tidy' \in BOOLEAN /\ UNCHANGED call
    BY <1>1 DEF CreateBudget, Statement, In, BudgetInv, BudgetTyped, BudgetRows, CallTypeOK
  <2>3. row \in BudgetRow /\ row.status = "DRAFT" /\ row.checker = db[b].checker /\ row.maker = u
    BY <2>1, <2>2 DEF BudgetRow, BudgetStatus
  <2>4. db' = [db EXCEPT ![b] = row]
    BY <1>1, <2>1 DEF CreateBudget, Statement
  <2>5. ~FourEyes(b) \/ row.checker \notin {None, row.maker}
    BY <2>2 DEF FourEyes
  <2> QED  BY <2>2, <2>3, <2>4, <2>5, OneBudgetWritten
<1>2. ASSUME NEW b \in Budgets, NEW c \in Calls, SubmitBudget(c, b) PROVE BudgetInv'
  <2>1. CASE In(b, {"DRAFT", "REJECTED"}) /\ Enter(c, "submit", "write", b, None, None)
    BY <2>1, BudgetEnters DEF BudgetCallOK, In
  <2>2. CASE At(c, "submit", "write", b, None) /\ Becomes(b, "SUBMITTED") /\ Leave(c)
    BY <2>2, BudgetStatusWritten DEF BudgetStatus
  <2> QED  BY <1>2, <2>1, <2>2 DEF SubmitBudget, Handler
<1>3. ASSUME NEW b \in Budgets, NEW c \in Calls, RejectBudget(c, b) PROVE BudgetInv'
  <2>1. CASE In(b, {"SUBMITTED"}) /\ Enter(c, "reject", "write", b, None, None)
    BY <2>1, BudgetEnters DEF BudgetCallOK, In
  <2>2. CASE At(c, "reject", "write", b, None) /\ Becomes(b, "REJECTED") /\ Leave(c)
    BY <2>2, BudgetStatusWritten DEF BudgetStatus
  <2> QED  BY <1>3, <2>1, <2>2 DEF RejectBudget, Handler
<1>4. ASSUME NEW b \in Budgets, NEW c \in Calls, CloseBudget(c, b) PROVE BudgetInv'
  <2>1. CASE In(b, {"APPROVED"}) /\ Enter(c, "close", "write", b, None, None)
    <3>1. FourEyes(b) /\ ~In(b, {"ABSENT"})
      BY <2>1 DEF BudgetInv, BudgetFourEyes, In
    <3> QED  BY <2>1, <3>1, BudgetEnters DEF BudgetCallOK
  <2>2. CASE At(c, "close", "write", b, None) /\ Becomes(b, "CLOSED") /\ Leave(c)
    <3>1. FourEyes(b)
      BY <2>2 DEF At, BudgetInv, BudgetCallOK
    <3> QED  BY <2>2, <3>1, BudgetStatusWritten DEF BudgetStatus
  <2> QED  BY <1>4, <2>1, <2>2 DEF CloseBudget, Handler
<1>5. ASSUME NEW b \in Budgets, NEW c \in Calls, NEW u \in Users, ApproveBudget(c, b, u) PROVE BudgetInv'
  <2>1. CASE In(b, {"SUBMITTED"}) /\ db[b].maker # u /\ Enter(c, "approve", "write", b, u, None)
    BY <2>1, BudgetEnters DEF BudgetCallOK, In
  <2>2. CASE At(c, "approve", "write", b, u) /\ ApprovedBy(u, b, "APPROVED") /\ Leave(c)
    <3>1. db[b].maker # u /\ u # None /\ db[b] \in BudgetRow
      BY <2>2, BudgetAssumption DEF At, BudgetInv, BudgetCallOK, BudgetTyped, BudgetRows
    <3>2. PICK row : row = [db[b] EXCEPT !.status = "APPROVED", !.checker = u]
      OBVIOUS
    <3>3. row \in BudgetRow /\ row.status = "APPROVED" /\ row.maker = db[b].maker /\ row.checker = u
      BY <3>1, <3>2 DEF BudgetRow, BudgetStatus
    <3>4. db' = [db EXCEPT ![b] = row]
      BY <2>2, <3>2 DEF ApprovedBy
    <3> QED  BY <2>2, <3>1, <3>3, <3>4, BudgetLeaves, OneBudgetWritten
  <2> QED  BY <1>5, <2>1, <2>2 DEF ApproveBudget, Handler
<1> QED  BY <1>1, <1>2, <1>3, <1>4, <1>5 DEF ApprovalsNext

LEMMA RevisionKeeps ==
    ASSUME BudgetInv, NEW c \in Calls, NEW l \in Lines, NEW amount \in Amounts, Revise(c, l, amount)
    PROVE  BudgetInv'
<1>1. CASE In(BudgetOf[l], {"APPROVED"}) /\ Enter(c, "revise", "write", l, amount, None)
  BY <1>1, BudgetEnters DEF BudgetCallOK
<1>2. CASE At(c, "revise", "write", l, amount) /\ db' = [db EXCEPT ![l].revised = amount] /\ Leave(c)
  <2>1. amount \in Int
    BY BudgetAssumption
  <2>2. /\ db' = [x \in Budgets \cup Lines \cup Commitments |-> db'[x]]
        /\ \A x \in Budgets \cup Commitments : db'[x] = db[x]
    BY <1>2, BudgetAssumption DEF BudgetInv, BudgetTyped, BudgetRows
  <2>3. \A x \in Lines : db'[x] \in LineRow
    BY <1>2, <2>1 DEF BudgetInv, BudgetTyped, BudgetRows, LineRow
  <2> QED  BY <1>2, <2>2, <2>3, BudgetLeaves, LinesWritten
<1> QED  BY <1>1, <1>2 DEF Revise, Handler

LEMMA TransferKeeps ==
    ASSUME BudgetInv, NEW c \in Calls, NEW l \in Lines, NEW m \in Lines, NEW amount \in Amounts,
           Transfer(c, l, m, amount)
    PROVE  BudgetInv'
<1>1. CASE l # m /\ BudgetOf[l] = BudgetOf[m] /\ Enter(c, "transfer", "write", l, <<m, amount>>, None)
  BY <1>1, BudgetEnters DEF BudgetCallOK
<1>2. CASE /\ At(c, "transfer", "write", l, <<m, amount>>)
           /\ db' = [db EXCEPT ![l].revised = @ - amount, ![m].revised = @ + amount]
           /\ Leave(c)
  <2>0. l # m
    BY <1>2 DEF At, BudgetInv, BudgetCallOK
  <2>1. amount \in Int
    BY BudgetAssumption
  <2>2. /\ db' = [x \in Budgets \cup Lines \cup Commitments |-> db'[x]]
        /\ \A x \in Budgets \cup Commitments : db'[x] = db[x]
    BY <1>2, BudgetAssumption DEF BudgetInv, BudgetTyped, BudgetRows
  <2>3. \A x \in Lines : db'[x] \in LineRow
    <3> SUFFICES ASSUME NEW x \in Lines PROVE db'[x] \in LineRow
      OBVIOUS
    <3>1. /\ db = [y \in Budgets \cup Lines \cup Commitments |-> db[y]]
          /\ db[x] \in LineRow /\ db[l] \in LineRow /\ db[m] \in LineRow
      BY DEF BudgetInv, BudgetTyped, BudgetRows
    <3>2. CASE x # l /\ x # m
      BY <1>2, <3>1, <3>2
    <3>3. CASE x = l /\ l # m
      <4>1. db'[x] = [db[x] EXCEPT !.revised = db[x].revised - amount]
        BY <1>2, <3>1, <3>3
      <4> QED  BY <2>1, <3>1, <4>1 DEF LineRow
    <3>4. CASE x = m /\ l # m
      <4>1. db'[x] = [db[x] EXCEPT !.revised = db[x].revised + amount]
        BY <1>2, <3>1, <3>4
      <4> QED  BY <2>1, <3>1, <4>1 DEF LineRow
    <3> QED  BY <2>0, <3>2, <3>3, <3>4
  <2> QED  BY <1>2, <2>2, <2>3, BudgetLeaves, LinesWritten
<1> QED  BY <1>1, <1>2 DEF Transfer, Handler

LEMMA CommitmentKeeps ==
    ASSUME BudgetInv, NEW c \in Calls, NEW l \in Lines, NEW amount \in Amounts,
           CreateCommitment(c, l, amount)
    PROVE  BudgetInv'
<1>1. CASE Enter(c, "createCommitment", "write", l, amount, None)
  BY <1>1, BudgetEnters DEF BudgetCallOK
<1>2. CASE (\E k \in Commitments : Reserve(k, l, amount, None)) /\ Leave(c)
  <2>1. PICK k \in Commitments : Reserve(k, l, amount, None)
    BY <1>2
  <2>2. PICK row : row = [status |-> "OPEN", line |-> l, amount |-> amount, released |-> 0, source |-> None]
    OBVIOUS
  <2>3. amount \in Nat
    BY BudgetAssumption
  <2>4. row \in CommitmentRow /\ row.released <= row.amount
    BY <2>2, <2>3 DEF CommitmentRow, CommitmentStatus, Open
  <2>5. db' = [db EXCEPT ![k] = row] /\ db[k].status = "ABSENT"
    BY <2>1, <2>2 DEF Reserve, In
  <2> QED  BY <1>2, <2>4, <2>5, BudgetLeaves, CommitmentWritten
<1> QED  BY <1>1, <1>2 DEF CreateCommitment, Handler

LEMMA CancellationKeeps ==
    ASSUME BudgetInv, NEW c \in Calls, NEW k \in Commitments, CancelCommitment(c, k)
    PROVE  BudgetInv'
<1>1. CASE Enter(c, "cancelCommitment", "write", k, None, None)
  BY <1>1, BudgetEnters DEF BudgetCallOK
<1>2. CASE Becomes(k, "CANCELLED") /\ Leave(c)
  <2>1. db[k] \in CommitmentRow /\ db[k].released <= db[k].amount
    BY DEF BudgetInv, BudgetTyped, BudgetRows, ReleasedWithin
  <2>2. PICK row : row = [db[k] EXCEPT !.status = "CANCELLED"]
    OBVIOUS
  <2>3. /\ row \in CommitmentRow /\ row.status = "CANCELLED"
        /\ row.amount = db[k].amount /\ row.released = db[k].released
    BY <2>1, <2>2 DEF CommitmentRow, CommitmentStatus
  <2>4. db' = [db EXCEPT ![k] = row]
    BY <1>2, <2>2 DEF Becomes
  <2> QED  BY <1>2, <2>1, <2>3, <2>4, BudgetLeaves, CommitmentWritten
<1> QED  BY <1>1, <1>2 DEF CancelCommitment, Handler

LEMMA ReleaseKeeps ==
    ASSUME BudgetInv, NEW c \in Calls, NEW k \in Commitments, NEW amount \in Amounts,
           ReleaseCommitment(c, k, amount)
    PROVE  BudgetInv'
<1>0. amount \in Nat /\ db[k] \in CommitmentRow
  BY BudgetAssumption DEF BudgetInv, BudgetTyped, BudgetRows
<1>1. CASE MayRelease(k, amount) /\ Enter(c, "releaseCommitment", "write", k, amount, db[k].released)
  <2>1. PICK seen \in Nat : seen = db[k].released
    BY <1>0 DEF CommitmentRow
  <2>2. ~In(k, {"ABSENT"}) /\ seen + amount <= db[k].amount
    BY <1>1, <2>1 DEF MayRelease, In, Open
  <2>3. BudgetCallOK([op |-> "releaseCommitment", at |-> "write", row |-> k, arg |-> amount, seen |-> seen])
    BY <1>0, <2>2 DEF BudgetCallOK
  <2>4. Enter(c, "releaseCommitment", "write", k, amount, seen)
    BY <1>1, <2>1
  <2> QED  BY <2>3, <2>4, BudgetEnters
<1>2. CASE /\ At(c, "releaseCommitment", "write", k, amount)
           /\ Release(k, call[c].seen + amount)
           /\ Leave(c)
  <2>1. call[c].seen \in Nat /\ call[c].seen + amount <= db[k].amount
    BY <1>2 DEF At, BudgetInv, BudgetCallOK
  <2>2. PICK released \in Nat : released = call[c].seen + amount
    BY <1>0, <2>1
  <2>3. PICK status \in {"RELEASED", "PARTIALLY_RELEASED"} :
            status = IF released >= db[k].amount THEN "RELEASED" ELSE "PARTIALLY_RELEASED"
    OBVIOUS
  <2>4. PICK row : row = [db[k] EXCEPT !.released = released, !.status = status]
    OBVIOUS
  <2>5. /\ row \in CommitmentRow /\ row.status # "ABSENT"
        /\ row.amount = db[k].amount /\ row.released = released
    BY <1>0, <2>4 DEF CommitmentRow, CommitmentStatus, Open
  <2>6. db' = [db EXCEPT ![k] = row]
    BY <1>0, <1>2, <2>2, <2>3, <2>4 DEF Release, BudgetInv, BudgetTyped, BudgetRows, CommitmentRow
  <2> QED  BY <1>2, <2>1, <2>2, <2>5, <2>6, BudgetLeaves, CommitmentWritten
<1> QED  BY <1>1, <1>2 DEF ReleaseCommitment

LEMMA BudgetStep == BudgetInv /\ [BudgetSystem]_docVars => BudgetInv'
<1> SUFFICES ASSUME BudgetInv, [BudgetSystem]_docVars PROVE BudgetInv'
  OBVIOUS
<1>1. CASE LinesNext
  BY <1>1, RevisionKeeps, TransferKeeps, CommitmentKeeps, CancellationKeeps, ReleaseKeeps DEF LinesNext
<1>2. ASSUME (\E c \in Calls : CutOff(c)) \/ UNCHANGED docVars PROVE BudgetInv'
  <2>1. UNCHANGED db /\ tidy' \in BOOLEAN
    BY <1>2 DEF CutOff, docVars, BudgetInv, BudgetTyped, CallTypeOK
  <2>2. UNCHANGED call \/ \E c \in Calls : call' = [call EXCEPT ![c] = Idle]
    BY <1>2 DEF CutOff, docVars
  <2>3. BudgetsStay /\ BudgetRows' /\ BudgetFourEyes' /\ ReleasedWithin'
    BY <2>1 DEF BudgetsStay, In, FourEyes, BudgetInv, BudgetTyped, BudgetRows, BudgetFourEyes, ReleasedWithin
  <2> QED  BY <2>1, <2>2, <2>3, BudgetWritten
<1> QED  BY <1>1, <1>2, ApprovalsKeep DEF BudgetSystem, BudgetNext

LEMMA BudgetInitInv == BudgetInit => BudgetInv
<1> SUFFICES ASSUME BudgetInit PROVE BudgetInv
  OBVIOUS
<1>1. PICK planned \in [Lines -> Nat] :
          db = [x \in Budgets \cup Lines \cup Commitments |->
                   IF x \in Budgets THEN NoBudget
                   ELSE IF x \in Lines THEN NewLine(planned[x]) ELSE NoCommitment]
  BY DEF BudgetInit
<1>2. /\ \A b \in Budgets : db[b] = NoBudget
      /\ \A l \in Lines : db[l] = NewLine(planned[l])
      /\ \A k \in Commitments : db[k] = NoCommitment
  BY <1>1, BudgetAssumption
<1>3. BudgetRows
  <2>1. NoBudget \in BudgetRow /\ NoCommitment \in CommitmentRow
    BY DEF NoBudget, BudgetRow, BudgetStatus, NoCommitment, CommitmentRow, CommitmentStatus
  <2>2. \A l \in Lines : NewLine(planned[l]) \in LineRow
    BY DEF NewLine, LineRow
  <2>3. db = [x \in Budgets \cup Lines \cup Commitments |-> db[x]]
    BY <1>1
  <2> QED  BY <1>2, <2>1, <2>2, <2>3 DEF BudgetRows, NoBudget
<1>4. call = [c \in Calls |-> call[c]] /\ CallTypeOK /\ \A c \in Calls : BudgetCallOK(call[c])
  BY DEF BudgetInit, CallsStart, CallTypeOK, BudgetCallOK, Idle
<1>5. BudgetFourEyes /\ ReleasedWithin
  BY <1>2 DEF BudgetFourEyes, ReleasedWithin, In, NoBudget, NoCommitment
<1> QED  BY <1>3, <1>4, <1>5 DEF BudgetInv, BudgetTyped

\* For any number of budgets, lines, commitments and requests: a budget that was
\* ever in force was approved by somebody other than its preparer, and no
\* commitment releases more than it reserved, although approvals, rejections and
\* releases write over each other.
THEOREM BudgetIsAlwaysSound == BudgetSpec => []BudgetSound
<1>1. BudgetInv => BudgetSound
  BY DEF BudgetInv, BudgetTyped, BudgetRows, BudgetRow, LineRow, CommitmentRow, BudgetStatus,
         CommitmentStatus, BudgetSound, BudgetTypeOK
<1> QED  BY <1>1, BudgetInitInv, BudgetStep, PTL DEF BudgetSpec

-----------------------------------------------------------------------------
(* What the lines of a budget add up to *)

RevisedOf == [l \in Lines |-> db[l].revised]
LinesOf(b) == {l \in Lines : BudgetOf[l] = b}
AmountsStay == \A l \in Lines : db'[l].revised = db[l].revised

\* As long as no line gets another amount, the sums stay.
LEMMA EnvelopesStay == ASSUME AmountsStay PROVE \A b \in Budgets : Envelope(b)' = Envelope(b)
<1>1. [l \in Lines |-> db'[l].revised] = [l \in Lines |-> db[l].revised]
  BY DEF AmountsStay
<1> QED  BY <1>1 DEF Envelope

\* A request that enters, a statement on a budget, and a commitment that is
\* written leave the amounts alone.
LEMMA OtherRowWritten ==
    ASSUME BudgetInv, NEW x, x \notin Lines, NEW row, db' = [db EXCEPT ![x] = row]
    PROVE  AmountsStay
BY DEF BudgetInv, BudgetTyped, BudgetRows, AmountsStay

LEMMA NothingWritten == ASSUME UNCHANGED db PROVE AmountsStay
BY DEF AmountsStay

\* A sum over the lines moves by what two of its terms move.
LEMMA TwoTermsMove ==
    ASSUME NEW f, NEW g, NEW S, Numeric(f, S), NEW x \in S, NEW y \in S, x # y, NEW amount \in Int,
           g[x] = f[x] - amount, g[y] = f[y] + amount, \A z \in S \ {x, y} : g[z] = f[z]
    PROVE  SumFunctionOnSet(g, S) = SumFunctionOnSet(f, S)
<1> DEFINE h == [z \in S |-> IF z = x THEN f[x] - amount ELSE f[z]]
<1>1. f[x] \in Int /\ f[y] \in Int /\ IsFiniteSet(S)
  BY DEF Numeric
<1>2. Numeric(h, S)
  BY DEF Numeric
<1>3. h[x] = f[x] - amount /\ h[y] = f[y] /\ \A z \in S \ {x} : f[z] = h[z]
  OBVIOUS
<1>4. \A z \in S \ {y} : h[z] = g[z]
  OBVIOUS
<1> HIDE DEF h
<1>5. SumFunctionOnSet(h, S) = SumFunctionOnSet(f, S) - f[x] + h[x]
  BY <1>1, <1>3, SumChanges
<1>6. SumFunctionOnSet(g, S) = SumFunctionOnSet(h, S) - h[y] + g[y]
  <2>1. g[y] \in Int
    BY <1>1
  <2> QED  BY <1>2, <1>4, <2>1, SumChanges
<1>7. SumFunctionOnSet(f, S) \in Int /\ SumFunctionOnSet(h, S) \in Int
  BY <1>2, SumTakes
<1> QED  BY <1>1, <1>3, <1>5, <1>6, <1>7

\* A transfer takes from one line of a budget what it gives to another of the
\* same budget.
LEMMA TransferKeepsEnvelope ==
    ASSUME BudgetInv, NEW c \in Calls, NEW l \in Lines, NEW m \in Lines, NEW amount \in Amounts,
           At(c, "transfer", "write", l, <<m, amount>>),
           db' = [db EXCEPT ![l].revised = @ - amount, ![m].revised = @ + amount],
           NEW b \in Budgets
    PROVE  Envelope(b)' = Envelope(b)
<1>1. l # m /\ BudgetOf[l] = BudgetOf[m]
  BY DEF At, BudgetInv, BudgetCallOK
<1>2. amount \in Int
  BY BudgetAssumption
<1>3. /\ db = [x \in Budgets \cup Lines \cup Commitments |-> db[x]]
      /\ \A x \in Lines : db[x] \in LineRow
  BY DEF BudgetInv, BudgetTyped, BudgetRows
<1>4. PICK f : f = [x \in Lines |-> db[x].revised]
  OBVIOUS
<1>5. PICK g : g = [x \in Lines |-> db'[x].revised]
  OBVIOUS
<1>6. PICK S : S = LinesOf(b)
  OBVIOUS
<1>7. /\ \A x \in Lines : f[x] \in Int
      /\ S \subseteq Lines /\ IsFiniteSet(S) /\ (l \in S <=> m \in S)
  BY <1>1, <1>3, <1>4, <1>6, BudgetAssumption, FS_Subset DEF LineRow, LinesOf
<1>8. g[l] = f[l] - amount /\ g[m] = f[m] + amount /\ \A x \in Lines \ {l, m} : g[x] = f[x]
  BY <1>1, <1>3, <1>4, <1>5 DEF LineRow
<1>9. SumFunctionOnSet(g, S) = SumFunctionOnSet(f, S)
  <2>1. Numeric(f, S)
    BY <1>7 DEF Numeric
  <2>2. CASE l \in S
    BY <1>1, <1>2, <1>7, <1>8, <2>1, <2>2, TwoTermsMove
  <2>3. CASE l \notin S
    <3>1. \A x \in S : f[x] = g[x]
      BY <1>7, <1>8, <2>3
    <3> QED  BY <2>1, <3>1, SumSame
  <2> QED  BY <2>2, <2>3
<1> QED  BY <1>4, <1>5, <1>6, <1>9 DEF Envelope, LinesOf

\* Revising is the only request that changes what the lines of a budget add up to.
Revising == \E c \in Calls : call[c].op = "revise" /\ call[c].at = "write"
EnvelopeStep == \A b \in Budgets : Envelope(b)' = Envelope(b) \/ Revising

LEMMA LinesKeepEnvelopes == ASSUME BudgetInv, LinesNext PROVE EnvelopeStep
<1>1. ASSUME NEW c \in Calls, NEW l \in Lines, NEW amount \in Amounts, Revise(c, l, amount)
      PROVE  EnvelopeStep
  <2>1. CASE UNCHANGED db
    BY <2>1, NothingWritten, EnvelopesStay DEF EnvelopeStep
  <2>2. CASE At(c, "revise", "write", l, amount)
    BY <2>2 DEF At, EnvelopeStep, Revising
  <2> QED  BY <1>1, <2>1, <2>2 DEF Revise, Handler, Enter
<1>2. ASSUME NEW c \in Calls, NEW l \in Lines, NEW m \in Lines, NEW amount \in Amounts,
             Transfer(c, l, m, amount)
      PROVE  EnvelopeStep
  <2>1. CASE UNCHANGED db
    BY <2>1, NothingWritten, EnvelopesStay DEF EnvelopeStep
  <2>2. CASE /\ At(c, "transfer", "write", l, <<m, amount>>)
             /\ db' = [db EXCEPT ![l].revised = @ - amount, ![m].revised = @ + amount]
    BY <2>2, TransferKeepsEnvelope DEF EnvelopeStep
  <2> QED  BY <1>2, <2>1, <2>2 DEF Transfer, Handler, Enter
<1>3. ASSUME NEW c \in Calls, NEW l \in Lines, NEW amount \in Amounts, CreateCommitment(c, l, amount)
      PROVE  AmountsStay
  BY <1>3, BudgetAssumption, OtherRowWritten, NothingWritten
     DEF CreateCommitment, Handler, Enter, Reserve
<1>4. ASSUME NEW c \in Calls, NEW k \in Commitments, CancelCommitment(c, k) PROVE AmountsStay
  BY <1>4, BudgetAssumption, OtherRowWritten, NothingWritten DEF CancelCommitment, Handler, Enter, Becomes
<1>5. ASSUME NEW c \in Calls, NEW k \in Commitments, NEW amount \in Amounts,
             ReleaseCommitment(c, k, amount)
      PROVE  AmountsStay
  <2>1. k \notin Lines
    BY BudgetAssumption
  <2> QED  BY <1>5, <2>1 DEF ReleaseCommitment, Enter, Release, AmountsStay, BudgetInv, BudgetTyped, BudgetRows
<1>6. AmountsStay => EnvelopeStep
  BY EnvelopesStay DEF EnvelopeStep
<1> QED  BY <1>1, <1>2, <1>3, <1>4, <1>5, <1>6 DEF LinesNext

LEMMA ApprovalsKeepEnvelopes == ASSUME BudgetInv, ApprovalsNext PROVE EnvelopeStep
<1>1. PICK b \in Budgets : UNCHANGED db \/ \E row : db' = [db EXCEPT ![b] = row]
  <2>1. PICK b \in Budgets :
           \/ \E u \in Users : CreateBudget(b, u)
           \/ \E c \in Calls :
                 \/ SubmitBudget(c, b) \/ RejectBudget(c, b) \/ CloseBudget(c, b)
                 \/ \E u \in Users : ApproveBudget(c, b, u)
    BY DEF ApprovalsNext
  <2>2. ASSUME NEW status, Becomes(b, status) PROVE \E row : db' = [db EXCEPT ![b] = row]
    BY <2>2 DEF Becomes
  <2>3. ASSUME NEW u, NEW status, ApprovedBy(u, b, status) PROVE \E row : db' = [db EXCEPT ![b] = row]
    <3>1. db' = [db EXCEPT ![b] = [db[b] EXCEPT !.status = status, !.checker = u]]
      BY <2>3 DEF ApprovedBy
    <3> QED  BY <3>1
  <2>4. ASSUME NEW u, CreateBudget(b, u) PROVE \E row : db' = [db EXCEPT ![b] = row]
    <3>1. db' = [db EXCEPT ![b] = [db[b] EXCEPT !.status = "DRAFT", !.maker = u]]
      BY <2>4 DEF CreateBudget, Statement
    <3> QED  BY <3>1
  <2> QED  BY <2>1, <2>2, <2>3, <2>4
              DEF SubmitBudget, RejectBudget, CloseBudget, ApproveBudget, Handler, Enter
<1>2. AmountsStay
  BY <1>1, BudgetAssumption, OtherRowWritten, NothingWritten
<1> QED  BY <1>2, EnvelopesStay DEF EnvelopeStep

\* For any number of budgets, lines and requests, and any amounts: what the lines
\* of a budget add up to changes by a revision only.  A transfer is checked and
\* written in two statements, and two transfers from the same line may both pass
\* the check; still each gives what it takes, as it moves amounts and does not
\* write those it read.
THEOREM EnvelopeIsKept == BudgetSpec => EnvelopeKept
<1>1. ASSUME BudgetInv, [BudgetSystem]_docVars PROVE [EnvelopeStep]_docVars
  <2>1. CASE (\E c \in Calls : CutOff(c)) \/ UNCHANGED docVars
    BY <2>1, NothingWritten, EnvelopesStay DEF CutOff, docVars, EnvelopeStep
  <2> QED  BY <1>1, <2>1, LinesKeepEnvelopes, ApprovalsKeepEnvelopes DEF BudgetSystem, BudgetNext
<1>2. [EnvelopeStep]_docVars =>
          [\A b \in Budgets :
              \/ Envelope(b)' = Envelope(b)
              \/ \E c \in Calls : call[c].op = "revise" /\ call[c].at = "write"]_docVars
  BY DEF EnvelopeStep, Revising
<1> QED  BY <1>1, <1>2, BudgetInitInv, BudgetStep, PTL DEF BudgetSpec, EnvelopeKept

-----------------------------------------------------------------------------
(***************************************************************************)
(* Deals between two entities: their books mirror each other.              *)
(*                                                                         *)
(* The argument: one request at most makes a transaction, and what it has  *)
(* written so far is still there when it goes on; a request that is to     *)
(* write RECONCILED has seen both entries posted, and a posted entry is at *)
(* most reversed.                                                          *)
(***************************************************************************)

DealsInit == db = [x \in Deals |-> NoDeal] /\ CallsStart
DealsNext == IntercompanyNext \/ \E c \in Calls : CutOff(c)
DealsSpec == DealsInit /\ [][DealsNext]_docVars

DealStatus == {"ABSENT", "UNRECONCILED", "PARTIALLY_RECONCILED", "RECONCILED", "DISPUTED"}
DealRow == [status : DealStatus, entries : EntryStatus \X EntryStatus]
DealCall == [op : {"none", "create", "reconcile", "dispute"},
             at : {"idle", "draft", "mirror", "link", "write"},
             row : Deals \cup {None}, arg : {None},
             seen : {None, "RECONCILED", "PARTIALLY_RECONCILED"}]

DealsTyped ==
    /\ db \in [Deals -> DealRow]
    /\ call \in [Calls -> DealCall]
    /\ tidy \in BOOLEAN
    /\ \A c \in Calls : call[c].op = "none" => call[c] = Idle

\* What a request finds in the row it works on.
Creating(c, x) == call[c].op = "create" /\ call[c].row = x

CreatorOK(c) ==
    \A x \in Deals : Creating(c, x) =>
        /\ db[x].status = "ABSENT"
        /\ call[c].at = "draft" => db[x].entries[1] = "ABSENT" /\ db[x].entries[2] = "ABSENT"
        /\ call[c].at = "mirror" => db[x].entries[1] # "ABSENT" /\ db[x].entries[2] = "ABSENT"
        /\ call[c].at = "link" => db[x].entries[1] # "ABSENT" /\ db[x].entries[2] # "ABSENT"
        /\ call[c].at \in {"draft", "mirror", "link"}

Settled(entry) == entry \in {"POSTED", "REVERSED"}

WriterOK(c) ==
    \A x \in Deals : call[c].op \in {"reconcile", "dispute"} /\ call[c].row = x =>
        /\ db[x].status # "ABSENT"
        /\ call[c].op = "reconcile" => call[c].seen # None
        /\ call[c].seen = "RECONCILED" => Settled(db[x].entries[1]) /\ Settled(db[x].entries[2])

Paired(x) == \A side \in 1..2 : db[x].entries[side] = "ABSENT" <=> In(x, {"ABSENT"})

DealsInv ==
    /\ DealsTyped
    /\ \A c \in Calls : CreatorOK(c) /\ WriterOK(c)
    /\ \A c, d \in Calls, x \in Deals : Creating(c, x) /\ Creating(d, x) => c = d
    /\ PairsComplete
    /\ tidy => \A x \in Deals : Paired(x) \/ \E c \in Calls : Creating(c, x)

-----------------------------------------------------------------------------
\* Writing one entry of a pair leaves the other, the status and the other rows.
LEMMA OneSide ==
    ASSUME DealsTyped, NEW x \in Deals, NEW side \in 1..2, NEW s \in EntryStatus,
           WriteSide(x, side, s)
    PROVE  /\ db' \in [Deals -> DealRow]
           /\ \A y \in Deals : db'[y].status = db[y].status
           /\ \A y \in Deals : y # x => db'[y] = db[y]
           /\ db'[x].entries[side] = s
           /\ \A other \in 1..2 : other # side => db'[x].entries[other] = db[x].entries[other]
<1>1. CASE side = 1
  BY <1>1 DEF DealsTyped, DealRow, WriteSide
<1>2. CASE side = 2
  BY <1>2 DEF DealsTyped, DealRow, WriteSide
<1>3. QED
  BY <1>1, <1>2

\* The posting engine moves one entry of a pair on: nothing a request relies on
\* is lost.
LEMMA EntryMoves ==
    ASSUME DealsInv, NEW x \in Deals, NEW side \in 1..2, NEW s \in {"POSTED", "REVERSED"},
           db[x].entries[side] # "ABSENT",
           WriteSide(x, side, s), UNCHANGED call, tidy' = (tidy /\ Alone)
    PROVE  DealsInv'
<1>1. /\ db' \in [Deals -> DealRow]
      /\ \A y \in Deals : db'[y].status = db[y].status
      /\ \A y \in Deals : y # x => db'[y] = db[y]
      /\ db'[x].entries[side] = s
      /\ \A other \in 1..2 : other # side => db'[x].entries[other] = db[x].entries[other]
  BY OneSide DEF DealsInv, EntryStatus
<1>2. \A y \in Deals : /\ db'[y].entries[1] = "ABSENT" <=> db[y].entries[1] = "ABSENT"
                       /\ db'[y].entries[2] = "ABSENT" <=> db[y].entries[2] = "ABSENT"
                       /\ Settled(db[y].entries[1]) => Settled(db'[y].entries[1])
                       /\ Settled(db[y].entries[2]) => Settled(db'[y].entries[2])
  BY <1>1 DEF Settled
<1>3. DealsTyped'
  BY <1>1 DEF DealsInv, DealsTyped
<1>4. \A c \in Calls : CreatorOK(c)' /\ WriterOK(c)'
  BY <1>1, <1>2 DEF DealsInv, CreatorOK, WriterOK, Creating
<1>5. PairsComplete'
  BY <1>1, <1>2 DEF DealsInv, PairsComplete, In, Settled
<1>6. \A y \in Deals : Paired(y) => Paired(y)'
  BY <1>1, <1>2 DEF Paired, In
<1>7. tidy' => tidy
  OBVIOUS
<1>8. QED
  BY <1>3, <1>4, <1>5, <1>6, <1>7 DEF DealsInv, Creating

\* A request that has not written: only what is known of that request changes.
LEMMA RequestMoves ==
    ASSUME DealsInv, UNCHANGED db, NEW c \in Calls, NEW new \in DealCall,
           call' = [call EXCEPT ![c] = new], new.op = "none" => new = Idle,
           tidy' \in BOOLEAN,
           tidy' => tidy /\ \A x \in Deals : Creating(c, x) => Creating(c, x)',
           \A x \in Deals : Creating(c, x)' => \A d \in Calls : d # c => call[d].row # x,
           CreatorOK(c)', WriterOK(c)'
    PROVE  DealsInv'
<1>1. call' \in [Calls -> DealCall] /\ call'[c] = new /\ \A d \in Calls : d # c => call'[d] = call[d]
  BY DEF DealsInv, DealsTyped
<1>2. DealsTyped'
  BY <1>1 DEF DealsInv, DealsTyped
<1>3. \A d \in Calls : CreatorOK(d)' /\ WriterOK(d)'
  <2>1. ASSUME NEW d \in Calls, d # c
        PROVE  CreatorOK(d)' /\ WriterOK(d)'
    BY <2>1, <1>1 DEF DealsInv, CreatorOK, WriterOK, Creating
  <2>2. QED
    BY <2>1
<1>4. \A d, e \in Calls, x \in Deals : Creating(d, x)' /\ Creating(e, x)' => d = e
  BY <1>1 DEF DealsInv, Creating
<1>5. PairsComplete' /\ \A x \in Deals : Paired(x)' = Paired(x)
  BY DEF DealsInv, PairsComplete, Paired, In
<1>6. tidy' => \A x \in Deals : Paired(x)' \/ \E d \in Calls : Creating(d, x)'
  BY <1>1, <1>5 DEF DealsInv, Creating
<1>7. QED
  BY <1>2, <1>3, <1>4, <1>5, <1>6 DEF DealsInv

\* The request that makes a transaction writes its row: nobody else works on it.
LEMMA CreatorWrites ==
    ASSUME DealsInv, NEW c \in Calls, NEW x \in Deals, Creating(c, x), NEW new \in DealCall,
           call' = [call EXCEPT ![c] = new], new.op = "none" => new = Idle,
           UNCHANGED tidy, db' \in [Deals -> DealRow],
           \A y \in Deals : y # x => db'[y] = db[y],
           \/ db'[x].status = "ABSENT" /\ Creating(c, x)'
           \/ new = Idle /\ db'[x].status = "UNRECONCILED"
              /\ db'[x].entries[1] # "ABSENT" /\ db'[x].entries[2] # "ABSENT",
           CreatorOK(c)'
    PROVE  DealsInv'
<1>1. call' \in [Calls -> DealCall] /\ call'[c] = new /\ \A d \in Calls : d # c => call'[d] = call[d]
  BY DEF DealsInv, DealsTyped
<1>2. DealsTyped'
  BY <1>1 DEF DealsInv, DealsTyped
<1>3. \A d \in Calls : CreatorOK(d)' /\ WriterOK(d)'
  <2>1. WriterOK(c)'
    BY <1>1 DEF WriterOK, Creating, Idle
  <2>2. ASSUME NEW d \in Calls, d # c
        PROVE  CreatorOK(d)'
    BY <2>2, <1>1 DEF DealsInv, CreatorOK, Creating
  <2>3. ASSUME NEW d \in Calls, d # c
        PROVE  WriterOK(d)'
    <3>1. ~(call[d].op \in {"reconcile", "dispute"} /\ call[d].row = x)
      BY <2>3 DEF DealsInv, CreatorOK, WriterOK
    <3>2. QED
      BY <2>3, <3>1, <1>1 DEF DealsInv, WriterOK
  <2>4. QED
    BY <2>1, <2>2, <2>3
<1>4. \A d, e \in Calls, y \in Deals : Creating(d, y)' /\ Creating(e, y)' => d = e
  BY <1>1 DEF DealsInv, Creating, Idle
<1>5. PairsComplete'
  BY DEF DealsInv, PairsComplete, In
<1>6. Paired(x)' \/ Creating(c, x)'
  BY DEF Paired, In
<1>7. \A y \in Deals : y # x => Paired(y)' = Paired(y)
  BY DEF Paired, In
<1>8. \A y \in Deals, d \in Calls : y # x /\ Creating(d, y) => Creating(d, y)'
  BY <1>1 DEF Creating
<1>9. QED
  BY <1>2, <1>3, <1>4, <1>5, <1>6, <1>7, <1>8 DEF DealsInv

\* A request that has answered the reconciliation writes the status of a
\* transaction that is already there.
LEMMA StatusWritten ==
    ASSUME DealsInv, NEW c \in Calls, NEW x \in Deals, NEW s \in DealStatus \ {"ABSENT"},
           call[c].op \in {"reconcile", "dispute"}, call[c].row = x,
           s = "RECONCILED" => Settled(db[x].entries[1]) /\ Settled(db[x].entries[2]),
           Becomes(x, s), Leave(c)
    PROVE  DealsInv'
<1>1. /\ call' \in [Calls -> DealCall] /\ call'[c] = Idle
      /\ \A d \in Calls : d # c => call'[d] = call[d]
  BY DEF DealsInv, DealsTyped, Leave, Idle, DealCall
<1>2. /\ db' \in [Deals -> DealRow] /\ db'[x].status = s
      /\ \A y \in Deals : y # x => db'[y] = db[y]
      /\ \A y \in Deals : db'[y].entries = db[y].entries
  BY DEF DealsInv, DealsTyped, DealRow, Becomes
<1>3. db[x].status # "ABSENT"
  BY DEF DealsInv, WriterOK
<1>4. DealsTyped'
  BY <1>1, <1>2 DEF DealsInv, DealsTyped, Leave
<1>5. \A d \in Calls : CreatorOK(d)'
  <2>1. ~Creating(c, x) /\ \A d \in Calls : ~Creating(d, x)
    BY <1>3 DEF DealsInv, CreatorOK
  <2>2. QED
    BY <2>1, <1>1, <1>2 DEF DealsInv, CreatorOK, Creating, Idle
<1>6. \A d \in Calls : WriterOK(d)'
  BY <1>1, <1>2 DEF DealsInv, WriterOK, Idle
<1>7. \A d, e \in Calls, y \in Deals : Creating(d, y)' /\ Creating(e, y)' => d = e
  BY <1>1 DEF DealsInv, Creating, Idle
<1>8. PairsComplete'
  BY <1>2, <1>3 DEF DealsInv, PairsComplete, In, Settled
<1>9. \A y \in Deals : Paired(y)' = Paired(y)
  BY <1>2, <1>3 DEF Paired, In
<1>10. \A y \in Deals, d \in Calls : Creating(d, y) => Creating(d, y)'
  BY <1>1 DEF Creating
<1>11. QED
  BY <1>4, <1>5, <1>6, <1>7, <1>8, <1>9, <1>10 DEF DealsInv, Leave

-----------------------------------------------------------------------------
LEMMA DealsInitInv == DealsInit => DealsInv
<1> SUFFICES ASSUME DealsInit PROVE DealsInv
  OBVIOUS
<1>1. \A x \in Deals : db[x] = NoDeal
  BY DEF DealsInit
<1>2. \A c \in Calls : call[c] = Idle
  BY DEF DealsInit, CallsStart
<1>3. DealsTyped
  BY <1>2 DEF DealsTyped, DealsInit, CallsStart, NoDeal, DealRow, DealStatus, EntryStatus, Idle, DealCall
<1>4. \A c \in Calls : CreatorOK(c) /\ WriterOK(c) /\ \A x \in Deals : ~Creating(c, x)
  BY <1>2 DEF CreatorOK, WriterOK, Creating, Idle
<1>5. PairsComplete /\ \A x \in Deals : Paired(x)
  BY <1>1 DEF PairsComplete, Paired, In, NoDeal
<1>6. QED
  BY <1>3, <1>4, <1>5 DEF DealsInv

\* create writes the draft, its mirror and the row one after the other.
LEMMA CreateKeeps ==
    ASSUME DealsInv, NEW c \in Calls, NEW x \in Deals, CreateDeal(c, x)
    PROVE  DealsInv'
<1>1. CASE /\ In(x, {"ABSENT"}) /\ db[x].entries = NoDeal.entries
           /\ \A e \in Calls : call[e].row # x
           /\ Enter(c, "create", "draft", x, None, None)
  <2> DEFINE new == [op |-> "create", at |-> "draft", row |-> x, arg |-> None, seen |-> None]
  <2>1. /\ new \in DealCall /\ call' = [call EXCEPT ![c] = new]
        /\ call[c] = Idle /\ UNCHANGED db
        /\ tidy' \in BOOLEAN /\ (tidy' => tidy)
    BY <1>1 DEF Enter, DealCall
  <2>2. call'[c] = new
    BY <2>1 DEF DealsInv, DealsTyped
  <2>3. CreatorOK(c)' /\ WriterOK(c)'
    BY <1>1, <2>1, <2>2 DEF CreatorOK, WriterOK, Creating, In, NoDeal
  <2>4. \A y \in Deals : ~Creating(c, y) /\ (Creating(c, y)' => y = x)
    BY <2>1, <2>2 DEF Creating, Idle
  <2>5. new.op # "none"
    OBVIOUS
  <2> HIDE DEF new
  <2>6. QED
    BY <1>1, <2>1, <2>3, <2>4, <2>5, RequestMoves
<1>2. ASSUME At(c, "create", "draft", x, None), WriteSide(x, 1, "DRAFT"), Goto(c, "mirror")
      PROVE  DealsInv'
  <2> DEFINE new == [call[c] EXCEPT !.at = "mirror"]
  <2>1. /\ new \in DealCall /\ new.op # "none" /\ call' = [call EXCEPT ![c] = new]
        /\ call'[c] = new /\ UNCHANGED tidy /\ Creating(c, x) /\ Creating(c, x)'
        /\ call'[c].at = "mirror" /\ call[c].at = "draft"
    BY <1>2 DEF At, Goto, DealsInv, DealsTyped, DealCall, Creating
  <2>2. /\ db' \in [Deals -> DealRow]
        /\ db'[x].status = "ABSENT" /\ db'[x].entries[1] # "ABSENT" /\ db'[x].entries[2] = "ABSENT"
        /\ \A y \in Deals : y # x => db'[y] = db[y]
    BY <1>2, <2>1, OneSide DEF DealsInv, EntryStatus, CreatorOK
  <2>3. CreatorOK(c)'
    BY <2>1, <2>2 DEF CreatorOK, Creating
  <2> HIDE DEF new
  <2>4. QED
    BY <2>1, <2>2, <2>3, CreatorWrites
<1>3. ASSUME At(c, "create", "mirror", x, None), WriteSide(x, 2, "DRAFT"), Goto(c, "link")
      PROVE  DealsInv'
  <2> DEFINE new == [call[c] EXCEPT !.at = "link"]
  <2>1. /\ new \in DealCall /\ new.op # "none" /\ call' = [call EXCEPT ![c] = new]
        /\ call'[c] = new /\ UNCHANGED tidy /\ Creating(c, x) /\ Creating(c, x)'
        /\ call'[c].at = "link" /\ call[c].at = "mirror"
    BY <1>3 DEF At, Goto, DealsInv, DealsTyped, DealCall, Creating
  <2>2. /\ db' \in [Deals -> DealRow]
        /\ db'[x].status = "ABSENT" /\ db'[x].entries[1] # "ABSENT" /\ db'[x].entries[2] # "ABSENT"
        /\ \A y \in Deals : y # x => db'[y] = db[y]
    BY <1>3, <2>1, OneSide DEF DealsInv, EntryStatus, CreatorOK
  <2>3. CreatorOK(c)'
    BY <2>1, <2>2 DEF CreatorOK, Creating
  <2> HIDE DEF new
  <2>4. QED
    BY <2>1, <2>2, <2>3, CreatorWrites
<1>4. ASSUME At(c, "create", "link", x, None), Becomes(x, "UNRECONCILED"), Leave(c)
      PROVE  DealsInv'
  <2>1. /\ call' = [call EXCEPT ![c] = Idle] /\ call'[c] = Idle /\ UNCHANGED tidy
        /\ Creating(c, x) /\ call[c].at = "link"
    BY <1>4 DEF At, Leave, DealsInv, DealsTyped, Creating
  <2>2. Idle \in DealCall
    BY DEF Idle, DealCall
  <2>3. /\ db' \in [Deals -> DealRow] /\ db'[x].status = "UNRECONCILED"
        /\ db'[x].entries[1] # "ABSENT" /\ db'[x].entries[2] # "ABSENT"
        /\ \A y \in Deals : y # x => db'[y] = db[y]
    BY <1>4, <2>1 DEF DealsInv, DealsTyped, DealRow, DealStatus, Becomes, CreatorOK
  <2>4. CreatorOK(c)'
    BY <2>1 DEF CreatorOK, Creating, Idle
  <2>5. QED
    BY <2>1, <2>2, <2>3, <2>4, CreatorWrites
<1>5. QED
  BY <1>1, <1>2, <1>3, <1>4 DEF CreateDeal

\* reconcile keeps the answer it read, and writes it when it comes to it.
LEMMA ReconcileKeeps ==
    ASSUME DealsInv, NEW c \in Calls, NEW x \in Deals, Reconcile(c, x)
    PROVE  DealsInv'
<1>1. ASSUME ~In(x, {"ABSENT"}), Enter(c, "reconcile", "write", x, None, Outcome(x))
      PROVE  DealsInv'
  <2> DEFINE new == [op |-> "reconcile", at |-> "write", row |-> x, arg |-> None, seen |-> Outcome(x)]
  <2>1. Outcome(x) \in {"RECONCILED", "PARTIALLY_RECONCILED"}
    BY DEF Outcome
  <2>2. Outcome(x) = "RECONCILED" => Settled(db[x].entries[1]) /\ Settled(db[x].entries[2])
    BY DEF Outcome, BothPosted, Settled
  <2>3. PICK s \in {"RECONCILED", "PARTIALLY_RECONCILED"} : s = Outcome(x)
    BY <2>1
  <2>4. PICK row : row = [op |-> "reconcile", at |-> "write", row |-> x, arg |-> None, seen |-> s]
    OBVIOUS
  <2>5. /\ row \in DealCall /\ row.op # "none" /\ call' = [call EXCEPT ![c] = row]
        /\ call[c] = Idle /\ UNCHANGED db /\ tidy' \in BOOLEAN /\ (tidy' => tidy)
    BY <1>1, <2>3, <2>4 DEF Enter, DealCall
  <2>6. call'[c] = row
    BY <2>5 DEF DealsInv, DealsTyped
  <2>7. \A y \in Deals : ~Creating(c, y) /\ ~Creating(c, y)'
    BY <2>4, <2>5, <2>6 DEF Creating, Idle
  <2>8. CreatorOK(c)'
    BY <2>7 DEF CreatorOK
  <2>9. WriterOK(c)'
    BY <1>1, <2>2, <2>3, <2>4, <2>5, <2>6, NoneIsNoStatus DEF WriterOK, In
  <2>10. QED
    BY <2>5, <2>7, <2>8, <2>9, RequestMoves
<1>2. ASSUME At(c, "reconcile", "write", x, None), Becomes(x, call[c].seen), Leave(c)
      PROVE  DealsInv'
  <2>1. /\ call[c].seen \in {"RECONCILED", "PARTIALLY_RECONCILED"}
        /\ call[c].op = "reconcile" /\ call[c].row = x
    BY <1>2 DEF At, DealsInv, DealsTyped, DealCall, WriterOK
  <2>2. PICK s \in DealStatus \ {"ABSENT"} : s = call[c].seen
    BY <2>1 DEF DealStatus
  <2>3. Becomes(x, s)
    BY <1>2, <2>2 DEF Becomes
  <2>4. s = "RECONCILED" => Settled(db[x].entries[1]) /\ Settled(db[x].entries[2])
    BY <2>1, <2>2 DEF DealsInv, WriterOK
  <2>5. QED
    BY <1>2, <2>1, <2>2, <2>3, <2>4, StatusWritten
<1>3. QED
  BY <1>1, <1>2 DEF Reconcile

LEMMA DisputeKeeps ==
    ASSUME DealsInv, NEW c \in Calls, NEW x \in Deals, FlagDisputed(c, x)
    PROVE  DealsInv'
<1>1. ASSUME ~In(x, {"ABSENT"}), Enter(c, "dispute", "write", x, None, None)
      PROVE  DealsInv'
  <2>1. PICK row : row = [op |-> "dispute", at |-> "write", row |-> x, arg |-> None, seen |-> None]
    OBVIOUS
  <2>2. /\ row \in DealCall /\ row.op # "none" /\ call' = [call EXCEPT ![c] = row]
        /\ call[c] = Idle /\ UNCHANGED db /\ tidy' \in BOOLEAN /\ (tidy' => tidy)
    BY <1>1, <2>1 DEF Enter, DealCall
  <2>3. call'[c] = row
    BY <2>2 DEF DealsInv, DealsTyped
  <2>4. \A y \in Deals : ~Creating(c, y) /\ ~Creating(c, y)'
    BY <2>1, <2>2, <2>3 DEF Creating, Idle
  <2>5. CreatorOK(c)'
    BY <2>4 DEF CreatorOK
  <2>6. WriterOK(c)'
    BY <1>1, <2>1, <2>2, <2>3, NoneIsNoStatus DEF WriterOK, In
  <2>7. QED
    BY <2>2, <2>4, <2>5, <2>6, RequestMoves
<1>2. ASSUME At(c, "dispute", "write", x, None), Becomes(x, "DISPUTED"), Leave(c)
      PROVE  DealsInv'
  BY <1>2, StatusWritten DEF At, DealStatus
<1>3. QED
  BY <1>1, <1>2 DEF FlagDisputed, Handler

LEMMA CutOffKeeps ==
    ASSUME DealsInv, NEW c \in Calls, CutOff(c)
    PROVE  DealsInv'
<1>1. /\ Idle \in DealCall /\ call' = [call EXCEPT ![c] = Idle] /\ call'[c] = Idle
      /\ UNCHANGED db /\ tidy' = FALSE
  BY DEF CutOff, Idle, DealCall, DealsInv, DealsTyped
<1>2. CreatorOK(c)' /\ WriterOK(c)' /\ \A x \in Deals : ~Creating(c, x)'
  BY <1>1 DEF CreatorOK, WriterOK, Creating, Idle
<1>3. QED
  BY <1>1, <1>2, RequestMoves

LEMMA DealsStep == DealsInv /\ [DealsNext]_docVars => DealsInv'
<1> SUFFICES ASSUME DealsInv, [DealsNext]_docVars PROVE DealsInv'
  OBVIOUS
<1>1. ASSUME NEW x \in Deals, NEW side \in 1..2, PostSide(x, side)
      PROVE  DealsInv'
  BY <1>1, EntryMoves DEF PostSide, Statement
<1>2. ASSUME NEW x \in Deals, NEW side \in 1..2, ReverseSide(x, side)
      PROVE  DealsInv'
  BY <1>2, EntryMoves DEF ReverseSide, Statement
<1>3. ASSUME NEW x \in Deals, NEW c \in Calls,
             CreateDeal(c, x) \/ Reconcile(c, x) \/ FlagDisputed(c, x)
      PROVE  DealsInv'
  BY <1>3, CreateKeeps, ReconcileKeeps, DisputeKeeps
<1>4. ASSUME UNCHANGED docVars
      PROVE  DealsInv'
  BY <1>4 DEF docVars, DealsInv, DealsTyped, CreatorOK, WriterOK, Creating, PairsComplete, Paired, In
<1>5. QED
  BY <1>1, <1>2, <1>3, <1>4, CutOffKeeps DEF DealsNext, IntercompanyNext

\* A transaction between two entities always has both of its entries, is
\* reconciled only after both were posted, and leaves no entry without the other
\* while no request is cut off; for any number of transactions and requests.
THEOREM DealsAlwaysSound == DealsSpec => []DealsSound
<1>1. DealsInv => DealsSound
  <2> SUFFICES ASSUME DealsInv PROVE DealsSound
    OBVIOUS
  <2>1. IntercompanyTypeOK
    BY DEF DealsInv, DealsTyped, DealRow, DealStatus, IntercompanyTypeOK
  <2>2. NoOrphan
    BY DEF DealsInv, NoOrphan, Alone, Creating, Idle, Paired
  <2>3. QED
    BY <2>1, <2>2 DEF DealsInv, DealsSound
<1>2. QED
  BY <1>1, DealsInitInv, DealsStep, PTL DEF DealsSpec

-----------------------------------------------------------------------------
(***************************************************************************)
(* The depreciation of assets.                                             *)
(*                                                                         *)
(* The argument: an entry is posted before the row that stands for it is   *)
(* inserted, so that no row is without its entry.  While requests take     *)
(* turns, a month without a row has nothing posted but what the request    *)
(* under way has just posted; and where months are run in their order the  *)
(* accumulated depreciation is the row of the latest month, which the next *)
(* month carries on, so that the entries of all months add up to it.       *)
(***************************************************************************)

AssetsInit == db = [x \in Assets |-> NoAsset] /\ CallsStart
AssetsStep == AssetsNext \/ \E c \in Calls : CutOff(c)
AssetsSpec == AssetsInit /\ [][AssetsStep]_docVars

AssetRow ==
    [status : {"ABSENT", "ACTIVE", "FULLY_DEPRECIATED", "DISPOSED"}, residual : Nat,
     accumulated : [Months -> 0..Depreciable], posted : [Months -> Nat],
     disposal : BOOLEAN, entries : Nat, cleared : 0..Depreciable]
AssetCall ==
    [op : {"none", "depreciate", "dispose"}, at : {"idle", "month", "full", "post", "insert", "write"},
     row : Assets \cup {None}, arg : Months \cup {None}, seen : (0..Depreciable) \cup {None}]
AssetsTyped ==
    /\ db \in [Assets -> AssetRow]
    /\ call \in [Calls -> AssetCall]
    /\ tidy \in BOOLEAN

\* What a request has read and posted.
AssetRequest(q) ==
    \/ q = Idle
    \/ /\ q.op = "depreciate" /\ q.row \in Assets /\ q.arg \in Months
       /\ q.at \in {"month", "full", "post", "insert", "write"} /\ q.seen \in 0..Depreciable
       /\ q.at \in {"post", "insert", "write"} => q.seen < Depreciable
       /\ q.at \in {"insert", "write"} => db[q.row].posted[q.arg] > 0
    \/ /\ q.op = "dispose" /\ q.row \in Assets /\ q.at \in {"post", "insert", "write"}
       /\ q.seen \in 0..Depreciable
       /\ q.at # "post" => db[q.row].entries > 0
       /\ q.at = "write" => db[q.row].disposal

\* With q the only request: what it has posted of x for month m and not yet
\* written, and what it has read.
Unwritten(q, x) == q.op = "depreciate" /\ q.at = "insert" /\ q.row = x
AssetRead(q) ==
    /\ q.op = "depreciate" => db[q.row].status = "ACTIVE"
    /\ q.op = "dispose" => db[q.row].status # "DISPOSED" /\ (q.at # "write" => ~db[q.row].disposal)
    /\ q.op = "depreciate" /\ q.at \in {"post", "insert"} =>
          db[q.row].accumulated[q.arg] = 0 /\ q.seen = Accumulated(q.row)
    /\ q.op = "dispose" /\ q.at # "write" => q.seen = Accumulated(q.row)
MonthsTaken(q, x) ==
    /\ \A m \in Months :
          db[x].accumulated[m] = 0 =>
              db[x].posted[m] = IF Unwritten(q, x) /\ q.arg = m THEN Take(q.seen) ELSE 0
    /\ InOrder(x) => SumFunction(db[x].posted)
                        = Accumulated(x) + IF Unwritten(q, x) THEN Take(q.seen) ELSE 0
Disposing(q, at, x) == q.op = "dispose" /\ q.at = at /\ q.row = x
DisposalTaken(q, x) ==
    /\ db[x].disposal <=> db[x].status = "DISPOSED" \/ Disposing(q, "write", x)
    /\ db[x].entries = IF db[x].disposal \/ Disposing(q, "insert", x) THEN 1 ELSE 0
    /\ db[x].disposal => db[x].cleared = Accumulated(x)
AssetTurn(q, x) == MonthsTaken(q, x) /\ DisposalTaken(q, x)

AssetTurns ==
    /\ \A c, e \in Calls : call[c] # Idle /\ call[e] # Idle => c = e
    /\ \A c \in Calls : call[c] # Idle => AssetRead(call[c]) /\ \A x \in Assets : AssetTurn(call[c], x)
    /\ Alone => \A x \in Assets : AssetTurn(Idle, x)

AssetsInv ==
    /\ AssetsTyped /\ AssetsBacked
    /\ \A c \in Calls : AssetRequest(call[c])
    /\ tidy => AssetTurns

-----------------------------------------------------------------------------
(* What a month takes, and what the months have taken *)

LEMMA TakesWhatIsLeft ==
    ASSUME NEW prior \in 0..Depreciable
    PROVE  /\ Take(prior) \in Nat /\ prior + Take(prior) \in 0..Depreciable
           /\ prior < Depreciable => Take(prior) > 0
<1>1. /\ Depreciable \in Nat /\ Monthly \in Nat /\ Monthly > 0 /\ prior \in Nat /\ prior <= Depreciable
  BY AssetAssumption
<1>2. \E t \in {Monthly, Depreciable - prior} : \A u \in {Monthly, Depreciable - prior} : t <= u
  <2>1. CASE Monthly <= Depreciable - prior
    BY <1>1, <2>1
  <2>2. CASE ~(Monthly <= Depreciable - prior)
    BY <1>1, <2>2
  <2> QED BY <2>1, <2>2
<1>3. /\ Take(prior) \in {Monthly, Depreciable - prior}
      /\ Take(prior) <= Monthly /\ Take(prior) <= Depreciable - prior
  BY <1>2 DEF Take, Min
<1> QED BY <1>1, <1>3

Done(x) == {m \in Months : db[x].accumulated[m] > 0}

LEMMA LatestMonth ==
    ASSUME NEW x
    PROVE  /\ Done(x) = {} => Accumulated(x) = 0
           /\ Done(x) # {} => \E m \in Done(x) : (\A n \in Done(x) : m >= n)
                                                 /\ Accumulated(x) = db[x].accumulated[m]
           /\ \A m \in Done(x) : (\A n \in Done(x) : m >= n) => Accumulated(x) = db[x].accumulated[m]
<1>1. Done(x) \subseteq Int /\ IsFiniteSet(Done(x))
  BY AssetAssumption, FS_Subset DEF Done
<1>2. Accumulated(x) = IF Done(x) = {} THEN 0 ELSE db[x].accumulated[Max(Done(x))]
  BY DEF Accumulated, Done
<1>3. ASSUME Done(x) # {} PROVE Max(Done(x)) \in Done(x) /\ \A n \in Done(x) : Max(Done(x)) >= n
  <2>1. \E m \in Done(x) : \A n \in Done(x) : m >= n
    BY <1>1, <1>3, HasLargest
  <2> QED BY <2>1 DEF Max
<1>4. ASSUME NEW m \in Done(x), \A n \in Done(x) : m >= n PROVE m = Max(Done(x))
  BY <1>1, <1>3, <1>4
<1> QED BY <1>2, <1>3, <1>4

\* The latest month, before and after a step.
IsLatest(x) ==
    \A m \in Done(x) : (\A n \in Done(x) : m >= n) => Accumulated(x) = db[x].accumulated[m]
LEMMA LatestNow == \A x : IsLatest(x)
BY LatestMonth DEF IsLatest
LEMMA LatestNext == (\A x : IsLatest(x))'
BY LatestNow, PTL

LEMMA AccumulatedTyped ==
    ASSUME NEW x, db[x] \in AssetRow
    PROVE  /\ Accumulated(x) \in 0..Depreciable
           /\ InOrder(x) => \A m \in Done(x) : db[x].accumulated[m] <= Accumulated(x)
<1>1. \A m \in Months : db[x].accumulated[m] \in 0..Depreciable
  BY DEF AssetRow
<1>2. Depreciable \in Nat /\ \A m \in Done(x) : m \in Months /\ m \in Int
  BY AssetAssumption DEF Done
<1>3. CASE Done(x) = {}
  BY <1>2, <1>3, LatestMonth
<1>4. CASE Done(x) # {}
  <2>1. PICK n \in Done(x) : (\A m \in Done(x) : n >= m) /\ Accumulated(x) = db[x].accumulated[n]
    BY <1>4, LatestMonth
  <2>2. ASSUME InOrder(x), NEW m \in Done(x) PROVE db[x].accumulated[m] <= db[x].accumulated[n]
    <3>1. m = n \/ m < n
      BY <1>2, <2>1
    <3>2. m < n => db[x].accumulated[m] < db[x].accumulated[n]
      BY <2>1, <2>2 DEF InOrder, Done
    <3> QED BY <1>1, <1>2, <3>1, <3>2
  <2> QED BY <1>1, <1>2, <2>1, <2>2
<1> QED BY <1>3, <1>4

LEMMA AccumulatedNow == \A x : db[x] \in AssetRow => Accumulated(x) \in 0..Depreciable
BY AccumulatedTyped
LEMMA AccumulatedNext == (\A x : db[x] \in AssetRow => Accumulated(x) \in 0..Depreciable)'
BY AccumulatedNow, PTL

-----------------------------------------------------------------------------
(* Steps of a request on one asset *)

\* The step of c from q to p writes v as the row of x.
AssetMoves(c, q, p, x, v) ==
    /\ q = call[c] /\ call' = [call EXCEPT ![c] = p] /\ db' = [db EXCEPT ![x] = v]
    /\ q = Idle \/ q.row = x
    /\ p = Idle \/ p.row = x
    /\ \A m \in Months : /\ v.posted[m] >= db[x].posted[m]
                         /\ v.accumulated[m] > 0 => v.posted[m] > 0
    /\ v.entries >= db[x].entries
    /\ v.disposal => v.entries > 0
    /\ db[x].disposal => v.disposal
    /\ v.status = "DISPOSED" => v.disposal

LEMMA AssetStep ==
    ASSUME AssetsInv, NEW c \in Calls, NEW q, NEW p \in AssetCall, NEW x \in Assets, NEW v \in AssetRow,
           AssetMoves(c, q, p, x, v), tidy' \in BOOLEAN, AssetRequest(p)',
           tidy' => /\ tidy /\ (q = Idle => Alone)
                    /\ AssetRead(q) /\ AssetTurn(q, x) => AssetRead(p)' /\ AssetTurn(p, x)'
    PROVE  AssetsInv'
<1>1. /\ call' \in [Calls -> AssetCall] /\ call'[c] = p /\ \A e \in Calls \ {c} : call'[e] = call[e]
      /\ db' \in [Assets -> AssetRow] /\ db'[x] = v /\ \A y \in Assets \ {x} : db'[y] = db[y]
  BY DEF AssetsInv, AssetsTyped, AssetMoves
<1>2. AssetsTyped'
  BY <1>1 DEF AssetsTyped
<1>3. AssetsBacked'
  BY <1>1 DEF AssetsBacked, AssetsInv, AssetMoves, In
<1>4. \A e \in Calls : AssetRequest(call[e])'
  <2>1. TAKE e \in Calls
  <2>2. PICK z : z = call'[e]
    OBVIOUS
  <2>3. AssetRequest(z)'
    <3>1. CASE e = c
      BY <1>1, <2>2, <3>1
    <3>2. CASE e # c
      <4>1. AssetRequest(z)
        BY <1>1, <2>2, <3>2 DEF AssetsInv
      <4>2. \A y \in Assets : /\ \A m \in Months : db[y].posted[m] > 0 => db'[y].posted[m] > 0
                              /\ db[y].entries > 0 => db'[y].entries > 0
                              /\ db[y].disposal => db'[y].disposal
        <5>1. \A y \in Assets : /\ \A m \in Months : db[y].posted[m] \in Nat /\ db'[y].posted[m] \in Nat
                                /\ db[y].entries \in Nat /\ db'[y].entries \in Nat
          BY <1>1 DEF AssetsInv, AssetsTyped, AssetRow
        <5> QED BY <1>1, <5>1 DEF AssetMoves
      <4> QED BY <4>1, <4>2 DEF AssetRequest
    <3> QED BY <3>1, <3>2
  <2> QED BY <2>2, <2>3
<1>5. ASSUME tidy' PROVE AssetTurns'
  <2>1. /\ AssetTurns /\ (call[c] = Idle => Alone)
        /\ AssetRead(q) /\ AssetTurn(q, x) => AssetRead(p)' /\ AssetTurn(p, x)'
    BY <1>5 DEF AssetsInv, AssetMoves
  <2>2. \A e \in Calls \ {c} : call'[e] = Idle
    BY <1>1, <2>1 DEF AssetTurns, Alone
  <2>3. AssetRead(q) /\ \A y \in Assets : AssetTurn(q, y)
    <3>1. CASE q = Idle
      BY <2>1, <3>1 DEF AssetTurns, Alone, AssetRead, Idle, AssetMoves
    <3>2. CASE q # Idle
      BY <2>1, <3>2 DEF AssetTurns, AssetMoves
    <3> QED BY <3>1, <3>2
  <2>4. AssetRead(p)' /\ AssetTurn(p, x)'
    BY <2>1, <2>3
  <2>5. ASSUME NEW y \in Assets, y # x PROVE AssetTurn(p, y)'
    <3>1. AssetTurn(q, y) /\ db'[y] = db[y]
      BY <1>1, <2>3, <2>5
    <3>2. (q.op \in {"depreciate", "dispose"} => q.row # y) /\ (p.op \in {"depreciate", "dispose"} => p.row # y)
      BY <2>5 DEF AssetMoves, Idle
    <3>3. Accumulated(y)' = Accumulated(y) /\ InOrder(y)' = InOrder(y)
      BY <3>1 DEF Accumulated, InOrder
    <3>4. /\ ~Unwritten(q, y) /\ ~Unwritten(p, y) /\ ~Unwritten(p, y)'
          /\ \A at : ~Disposing(q, at, y) /\ ~Disposing(p, at, y) /\ ~Disposing(p, at, y)'
      BY <3>2 DEF Unwritten, Disposing
    <3>5. MonthsTaken(p, y)'
      BY <3>1, <3>3, <3>4 DEF AssetTurn, MonthsTaken
    <3> QED BY <3>1, <3>3, <3>4, <3>5 DEF AssetTurn, DisposalTaken
  <2>6. \A d, e \in Calls : call'[d] # Idle /\ call'[e] # Idle => d = e
    BY <2>2
  <2>7. ASSUME NEW e \in Calls, call'[e] # Idle
        PROVE  AssetRead(call[e])' /\ \A y \in Assets : AssetTurn(call[e], y)'
    <3>1. e = c /\ call'[e] = p
      BY <1>1, <2>2, <2>7
    <3> QED BY <2>4, <2>5, <3>1
  <2>8. ASSUME Alone' PROVE \A y \in Assets : AssetTurn(Idle, y)'
    <3>1. p = Idle
      BY <1>1, <2>8 DEF Alone
    <3> QED BY <2>4, <2>5, <3>1
  <2> QED BY <2>6, <2>7, <2>8 DEF AssetTurns
<1> QED BY <1>2, <1>3, <1>4, <1>5 DEF AssetsInv

\* The months and the disposal of an asset, where a step changes neither.
LEMMA MonthsStay ==
    ASSUME NEW x, NEW q, NEW p, ~Unwritten(q, x), ~Unwritten(p, x),
           db'[x].accumulated = db[x].accumulated, db'[x].posted = db[x].posted
    PROVE  /\ MonthsTaken(q, x) => MonthsTaken(p, x)'
           /\ Accumulated(x)' = Accumulated(x)
<1>1. Accumulated(x)' = Accumulated(x) /\ InOrder(x)' = InOrder(x)
  BY DEF Accumulated, InOrder
<1>2. ~Unwritten(p, x)'
  BY DEF Unwritten
<1> QED BY <1>1, <1>2 DEF MonthsTaken

LEMMA DisposalStays ==
    ASSUME NEW x, NEW q, NEW p, DisposalTaken(q, x), Accumulated(x)' = Accumulated(x),
           db'[x].disposal = db[x].disposal, db'[x].entries = db[x].entries,
           db'[x].cleared = db[x].cleared,
           db'[x].status = "DISPOSED" \/ Disposing(p, "write", x)
               <=> db[x].status = "DISPOSED" \/ Disposing(q, "write", x),
           Disposing(p, "insert", x) <=> Disposing(q, "insert", x)
    PROVE  DisposalTaken(p, x)'
<1>1. \A at : Disposing(p, at, x)' = Disposing(p, at, x)
  BY DEF Disposing
<1> QED BY <1>1 DEF DisposalTaken

\* A request ends, or is cut off, where it has written what it posted.
LEMMA AssetRequestEnds ==
    ASSUME AssetsInv, NEW c \in Calls, NEW x \in Assets, call[c].row = x, call[c] # Idle, NEW v \in AssetRow,
           call' = [call EXCEPT ![c] = Idle], db' = [db EXCEPT ![x] = v], tidy' \in BOOLEAN,
           NEW status, v = [db[x] EXCEPT !.status = status], status = "DISPOSED" => db[x].disposal,
           tidy' => /\ tidy /\ ~Unwritten(call[c], x) /\ ~Disposing(call[c], "insert", x)
                    /\ status = "DISPOSED" <=>
                           db[x].status = "DISPOSED" \/ Disposing(call[c], "write", x)
    PROVE  AssetsInv'
<1>1. PICK q \in AssetCall : q = call[c]
  BY DEF AssetsInv, AssetsTyped
<1>2. PICK p \in AssetCall : p = Idle
  BY DEF AssetCall, Idle
<1>3. db[x] \in AssetRow
  BY DEF AssetsInv, AssetsTyped
<1>4. /\ v.posted = db[x].posted /\ v.accumulated = db[x].accumulated /\ v.entries = db[x].entries
      /\ v.disposal = db[x].disposal /\ v.cleared = db[x].cleared /\ v.status = status
      /\ db'[x] = v
  BY <1>3 DEF AssetRow, AssetsInv, AssetsTyped
<1>5. AssetMoves(c, q, p, x, v)
  <2>1. (\A m \in Months : db[x].posted[m] >= db[x].posted[m]) /\ db[x].entries >= db[x].entries
    BY <1>3 DEF AssetRow
  <2> QED BY <1>1, <1>2, <1>3, <1>4, <2>1 DEF AssetMoves, AssetsInv, AssetsBacked, AssetRow
<1>6. AssetRequest(p)'
  BY <1>2 DEF AssetRequest
<1>7. ASSUME tidy', AssetTurn(q, x) PROVE AssetRead(p)' /\ AssetTurn(p, x)'
  <2>1. /\ ~Unwritten(p, x) /\ ~Disposing(p, "write", x) /\ ~Disposing(p, "insert", x)
        /\ AssetRead(p)'
    BY <1>2 DEF Idle, Unwritten, Disposing, AssetRead
  <2>2. ~Unwritten(q, x) /\ ~Disposing(q, "insert", x)
        /\ (status = "DISPOSED" <=> db[x].status = "DISPOSED" \/ Disposing(q, "write", x))
    BY <1>1, <1>7
  <2>3. MonthsTaken(p, x)' /\ Accumulated(x)' = Accumulated(x)
    BY <1>4, <1>7, <2>1, <2>2, MonthsStay DEF AssetTurn
  <2>4. DisposalTaken(p, x)'
    BY ZenonT(40), <1>4, <1>7, <2>1, <2>2, <2>3, DisposalStays DEF AssetTurn
  <2> QED BY <2>1, <2>3, <2>4 DEF AssetTurn
<1> QED BY <1>1, <1>2, <1>5, <1>6, <1>7, AssetStep

\* A request reads, and writes nothing.
LEMMA AssetRequestReads ==
    ASSUME AssetsInv, NEW c \in Calls, NEW p \in AssetCall, p.row \in Assets,
           call' = [call EXCEPT ![c] = p], UNCHANGED db, tidy' \in BOOLEAN, AssetRequest(p),
           call[c] = Idle \/ call[c].row = p.row,
           tidy' => tidy /\ (call[c] = Idle => Alone),
           ~Unwritten(call[c], p.row) /\ ~Unwritten(p, p.row),
           \A at \in {"insert", "write"} : ~Disposing(call[c], at, p.row) /\ ~Disposing(p, at, p.row),
           AssetRead(call[c]) /\ AssetTurn(call[c], p.row) => AssetRead(p)
    PROVE  AssetsInv'
<1>1. PICK q \in AssetCall : q = call[c]
  BY DEF AssetsInv, AssetsTyped
<1>2. PICK x \in Assets : x = p.row
  OBVIOUS
<1>3. db[x] \in AssetRow /\ db' = [db EXCEPT ![x] = db[x]]
  BY DEF AssetsInv, AssetsTyped
<1>4. AssetMoves(c, q, p, x, db[x])
  <2>1. (\A m \in Months : db[x].posted[m] >= db[x].posted[m]) /\ db[x].entries >= db[x].entries
    BY <1>3 DEF AssetRow
  <2> QED BY <1>1, <1>2, <1>3, <2>1 DEF AssetMoves, AssetsInv, AssetsBacked, In, AssetRow
<1>5. AssetRequest(p)'
  BY DEF AssetRequest
<1>6. ASSUME AssetRead(q), AssetTurn(q, x) PROVE AssetRead(p)' /\ AssetTurn(p, x)'
  <2>1. AssetRead(p)'
    <3>1. AssetRead(p) /\ Accumulated(p.row)' = Accumulated(p.row)
      BY <1>1, <1>2, <1>6 DEF Accumulated
    <3> QED BY <3>1 DEF AssetRead
  <2>2. MonthsTaken(p, x)' /\ Accumulated(x)' = Accumulated(x)
    BY <1>1, <1>2, <1>6, MonthsStay DEF AssetTurn
  <2>3. DisposalTaken(p, x)'
    BY <1>1, <1>2, <1>6, <2>2, DisposalStays DEF AssetTurn
  <2> QED BY <2>1, <2>2, <2>3 DEF AssetTurn
<1> QED BY <1>1, <1>2, <1>3, <1>4, <1>5, <1>6, AssetStep

-----------------------------------------------------------------------------
(* Depreciation and disposal *)

\* The entry of a month.
LEMMA MonthPosted ==
    ASSUME AssetsInv, NEW c \in Calls, NEW x \in Assets, NEW m \in Months,
           At(c, "depreciate", "post", x, m), Goto(c, "insert"),
           db' = [db EXCEPT ![x].posted[m] = @ + Take(call[c].seen)]
    PROVE  AssetsInv'
<1>1. PICK q \in AssetCall : q = call[c]
  BY DEF AssetsInv, AssetsTyped
<1>2. PICK p \in AssetCall : p = [q EXCEPT !.at = "insert"]
  BY DEF AssetCall
<1>3. /\ q.op = "depreciate" /\ q.at = "post" /\ q.row = x /\ q.arg = m /\ q # Idle
      /\ p.op = "depreciate" /\ p.at = "insert" /\ p.row = x /\ p.arg = m /\ p.seen = q.seen
      /\ call' = [call EXCEPT ![c] = p] /\ UNCHANGED tidy
  BY <1>1, <1>2 DEF At, Goto, AssetCall, Idle, AssetsInv, AssetsTyped
<1>4. AssetRequest(q) /\ q.seen \in 0..Depreciable /\ q.seen < Depreciable /\ db[x] \in AssetRow
  <2>1. AssetRequest(q) /\ db[x] \in AssetRow
    BY <1>1 DEF AssetsInv, AssetsTyped
  <2> QED BY <1>3, <2>1 DEF AssetRequest
<1>5. PICK t \in Nat : t = Take(q.seen) /\ t > 0
  BY <1>4, TakesWhatIsLeft
<1>6. PICK v : v = [db[x] EXCEPT !.posted[m] = @ + t]
  OBVIOUS
<1>7. /\ v \in AssetRow /\ v.posted = [db[x].posted EXCEPT ![m] = @ + t] /\ v.accumulated = db[x].accumulated
      /\ v.entries = db[x].entries /\ v.disposal = db[x].disposal /\ v.cleared = db[x].cleared
      /\ v.status = db[x].status /\ db' = [db EXCEPT ![x] = v]
  <2>1. PICK s : s = [db[x].posted EXCEPT ![m] = @ + t]
    OBVIOUS
  <2>2. db[x].posted \in [Months -> Nat] /\ db \in [Assets -> AssetRow]
    BY <1>4 DEF AssetRow, AssetsInv, AssetsTyped
  <2>3. s \in [Months -> Nat]
    BY <1>5, <2>1, <2>2
  <2>4. v = [db[x] EXCEPT !.posted = s]
    BY <1>6, <2>1
  <2>5. /\ v \in AssetRow /\ v.posted = s /\ v.accumulated = db[x].accumulated
        /\ v.entries = db[x].entries /\ v.disposal = db[x].disposal /\ v.cleared = db[x].cleared
        /\ v.status = db[x].status
    BY <1>4, <2>3, <2>4 DEF AssetRow
  <2>6. db' = [db EXCEPT ![x] = v]
    BY <1>1, <1>5, <1>6, <2>2
  <2> QED BY <2>1, <2>5, <2>6
<1>8. db'[x] = v /\ db[x].posted \in [Months -> Nat] /\ db[x].entries \in Nat
  BY <1>4, <1>7 DEF AssetsInv, AssetsTyped, AssetRow
<1>9. /\ v.posted[m] = db[x].posted[m] + t
      /\ \A k \in Months \ {m} : v.posted[k] = db[x].posted[k]
      /\ v.posted \in [Months -> Nat]
  BY <1>5, <1>7, <1>8
<1>10. AssetMoves(c, q, p, x, v)
  <2>1. \A k \in Months : v.posted[k] >= db[x].posted[k] /\ (db[x].posted[k] > 0 => v.posted[k] > 0)
    BY <1>5, <1>8, <1>9
  <2>2. v.entries >= db[x].entries
    BY <1>7, <1>8
  <2> QED BY <1>1, <1>3, <1>7, <2>1, <2>2 DEF AssetMoves, AssetsInv, AssetsBacked, In
<1>11. AssetRequest(p)'
  <2>1. v.posted[m] > 0
    BY <1>5, <1>8, <1>9
  <2> QED BY <1>3, <1>4, <1>8, <2>1 DEF AssetRequest
<1>12. ASSUME AssetRead(q), AssetTurn(q, x) PROVE AssetRead(p)' /\ AssetTurn(p, x)'
  <2>1. Accumulated(x)' = Accumulated(x) /\ InOrder(x)' = InOrder(x)
    BY <1>7, <1>8 DEF Accumulated, InOrder
  <2>2. db[x].accumulated[m] = 0 /\ q.seen = Accumulated(x) /\ db[x].status = "ACTIVE"
    BY <1>3, <1>12 DEF AssetRead
  <2>3. AssetRead(p)'
    <3>1. Accumulated(p.row)' = p.seen
      BY <1>3, <2>1, <2>2
    <3> QED BY <1>3, <1>7, <1>8, <2>2, <3>1 DEF AssetRead
  <2>4. ~Unwritten(q, x) /\ Unwritten(p, x) /\ Unwritten(p, x)'
    BY <1>3 DEF Unwritten
  <2>5. \A k \in Months : db[x].accumulated[k] = 0 => v.posted[k] = IF k = m THEN t ELSE 0
    BY <1>5, <1>9, <1>12, <2>2, <2>4 DEF AssetTurn, MonthsTaken
  <2>6. SumFunction(v.posted) = SumFunction(db[x].posted) + t /\ SumFunction(db[x].posted) \in Nat
    <3>1. DOMAIN v.posted = Months /\ DOMAIN db[x].posted = Months /\ Numeric(db[x].posted, Months)
      BY <1>8, <1>9, AssetAssumption DEF Numeric
    <3>2. SumFunctionOnSet(v.posted, Months)
            = SumFunctionOnSet(db[x].posted, Months) - db[x].posted[m] + v.posted[m]
      BY <1>9, <3>1, SumChanges
    <3>3. db[x].posted[m] = 0
      BY <1>12, <2>2, <2>4 DEF AssetTurn, MonthsTaken
    <3>4. SumFunctionOnSet(db[x].posted, Months) \in Nat
      BY <1>8, AssetAssumption, SumNotNegative
    <3> QED BY <1>5, <1>9, <3>1, <3>2, <3>3, <3>4 DEF SumFunction
  <2>7. Accumulated(x) \in Nat
    BY <1>4, AccumulatedTyped, AssetAssumption
  <2>8. InOrder(x) => SumFunction(v.posted) = Accumulated(x) + t
    BY <1>5, <1>12, <2>4, <2>6, <2>7 DEF AssetTurn, MonthsTaken
  <2>9. MonthsTaken(p, x)'
    BY ZenonT(40), <1>3, <1>5, <1>7, <1>8, <2>1, <2>4, <2>5, <2>8 DEF MonthsTaken
  <2>10. DisposalTaken(p, x)'
    <3>1. \A at : ~Disposing(p, at, x) /\ ~Disposing(q, at, x)
      BY <1>3 DEF Disposing
    <3> QED BY <1>7, <1>8, <1>12, <2>1, <3>1, DisposalStays DEF AssetTurn
  <2> QED BY <2>3, <2>9, <2>10 DEF AssetTurn
<1> QED BY <1>1, <1>3, <1>7, <1>10, <1>11, <1>12, AssetStep DEF AssetsInv, AssetsTyped

\* The row of a month.
LEMMA MonthWritten ==
    ASSUME AssetsInv, NEW c \in Calls, NEW x \in Assets, NEW m \in Months,
           At(c, "depreciate", "insert", x, m), Goto(c, "write"), db[x].accumulated[m] = 0,
           db' = [db EXCEPT ![x].accumulated[m] = call[c].seen + Take(call[c].seen)]
    PROVE  AssetsInv'
<1>1. PICK q \in AssetCall : q = call[c]
  BY DEF AssetsInv, AssetsTyped
<1>2. PICK p \in AssetCall : p = [q EXCEPT !.at = "write"]
  BY DEF AssetCall
<1>3. /\ q.op = "depreciate" /\ q.at = "insert" /\ q.row = x /\ q.arg = m /\ q # Idle
      /\ p.op = "depreciate" /\ p.at = "write" /\ p.row = x /\ p.arg = m /\ p.seen = q.seen
      /\ call' = [call EXCEPT ![c] = p] /\ UNCHANGED tidy
  BY <1>1, <1>2 DEF At, Goto, AssetCall, Idle, AssetsInv, AssetsTyped
<1>4. /\ AssetRequest(q) /\ q.seen \in 0..Depreciable /\ q.seen < Depreciable /\ db[x] \in AssetRow
      /\ db[x].posted[m] > 0 /\ Depreciable \in Nat
  <2>1. AssetRequest(q) /\ db[x] \in AssetRow
    BY <1>1 DEF AssetsInv, AssetsTyped
  <2> QED BY <1>3, <2>1, AssetAssumption DEF AssetRequest
<1>5. PICK t \in Nat : t = Take(q.seen) /\ t > 0 /\ q.seen + t \in 0..Depreciable
  BY <1>4, TakesWhatIsLeft
<1>6. PICK v : v = [db[x] EXCEPT !.accumulated[m] = q.seen + t]
  OBVIOUS
<1>7. /\ v \in AssetRow /\ v.accumulated = [db[x].accumulated EXCEPT ![m] = q.seen + t]
      /\ v.posted = db[x].posted
      /\ v.entries = db[x].entries /\ v.disposal = db[x].disposal /\ v.cleared = db[x].cleared
      /\ v.status = db[x].status /\ db' = [db EXCEPT ![x] = v]
  BY <1>1, <1>4, <1>5, <1>6 DEF AssetRow, AssetsInv, AssetsTyped
<1>8. /\ db'[x] = v /\ db[x].posted \in [Months -> Nat] /\ db[x].entries \in Nat
      /\ db[x].accumulated \in [Months -> 0..Depreciable]
  BY <1>4, <1>7 DEF AssetsInv, AssetsTyped, AssetRow
<1>9. /\ v.accumulated[m] = q.seen + t /\ q.seen + t > 0
      /\ \A k \in Months \ {m} : v.accumulated[k] = db[x].accumulated[k]
  BY <1>4, <1>5, <1>7, <1>8
<1>10. AssetMoves(c, q, p, x, v)
  <2>1. \A k \in Months : v.posted[k] >= db[x].posted[k] /\ (v.accumulated[k] > 0 => v.posted[k] > 0)
    BY <1>4, <1>7, <1>8, <1>9 DEF AssetsInv, AssetsBacked
  <2>2. v.entries >= db[x].entries
    BY <1>7, <1>8
  <2> QED BY <1>1, <1>3, <1>7, <2>1, <2>2 DEF AssetMoves, AssetsInv, AssetsBacked, In
<1>11. AssetRequest(p)'
  BY <1>3, <1>4, <1>7, <1>8 DEF AssetRequest
<1>12. ASSUME AssetRead(q), AssetTurn(q, x) PROVE AssetRead(p)' /\ AssetTurn(p, x)'
  <2>1. q.seen = Accumulated(x) /\ db[x].status = "ACTIVE"
    BY <1>3, <1>12 DEF AssetRead
  <2>2. AssetRead(p)'
    BY <1>3, <1>7, <1>8, <2>1 DEF AssetRead
  <2>3. Unwritten(q, x) /\ ~Unwritten(p, x) /\ ~Unwritten(p, x)'
    BY <1>3 DEF Unwritten
  <2>4. \A k \in Months : v.accumulated[k] = 0 => v.posted[k] = 0
    BY <1>3, <1>7, <1>9, <1>12, <2>3 DEF AssetTurn, MonthsTaken
  <2>5. Done(x)' = Done(x) \cup {m}
    <3>1. \A k \in Months : v.accumulated[k] > 0 <=> db[x].accumulated[k] > 0 \/ k = m
      BY <1>9
    <3> QED BY <1>8, <3>1 DEF Done
  <2>6. ASSUME InOrder(x)' PROVE SumFunction(v.posted) = Accumulated(x)'
    <3>1. \A k, n \in Done(x) \cup {m} : k < n => v.accumulated[k] < v.accumulated[n]
      BY <1>8, <2>5, <2>6 DEF InOrder, Done
    <3>2. m \notin Done(x) /\ \A k \in Done(x) : k \in Months
      BY DEF Done
    <3>3. InOrder(x)
      <4>1. \A k, n \in Done(x) : k < n => db[x].accumulated[k] < db[x].accumulated[n]
        BY <1>9, <3>1, <3>2
      <4> QED BY <4>1 DEF InOrder, Done
    <3>4. \A n \in Done(x) : m >= n
      <4>1. ASSUME NEW n \in Done(x), ~(m >= n) PROVE FALSE
        <5>1. m \in Int /\ n \in Int
          BY <3>2, AssetAssumption
        <5>2. v.accumulated[m] < v.accumulated[n]
          BY <3>1, <4>1, <5>1
        <5>3. v.accumulated[n] = db[x].accumulated[n] /\ v.accumulated[n] \in Nat
          BY <1>8, <1>9, <3>2
        <5>4. db[x].accumulated[n] <= Accumulated(x)
          BY <1>4, <3>3, AccumulatedTyped
        <5> QED BY <1>4, <1>5, <1>9, <2>1, <5>2, <5>3, <5>4
      <4> QED BY <4>1
    <3>5. Accumulated(x)' = q.seen + t
      <4>1. \A n \in Done(x)' : m >= n
        BY <2>5, <3>4, AssetAssumption
      <4>2. IsLatest(x)'
        BY LatestNext
      <4>3. Accumulated(x)' = db'[x].accumulated[m]
        BY <2>5, <4>1, <4>2 DEF IsLatest
      <4> QED BY <1>8, <1>9, <4>3
    <3> QED BY <1>5, <1>7, <1>12, <2>1, <2>3, <3>3, <3>5 DEF AssetTurn, MonthsTaken
  <2>7. MonthsTaken(p, x)'
    <3>1. Accumulated(x)' \in Nat
      <4>1. (\A y : db[y] \in AssetRow => Accumulated(y) \in 0..Depreciable)'
        BY AccumulatedNext
      <4> QED BY <1>4, <1>7, <1>8, <4>1
    <3>2. Accumulated(x)' = Accumulated(x)' + 0
      BY <3>1
    <3>3. InOrder(x)' => SumFunction(db'[x].posted) = Accumulated(x)' + 0
      BY <1>8, <2>6, <3>2
    <3>4. \A k \in Months : db'[x].accumulated[k] = 0 => db'[x].posted[k] = 0
      BY <1>8, <2>4
    <3> QED BY <2>3, <3>3, <3>4 DEF MonthsTaken
  <2>8. DisposalTaken(p, x)'
    <3>1. \A at : ~Disposing(p, at, x) /\ ~Disposing(p, at, x)' /\ ~Disposing(q, at, x)
      BY <1>3 DEF Disposing
    <3> QED BY <1>7, <1>8, <1>12, <2>1, <3>1 DEF AssetTurn, DisposalTaken
  <2> QED BY <2>2, <2>7, <2>8 DEF AssetTurn
<1> QED BY <1>1, <1>3, <1>7, <1>10, <1>11, <1>12, AssetStep DEF AssetsInv, AssetsTyped

\* The entry of a disposal.
LEMMA DisposalPosted ==
    ASSUME AssetsInv, NEW c \in Calls, NEW x \in Assets,
           At(c, "dispose", "post", x, None), Goto(c, "insert"), PostEntry(x)
    PROVE  AssetsInv'
<1>1. PICK q \in AssetCall : q = call[c]
  BY DEF AssetsInv, AssetsTyped
<1>2. PICK p \in AssetCall : p = [q EXCEPT !.at = "insert"]
  BY DEF AssetCall
<1>3. /\ q.op = "dispose" /\ q.at = "post" /\ q.row = x /\ q # Idle
      /\ p.op = "dispose" /\ p.at = "insert" /\ p.row = x /\ p.seen = q.seen
      /\ call' = [call EXCEPT ![c] = p] /\ UNCHANGED tidy
  BY <1>1, <1>2 DEF At, Goto, AssetCall, Idle, AssetsInv, AssetsTyped
<1>4. AssetRequest(q) /\ q.seen \in 0..Depreciable /\ db[x] \in AssetRow /\ db[x].entries \in Nat
  <2>1. AssetRequest(q) /\ db[x] \in AssetRow
    BY <1>1 DEF AssetsInv, AssetsTyped
  <2>2. q.seen \in 0..Depreciable
    BY <1>3, <2>1 DEF AssetRequest
  <2> QED BY <2>1, <2>2 DEF AssetRow
<1>5. PICK v : v = [db[x] EXCEPT !.entries = @ + 1]
  OBVIOUS
<1>6. /\ v \in AssetRow /\ v.posted = db[x].posted /\ v.accumulated = db[x].accumulated
      /\ v.entries = db[x].entries + 1 /\ v.disposal = db[x].disposal /\ v.cleared = db[x].cleared
      /\ v.status = db[x].status /\ db' = [db EXCEPT ![x] = v] /\ db'[x] = v
  BY SMTT(30), <1>4, <1>5 DEF AssetRow, AssetsInv, AssetsTyped, PostEntry
<1>7. AssetMoves(c, q, p, x, v)
  <2>1. \A m \in Months : db[x].posted[m] >= db[x].posted[m]
    BY <1>4 DEF AssetRow
  <2>2. v.entries >= db[x].entries /\ v.entries > 0
    BY <1>4, <1>6
  <2> QED BY <1>1, <1>3, <1>6, <2>1, <2>2 DEF AssetMoves, AssetsInv, AssetsBacked, In
<1>8. AssetRequest(p)'
  BY <1>3, <1>4, <1>6 DEF AssetRequest
<1>9. ASSUME AssetRead(q), AssetTurn(q, x) PROVE AssetRead(p)' /\ AssetTurn(p, x)'
  <2>1. ~Unwritten(q, x) /\ ~Unwritten(p, x)
    BY <1>3 DEF Unwritten
  <2>2. MonthsTaken(p, x)' /\ Accumulated(x)' = Accumulated(x)
    BY <1>6, <1>9, <2>1, MonthsStay DEF AssetTurn
  <2>3. AssetRead(p)'
    <3>1. Accumulated(p.row)' = Accumulated(q.row)
      BY <1>3, <2>2
    <3> QED BY <1>3, <1>6, <1>9, <3>1 DEF AssetRead
  <2>4. DisposalTaken(p, x)'
    <3>1. /\ ~Disposing(q, "write", x) /\ ~Disposing(q, "insert", x)
          /\ ~Disposing(p, "write", x)' /\ Disposing(p, "insert", x)'
      BY <1>3 DEF Disposing
    <3>2. ~db[x].disposal
      BY <1>3, <1>9 DEF AssetRead
    <3> QED BY <1>6, <1>9, <2>2, <3>1, <3>2 DEF AssetTurn, DisposalTaken
  <2> QED BY <2>2, <2>3, <2>4 DEF AssetTurn
<1> QED BY <1>1, <1>3, <1>6, <1>7, <1>8, <1>9, AssetStep DEF AssetsInv, AssetsTyped

\* The row of a disposal.
LEMMA DisposalWritten ==
    ASSUME AssetsInv, NEW c \in Calls, NEW x \in Assets,
           At(c, "dispose", "insert", x, None), Goto(c, "write"), ~db[x].disposal,
           db' = [db EXCEPT ![x].disposal = TRUE, ![x].cleared = call[c].seen]
    PROVE  AssetsInv'
<1>1. PICK q \in AssetCall : q = call[c]
  BY DEF AssetsInv, AssetsTyped
<1>2. PICK p \in AssetCall : p = [q EXCEPT !.at = "write"]
  BY DEF AssetCall
<1>3. /\ q.op = "dispose" /\ q.at = "insert" /\ q.row = x /\ q # Idle
      /\ p.op = "dispose" /\ p.at = "write" /\ p.row = x /\ p.seen = q.seen
      /\ call' = [call EXCEPT ![c] = p] /\ UNCHANGED tidy
  BY <1>1, <1>2 DEF At, Goto, AssetCall, Idle, AssetsInv, AssetsTyped
<1>4. /\ AssetRequest(q) /\ q.seen \in 0..Depreciable /\ db[x] \in AssetRow
      /\ db[x].entries \in Nat /\ db[x].entries > 0
  <2>1. AssetRequest(q) /\ db[x] \in AssetRow
    BY <1>1 DEF AssetsInv, AssetsTyped
  <2>2. q.seen \in 0..Depreciable /\ db[x].entries > 0
    BY <1>3, <2>1 DEF AssetRequest
  <2> QED BY <2>1, <2>2 DEF AssetRow
<1>5. PICK v : v = [db[x] EXCEPT !.disposal = TRUE, !.cleared = q.seen]
  OBVIOUS
<1>6. /\ v \in AssetRow /\ v.posted = db[x].posted /\ v.accumulated = db[x].accumulated
      /\ v.entries = db[x].entries /\ v.disposal = TRUE /\ v.cleared = q.seen
      /\ v.status = db[x].status /\ db' = [db EXCEPT ![x] = v] /\ db'[x] = v
  BY <1>1, <1>4, <1>5 DEF AssetRow, AssetsInv, AssetsTyped
<1>7. AssetMoves(c, q, p, x, v)
  <2>1. \A m \in Months : db[x].posted[m] >= db[x].posted[m]
    BY <1>4 DEF AssetRow
  <2>2. v.entries >= db[x].entries /\ v.entries > 0
    BY <1>4, <1>6
  <2> QED BY <1>1, <1>3, <1>6, <2>1, <2>2 DEF AssetMoves, AssetsInv, AssetsBacked, In
<1>8. AssetRequest(p)'
  BY <1>3, <1>4, <1>6 DEF AssetRequest
<1>9. ASSUME AssetRead(q), AssetTurn(q, x) PROVE AssetRead(p)' /\ AssetTurn(p, x)'
  <2>1. ~Unwritten(q, x) /\ ~Unwritten(p, x)
    BY <1>3 DEF Unwritten
  <2>2. MonthsTaken(p, x)' /\ Accumulated(x)' = Accumulated(x)
    BY <1>6, <1>9, <2>1, MonthsStay DEF AssetTurn
  <2>3. AssetRead(p)' /\ q.seen = Accumulated(x)
    BY <1>3, <1>6, <1>9 DEF AssetRead
  <2>4. DisposalTaken(p, x)'
    <3>1. /\ ~Disposing(q, "write", x) /\ Disposing(q, "insert", x)
          /\ Disposing(p, "write", x)' /\ ~Disposing(p, "insert", x)'
      BY <1>3 DEF Disposing
    <3> QED BY <1>6, <1>9, <2>2, <2>3, <3>1 DEF AssetTurn, DisposalTaken
  <2> QED BY <2>2, <2>3, <2>4 DEF AssetTurn
<1> QED BY <1>1, <1>3, <1>6, <1>7, <1>8, <1>9, AssetStep DEF AssetsInv, AssetsTyped


-----------------------------------------------------------------------------
(* Every step *)

\* A request begins with one asset.
LEMMA AssetRequestBegins ==
    ASSUME AssetsInv, NEW c \in Calls, NEW p \in AssetCall, p.row \in Assets,
           Enter(c, p.op, p.at, p.row, p.arg, p.seen), AssetRequest(p),
           p.at \notin {"insert", "write"},
           p.op = "depreciate" => db[p.row].status = "ACTIVE" /\ p.at # "post",
           p.op = "dispose" => /\ db[p.row].status # "DISPOSED" /\ ~db[p.row].disposal
                               /\ p.seen = Accumulated(p.row)
    PROVE  AssetsInv'
<1>1. p = [op |-> p.op, at |-> p.at, row |-> p.row, arg |-> p.arg, seen |-> p.seen]
  BY DEF AssetCall
<1>2. /\ call[c] = Idle /\ call' = [call EXCEPT ![c] = p] /\ UNCHANGED db
      /\ tidy' = (tidy /\ Alone)
  BY <1>1 DEF Enter
<1>3. /\ ~Unwritten(call[c], p.row) /\ ~Unwritten(p, p.row)
      /\ \A s \in {"insert", "write"} : ~Disposing(call[c], s, p.row) /\ ~Disposing(p, s, p.row)
  BY <1>2 DEF Unwritten, Disposing, Idle
<1>4. AssetRead(p)
  BY DEF AssetRead
<1>5. tidy' \in BOOLEAN
  BY <1>2
<1> QED BY <1>2, <1>3, <1>4, <1>5, AssetRequestReads

\* The statements of runDepreciation.
LEMMA DepreciationKeeps ==
    ASSUME AssetsInv, NEW c \in Calls, NEW x \in Assets, NEW m \in Months, RunDepreciation(c, x, m)
    PROVE  AssetsInv'
<1>1. tidy \in BOOLEAN /\ Depreciable \in Nat /\ db[x] \in AssetRow /\ call[c] \in AssetCall
  BY AssetAssumption DEF AssetsInv, AssetsTyped
<1>2. CASE In(x, {"ACTIVE"}) /\ Enter(c, "depreciate", "month", x, m, 0)
  <2>1. PICK p \in AssetCall : p = [op |-> "depreciate", at |-> "month", row |-> x, arg |-> m, seen |-> 0]
    <3>1. 0 \in 0..Depreciable
      BY <1>1
    <3> QED BY <3>1 DEF AssetCall
  <2>2. p.op = "depreciate" /\ p.at = "month" /\ p.row = x /\ p.arg = m /\ p.seen = 0
    BY <2>1
  <2>3. AssetRequest(p)
    BY <1>1, <2>2 DEF AssetRequest
  <2>4. Enter(c, p.op, p.at, p.row, p.arg, p.seen) /\ db[x].status = "ACTIVE"
    BY <1>2, <2>2 DEF In
  <2> QED BY <2>2, <2>3, <2>4, AssetRequestBegins
<1>3. CASE At(c, "depreciate", "month", x, m) /\ UNCHANGED db /\ MayDepreciate(x, m) /\ Keep(c, "post", Accumulated(x))
  <2>1. PICK q \in AssetCall : q = call[c]
    BY <1>1
  <2>2. Accumulated(x) \in 0..Depreciable /\ Accumulated(x) < Depreciable /\ db[x].accumulated[m] = 0
    BY <1>1, <1>3, AccumulatedTyped DEF MayDepreciate
  <2>3. PICK p \in AssetCall : p = [q EXCEPT !.at = "post", !.seen = Accumulated(x)]
    BY <2>2 DEF AssetCall
  <2>4. /\ q.op = "depreciate" /\ q.at = "month" /\ q.row = x /\ q.arg = m /\ q # Idle
        /\ p.op = "depreciate" /\ p.at = "post" /\ p.row = x /\ p.arg = m /\ p.seen = Accumulated(x)
    BY <1>3, <2>1, <2>3 DEF At, AssetCall, Idle
  <2>5. call' = [call EXCEPT ![c] = p] /\ UNCHANGED tidy
    BY <1>3, <2>1, <2>3 DEF Keep, AssetsInv, AssetsTyped, AssetCall
  <2>6. AssetRequest(p)
    BY <2>2, <2>4 DEF AssetRequest
  <2>7. AssetRead(q) => AssetRead(p)
    BY <2>2, <2>4 DEF AssetRead
  <2>8. /\ ~Unwritten(q, x) /\ ~Unwritten(p, x)
        /\ \A at \in {"insert", "write"} : ~Disposing(q, at, x) /\ ~Disposing(p, at, x)
    BY <2>4 DEF Unwritten, Disposing
  <2> QED BY <1>1, <1>3, <2>1, <2>4, <2>5, <2>6, <2>7, <2>8, AssetRequestReads
<1>4. CASE At(c, "depreciate", "month", x, m) /\ UNCHANGED db /\ Goto(c, "full")
  <2>1. PICK q \in AssetCall : q = call[c]
    BY <1>1
  <2>2. PICK p \in AssetCall : p = [q EXCEPT !.at = "full"]
    BY DEF AssetCall
  <2>3. /\ q.op = "depreciate" /\ q.at = "month" /\ q.row = x /\ q.arg = m /\ q # Idle
        /\ p.op = "depreciate" /\ p.at = "full" /\ p.row = x /\ p.arg = m /\ p.seen = q.seen
    BY <1>4, <2>1, <2>2 DEF At, AssetCall, Idle
  <2>4. call' = [call EXCEPT ![c] = p] /\ UNCHANGED tidy
    BY <1>4, <2>1, <2>2 DEF Goto, AssetsInv, AssetsTyped, AssetCall
  <2>5. AssetRequest(q) /\ AssetRequest(p)
    BY <2>1, <2>3 DEF AssetsInv, AssetRequest
  <2>6. AssetRead(q) => AssetRead(p)
    BY <2>3 DEF AssetRead
  <2>7. /\ ~Unwritten(q, x) /\ ~Unwritten(p, x)
        /\ \A at \in {"insert", "write"} : ~Disposing(q, at, x) /\ ~Disposing(p, at, x)
    BY <2>3 DEF Unwritten, Disposing
  <2> QED BY <1>1, <1>4, <2>1, <2>3, <2>4, <2>5, <2>6, <2>7, AssetRequestReads
<1>5. CASE /\ \/ At(c, "depreciate", "month", x, m)
              \/ At(c, "depreciate", "insert", x, m) /\ db[x].accumulated[m] # 0
           /\ UNCHANGED db /\ Leave(c)
  <2>1. call[c].op = "depreciate" /\ call[c].row = x /\ call[c].arg = m /\ call[c] # Idle
    BY <1>5 DEF At, Idle
  <2>2. call' = [call EXCEPT ![c] = Idle] /\ UNCHANGED tidy
    BY <1>5 DEF Leave, AssetsInv, AssetsTyped
  <2>3. ASSUME tidy' PROVE tidy /\ ~Unwritten(call[c], x)
    <3>1. AssetRead(call[c])
      BY <2>1, <2>2, <2>3 DEF AssetsInv, AssetTurns
    <3>2. ~(call[c].at = "insert" /\ db[x].accumulated[m] # 0)
      BY <2>1, <3>1 DEF AssetRead
    <3> QED BY <1>5, <2>2, <2>3, <3>2 DEF Unwritten, At
  <2>4. \A at : ~Disposing(call[c], at, x)
    BY <2>1 DEF Disposing
  <2>5. PICK v \in AssetRow : v = db[x]
    BY <1>1
  <2>10. PICK status : status = db[x].status
    OBVIOUS
  <2>6. v = [db[x] EXCEPT !.status = status] /\ (status = "DISPOSED" => db[x].disposal)
    BY <1>1, <2>5, <2>10 DEF AssetRow, AssetsInv, AssetsBacked, In
  <2>7. db' = [db EXCEPT ![x] = v]
    BY <1>5, <2>5 DEF AssetsInv, AssetsTyped
  <2>8. tidy' => /\ tidy /\ ~Unwritten(call[c], x) /\ ~Disposing(call[c], "insert", x)
                 /\ status = "DISPOSED" <=>
                        db[x].status = "DISPOSED" \/ Disposing(call[c], "write", x)
    BY <2>3, <2>4, <2>10
  <2>9. tidy' \in BOOLEAN
    BY <1>1, <2>2
  <2> QED BY <2>1, <2>2, <2>6, <2>7, <2>8, <2>9, AssetRequestEnds
<1>6. ASSUME NEW status \in {"ACTIVE", "FULLY_DEPRECIATED"}, Becomes(x, status), Leave(c),
             At(c, "depreciate", "full", x, m) \/ At(c, "depreciate", "write", x, m)
      PROVE  AssetsInv'
  <2>1. call[c].op = "depreciate" /\ call[c].row = x /\ call[c].arg = m /\ call[c] # Idle
        /\ call[c].at # "insert"
    BY <1>6 DEF At, Idle
  <2>2. PICK v \in AssetRow : v = [db[x] EXCEPT !.status = status]
    BY <1>1 DEF AssetRow
  <2>3. call' = [call EXCEPT ![c] = Idle] /\ UNCHANGED tidy /\ db' = [db EXCEPT ![x] = v]
    BY <1>6, <2>2 DEF Leave, Becomes, AssetsInv, AssetsTyped
  <2>4. ~Unwritten(call[c], x) /\ \A at : ~Disposing(call[c], at, x)
    BY <2>1 DEF Unwritten, Disposing
  <2>5. tidy' => db[x].status # "DISPOSED"
    <3>1. tidy' => AssetRead(call[c])
      BY <2>1, <2>3 DEF AssetsInv, AssetTurns
    <3> QED BY <2>1, <3>1 DEF AssetRead
  <2>6. status # "DISPOSED"
    OBVIOUS
  <2> QED BY <1>1, <2>1, <2>2, <2>3, <2>4, <2>5, <2>6, AssetRequestEnds
<1>7. CASE /\ At(c, "depreciate", "post", x, m) /\ Goto(c, "insert")
           /\ db' = [db EXCEPT ![x].posted[m] = @ + Take(call[c].seen)]
  BY <1>7, MonthPosted
<1>8. CASE /\ At(c, "depreciate", "insert", x, m) /\ Goto(c, "write") /\ db[x].accumulated[m] = 0
           /\ db' = [db EXCEPT ![x].accumulated[m] = call[c].seen + Take(call[c].seen)]
  BY <1>8, MonthWritten
<1> QED BY <1>2, <1>3, <1>4, <1>5, <1>6, <1>7, <1>8 DEF RunDepreciation

\* The statements of disposeAsset.
LEMMA DisposalKeeps ==
    ASSUME AssetsInv, NEW c \in Calls, NEW x \in Assets, DisposeAsset(c, x)
    PROVE  AssetsInv'
<1>1. tidy \in BOOLEAN /\ db[x] \in AssetRow /\ call[c] \in AssetCall
  BY DEF AssetsInv, AssetsTyped
<1>2. CASE MayDispose(x) /\ Enter(c, "dispose", "post", x, None, Accumulated(x))
  <2>1. Accumulated(x) \in 0..Depreciable
    BY <1>1, AccumulatedTyped
  <2>2. PICK p \in AssetCall :
           p = [op |-> "dispose", at |-> "post", row |-> x, arg |-> None, seen |-> Accumulated(x)]
    BY <2>1 DEF AssetCall
  <2>3. p.op = "dispose" /\ p.at = "post" /\ p.row = x /\ p.arg = None /\ p.seen = Accumulated(x)
    BY <2>2
  <2>4. AssetRequest(p)
    BY <2>1, <2>3 DEF AssetRequest
  <2>5. /\ Enter(c, p.op, p.at, p.row, p.arg, p.seen)
        /\ db[x].status # "DISPOSED" /\ ~db[x].disposal
    BY <1>2, <2>3 DEF MayDispose, In
  <2> QED BY <2>3, <2>4, <2>5, AssetRequestBegins
<1>3. CASE At(c, "dispose", "post", x, None) /\ PostEntry(x) /\ Goto(c, "insert")
  BY <1>3, DisposalPosted
<1>4. CASE At(c, "dispose", "insert", x, None) /\ db[x].disposal /\ UNCHANGED db /\ Leave(c)
  <2>1. call[c].op = "dispose" /\ call[c].at = "insert" /\ call[c].row = x /\ call[c] # Idle
    BY <1>4 DEF At, Idle
  <2>2. call' = [call EXCEPT ![c] = Idle] /\ UNCHANGED tidy
    BY <1>4 DEF Leave, AssetsInv, AssetsTyped
  <2>3. ~tidy'
    <3>1. tidy' => AssetRead(call[c])
      BY <2>1, <2>2 DEF AssetsInv, AssetTurns
    <3> QED BY <1>4, <2>1, <3>1 DEF AssetRead
  <2>4. PICK v \in AssetRow : v = db[x]
    BY <1>1
  <2>9. PICK status : status = db[x].status
    OBVIOUS
  <2>5. v = [db[x] EXCEPT !.status = status] /\ (status = "DISPOSED" => db[x].disposal)
    BY <1>1, <2>4, <2>9 DEF AssetRow, AssetsInv, AssetsBacked, In
  <2>6. db' = [db EXCEPT ![x] = v]
    BY <1>4, <2>4 DEF AssetsInv, AssetsTyped
  <2>7. tidy' => /\ tidy /\ ~Unwritten(call[c], x) /\ ~Disposing(call[c], "insert", x)
                 /\ status = "DISPOSED" <=>
                        db[x].status = "DISPOSED" \/ Disposing(call[c], "write", x)
    BY <2>3
  <2>8. tidy' \in BOOLEAN
    BY <1>1, <2>2
  <2> QED BY <2>1, <2>2, <2>5, <2>6, <2>7, <2>8, AssetRequestEnds
<1>5. CASE /\ At(c, "dispose", "insert", x, None) /\ ~db[x].disposal /\ Goto(c, "write")
           /\ db' = [db EXCEPT ![x].disposal = TRUE, ![x].cleared = call[c].seen]
  BY <1>5, DisposalWritten
<1>6. CASE At(c, "dispose", "write", x, None) /\ Becomes(x, "DISPOSED") /\ Leave(c)
  <2>1. call[c].op = "dispose" /\ call[c].at = "write" /\ call[c].row = x /\ call[c] # Idle
    BY <1>6 DEF At, Idle
  <2>2. PICK v \in AssetRow : v = [db[x] EXCEPT !.status = "DISPOSED"]
    BY <1>1 DEF AssetRow
  <2>3. call' = [call EXCEPT ![c] = Idle] /\ UNCHANGED tidy /\ db' = [db EXCEPT ![x] = v]
    BY <1>6, <2>2 DEF Leave, Becomes, AssetsInv, AssetsTyped
  <2>4. /\ ~Unwritten(call[c], x) /\ Disposing(call[c], "write", x)
        /\ ~Disposing(call[c], "insert", x)
    BY <2>1 DEF Unwritten, Disposing
  <2>5. db[x].disposal
    BY <2>1 DEF AssetsInv, AssetRequest
  <2> QED BY ZenonT(40), <1>1, <2>1, <2>2, <2>3, <2>4, <2>5, AssetRequestEnds
<1> QED BY <1>2, <1>3, <1>4, <1>5, <1>6 DEF DisposeAsset, PostDisposal

\* An asset is entered in the register.
LEMMA CreationKeeps ==
    ASSUME AssetsInv, NEW x \in Assets, NEW residual \in Residuals, CreateAsset(x, residual)
    PROVE  AssetsInv'
<1>1. /\ db[x].status = "ABSENT" /\ db \in [Assets -> AssetRow] /\ db[x] \in AssetRow
      /\ tidy' = (tidy /\ Alone) /\ UNCHANGED call
      /\ db' = [db EXCEPT ![x].status = "ACTIVE", ![x].residual = residual]
  BY DEF AssetsInv, AssetsTyped, CreateAsset, Statement, In
<1>2. PICK v \in AssetRow : v = [db[x] EXCEPT !.status = "ACTIVE", !.residual = residual]
  BY <1>1, AssetAssumption DEF AssetRow
<1>3. /\ v.posted = db[x].posted /\ v.accumulated = db[x].accumulated /\ v.entries = db[x].entries
      /\ v.disposal = db[x].disposal /\ v.cleared = db[x].cleared /\ v.status = "ACTIVE"
      /\ db' = [db EXCEPT ![x] = v]
  BY <1>1, <1>2 DEF AssetRow
<1>4. /\ db' \in [Assets -> AssetRow]
      /\ \A y \in Assets :
            /\ db'[y].posted = db[y].posted /\ db'[y].accumulated = db[y].accumulated
            /\ db'[y].entries = db[y].entries /\ db'[y].disposal = db[y].disposal
            /\ db'[y].cleared = db[y].cleared
            /\ db'[y].status = "DISPOSED" <=> db[y].status = "DISPOSED"
  BY <1>1, <1>3
<1>5. AssetsTyped'
  BY <1>1, <1>4 DEF AssetsInv, AssetsTyped
<1>6. AssetsBacked'
  BY <1>4 DEF AssetsInv, AssetsBacked, In
<1>7. \A c \in Calls : AssetRequest(call[c])'
  BY <1>1, <1>4 DEF AssetsInv, AssetRequest
<1>8. ASSUME tidy' PROVE AssetTurns'
  <2>1. Alone /\ Alone' /\ \A y \in Assets : AssetTurn(Idle, y)
    BY <1>1, <1>8 DEF AssetsInv, AssetTurns, Alone
  <2>2. \A y \in Assets : AssetTurn(Idle, y)'
    <3>1. TAKE y \in Assets
    <3>2. ~Unwritten(Idle, y) /\ \A at : ~Disposing(Idle, at, y)
      BY DEF Unwritten, Disposing, Idle
    <3>3. MonthsTaken(Idle, y)' /\ Accumulated(y)' = Accumulated(y)
      BY <1>4, <2>1, <3>2, MonthsStay DEF AssetTurn
    <3>4. DisposalTaken(Idle, y)'
      BY <1>4, <2>1, <3>2, <3>3, DisposalStays DEF AssetTurn
    <3> QED BY <3>3, <3>4 DEF AssetTurn
  <2> QED BY <2>1, <2>2 DEF AssetTurns, Alone
<1> QED BY <1>5, <1>6, <1>7, <1>8 DEF AssetsInv

LEMMA AssetsStart == AssetsInit => AssetsInv
<1> SUFFICES ASSUME AssetsInit PROVE AssetsInv
  OBVIOUS
<1>1. Depreciable \in Nat /\ IsFiniteSet(Months) /\ Months \subseteq Int
  BY AssetAssumption
<1>2. /\ db = [x \in Assets |-> NoAsset] /\ call = [c \in Calls |-> Idle] /\ tidy = TRUE
  BY DEF AssetsInit, CallsStart
<1>3. \A x \in Assets :
         /\ db[x] = NoAsset /\ db[x].accumulated = [m \in Months |-> 0]
         /\ db[x].posted = [m \in Months |-> 0] /\ db[x].status = "ABSENT" /\ db[x].disposal = FALSE
         /\ db[x].entries = 0 /\ db[x].cleared = 0
  BY <1>2 DEF NoAsset
<1>4. NoAsset \in AssetRow /\ Idle \in AssetCall
  BY <1>1 DEF NoAsset, AssetRow, Idle, AssetCall
<1>5. AssetsTyped
  BY <1>2, <1>4 DEF AssetsTyped
<1>6. AssetsBacked
  BY <1>3 DEF AssetsBacked, In
<1>7. \A c \in Calls : AssetRequest(call[c])
  BY <1>2 DEF AssetRequest
<1>8. \A x \in Assets : AssetTurn(Idle, x)
  <2>1. TAKE x \in Assets
  <2>2. ~Unwritten(Idle, x) /\ \A at : ~Disposing(Idle, at, x)
    BY DEF Unwritten, Disposing, Idle
  <2>3. Accumulated(x) = 0
    <3>1. Done(x) = {}
      BY <1>3 DEF Done
    <3> QED BY <3>1, LatestMonth
  <2>4. SumFunction(db[x].posted) = 0
    <3>1. DOMAIN db[x].posted = Months /\ \A m \in Months : db[x].posted[m] = 0
      BY <1>3
    <3> QED BY <1>1, <3>1, SumOfNone DEF SumFunction
  <2>5. MonthsTaken(Idle, x)
    BY <1>3, <2>2, <2>3, <2>4 DEF MonthsTaken
  <2>6. DisposalTaken(Idle, x)
    BY <1>3, <2>2 DEF DisposalTaken
  <2> QED BY <2>5, <2>6 DEF AssetTurn
<1>9. AssetTurns
  BY <1>2, <1>8 DEF AssetTurns
<1> QED BY <1>5, <1>6, <1>7, <1>9 DEF AssetsInv

LEMMA AssetsStepKeeps == AssetsInv /\ [AssetsStep]_docVars => AssetsInv'
<1> SUFFICES ASSUME AssetsInv, [AssetsStep]_docVars PROVE AssetsInv'
  OBVIOUS
<1>1. ASSUME NEW x \in Assets, NEW residual \in Residuals, CreateAsset(x, residual) PROVE AssetsInv'
  BY <1>1, CreationKeeps
<1>2. ASSUME NEW x \in Assets, NEW c \in Calls, DisposeAsset(c, x) PROVE AssetsInv'
  BY <1>2, DisposalKeeps
<1>3. ASSUME NEW x \in Assets, NEW c \in Calls, NEW m \in Months, RunDepreciation(c, x, m) PROVE AssetsInv'
  BY <1>3, DepreciationKeeps
<1>4. ASSUME NEW c \in Calls, CutOff(c) PROVE AssetsInv'
  <2>1. call \in [Calls -> AssetCall] /\ call' = [call EXCEPT ![c] = Idle] /\ tidy' = FALSE /\ UNCHANGED db
    BY <1>4 DEF CutOff, AssetsInv, AssetsTyped
  <2>2. Idle \in AssetCall
    BY DEF Idle, AssetCall
  <2>3. AssetsTyped'
    BY <2>1, <2>2 DEF AssetsInv, AssetsTyped
  <2>4. AssetsBacked'
    BY <2>1 DEF AssetsInv, AssetsBacked, In
  <2>5. \A e \in Calls : AssetRequest(call[e])'
    BY <2>1 DEF AssetsInv, AssetRequest
  <2> QED BY <2>1, <2>3, <2>4, <2>5 DEF AssetsInv
<1>5. CASE UNCHANGED docVars
  <2>1. UNCHANGED <<db, call, tidy>>
    BY <1>5 DEF docVars
  <2>2. AssetsTyped' /\ AssetsBacked' /\ \A e \in Calls : AssetRequest(call[e])'
    BY <2>1 DEF AssetsInv, AssetsTyped, AssetsBacked, In, AssetRequest
  <2>3. tidy' => AssetTurns'
    <3>1. \A y : Accumulated(y)' = Accumulated(y) /\ (InOrder(y)' <=> InOrder(y))
      BY <2>1 DEF Accumulated, InOrder
    <3>2. \A q : (AssetRead(q)' <=> AssetRead(q))
      BY <2>1, <3>1 DEF AssetRead
    <3>3. \A q, y : (MonthsTaken(q, y)' <=> MonthsTaken(q, y))
      BY <2>1, <3>1 DEF MonthsTaken, Unwritten
    <3>4. \A q, y : (DisposalTaken(q, y)' <=> DisposalTaken(q, y))
      BY <2>1, <3>1 DEF DisposalTaken, Disposing
    <3> QED BY <2>1, <3>2, <3>3, <3>4 DEF AssetsInv, AssetTurns, AssetTurn, Alone
  <2> QED BY <2>2, <2>3 DEF AssetsInv
<1> QED BY <1>1, <1>2, <1>3, <1>4, <1>5 DEF AssetsStep, AssetsNext

LEMMA AssetsInvSuffices == AssetsInv => AssetsSound
<1> SUFFICES ASSUME AssetsInv PROVE AssetsSound
  OBVIOUS
<1>1. AssetsTypeOK
  BY DEF AssetsInv, AssetsTyped, AssetRow, AssetsTypeOK
<1>2. ASSUME tidy /\ Alone, NEW x \in Assets, InOrder(x)
      PROVE  /\ db[x].entries = IF In(x, {"DISPOSED"}) THEN 1 ELSE 0
             /\ Posted(x) = Accumulated(x) + db[x].entries
             /\ In(x, {"DISPOSED"}) => db[x].cleared = Accumulated(x)
  <2>1. AssetTurn(Idle, x) /\ db[x] \in AssetRow /\ db[x].entries \in Nat
    BY <1>2 DEF AssetsInv, AssetsTyped, AssetTurns, AssetRow
  <2>2. ~Unwritten(Idle, x) /\ \A at : ~Disposing(Idle, at, x)
    BY DEF Unwritten, Disposing, Idle
  <2>3. Accumulated(x) \in Nat
    BY <2>1, AccumulatedTyped, AssetAssumption
  <2>4. SumFunction(db[x].posted) = Accumulated(x)
    BY <1>2, <2>1, <2>2, <2>3 DEF AssetTurn, MonthsTaken
  <2>5. Posted(x) = Accumulated(x) + db[x].entries
    BY <2>1, <2>3, <2>4 DEF Posted
  <2> QED BY <2>1, <2>2, <2>5 DEF AssetTurn, DisposalTaken, In
<1>3. AssetsAgree
  BY <1>2 DEF AssetsAgree
<1> QED BY <1>1, <1>3 DEF AssetsInv, AssetsSound

\* An asset is never ahead of the journal, however its months are run and
\* disposed of; and while requests take turns and months are run in their order
\* the journal has taken what the latest month says, and a disposal takes all of
\* it back (runDepreciation posts a month before it inserts its row, and
\* disposeAsset its entry before the disposal).
THEOREM AssetsAreAlwaysSound == AssetsSpec => []AssetsSound
BY AssetsStart, AssetsStepKeeps, AssetsInvSuffices, PTL DEF AssetsSpec

-----------------------------------------------------------------------------
(***************************************************************************)
(* Orders.  Every row that an order stands on is one that its step found   *)
(* earlier and that only grows (RowsInv, RowsFit, Grows): a requisition    *)
(* once reviewed stays reviewed, a reservation once linked stays linked,   *)
(* and a count of invoices never falls.  A match that was cut off left     *)
(* invoices in the journal that its order does not count (MatchesLost), so *)
(* the order counts no more than the journal has.  While requests take     *)
(* turns, the one request in hand is ahead of its order's rows by what it  *)
(* has written so far and no more (OrderTurn): what it receives is worth   *)
(* Valued, and it is posted before it is released.                         *)
(***************************************************************************)

Tables == Requisitions \cup Orders \cup Receipts \cup Invoices
          \cup Budgets \cup Lines \cup Commitments \cup Warehouses
OrdersInit ==
    /\ \E planned \in [Lines -> Nat] :
          db = [x \in Tables |->
                   IF x \in Requisitions THEN NoRequisition ELSE IF x \in Orders THEN NoOrder
                   ELSE IF x \in Receipts THEN NoReceipt ELSE IF x \in Invoices THEN NoInvoice
                   ELSE IF x \in Budgets THEN NoBudget ELSE IF x \in Lines THEN NewLine(planned[x])
                   ELSE IF x \in Commitments THEN NoCommitment ELSE NoStock]
    /\ CallsStart
OrdersSystem == ProcurementNext \/ ApprovalsNext \/ \E c \in Calls : CutOff(c)
OrdersSpec == OrdersInit /\ [][OrdersSystem]_docVars

\* The rows of the eight tables, and what a request knows.
RequisitionRow == [status : {"ABSENT", "DRAFT", "SUBMITTED", "APPROVED", "REJECTED"},
                   maker : Users \cup {None}, checker : Users \cup {None}]
OrderStatus == InForce \cup {"ABSENT", "DRAFT", "CANCELLED"}
OrderRow == [status : OrderStatus, maker : Users \cup {None}, checker : Users \cup {None},
             commitment : Commitments \cup {None}, received : Nat, invoiced : Nat]
ReceiptRow == [status : {"ABSENT", "DRAFT", "POSTED"}, worth : Nat, entries : Nat]
InvoiceRow == [status : {"ABSENT", "PENDING_MATCH", "POSTED"}, entries : Nat,
               grn : Receipts \cup {None}]
ReservationRow == [status : CommitmentStatus, line : Lines \cup {None}, amount : Nat,
                   released : Nat, source : Orders \cup {None}]
OrdersTyped ==
    /\ DOMAIN db = Tables /\ db = [x \in Tables |-> db[x]]
    /\ \A r \in Requisitions : db[r] \in RequisitionRow
    /\ \A o \in Orders : db[o] \in OrderRow
    /\ \A g \in Receipts : db[g] \in ReceiptRow
    /\ \A i \in Invoices : db[i] \in InvoiceRow
    /\ \A b \in Budgets : db[b] \in BudgetRow
    /\ \A l \in Lines : db[l] \in LineRow
    /\ \A k \in Commitments : db[k] \in ReservationRow
    /\ \A w \in Warehouses : db[w] \in BalanceRow

ReceiptSeen == [received : Nat, commitment : Commitments \cup {None}, last : Int,
                status : InForce \cup {None}]
MatchSeen == [status : InForce \cup {None}]
ReceiptSteps == {"create", "post", "stock", "stocked", "release", "released", "receive",
                 "posted", "refresh", "write"}
OrderSteps == {"idle", "check", "reserve", "link", "count"} \cup ReceiptSteps
OrderSeen == {None} \cup Commitments \cup ReceiptSeen \cup MatchSeen
OrdersCall ==
    [op : {"none", "submit", "approve", "reject", "close", "createOrder", "approveOrder",
           "rejectOrder", "receiveGoods", "completeMatch"},
     at : OrderSteps, row : Tables \cup {None}, arg : Users \cup UnitCosts \cup {None},
     seen : OrderSeen]

Reviewed(x) == ~In(x, {"ABSENT"}) /\ FourEyes(x)
Placed(o) == Reviewed(o) /\ db[o].commitment # None

\* The rows stand on each other: an order on its requisition and its
\* reservation, a receipt and a match on an order that was placed.
RowsInv ==
    /\ OrdersTyped
    /\ \A r \in Requisitions : In(r, {"APPROVED"}) => Reviewed(r)
    /\ \A o \in Orders :
          /\ ~In(o, {"ABSENT"}) /\ RequestOf[o] # None => Reviewed(RequestOf[o])
          /\ In(o, InForce) => Placed(o)
          /\ In(o, {"FULLY_INVOICED"}) => Ordered[o] <= db[o].invoiced
          /\ db[o].commitment # None =>
                ~In(db[o].commitment, {"ABSENT"}) /\ db[db[o].commitment].source = o
    /\ \A g \in Receipts : ~In(g, {"ABSENT"}) => Placed(OrderOf[g])
    /\ \A i \in Invoices :
          db[i].grn # None => ~In(db[i].grn, {"ABSENT"}) /\ OrderOf[db[i].grn] = OrderOf[i]
    /\ \A k \in Commitments :
          IF In(k, {"ABSENT"}) THEN db[k].source = None
          ELSE /\ db[k].source \in Orders /\ db[k].line = LineOf[db[k].source]
               /\ db[k].amount = Ordered[db[k].source]

\* What a request has checked or made, and nothing takes back.
OrderRequest(q) ==
    \/ q = Idle
    \/ /\ q.op \in {"submit", "approve", "reject"} /\ q.row \in Requisitions /\ q.at = "write"
       /\ ~In(q.row, {"ABSENT"})
       /\ q.op = "approve" => q.arg \in Users /\ q.arg # db[q.row].maker
    \/ /\ q.op \in {"submit", "approve", "reject", "close"} /\ q.row \in Budgets /\ q.at = "write"
       /\ q.op = "approve" => q.arg \in Users
    \/ /\ q.op = "createOrder" /\ q.row \in Orders /\ q.at = "write" /\ q.arg \in Users
       /\ RequestOf[q.row] # None => Reviewed(RequestOf[q.row])
    \/ /\ q.op = "approveOrder" /\ q.row \in Orders /\ q.at \in {"check", "reserve", "link", "write"}
       /\ ~In(q.row, {"ABSENT"}) /\ q.arg \in Users /\ q.arg # db[q.row].maker
       /\ q.at = "link" => /\ q.seen \in Commitments /\ ~In(q.seen, {"ABSENT"})
                           /\ db[q.seen].source = q.row
       /\ q.at = "write" => db[q.row].commitment # None
    \/ /\ q.op = "rejectOrder" /\ q.row \in Orders /\ q.at = "write" /\ ~In(q.row, {"ABSENT"})
    \/ /\ q.op = "receiveGoods" /\ q.row \in Receipts /\ q.at \in ReceiptSteps
       /\ q.arg \in UnitCosts /\ Placed(OrderOf[q.row]) /\ q.seen \in ReceiptSeen
       /\ q.at # "create" => ~In(q.row, {"ABSENT"})
       /\ q.seen.commitment \in Commitments /\ ~In(q.seen.commitment, {"ABSENT"})
       /\ q.at = "released" => q.seen.last \in Nat
       /\ q.at = "write" => q.seen.status \in {"APPROVED", "PARTIALLY_RECEIVED", "FULLY_RECEIVED"}
    \/ /\ q.op = "completeMatch" /\ q.row \in Invoices
       /\ q.at \in {"post", "posted", "count", "refresh", "write"}
       /\ Placed(OrderOf[q.row])
       /\ q.at = "write" =>
             /\ q.seen \in MatchSeen /\ q.seen.status \in {"FULLY_INVOICED", "PARTIALLY_INVOICED", None}
             /\ q.seen.status = "FULLY_INVOICED" =>
                   q.seen.status = None \/ Ordered[OrderOf[q.row]] <= db[OrderOf[q.row]].invoiced

\* What matches have posted for an order and not counted: of requests that are
\* still to count it, and of others, which did not get there.
InvoicesOf(o) == {i \in Invoices : OrderOf[i] = o}
Matched == [i \in Invoices |-> Delivered[i] * db[i].entries]
Counts(q, o) ==
    IF q.op = "completeMatch" /\ q.at \in {"posted", "count"} /\ OrderOf[q.row] = o
    THEN Delivered[q.row] ELSE 0
Uncounted(o) == [c \in Calls |-> Counts(call[c], o)]
MatchesLost(o) ==
    SumFunctionOnSet(Matched, InvoicesOf(o)) - db[o].invoiced - SumFunctionOnSet(Uncounted(o), Calls)

\* With q the only request: what it has done of a receipt or an approval, and
\* what it has read.  It receives goods that are worth Valued(q), which it frees
\* before they are received, and has spare on their line until it posts them and
\* once it freed them.
Receiving(q, ats, o) == q.op = "receiveGoods" /\ q.at \in ats /\ OrderOf[q.row] = o
Valued(q) == Delivered[q.row] * q.arg
Brings(q, o) == IF Receiving(q, {"posted"}, o) THEN Delivered[q.row] ELSE 0
Frees(q, o) == IF Receiving(q, {"receive", "posted"}, o) THEN Valued(q) ELSE 0
Spares(q, l) ==
    IF /\ q.op = "receiveGoods" /\ q.at \in {"post", "receive", "posted"}
       /\ LineOf[OrderOf[q.row]] = l
    THEN Valued(q) ELSE 0
Approving(q, at, o) == q.op = "approveOrder" /\ q.at = at /\ q.row = o
Linking(q, k, o) == Approving(q, "link", o) /\ q.seen = k
Unposted(q, g) == q.op = "receiveGoods" /\ q.row = g /\ q.at = "post"
Handling(q, g) ==
    /\ q.op = "receiveGoods" /\ q.row = g
    /\ q.at \in {"post", "stock", "stocked", "release", "released", "receive", "posted"}
Late == {"posted", "refresh", "write"}
PostedFor(o) == {g \in Receipts : OrderOf[g] = o /\ In(g, {"POSTED"})}
WorthPosted(o) == SumFunctionOnSet(Worth, PostedFor(o))
WorthRefused(l) == SumFunctionOnSet(Worth, RefusedOn(l))
Refused(g) == ~MayRelease(db[OrderOf[g]].commitment, db[g].worth)

ReservationTaken(q, o, k) == db[k].released = WorthPosted(o) + Frees(q, o)
OrderTaken(q, o) ==
    /\ db[o].received = SumFunctionOnSet(Delivered, PostedFor(o)) + Brings(q, o)
    /\ db[o].received <= Ordered[o]
    /\ In(o, {"PARTIALLY_RECEIVED"}) =>
          db[o].received < Ordered[o] \/ Receiving(q, Late, o)
    /\ db[o].commitment # None <=> In(o, InForce) \/ Approving(q, "write", o)
    /\ db[o].commitment # None => ReservationTaken(q, o, db[o].commitment)
ReceiptTaken(q, g) ==
    /\ db[g].entries = IF In(g, {"ABSENT"}) \/ Unposted(q, g) \/ db[g].worth = 0 THEN 0 ELSE 1
    /\ In(g, {"DRAFT"}) => Handling(q, g) \/ db[g].worth = 0 \/ Refused(g)
LinkTaken(q, k) ==
    db[k].source # None =>
        db[db[k].source].commitment = k \/ Linking(q, k, db[k].source)
LineTaken(q, l) ==
    db[l].actual + CommittedOf(l) + Spares(q, l) <= db[l].revised + WorthRefused(l)
OrderTurn(q) ==
    /\ \A o \in Orders : OrderTaken(q, o)
    /\ \A g \in Receipts : ReceiptTaken(q, g)
    /\ \A k \in Commitments : LinkTaken(q, k)
    /\ \A l \in Lines : LineTaken(q, l)

ReceiptRead(q, o) ==
    /\ In(o, {"APPROVED", "PARTIALLY_RECEIVED"})
    /\ q.at \notin Late =>
          /\ q.seen.received = db[o].received /\ q.seen.commitment = db[o].commitment
          /\ db[o].received + Delivered[q.row] <= Ordered[o]
    /\ q.at = "released" =>
          /\ q.seen.last = db[q.seen.commitment].released /\ In(q.seen.commitment, Open)
          /\ q.seen.last + Valued(q) <= db[q.seen.commitment].amount
    /\ q.at = "create" => In(q.row, {"ABSENT"})
    /\ q.at \notin {"create", "refresh", "write"} =>
          In(q.row, {"DRAFT"}) /\ db[q.row].worth = Valued(q)
    /\ q.at = "write" => q.seen.status = StatusReceived(o)
OrderRead(q) ==
    /\ q.op \in {"approveOrder", "rejectOrder"} => In(q.row, {"DRAFT"})
    /\ Approving(q, "reserve", q.row) => Available(LineOf[q.row]) >= Ordered[q.row]
    /\ Approving(q, "link", q.row) => db[q.seen].released = 0
    /\ q.op = "receiveGoods" => ReceiptRead(q, OrderOf[q.row])

OrderTurns ==
    /\ \A c, e \in Calls : call[c] # Idle /\ call[e] # Idle => c = e
    /\ \A c \in Calls : call[c] # Idle => OrderRead(call[c]) /\ OrderTurn(call[c])
    /\ Alone => OrderTurn(Idle)

OrdersInv ==
    /\ RowsInv
    /\ call \in [Calls -> OrdersCall] /\ tidy \in BOOLEAN
    /\ \A o \in Orders : MatchesLost(o) >= 0
    /\ \A c \in Calls : OrderRequest(call[c])
    /\ tidy => OrderTurns


-----------------------------------------------------------------------------
(* Rows of orders, and the requests that read them *)

LEMMA TablesApart ==
    /\ \A x \in Requisitions : x \notin Orders \cup Receipts \cup Invoices \cup Budgets \cup Lines
                                        \cup Commitments \cup Warehouses
    /\ \A x \in Orders : x \notin Requisitions \cup Receipts \cup Invoices \cup Budgets \cup Lines
                                  \cup Commitments \cup Warehouses
    /\ \A x \in Receipts : x \notin Requisitions \cup Orders \cup Invoices \cup Budgets \cup Lines
                                    \cup Commitments \cup Warehouses
    /\ \A x \in Invoices : x \notin Requisitions \cup Orders \cup Receipts \cup Budgets \cup Lines
                                    \cup Commitments \cup Warehouses
    /\ \A x \in Budgets : x \notin Requisitions \cup Orders \cup Receipts \cup Invoices \cup Lines
                                   \cup Commitments \cup Warehouses
    /\ \A x \in Lines : x \notin Requisitions \cup Orders \cup Receipts \cup Invoices \cup Budgets
                                 \cup Commitments \cup Warehouses
    /\ \A x \in Commitments : x \notin Requisitions \cup Orders \cup Receipts \cup Invoices
                                       \cup Budgets \cup Lines \cup Warehouses
    /\ \A x \in Warehouses : x \notin Requisitions \cup Orders \cup Receipts \cup Invoices
                                      \cup Budgets \cup Lines \cup Commitments
BY ProcurementAssumption, BudgetAssumption

\* A row v that may be written as x: whoever made it stays its maker, whoever
\* checked it is another, and it stands on the rows it names.
SignedAs(x, v) ==
    /\ v.status # "ABSENT"
    /\ ~In(x, {"ABSENT"}) =>
          /\ v.maker = db[x].maker
          /\ v.checker = db[x].checker \/ v.checker \notin {None, v.maker}
OrderFits(o, v) ==
    /\ v \in OrderRow /\ SignedAs(o, v)
    /\ RequestOf[o] # None => Reviewed(RequestOf[o])
    /\ v.status \in InForce => v.checker \notin {None, v.maker} /\ v.commitment # None
    /\ v.status = "FULLY_INVOICED" => Ordered[o] <= v.invoiced
    /\ db[o].invoiced <= v.invoiced
    /\ db[o].commitment # None => v.commitment # None
    /\ v.commitment # None => ~In(v.commitment, {"ABSENT"}) /\ db[v.commitment].source = o
ReservationFits(k, v) ==
    /\ v \in ReservationRow /\ v.status # "ABSENT"
    /\ ~In(k, {"ABSENT"}) => v.source = db[k].source
    /\ v.source \in Orders /\ v.line = LineOf[v.source] /\ v.amount = Ordered[v.source]
RowFits(x, v) ==
    /\ x \in Requisitions => /\ v \in RequisitionRow /\ SignedAs(x, v)
                             /\ v.status = "APPROVED" => v.checker \notin {None, v.maker}
    /\ x \in Orders => OrderFits(x, v)
    /\ x \in Receipts => v \in ReceiptRow /\ v.status # "ABSENT" /\ Placed(OrderOf[x])
    /\ x \in Invoices => /\ v \in InvoiceRow
                         /\ v.grn # None => ~In(v.grn, {"ABSENT"}) /\ OrderOf[v.grn] = OrderOf[x]
    /\ x \in Budgets => v \in BudgetRow
    /\ x \in Lines => v \in LineRow
    /\ x \in Commitments => ReservationFits(x, v)
    /\ x \in Warehouses => v \in BalanceRow
RowsFit ==
    /\ DOMAIN db' = Tables /\ db' = [x \in Tables |-> db'[x]]
    /\ \A x \in Tables : db'[x] = db[x] \/ RowFits(x, db'[x])

\* What rows keep.
Grows ==
    /\ \A x \in Requisitions \cup Orders :
          ~In(x, {"ABSENT"}) => /\ db'[x].status # "ABSENT" /\ db'[x].maker = db[x].maker
                                /\ FourEyes(x) => db'[x].checker \notin {None, db'[x].maker}
    /\ \A o \in Orders : /\ db[o].commitment # None => db'[o].commitment # None
                         /\ db[o].invoiced <= db'[o].invoiced
    /\ \A g \in Receipts : ~In(g, {"ABSENT"}) => db'[g].status # "ABSENT"
    /\ \A k \in Commitments :
          ~In(k, {"ABSENT"}) => db'[k].status # "ABSENT" /\ db'[k].source = db[k].source

LEMMA RowsGrow == ASSUME RowsInv, RowsFit PROVE Grows
<1>1. ASSUME NEW x \in Requisitions \cup Orders, ~In(x, {"ABSENT"})
      PROVE  /\ db'[x].status # "ABSENT" /\ db'[x].maker = db[x].maker
             /\ FourEyes(x) => db'[x].checker \notin {None, db'[x].maker}
  <2>1. db'[x] = db[x] \/ SignedAs(x, db'[x])
    BY <1>1 DEF RowsFit, RowFits, OrderFits, Tables
  <2> QED BY <1>1, <2>1 DEF SignedAs, In, FourEyes
<1>2. ASSUME NEW o \in Orders
      PROVE  /\ db[o].commitment # None => db'[o].commitment # None
             /\ db[o].invoiced <= db'[o].invoiced
  <2>1. db'[o] = db[o] \/ OrderFits(o, db'[o])
    BY DEF RowsFit, RowFits, Tables
  <2>2. db[o].invoiced \in Nat
    BY DEF RowsInv, OrdersTyped, OrderRow
  <2> QED BY <2>1, <2>2 DEF OrderFits
<1>3. ASSUME NEW g \in Receipts, ~In(g, {"ABSENT"}) PROVE db'[g].status # "ABSENT"
  BY <1>3 DEF RowsFit, RowFits, Tables, In
<1>4. ASSUME NEW k \in Commitments, ~In(k, {"ABSENT"})
      PROVE  db'[k].status # "ABSENT" /\ db'[k].source = db[k].source
  <2>1. db'[k] = db[k] \/ ReservationFits(k, db'[k])
    BY DEF RowsFit, RowFits, Tables
  <2> QED BY <1>4, <2>1 DEF ReservationFits, In
<1> QED BY <1>1, <1>2, <1>3, <1>4 DEF Grows

LEMMA PlacedStays ==
    ASSUME Grows
    PROVE  /\ \A x \in Requisitions \cup Orders : Reviewed(x) => Reviewed(x)'
           /\ \A o \in Orders : Placed(o) => Placed(o)'
BY DEF Grows, Placed, Reviewed, In, FourEyes

LEMMA RowsStand == ASSUME RowsInv, RowsFit PROVE RowsInv'
<1> USE DEF Tables
<1>1. Grows
  BY RowsGrow
<1>2. OrdersTyped'
  <2>1. \A x \in Tables : db'[x] = db[x] \/ RowFits(x, db'[x])
    BY DEF RowsFit
  <2>2. /\ \A r \in Requisitions : db'[r] \in RequisitionRow
        /\ \A o \in Orders : db'[o] \in OrderRow
    BY <2>1 DEF RowsInv, OrdersTyped, RowFits, OrderFits
  <2>3. /\ \A g \in Receipts : db'[g] \in ReceiptRow
        /\ \A i \in Invoices : db'[i] \in InvoiceRow
        /\ \A b \in Budgets : db'[b] \in BudgetRow
    BY <2>1 DEF RowsInv, OrdersTyped, RowFits
  <2>4. /\ \A l \in Lines : db'[l] \in LineRow
        /\ \A k \in Commitments : db'[k] \in ReservationRow
        /\ \A w \in Warehouses : db'[w] \in BalanceRow
    BY <2>1 DEF RowsInv, OrdersTyped, RowFits, ReservationFits
  <2> QED BY <2>2, <2>3, <2>4 DEF RowsFit, OrdersTyped
<1>3. ASSUME NEW r \in Requisitions, In(r, {"APPROVED"})' PROVE Reviewed(r)'
  <2>1. CASE db'[r] = db[r]
    BY <1>3, <2>1 DEF RowsInv, Reviewed, In, FourEyes
  <2>2. CASE RowFits(r, db'[r])
    BY <1>3, <2>2 DEF RowFits, SignedAs, Reviewed, In, FourEyes
  <2> QED BY <2>1, <2>2 DEF RowsFit
<1>4. ASSUME NEW o \in Orders
      PROVE  /\ ~In(o, {"ABSENT"})' /\ RequestOf[o] # None => Reviewed(RequestOf[o])'
             /\ In(o, InForce)' => Placed(o)'
             /\ In(o, {"FULLY_INVOICED"})' => Ordered[o] <= db'[o].invoiced
             /\ db'[o].commitment # None => /\ db'[db'[o].commitment].status # "ABSENT"
                                            /\ db'[db'[o].commitment].source = o
  <2>1. RequestOf[o] # None => RequestOf[o] \in Requisitions
    BY ProcurementAssumption
  <2>2. db'[o].commitment # None => db'[o].commitment \in Commitments
    BY <1>2 DEF OrdersTyped, OrderRow
  <2>3. CASE db'[o] = db[o]
    <3>1. RequestOf[o] # None /\ ~In(o, {"ABSENT"})' => Reviewed(RequestOf[o])'
      BY <1>1, <2>1, <2>3, PlacedStays DEF RowsInv, In
    <3>2. In(o, InForce)' => Placed(o)'
      BY <1>1, <2>3, PlacedStays DEF RowsInv, In
    <3>3. db[o].commitment # None => /\ ~In(db[o].commitment, {"ABSENT"})
                                     /\ db[db[o].commitment].source = o
      BY DEF RowsInv
    <3>4. db'[o].commitment # None => /\ db'[db'[o].commitment].status # "ABSENT"
                                      /\ db'[db'[o].commitment].source = o
      BY <1>1, <2>2, <2>3, <3>3 DEF Grows
    <3> QED BY <2>3, <3>1, <3>2, <3>4 DEF RowsInv, In
  <2>4. CASE OrderFits(o, db'[o])
    <3>1. RequestOf[o] # None => Reviewed(RequestOf[o])'
      BY <1>1, <2>1, <2>4, PlacedStays DEF OrderFits
    <3>2. In(o, InForce)' => Placed(o)'
      BY <2>4 DEF OrderFits, SignedAs, Placed, Reviewed, In, FourEyes
    <3>3. db'[o].commitment # None => /\ db'[db'[o].commitment].status # "ABSENT"
                                      /\ db'[db'[o].commitment].source = o
      BY <1>1, <2>2, <2>4 DEF OrderFits, Grows
    <3> QED BY <2>4, <3>1, <3>2, <3>3 DEF OrderFits, In
  <2> QED BY <2>3, <2>4 DEF RowsFit, RowFits
<1>5. ASSUME NEW g \in Receipts, ~In(g, {"ABSENT"})' PROVE Placed(OrderOf[g])'
  <2>1. OrderOf[g] \in Orders
    BY ProcurementAssumption
  <2>2. Placed(OrderOf[g])
    BY <1>5 DEF RowsInv, RowsFit, RowFits, In
  <2> QED BY <1>1, <2>1, <2>2, PlacedStays
<1>6. ASSUME NEW i \in Invoices, db'[i].grn # None
      PROVE  db'[db'[i].grn].status # "ABSENT" /\ OrderOf[db'[i].grn] = OrderOf[i]
  <2>1. ~In(db'[i].grn, {"ABSENT"}) /\ OrderOf[db'[i].grn] = OrderOf[i]
    BY <1>6 DEF RowsInv, RowsFit, RowFits
  <2>2. db'[i].grn \in Receipts
    BY <1>2, <1>6 DEF OrdersTyped, InvoiceRow
  <2> QED BY <1>1, <2>1, <2>2 DEF Grows
<1>7. ASSUME NEW k \in Commitments
      PROVE  IF In(k, {"ABSENT"})' THEN db'[k].source = None
             ELSE /\ db'[k].source \in Orders /\ db'[k].line = LineOf[db'[k].source]
                  /\ db'[k].amount = Ordered[db'[k].source]
  <2>1. CASE db'[k] = db[k]
    BY <2>1 DEF RowsInv, In
  <2>2. CASE ReservationFits(k, db'[k])
    BY <2>2 DEF ReservationFits, In
  <2> QED BY <2>1, <2>2 DEF RowsFit, RowFits
<1> QED BY <1>2, <1>3, <1>4, <1>5, <1>6, <1>7 DEF RowsInv, In

LEMMA RequestStands ==
    ASSUME RowsInv, RowsInv', Grows, NEW q, OrderRequest(q)
    PROVE  OrderRequest(q)'
<1>1. /\ \A x \in Requisitions \cup Orders :
            ~In(x, {"ABSENT"}) => /\ ~In(x, {"ABSENT"})' /\ db'[x].maker = db[x].maker
                                  /\ Reviewed(x) => Reviewed(x)'
      /\ \A o \in Orders : Placed(o) => Placed(o)'
      /\ \A g \in Receipts : ~In(g, {"ABSENT"}) => ~In(g, {"ABSENT"})'
      /\ \A k \in Commitments :
            ~In(k, {"ABSENT"}) => ~In(k, {"ABSENT"})' /\ db'[k].source = db[k].source
  BY PlacedStays DEF Grows, In
<1>2. \A x \in Requisitions : Reviewed(x) => Reviewed(x)'
  BY PlacedStays
<1>3. CASE q.op \in {"submit", "approve", "reject", "close"} /\ q.row \in Requisitions \cup Budgets
  BY <1>1, <1>3 DEF OrderRequest
<1>4. CASE q.op = "createOrder"
  <2>1. q # Idle
    BY <1>4 DEF Idle
  <2>2. RequestOf[q.row] # None => RequestOf[q.row] \in Requisitions
    BY <1>4, <2>1, ProcurementAssumption DEF OrderRequest
  <2> QED BY <1>2, <1>4, <2>1, <2>2 DEF OrderRequest
<1>5. CASE q.op = "approveOrder"
  <2>1. q # Idle
    BY <1>5 DEF Idle
  <2>2. q.row \in Orders /\ (db[q.row].commitment # None => db'[q.row].commitment # None)
    BY <1>5, <2>1 DEF OrderRequest, Grows
  <2> QED BY <1>1, <1>5, <2>1, <2>2 DEF OrderRequest
<1>6. CASE q.op = "rejectOrder"
  BY <1>1, <1>6 DEF OrderRequest
<1>7. CASE q.op = "receiveGoods"
  <2>1. q # Idle
    BY <1>7 DEF Idle
  <2>2. q.row \in Receipts /\ OrderOf[q.row] \in Orders
    BY <1>7, <2>1, ProcurementAssumption DEF OrderRequest
  <2> QED BY <1>1, <1>7, <2>1, <2>2 DEF OrderRequest
<1>8. CASE q.op = "completeMatch"
  <2>1. q # Idle
    BY <1>8 DEF Idle
  <2>2. q.row \in Invoices /\ OrderOf[q.row] \in Orders
    BY <1>8, <2>1, ProcurementAssumption DEF OrderRequest
  <2>3. /\ Ordered[OrderOf[q.row]] \in Nat /\ db[OrderOf[q.row]].invoiced \in Nat
        /\ db[OrderOf[q.row]].invoiced <= db'[OrderOf[q.row]].invoiced
    BY <2>2, ProcurementAssumption DEF Grows, RowsInv, OrdersTyped, OrderRow
  <2>4. db'[OrderOf[q.row]].invoiced \in Nat
    BY <2>2 DEF RowsInv, OrdersTyped, OrderRow
  <2>5. Ordered[OrderOf[q.row]] <= db[OrderOf[q.row]].invoiced
          => Ordered[OrderOf[q.row]] <= db'[OrderOf[q.row]].invoiced
    BY <2>3, <2>4
  <2> QED BY <1>1, <1>8, <2>1, <2>2, <2>5 DEF OrderRequest
<1>9. CASE q = Idle
  BY <1>9 DEF OrderRequest
<1> QED BY <1>3, <1>4, <1>5, <1>6, <1>7, <1>8, <1>9 DEF OrderRequest


\* A step that writes one row.
LEMMA OneRow ==
    ASSUME OrdersTyped, NEW x \in Tables, NEW v, db' = [db EXCEPT ![x] = v], v = db[x] \/ RowFits(x, v)
    PROVE  RowsFit /\ db'[x] = v /\ \A y \in Tables \ {x} : db'[y] = db[y]
BY DEF RowsFit, OrdersTyped

LEMMA NoRow == ASSUME OrdersTyped, UNCHANGED db PROVE RowsFit
BY DEF RowsFit, OrdersTyped

\* A step of a request from q to p leaves no match uncounted that it does not
\* go on to count.
MatchesKept(q, p) ==
    \A o \in Orders :
        SumFunctionOnSet(Matched', InvoicesOf(o)) - SumFunctionOnSet(Matched, InvoicesOf(o))
            >= db'[o].invoiced - db[o].invoiced + Counts(p, o) - Counts(q, o)

MatchNumbers ==
    \A o \in Orders :
        /\ Numeric(Matched, InvoicesOf(o)) /\ Numeric(Uncounted(o), Calls)
        /\ SumFunctionOnSet(Matched, InvoicesOf(o)) \in Int
        /\ SumFunctionOnSet(Uncounted(o), Calls) \in Int
        /\ db[o].invoiced \in Nat

LEMMA CountsTyped ==
    ASSUME NEW q, OrderRequest(q), NEW o \in Orders
    PROVE  Counts(q, o) \in Nat
<1>1. q.op = "completeMatch" => q.row \in Invoices
  BY DEF OrderRequest, Idle
<1> QED BY <1>1, ProcurementAssumption DEF Counts

LEMMA MatchesNumbered ==
    ASSUME RowsInv, \A c \in Calls : OrderRequest(call[c])
    PROVE  MatchNumbers
<1> SUFFICES ASSUME NEW o \in Orders
             PROVE  /\ Numeric(Matched, InvoicesOf(o)) /\ Numeric(Uncounted(o), Calls)
                    /\ SumFunctionOnSet(Matched, InvoicesOf(o)) \in Int
                    /\ SumFunctionOnSet(Uncounted(o), Calls) \in Int
                    /\ db[o].invoiced \in Nat
  BY DEF MatchNumbers
<1>1. InvoicesOf(o) \subseteq Invoices /\ IsFiniteSet(InvoicesOf(o))
  BY ProcurementAssumption, FS_Subset DEF InvoicesOf
<1>2. \A i \in Invoices : Matched[i] \in Int
  <2>1. \A i \in Invoices : Delivered[i] \in Nat /\ db[i].entries \in Nat
    BY ProcurementAssumption DEF RowsInv, OrdersTyped, InvoiceRow
  <2>2. ASSUME NEW i \in Invoices PROVE Matched[i] = Delivered[i] * db[i].entries
    BY DEF Matched
  <2> QED BY <2>1, <2>2
<1>3. Numeric(Matched, InvoicesOf(o))
  BY <1>1, <1>2 DEF Numeric
<1>4. Numeric(Uncounted(o), Calls)
  <2>1. \A c \in Calls : Uncounted(o)[c] \in Nat
    BY CountsTyped DEF Uncounted
  <2> QED BY <2>1, ProcurementAssumption DEF Numeric
<1>5. db[o].invoiced \in Nat
  BY DEF RowsInv, OrdersTyped, OrderRow
<1> QED BY <1>3, <1>4, <1>5, SumTakes

LEMMA MatchesNumberedNow == RowsInv /\ (\A c \in Calls : OrderRequest(call[c])) => MatchNumbers
BY MatchesNumbered
LEMMA MatchesNumberedNext == (RowsInv /\ (\A c \in Calls : OrderRequest(call[c])) => MatchNumbers)'
BY MatchesNumberedNow, PTL

LEMMA MatchesStand ==
    ASSUME MatchNumbers, MatchNumbers', \A o \in Orders : MatchesLost(o) >= 0,
           call \in [Calls -> OrdersCall], NEW c \in Calls, NEW q, NEW p, q = call[c],
           call' = [call EXCEPT ![c] = p], MatchesKept(q, p),
           \A o \in Orders : Counts(q, o) \in Nat /\ Counts(p, o) \in Nat
    PROVE  \A o \in Orders : MatchesLost(o)' >= 0
<1> SUFFICES ASSUME NEW o \in Orders PROVE MatchesLost(o)' >= 0
  OBVIOUS
<1>1. PICK M : M = SumFunctionOnSet(Matched, InvoicesOf(o))
  OBVIOUS
<1>2. PICK N : N = SumFunctionOnSet(Matched', InvoicesOf(o))
  OBVIOUS
<1>3. PICK U : U = SumFunctionOnSet(Uncounted(o), Calls)
  OBVIOUS
<1>4. PICK f : f = Uncounted(o)'
  OBVIOUS
<1>5. /\ f[c] = Counts(p, o) /\ Uncounted(o)[c] = Counts(q, o)
      /\ \A e \in Calls \ {c} : Uncounted(o)[e] = f[e]
  BY <1>4 DEF Uncounted, Counts
<1>6. SumFunctionOnSet(f, Calls) = U - Counts(q, o) + Counts(p, o)
  BY <1>3, <1>5, SumChanges DEF MatchNumbers
<1>7. InvoicesOf(o)' = InvoicesOf(o)
  BY DEF InvoicesOf
<1>8. MatchesLost(o)' = N - db'[o].invoiced - SumFunctionOnSet(f, Calls)
  BY <1>2, <1>4, <1>7 DEF MatchesLost
<1>9. MatchesLost(o) = M - db[o].invoiced - U
  BY <1>1, <1>3 DEF MatchesLost
<1>10. /\ M \in Int /\ N \in Int /\ U \in Int /\ db[o].invoiced \in Nat /\ db'[o].invoiced \in Nat
       /\ Counts(q, o) \in Nat /\ Counts(p, o) \in Nat
  BY <1>1, <1>2, <1>3, <1>7 DEF MatchNumbers
<1>11. N - M >= db'[o].invoiced - db[o].invoiced + Counts(p, o) - Counts(q, o)
  BY <1>1, <1>2 DEF MatchesKept
<1>12. M - db[o].invoiced - U >= 0
  BY <1>9
<1> QED BY <1>6, <1>8, <1>10, <1>11, <1>12

\* Where no invoice is posted and no order invoiced, matches are kept.
LEMMA NoMatch ==
    ASSUME RowsInv, NEW q, NEW p, OrderRequest(q), OrderRequest(p)',
           \A i \in Invoices : db'[i].entries = db[i].entries,
           \A o \in Orders : db'[o].invoiced = db[o].invoiced /\ Counts(p, o) <= Counts(q, o)
    PROVE  MatchesKept(q, p)
<1>1. Matched' = Matched
  BY DEF Matched
<1>2. ASSUME NEW o \in Orders
      PROVE  /\ SumFunctionOnSet(Matched, InvoicesOf(o)) \in Int /\ db[o].invoiced \in Nat
             /\ Counts(q, o) \in Nat /\ Counts(p, o) \in Nat
  <2>1. IsFiniteSet(InvoicesOf(o))
    BY ProcurementAssumption, FS_Subset DEF InvoicesOf
  <2>2. \A i \in InvoicesOf(o) : Matched[i] \in Int
    <3>1. \A i \in InvoicesOf(o) : /\ Delivered[i] \in Nat /\ db[i].entries \in Nat
                                   /\ Matched[i] = Delivered[i] * db[i].entries
      BY ProcurementAssumption DEF RowsInv, OrdersTyped, InvoiceRow, InvoicesOf, Matched
    <3> QED BY <3>1
  <2>3. q.op = "completeMatch" => q.row \in Invoices
    BY DEF OrderRequest, Idle
  <2>4. p.op = "completeMatch" => p.row \in Invoices
    BY DEF OrderRequest, Idle
  <2>5. Numeric(Matched, InvoicesOf(o))
    BY <2>1, <2>2 DEF Numeric
  <2>6. Counts(q, o) \in Nat /\ Counts(p, o) \in Nat
    BY <2>3, <2>4, ProcurementAssumption DEF Counts
  <2> QED BY <2>5, <2>6, SumTakes DEF RowsInv, OrdersTyped, OrderRow
<1> SUFFICES ASSUME NEW o \in Orders
             PROVE  SumFunctionOnSet(Matched', InvoicesOf(o)) - SumFunctionOnSet(Matched, InvoicesOf(o))
                      >= db'[o].invoiced - db[o].invoiced + Counts(p, o) - Counts(q, o)
  BY DEF MatchesKept
<1>3. PICK M \in Int : M = SumFunctionOnSet(Matched, InvoicesOf(o))
  BY <1>2
<1>4. PICK n \in Nat : n = db[o].invoiced
  BY <1>2
<1>5. M - M >= n - n + Counts(p, o) - Counts(q, o)
  BY <1>2
<1> QED BY <1>1, <1>3, <1>4, <1>5

-----------------------------------------------------------------------------
(* Every step of a request on orders, and every single statement *)

LEMMA OrderStep ==
    ASSUME OrdersInv, NEW c \in Calls, NEW q, NEW p \in OrdersCall, q = call[c],
           call' = [call EXCEPT ![c] = p], RowsFit, tidy' \in BOOLEAN, OrderRequest(p)',
           MatchesKept(q, p),
           tidy' => /\ tidy /\ (q = Idle => Alone)
                    /\ OrderRead(q) /\ OrderTurn(q) => OrderRead(p)' /\ OrderTurn(p)'
    PROVE  OrdersInv'
<1>1. RowsInv /\ RowsInv' /\ Grows
  BY RowsStand, RowsGrow DEF OrdersInv
<1>2. call \in [Calls -> OrdersCall] /\ call' \in [Calls -> OrdersCall] /\ call'[c] = p
      /\ \A e \in Calls \ {c} : call'[e] = call[e]
  BY DEF OrdersInv
<1>3. \A e \in Calls : OrderRequest(call[e])'
  <2>1. TAKE e \in Calls
  <2>2. PICK z : z = call'[e]
    OBVIOUS
  <2>3. CASE e = c
    BY <1>2, <2>3
  <2>4. CASE e # c
    <3>1. OrderRequest(z)
      BY <1>2, <2>2, <2>4 DEF OrdersInv
    <3>2. OrderRequest(z)'
      BY <1>1, <3>1, RequestStands
    <3> QED BY <2>2, <3>2
  <2> QED BY <2>3, <2>4
<1>4. \A o \in Orders : MatchesLost(o)' >= 0
  <2>1. MatchNumbers /\ MatchNumbers'
    BY <1>1, <1>3, MatchesNumberedNow, MatchesNumberedNext DEF OrdersInv
  <2>2. \A o \in Orders : Counts(q, o) \in Nat
    BY CountsTyped DEF OrdersInv
  <2>3. \A o \in Orders : Counts(p, o) \in Nat
    <3>1. p.op = "completeMatch" => p.row \in Invoices
      BY DEF OrderRequest, Idle
    <3> QED BY <3>1, ProcurementAssumption DEF Counts
  <2> QED BY <1>2, <2>1, <2>2, <2>3, MatchesStand DEF OrdersInv
<1>5. ASSUME tidy' PROVE OrderTurns'
  <2>1. /\ OrderTurns /\ (call[c] = Idle => Alone)
        /\ OrderRead(q) /\ OrderTurn(q) => OrderRead(p)' /\ OrderTurn(p)'
    BY <1>5 DEF OrdersInv
  <2>2. \A e \in Calls \ {c} : call'[e] = Idle
    BY <1>2, <2>1 DEF OrderTurns, Alone
  <2>3. OrderRead(q) /\ OrderTurn(q)
    <3>1. CASE q = Idle
      <4>1. OrderRead(q)
        BY <3>1 DEF OrderRead, Idle, Approving
      <4> QED BY <2>1, <3>1, <4>1 DEF OrderTurns
    <3>2. CASE q # Idle
      BY <2>1, <3>2 DEF OrderTurns
    <3> QED BY <3>1, <3>2
  <2>4. OrderRead(p)' /\ OrderTurn(p)'
    BY <2>1, <2>3
  <2>5. \A d, e \in Calls : call'[d] # Idle /\ call'[e] # Idle => d = e
    BY <2>2
  <2>6. ASSUME NEW e \in Calls, call'[e] # Idle
        PROVE  OrderRead(call[e])' /\ OrderTurn(call[e])'
    <3>1. e = c /\ call'[e] = p
      BY <1>2, <2>2, <2>6
    <3> QED BY <2>4, <3>1
  <2>7. ASSUME Alone' PROVE OrderTurn(Idle)'
    <3>1. p = Idle
      BY <1>2, <2>7 DEF Alone
    <3> QED BY <2>4, <3>1
  <2> QED BY <2>5, <2>6, <2>7 DEF OrderTurns
<1> QED BY <1>1, <1>2, <1>3, <1>4, <1>5 DEF OrdersInv

LEMMA OrderStatement ==
    ASSUME OrdersInv, UNCHANGED call, RowsFit, tidy' = (tidy /\ Alone),
           \A i \in Invoices : db'[i].entries = db[i].entries,
           \A o \in Orders : db'[o].invoiced = db[o].invoiced,
           OrderTurn(Idle) => OrderTurn(Idle)'
    PROVE  OrdersInv'
<1>1. RowsInv /\ RowsInv' /\ Grows
  BY RowsStand, RowsGrow DEF OrdersInv
<1>2. \A e \in Calls : OrderRequest(call[e])'
  <2>1. TAKE e \in Calls
  <2>2. PICK z : z = call[e]
    OBVIOUS
  <2>3. OrderRequest(z)'
    BY <1>1, <2>2, RequestStands DEF OrdersInv
  <2> QED BY <2>2, <2>3
<1>3. \A o \in Orders : MatchesLost(o)' >= 0
  <2>1. Matched' = Matched
    BY DEF Matched
  <2>2. \A o \in Orders : MatchesLost(o)' = MatchesLost(o)
    BY <2>1 DEF MatchesLost, InvoicesOf, Uncounted, Counts
  <2> QED BY <2>2 DEF OrdersInv
<1>4. ASSUME tidy' PROVE OrderTurns'
  <2>1. Alone /\ Alone' /\ OrderTurn(Idle)
    BY <1>4 DEF OrdersInv, OrderTurns, Alone
  <2> QED BY <2>1 DEF OrderTurns, Alone
<1> QED BY <1>1, <1>2, <1>3, <1>4 DEF OrdersInv


-----------------------------------------------------------------------------
(* What a step does not disturb while requests take turns *)

SameFor(q, p, o) ==
    /\ Brings(p, o) = Brings(q, o) /\ Frees(p, o) = Frees(q, o)
    /\ Receiving(p, Late, o) <=> Receiving(q, Late, o)
    /\ Approving(p, "write", o) <=> Approving(q, "write", o)
SameWork(q, p) ==
    /\ \A o \in Orders : SameFor(q, p, o)
    /\ \A g \in Receipts : /\ Handling(p, g) <=> Handling(q, g)
                           /\ Unposted(p, g) <=> Unposted(q, g)
    /\ \A k \in Commitments, o \in Orders : Linking(p, k, o) <=> Linking(q, k, o)
    /\ \A l \in Lines : Spares(p, l) = Spares(q, l)

\* A request that has nothing of a receipt or an approval in hand.
Quiet(q) ==
    /\ q.op = "receiveGoods" => q.at = "create"
    /\ q.op = "approveOrder" => q.at \in {"check", "reserve"}

LEMMA QuietIsSame == ASSUME NEW q, NEW p, Quiet(q), Quiet(p) PROVE SameWork(q, p)
<1>1. ASSUME NEW z, Quiet(z)
      PROVE  /\ \A o \in Orders :
                   /\ Brings(z, o) = 0 /\ Frees(z, o) = 0
                   /\ ~Receiving(z, Late, o) /\ ~Approving(z, "write", o)
             /\ \A g \in Receipts : ~Handling(z, g) /\ ~Unposted(z, g)
             /\ \A k \in Commitments, o \in Orders : ~Linking(z, k, o)
             /\ \A l \in Lines : Spares(z, l) = 0
  BY <1>1 DEF Quiet, Brings, Frees, Receiving, Late, Approving, Handling, Unposted, Linking, Spares
<1> QED BY <1>1 DEF SameWork, SameFor

\* What receipts are worth, posted for an order and refused on a line.
LEMMA WorthTyped ==
    ASSUME OrdersTyped
    PROVE  /\ \A g \in Receipts : Worth[g] = db[g].worth /\ db[g].worth \in Nat
           /\ \A o \in Orders : /\ Numeric(Worth, PostedFor(o)) /\ Numeric(Delivered, PostedFor(o))
                                /\ WorthPosted(o) \in Int
                                /\ SumFunctionOnSet(Delivered, PostedFor(o)) \in Int
           /\ \A l \in Lines : Numeric(Worth, RefusedOn(l)) /\ WorthRefused(l) \in Int
<1>1. \A g \in Receipts : Worth[g] = db[g].worth /\ db[g].worth \in Nat /\ Delivered[g] \in Nat
  BY ProcurementAssumption DEF Worth, OrdersTyped, ReceiptRow
<1>2. ASSUME NEW S, S \subseteq Receipts
      PROVE  Numeric(Worth, S) /\ Numeric(Delivered, S)
  <2>1. IsFiniteSet(S)
    BY <1>2, ProcurementAssumption, FS_Subset
  <2> QED BY <1>1, <1>2, <2>1 DEF Numeric
<1>3. \A o \in Orders : Numeric(Worth, PostedFor(o)) /\ Numeric(Delivered, PostedFor(o))
  BY <1>2 DEF PostedFor
<1>4. \A l \in Lines : Numeric(Worth, RefusedOn(l))
  BY <1>2 DEF RefusedOn
<1> QED BY <1>1, <1>3, <1>4, SumTakes DEF WorthPosted, WorthRefused

LEMMA WorthNatural == ASSUME OrdersTyped PROVE \A l \in Lines : WorthRefused(l) \in Nat
<1>1. ASSUME NEW l \in Lines PROVE WorthRefused(l) \in Nat
  <2>1. IsFiniteSet(RefusedOn(l)) /\ \A g \in RefusedOn(l) : Worth[g] \in Nat
    BY ProcurementAssumption, FS_Subset, WorthTyped DEF RefusedOn
  <2> QED BY <2>1, SumNotNegative DEF WorthRefused
<1> QED BY <1>1

LEMMA WorthTypedNext ==
    (OrdersTyped =>
        /\ \A g \in Receipts : Worth[g] = db[g].worth /\ db[g].worth \in Nat
        /\ \A o \in Orders : /\ Numeric(Worth, PostedFor(o)) /\ Numeric(Delivered, PostedFor(o))
                             /\ WorthPosted(o) \in Int
                             /\ SumFunctionOnSet(Delivered, PostedFor(o)) \in Int
        /\ \A l \in Lines : Numeric(Worth, RefusedOn(l)) /\ WorthRefused(l) \in Int)'
<1>1. OrdersTyped =>
        /\ \A g \in Receipts : Worth[g] = db[g].worth /\ db[g].worth \in Nat
        /\ \A o \in Orders : /\ Numeric(Worth, PostedFor(o)) /\ Numeric(Delivered, PostedFor(o))
                             /\ WorthPosted(o) \in Int
                             /\ SumFunctionOnSet(Delivered, PostedFor(o)) \in Int
        /\ \A l \in Lines : Numeric(Worth, RefusedOn(l)) /\ WorthRefused(l) \in Int
  BY WorthTyped
<1> QED BY <1>1, PTL

\* A step that leaves the status and the worth of receipts alone, perhaps but g.
LEMMA WorthStays ==
    ASSUME OrdersTyped, NEW G,
           \A h \in Receipts \ G : db'[h].worth = db[h].worth /\ db'[h].status = db[h].status
    PROVE  /\ \A o \in Orders : (\A g \in G : OrderOf[g] # o) =>
                 PostedFor(o)' = PostedFor(o) /\ WorthPosted(o)' = WorthPosted(o)
           /\ \A l \in Lines : (\A g \in G : LineOf[OrderOf[g]] # l) =>
                 RefusedOn(l)' = RefusedOn(l) /\ WorthRefused(l)' = WorthRefused(l)
<1>1. \A h \in Receipts \ G : Worth'[h] = Worth[h]
  BY DEF Worth
<1>2. ASSUME NEW o \in Orders, \A g \in G : OrderOf[g] # o
      PROVE  PostedFor(o)' = PostedFor(o) /\ WorthPosted(o)' = WorthPosted(o)
  <2>1. PostedFor(o)' = PostedFor(o) /\ PostedFor(o) \subseteq Receipts \ G
    BY <1>2 DEF PostedFor, In
  <2>2. SumFunctionOnSet(Worth, PostedFor(o)) = SumFunctionOnSet(Worth', PostedFor(o))
    BY <1>1, <2>1, WorthTyped, SumSame
  <2> QED BY <2>1, <2>2 DEF WorthPosted
<1>3. ASSUME NEW l \in Lines, \A g \in G : LineOf[OrderOf[g]] # l
      PROVE  RefusedOn(l)' = RefusedOn(l) /\ WorthRefused(l)' = WorthRefused(l)
  <2>1. RefusedOn(l)' = RefusedOn(l) /\ RefusedOn(l) \subseteq Receipts \ G
    BY <1>3 DEF RefusedOn, In
  <2>2. SumFunctionOnSet(Worth, RefusedOn(l)) = SumFunctionOnSet(Worth', RefusedOn(l))
    BY <1>1, <2>1, WorthTyped, SumSame
  <2> QED BY <2>1, <2>2 DEF WorthRefused
<1> QED BY <1>2, <1>3

LEMMA AllWorthStays ==
    ASSUME OrdersTyped, \A h \in Receipts : db'[h].worth = db[h].worth /\ db'[h].status = db[h].status
    PROVE  /\ \A o \in Orders : PostedFor(o)' = PostedFor(o) /\ WorthPosted(o)' = WorthPosted(o)
           /\ \A l \in Lines : RefusedOn(l)' = RefusedOn(l) /\ WorthRefused(l)' = WorthRefused(l)
<1>1. PICK G : G = {}
  OBVIOUS
<1>2. \A h \in Receipts \ G : db'[h].worth = db[h].worth /\ db'[h].status = db[h].status
  OBVIOUS
<1> QED BY <1>1, <1>2, WorthStays

LEMMA OrderStays ==
    ASSUME NEW q, NEW p, NEW o \in Orders, OrderTaken(q, o), SameFor(q, p, o), db'[o] = db[o],
           PostedFor(o)' = PostedFor(o), WorthPosted(o)' = WorthPosted(o),
           db[o].commitment # None => db'[db[o].commitment] = db[db[o].commitment]
    PROVE  OrderTaken(p, o)'
<1>1. /\ Brings(p, o)' = Brings(q, o) /\ Frees(p, o)' = Frees(q, o)
      /\ Receiving(p, Late, o)' <=> Receiving(q, Late, o)
      /\ Approving(p, "write", o)' <=> Approving(q, "write", o)
  BY DEF SameFor, Brings, Frees, Valued, Receiving, Late, Approving
<1>2. ASSUME db[o].commitment # None
      PROVE  ReservationTaken(p, o, db[o].commitment)'
  <2>1. PICK k : k = db[o].commitment
    OBVIOUS
  <2>2. db'[k] = db[k] /\ db'[o].commitment = k
    BY <1>2, <2>1
  <2>3. ReservationTaken(q, o, k)
    BY <1>2, <2>1 DEF OrderTaken
  <2>4. ReservationTaken(p, o, k)'
    BY <1>1, <2>2, <2>3 DEF ReservationTaken
  <2> QED BY <2>2, <2>4 DEF ReservationTaken
<1>3. /\ db'[o].received = SumFunctionOnSet(Delivered, PostedFor(o)') + Brings(p, o)'
      /\ db'[o].received <= Ordered[o]
      /\ In(o, {"PARTIALLY_RECEIVED"})' => db'[o].received < Ordered[o] \/ Receiving(p, Late, o)'
      /\ db'[o].commitment # None <=> In(o, InForce)' \/ Approving(p, "write", o)'
  BY <1>1 DEF OrderTaken, In
<1> QED BY <1>2, <1>3 DEF OrderTaken

\* A receipt that was refused is refused when a reservation only shrinks.
Shrinks(k) ==
    /\ db'[k].amount = db[k].amount /\ db[k].released <= db'[k].released
    /\ In(k, Open)' => In(k, Open)

LEMMA StillShrinks ==
    ASSUME RowsInv, NEW k \in Commitments, db'[k] = db[k]
    PROVE  Shrinks(k)
<1>1. PICK n \in Nat : n = db[k].released
  BY DEF RowsInv, OrdersTyped, ReservationRow
<1>2. db[k].released <= db'[k].released
  BY <1>1
<1> QED BY <1>2 DEF Shrinks, In

LEMMA RefusalStays ==
    ASSUME RowsInv, RowsInv', NEW g \in Receipts, In(g, {"DRAFT"}), Refused(g),
           db'[g].worth = db[g].worth,
           \A o \in Orders : db[o].commitment # None => db'[o].commitment = db[o].commitment,
           \A k \in Commitments : ~In(k, {"ABSENT"}) => Shrinks(k)
    PROVE  Refused(g)'
<1>1. PICK o \in Orders : o = OrderOf[g]
  BY ProcurementAssumption
<1>2. Placed(o)
  BY <1>1 DEF RowsInv, In
<1>3. PICK k \in Commitments : k = db[o].commitment
  BY <1>2 DEF Placed, RowsInv, OrdersTyped, OrderRow
<1>4. ~In(k, {"ABSENT"}) /\ db'[o].commitment = k
  BY <1>2, <1>3 DEF Placed, RowsInv
<1>5. Shrinks(k)
  BY <1>4
<1>6. /\ db[k].released \in Nat /\ db'[k].released \in Nat /\ db[k].amount \in Nat
      /\ db[g].worth \in Nat
  BY DEF RowsInv, OrdersTyped, ReservationRow, ReceiptRow
<1>7. ~In(k, Open) \/ ~(db[k].released + db[g].worth <= db[k].amount)
  BY <1>1, <1>3 DEF Refused, MayRelease
<1>8. ~In(k, Open)' \/ ~(db'[k].released + db'[g].worth <= db'[k].amount)
  BY <1>5, <1>6, <1>7 DEF Shrinks
<1> QED BY <1>1, <1>4, <1>8 DEF Refused, MayRelease

LEMMA ReceiptStays ==
    ASSUME NEW q, NEW p, NEW g \in Receipts, ReceiptTaken(q, g), db'[g] = db[g],
           Handling(p, g) <=> Handling(q, g), Unposted(p, g) <=> Unposted(q, g),
           In(g, {"DRAFT"}) /\ Refused(g) => Refused(g)'
    PROVE  ReceiptTaken(p, g)'
BY DEF ReceiptTaken, Handling, Unposted, In

LEMMA LinkStays ==
    ASSUME RowsInv, NEW q, NEW p, NEW k \in Commitments, LinkTaken(q, k), db'[k].source = db[k].source,
           \A o \in Orders : /\ db'[o].commitment = db[o].commitment
                             /\ Linking(p, k, o) <=> Linking(q, k, o)
    PROVE  LinkTaken(p, k)'
<1>1. db[k].source # None => db[k].source \in Orders
  BY DEF RowsInv
<1> QED BY <1>1 DEF LinkTaken, Linking, Approving

LEMMA CommittedStays ==
    ASSUME NEW l \in Lines, \A k \in Commitments : db'[k] = db[k]
    PROVE  CommittedOf(l)' = CommittedOf(l)
<1>1. [k \in Commitments |-> db'[k].amount - db'[k].released]
        = [k \in Commitments |-> db[k].amount - db[k].released]
  OBVIOUS
<1>2. {k \in Commitments : In(k, Open)' /\ db'[k].line = l}
        = {k \in Commitments : In(k, Open) /\ db[k].line = l}
  BY DEF In
<1> QED BY <1>1, <1>2 DEF CommittedOf

LEMMA LineStays ==
    ASSUME NEW q, NEW p, NEW l \in Lines, LineTaken(q, l), db'[l] = db[l], Spares(p, l) = Spares(q, l),
           WorthRefused(l)' = WorthRefused(l),
           \A k \in Commitments : db'[k] = db[k]
    PROVE  LineTaken(p, l)'
<1>1. CommittedOf(l)' = CommittedOf(l)
  BY CommittedStays
<1>2. Spares(p, l)' = Spares(q, l)
  BY DEF Spares, Valued
<1> QED BY <1>1, <1>2 DEF LineTaken

LEMMA TurnStays ==
    ASSUME RowsInv, RowsInv', NEW q, NEW p, OrderTurn(q), SameWork(q, p),
           \A x \in Orders \cup Receipts \cup Commitments \cup Lines : db'[x] = db[x]
    PROVE  OrderTurn(p)'
<1>0. /\ \A o \in Orders : PostedFor(o)' = PostedFor(o) /\ WorthPosted(o)' = WorthPosted(o)
      /\ \A l \in Lines : WorthRefused(l)' = WorthRefused(l)
  BY AllWorthStays DEF RowsInv
<1>1. ASSUME NEW o \in Orders PROVE OrderTaken(p, o)'
  <2>1. PostedFor(o)' = PostedFor(o) /\ WorthPosted(o)' = WorthPosted(o)
    BY <1>0
  <2>2. db[o].commitment \in Commitments \cup {None}
    BY DEF RowsInv, OrdersTyped, OrderRow
  <2> QED BY <2>1, <2>2, OrderStays DEF OrderTurn, SameWork
<1>2. ASSUME NEW g \in Receipts PROVE ReceiptTaken(p, g)'
  <2>1. \A k \in Commitments : Shrinks(k)
    BY StillShrinks
  <2>2. In(g, {"DRAFT"}) /\ Refused(g) => Refused(g)'
    BY <2>1, RefusalStays
  <2> QED BY <2>2, ReceiptStays DEF OrderTurn, SameWork
<1>3. ASSUME NEW k \in Commitments PROVE LinkTaken(p, k)'
  BY LinkStays DEF OrderTurn, SameWork
<1>4. ASSUME NEW l \in Lines PROVE LineTaken(p, l)'
  BY <1>0, LineStays DEF OrderTurn, SameWork
<1> QED BY <1>1, <1>2, <1>3, <1>4 DEF OrderTurn

\* A step beside the orders, their receipts, reservations and lines.
LEMMA StepAside ==
    ASSUME OrdersInv, NEW c \in Calls, NEW q, NEW p \in OrdersCall, q = call[c],
           call' = [call EXCEPT ![c] = p], RowsFit, tidy' \in BOOLEAN, OrderRequest(p)',
           MatchesKept(q, p), SameWork(q, p),
           \A x \in Orders \cup Receipts \cup Commitments \cup Lines : db'[x] = db[x],
           tidy' => tidy /\ (q = Idle => Alone),
           OrderRead(q) /\ OrderTurn(q) => OrderRead(p)'
    PROVE  OrdersInv'
<1>1. RowsInv /\ RowsInv'
  BY RowsStand DEF OrdersInv
<1>2. OrderTurn(q) => OrderTurn(p)'
  BY <1>1, TurnStays
<1>3. tidy' => /\ tidy /\ (q = Idle => Alone)
               /\ OrderRead(q) /\ OrderTurn(q) => OrderRead(p)' /\ OrderTurn(p)'
  BY <1>2
<1> QED BY <1>3, OrderStep

\* A step that only reads.
LEMMA OrderReads ==
    ASSUME OrdersInv, NEW c \in Calls, NEW q, NEW p \in OrdersCall, q = call[c],
           call' = [call EXCEPT ![c] = p], UNCHANGED db, tidy' \in BOOLEAN, OrderRequest(p),
           SameWork(q, p), \A o \in Orders : Counts(p, o) <= Counts(q, o),
           tidy' => tidy /\ (q = Idle => Alone),
           OrderRead(q) /\ OrderTurn(q) => OrderRead(p)
    PROVE  OrdersInv'
<1>1. RowsInv /\ RowsFit /\ OrderRequest(q)
  BY NoRow DEF OrdersInv, RowsInv
<1>2. Grows
  BY <1>1, RowsGrow
<1>3. OrderRequest(p)'
  BY <1>1, <1>2, RowsStand, RequestStands
<1>4. MatchesKept(q, p)
  BY <1>1, <1>3, NoMatch
<1>5. OrderRead(p) => OrderRead(p)'
  <2>1. Available(LineOf[p.row])' = Available(LineOf[p.row])
    BY DEF Available, CommittedOf, In
  <2>2. \A o : ReceiptRead(p, o) => ReceiptRead(p, o)'
    BY DEF ReceiptRead, StatusReceived, In, Late, Valued
  <2> QED BY <2>1, <2>2 DEF OrderRead, Approving, In
<1> QED BY <1>1, <1>3, <1>4, <1>5, StepAside

\* A request begins.
LEMMA OrderBegins ==
    ASSUME OrdersInv, NEW c \in Calls, NEW p \in OrdersCall,
           Enter(c, p.op, p.at, p.row, p.arg, p.seen), OrderRequest(p), Quiet(p),
           p.op = "completeMatch" => p.at = "post",
           OrderTurn(Idle) => OrderRead(p)
    PROVE  OrdersInv'
<1>1. PICK q : q = Idle
  OBVIOUS
<1>2. p = [op |-> p.op, at |-> p.at, row |-> p.row, arg |-> p.arg, seen |-> p.seen]
  BY DEF OrdersCall
<1>3. q = call[c] /\ call' = [call EXCEPT ![c] = p] /\ UNCHANGED db /\ tidy' = (tidy /\ Alone)
  BY <1>1, <1>2 DEF Enter
<1>4. SameWork(q, p)
  BY <1>1, QuietIsSame DEF Quiet, Idle
<1>5. \A o \in Orders : Counts(p, o) = 0 /\ Counts(q, o) = 0
  BY <1>1 DEF Counts, Idle
<1>6. \A o \in Orders : Counts(p, o) <= Counts(q, o)
  BY <1>5
<1>7. tidy' \in BOOLEAN /\ (tidy' => tidy /\ (q = Idle => Alone))
  BY <1>3
<1> QED BY <1>1, <1>3, <1>4, <1>6, <1>7, OrderReads

\* A request that has nothing in hand ends, or writes beside the orders and ends.
LEMMA OrderEnds ==
    ASSUME OrdersInv, NEW c \in Calls, call[c] # Idle, call' = [call EXCEPT ![c] = Idle],
           UNCHANGED tidy, RowsFit, Quiet(call[c]), call[c].op = "completeMatch" => call[c].at = "write",
           \A x \in Orders \cup Receipts \cup Commitments \cup Lines : db'[x] = db[x],
           \A i \in Invoices : db'[i].entries = db[i].entries
    PROVE  OrdersInv'
<1>1. PICK p \in OrdersCall : p = Idle
  BY DEF OrdersCall, OrderSteps, OrderSeen, Idle
<1>2. PICK q : q = call[c]
  OBVIOUS
<1>3. SameWork(q, p)
  BY <1>1, <1>2, QuietIsSame DEF Quiet, Idle
<1>4. OrderRequest(p)' /\ OrderRead(p)'
  BY <1>1 DEF OrderRequest, OrderRead, Idle, Approving
<1>5. MatchesKept(q, p)
  <2>1. \A o \in Orders : Counts(p, o) = 0 /\ Counts(q, o) = 0
    BY <1>1, <1>2 DEF Counts, Idle
  <2>2. RowsInv /\ OrderRequest(q)
    BY <1>2 DEF OrdersInv
  <2>3. \A o \in Orders : Counts(p, o) <= Counts(q, o)
    BY <2>1
  <2> QED BY <1>4, <2>2, <2>3, NoMatch
<1>6. tidy' \in BOOLEAN /\ (tidy' => tidy /\ (q = Idle => Alone))
  BY <1>2 DEF OrdersInv
<1> QED BY <1>1, <1>2, <1>3, <1>4, <1>5, <1>6, StepAside


-----------------------------------------------------------------------------
(* Requests go on, and rows are written beside the orders *)

LEMMA CallAdvances ==
    ASSUME OrdersInv, NEW c \in Calls, NEW at \in OrderSteps, NEW seen \in OrderSeen, Keep(c, at, seen)
    PROVE  \E p \in OrdersCall :
              /\ p.op = call[c].op /\ p.at = at /\ p.row = call[c].row /\ p.arg = call[c].arg
              /\ p.seen = seen /\ call' = [call EXCEPT ![c] = p] /\ UNCHANGED tidy
<1>1. call[c] \in OrdersCall
  BY DEF OrdersInv
<1>2. PICK p : p = [call[c] EXCEPT !.at = at, !.seen = seen]
  OBVIOUS
<1>3. /\ p \in OrdersCall /\ p.op = call[c].op /\ p.at = at /\ p.row = call[c].row
      /\ p.arg = call[c].arg /\ p.seen = seen
  BY <1>1, <1>2 DEF OrdersCall
<1>4. call' = [call EXCEPT ![c] = p] /\ UNCHANGED tidy
  BY <1>2 DEF Keep, OrdersInv
<1> QED BY <1>3, <1>4

LEMMA RequestGoes ==
    ASSUME OrdersInv, NEW c \in Calls, NEW at \in OrderSteps, Goto(c, at)
    PROVE  \E p \in OrdersCall :
              /\ p.op = call[c].op /\ p.at = at /\ p.row = call[c].row /\ p.arg = call[c].arg
              /\ p.seen = call[c].seen /\ call' = [call EXCEPT ![c] = p] /\ UNCHANGED tidy
<1>1. call[c] \in OrdersCall /\ call[c].seen \in OrderSeen
  BY DEF OrdersInv, OrdersCall
<1>2. PICK p : p = [call[c] EXCEPT !.at = at]
  OBVIOUS
<1>3. /\ p \in OrdersCall /\ p.op = call[c].op /\ p.at = at /\ p.row = call[c].row
      /\ p.arg = call[c].arg /\ p.seen = call[c].seen
  BY <1>1, <1>2 DEF OrdersCall
<1>4. call' = [call EXCEPT ![c] = p] /\ UNCHANGED tidy
  BY <1>2 DEF Goto, OrdersInv
<1> QED BY <1>3, <1>4

LEMMA RequestAt ==
    ASSUME OrdersInv, NEW c \in Calls, NEW op, NEW at, NEW x, NEW arg, At(c, op, at, x, arg)
    PROVE  /\ call[c] \in OrdersCall /\ OrderRequest(call[c]) /\ RowsInv /\ OrdersTyped
           /\ call[c].op = op /\ call[c].at = at /\ call[c].row = x /\ call[c].arg = arg
           /\ op # "none" => call[c] # Idle
BY DEF At, OrdersInv, RowsInv, Idle

\* A statement beside the orders, their receipts, reservations and lines.
LEMMA RowAside ==
    ASSUME OrdersInv, NEW x \in Requisitions \cup Invoices \cup Budgets \cup Warehouses, NEW v,
           RowFits(x, v), db' = [db EXCEPT ![x] = v], x \in Invoices => v.entries = db[x].entries
    PROVE  /\ RowsFit
           /\ \A y \in Orders \cup Receipts \cup Commitments \cup Lines : db'[y] = db[y]
           /\ \A i \in Invoices : db'[i].entries = db[i].entries
<1>1. x \in Tables /\ OrdersTyped
  BY DEF Tables, OrdersInv, RowsInv
<1>2. RowsFit /\ db'[x] = v /\ \A y \in Tables \ {x} : db'[y] = db[y]
  BY <1>1, OneRow
<1>3. x \notin Orders \cup Receipts \cup Commitments \cup Lines
  BY TablesApart
<1> QED BY <1>2, <1>3 DEF Tables

LEMMA StatementAside ==
    ASSUME OrdersInv, NEW x \in Requisitions \cup Invoices \cup Budgets \cup Warehouses, NEW v,
           RowFits(x, v), db' = [db EXCEPT ![x] = v], x \in Invoices => v.entries = db[x].entries,
           UNCHANGED call, tidy' = (tidy /\ Alone)
    PROVE  OrdersInv'
<1>1. /\ RowsFit /\ RowsInv /\ RowsInv'
      /\ \A y \in Orders \cup Receipts \cup Commitments \cup Lines : db'[y] = db[y]
      /\ \A i \in Invoices : db'[i].entries = db[i].entries
  BY RowAside, RowsStand DEF OrdersInv
<1>2. \A o \in Orders : db'[o].invoiced = db[o].invoiced
  BY <1>1
<1>3. OrderTurn(Idle) => OrderTurn(Idle)'
  <2>1. PICK z : z = Idle
    OBVIOUS
  <2>2. SameWork(z, z)
    BY DEF SameWork, SameFor
  <2>3. OrderTurn(z) => OrderTurn(z)'
    BY <1>1, <2>2, TurnStays
  <2>4. z' = z /\ Idle' = Idle
    BY DEF Idle
  <2> QED BY <2>1, <2>3
<1> QED BY <1>1, <1>2, <1>3, OrderStatement

LEMMA RequisitionCreated ==
    ASSUME OrdersInv, NEW r \in Requisitions, NEW u \in Users, CreateRequisition(r, u)
    PROVE  OrdersInv'
<1>1. db[r] \in RequisitionRow
  BY DEF OrdersInv, RowsInv, OrdersTyped
<1>2. PICK v : v = [db[r] EXCEPT !.status = "DRAFT", !.maker = u]
  OBVIOUS
<1>3. /\ v \in RequisitionRow /\ v.status = "DRAFT" /\ In(r, {"ABSENT"})
      /\ db' = [db EXCEPT ![r] = v] /\ UNCHANGED call /\ tidy' = (tidy /\ Alone)
  BY <1>1, <1>2 DEF RequisitionRow, CreateRequisition, Statement
<1>4. RowFits(r, v)
  BY <1>3, TablesApart DEF RowFits, SignedAs
<1> QED BY <1>3, <1>4, TablesApart, StatementAside

LEMMA BudgetCreated ==
    ASSUME OrdersInv, NEW b \in Budgets, NEW u \in Users, CreateBudget(b, u)
    PROVE  OrdersInv'
<1>1. db[b] \in BudgetRow
  BY DEF OrdersInv, RowsInv, OrdersTyped
<1>2. PICK v : v = [db[b] EXCEPT !.status = "DRAFT", !.maker = u]
  OBVIOUS
<1>3. /\ v \in BudgetRow /\ db' = [db EXCEPT ![b] = v] /\ UNCHANGED call /\ tidy' = (tidy /\ Alone)
  BY <1>1, <1>2 DEF BudgetRow, BudgetStatus, CreateBudget, Statement
<1>4. RowFits(b, v)
  BY <1>3, TablesApart DEF RowFits
<1> QED BY <1>3, <1>4, TablesApart, StatementAside

LEMMA InvoiceCreated ==
    ASSUME OrdersInv, NEW i \in Invoices, CreateVendorInvoice(i)
    PROVE  OrdersInv'
<1>1. db[i] \in InvoiceRow
  BY DEF OrdersInv, RowsInv, OrdersTyped
<1>2. PICK v : v = [db[i] EXCEPT !.status = "PENDING_MATCH"]
  OBVIOUS
<1>3. /\ v \in InvoiceRow /\ v.grn = db[i].grn /\ v.entries = db[i].entries
      /\ db' = [db EXCEPT ![i] = v] /\ UNCHANGED call /\ tidy' = (tidy /\ Alone)
  BY <1>1, <1>2 DEF InvoiceRow, CreateVendorInvoice, Statement, Becomes
<1>4. RowFits(i, v)
  BY <1>3, TablesApart DEF RowFits, OrdersInv, RowsInv
<1> QED BY <1>3, <1>4, StatementAside

LEMMA MatchCreated ==
    ASSUME OrdersInv, NEW i \in Invoices, NEW g \in Receipts, CreateThreeWayMatch(i, g)
    PROVE  OrdersInv'
<1>1. db[i] \in InvoiceRow
  BY DEF OrdersInv, RowsInv, OrdersTyped
<1>2. PICK v : v = [db[i] EXCEPT !.grn = g]
  OBVIOUS
<1>3. /\ v \in InvoiceRow /\ v.grn = g /\ v.entries = db[i].entries
      /\ db' = [db EXCEPT ![i] = v] /\ UNCHANGED call /\ tidy' = (tidy /\ Alone)
  BY <1>1, <1>2 DEF InvoiceRow, CreateThreeWayMatch, Statement
<1>4. ~In(g, {"ABSENT"}) /\ OrderOf[g] = OrderOf[i]
  BY DEF CreateThreeWayMatch, Statement
<1>5. RowFits(i, v)
  BY <1>3, <1>4, TablesApart DEF RowFits
<1> QED BY <1>3, <1>5, StatementAside

\* The requests that approve requisitions and budgets.
Approvals == {"submit", "approve", "reject", "close"}

LEMMA ApprovalBegins ==
    ASSUME OrdersInv, NEW c \in Calls, NEW op \in Approvals, NEW x \in Requisitions \cup Budgets,
           NEW arg \in Users \cup {None}, Enter(c, op, "write", x, arg, None),
           op = "approve" => arg \in Users,
           x \in Requisitions => /\ op # "close" /\ ~In(x, {"ABSENT"})
                                 /\ op = "approve" => arg # db[x].maker
    PROVE  OrdersInv'
<1>1. PICK p : p = [op |-> op, at |-> "write", row |-> x, arg |-> arg, seen |-> None]
  OBVIOUS
<1>2. /\ p \in OrdersCall /\ p.op = op /\ p.at = "write" /\ p.row = x /\ p.arg = arg /\ p.seen = None
  BY <1>1 DEF OrdersCall, OrderSteps, OrderSeen, ReceiptSteps, Tables, Approvals
<1>3. OrderRequest(p)
  BY <1>2 DEF OrderRequest, Approvals
<1>4. Quiet(p) /\ OrderRead(p) /\ p.op # "completeMatch"
  BY <1>2 DEF Quiet, OrderRead, Approving, Approvals
<1>5. Enter(c, p.op, p.at, p.row, p.arg, p.seen)
  BY <1>2
<1> QED BY <1>2, <1>3, <1>4, <1>5, OrderBegins

LEMMA ApprovalWrites ==
    ASSUME OrdersInv, NEW c \in Calls, NEW op \in Approvals, NEW x \in Requisitions \cup Budgets,
           NEW arg, At(c, op, "write", x, arg), NEW v, RowFits(x, v), db' = [db EXCEPT ![x] = v], Leave(c)
    PROVE  OrdersInv'
<1>1. call[c] # Idle /\ call[c].op = op
  BY RequestAt DEF Approvals
<1>2. Quiet(call[c]) /\ call[c].op # "completeMatch"
  BY <1>1 DEF Quiet, Approvals
<1>3. x \notin Invoices
  BY TablesApart
<1>4. /\ RowsFit
      /\ \A y \in Orders \cup Receipts \cup Commitments \cup Lines : db'[y] = db[y]
      /\ \A i \in Invoices : db'[i].entries = db[i].entries
  BY <1>3, RowAside
<1> QED BY <1>1, <1>2, <1>4, OrderEnds DEF Leave

LEMMA RequisitionSteps ==
    ASSUME OrdersInv, NEW c \in Calls, NEW r \in Requisitions, NEW u \in Users,
           SubmitRequisition(c, r) \/ ApproveRequisition(c, r, u) \/ RejectRequisition(c, r)
    PROVE  OrdersInv'
<1>1. db[r] \in RequisitionRow /\ None \notin Users
  BY BudgetAssumption DEF OrdersInv, RowsInv, OrdersTyped
<1>2. CASE \/ In(r, {"DRAFT", "REJECTED"}) /\ Enter(c, "submit", "write", r, None, None)
           \/ In(r, {"SUBMITTED"}) /\ Enter(c, "reject", "write", r, None, None)
           \/ In(r, {"SUBMITTED"}) /\ db[r].maker # u /\ Enter(c, "approve", "write", r, u, None)
  <2>1. ~In(r, {"ABSENT"})
    BY <1>2 DEF In
  <2>2. CASE Enter(c, "submit", "write", r, None, None)
    BY <2>1, <2>2, ApprovalBegins DEF Approvals
  <2>3. CASE Enter(c, "reject", "write", r, None, None)
    BY <2>1, <2>3, ApprovalBegins DEF Approvals
  <2>4. CASE db[r].maker # u /\ Enter(c, "approve", "write", r, u, None)
    BY <2>1, <2>4, ApprovalBegins DEF Approvals
  <2> QED BY <1>2, <2>2, <2>3, <2>4
<1>3. ASSUME NEW op \in {"submit", "reject"}, NEW status \in {"SUBMITTED", "REJECTED"},
             At(c, op, "write", r, None), Becomes(r, status), Leave(c)
      PROVE  OrdersInv'
  <2>1. PICK v : v = [db[r] EXCEPT !.status = status]
    OBVIOUS
  <2>2. v \in RequisitionRow /\ v.status = status /\ v.maker = db[r].maker /\ v.checker = db[r].checker
    BY <1>1, <2>1 DEF RequisitionRow
  <2>3. RowFits(r, v)
    BY <2>2, TablesApart DEF RowFits, SignedAs
  <2>4. db' = [db EXCEPT ![r] = v]
    BY <1>3, <2>1 DEF Becomes
  <2> QED BY <1>3, <2>3, <2>4, ApprovalWrites DEF Approvals
<1>4. CASE At(c, "approve", "write", r, u) /\ ApprovedBy(u, r, "APPROVED") /\ Leave(c)
  <2>1. PICK v : v = [db[r] EXCEPT !.status = "APPROVED", !.checker = u]
    OBVIOUS
  <2>2. v \in RequisitionRow /\ v.status = "APPROVED" /\ v.maker = db[r].maker /\ v.checker = u
    BY <1>1, <2>1 DEF RequisitionRow
  <2>3. u # db[r].maker
    <3>1. PICK z : z = call[c]
      OBVIOUS
    <3>2. OrderRequest(z) /\ z.op = "approve" /\ z.row = r /\ z.arg = u /\ z # Idle
      BY <1>4, <3>1, RequestAt
    <3> QED BY <3>2, TablesApart DEF OrderRequest
  <2>4. RowFits(r, v)
    BY <1>1, <2>2, <2>3, TablesApart DEF RowFits, SignedAs
  <2>5. db' = [db EXCEPT ![r] = v]
    BY <1>1, <1>4, <2>1 DEF ApprovedBy, OrdersInv, RowsInv, OrdersTyped
  <2> QED BY <1>4, <2>4, <2>5, ApprovalWrites DEF Approvals
<1> QED
  BY <1>2, <1>3, <1>4 DEF SubmitRequisition, ApproveRequisition, RejectRequisition, Handler

LEMMA BudgetSubmitted ==
    ASSUME OrdersInv, NEW c \in Calls, NEW b \in Budgets,
           SubmitBudget(c, b) \/ RejectBudget(c, b) \/ CloseBudget(c, b)
    PROVE  OrdersInv'
<1>1. db[b] \in BudgetRow /\ b \notin Requisitions
  BY TablesApart DEF OrdersInv, RowsInv, OrdersTyped
<1>2. ASSUME NEW op \in {"submit", "reject", "close"}, Enter(c, op, "write", b, None, None)
      PROVE  OrdersInv'
  BY <1>1, <1>2, ApprovalBegins DEF Approvals
<1>3. ASSUME NEW op \in {"submit", "reject", "close"}, NEW status \in {"SUBMITTED", "REJECTED", "CLOSED"},
             At(c, op, "write", b, None), Becomes(b, status), Leave(c)
      PROVE  OrdersInv'
  <2>1. PICK v : v = [db[b] EXCEPT !.status = status]
    OBVIOUS
  <2>2. v \in BudgetRow
    BY <1>1, <2>1 DEF BudgetRow, BudgetStatus
  <2>3. RowFits(b, v)
    BY <2>2, TablesApart DEF RowFits
  <2>4. db' = [db EXCEPT ![b] = v]
    BY <1>3, <2>1 DEF Becomes
  <2> QED BY <1>3, <2>3, <2>4, ApprovalWrites DEF Approvals
<1> QED BY <1>2, <1>3 DEF SubmitBudget, RejectBudget, CloseBudget, Handler

LEMMA BudgetApproved ==
    ASSUME OrdersInv, NEW c \in Calls, NEW b \in Budgets, NEW u \in Users, ApproveBudget(c, b, u)
    PROVE  OrdersInv'
<1>1. db[b] \in BudgetRow /\ b \notin Requisitions
  BY TablesApart DEF OrdersInv, RowsInv, OrdersTyped
<1>2. CASE Enter(c, "approve", "write", b, u, None)
  BY <1>1, <1>2, ApprovalBegins DEF Approvals
<1>3. CASE At(c, "approve", "write", b, u) /\ ApprovedBy(u, b, "APPROVED") /\ Leave(c)
  <2>1. PICK v : v = [db[b] EXCEPT !.status = "APPROVED", !.checker = u]
    OBVIOUS
  <2>2. v \in BudgetRow
    BY <1>1, <2>1 DEF BudgetRow, BudgetStatus
  <2>3. RowFits(b, v)
    BY <2>2, TablesApart DEF RowFits
  <2>4. db' = [db EXCEPT ![b] = v]
    BY <1>1, <1>3, <2>1 DEF ApprovedBy, OrdersInv, RowsInv, OrdersTyped
  <2> QED BY <1>3, <2>3, <2>4, ApprovalWrites DEF Approvals
<1> QED BY <1>2, <1>3 DEF ApproveBudget, Handler


-----------------------------------------------------------------------------
(* Orders are written *)

\* An order written as v agrees with its reservation and its receipts.
OrderAgrees(p, o, v) ==
    /\ v.received = SumFunctionOnSet(Delivered, PostedFor(o)) + Brings(p, o)
    /\ v.received <= Ordered[o]
    /\ v.status = "PARTIALLY_RECEIVED" => v.received < Ordered[o] \/ Receiving(p, Late, o)
    /\ v.commitment # None <=> v.status \in InForce \/ Approving(p, "write", o)
    /\ v.commitment # None => db[v.commitment].released = WorthPosted(o) + Frees(p, o)
LinksStand(q, p, o, v) ==
    \/ /\ v.commitment = db[o].commitment
       /\ \A k \in Commitments, x \in Orders : Linking(p, k, x) <=> Linking(q, k, x)
    \/ \E k \in Commitments :
          /\ v.commitment = k /\ db[k].source = o /\ db[o].commitment = None /\ Linking(q, k, o)
          /\ \A j \in Commitments, x \in Orders : ~Linking(p, j, x)
OthersSame(q, p, o) ==
    /\ \A x \in Orders \ {o} : SameFor(q, p, x)
    /\ \A g \in Receipts : /\ Handling(p, g) <=> Handling(q, g)
                           /\ Unposted(p, g) <=> Unposted(q, g)
    /\ \A l \in Lines : Spares(p, l) = Spares(q, l)

LEMMA TurnWithOrder ==
    ASSUME RowsInv, RowsInv', NEW q, NEW p, NEW o \in Orders, NEW v, v.commitment \in Commitments \cup {None},
           db'[o] = v, \A x \in Tables \ {o} : db'[x] = db[x], OrderTurn(q),
           OrderAgrees(p, o, v), LinksStand(q, p, o, v), OthersSame(q, p, o)
    PROVE  OrderTurn(p)'
<1>0. /\ \A x \in Receipts \cup Commitments \cup Lines : db'[x] = db[x]
      /\ \A x \in Orders \ {o} : db'[x] = db[x]
  BY TablesApart DEF Tables
<1>00. /\ \A x \in Orders : PostedFor(x)' = PostedFor(x) /\ WorthPosted(x)' = WorthPosted(x)
       /\ \A l \in Lines : WorthRefused(l)' = WorthRefused(l)
  BY <1>0, AllWorthStays DEF RowsInv
<1>1. ASSUME NEW x \in Orders PROVE OrderTaken(p, x)'
  <2>1. PostedFor(x)' = PostedFor(x) /\ WorthPosted(x)' = WorthPosted(x)
    BY <1>00
  <2>2. CASE x # o
    <3>1. db[x].commitment \in Commitments \cup {None}
      BY DEF RowsInv, OrdersTyped, OrderRow
    <3>2. OrderTaken(q, x) /\ SameFor(q, p, x)
      BY <2>2 DEF OrderTurn, OthersSame
    <3>3. db'[x] = db[x] /\ (db[x].commitment # None => db'[db[x].commitment] = db[db[x].commitment])
      BY <1>0, <2>2, <3>1
    <3> QED BY <2>1, <3>2, <3>3, OrderStays
  <2>3. CASE x = o
    <3>1. /\ Brings(p, o)' = Brings(p, o) /\ Frees(p, o)' = Frees(p, o)
          /\ Receiving(p, Late, o)' <=> Receiving(p, Late, o)
          /\ Approving(p, "write", o)' <=> Approving(p, "write", o)
      BY DEF Brings, Frees, Valued, Receiving, Late, Approving
    <3>2. PICK k : k = v.commitment
      OBVIOUS
    <3>3. k # None => db'[k] = db[k]
      BY <1>0, <3>2
    <3>4. k # None => db'[k].released = WorthPosted(o)' + Frees(p, o)'
      BY <2>1, <2>3, <3>1, <3>2, <3>3 DEF OrderAgrees
    <3>5. k # None => ReservationTaken(p, o, k)'
      BY <3>4 DEF ReservationTaken
    <3>6. db'[o].commitment # None => ReservationTaken(p, o, db[o].commitment)'
      BY <3>2, <3>5 DEF ReservationTaken
    <3>7. /\ db'[o].received = SumFunctionOnSet(Delivered, PostedFor(o)') + Brings(p, o)'
          /\ db'[o].received <= Ordered[o]
          /\ In(o, {"PARTIALLY_RECEIVED"})' => db'[o].received < Ordered[o] \/ Receiving(p, Late, o)'
          /\ db'[o].commitment # None <=> In(o, InForce)' \/ Approving(p, "write", o)'
      BY <2>1, <2>3, <3>1 DEF OrderAgrees, In
    <3> QED BY <2>3, <3>6, <3>7 DEF OrderTaken
  <2> QED BY <2>2, <2>3
<1>2. ASSUME NEW g \in Receipts PROVE ReceiptTaken(p, g)'
  <2>1. \A k \in Commitments : Shrinks(k)
    BY <1>0, StillShrinks
  <2>2. \A x \in Orders : db[x].commitment # None => db'[x].commitment = db[x].commitment
    BY <1>0 DEF LinksStand
  <2>3. In(g, {"DRAFT"}) /\ Refused(g) => Refused(g)'
    BY <1>0, <2>1, <2>2, RefusalStays
  <2> QED BY <1>0, <2>3, ReceiptStays DEF OrderTurn, OthersSame
<1>3. ASSUME NEW l \in Lines PROVE LineTaken(p, l)'
  BY <1>0, <1>00, LineStays DEF OrderTurn, OthersSame
<1>4. ASSUME NEW k \in Commitments PROVE LinkTaken(p, k)'
  <2>1. LinkTaken(q, k) /\ db'[k] = db[k] /\ (db[k].source # None => db[k].source \in Orders)
    BY <1>0 DEF OrderTurn, RowsInv
  <2>2. CASE /\ v.commitment = db[o].commitment
             /\ \A j \in Commitments, x \in Orders : Linking(p, j, x) <=> Linking(q, j, x)
    <3>1. \A x \in Orders : /\ db'[x].commitment = db[x].commitment
                            /\ Linking(p, k, x) <=> Linking(q, k, x)
      BY <1>0, <2>2
    <3> QED BY <2>1, <3>1, LinkStays
  <2>3. ASSUME NEW j \in Commitments, v.commitment = j, db[j].source = o, db[o].commitment = None,
               Linking(q, j, o)
        PROVE  LinkTaken(p, k)'
    <3>1. CASE k = j
      BY <2>1, <2>3, <3>1 DEF LinkTaken
    <3>2. CASE k # j
      <4>1. \A x \in Orders : ~Linking(q, k, x)
        BY <2>3, <3>2 DEF Linking
      <4>2. db[k].source # None => db[db[k].source].commitment = k
        BY <2>1, <4>1 DEF LinkTaken
      <4>3. db[k].source # o
        BY <2>3, <4>2, ProcurementAssumption
      <4>4. db'[k].source # None => db'[db'[k].source].commitment = k
        BY <1>0, <2>1, <4>2, <4>3
      <4> QED BY <4>4 DEF LinkTaken
    <3> QED BY <3>1, <3>2
  <2> QED BY <2>2, <2>3 DEF LinksStand
<1> QED BY <1>1, <1>2, <1>3, <1>4 DEF OrderTurn

LEMMA OrderWritten ==
    ASSUME OrdersInv, NEW c \in Calls, NEW q, NEW p \in OrdersCall, q = call[c], q # Idle,
           call' = [call EXCEPT ![c] = p], UNCHANGED tidy, NEW o \in Orders, NEW v,
           OrderFits(o, v), db' = [db EXCEPT ![o] = v],
           Grows /\ RowsInv' => OrderRequest(p)',
           RowsInv /\ OrderRequest(p)' => MatchesKept(q, p),
           OrderRead(q) /\ OrderTurn(q) =>
              /\ OrderRead(p)' /\ OrderAgrees(p, o, v) /\ LinksStand(q, p, o, v)
              /\ OthersSame(q, p, o)
    PROVE  OrdersInv'
<1>1. RowsInv /\ OrdersTyped /\ o \in Tables /\ RowFits(o, v)
  BY TablesApart DEF OrdersInv, RowsInv, Tables, RowFits
<1>2. RowsFit /\ db'[o] = v /\ \A y \in Tables \ {o} : db'[y] = db[y]
  BY <1>1, OneRow
<1>22. RowsInv'
  BY <1>1, <1>2, RowsStand
<1>3. OrderRequest(p)'
  BY <1>1, <1>2, <1>22, RowsGrow
<1>4. MatchesKept(q, p)
  BY <1>1, <1>3
<1>5. v.commitment \in Commitments \cup {None}
  BY DEF OrderFits, OrderRow
<1>6. OrderRead(q) /\ OrderTurn(q) => OrderRead(p)' /\ OrderTurn(p)'
  BY <1>1, <1>2, <1>22, <1>5, TurnWithOrder
<1>7. tidy' \in BOOLEAN /\ (tidy' => tidy /\ (q = Idle => Alone))
  BY DEF OrdersInv
<1> QED BY <1>2, <1>3, <1>4, <1>6, <1>7, OrderStep

\* What a row of an order keeps when its status, or one number, is written.
LEMMA OrderRows ==
    ASSUME OrdersInv, NEW o \in Orders
    PROVE  /\ db[o] \in OrderRow
           /\ ~In(o, {"ABSENT"}) /\ RequestOf[o] # None => Reviewed(RequestOf[o])
           /\ In(o, InForce) => Placed(o)
           /\ In(o, {"FULLY_INVOICED"}) => Ordered[o] <= db[o].invoiced
           /\ db[o].commitment # None =>
                 /\ db[o].commitment \in Commitments /\ ~In(db[o].commitment, {"ABSENT"})
                 /\ db[db[o].commitment].source = o /\ db[db[o].commitment].line = LineOf[o]
                 /\ db[db[o].commitment].amount = Ordered[o]
           /\ Ordered[o] \in Nat
<1>1. /\ db[o] \in OrderRow
      /\ ~In(o, {"ABSENT"}) /\ RequestOf[o] # None => Reviewed(RequestOf[o])
      /\ In(o, InForce) => Placed(o)
      /\ In(o, {"FULLY_INVOICED"}) => Ordered[o] <= db[o].invoiced
      /\ db[o].commitment # None => ~In(db[o].commitment, {"ABSENT"}) /\ db[db[o].commitment].source = o
  BY DEF OrdersInv, RowsInv, OrdersTyped
<1>2. ASSUME db[o].commitment # None
      PROVE  /\ db[o].commitment \in Commitments
             /\ db[db[o].commitment].line = LineOf[o] /\ db[db[o].commitment].amount = Ordered[o]
  <2>1. db[o].commitment \in Commitments
    BY <1>1, <1>2 DEF OrderRow
  <2> QED BY <1>1, <1>2, <2>1 DEF OrdersInv, RowsInv
<1> QED BY <1>1, <1>2, ProcurementAssumption

\* No receipt has been posted for an order that has no reservation.
LEMMA NothingPosted ==
    ASSUME OrdersInv, NEW o \in Orders, db[o].commitment = None
    PROVE  SumFunctionOnSet(Delivered, PostedFor(o)) = 0 /\ WorthPosted(o) = 0
<1>1. PostedFor(o) = {}
  BY DEF OrdersInv, RowsInv, PostedFor, Placed, In
<1> QED BY <1>1, SumEmpty DEF WorthPosted

LEMMA OrderCreated ==
    ASSUME OrdersInv, NEW c \in Calls, NEW o \in Orders, NEW u \in Users, CreatePurchaseOrder(c, o, u)
    PROVE  OrdersInv'
<1>1. CASE /\ In(o, {"ABSENT"}) /\ (RequestOf[o] # None => In(RequestOf[o], {"APPROVED"}))
           /\ Enter(c, "createOrder", "write", o, u, None)
  <2>1. PICK p : p = [op |-> "createOrder", at |-> "write", row |-> o, arg |-> u, seen |-> None]
    OBVIOUS
  <2>2. /\ p \in OrdersCall /\ p.op = "createOrder" /\ p.at = "write" /\ p.row = o /\ p.arg = u
        /\ p.seen = None
    BY <2>1 DEF OrdersCall, OrderSteps, OrderSeen, ReceiptSteps, Tables
  <2>3. RequestOf[o] # None => Reviewed(RequestOf[o])
    BY <1>1, ProcurementAssumption DEF OrdersInv, RowsInv
  <2>4. OrderRequest(p)
    BY <2>2, <2>3 DEF OrderRequest
  <2>5. Quiet(p) /\ OrderRead(p) /\ p.op # "completeMatch"
    BY <2>2 DEF Quiet, OrderRead, Approving
  <2>6. Enter(c, p.op, p.at, p.row, p.arg, p.seen)
    BY <1>1, <2>2
  <2> QED BY <2>2, <2>4, <2>5, <2>6, OrderBegins
<1>2. CASE At(c, "createOrder", "write", o, u) /\ InsertOrder(o, u) /\ Leave(c)
  <2>1. PICK q : q = call[c]
    OBVIOUS
  <2>2. /\ q # Idle /\ OrderRequest(q) /\ RowsInv
        /\ q.op = "createOrder" /\ q.at = "write" /\ q.row = o /\ q.arg = u
    BY <1>2, <2>1, RequestAt
  <2>3. RequestOf[o] # None => Reviewed(RequestOf[o])
    BY <2>2 DEF OrderRequest
  <2>4. CASE ~In(o, {"ABSENT"})
    <3>1. UNCHANGED db /\ call' = [call EXCEPT ![c] = Idle] /\ UNCHANGED tidy
      BY <1>2, <2>4 DEF InsertOrder, Leave
    <3>2. RowsFit
      BY <2>2, <3>1, NoRow DEF RowsInv
    <3>3. Quiet(call[c]) /\ call[c].op # "completeMatch"
      BY <2>1, <2>2 DEF Quiet
    <3> QED BY <2>1, <2>2, <3>1, <3>2, <3>3, OrderEnds
  <2>5. CASE In(o, {"ABSENT"})
    <3>1. db[o] \in OrderRow /\ (db[o].commitment # None => ~In(db[o].commitment, {"ABSENT"}) /\ db[db[o].commitment].source = o)
      BY OrderRows
    <3>2. PICK v : v = [db[o] EXCEPT !.status = "DRAFT", !.maker = u]
      OBVIOUS
    <3>3. /\ v \in OrderRow /\ v.status = "DRAFT" /\ v.maker = u /\ v.commitment = db[o].commitment
          /\ v.received = db[o].received /\ v.invoiced = db[o].invoiced
      BY <3>1, <3>2 DEF OrderRow, OrderStatus
    <3>4. db' = [db EXCEPT ![o] = v]
      BY <1>2, <2>5, <3>2 DEF InsertOrder
    <3>5. OrderFits(o, v)
      BY <2>3, <2>5, <3>1, <3>3 DEF OrderFits, SignedAs, InForce, OrderRow
    <3>6. PICK p \in OrdersCall : p = Idle
      BY DEF OrdersCall, OrderSteps, OrderSeen, Idle
    <3>7. OrderRequest(p)' /\ OrderRead(p)' /\ Quiet(p) /\ Quiet(q)
      BY <2>2, <3>6 DEF OrderRequest, OrderRead, Idle, Approving, Quiet
    <3>8. RowsInv => MatchesKept(q, p)
      <4>1. \A i \in Invoices : db'[i].entries = db[i].entries
        BY <3>4, TablesApart DEF OrdersInv, RowsInv, OrdersTyped, Tables
      <4>2. \A x \in Orders : db'[x].invoiced = db[x].invoiced
        BY <3>3, <3>4 DEF OrdersInv, RowsInv, OrdersTyped, Tables
      <4>3. \A x \in Orders : Counts(p, x) = 0 /\ Counts(q, x) = 0
        BY <2>2, <3>6 DEF Counts, Idle
      <4>4. \A x \in Orders : Counts(p, x) <= Counts(q, x)
        BY <4>3
      <4> QED BY <2>2, <3>7, <4>1, <4>2, <4>4, NoMatch
    <3>9. ASSUME OrderTurn(q)
          PROVE  OrderAgrees(p, o, v) /\ LinksStand(q, p, o, v) /\ OthersSame(q, p, o)
      <4>1. SameWork(q, p)
        BY <3>7, QuietIsSame
      <4>2. OrderTaken(q, o)
        BY <3>9 DEF OrderTurn
      <4>3. /\ Brings(q, o) = 0 /\ ~Approving(q, "write", o) /\ ~In(o, InForce)
            /\ Brings(p, o) = 0 /\ ~Approving(p, "write", o) /\ ~(v.status \in InForce)
        BY <2>2, <2>5, <3>3, <3>6 DEF Brings, Receiving, Approving, In, InForce, Idle
      <4>4. OrderAgrees(p, o, v)
        BY <3>3, <4>2, <4>3 DEF OrderAgrees, OrderTaken
      <4> QED BY <3>3, <4>1, <4>4 DEF LinksStand, OthersSame, SameWork
    <3>10. call' = [call EXCEPT ![c] = p] /\ UNCHANGED tidy
      BY <1>2, <3>6 DEF Leave
    <3> QED BY <2>1, <2>2, <3>4, <3>5, <3>7, <3>8, <3>9, <3>10, OrderWritten
  <2> QED BY <2>4, <2>5
<1> QED BY <1>1, <1>2 DEF CreatePurchaseOrder, Handler


-----------------------------------------------------------------------------
(* An order is approved or rejected *)

\* A request that ends after it wrote an order.
LEMMA OrderCloses ==
    ASSUME OrdersInv, NEW c \in Calls, NEW q, q = call[c], q # Idle, Leave(c), NEW o \in Orders, NEW v,
           OrderFits(o, v), db' = [db EXCEPT ![o] = v], v.invoiced = db[o].invoiced,
           q.op = "completeMatch" => q.at = "write",
           OrderRead(q) /\ OrderTurn(q) =>
              OrderAgrees(Idle, o, v) /\ LinksStand(q, Idle, o, v) /\ OthersSame(q, Idle, o)
    PROVE  OrdersInv'
<1>1. PICK p \in OrdersCall : p = Idle
  BY DEF OrdersCall, OrderSteps, OrderSeen, Idle
<1>2. OrderRequest(p)' /\ OrderRead(p)'
  BY <1>1 DEF OrderRequest, OrderRead, Idle, Approving
<1>3. RowsInv => MatchesKept(q, p)
  <2>1. \A i \in Invoices : db'[i].entries = db[i].entries
    BY TablesApart DEF OrdersInv, RowsInv, OrdersTyped, Tables
  <2>2. \A x \in Orders : db'[x].invoiced = db[x].invoiced
    BY DEF OrdersInv, RowsInv, OrdersTyped, Tables
  <2>3. \A x \in Orders : Counts(p, x) = 0 /\ Counts(q, x) = 0
    BY <1>1 DEF Counts, Idle
  <2>4. \A x \in Orders : Counts(p, x) <= Counts(q, x)
    BY <2>3
  <2>5. OrderRequest(q)
    BY DEF OrdersInv
  <2> QED BY <1>2, <2>1, <2>2, <2>4, <2>5, NoMatch
<1>4. call' = [call EXCEPT ![c] = p] /\ UNCHANGED tidy
  BY <1>1 DEF Leave
<1>5. OrderRead(q) /\ OrderTurn(q) =>
         /\ OrderRead(p)' /\ OrderAgrees(p, o, v) /\ LinksStand(q, p, o, v) /\ OthersSame(q, p, o)
  BY <1>1, <1>2
<1> QED BY <1>2, <1>3, <1>4, <1>5, OrderWritten

\* Nothing of a receipt or of a link is in hand, but perhaps the approval of o.
LEMMA ApprovalIsSame ==
    ASSUME NEW q, NEW p, NEW o, q.op # "receiveGoods", p.op # "receiveGoods",
           q.op = "approveOrder" => q.row = o, p.op = "approveOrder" => p.row = o
    PROVE  /\ OthersSame(q, p, o)
           /\ Brings(p, o) = 0 /\ Brings(q, o) = 0 /\ Frees(p, o) = 0 /\ Frees(q, o) = 0
           /\ ~Receiving(q, Late, o) /\ ~Receiving(p, Late, o)
BY DEF OthersSame, SameFor, Brings, Frees, Receiving, Approving, Handling, Unposted, Spares

LEMMA RejectsOrder ==
    ASSUME OrdersInv, NEW c \in Calls, NEW o \in Orders, RejectPurchaseOrder(c, o)
    PROVE  OrdersInv'
<1>1. CASE In(o, {"DRAFT"}) /\ Enter(c, "rejectOrder", "write", o, None, None)
  <2>1. PICK p : p = [op |-> "rejectOrder", at |-> "write", row |-> o, arg |-> None, seen |-> None]
    OBVIOUS
  <2>2. /\ p \in OrdersCall /\ p.op = "rejectOrder" /\ p.at = "write" /\ p.row = o /\ p.arg = None
        /\ p.seen = None
    BY <2>1 DEF OrdersCall, OrderSteps, OrderSeen, ReceiptSteps, Tables
  <2>3. OrderRequest(p)
    BY <1>1, <2>2 DEF OrderRequest, In
  <2>4. Quiet(p) /\ OrderRead(p) /\ p.op # "completeMatch"
    BY <1>1, <2>2 DEF Quiet, OrderRead, Approving
  <2>5. Enter(c, p.op, p.at, p.row, p.arg, p.seen)
    BY <1>1, <2>2
  <2> QED BY <2>2, <2>3, <2>4, <2>5, OrderBegins
<1>2. CASE At(c, "rejectOrder", "write", o, None) /\ Becomes(o, "CANCELLED") /\ Leave(c)
  <2>1. PICK q : q = call[c]
    OBVIOUS
  <2>2. /\ q # Idle /\ OrderRequest(q)
        /\ q.op = "rejectOrder" /\ q.at = "write" /\ q.row = o
    BY <1>2, <2>1, RequestAt
  <2>3. ~In(o, {"ABSENT"})
    BY <2>2 DEF OrderRequest
  <2>4. PICK v : v = [db[o] EXCEPT !.status = "CANCELLED"]
    OBVIOUS
  <2>5. /\ v \in OrderRow /\ v.status = "CANCELLED" /\ v.maker = db[o].maker /\ v.checker = db[o].checker
        /\ v.commitment = db[o].commitment /\ v.received = db[o].received
        /\ v.invoiced = db[o].invoiced /\ db[o].invoiced \in Nat
    BY <2>4, OrderRows DEF OrderRow, OrderStatus
  <2>6. OrderFits(o, v)
    BY <2>3, <2>5, OrderRows DEF OrderFits, SignedAs, InForce
  <2>7. ASSUME OrderRead(q), OrderTurn(q)
        PROVE  OrderAgrees(Idle, o, v) /\ LinksStand(q, Idle, o, v) /\ OthersSame(q, Idle, o)
    <3>1. PICK z : z = Idle
      OBVIOUS
    <3>2. z.op = "none"
      BY <3>1 DEF Idle
    <3>3. OthersSame(q, z, o) /\ Brings(z, o) = 0 /\ Brings(q, o) = 0
      BY <2>2, <3>2, ApprovalIsSame
    <3>4. In(o, {"DRAFT"}) /\ OrderTaken(q, o)
      BY <2>2, <2>7 DEF OrderRead, OrderTurn
    <3>5. ~In(o, InForce) /\ ~Approving(q, "write", o) /\ ~Approving(z, "write", o)
      BY <2>2, <3>2, <3>4 DEF In, InForce, Approving
    <3>6. OrderAgrees(z, o, v)
      BY <2>5, <3>3, <3>4, <3>5 DEF OrderAgrees, OrderTaken, InForce
    <3>7. LinksStand(q, z, o, v)
      BY <2>2, <2>5, <3>2 DEF LinksStand, Linking, Approving
    <3> QED BY <3>1, <3>3, <3>6, <3>7
  <2>8. db' = [db EXCEPT ![o] = v] /\ Leave(c)
    BY <1>2, <2>4 DEF Becomes
  <2> QED BY <2>1, <2>2, <2>5, <2>6, <2>7, <2>8, OrderCloses
<1> QED BY <1>1, <1>2 DEF RejectPurchaseOrder, Handler

LEMMA CommittedTyped == ASSUME OrdersTyped, NEW l \in Lines PROVE CommittedOf(l) \in Int
<1> DEFINE S == {j \in Commitments : In(j, Open) /\ db[j].line = l}
           f == [j \in Commitments |-> db[j].amount - db[j].released]
<1>1. S \subseteq Commitments /\ IsFiniteSet(S)
  BY ProcurementAssumption, FS_Subset
<1>2. \A j \in Commitments : f[j] \in Int
  <2>1. \A j \in Commitments : db[j].amount \in Nat /\ db[j].released \in Nat
    BY DEF OrdersTyped, ReservationRow
  <2> QED BY <2>1
<1>3. CommittedOf(l) = SumFunctionOnSet(f, S)
  BY DEF CommittedOf
<1> HIDE DEF S, f
<1>4. Numeric(f, S)
  BY <1>1, <1>2 DEF Numeric
<1> QED BY <1>3, <1>4, SumTakes

\* What is committed of a line when a commitment is added to it.
LEMMA CommitmentAdded ==
    ASSUME RowsInv, RowsInv', NEW k \in Commitments, In(k, {"ABSENT"}), db'[k].status \in Open,
           \A j \in Commitments \ {k} : db'[j] = db[j], NEW l \in Lines
    PROVE  /\ CommittedOf(l) \in Int
           /\ CommittedOf(l)' = IF db'[k].line = l
                                THEN CommittedOf(l) + (db'[k].amount - db'[k].released) ELSE CommittedOf(l)
<1> DEFINE S == {j \in Commitments : In(j, Open) /\ db[j].line = l}
           T == {j \in Commitments : In(j, Open)' /\ db'[j].line = l}
           f == [j \in Commitments |-> db[j].amount - db[j].released]
           g == [j \in Commitments |-> db'[j].amount - db'[j].released]
<1>1. CommittedOf(l) = SumFunctionOnSet(f, S) /\ CommittedOf(l)' = SumFunctionOnSet(g, T)
  BY DEF CommittedOf
<1>2. k \notin S /\ S \subseteq Commitments /\ IsFiniteSet(S)
  BY ProcurementAssumption, FS_Subset DEF In, Open
<1>3. T = IF db'[k].line = l THEN S \cup {k} ELSE S
  BY <1>2 DEF In, Open
<1>4. (\A j \in Commitments : f[j] \in Int) /\ \A j \in Commitments : g[j] \in Int
  <2>1. \A j \in Commitments : /\ db[j].amount \in Nat /\ db[j].released \in Nat
                               /\ db'[j].amount \in Nat /\ db'[j].released \in Nat
    BY DEF RowsInv, OrdersTyped, ReservationRow
  <2> QED BY <2>1
<1>5. (\A j \in S : f[j] = g[j]) /\ g[k] = db'[k].amount - db'[k].released
  BY <1>2
<1> HIDE DEF S, T, f, g
<1>6. Numeric(f, S) /\ Numeric(g, S)
  BY <1>2, <1>4 DEF Numeric
<1>7. SumFunctionOnSet(g, S) = SumFunctionOnSet(f, S) /\ SumFunctionOnSet(f, S) \in Int
  BY <1>5, <1>6, SumSame, SumTakes
<1>8. SumFunctionOnSet(g, S \cup {k}) = SumFunctionOnSet(g, S) + g[k]
  BY <1>2, <1>4, <1>6, SumAdds
<1> QED BY <1>1, <1>3, <1>5, <1>7, <1>8


LEMMA ApprovalOfOrderBegins ==
    ASSUME OrdersInv, NEW c \in Calls, NEW o \in Orders, NEW u \in Users,
           In(o, {"DRAFT"}), db[o].maker # u, Enter(c, "approveOrder", "check", o, u, None)
    PROVE  OrdersInv'
<1>1. PICK p : p = [op |-> "approveOrder", at |-> "check", row |-> o, arg |-> u, seen |-> None]
  OBVIOUS
<1>2. /\ p \in OrdersCall /\ p.op = "approveOrder" /\ p.at = "check" /\ p.row = o /\ p.arg = u
      /\ p.seen = None
  BY <1>1 DEF OrdersCall, OrderSteps, OrderSeen, ReceiptSteps, Tables
<1>3. OrderRequest(p)
  BY <1>2 DEF OrderRequest, In
<1>4. Quiet(p) /\ OrderRead(p) /\ p.op # "completeMatch"
  BY <1>2 DEF Quiet, OrderRead, Approving
<1>5. Enter(c, p.op, p.at, p.row, p.arg, p.seen)
  BY <1>2
<1> QED BY <1>2, <1>3, <1>4, <1>5, OrderBegins

LEMMA OrderChecked ==
    ASSUME OrdersInv, NEW c \in Calls, NEW o \in Orders, NEW u \in Users,
           At(c, "approveOrder", "check", o, u), UNCHANGED db,
           IF MayReserve(LineOf[o], Ordered[o]) THEN Goto(c, "reserve") ELSE Leave(c)
    PROVE  OrdersInv'
<1>1. PICK q : q = call[c]
  OBVIOUS
<1>2. /\ q # Idle /\ OrderRequest(q) /\ RowsInv /\ OrdersTyped /\ q \in OrdersCall
      /\ q.op = "approveOrder" /\ q.at = "check" /\ q.row = o /\ q.arg = u
  BY <1>1, RequestAt
<1>3. CASE MayReserve(LineOf[o], Ordered[o])
  <2>1. Goto(c, "reserve") /\ "reserve" \in OrderSteps
    BY <1>3 DEF OrderSteps
  <2>2. PICK p \in OrdersCall :
           /\ p.op = q.op /\ p.at = "reserve" /\ p.row = q.row /\ p.arg = q.arg
           /\ p.seen = q.seen /\ call' = [call EXCEPT ![c] = p] /\ UNCHANGED tidy
    BY <1>1, <2>1, RequestGoes
  <2>3. OrderRequest(p)
    BY <1>2, <2>2 DEF OrderRequest
  <2>4. SameWork(q, p)
    BY <1>2, <2>2, QuietIsSame DEF Quiet
  <2>5. \A x \in Orders : Counts(p, x) = 0 /\ Counts(q, x) = 0
    BY <1>2, <2>2 DEF Counts
  <2>6. \A x \in Orders : Counts(p, x) <= Counts(q, x)
    BY <2>5
  <2>7. OrderRead(q) => OrderRead(p)
    BY <1>2, <1>3, <2>2 DEF OrderRead, Approving, MayReserve
  <2>8. tidy' \in BOOLEAN /\ (tidy' => tidy /\ (q = Idle => Alone))
    BY <1>2, <2>2 DEF OrdersInv
  <2> QED BY <1>1, <2>2, <2>3, <2>4, <2>6, <2>7, <2>8, OrderReads
<1>4. CASE ~MayReserve(LineOf[o], Ordered[o])
  <2>1. call' = [call EXCEPT ![c] = Idle] /\ UNCHANGED tidy
    BY <1>4 DEF Leave
  <2>2. RowsFit
    BY <1>2, NoRow
  <2>3. Quiet(call[c]) /\ call[c].op # "completeMatch"
    BY <1>1, <1>2 DEF Quiet
  <2> QED BY <1>1, <1>2, <2>1, <2>2, <2>3, OrderEnds
<1> QED BY <1>3, <1>4

\* The turn after o was reserved by k.
LEMMA TurnWithReservation ==
    ASSUME RowsInv, RowsInv', NEW q, NEW p, NEW o \in Orders, NEW k \in Commitments,
           In(k, {"ABSENT"}), \A x \in Tables \ {k} : db'[x] = db[x],
           db'[k] = [status |-> "OPEN", line |-> LineOf[o], amount |-> Ordered[o],
                     released |-> 0, source |-> o],
           q.op = "approveOrder", q.at = "reserve", q.row = o,
           p.op = "approveOrder", p.at = "link", p.row = o, p.seen = k,
           OrderTurn(q), Available(LineOf[o]) >= Ordered[o]
    PROVE  OrderTurn(p)'
<1>1. /\ \A x \in Orders \cup Receipts \cup Lines : db'[x] = db[x]
      /\ \A j \in Commitments \ {k} : db'[j] = db[j]
  BY TablesApart DEF Tables
<1>2. /\ OthersSame(q, p, o) /\ Brings(p, o) = 0 /\ Brings(q, o) = 0
      /\ Frees(p, o) = 0 /\ Frees(q, o) = 0
      /\ ~Receiving(q, Late, o) /\ ~Receiving(p, Late, o)
  BY ApprovalIsSame
<1>3. ~Approving(p, "write", o) /\ ~Approving(q, "write", o)
  BY DEF Approving
<1>4. \A x \in Orders : SameFor(q, p, x)
  BY <1>2, <1>3 DEF OthersSame, SameFor
<1>0. /\ \A x \in Orders : PostedFor(x)' = PostedFor(x) /\ WorthPosted(x)' = WorthPosted(x)
      /\ \A l \in Lines : WorthRefused(l)' = WorthRefused(l)
  BY <1>1, AllWorthStays DEF RowsInv
<1>5. ASSUME NEW x \in Orders PROVE OrderTaken(p, x)'
  <2>1. PostedFor(x)' = PostedFor(x) /\ WorthPosted(x)' = WorthPosted(x)
    BY <1>0
  <2>2. /\ db[x].commitment \in Commitments \cup {None}
        /\ db[x].commitment # None => ~In(db[x].commitment, {"ABSENT"})
    BY DEF RowsInv, OrdersTyped, OrderRow
  <2>3. db[x].commitment # None => db'[db[x].commitment] = db[db[x].commitment]
    BY <1>1, <2>2
  <2>4. OrderTaken(q, x) /\ SameFor(q, p, x) /\ db'[x] = db[x]
    BY <1>1, <1>4 DEF OrderTurn
  <2> QED BY <2>1, <2>3, <2>4, OrderStays
<1>6. ASSUME NEW g \in Receipts PROVE ReceiptTaken(p, g)'
  <2>1. \A j \in Commitments : ~In(j, {"ABSENT"}) => Shrinks(j)
    BY <1>1 DEF Shrinks, In, RowsInv, OrdersTyped, ReservationRow
  <2>2. In(g, {"DRAFT"}) /\ Refused(g) => Refused(g)'
    BY <1>1, <2>1, RefusalStays
  <2> QED BY <1>1, <1>2, <2>2, ReceiptStays DEF OrderTurn, OthersSame
<1>7. ASSUME NEW j \in Commitments PROVE LinkTaken(p, j)'
  <2>1. CASE j = k
    <3>1. db'[j].source = o /\ Linking(p, j, o)'
      BY <2>1 DEF Linking, Approving
    <3> QED BY <3>1 DEF LinkTaken
  <2>2. CASE j # k
    <3>1. \A x \in Orders : ~Linking(p, j, x) /\ ~Linking(q, j, x)
      BY <2>2 DEF Linking, Approving
    <3>2. db'[j].source = db[j].source /\ \A x \in Orders : db'[x].commitment = db[x].commitment
      BY <1>1, <2>2
    <3> QED BY <3>1, <3>2, LinkStays DEF OrderTurn
  <2> QED BY <2>1, <2>2
<1>8. ASSUME NEW l \in Lines PROVE LineTaken(p, l)'
  <2>1. /\ db[l].actual \in Nat /\ db[l].revised \in Int /\ Ordered[o] \in Nat /\ db'[l] = db[l]
    BY <1>1, ProcurementAssumption DEF RowsInv, OrdersTyped, LineRow
  <2>2. /\ CommittedOf(l) \in Int
        /\ CommittedOf(l)' = IF LineOf[o] = l THEN CommittedOf(l) + (Ordered[o] - 0) ELSE CommittedOf(l)
    <3>1. /\ db'[k].status \in Open /\ db'[k].line = LineOf[o] /\ db'[k].amount = Ordered[o]
          /\ db'[k].released = 0
      BY DEF Open
    <3> QED BY <1>1, <3>1, CommitmentAdded
  <2>3. Spares(q, l) = 0 /\ Spares(p, l)' = 0
    BY DEF Spares
  <2>4. db[l].actual + CommittedOf(l) + 0 <= db[l].revised + WorthRefused(l)
    BY <2>3 DEF OrderTurn, LineTaken
  <2>7. WorthRefused(l)' = WorthRefused(l) /\ WorthRefused(l) \in Nat
    BY <1>0, WorthNatural DEF RowsInv
  <2>5. LineOf[o] = l => db[l].revised - db[l].actual - CommittedOf(l) >= Ordered[o]
    BY DEF Available
  <2>6. db'[l].actual + CommittedOf(l)' + 0 <= db'[l].revised + WorthRefused(l)'
    BY <2>1, <2>2, <2>4, <2>5, <2>7
  <2> QED BY <2>3, <2>6 DEF LineTaken
<1> QED BY <1>5, <1>6, <1>7, <1>8 DEF OrderTurn

LEMMA OrderReserved ==
    ASSUME OrdersInv, NEW c \in Calls, NEW o \in Orders, NEW u \in Users, NEW k \in Commitments,
           At(c, "approveOrder", "reserve", o, u), Reserve(k, LineOf[o], Ordered[o], o), Keep(c, "link", k)
    PROVE  OrdersInv'
<1>1. PICK q : q = call[c]
  OBVIOUS
<1>2. /\ q # Idle /\ OrderRequest(q) /\ RowsInv /\ OrdersTyped /\ q \in OrdersCall
      /\ q.op = "approveOrder" /\ q.at = "reserve" /\ q.row = o /\ q.arg = u
  BY <1>1, RequestAt
<1>3. "link" \in OrderSteps /\ k \in OrderSeen
  BY DEF OrderSteps, OrderSeen
<1>4. PICK p \in OrdersCall :
         /\ p.op = q.op /\ p.at = "link" /\ p.row = q.row /\ p.arg = q.arg
         /\ p.seen = k /\ call' = [call EXCEPT ![c] = p] /\ UNCHANGED tidy
  BY <1>1, <1>3, CallAdvances
<1>5. PICK v : v = [status |-> "OPEN", line |-> LineOf[o], amount |-> Ordered[o], released |-> 0, source |-> o]
  OBVIOUS
<1>6. In(k, {"ABSENT"}) /\ db' = [db EXCEPT ![k] = v]
  BY <1>5 DEF Reserve
<1>7. RowFits(k, v)
  <2>1. v \in ReservationRow
    BY <1>5, ProcurementAssumption DEF ReservationRow, CommitmentStatus, Open
  <2> QED BY <1>5, <1>6, <2>1, TablesApart DEF RowFits, ReservationFits
<1>8. RowsFit /\ db'[k] = v /\ \A y \in Tables \ {k} : db'[y] = db[y]
  BY <1>2, <1>6, <1>7, OneRow DEF Tables
<1>9. RowsInv' /\ Grows
  BY <1>2, <1>8, RowsGrow, RowsStand
<1>10. OrderRequest(p)'
  <2>1. /\ ~In(o, {"ABSENT"}) /\ u # db[o].maker
    BY <1>2 DEF OrderRequest
  <2>2. ~In(o, {"ABSENT"})' /\ u # db'[o].maker /\ ~In(k, {"ABSENT"})' /\ db'[k].source = o
    BY <1>5, <1>8, <1>9, <2>1 DEF Grows, In
  <2> QED BY <1>2, <1>4, <2>2 DEF OrderRequest
<1>11. MatchesKept(q, p)
  <2>1. /\ \A i \in Invoices : db'[i].entries = db[i].entries
        /\ \A x \in Orders : db'[x].invoiced = db[x].invoiced
    BY <1>8, TablesApart DEF Tables
  <2>2. \A x \in Orders : Counts(p, x) = 0 /\ Counts(q, x) = 0
    BY <1>2, <1>4 DEF Counts
  <2>3. \A x \in Orders : Counts(p, x) <= Counts(q, x)
    BY <2>2
  <2> QED BY <1>2, <1>10, <2>1, <2>3, NoMatch
<1>12. ASSUME OrderRead(q), OrderTurn(q) PROVE OrderRead(p)' /\ OrderTurn(p)'
  <2>1. In(o, {"DRAFT"}) /\ Available(LineOf[o]) >= Ordered[o]
    BY <1>2, <1>12 DEF OrderRead, Approving
  <2>2. OrderTurn(p)'
    BY <1>2, <1>4, <1>5, <1>6, <1>8, <1>9, <1>12, <2>1, TurnWithReservation
  <2>3. In(o, {"DRAFT"})' /\ db'[k].released = 0
    BY <1>5, <1>8, <2>1, TablesApart DEF In, Tables
  <2>4. OrderRead(p)'
    BY <1>2, <1>4, <2>3 DEF OrderRead, Approving
  <2> QED BY <2>2, <2>4
<1>13. tidy' \in BOOLEAN /\ (tidy' => tidy /\ (q = Idle => Alone))
  BY <1>2, <1>4 DEF OrdersInv
<1> QED BY <1>1, <1>4, <1>8, <1>10, <1>11, <1>12, <1>13, OrderStep

LEMMA OrderLinked ==
    ASSUME OrdersInv, NEW c \in Calls, NEW o \in Orders, NEW u \in Users,
           At(c, "approveOrder", "link", o, u), Link(c, o), Goto(c, "write")
    PROVE  OrdersInv'
<1>1. PICK q : q = call[c]
  OBVIOUS
<1>2. /\ q # Idle /\ OrderRequest(q) /\ RowsInv /\ OrdersTyped /\ q \in OrdersCall
      /\ q.op = "approveOrder" /\ q.at = "link" /\ q.row = o /\ q.arg = u
  BY <1>1, RequestAt
<1>3. PICK k : k = q.seen
  OBVIOUS
<1>4. /\ ~In(o, {"ABSENT"}) /\ u # db[o].maker
      /\ k \in Commitments /\ ~In(k, {"ABSENT"}) /\ db[k].source = o
  BY <1>2, <1>3 DEF OrderRequest
<1>5. "write" \in OrderSteps
  BY DEF OrderSteps, ReceiptSteps
<1>6. PICK p \in OrdersCall :
         /\ p.op = q.op /\ p.at = "write" /\ p.row = q.row /\ p.arg = q.arg
         /\ p.seen = q.seen /\ call' = [call EXCEPT ![c] = p] /\ UNCHANGED tidy
  BY <1>1, <1>5, RequestGoes
<1>7. PICK v : v = [db[o] EXCEPT !.commitment = k]
  OBVIOUS
<1>8. /\ v \in OrderRow /\ v.status = db[o].status /\ v.maker = db[o].maker
      /\ v.checker = db[o].checker /\ v.commitment = k /\ v.received = db[o].received
      /\ v.invoiced = db[o].invoiced /\ db[o].invoiced \in Nat /\ k # None
  BY <1>4, <1>7, OrderRows, ProcurementAssumption DEF OrderRow
<1>9. OrderFits(o, v)
  BY <1>4, <1>8, OrderRows DEF OrderFits, SignedAs, Placed, Reviewed, FourEyes, In
<1>10. db' = [db EXCEPT ![o] = v]
  BY <1>1, <1>3, <1>7 DEF Link
<1>11. db'[o] = v
  BY <1>2, <1>10 DEF OrdersTyped, Tables
<1>12. ASSUME Grows, RowsInv' PROVE OrderRequest(p)'
  <2>1. ~In(o, {"ABSENT"})' /\ db'[o].maker = db[o].maker
    BY <1>4, <1>8, <1>11 DEF In
  <2> QED BY <1>2, <1>4, <1>6, <1>8, <1>11, <2>1 DEF OrderRequest
<1>13. ASSUME RowsInv, OrderRequest(p)' PROVE MatchesKept(q, p)
  <2>1. /\ \A i \in Invoices : db'[i].entries = db[i].entries
        /\ \A x \in Orders : db'[x].invoiced = db[x].invoiced
    BY <1>2, <1>8, <1>10, TablesApart DEF OrdersTyped, Tables
  <2>2. \A x \in Orders : Counts(p, x) = 0 /\ Counts(q, x) = 0
    BY <1>2, <1>6 DEF Counts
  <2>3. \A x \in Orders : Counts(p, x) <= Counts(q, x)
    BY <2>2
  <2> QED BY <1>2, <1>13, <2>1, <2>3, NoMatch
<1>14. ASSUME OrderRead(q), OrderTurn(q)
       PROVE  OrderRead(p)' /\ OrderAgrees(p, o, v) /\ LinksStand(q, p, o, v) /\ OthersSame(q, p, o)
  <2>1. In(o, {"DRAFT"}) /\ db[k].released = 0
    BY <1>2, <1>3, <1>14 DEF OrderRead, Approving
  <2>2. OrderTaken(q, o)
    BY <1>14 DEF OrderTurn
  <2>3. ~In(o, InForce) /\ ~Approving(q, "write", o) /\ Approving(p, "write", o)
    BY <1>2, <1>6, <2>1 DEF Approving, In, InForce
  <2>4. db[o].commitment = None
    BY <2>2, <2>3 DEF OrderTaken
  <2>5. OthersSame(q, p, o) /\ Brings(p, o) = 0 /\ Brings(q, o) = 0 /\ Frees(p, o) = 0
    BY <1>2, <1>6, ApprovalIsSame
  <2>6. SumFunctionOnSet(Delivered, PostedFor(o)) = 0 /\ WorthPosted(o) = 0
    BY <2>4, NothingPosted
  <2>7. db[o].received = 0
    BY <2>2, <2>5, <2>6 DEF OrderTaken
  <2>8. OrderAgrees(p, o, v)
    <3>1. v.status = "DRAFT"
      BY <1>8, <2>1 DEF In
    <3> QED BY <1>8, <2>1, <2>2, <2>3, <2>5, <2>6, <2>7, <3>1 DEF OrderAgrees, OrderTaken
  <2>9. LinksStand(q, p, o, v)
    BY <1>2, <1>3, <1>4, <1>6, <1>8, <2>4 DEF LinksStand, Linking, Approving
  <2>10. In(o, {"DRAFT"})'
    BY <1>8, <1>11, <2>1 DEF In
  <2>11. OrderRead(p)'
    BY <1>2, <1>6, <2>10 DEF OrderRead, Approving, In
  <2> QED BY <2>5, <2>8, <2>9, <2>11
<1> QED BY <1>1, <1>2, <1>6, <1>9, <1>10, <1>12, <1>13, <1>14, OrderWritten

LEMMA OrderApproved ==
    ASSUME OrdersInv, NEW c \in Calls, NEW o \in Orders, NEW u \in Users,
           At(c, "approveOrder", "write", o, u), ApprovedBy(u, o, "APPROVED"), Leave(c)
    PROVE  OrdersInv'
<1>1. PICK q : q = call[c]
  OBVIOUS
<1>2. /\ q # Idle /\ OrderRequest(q) /\ RowsInv /\ OrdersTyped
      /\ q.op = "approveOrder" /\ q.at = "write" /\ q.row = o /\ q.arg = u
  BY <1>1, RequestAt
<1>3. ~In(o, {"ABSENT"}) /\ u # db[o].maker /\ db[o].commitment # None /\ u # None
  BY <1>2, BudgetAssumption DEF OrderRequest
<1>4. PICK v : v = [db[o] EXCEPT !.status = "APPROVED", !.checker = u]
  OBVIOUS
<1>5. /\ v \in OrderRow /\ v.status = "APPROVED" /\ v.maker = db[o].maker
      /\ v.checker = u /\ v.commitment = db[o].commitment /\ v.received = db[o].received
      /\ v.invoiced = db[o].invoiced /\ db[o].invoiced \in Nat
  BY <1>4, OrderRows DEF OrderRow, OrderStatus, InForce
<1>6. OrderFits(o, v)
  BY <1>3, <1>5, OrderRows DEF OrderFits, SignedAs
<1>7. db' = [db EXCEPT ![o] = v]
  BY <1>2, <1>4 DEF ApprovedBy, OrdersTyped
<1>8. ASSUME OrderRead(q), OrderTurn(q)
      PROVE  OrderAgrees(Idle, o, v) /\ LinksStand(q, Idle, o, v) /\ OthersSame(q, Idle, o)
  <2>1. PICK z : z = Idle
    OBVIOUS
  <2>2. z.op = "none"
    BY <2>1 DEF Idle
  <2>3. /\ OthersSame(q, z, o) /\ Brings(z, o) = 0 /\ Brings(q, o) = 0
        /\ Frees(q, o) = 0 /\ Frees(z, o) = 0
    BY <1>2, <2>2, ApprovalIsSame
  <2>4. OrderTaken(q, o)
    BY <1>8 DEF OrderTurn
  <2>5. OrderAgrees(z, o, v)
    BY <1>3, <1>5, <2>3, <2>4 DEF OrderAgrees, OrderTaken, ReservationTaken, InForce
  <2>6. LinksStand(q, z, o, v)
    BY <1>2, <1>5, <2>2 DEF LinksStand, Linking, Approving
  <2> QED BY <2>1, <2>3, <2>5, <2>6
<1> QED BY <1>1, <1>2, <1>5, <1>6, <1>7, <1>8, OrderCloses

LEMMA ApprovalOfOrder ==
    ASSUME OrdersInv, NEW c \in Calls, NEW o \in Orders, NEW u \in Users, ApprovePurchaseOrder(c, o, u)
    PROVE  OrdersInv'
BY ApprovalOfOrderBegins, OrderChecked, OrderReserved, OrderLinked, OrderApproved DEF ApprovePurchaseOrder


-----------------------------------------------------------------------------
(* Goods are received *)

LEMMA ReceiptAt ==
    ASSUME OrdersInv, NEW c \in Calls, NEW g \in Receipts, NEW cost \in UnitCosts,
           NEW at, At(c, "receiveGoods", at, g, cost)
    PROVE  /\ call[c] # Idle /\ call[c] \in OrdersCall /\ OrderRequest(call[c])
           /\ call[c].op = "receiveGoods" /\ call[c].at = at /\ call[c].row = g /\ call[c].arg = cost
           /\ Placed(OrderOf[g]) /\ call[c].seen \in ReceiptSeen /\ call[c].seen.commitment \in Commitments
           /\ ~In(call[c].seen.commitment, {"ABSENT"})
           /\ at # "create" => ~In(g, {"ABSENT"})
           /\ at = "released" => call[c].seen.last \in Nat
           /\ at = "write" => call[c].seen.status \in {"APPROVED", "PARTIALLY_RECEIVED", "FULLY_RECEIVED"}
           /\ OrderOf[g] \in Orders /\ Delivered[g] \in Nat /\ RowsInv /\ OrdersTyped
           /\ Valued(call[c]) = Delivered[g] * cost /\ Valued(call[c]) \in Nat
<1>1. PICK q : q = call[c]
  OBVIOUS
<1>2. /\ q # Idle /\ q \in OrdersCall /\ OrderRequest(q) /\ RowsInv /\ OrdersTyped
      /\ q.op = "receiveGoods" /\ q.at = at /\ q.row = g /\ q.arg = cost
  BY <1>1, RequestAt
<1>3. /\ Placed(OrderOf[q.row]) /\ q.seen \in ReceiptSeen
      /\ q.at # "create" => ~In(q.row, {"ABSENT"})
      /\ q.seen.commitment \in Commitments /\ ~In(q.seen.commitment, {"ABSENT"})
      /\ q.at = "released" => q.seen.last \in Nat
      /\ q.at = "write" => q.seen.status \in {"APPROVED", "PARTIALLY_RECEIVED", "FULLY_RECEIVED"}
  BY <1>2 DEF OrderRequest
<1>4. Delivered[g] \in Nat /\ cost \in Nat
  BY ProcurementAssumption
<1>5. Delivered[g] * cost \in Nat
  BY <1>4
<1>6. Valued(q) = Delivered[g] * cost
  BY <1>2 DEF Valued
<1> QED BY <1>1, <1>2, <1>3, <1>4, <1>5, <1>6, ProcurementAssumption

\* A request that has gone on to p, with what it read before or read now.
LEMMA ReceiptRequest ==
    ASSUME NEW p, NEW g \in Receipts, p.op = "receiveGoods", p.row = g, p.at \in ReceiptSteps, p.arg \in UnitCosts,
           Placed(OrderOf[g]), p.seen \in ReceiptSeen, p.at # "create" => ~In(g, {"ABSENT"}),
           p.seen.commitment \in Commitments, ~In(p.seen.commitment, {"ABSENT"}),
           p.at = "released" => p.seen.last \in Nat,
           p.at = "write" => p.seen.status \in {"APPROVED", "PARTIALLY_RECEIVED", "FULLY_RECEIVED"}
    PROVE  OrderRequest(p)
BY DEF OrderRequest

LEMMA ReceiptStep ==
    ASSUME OrdersInv, NEW c \in Calls, NEW q, NEW p \in OrdersCall, q = call[c], q # Idle,
           q.op = "receiveGoods", p.op \in {"none", "receiveGoods"},
           call' = [call EXCEPT ![c] = p], UNCHANGED tidy, RowsFit,
           Grows /\ RowsInv' => OrderRequest(p)',
           \A i \in Invoices : db'[i].entries = db[i].entries,
           \A o \in Orders : db'[o].invoiced = db[o].invoiced,
           Grows /\ RowsInv' /\ OrderRead(q) /\ OrderTurn(q) => OrderRead(p)' /\ OrderTurn(p)'
    PROVE  OrdersInv'
<1>1. RowsInv /\ RowsInv' /\ Grows /\ OrderRequest(q)
  BY RowsGrow, RowsStand DEF OrdersInv
<1>2. OrderRequest(p)'
  BY <1>1
<1>3. MatchesKept(q, p)
  <2>1. \A x \in Orders : Counts(p, x) = 0 /\ Counts(q, x) = 0
    BY DEF Counts
  <2>2. \A x \in Orders : Counts(p, x) <= Counts(q, x)
    BY <2>1
  <2> QED BY <1>1, <1>2, <2>2, NoMatch
<1>4. OrderRead(q) /\ OrderTurn(q) => OrderRead(p)' /\ OrderTurn(p)'
  BY <1>1
<1>5. tidy' \in BOOLEAN /\ (tidy' => tidy /\ (q = Idle => Alone))
  BY DEF OrdersInv
<1> QED BY <1>2, <1>3, <1>4, <1>5, OrderStep

\* What a receipt does not disturb of others, and what it keeps between two steps.
LEMMA ReceiptIsSame ==
    ASSUME NEW q, NEW p, NEW g \in Receipts, q.op = "receiveGoods", p.op \in {"none", "receiveGoods"},
           q.row = g, p.op = "receiveGoods" => p.row = g
    PROVE  /\ \A x \in Orders \ {OrderOf[g]} : SameFor(q, p, x)
           /\ \A h \in Receipts \ {g} : /\ Handling(p, h) <=> Handling(q, h)
                                        /\ Unposted(p, h) <=> Unposted(q, h)
           /\ \A k \in Commitments, x \in Orders : ~Linking(p, k, x) /\ ~Linking(q, k, x)
           /\ \A l \in Lines \ {LineOf[OrderOf[g]]} : Spares(p, l) = Spares(q, l)
           /\ \A x \in Orders : ~Approving(p, "write", x) /\ ~Approving(q, "write", x)
BY DEF SameFor, Brings, Frees, Receiving, Approving, Handling, Unposted, Linking, Spares

InHand == {"stock", "stocked", "release", "released"}

LEMMA ReceiptHeld ==
    ASSUME NEW q, NEW p, NEW g \in Receipts, q.op = "receiveGoods", p.op = "receiveGoods",
           q.row = g, p.row = g,
           \/ q.at \in InHand /\ p.at \in InHand
           \/ q.at \in {"refresh", "write"} /\ p.at \in {"refresh", "write"}
    PROVE  SameWork(q, p)
BY DEF SameWork, SameFor, Brings, Frees, Receiving, Approving, Handling, Unposted, Linking, Spares,
       InHand, Late

LEMMA ReceiptBegins ==
    ASSUME OrdersInv, NEW c \in Calls, NEW g \in Receipts, NEW cost \in UnitCosts,
           In(g, {"ABSENT"}), MayReceive(g),
           Enter(c, "receiveGoods", "create", g, cost,
                 [received |-> db[OrderOf[g]].received, commitment |-> db[OrderOf[g]].commitment,
                  last |-> 0, status |-> None])
    PROVE  OrdersInv'
<1>1. PICK o \in Orders : o = OrderOf[g]
  BY ProcurementAssumption
<1>2. In(o, {"APPROVED", "PARTIALLY_RECEIVED"}) /\ Delivered[g] <= Ordered[o] - db[o].received
  BY <1>1 DEF MayReceive
<1>3. /\ Placed(o) /\ db[o] \in OrderRow /\ db[o].commitment \in Commitments
      /\ ~In(db[o].commitment, {"ABSENT"}) /\ Ordered[o] \in Nat /\ Delivered[g] \in Nat
      /\ db[o].received \in Nat
  <2>1. In(o, InForce)
    BY <1>2 DEF In, InForce
  <2>2. Placed(o) /\ db[o].commitment # None
    BY <2>1, OrderRows DEF Placed
  <2> QED BY <2>2, OrderRows, ProcurementAssumption DEF OrderRow
<1>4. PICK s : s = [received |-> db[o].received, commitment |-> db[o].commitment,
                    last |-> 0, status |-> None]
  OBVIOUS
<1>5. s \in ReceiptSeen /\ s.received = db[o].received /\ s.commitment = db[o].commitment
  BY <1>3, <1>4 DEF ReceiptSeen
<1>6. PICK p : p = [op |-> "receiveGoods", at |-> "create", row |-> g, arg |-> cost, seen |-> s]
  OBVIOUS
<1>7. /\ p \in OrdersCall /\ p.op = "receiveGoods" /\ p.at = "create" /\ p.row = g /\ p.arg = cost
      /\ p.seen = s
  BY <1>5, <1>6 DEF OrdersCall, OrderSteps, OrderSeen, ReceiptSteps, Tables
<1>8. OrderRequest(p)
  BY <1>1, <1>3, <1>5, <1>7, ReceiptRequest DEF ReceiptSteps
<1>9. ReceiptRead(p, o)
  BY <1>2, <1>3, <1>5, <1>7 DEF ReceiptRead, Late
<1>10. Quiet(p) /\ OrderRead(p) /\ p.op # "completeMatch"
  BY <1>1, <1>7, <1>9 DEF Quiet, OrderRead, Approving
<1>11. Enter(c, p.op, p.at, p.row, p.arg, p.seen)
  BY <1>1, <1>4, <1>7
<1> QED BY <1>7, <1>8, <1>10, <1>11, OrderBegins

\* The turn after a step that wrote the receipt, and perhaps its budget line.
LEMMA TurnWithReceipt ==
    ASSUME RowsInv, RowsInv', NEW q, NEW p, NEW g \in Receipts, NEW o \in Orders, o = OrderOf[g],
           NEW l \in Lines, l = LineOf[o],
           q.op = "receiveGoods", p.op = "receiveGoods", q.row = g, p.row = g,
           \A x \in Tables \ {g, l} : db'[x] = db[x], OrderTurn(q),
           OrderTaken(p, o)', ReceiptTaken(p, g)', LineTaken(p, l)'
    PROVE  OrderTurn(p)'
<1>1. /\ \A x \in Orders \cup Commitments : db'[x] = db[x]
      /\ \A x \in Receipts \ {g} : db'[x] = db[x]
      /\ \A x \in Lines \ {l} : db'[x] = db[x]
  BY TablesApart DEF Tables
<1>2. /\ \A x \in Orders \ {o} : SameFor(q, p, x)
      /\ \A h \in Receipts \ {g} : /\ Handling(p, h) <=> Handling(q, h)
                                   /\ Unposted(p, h) <=> Unposted(q, h)
      /\ \A k \in Commitments, x \in Orders : Linking(p, k, x) <=> Linking(q, k, x)
      /\ \A m \in Lines \ {l} : Spares(p, m) = Spares(q, m)
  BY ReceiptIsSame
<1>0. /\ \A x \in Orders : x # o => PostedFor(x)' = PostedFor(x) /\ WorthPosted(x)' = WorthPosted(x)
      /\ \A m \in Lines : m # l => WorthRefused(m)' = WorthRefused(m)
  <2>1. PICK G : G = {g}
    OBVIOUS
  <2>2. \A h \in Receipts \ G : db'[h].worth = db[h].worth /\ db'[h].status = db[h].status
    BY <1>1, <2>1
  <2>3. /\ \A x \in Orders : (\A h \in G : OrderOf[h] # x) =>
              PostedFor(x)' = PostedFor(x) /\ WorthPosted(x)' = WorthPosted(x)
        /\ \A m \in Lines : (\A h \in G : LineOf[OrderOf[h]] # m) =>
              RefusedOn(m)' = RefusedOn(m) /\ WorthRefused(m)' = WorthRefused(m)
    BY <2>2, WorthStays DEF RowsInv
  <2> QED BY <2>1, <2>3
<1>3. ASSUME NEW x \in Orders, x # o PROVE OrderTaken(p, x)'
  <2>1. PostedFor(x)' = PostedFor(x) /\ WorthPosted(x)' = WorthPosted(x)
    BY <1>0, <1>3
  <2>2. db[x].commitment \in Commitments \cup {None}
    BY DEF RowsInv, OrdersTyped, OrderRow
  <2>3. OrderTaken(q, x) /\ SameFor(q, p, x) /\ db'[x] = db[x]
        /\ (db[x].commitment # None => db'[db[x].commitment] = db[db[x].commitment])
    BY <1>1, <1>2, <1>3, <2>2 DEF OrderTurn
  <2> QED BY <2>1, <2>3, OrderStays
<1>4. ASSUME NEW h \in Receipts, h # g PROVE ReceiptTaken(p, h)'
  <2>1. \A k \in Commitments : Shrinks(k)
    BY <1>1, StillShrinks
  <2>2. In(h, {"DRAFT"}) /\ Refused(h) => Refused(h)'
    BY <1>1, <1>4, <2>1, RefusalStays
  <2> QED BY <1>1, <1>2, <1>4, <2>2, ReceiptStays DEF OrderTurn
<1>5. ASSUME NEW k \in Commitments PROVE LinkTaken(p, k)'
  BY <1>1, <1>2, LinkStays DEF OrderTurn
<1>6. ASSUME NEW m \in Lines, m # l PROVE LineTaken(p, m)'
  BY <1>0, <1>1, <1>2, <1>6, LineStays DEF OrderTurn
<1> QED BY <1>3, <1>4, <1>5, <1>6 DEF OrderTurn

LEMMA ReceiptCreated ==
    ASSUME OrdersInv, NEW c \in Calls, NEW g \in Receipts, NEW cost \in UnitCosts,
           At(c, "receiveGoods", "create", g, cost),
           IF In(g, {"ABSENT"})
           THEN /\ db' = [db EXCEPT ![g].status = "DRAFT", ![g].worth = Delivered[g] * cost]
                /\ Goto(c, "post")
           ELSE Leave(c) /\ UNCHANGED db
    PROVE  OrdersInv'
<1>1. PICK q : q = call[c]
  OBVIOUS
<1>2. /\ q # Idle /\ q \in OrdersCall /\ OrderRequest(q) /\ RowsInv /\ OrdersTyped
      /\ q.op = "receiveGoods" /\ q.at = "create" /\ q.row = g /\ q.arg = cost
      /\ Placed(OrderOf[g]) /\ q.seen \in ReceiptSeen /\ q.seen.commitment \in Commitments
      /\ ~In(q.seen.commitment, {"ABSENT"})
  BY <1>1, ReceiptAt
<1>6. PICK d \in Nat : d = Delivered[g] * cost /\ d = Valued(q)
  BY <1>1, ReceiptAt
<1>3. PICK o \in Orders : o = OrderOf[g]
  BY ProcurementAssumption
<1>4. CASE ~In(g, {"ABSENT"})
  <2>1. UNCHANGED db /\ call' = [call EXCEPT ![c] = Idle] /\ UNCHANGED tidy
    BY <1>4 DEF Leave
  <2>2. RowsFit
    BY <1>2, <2>1, NoRow
  <2>3. Quiet(call[c]) /\ call[c].op # "completeMatch"
    BY <1>1, <1>2 DEF Quiet
  <2> QED BY <1>1, <1>2, <2>1, <2>2, <2>3, OrderEnds
<1>5. CASE In(g, {"ABSENT"})
  <2>1. /\ Goto(c, "post") /\ "post" \in OrderSteps
        /\ db' = [db EXCEPT ![g].status = "DRAFT", ![g].worth = d]
    BY <1>5, <1>6 DEF OrderSteps, ReceiptSteps
  <2>2. PICK p \in OrdersCall :
           /\ p.op = q.op /\ p.at = "post" /\ p.row = q.row /\ p.arg = q.arg
           /\ p.seen = q.seen /\ call' = [call EXCEPT ![c] = p] /\ UNCHANGED tidy
    BY <1>1, <2>1, RequestGoes
  <2>3. PICK v : v = [db[g] EXCEPT !.status = "DRAFT", !.worth = d]
    OBVIOUS
  <2>4. /\ v \in ReceiptRow /\ v.status = "DRAFT" /\ v.entries = db[g].entries /\ v.worth = d
        /\ db' = [db EXCEPT ![g] = v]
    BY <1>2, <2>1, <2>3 DEF ReceiptRow, OrdersTyped
  <2>5. RowFits(g, v)
    BY <1>2, <2>4, TablesApart DEF RowFits
  <2>6. RowsFit /\ db'[g] = v /\ \A y \in Tables \ {g} : db'[y] = db[y]
    <3>1. g \in Tables
      BY DEF Tables
    <3> QED BY <1>2, <2>4, <2>5, <3>1, OneRow
  <2>7. /\ \A i \in Invoices : db'[i].entries = db[i].entries
        /\ \A x \in Orders : db'[x] = db[x]
        /\ \A x \in Lines \cup Commitments : db'[x] = db[x]
    BY <2>6, TablesApart DEF Tables
  <2>8. ASSUME Grows, RowsInv' PROVE OrderRequest(p)'
    <3>1. Placed(o)' /\ ~In(g, {"ABSENT"})' /\ ~In(q.seen.commitment, {"ABSENT"})'
      BY <1>2, <1>3, <2>4, <2>6, <2>8, PlacedStays DEF Grows, In
    <3> QED BY <1>2, <1>3, <2>2, <3>1 DEF OrderRequest, ReceiptSteps
  <2>9. ASSUME RowsInv', OrderRead(q), OrderTurn(q) PROVE OrderRead(p)' /\ OrderTurn(p)'
    <3>1. ReceiptRead(q, o)
      BY <1>2, <1>3, <2>9 DEF OrderRead
    <3>0. Valued(p)' = d
      BY <1>2, <1>6, <2>2 DEF Valued
    <3>2. ReceiptRead(p, o)'
      BY <1>2, <2>2, <2>4, <2>6, <2>7, <3>0, <3>1 DEF ReceiptRead, In, Late
    <3>3. OrderRead(p)'
      BY <1>2, <1>3, <2>2, <3>2 DEF OrderRead, Approving
    <3>4. SameFor(q, p, o)
      BY <1>2, <2>2 DEF SameFor, Brings, Frees, Receiving, Late, Approving
    <3>5. PICK l \in Lines : l = LineOf[o]
      BY ProcurementAssumption
    <3>11. \A h \in Receipts \ {g} : db'[h] = db[h]
      BY <2>6, TablesApart DEF Tables
    <3>12. PostedFor(o)' = PostedFor(o) /\ PostedFor(o) \subseteq Receipts \ {g}
      BY <1>5, <2>4, <2>6, <3>11 DEF PostedFor, In
    <3>13. \A h \in Receipts \ {g} : Worth'[h] = Worth[h]
      BY <3>11 DEF Worth
    <3>14. WorthPosted(o)' = WorthPosted(o)
      <4>1. SumFunctionOnSet(Worth, PostedFor(o)) = SumFunctionOnSet(Worth', PostedFor(o))
        BY <1>2, <3>12, <3>13, WorthTyped, SumSame
      <4> QED BY <3>12, <4>1 DEF WorthPosted
    <3>6. OrderTaken(p, o)'
      <4>1. OrderTaken(q, o) /\ SameFor(q, p, o) /\ db'[o] = db[o]
        BY <2>7, <2>9, <3>4 DEF OrderTurn
      <4>2. db[o].commitment # None => db'[db[o].commitment] = db[db[o].commitment]
        BY <2>7, OrderRows
      <4> QED BY <3>12, <3>14, <4>1, <4>2, OrderStays
    <3>7. ReceiptTaken(p, g)'
      <4>1. ~Unposted(q, g) /\ Unposted(p, g)' /\ Handling(p, g)'
        BY <1>2, <2>2 DEF Unposted, Handling
      <4>2. db[g].entries = 0
        BY <1>5, <2>9 DEF OrderTurn, ReceiptTaken
      <4> QED BY <2>4, <2>6, <4>1, <4>2 DEF ReceiptTaken, In
    <3>9. LineTaken(p, l)'
      <4>1. CommittedOf(l)' = CommittedOf(l) /\ CommittedOf(l) \in Int
        BY <1>2, <2>7, CommittedStays, CommittedTyped
      <4>2. Spares(q, l) = 0 /\ Spares(p, l)' = d
        BY <1>2, <1>3, <2>2, <3>0, <3>5 DEF Spares
      <4>3. RefusedOn(l)' = RefusedOn(l) \cup {g} /\ g \notin RefusedOn(l) /\ RefusedOn(l) \subseteq Receipts \ {g}
        BY <1>3, <1>5, <2>4, <2>6, <3>5, <3>11 DEF RefusedOn, In
      <4>4. Numeric(Worth, RefusedOn(l)) /\ WorthRefused(l) \in Int
        BY <1>2, WorthTyped
      <4>5. /\ SumFunctionOnSet(Worth', RefusedOn(l)) = WorthRefused(l)
            /\ Numeric(Worth', RefusedOn(l)) /\ Worth'[g] = d
        <5>1. SumFunctionOnSet(Worth, RefusedOn(l)) = SumFunctionOnSet(Worth', RefusedOn(l))
          BY <3>13, <4>3, <4>4, SumSame
        <5>2. Numeric(Worth', RefusedOn(l))
          BY <3>13, <4>3, <4>4 DEF Numeric
        <5> QED BY <2>4, <2>6, <5>1, <5>2 DEF Worth, WorthRefused
      <4>6. WorthRefused(l)' = WorthRefused(l) + d
        <5>1. SumFunctionOnSet(Worth', RefusedOn(l) \cup {g}) = SumFunctionOnSet(Worth', RefusedOn(l)) + Worth'[g]
          BY <4>3, <4>5, SumAdds
        <5> QED BY <4>3, <4>5, <5>1 DEF WorthRefused
      <4>7. db[l].actual + CommittedOf(l) + 0 <= db[l].revised + WorthRefused(l)
        BY <2>9, <4>2 DEF OrderTurn, LineTaken
      <4>8. db'[l] = db[l] /\ db[l].actual \in Nat /\ db[l].revised \in Int
        BY <1>2, <2>7 DEF OrdersTyped, LineRow
      <4>9. db'[l].actual + CommittedOf(l)' + d <= db'[l].revised + WorthRefused(l)'
        BY <4>1, <4>4, <4>6, <4>7, <4>8
      <4> QED BY <4>2, <4>9 DEF LineTaken
    <3>10. OrderTurn(p)'
      <4>1. \A x \in Tables \ {g, l} : db'[x] = db[x]
        BY <2>6
      <4> QED BY <1>2, <1>3, <2>2, <2>9, <3>5, <3>6, <3>7, <3>9, <4>1, TurnWithReceipt
    <3> QED BY <3>3, <3>10
  <2>10. /\ \A x \in Orders : db'[x].invoiced = db[x].invoiced
         /\ Grows /\ RowsInv' => OrderRequest(p)'
         /\ Grows /\ RowsInv' /\ OrderRead(q) /\ OrderTurn(q) => OrderRead(p)' /\ OrderTurn(p)'
         /\ p.op = "receiveGoods"
    BY <1>2, <2>2, <2>7, <2>8, <2>9
  <2> QED BY ZenonT(40), <1>1, <1>2, <2>2, <2>6, <2>7, <2>10, ReceiptStep
<1> QED BY <1>4, <1>5


LEMMA ReceiptPosted ==
    ASSUME OrdersInv, NEW c \in Calls, NEW g \in Receipts, NEW cost \in UnitCosts,
           At(c, "receiveGoods", "post", g, cost), db[g].worth > 0,
           db' = [db EXCEPT ![g].entries = @ + 1, ![LineOf[OrderOf[g]]].actual = @ + db[g].worth],
           Goto(c, "stock")
    PROVE  OrdersInv'
<1>1. PICK q : q = call[c]
  OBVIOUS
<1>2. /\ q # Idle /\ q \in OrdersCall /\ OrderRequest(q) /\ RowsInv /\ OrdersTyped
      /\ q.op = "receiveGoods" /\ q.at = "post" /\ q.row = g /\ q.arg = cost
      /\ Placed(OrderOf[g]) /\ q.seen \in ReceiptSeen /\ q.seen.commitment \in Commitments
      /\ ~In(q.seen.commitment, {"ABSENT"}) /\ ~In(g, {"ABSENT"}) /\ Delivered[g] \in Nat
  BY <1>1, ReceiptAt
<1>15. PICK d \in Nat : d = db[g].worth
  BY <1>2 DEF OrdersTyped, ReceiptRow
<1>3. PICK o \in Orders : o = OrderOf[g]
  BY ProcurementAssumption
<1>4. PICK l \in Lines : l = LineOf[o]
  BY ProcurementAssumption
<1>5. "stock" \in OrderSteps
  BY DEF OrderSteps, ReceiptSteps
<1>6. PICK p \in OrdersCall :
         /\ p.op = q.op /\ p.at = "stock" /\ p.row = q.row /\ p.arg = q.arg
         /\ p.seen = q.seen /\ call' = [call EXCEPT ![c] = p] /\ UNCHANGED tidy
  BY <1>1, <1>5, RequestGoes
<1>7. g # l /\ g \in Tables /\ l \in Tables /\ db[g] \in ReceiptRow /\ db[l] \in LineRow
  BY <1>2, TablesApart DEF Tables, OrdersTyped
<1>8. /\ DOMAIN db' = Tables /\ db' = [x \in Tables |-> db'[x]]
      /\ db'[g] = [db[g] EXCEPT !.entries = @ + 1] /\ db'[l] = [db[l] EXCEPT !.actual = @ + d]
      /\ \A y \in Tables \ {g, l} : db'[y] = db[y]
  BY <1>2, <1>3, <1>4, <1>7, <1>15 DEF OrdersTyped
<1>9. /\ db'[g] \in ReceiptRow /\ db'[g].status = db[g].status /\ db'[g].worth = db[g].worth
      /\ db'[g].entries = db[g].entries + 1
      /\ db'[l] \in LineRow /\ db'[l].revised = db[l].revised /\ db'[l].actual = db[l].actual + d
  BY <1>2, <1>7, <1>8 DEF ReceiptRow, LineRow
<1>10. RowsFit
  <2>1. RowFits(g, db'[g])
    BY ZenonT(40), <1>2, <1>9, TablesApart DEF RowFits, In
  <2>2. RowFits(l, db'[l])
    BY ZenonT(40), <1>9, TablesApart DEF RowFits
  <2> QED BY ZenonT(40), <1>8, <2>1, <2>2 DEF RowsFit
<1>11. /\ \A i \in Invoices : db'[i].entries = db[i].entries
       /\ \A x \in Orders : db'[x] = db[x]
       /\ \A x \in Commitments : db'[x] = db[x]
  <2>1. \A x \in Orders \cup Commitments \cup Invoices : x \notin {g, l} /\ x \in Tables
    BY TablesApart DEF Tables
  <2> QED BY ZenonT(40), <1>8, <2>1
<1>12. ASSUME Grows, RowsInv' PROVE OrderRequest(p)'
  <2>1. OrderRequest(p)
    BY <1>2, <1>6, ReceiptRequest DEF ReceiptSteps
  <2> QED BY <1>2, <1>12, <2>1, RequestStands
<1>13. ASSUME RowsInv', OrderRead(q), OrderTurn(q) PROVE OrderRead(p)' /\ OrderTurn(p)'
  <2>1. ReceiptRead(q, o)
    BY ZenonT(40), <1>2, <1>3, <1>13 DEF OrderRead
  <2>0. Valued(p)' = d /\ Valued(q) = d /\ In(g, {"DRAFT"})
    BY <1>2, <1>6, <1>15, <2>1 DEF Valued, ReceiptRead
  <2>2. ReceiptRead(p, o)'
    BY ZenonT(40), <1>2, <1>6, <1>9, <1>11, <1>15, <2>0, <2>1 DEF ReceiptRead, In, Late
  <2>3. OrderRead(p)'
    BY <1>2, <1>3, <1>6, <2>2 DEF OrderRead, Approving
  <2>4. SameFor(q, p, o)
    BY <1>2, <1>6 DEF SameFor, Brings, Frees, Receiving, Late, Approving
  <2>5. /\ PostedFor(o)' = PostedFor(o) /\ WorthPosted(o)' = WorthPosted(o)
        /\ WorthRefused(l)' = WorthRefused(l)
    <3>1. ASSUME NEW h \in Receipts PROVE db'[h].worth = db[h].worth /\ db'[h].status = db[h].status
      <4>1. h # l /\ h \in Tables
        BY TablesApart DEF Tables
      <4> QED BY ZenonT(40), <1>8, <1>9, <4>1
    <3> QED BY <1>2, <3>1, AllWorthStays
  <2>6. OrderTaken(p, o)'
    <3>1. OrderTaken(q, o) /\ db'[o] = db[o]
      BY <1>11, <1>13 DEF OrderTurn
    <3>2. db[o].commitment # None => db'[db[o].commitment] = db[db[o].commitment]
      BY <1>11, OrderRows
    <3> QED BY <2>4, <2>5, <3>1, <3>2, OrderStays
  <2>7. ReceiptTaken(p, g)'
    <3>1. Unposted(q, g) /\ ~Unposted(p, g)' /\ Handling(p, g)'
      BY <1>2, <1>6 DEF Unposted, Handling
    <3>2. db[g].entries = 0
      BY <1>13, <3>1 DEF OrderTurn, ReceiptTaken
    <3>3. ~In(g, {"ABSENT"})' /\ db'[g].worth # 0
      BY <1>2, <1>9, <1>15 DEF In
    <3> QED BY <1>9, <3>1, <3>2, <3>3 DEF ReceiptTaken
  <2>8. LineTaken(p, l)'
    <3>1. CommittedOf(l)' = CommittedOf(l)
      BY <1>11, CommittedStays
    <3>2. CommittedOf(l) \in Int /\ WorthRefused(l) \in Int
      BY <1>2, CommittedTyped, WorthTyped
    <3>3. Spares(q, l) = d /\ Spares(p, l)' = 0
      BY <1>2, <1>3, <1>4, <1>6, <2>0 DEF Spares
    <3>4. db[l].actual + CommittedOf(l) + d <= db[l].revised + WorthRefused(l)
      BY <1>13, <3>3 DEF OrderTurn, LineTaken
    <3>5. db[l].actual \in Nat /\ db[l].revised \in Int
      BY <1>7 DEF LineRow
    <3>6. db'[l].actual + CommittedOf(l)' + 0 <= db'[l].revised + WorthRefused(l)'
      BY SMTT(30), <1>9, <2>5, <3>1, <3>2, <3>4, <3>5
    <3> QED BY <3>3, <3>6 DEF LineTaken
  <2>9. OrderTurn(p)'
    BY ZenonT(40), <1>2, <1>3, <1>4, <1>6, <1>8, <1>13, <2>6, <2>7, <2>8, TurnWithReceipt
  <2> QED BY <2>3, <2>9
<1>14. /\ \A x \in Orders : db'[x].invoiced = db[x].invoiced
       /\ Grows /\ RowsInv' => OrderRequest(p)'
       /\ Grows /\ RowsInv' /\ OrderRead(q) /\ OrderTurn(q) => OrderRead(p)' /\ OrderTurn(p)'
       /\ p.op = "receiveGoods"
  BY <1>2, <1>6, <1>11, <1>12, <1>13
<1> QED BY ZenonT(40), <1>1, <1>2, <1>6, <1>10, <1>11, <1>14, ReceiptStep

\* A step of a receipt that reads only, and goes on as p.
LEMMA ReceiptReads ==
    ASSUME OrdersInv, NEW c \in Calls, NEW q, NEW p \in OrdersCall, q = call[c], q # Idle,
           call' = [call EXCEPT ![c] = p], UNCHANGED <<db, tidy>>, OrderRequest(p), SameWork(q, p),
           q.op = "receiveGoods", p.op = "receiveGoods", p.row = q.row,
           ReceiptRead(q, OrderOf[q.row]) => ReceiptRead(p, OrderOf[q.row])
    PROVE  OrdersInv'
<1>1. OrderRead(q) => OrderRead(p)
  BY DEF OrderRead, Approving
<1>2. \A x \in Orders : Counts(p, x) = 0 /\ Counts(q, x) = 0
  BY DEF Counts
<1>3. \A x \in Orders : Counts(p, x) <= Counts(q, x)
  BY <1>2
<1>4. tidy' \in BOOLEAN /\ (tidy' => tidy /\ (q = Idle => Alone))
  BY DEF OrdersInv
<1> QED BY <1>1, <1>3, <1>4, OrderReads

LEMMA ReceiptStocks ==
    ASSUME OrdersInv, NEW c \in Calls, NEW g \in Receipts, NEW cost \in UnitCosts,
           At(c, "receiveGoods", "stock", g, cost),
           Keep(c, "stocked", [call[c].seen EXCEPT !.last = db[Shelf].onHand]), UNCHANGED db
    PROVE  OrdersInv'
<1>1. PICK q : q = call[c]
  OBVIOUS
<1>2. /\ q # Idle /\ q \in OrdersCall /\ OrderRequest(q) /\ RowsInv /\ OrdersTyped
      /\ q.op = "receiveGoods" /\ q.at = "stock" /\ q.row = g /\ q.arg = cost
      /\ Placed(OrderOf[g]) /\ q.seen \in ReceiptSeen /\ q.seen.commitment \in Commitments
      /\ ~In(q.seen.commitment, {"ABSENT"}) /\ ~In(g, {"ABSENT"})
  BY <1>1, ReceiptAt
<1>3. PICK n \in Int : n = db[Shelf].onHand
  BY <1>2, ProcurementAssumption DEF OrdersTyped, BalanceRow
<1>4. PICK s : s = [q.seen EXCEPT !.last = n]
  OBVIOUS
<1>5. /\ s \in ReceiptSeen /\ s.received = q.seen.received /\ s.commitment = q.seen.commitment
  BY <1>2, <1>4 DEF ReceiptSeen
<1>6. Keep(c, "stocked", s) /\ "stocked" \in OrderSteps /\ s \in OrderSeen
  BY <1>1, <1>3, <1>4, <1>5 DEF OrderSteps, ReceiptSteps, OrderSeen
<1>7. PICK p \in OrdersCall :
         /\ p.op = q.op /\ p.at = "stocked" /\ p.row = q.row /\ p.arg = q.arg
         /\ p.seen = s /\ call' = [call EXCEPT ![c] = p] /\ UNCHANGED tidy
  BY <1>1, <1>6, CallAdvances
<1>8. OrderRequest(p)
  BY <1>2, <1>5, <1>7, ReceiptRequest DEF ReceiptSteps
<1>9. SameWork(q, p)
  BY <1>2, <1>7, ReceiptHeld DEF InHand
<1>10. ReceiptRead(q, OrderOf[q.row]) => ReceiptRead(p, OrderOf[q.row])
  BY <1>2, <1>5, <1>7 DEF ReceiptRead, Late, Valued
<1> QED BY <1>1, <1>2, <1>7, <1>8, <1>9, <1>10, ReceiptReads

LEMMA ReceiptStocked ==
    ASSUME OrdersInv, NEW c \in Calls, NEW g \in Receipts, NEW cost \in UnitCosts,
           At(c, "receiveGoods", "stocked", g, cost),
           db' = [db EXCEPT ![Shelf].onHand = call[c].seen.last + Delivered[g],
                            ![Shelf].moved = @ + Delivered[g]],
           Goto(c, "release")
    PROVE  OrdersInv'
<1>1. PICK q : q = call[c]
  OBVIOUS
<1>2. /\ q # Idle /\ q \in OrdersCall /\ OrderRequest(q) /\ RowsInv /\ OrdersTyped
      /\ q.op = "receiveGoods" /\ q.at = "stocked" /\ q.row = g /\ q.arg = cost
      /\ Placed(OrderOf[g]) /\ q.seen \in ReceiptSeen /\ q.seen.commitment \in Commitments
      /\ ~In(q.seen.commitment, {"ABSENT"}) /\ ~In(g, {"ABSENT"}) /\ Delivered[g] \in Nat
  BY <1>1, ReceiptAt
<1>3. PICK w \in Warehouses : w = Shelf
  BY ProcurementAssumption
<1>4. PICK m \in Int, n \in Int : m = q.seen.last + Delivered[g] /\ n = db[w].moved + Delivered[g]
  <2>1. db[w] \in BalanceRow
    BY <1>2 DEF OrdersTyped
  <2>2. q.seen.last \in Int /\ db[w].moved \in Int
    BY <1>2, <2>1 DEF ReceiptSeen, BalanceRow
  <2>3. q.seen.last + Delivered[g] \in Int /\ db[w].moved + Delivered[g] \in Int
    BY <1>2, <2>2
  <2> QED BY <2>3
<1>5. PICK v : v = [db[w] EXCEPT !.onHand = m, !.moved = n]
  OBVIOUS
<1>6. v \in BalanceRow /\ db' = [db EXCEPT ![w] = v]
  BY <1>1, <1>2, <1>3, <1>4, <1>5 DEF BalanceRow, OrdersTyped
<1>7. RowFits(w, v)
  BY <1>6, TablesApart DEF RowFits
<1>8. /\ RowsFit
      /\ \A y \in Orders \cup Receipts \cup Commitments \cup Lines : db'[y] = db[y]
      /\ \A i \in Invoices : db'[i].entries = db[i].entries
  BY <1>6, <1>7, TablesApart, RowAside
<1>9. "release" \in OrderSteps
  BY DEF OrderSteps, ReceiptSteps
<1>10. PICK p \in OrdersCall :
          /\ p.op = q.op /\ p.at = "release" /\ p.row = q.row /\ p.arg = q.arg
          /\ p.seen = q.seen /\ call' = [call EXCEPT ![c] = p] /\ UNCHANGED tidy
  BY <1>1, <1>9, RequestGoes
<1>11. ASSUME Grows, RowsInv' PROVE OrderRequest(p)'
  <2>1. OrderRequest(p)
    BY <1>2, <1>10, ReceiptRequest DEF ReceiptSteps
  <2> QED BY <1>2, <1>11, <2>1, RequestStands
<1>12. ASSUME RowsInv', OrderRead(q), OrderTurn(q) PROVE OrderRead(p)' /\ OrderTurn(p)'
  <2>1. SameWork(q, p)
    BY <1>2, <1>10, ReceiptHeld DEF InHand
  <2>2. OrderTurn(p)'
    BY <1>2, <1>8, <1>12, <2>1, TurnStays
  <2>3. PICK o \in Orders : o = OrderOf[g]
    BY ProcurementAssumption
  <2>4. ReceiptRead(q, o)
    BY <1>2, <1>12, <2>3 DEF OrderRead
  <2>5. ReceiptRead(p, o)'
    <3>1. Valued(p)' = Valued(q)
      BY <1>2, <1>10 DEF Valued
    <3> QED BY <1>2, <1>8, <1>10, <2>4, <3>1 DEF ReceiptRead, In, Late
  <2>6. OrderRead(p)'
    BY <1>2, <1>10, <2>3, <2>5 DEF OrderRead, Approving
  <2> QED BY <2>2, <2>6
<1>13. /\ \A x \in Orders : db'[x].invoiced = db[x].invoiced
       /\ Grows /\ RowsInv' => OrderRequest(p)'
       /\ Grows /\ RowsInv' /\ OrderRead(q) /\ OrderTurn(q) => OrderRead(p)' /\ OrderTurn(p)'
       /\ p.op = "receiveGoods"
  BY <1>2, <1>8, <1>10, <1>11, <1>12
<1> QED BY <1>1, <1>2, <1>8, <1>10, <1>13, ReceiptStep

\* A receipt that was posted and stocked stays behind when its release is refused.
LEMMA TurnWithRefusal ==
    ASSUME RowsInv, NEW q, NEW p, NEW g \in Receipts, NEW o \in Orders, o = OrderOf[g],
           q.op = "receiveGoods", q.row = g, p.op = "none", ReceiptRead(q, o), OrderTurn(q),
           \/ q.at = "release" /\ ~MayRelease(q.seen.commitment, db[g].worth)
           \/ q.at = "post" /\ db[g].worth = 0
    PROVE  OrderTurn(p)
<1>1. db[g].worth = 0 \/ Refused(g)
  BY DEF ReceiptRead, Late, Refused
<1>2. ASSUME NEW x \in Orders PROVE OrderTaken(p, x)
  <2>1. SameFor(q, p, x)
    BY DEF SameFor, Brings, Frees, Receiving, Late, Approving
  <2>2. OrderTaken(q, x)
    BY DEF OrderTurn
  <2> QED BY <2>1, <2>2 DEF OrderTaken, ReservationTaken, SameFor
<1>3. ASSUME NEW h \in Receipts PROVE ReceiptTaken(p, h)
  <2>1. ~Unposted(p, h) /\ (Unposted(q, h) => db[h].worth = 0) /\ (Handling(q, h) => h = g)
    BY DEF Unposted, Handling
  <2> QED BY <1>1, <2>1 DEF OrderTurn, ReceiptTaken
<1>4. ASSUME NEW k \in Commitments PROVE LinkTaken(p, k)
  BY DEF OrderTurn, LinkTaken, Linking, Approving
<1>5. ASSUME NEW l \in Lines PROVE LineTaken(p, l)
  <2>1. q.at = "post" => Valued(q) = 0
    BY DEF ReceiptRead, Late
  <2>2. Spares(q, l) = 0 /\ Spares(p, l) = 0
    BY <2>1 DEF Spares
  <2> QED BY <2>2 DEF OrderTurn, LineTaken
<1> QED BY <1>2, <1>3, <1>4, <1>5 DEF OrderTurn

LEMMA ReceiptEndsEarly ==
    ASSUME OrdersInv, NEW c \in Calls, NEW g \in Receipts, NEW cost \in UnitCosts,
           At(c, "receiveGoods", call[c].at, g, cost), Leave(c), UNCHANGED db,
           \/ call[c].at = "release" /\ ~MayRelease(call[c].seen.commitment, db[g].worth)
           \/ call[c].at = "post" /\ db[g].worth = 0
    PROVE  OrdersInv'
<1>1. PICK q : q = call[c]
  OBVIOUS
<1>2. /\ q # Idle /\ q \in OrdersCall /\ OrderRequest(q) /\ RowsInv /\ OrdersTyped
      /\ q.op = "receiveGoods" /\ q.row = g /\ q.arg = cost
  BY <1>1, ReceiptAt
<1>3. PICK p \in OrdersCall : p = Idle
  BY DEF OrdersCall, OrderSteps, OrderSeen, Idle
<1>4. p.op = "none" /\ OrderRequest(p)' /\ call' = [call EXCEPT ![c] = p] /\ UNCHANGED tidy
  BY <1>1, <1>3 DEF Idle, OrderRequest, Leave
<1>5. RowsFit
  BY <1>2, NoRow
<1>6. ASSUME OrderRead(q), OrderTurn(q) PROVE OrderRead(p)' /\ OrderTurn(p)'
  <2>1. PICK o \in Orders : o = OrderOf[g]
    BY ProcurementAssumption
  <2>2. ReceiptRead(q, o)
    BY <1>2, <1>6, <2>1 DEF OrderRead
  <2>3. OrderTurn(p)
    BY <1>1, <1>2, <1>4, <1>6, <2>1, <2>2, TurnWithRefusal
  <2>4. SameWork(p, p) /\ RowsInv'
    BY <1>2, <1>5, RowsStand DEF SameWork, SameFor
  <2>5. OrderTurn(p)'
    BY <1>2, <2>3, <2>4, TurnStays
  <2> QED BY <1>4, <2>5 DEF OrderRead, Approving
<1>7. /\ \A i \in Invoices : db'[i].entries = db[i].entries
      /\ \A x \in Orders : db'[x].invoiced = db[x].invoiced
  OBVIOUS
<1> QED BY <1>1, <1>2, <1>4, <1>5, <1>6, <1>7, ReceiptStep

LEMMA ReceiptReleases ==
    ASSUME OrdersInv, NEW c \in Calls, NEW g \in Receipts, NEW cost \in UnitCosts,
           At(c, "receiveGoods", "release", g, cost),
           IF MayRelease(call[c].seen.commitment, db[g].worth)
           THEN Keep(c, "released", [call[c].seen EXCEPT !.last = db[call[c].seen.commitment].released])
           ELSE Leave(c),
           UNCHANGED db
    PROVE  OrdersInv'
<1>1. PICK q : q = call[c]
  OBVIOUS
<1>2. /\ q # Idle /\ q \in OrdersCall /\ OrderRequest(q) /\ RowsInv /\ OrdersTyped
      /\ q.op = "receiveGoods" /\ q.at = "release" /\ q.row = g /\ q.arg = cost
      /\ Placed(OrderOf[g]) /\ q.seen \in ReceiptSeen /\ q.seen.commitment \in Commitments
      /\ ~In(q.seen.commitment, {"ABSENT"}) /\ ~In(g, {"ABSENT"})
  BY <1>1, ReceiptAt
<1>3. CASE MayRelease(q.seen.commitment, db[g].worth)
  <2>1. PICK n \in Nat : n = db[q.seen.commitment].released
    BY <1>2 DEF OrdersTyped, ReservationRow
  <2>2. PICK s : s = [q.seen EXCEPT !.last = n]
    OBVIOUS
  <2>3. /\ s \in ReceiptSeen /\ s.received = q.seen.received /\ s.commitment = q.seen.commitment
        /\ s.last = n
    BY <1>2, <2>2 DEF ReceiptSeen
  <2>4. Keep(c, "released", s) /\ "released" \in OrderSteps /\ s \in OrderSeen
    BY <1>1, <1>3, <2>1, <2>2, <2>3 DEF OrderSteps, ReceiptSteps, OrderSeen
  <2>5. PICK p \in OrdersCall :
           /\ p.op = q.op /\ p.at = "released" /\ p.row = q.row /\ p.arg = q.arg
           /\ p.seen = s /\ call' = [call EXCEPT ![c] = p] /\ UNCHANGED tidy
    BY <1>1, <2>4, CallAdvances
  <2>6. OrderRequest(p)
    BY <1>2, <2>3, <2>5, ReceiptRequest DEF ReceiptSteps
  <2>7. SameWork(q, p)
    BY <1>2, <2>5, ReceiptHeld DEF InHand
  <2>8. ReceiptRead(q, OrderOf[q.row]) => ReceiptRead(p, OrderOf[q.row])
    <3> SUFFICES ASSUME ReceiptRead(q, OrderOf[q.row]) PROVE ReceiptRead(p, OrderOf[q.row])
      OBVIOUS
    <3>1. Valued(p) = Valued(q) /\ db[g].worth = Valued(q)
      BY <1>2, <2>5 DEF ReceiptRead, Valued
    <3>2. In(q.seen.commitment, Open) /\ n + Valued(q) <= db[q.seen.commitment].amount
      BY <1>3, <2>1, <3>1 DEF MayRelease
    <3> QED BY <1>2, <2>1, <2>3, <2>5, <3>1, <3>2 DEF ReceiptRead, Late
  <2> QED BY <1>1, <1>2, <2>5, <2>6, <2>7, <2>8, ReceiptReads
<1>4. CASE ~MayRelease(q.seen.commitment, db[g].worth)
  BY <1>1, <1>2, <1>4, ReceiptEndsEarly
<1> QED BY <1>3, <1>4


\* What is committed of a line when a part, or the rest, of a commitment is released.
LEMMA CommitmentReleased ==
    ASSUME OrdersTyped, OrdersTyped', NEW k \in Commitments, In(k, Open), NEW d \in Nat,
           db'[k].line = db[k].line, db'[k].amount = db[k].amount,
           db'[k].released = db[k].released + d, db[k].released + d <= db[k].amount,
           \A j \in Commitments \ {k} : db'[j] = db[j], NEW l \in Lines
    PROVE  /\ CommittedOf(l) \in Int /\ CommittedOf(l)' \in Int
           /\ db[k].line = l => CommittedOf(l)' <= CommittedOf(l) - d
           /\ db[k].line # l => CommittedOf(l)' = CommittedOf(l)
<1> DEFINE S == {j \in Commitments : In(j, Open) /\ db[j].line = l}
           T == {j \in Commitments : In(j, Open)' /\ db'[j].line = l}
           f == [j \in Commitments |-> db[j].amount - db[j].released]
           g == [j \in Commitments |-> db'[j].amount - db'[j].released]
<1>1. CommittedOf(l) = SumFunctionOnSet(f, S) /\ CommittedOf(l)' = SumFunctionOnSet(g, T)
  BY DEF CommittedOf
<1>2. S \subseteq Commitments /\ IsFiniteSet(S) /\ (k \in S <=> db[k].line = l)
  BY ProcurementAssumption, FS_Subset
<1>3. (\A j \in Commitments : f[j] \in Int) /\ (\A j \in Commitments : g[j] \in Int)
      /\ g[k] = f[k] - d /\ f[k] >= d
  <2>1. \A j \in Commitments : /\ db[j].amount \in Nat /\ db[j].released \in Nat
                               /\ db'[j].amount \in Nat /\ db'[j].released \in Nat
    BY DEF OrdersTyped, ReservationRow
  <2> QED BY <2>1
<1>4. \A j \in Commitments \ {k} : f[j] = g[j]
  OBVIOUS
<1>5. T = IF db[k].line = l /\ ~In(k, Open)' THEN S \ {k} ELSE S
  BY DEF In
<1> HIDE DEF S, T, f, g
<1>6. Numeric(f, S)
  BY <1>2, <1>3 DEF Numeric
<1>7. SumFunctionOnSet(f, S) \in Int
  BY <1>6, SumTakes
<1>8. CASE db[k].line # l
  <2>1. \A j \in S : f[j] = g[j]
    BY <1>2, <1>4, <1>8
  <2>2. SumFunctionOnSet(g, S) = SumFunctionOnSet(f, S)
    BY <1>6, <2>1, SumSame
  <2> QED BY <1>1, <1>5, <1>7, <1>8, <2>2
<1>9. CASE db[k].line = l /\ In(k, Open)'
  <2>1. k \in S /\ \A j \in S \ {k} : f[j] = g[j]
    BY <1>2, <1>4, <1>9
  <2>2. SumFunctionOnSet(g, S) = SumFunctionOnSet(f, S) - f[k] + g[k]
    BY <1>3, <1>6, <2>1, SumChanges
  <2>3. PICK x \in Int, y \in Int : x = SumFunctionOnSet(f, S) /\ y = f[k]
    BY <1>3, <1>7
  <2>4. x - y + (y - d) \in Int /\ x - y + (y - d) <= x - d
    OBVIOUS
  <2>5. SumFunctionOnSet(g, S) = x - y + (y - d)
    BY <1>3, <2>2, <2>3
  <2> QED BY <1>1, <1>5, <1>9, <2>3, <2>4, <2>5
<1>10. CASE db[k].line = l /\ ~In(k, Open)'
  <2>1. k \in S /\ \A j \in S \ {k} : f[j] = g[j]
    BY <1>2, <1>4, <1>10
  <2>2. SumFunctionOnSet(f, S) = f[k] + SumFunctionOnSet(f, S \ {k})
    BY <1>6, <2>1, SumTakes
  <2>3. Numeric(f, S \ {k})
    BY <1>2, <1>6, FS_Subset DEF Numeric
  <2>4. SumFunctionOnSet(g, S \ {k}) = SumFunctionOnSet(f, S \ {k})
        /\ SumFunctionOnSet(f, S \ {k}) \in Int
    BY <2>1, <2>3, SumSame, SumTakes
  <2>5. PICK x \in Int, y \in Int : x = SumFunctionOnSet(f, S \ {k}) /\ y = f[k]
    BY <1>3, <2>4
  <2>6. x <= y + x - d
    BY <1>3, <2>5
  <2> QED BY <1>1, <1>5, <1>7, <1>10, <2>2, <2>4, <2>5, <2>6
<1> QED BY <1>8, <1>9, <1>10

\* The turn after a receipt released what it is worth.
LEMMA TurnWithRelease ==
    ASSUME RowsInv, RowsInv', NEW q, NEW p, NEW g \in Receipts, NEW o \in Orders, o = OrderOf[g],
           NEW k \in Commitments, k = db[o].commitment, NEW d \in Nat, d = Valued(q),
           q.op = "receiveGoods", q.at = "released", q.row = g,
           p.op = "receiveGoods", p.at = "receive", p.row = g, p.arg = q.arg,
           \A x \in Tables \ {k} : db'[x] = db[x],
           db'[k].line = db[k].line, db'[k].amount = db[k].amount, db'[k].source = db[k].source,
           db'[k].released = db[k].released + d, db[k].released + d <= db[k].amount,
           In(k, Open), db[k].line = LineOf[o], db[k].source = o, OrderTurn(q)
    PROVE  OrderTurn(p)'
<1>0. /\ \A x \in Orders \cup Receipts \cup Lines : db'[x] = db[x]
      /\ \A j \in Commitments \ {k} : db'[j] = db[j]
      /\ Valued(p)' = d
  BY TablesApart DEF Tables, Valued
<1>1. /\ \A x \in Orders : PostedFor(x)' = PostedFor(x) /\ WorthPosted(x)' = WorthPosted(x)
      /\ \A l \in Lines : WorthRefused(l)' = WorthRefused(l)
  BY <1>0, AllWorthStays DEF RowsInv
<1>2. /\ \A x \in Orders \ {o} : SameFor(q, p, x)
      /\ \A x \in Commitments, y \in Orders : Linking(p, x, y) <=> Linking(q, x, y)
      /\ \A m \in Lines \ {LineOf[o]} : Spares(p, m) = Spares(q, m)
      /\ ~Approving(p, "write", o) /\ ~Approving(q, "write", o)
  BY ReceiptIsSame
<1>3. \A h \in Receipts :
             (Handling(p, h) <=> Handling(q, h)) /\ (Unposted(p, h) <=> Unposted(q, h))
  BY DEF Handling, Unposted
<1>4. ASSUME NEW x \in Orders, x # o PROVE OrderTaken(p, x)'
  <2>2. db[x].commitment # None => db[x].commitment \in Commitments /\ db[db[x].commitment].source = x
    BY ZenonT(40) DEF RowsInv, OrdersTyped, OrderRow
  <2>3. db[x].commitment # None => db'[db[x].commitment] = db[db[x].commitment]
    BY <1>0, <1>4, <2>2
  <2>4. OrderTaken(q, x) /\ SameFor(q, p, x) /\ db'[x] = db[x]
    BY <1>0, <1>2, <1>4 DEF OrderTurn
  <2> QED BY <1>1, <2>3, <2>4, OrderStays
<1>5. OrderTaken(p, o)'
  <2>1. PostedFor(o)' = PostedFor(o) /\ WorthPosted(o)' = WorthPosted(o) /\ db'[o] = db[o]
    BY <1>0, <1>1
  <2>2. /\ Brings(q, o) = 0 /\ Brings(p, o)' = 0 /\ Frees(q, o) = 0 /\ Frees(p, o)' = d
        /\ ~Receiving(q, Late, o) /\ ~Approving(p, "write", o)'
    BY <1>0, <1>2 DEF Brings, Frees, Receiving, Late, Approving
  <2>3. OrderTaken(q, o)
    BY DEF OrderTurn
  <2>4. k # None
    BY ProcurementAssumption
  <2>5. db[k].released = WorthPosted(o) + 0 /\ WorthPosted(o) \in Int
    BY <2>2, <2>3, <2>4, WorthTyped DEF OrderTaken, ReservationTaken, RowsInv
  <2>6. ReservationTaken(p, o, k)'
    BY <2>1, <2>2, <2>5 DEF ReservationTaken
  <2>7. /\ db'[o].received = SumFunctionOnSet(Delivered, PostedFor(o)') + Brings(p, o)'
        /\ db'[o].received <= Ordered[o]
        /\ In(o, {"PARTIALLY_RECEIVED"})' => db'[o].received < Ordered[o] \/ Receiving(p, Late, o)'
        /\ db'[o].commitment # None <=> In(o, InForce)' \/ Approving(p, "write", o)'
    BY <1>2, <2>1, <2>2, <2>3 DEF OrderTaken, In
  <2>8. db'[o].commitment # None => ReservationTaken(p, o, db[o].commitment)'
    BY <2>1, <2>6 DEF ReservationTaken
  <2> QED BY <2>7, <2>8 DEF OrderTaken
<1>6. ASSUME NEW h \in Receipts PROVE ReceiptTaken(p, h)'
  <2>1. \A j \in Commitments : Shrinks(j)
    <3>1. db[k].released \in Nat
      BY DEF RowsInv, OrdersTyped, ReservationRow
    <3>2. Shrinks(k)
      BY <3>1 DEF Shrinks
    <3>3. \A j \in Commitments \ {k} : Shrinks(j)
      BY <1>0, StillShrinks
    <3> QED BY <3>2, <3>3
  <2>2. In(h, {"DRAFT"}) /\ Refused(h) => Refused(h)'
    BY <1>0, <2>1, RefusalStays
  <2> QED BY <1>0, <1>3, <2>2, ReceiptStays DEF OrderTurn
<1>7. ASSUME NEW j \in Commitments PROVE LinkTaken(p, j)'
  <2>1. db'[j].source = db[j].source
    BY <1>0
  <2> QED BY <1>0, <1>2, <2>1, LinkStays DEF OrderTurn
<1>8. ASSUME NEW l \in Lines PROVE LineTaken(p, l)'
  <2>1. OrdersTyped /\ OrdersTyped'
    BY DEF RowsInv
  <2>2. /\ CommittedOf(l) \in Int /\ CommittedOf(l)' \in Int
        /\ LineOf[o] = l => CommittedOf(l)' <= CommittedOf(l) - d
        /\ LineOf[o] # l => CommittedOf(l)' = CommittedOf(l)
    BY <1>0, <2>1, CommitmentReleased
  <2>3. Spares(q, l) = 0 /\ Spares(p, l)' = IF LineOf[o] = l THEN d ELSE 0
    BY ZenonT(40), <1>0 DEF Spares
  <2>4. /\ db[l].actual \in Nat /\ db[l].revised \in Int /\ db'[l] = db[l]
        /\ WorthRefused(l)' = WorthRefused(l) /\ WorthRefused(l) \in Int
    BY ZenonT(40), <1>0, <1>1, <2>1, WorthTyped DEF OrdersTyped, LineRow
  <2>5. db[l].actual + CommittedOf(l) + 0 <= db[l].revised + WorthRefused(l)
    BY <2>3 DEF OrderTurn, LineTaken
  <2>6. db[l].actual + CommittedOf(l)' + (IF LineOf[o] = l THEN d ELSE 0)
          <= db[l].revised + WorthRefused(l)'
    BY <2>2, <2>4, <2>5
  <2> QED BY <2>3, <2>4, <2>6 DEF LineTaken
<1> QED BY <1>4, <1>5, <1>6, <1>7, <1>8 DEF OrderTurn

LEMMA ReceiptReleased ==
    ASSUME OrdersInv, NEW c \in Calls, NEW g \in Receipts, NEW cost \in UnitCosts,
           At(c, "receiveGoods", "released", g, cost),
           Release(call[c].seen.commitment, call[c].seen.last + db[g].worth), Goto(c, "receive")
    PROVE  OrdersInv'
<1>1. PICK q : q = call[c]
  OBVIOUS
<1>2. /\ q # Idle /\ q \in OrdersCall /\ OrderRequest(q) /\ RowsInv /\ OrdersTyped
      /\ q.op = "receiveGoods" /\ q.at = "released" /\ q.row = g /\ q.arg = cost
      /\ Placed(OrderOf[g]) /\ q.seen \in ReceiptSeen /\ q.seen.commitment \in Commitments
      /\ ~In(q.seen.commitment, {"ABSENT"}) /\ ~In(g, {"ABSENT"}) /\ q.seen.last \in Nat
  BY <1>1, ReceiptAt
<1>3. PICK k \in Commitments : k = q.seen.commitment
  BY <1>2
<1>4. PICK o \in Orders : o = OrderOf[g]
  BY ProcurementAssumption
<1>5. PICK d \in Nat : d = db[g].worth
  BY <1>2 DEF OrdersTyped, ReceiptRow
<1>6. PICK n \in Nat : n = q.seen.last + d
  BY <1>2
<1>7. "receive" \in OrderSteps
  BY DEF OrderSteps, ReceiptSteps
<1>8. PICK p \in OrdersCall :
         /\ p.op = q.op /\ p.at = "receive" /\ p.row = q.row /\ p.arg = q.arg
         /\ p.seen = q.seen /\ call' = [call EXCEPT ![c] = p] /\ UNCHANGED tidy
  BY <1>1, <1>7, RequestGoes
<1>9. PICK s \in {"RELEASED", "PARTIALLY_RELEASED"} :
         s = IF n >= db[k].amount THEN "RELEASED" ELSE "PARTIALLY_RELEASED"
  OBVIOUS
<1>10. PICK v : v = [db[k] EXCEPT !.released = n, !.status = s]
  OBVIOUS
<1>11. db[k] \in ReservationRow /\ k \in Tables
  BY <1>2 DEF OrdersTyped, Tables
<1>12. /\ v \in ReservationRow /\ v.released = n /\ v.status = s /\ v.line = db[k].line
       /\ v.amount = db[k].amount /\ v.source = db[k].source
  BY ZenonT(40), <1>9, <1>10, <1>11 DEF ReservationRow, CommitmentStatus, Open
<1>13. db' = [db EXCEPT ![k] = v]
  BY ZenonT(40), <1>1, <1>2, <1>3, <1>5, <1>6, <1>9, <1>10, <1>11 DEF Release, OrdersTyped
<1>14. RowFits(k, v)
  <2>1. /\ ~In(k, {"ABSENT"}) /\ db[k].source \in Orders /\ db[k].line = LineOf[db[k].source]
        /\ db[k].amount = Ordered[db[k].source]
    BY <1>2, <1>3 DEF RowsInv
  <2> QED BY <1>9, <1>12, <2>1, TablesApart DEF RowFits, ReservationFits
<1>15. RowsFit /\ db'[k] = v /\ \A y \in Tables \ {k} : db'[y] = db[y]
  BY <1>2, <1>11, <1>13, <1>14, OneRow
<1>16. /\ \A i \in Invoices : db'[i].entries = db[i].entries
       /\ \A x \in Orders : db'[x] = db[x]
       /\ \A x \in Receipts : db'[x] = db[x]
  BY <1>15, TablesApart DEF Tables
<1>17. ASSUME Grows, RowsInv' PROVE OrderRequest(p)'
  <2>1. OrderRequest(p)
    BY <1>2, <1>8, ReceiptRequest DEF ReceiptSteps
  <2> QED BY <1>2, <1>17, <2>1, RequestStands
<1>18. ASSUME RowsInv', OrderRead(q), OrderTurn(q) PROVE OrderRead(p)' /\ OrderTurn(p)'
  <2>1. ReceiptRead(q, o)
    BY <1>2, <1>4, <1>18 DEF OrderRead
  <2>2. ReceiptRead(p, o)'
    <3>1. Valued(p)' = Valued(q)
      BY <1>2, <1>8 DEF Valued
    <3> QED BY <1>2, <1>8, <1>16, <2>1, <3>1 DEF ReceiptRead, In, Late
  <2>3. OrderRead(p)'
    BY <1>2, <1>4, <1>8, <2>2 DEF OrderRead, Approving
  <2>4. /\ k = db[o].commitment /\ k # None /\ q.seen.last = db[k].released /\ d = Valued(q)
        /\ In(k, Open) /\ db[k].released + d <= db[k].amount
    BY <1>2, <1>3, <1>5, <2>1, ProcurementAssumption DEF ReceiptRead, Late
  <2>5. db[k].source = o /\ db[k].line = LineOf[o]
    BY <2>4, OrderRows
  <2>13. OrderTurn(p)'
    <3>1. /\ db'[k].line = db[k].line /\ db'[k].amount = db[k].amount /\ db'[k].source = db[k].source
          /\ db'[k].released = db[k].released + d
      BY <1>6, <1>12, <1>15, <2>4
    <3> QED BY <1>2, <1>4, <1>8, <1>15, <1>18, <2>4, <2>5, <3>1, TurnWithRelease
  <2> QED BY <2>3, <2>13
<1>19. /\ \A x \in Orders : db'[x].invoiced = db[x].invoiced
       /\ Grows /\ RowsInv' => OrderRequest(p)'
       /\ Grows /\ RowsInv' /\ OrderRead(q) /\ OrderTurn(q) => OrderRead(p)' /\ OrderTurn(p)'
       /\ p.op = "receiveGoods"
  BY <1>2, <1>8, <1>16, <1>17, <1>18
<1> QED BY <1>1, <1>2, <1>8, <1>15, <1>16, <1>19, ReceiptStep


LEMMA OrderReceives ==
    ASSUME OrdersInv, NEW c \in Calls, NEW g \in Receipts, NEW cost \in UnitCosts,
           At(c, "receiveGoods", "receive", g, cost),
           db' = [db EXCEPT ![OrderOf[g]].received = call[c].seen.received + Delivered[g]],
           Goto(c, "posted")
    PROVE  OrdersInv'
<1>1. PICK q : q = call[c]
  OBVIOUS
<1>2. /\ q # Idle /\ q \in OrdersCall /\ OrderRequest(q) /\ RowsInv /\ OrdersTyped
      /\ q.op = "receiveGoods" /\ q.at = "receive" /\ q.row = g /\ q.arg = cost
      /\ Placed(OrderOf[g]) /\ q.seen \in ReceiptSeen /\ q.seen.commitment \in Commitments
      /\ ~In(q.seen.commitment, {"ABSENT"}) /\ ~In(g, {"ABSENT"})
  BY <1>1, ReceiptAt
<1>3. PICK o \in Orders : o = OrderOf[g]
  BY ProcurementAssumption
<1>4. PICK d \in Nat : d = Delivered[g]
  BY ProcurementAssumption
<1>5. PICK n \in Nat : n = q.seen.received + d
  BY <1>2 DEF ReceiptSeen
<1>6. "posted" \in OrderSteps
  BY DEF OrderSteps, ReceiptSteps
<1>7. PICK p \in OrdersCall :
         /\ p.op = q.op /\ p.at = "posted" /\ p.row = q.row /\ p.arg = q.arg
         /\ p.seen = q.seen /\ call' = [call EXCEPT ![c] = p] /\ UNCHANGED tidy
  BY <1>1, <1>6, RequestGoes
<1>8. PICK v : v = [db[o] EXCEPT !.received = n]
  OBVIOUS
<1>9. /\ v \in OrderRow /\ v.status = db[o].status /\ v.maker = db[o].maker
      /\ v.checker = db[o].checker /\ v.commitment = db[o].commitment /\ v.received = n
      /\ v.invoiced = db[o].invoiced /\ db[o].invoiced \in Nat
  BY <1>8, OrderRows DEF OrderRow
<1>10. OrderFits(o, v)
  <2>1. Placed(o)
    BY <1>2, <1>3
  <2> QED BY <1>9, <2>1, OrderRows DEF OrderFits, SignedAs, Placed, Reviewed, FourEyes, In
<1>11. db' = [db EXCEPT ![o] = v]
  BY <1>1, <1>3, <1>4, <1>5, <1>8
<1>12. /\ \A i \in Invoices : db'[i].entries = db[i].entries
       /\ \A x \in Orders : db'[x].invoiced = db[x].invoiced
       /\ \A x \in Receipts : db'[x] = db[x]
       /\ db'[o] = v
  <2>1. \A x \in Invoices \cup Receipts : x # o /\ x \in Tables
    BY TablesApart DEF Tables
  <2> QED BY <1>2, <1>9, <1>11, <2>1 DEF OrdersTyped, Tables
<1>13. ASSUME Grows, RowsInv' PROVE OrderRequest(p)'
  <2>1. OrderRequest(p)
    BY <1>2, <1>7, ReceiptRequest DEF ReceiptSteps
  <2> QED BY <1>2, <1>13, <2>1, RequestStands
<1>14. ASSUME OrderRequest(p)' PROVE MatchesKept(q, p)
  <2>1. \A x \in Orders : Counts(p, x) = 0 /\ Counts(q, x) = 0
    BY <1>2, <1>7 DEF Counts
  <2>2. \A x \in Orders : Counts(p, x) <= Counts(q, x)
    BY <2>1
  <2> QED BY <1>2, <1>12, <1>14, <2>2, NoMatch
<1>15. ASSUME OrderRead(q), OrderTurn(q)
       PROVE  OrderRead(p)' /\ OrderAgrees(p, o, v) /\ LinksStand(q, p, o, v) /\ OthersSame(q, p, o)
  <2>1. ReceiptRead(q, o) /\ OrderTaken(q, o)
    BY <1>2, <1>3, <1>15 DEF OrderRead, OrderTurn
  <2>2. /\ q.seen.received = db[o].received /\ db[o].received + d <= Ordered[o]
        /\ In(g, {"DRAFT"}) /\ db[g].worth = Valued(q)
        /\ In(o, {"APPROVED", "PARTIALLY_RECEIVED"})
    BY <1>2, <1>4, <2>1 DEF ReceiptRead, Late
  <2>3. /\ ReceiptRead(p, o)'
    <3>1. p.at \in Late /\ p.at \notin {"released", "create", "refresh", "write"}
      BY <1>7 DEF Late
    <3>2. In(g, {"DRAFT"})' /\ In(o, {"APPROVED", "PARTIALLY_RECEIVED"})'
      BY <1>9, <1>12, <2>2 DEF In
    <3>3. db'[g].worth = Valued(p)'
      BY <1>2, <1>7, <1>12, <2>2 DEF Valued
    <3> QED BY <1>2, <1>7, <3>1, <3>2, <3>3 DEF ReceiptRead, Late
  <2>4. OrderRead(p)'
    BY <1>2, <1>3, <1>7, <2>3 DEF OrderRead, Approving
  <2>5. /\ Brings(q, o) = 0 /\ Brings(p, o) = d /\ Frees(p, o) = Frees(q, o)
        /\ Receiving(p, Late, o) /\ ~Approving(p, "write", o) /\ ~Approving(q, "write", o)
    BY <1>2, <1>3, <1>4, <1>7 DEF Brings, Frees, Valued, Receiving, Late, Approving
  <2>6. n = db[o].received + d /\ db[o].received \in Nat
    BY <1>5, <2>2, OrderRows DEF OrderRow
  <2>7. db[o].received = SumFunctionOnSet(Delivered, PostedFor(o)) + 0
    BY <2>1, <2>5 DEF OrderTaken
  <2>8. SumFunctionOnSet(Delivered, PostedFor(o)) \in Int
    <3>1. PostedFor(o) \subseteq Receipts /\ IsFiniteSet(PostedFor(o))
      BY ProcurementAssumption, FS_Subset DEF PostedFor
    <3>2. Numeric(Delivered, PostedFor(o))
      BY <3>1, ProcurementAssumption DEF Numeric
    <3> QED BY <3>2, SumTakes
  <2>9. v.received = SumFunctionOnSet(Delivered, PostedFor(o)) + Brings(p, o)
    BY <1>9, <2>5, <2>6, <2>7, <2>8
  <2>10. v.received <= Ordered[o]
    BY <1>9, <2>2, <2>6
  <2>11. v.commitment # None => ReservationTaken(q, o, v.commitment)
    BY <1>9, <2>1 DEF OrderTaken
  <2>12. v.commitment # None => db[v.commitment].released = WorthPosted(o) + Frees(p, o)
    BY <2>5, <2>11 DEF ReservationTaken
  <2>13. v.commitment # None <=> v.status \in InForce \/ Approving(p, "write", o)
    BY <1>9, <2>1, <2>5 DEF OrderTaken, In
  <2>14. OrderAgrees(p, o, v)
    BY <2>5, <2>9, <2>10, <2>12, <2>13 DEF OrderAgrees
  <2>15. LinksStand(q, p, o, v)
    BY <1>2, <1>7, <1>9 DEF LinksStand, Linking, Approving
  <2>16. OthersSame(q, p, o)
    <3>1. \A x \in Orders \ {o} : SameFor(q, p, x)
      BY <1>2, <1>3, <1>7, ReceiptIsSame
    <3>2. /\ \A h \in Receipts :
             (Handling(p, h) <=> Handling(q, h)) /\ (Unposted(p, h) <=> Unposted(q, h))
          /\ \A l \in Lines : Spares(p, l) = Spares(q, l)
      BY <1>2, <1>7 DEF Handling, Unposted, Spares, Valued
    <3> QED BY <3>1, <3>2 DEF OthersSame
  <2> QED BY <2>4, <2>14, <2>15, <2>16
<1>16. /\ Grows /\ RowsInv' => OrderRequest(p)'
       /\ RowsInv /\ OrderRequest(p)' => MatchesKept(q, p)
       /\ OrderRead(q) /\ OrderTurn(q) =>
            /\ OrderRead(p)' /\ OrderAgrees(p, o, v) /\ LinksStand(q, p, o, v) /\ OthersSame(q, p, o)
  BY <1>13, <1>14, <1>15
<1> QED BY <1>1, <1>2, <1>7, <1>10, <1>11, <1>16, OrderWritten

LEMMA ReceiptMarked ==
    ASSUME OrdersInv, NEW c \in Calls, NEW g \in Receipts, NEW cost \in UnitCosts,
           At(c, "receiveGoods", "posted", g, cost),
           Becomes(g, "POSTED"), Goto(c, "refresh")
    PROVE  OrdersInv'
<1>1. PICK q : q = call[c]
  OBVIOUS
<1>2. /\ q # Idle /\ q \in OrdersCall /\ OrderRequest(q) /\ RowsInv /\ OrdersTyped
      /\ q.op = "receiveGoods" /\ q.at = "posted" /\ q.row = g /\ q.arg = cost
      /\ Placed(OrderOf[g]) /\ q.seen \in ReceiptSeen /\ q.seen.commitment \in Commitments
      /\ ~In(q.seen.commitment, {"ABSENT"}) /\ ~In(g, {"ABSENT"})
  BY <1>1, ReceiptAt
<1>3. PICK o \in Orders : o = OrderOf[g]
  BY ProcurementAssumption
<1>4. PICK d \in Nat : d = Delivered[g]
  BY ProcurementAssumption
<1>5. PICK l \in Lines : l = LineOf[o]
  BY ProcurementAssumption
<1>6. "refresh" \in OrderSteps
  BY DEF OrderSteps, ReceiptSteps
<1>7. PICK p \in OrdersCall :
         /\ p.op = q.op /\ p.at = "refresh" /\ p.row = q.row /\ p.arg = q.arg
         /\ p.seen = q.seen /\ call' = [call EXCEPT ![c] = p] /\ UNCHANGED tidy
  BY <1>1, <1>6, RequestGoes
<1>8. PICK v : v = [db[g] EXCEPT !.status = "POSTED"]
  OBVIOUS
<1>9. /\ v \in ReceiptRow /\ v.status = "POSTED" /\ v.entries = db[g].entries /\ v.worth = db[g].worth
      /\ db' = [db EXCEPT ![g] = v]
  BY <1>2, <1>8 DEF ReceiptRow, OrdersTyped, Becomes
<1>10. RowFits(g, v)
  BY <1>2, <1>9, TablesApart DEF RowFits
<1>11. RowsFit /\ db'[g] = v /\ \A y \in Tables \ {g} : db'[y] = db[y]
  <2>1. g \in Tables
    BY DEF Tables
  <2> QED BY <1>2, <1>9, <1>10, <2>1, OneRow
<1>12. /\ \A i \in Invoices : db'[i].entries = db[i].entries
       /\ \A x \in Orders : db'[x] = db[x]
       /\ \A x \in Lines \cup Commitments : db'[x] = db[x]
  BY <1>11, TablesApart DEF Tables
<1>13. ASSUME Grows, RowsInv' PROVE OrderRequest(p)'
  <2>1. OrderRequest(p)
    BY <1>2, <1>7, ReceiptRequest DEF ReceiptSteps
  <2> QED BY <1>2, <1>13, <2>1, RequestStands
<1>14. ASSUME RowsInv', OrderRead(q), OrderTurn(q) PROVE OrderRead(p)' /\ OrderTurn(p)'
  <2>1. ReceiptRead(q, o) /\ OrderTaken(q, o)
    BY <1>2, <1>3, <1>14 DEF OrderRead, OrderTurn
  <2>2. In(g, {"DRAFT"}) /\ db[g].worth = Valued(q) /\ In(o, {"APPROVED", "PARTIALLY_RECEIVED"})
    BY <1>2, <2>1 DEF ReceiptRead
  <2>3. ReceiptRead(p, o)'
    <3>1. p.at \in Late /\ p.at \notin {"released", "create", "write"} /\ p.at = "refresh"
      BY <1>7 DEF Late
    <3>2. In(o, {"APPROVED", "PARTIALLY_RECEIVED"})'
      BY <1>12, <2>2 DEF In
    <3> QED BY <3>1, <3>2 DEF ReceiptRead, Late
  <2>4. OrderRead(p)'
    BY <1>2, <1>3, <1>7, <2>3 DEF OrderRead, Approving
  <2>5. PICK w \in Nat : w = db[g].worth /\ w = Valued(q)
    BY <1>2, <2>2 DEF OrdersTyped, ReceiptRow
  <2>12. /\ Brings(q, o) = d /\ Brings(p, o)' = 0 /\ Frees(q, o) = w /\ Frees(p, o)' = 0
         /\ Receiving(p, Late, o)' /\ ~Approving(p, "write", o)' /\ ~Approving(q, "write", o)
    BY <1>2, <1>3, <1>4, <1>7, <2>5 DEF Brings, Frees, Receiving, Late, Approving
  <2>13. \A h \in Receipts \ {g} : db'[h] = db[h]
    BY <1>11, TablesApart DEF Tables
  <2>14. Worth' = Worth
    <3>1. \A h \in Receipts : db'[h].worth = db[h].worth
      BY <1>9, <1>11, <2>13
    <3> QED BY <3>1 DEF Worth
  <2>6. PostedFor(o)' = PostedFor(o) \cup {g} /\ g \notin PostedFor(o)
    BY <1>3, <1>9, <1>11, <2>2, <2>13 DEF PostedFor, In
  <2>7. /\ SumFunctionOnSet(Delivered, PostedFor(o) \cup {g}) = SumFunctionOnSet(Delivered, PostedFor(o)) + d
        /\ SumFunctionOnSet(Delivered, PostedFor(o)) \in Int
        /\ WorthPosted(o)' = WorthPosted(o) + w /\ WorthPosted(o) \in Int
    <3>1. /\ Numeric(Worth, PostedFor(o)) /\ Numeric(Delivered, PostedFor(o)) /\ WorthPosted(o) \in Int
          /\ SumFunctionOnSet(Delivered, PostedFor(o)) \in Int /\ Worth[g] = w
      BY <1>2, <2>5, WorthTyped
    <3>2. SumFunctionOnSet(Worth, PostedFor(o) \cup {g}) = SumFunctionOnSet(Worth, PostedFor(o)) + w
      BY <2>5, <2>6, <3>1, SumAdds
    <3>3. SumFunctionOnSet(Delivered, PostedFor(o) \cup {g}) = SumFunctionOnSet(Delivered, PostedFor(o)) + d
      BY <1>4, <2>6, <3>1, SumAdds
    <3> QED BY <2>6, <2>14, <3>1, <3>2, <3>3 DEF WorthPosted
  <2>8. OrderTaken(p, o)'
    <3>1. db'[o] = db[o]
      BY <1>12
    <3>2. db'[o].received = SumFunctionOnSet(Delivered, PostedFor(o)') + Brings(p, o)'
      BY <2>1, <2>6, <2>7, <2>12, <3>1 DEF OrderTaken
    <3>3. /\ db'[o].received <= Ordered[o]
          /\ db'[o].commitment # None <=> In(o, InForce)' \/ Approving(p, "write", o)'
      BY <2>1, <2>12, <3>1 DEF OrderTaken, In
    <3>4. ASSUME db[o].commitment # None PROVE ReservationTaken(p, o, db[o].commitment)'
      <4>1. PICK k : k = db[o].commitment
        OBVIOUS
      <4>2. db'[k] = db[k]
        BY <1>12, <3>4, <4>1, OrderRows
      <4>3. ReservationTaken(q, o, k)
        BY <2>1, <3>4, <4>1 DEF OrderTaken
      <4>4. ReservationTaken(p, o, k)'
        BY <2>7, <2>12, <4>2, <4>3 DEF ReservationTaken
      <4> QED BY <3>1, <4>1, <4>4 DEF ReservationTaken
    <3> QED BY <2>12, <3>1, <3>2, <3>3, <3>4 DEF OrderTaken
  <2>9. ReceiptTaken(p, g)'
    <3>1. ~Unposted(q, g) /\ ~Unposted(p, g)'
      BY <1>2, <1>7 DEF Unposted
    <3>2. db[g].entries = IF db[g].worth = 0 THEN 0 ELSE 1
      BY <1>2, <1>14, <3>1 DEF OrderTurn, ReceiptTaken
    <3>3. /\ ~In(g, {"ABSENT"})' /\ ~In(g, {"DRAFT"})'
          /\ db'[g].entries = db[g].entries /\ db'[g].worth = db[g].worth
      BY <1>9, <1>11 DEF In
    <3> QED BY <3>1, <3>2, <3>3 DEF ReceiptTaken
  <2>10. LineTaken(p, l)'
    <3>1. Spares(q, l) = w /\ Spares(p, l)' = 0
      BY <1>2, <1>3, <1>5, <1>7, <2>5 DEF Spares
    <3>2. RefusedOn(l)' = RefusedOn(l) \ {g} /\ g \in RefusedOn(l)
      BY <1>3, <1>5, <1>9, <1>11, <2>2, <2>13 DEF RefusedOn, In
    <3>3. /\ WorthRefused(l) = w + SumFunctionOnSet(Worth, RefusedOn(l) \ {g}) /\ WorthRefused(l) \in Int
      <4>1. Numeric(Worth, RefusedOn(l)) /\ WorthRefused(l) \in Int /\ Worth[g] = w
        BY <1>2, <2>5, WorthTyped
      <4> QED BY <3>2, <4>1, SumTakes DEF WorthRefused
    <3>4. WorthRefused(l)' \in Int
      BY <1>14, WorthTypedNext DEF RowsInv
    <3>5. WorthRefused(l) = w + WorthRefused(l)'
      BY <2>14, <3>2, <3>3 DEF WorthRefused
    <3>6. CommittedOf(l)' = CommittedOf(l) /\ CommittedOf(l) \in Int
      BY <1>2, <1>12, CommittedStays, CommittedTyped
    <3>7. db[l].actual + CommittedOf(l) + w <= db[l].revised + WorthRefused(l)
      BY <1>14, <3>1 DEF OrderTurn, LineTaken
    <3>8. db'[l] = db[l] /\ db[l].actual \in Nat /\ db[l].revised \in Int
      BY <1>2, <1>12 DEF OrdersTyped, LineRow
    <3>9. db'[l].actual + CommittedOf(l)' + 0 <= db'[l].revised + WorthRefused(l)'
      BY <2>5, <3>3, <3>4, <3>5, <3>6, <3>7, <3>8
    <3> QED BY <3>1, <3>9 DEF LineTaken
  <2>11. OrderTurn(p)'
    <3>1. \A x \in Tables \ {g, l} : db'[x] = db[x]
      BY <1>11
    <3> QED BY <1>2, <1>3, <1>5, <1>7, <1>14, <2>8, <2>9, <2>10, <3>1, TurnWithReceipt
  <2> QED BY <2>4, <2>11
<1>15. /\ \A x \in Orders : db'[x].invoiced = db[x].invoiced
       /\ Grows /\ RowsInv' => OrderRequest(p)'
       /\ Grows /\ RowsInv' /\ OrderRead(q) /\ OrderTurn(q) => OrderRead(p)' /\ OrderTurn(p)'
       /\ p.op = "receiveGoods"
  BY <1>2, <1>7, <1>12, <1>13, <1>14
<1> QED BY <1>1, <1>2, <1>7, <1>11, <1>12, <1>15, ReceiptStep


LEMMA ReceiptRefreshes ==
    ASSUME OrdersInv, NEW c \in Calls, NEW g \in Receipts, NEW cost \in UnitCosts,
           At(c, "receiveGoods", "refresh", g, cost),
           Keep(c, "write", [call[c].seen EXCEPT !.status = StatusReceived(OrderOf[g])]), UNCHANGED db
    PROVE  OrdersInv'
<1>1. PICK q : q = call[c]
  OBVIOUS
<1>2. /\ q # Idle /\ q \in OrdersCall /\ OrderRequest(q) /\ RowsInv /\ OrdersTyped
      /\ q.op = "receiveGoods" /\ q.at = "refresh" /\ q.row = g /\ q.arg = cost
      /\ Placed(OrderOf[g]) /\ q.seen \in ReceiptSeen /\ q.seen.commitment \in Commitments
      /\ ~In(q.seen.commitment, {"ABSENT"}) /\ ~In(g, {"ABSENT"})
  BY <1>1, ReceiptAt
<1>3. PICK n \in {"APPROVED", "PARTIALLY_RECEIVED", "FULLY_RECEIVED"} : n = StatusReceived(OrderOf[g])
  BY DEF StatusReceived
<1>4. PICK s : s = [q.seen EXCEPT !.status = n]
  OBVIOUS
<1>5. /\ s \in ReceiptSeen /\ s.received = q.seen.received /\ s.commitment = q.seen.commitment
      /\ s.status = n
  BY <1>2, <1>4 DEF ReceiptSeen, InForce
<1>6. Keep(c, "write", s) /\ "write" \in OrderSteps /\ s \in OrderSeen
  BY <1>1, <1>3, <1>4, <1>5 DEF OrderSteps, ReceiptSteps, OrderSeen
<1>7. PICK p \in OrdersCall :
         /\ p.op = q.op /\ p.at = "write" /\ p.row = q.row /\ p.arg = q.arg
         /\ p.seen = s /\ call' = [call EXCEPT ![c] = p] /\ UNCHANGED tidy
  BY <1>1, <1>6, CallAdvances
<1>8. OrderRequest(p)
  BY <1>2, <1>5, <1>7, ReceiptRequest DEF ReceiptSteps
<1>9. SameWork(q, p)
  BY <1>2, <1>7, ReceiptHeld
<1>10. ReceiptRead(q, OrderOf[q.row]) => ReceiptRead(p, OrderOf[q.row])
  BY <1>2, <1>3, <1>5, <1>7 DEF ReceiptRead, Late
<1> QED BY <1>1, <1>2, <1>7, <1>8, <1>9, <1>10, ReceiptReads

LEMMA ReceiptCloses ==
    ASSUME OrdersInv, NEW c \in Calls, NEW g \in Receipts, NEW cost \in UnitCosts,
           At(c, "receiveGoods", "write", g, cost),
           Becomes(OrderOf[g], call[c].seen.status), Leave(c)
    PROVE  OrdersInv'
<1>1. PICK q : q = call[c]
  OBVIOUS
<1>2. /\ q # Idle /\ q \in OrdersCall /\ OrderRequest(q) /\ RowsInv /\ OrdersTyped
      /\ q.op = "receiveGoods" /\ q.at = "write" /\ q.row = g /\ q.arg = cost
      /\ Placed(OrderOf[g])
      /\ q.seen.status \in {"APPROVED", "PARTIALLY_RECEIVED", "FULLY_RECEIVED"}
  BY <1>1, ReceiptAt
<1>3. PICK o \in Orders : o = OrderOf[g]
  BY ProcurementAssumption
<1>4. PICK s \in {"APPROVED", "PARTIALLY_RECEIVED", "FULLY_RECEIVED"} : s = q.seen.status
  BY <1>2
<1>5. PICK v : v = [db[o] EXCEPT !.status = s]
  OBVIOUS
<1>6. /\ v \in OrderRow /\ v.status = s /\ v.maker = db[o].maker
      /\ v.checker = db[o].checker /\ v.commitment = db[o].commitment
      /\ v.received = db[o].received /\ v.invoiced = db[o].invoiced /\ db[o].invoiced \in Nat
  BY <1>5, OrderRows DEF OrderRow, OrderStatus, InForce
<1>7. Placed(o)
  BY <1>2, <1>3
<1>8. OrderFits(o, v)
  BY <1>6, <1>7, OrderRows DEF OrderFits, SignedAs, Placed, Reviewed, FourEyes, In
<1>9. db' = [db EXCEPT ![o] = v]
  BY <1>1, <1>3, <1>4, <1>5 DEF Becomes
<1>10. ASSUME OrderRead(q), OrderTurn(q)
       PROVE  OrderAgrees(Idle, o, v) /\ LinksStand(q, Idle, o, v) /\ OthersSame(q, Idle, o)
  <2>1. PICK z : z = Idle
    OBVIOUS
  <2>2. z.op = "none" /\ z.at = "idle"
    BY <2>1 DEF Idle
  <2>3. ReceiptRead(q, o) /\ OrderTaken(q, o)
    BY <1>2, <1>3, <1>10 DEF OrderRead, OrderTurn
  <2>4. s = StatusReceived(o)
    BY <1>2, <1>4, <2>3 DEF ReceiptRead
  <2>5. /\ Brings(q, o) = 0 /\ Brings(z, o) = 0 /\ Frees(q, o) = 0 /\ Frees(z, o) = 0
        /\ ~Approving(z, "write", o) /\ ~Approving(q, "write", o)
    BY <1>2, <2>2 DEF Brings, Frees, Receiving, Approving
  <2>6. PICK k \in Commitments : k = db[o].commitment
    BY <1>7, OrderRows DEF Placed
  <2>7. k # None /\ ReservationTaken(q, o, k)
    BY <1>7, <2>3, <2>6 DEF OrderTaken, Placed
  <2>8. Ordered[o] \in Nat /\ db[o].received \in Nat
    BY OrderRows DEF OrderRow
  <2>11. s = "PARTIALLY_RECEIVED" => db[o].received < Ordered[o]
    BY <2>4, <2>8 DEF StatusReceived
  <2>12. /\ v.received = SumFunctionOnSet(Delivered, PostedFor(o)) + Brings(z, o)
         /\ v.received <= Ordered[o]
    BY <1>6, <2>3, <2>5 DEF OrderTaken
  <2>13. v.commitment = k /\ v.status \in InForce
    BY <1>6, <2>6 DEF InForce
  <2>14. db[k].released = WorthPosted(o) + Frees(z, o)
    BY <2>5, <2>7 DEF ReservationTaken
  <2>15. OrderAgrees(z, o, v)
    BY <1>6, <2>7, <2>11, <2>12, <2>13, <2>14 DEF OrderAgrees
  <2>16. LinksStand(q, z, o, v)
    BY <1>2, <1>6, <2>2 DEF LinksStand, Linking, Approving
  <2>17. OthersSame(q, z, o)
    <3>1. \A x \in Orders \ {o} : SameFor(q, z, x)
      BY <1>2, <1>3, <2>2, ReceiptIsSame
    <3>2. /\ \A h \in Receipts :
             (Handling(z, h) <=> Handling(q, h)) /\ (Unposted(z, h) <=> Unposted(q, h))
          /\ \A l \in Lines : Spares(z, l) = Spares(q, l)
      BY <1>2, <2>2 DEF Handling, Unposted, Spares
    <3> QED BY <3>1, <3>2 DEF OthersSame
  <2> QED BY <2>1, <2>15, <2>16, <2>17
<1> QED BY <1>1, <1>2, <1>6, <1>8, <1>9, <1>10, OrderCloses

LEMMA GoodsReceived ==
    ASSUME OrdersInv, NEW c \in Calls, NEW g \in Receipts, NEW cost \in UnitCosts,
           ReceiveGoods(c, g, cost)
    PROVE  OrdersInv'
<1>1. CASE At(c, "receiveGoods", "post", g, cost) /\ ~(db[g].worth > 0) /\ Leave(c) /\ UNCHANGED db
  <2>1. db[g].worth \in Nat
    BY DEF OrdersInv, RowsInv, OrdersTyped, ReceiptRow
  <2>2. db[g].worth = 0 /\ call[c].at = "post"
    BY <1>1, <2>1 DEF At
  <2> QED BY <1>1, <2>2, ReceiptEndsEarly
<1>2. CASE ~(At(c, "receiveGoods", "post", g, cost) /\ ~(db[g].worth > 0) /\ Leave(c) /\ UNCHANGED db)
  BY <1>2, ReceiptBegins, ReceiptCreated, ReceiptPosted, ReceiptStocks, ReceiptStocked, ReceiptReleases,
     ReceiptReleased, OrderReceives, ReceiptMarked, ReceiptRefreshes, ReceiptCloses
     DEF ReceiveGoods
<1> QED BY <1>1, <1>2

-----------------------------------------------------------------------------
(* An invoice is matched *)

LEMMA MatchAt ==
    ASSUME OrdersInv, NEW c \in Calls, NEW i \in Invoices, NEW at, At(c, "completeMatch", at, i, None)
    PROVE  /\ call[c] # Idle /\ call[c] \in OrdersCall /\ OrderRequest(call[c])
           /\ call[c].op = "completeMatch" /\ call[c].at = at /\ call[c].row = i /\ call[c].arg = None
           /\ Placed(OrderOf[i]) /\ OrderOf[i] \in Orders /\ Delivered[i] \in Nat
           /\ RowsInv /\ OrdersTyped
           /\ at = "write" =>
                 /\ call[c].seen \in MatchSeen
                 /\ call[c].seen.status \in {"FULLY_INVOICED", "PARTIALLY_INVOICED", None}
                 /\ call[c].seen.status = "FULLY_INVOICED" =>
                       call[c].seen.status = None \/ Ordered[OrderOf[i]] <= db[OrderOf[i]].invoiced
<1>1. PICK q : q = call[c]
  OBVIOUS
<1>2. /\ q # Idle /\ q \in OrdersCall /\ OrderRequest(q) /\ RowsInv /\ OrdersTyped
      /\ q.op = "completeMatch" /\ q.at = at /\ q.row = i /\ q.arg = None
  BY <1>1, RequestAt
<1>3. /\ Placed(OrderOf[q.row])
      /\ q.at = "write" =>
            /\ q.seen \in MatchSeen /\ q.seen.status \in {"FULLY_INVOICED", "PARTIALLY_INVOICED", None}
            /\ q.seen.status = "FULLY_INVOICED" =>
                  q.seen.status = None \/ Ordered[OrderOf[q.row]] <= db[OrderOf[q.row]].invoiced
  BY <1>2 DEF OrderRequest
<1> QED BY <1>1, <1>2, <1>3, ProcurementAssumption

LEMMA MatchIsSame ==
    ASSUME NEW q, NEW p, q.op = "completeMatch", p.op \in {"none", "completeMatch"}
    PROVE  SameWork(q, p) /\ OrderRead(p) /\ OrderRead(p)'
BY QuietIsSame DEF Quiet, OrderRead, Approving

LEMMA MatchBegins ==
    ASSUME OrdersInv, NEW c \in Calls, NEW i \in Invoices, db[i].grn # None,
           Enter(c, "completeMatch", "post", i, None, None)
    PROVE  OrdersInv'
<1>1. PICK p : p = [op |-> "completeMatch", at |-> "post", row |-> i, arg |-> None, seen |-> None]
  OBVIOUS
<1>2. /\ p \in OrdersCall /\ p.op = "completeMatch" /\ p.at = "post" /\ p.row = i /\ p.arg = None
      /\ p.seen = None
  BY <1>1 DEF OrdersCall, OrderSteps, OrderSeen, ReceiptSteps, Tables
<1>3. Placed(OrderOf[i])
  <2>1. RowsInv /\ db[i] \in InvoiceRow
    BY DEF OrdersInv, RowsInv, OrdersTyped
  <2>2. db[i].grn \in Receipts /\ ~In(db[i].grn, {"ABSENT"}) /\ OrderOf[db[i].grn] = OrderOf[i]
    BY <2>1 DEF RowsInv, InvoiceRow
  <2> QED BY <2>1, <2>2 DEF RowsInv
<1>4. OrderRequest(p)
  BY <1>2, <1>3 DEF OrderRequest
<1>5. Quiet(p) /\ OrderRead(p)
  BY <1>2, MatchIsSame DEF Quiet
<1>6. Enter(c, p.op, p.at, p.row, p.arg, p.seen)
  BY <1>2
<1> QED BY <1>2, <1>4, <1>5, <1>6, OrderBegins

\* A match that writes its invoice.
LEMMA MatchWrites ==
    ASSUME OrdersInv, NEW c \in Calls, NEW q, NEW p \in OrdersCall, q = call[c], q # Idle,
           q.op = "completeMatch", p.op = "completeMatch", p.row = q.row, NEW i \in Invoices, q.row = i,
           p.at \in {"posted", "count"}, Placed(OrderOf[i]),
           call' = [call EXCEPT ![c] = p], UNCHANGED tidy,
           NEW v, v \in InvoiceRow, v.grn = db[i].grn, db' = [db EXCEPT ![i] = v],
           RowsInv' => MatchesKept(q, p)
    PROVE  OrdersInv'
<1>1. RowsInv /\ OrdersTyped /\ i \in Tables
  BY DEF OrdersInv, RowsInv, Tables
<1>2. RowFits(i, v)
  BY <1>1, TablesApart DEF RowFits, RowsInv
<1>3. RowsFit /\ db'[i] = v /\ \A y \in Tables \ {i} : db'[y] = db[y]
  BY <1>1, <1>2, OneRow
<1>4. \A y \in Orders \cup Receipts \cup Commitments \cup Lines : db'[y] = db[y]
  <2>1. \A y \in Orders \cup Receipts \cup Commitments \cup Lines : y # i /\ y \in Tables
    BY TablesApart DEF Tables
  <2> QED BY <1>3, <2>1
<1>5. RowsInv' /\ Grows
  BY <1>1, <1>3, RowsGrow, RowsStand
<1>6. OrderRequest(p)'
  <2>1. OrderRequest(p)
    BY DEF OrderRequest
  <2> QED BY <1>1, <1>5, <2>1, RequestStands
<1>7. SameWork(q, p) /\ OrderRead(p)'
  BY MatchIsSame
<1>8. tidy' \in BOOLEAN /\ (tidy' => tidy /\ (q = Idle => Alone))
  BY DEF OrdersInv
<1> QED BY <1>3, <1>4, <1>5, <1>6, <1>7, <1>8, StepAside

LEMMA MatchPosts ==
    ASSUME OrdersInv, NEW c \in Calls, NEW i \in Invoices, At(c, "completeMatch", "post", i, None),
           PostEntry(i), Goto(c, "posted")
    PROVE  OrdersInv'
<1>1. PICK q : q = call[c]
  OBVIOUS
<1>2. /\ q # Idle /\ q \in OrdersCall /\ OrderRequest(q)
      /\ q.op = "completeMatch" /\ q.at = "post" /\ q.row = i /\ q.arg = None
      /\ Placed(OrderOf[i]) /\ OrderOf[i] \in Orders /\ Delivered[i] \in Nat /\ RowsInv /\ OrdersTyped
  BY <1>1, MatchAt
<1>3. "posted" \in OrderSteps
  BY DEF OrderSteps, ReceiptSteps
<1>4. PICK p \in OrdersCall :
         /\ p.op = q.op /\ p.at = "posted" /\ p.row = q.row /\ p.arg = q.arg
         /\ p.seen = q.seen /\ call' = [call EXCEPT ![c] = p] /\ UNCHANGED tidy
  BY <1>1, <1>3, RequestGoes
<1>5. PICK e \in Nat : e = db[i].entries
  BY <1>2 DEF OrdersTyped, InvoiceRow
<1>6. PICK v : v = [db[i] EXCEPT !.entries = e + 1]
  OBVIOUS
<1>7. /\ v \in InvoiceRow /\ v.grn = db[i].grn /\ v.entries = e + 1 /\ db' = [db EXCEPT ![i] = v]
  BY <1>2, <1>5, <1>6 DEF InvoiceRow, OrdersTyped, PostEntry
<1>8. /\ \A x \in Orders : db'[x] = db[x]
      /\ \A j \in Invoices \ {i} : db'[j] = db[j]
      /\ db'[i] = v
  <2>1. \A x \in Orders : x # i /\ x \in Tables
    BY TablesApart DEF Tables
  <2> QED BY <1>2, <1>7, <2>1 DEF OrdersTyped, Tables
<1>9. ASSUME NEW o \in Orders
      PROVE  SumFunctionOnSet(Matched', InvoicesOf(o)) - SumFunctionOnSet(Matched, InvoicesOf(o))
               >= db'[o].invoiced - db[o].invoiced + Counts(p, o) - Counts(q, o)
  <2>1. PICK f : f = Matched
    OBVIOUS
  <2>2. PICK g : g = Matched'
    OBVIOUS
  <2>3. PICK d \in Nat : d = Delivered[i]
    BY <1>2
  <2>4. f[i] = d * e /\ g[i] = d * (e + 1)
    BY <1>5, <1>7, <1>8, <2>1, <2>2, <2>3 DEF Matched
  <2>5. d * e \in Int /\ d * (e + 1) \in Int /\ d * (e + 1) = d * e + d
    OBVIOUS
  <2>6. \A j \in Invoices \ {i} : f[j] = g[j]
    BY <1>8, <2>1, <2>2 DEF Matched
  <2>7. Numeric(f, InvoicesOf(o)) /\ SumFunctionOnSet(f, InvoicesOf(o)) \in Int
    <3>1. MatchNumbers
      BY <1>2, MatchesNumberedNow DEF OrdersInv
    <3> QED BY <2>1, <3>1 DEF MatchNumbers
  <2>8. db'[o].invoiced = db[o].invoiced /\ db[o].invoiced \in Nat
    BY <1>2, <1>8 DEF OrdersTyped, OrderRow
  <2>9. Counts(q, o) = 0 /\ Counts(p, o) = IF OrderOf[i] = o THEN d ELSE 0
    BY <1>2, <1>4, <2>3 DEF Counts
  <2>10. PICK x \in Int : x = SumFunctionOnSet(f, InvoicesOf(o))
    BY <2>7
  <2>11. CASE OrderOf[i] = o
    <3>1. i \in InvoicesOf(o) /\ \A j \in InvoicesOf(o) \ {i} : f[j] = g[j]
      BY <2>6, <2>11 DEF InvoicesOf
    <3>2. SumFunctionOnSet(g, InvoicesOf(o)) = x - f[i] + g[i]
      BY <2>4, <2>5, <2>7, <2>10, <3>1, SumChanges
    <3>3. PICK y \in Int : y = d * e
      BY <2>5
    <3>4. SumFunctionOnSet(g, InvoicesOf(o)) = x - y + (y + d)
      BY <2>4, <2>5, <3>2, <3>3
    <3>5. SumFunctionOnSet(g, InvoicesOf(o)) - x >= d
      BY <3>4
    <3>6. PICK n \in Nat : n = db[o].invoiced /\ n = db'[o].invoiced
      BY <2>8
    <3>7. n - n + d - 0 = d
      OBVIOUS
    <3> QED BY <2>1, <2>2, <2>9, <2>10, <2>11, <3>5, <3>6, <3>7
  <2>12. CASE OrderOf[i] # o
    <3>1. \A j \in InvoicesOf(o) : f[j] = g[j]
      BY <2>6, <2>12 DEF InvoicesOf
    <3>2. SumFunctionOnSet(g, InvoicesOf(o)) = x
      BY <2>7, <2>10, <3>1, SumSame
    <3>3. PICK n \in Nat : n = db[o].invoiced /\ n = db'[o].invoiced
      BY <2>8
    <3>4. x - x >= n - n + 0 - 0
      OBVIOUS
    <3> QED BY <2>1, <2>2, <2>9, <2>10, <2>12, <3>2, <3>3, <3>4
  <2> QED BY <2>11, <2>12
<1>10. MatchesKept(q, p)
  BY <1>9 DEF MatchesKept
<1> QED BY <1>1, <1>2, <1>4, <1>7, <1>10, MatchWrites


LEMMA MatchMarks ==
    ASSUME OrdersInv, NEW c \in Calls, NEW i \in Invoices, At(c, "completeMatch", "posted", i, None),
           Becomes(i, "POSTED"), Goto(c, "count")
    PROVE  OrdersInv'
<1>1. PICK q : q = call[c]
  OBVIOUS
<1>2. /\ q # Idle /\ q \in OrdersCall /\ OrderRequest(q)
      /\ q.op = "completeMatch" /\ q.at = "posted" /\ q.row = i /\ q.arg = None
      /\ Placed(OrderOf[i]) /\ OrderOf[i] \in Orders /\ Delivered[i] \in Nat /\ RowsInv /\ OrdersTyped
  BY <1>1, MatchAt
<1>3. "count" \in OrderSteps
  BY DEF OrderSteps
<1>4. PICK p \in OrdersCall :
         /\ p.op = q.op /\ p.at = "count" /\ p.row = q.row /\ p.arg = q.arg
         /\ p.seen = q.seen /\ call' = [call EXCEPT ![c] = p] /\ UNCHANGED tidy
  BY <1>1, <1>3, RequestGoes
<1>5. PICK v : v = [db[i] EXCEPT !.status = "POSTED"]
  OBVIOUS
<1>6. /\ v \in InvoiceRow /\ v.grn = db[i].grn /\ v.entries = db[i].entries
      /\ db' = [db EXCEPT ![i] = v]
  BY <1>2, <1>5 DEF InvoiceRow, OrdersTyped, Becomes
<1>7. /\ \A x \in Orders : db'[x].invoiced = db[x].invoiced
      /\ \A j \in Invoices : db'[j].entries = db[j].entries
  <2>1. \A x \in Orders : x # i /\ x \in Tables
    BY TablesApart DEF Tables
  <2> QED BY <1>2, <1>6, <2>1 DEF OrdersTyped, Tables
<1>8. ASSUME RowsInv' PROVE MatchesKept(q, p)
  <2>1. \A x \in Orders : Counts(p, x) = Counts(q, x) /\ Counts(q, x) \in Nat
    BY <1>2, <1>4 DEF Counts
  <2>2. \A x \in Orders : Counts(p, x) <= Counts(q, x)
    BY <2>1
  <2>3. OrderRequest(p)
    BY <1>2, <1>4 DEF OrderRequest
  <2>4. OrderRequest(p)'
    <3>1. Placed(OrderOf[i])'
      <4>1. db'[OrderOf[i]] = db[OrderOf[i]]
        BY <1>2, <1>6, TablesApart DEF OrdersTyped, Tables
      <4> QED BY <1>2, <4>1 DEF Placed, Reviewed, In, FourEyes
    <3> QED BY <1>2, <1>4, <3>1 DEF OrderRequest
  <2> QED BY <1>2, <1>7, <2>2, <2>4, NoMatch
<1> QED BY <1>1, <1>2, <1>4, <1>6, <1>8, MatchWrites

LEMMA MatchCounts ==
    ASSUME OrdersInv, NEW c \in Calls, NEW i \in Invoices, At(c, "completeMatch", "count", i, None),
           db' = [db EXCEPT ![OrderOf[i]].invoiced = @ + Delivered[i]], Goto(c, "refresh")
    PROVE  OrdersInv'
<1>1. PICK q : q = call[c]
  OBVIOUS
<1>2. /\ q # Idle /\ q \in OrdersCall /\ OrderRequest(q)
      /\ q.op = "completeMatch" /\ q.at = "count" /\ q.row = i /\ q.arg = None
      /\ Placed(OrderOf[i]) /\ OrderOf[i] \in Orders /\ Delivered[i] \in Nat /\ RowsInv /\ OrdersTyped
  BY <1>1, MatchAt
<1>3. PICK o \in Orders : o = OrderOf[i]
  BY <1>2
<1>4. PICK d \in Nat : d = Delivered[i]
  BY <1>2
<1>5. PICK n \in Nat : n = db[o].invoiced
  BY OrderRows DEF OrderRow
<1>6. "refresh" \in OrderSteps
  BY DEF OrderSteps, ReceiptSteps
<1>7. PICK p \in OrdersCall :
         /\ p.op = q.op /\ p.at = "refresh" /\ p.row = q.row /\ p.arg = q.arg
         /\ p.seen = q.seen /\ call' = [call EXCEPT ![c] = p] /\ UNCHANGED tidy
  BY <1>1, <1>6, RequestGoes
<1>8. PICK v : v = [db[o] EXCEPT !.invoiced = n + d]
  OBVIOUS
<1>9. /\ v \in OrderRow /\ v.status = db[o].status /\ v.maker = db[o].maker
      /\ v.checker = db[o].checker /\ v.commitment = db[o].commitment
      /\ v.received = db[o].received /\ v.invoiced = n + d
  BY <1>8, OrderRows DEF OrderRow
<1>10. OrderFits(o, v)
  <2>1. Placed(o) /\ n <= n + d
    BY <1>2, <1>3
  <2>2. v.status = "FULLY_INVOICED" => Ordered[o] <= n + d
    <3>1. v.status = "FULLY_INVOICED" => Ordered[o] <= n
      BY <1>5, <1>9, OrderRows DEF In
    <3>2. Ordered[o] \in Nat
      BY ProcurementAssumption
    <3> QED BY <3>1, <3>2
  <2> QED BY <1>5, <1>9, <2>1, <2>2, OrderRows DEF OrderFits, SignedAs, Placed, Reviewed, FourEyes, In
<1>11. db' = [db EXCEPT ![o] = v]
  BY <1>2, <1>3, <1>4, <1>5, <1>8 DEF OrdersTyped
<1>12. /\ \A j \in Invoices : db'[j].entries = db[j].entries
       /\ db'[o] = v /\ \A x \in Orders \ {o} : db'[x] = db[x]
  <2>1. \A x \in Invoices : x # o /\ x \in Tables
    BY TablesApart DEF Tables
  <2> QED BY <1>2, <1>11, <2>1 DEF OrdersTyped, Tables
<1>13. ASSUME Grows, RowsInv' PROVE OrderRequest(p)'
  <2>1. OrderRequest(p)
    BY <1>2, <1>7 DEF OrderRequest
  <2> QED BY <1>2, <1>13, <2>1, RequestStands
<1>14. MatchesKept(q, p)
  <2> SUFFICES ASSUME NEW x \in Orders
               PROVE  SumFunctionOnSet(Matched', InvoicesOf(x)) - SumFunctionOnSet(Matched, InvoicesOf(x))
                        >= db'[x].invoiced - db[x].invoiced + Counts(p, x) - Counts(q, x)
    BY DEF MatchesKept
  <2>1. Matched' = Matched
    BY <1>12 DEF Matched
  <2>2. PICK m \in Int : m = SumFunctionOnSet(Matched, InvoicesOf(x))
    <3>1. MatchNumbers
      BY <1>2, MatchesNumberedNow DEF OrdersInv
    <3> QED BY <3>1 DEF MatchNumbers
  <2>3. Counts(p, x) = 0 /\ Counts(q, x) = IF x = o THEN d ELSE 0
    BY <1>2, <1>3, <1>4, <1>7 DEF Counts
  <2>4. CASE x = o
    <3>1. m - m >= (n + d) - n + 0 - d
      OBVIOUS
    <3> QED BY <1>5, <1>9, <1>12, <2>1, <2>2, <2>3, <2>4, <3>1
  <2>5. CASE x # o
    <3>1. PICK a \in Nat : a = db[x].invoiced /\ a = db'[x].invoiced
      BY <1>2, <1>12, <2>5 DEF OrdersTyped, OrderRow
    <3>2. m - m >= a - a + 0 - 0
      OBVIOUS
    <3> QED BY <2>1, <2>2, <2>3, <2>5, <3>1, <3>2
  <2> QED BY <2>4, <2>5
<1>15. ASSUME OrderTurn(q)
       PROVE  OrderAgrees(p, o, v) /\ LinksStand(q, p, o, v) /\ OthersSame(q, p, o)
  <2>1. SameWork(q, p)
    BY <1>2, <1>7, MatchIsSame
  <2>2. OrderTaken(q, o)
    BY <1>15 DEF OrderTurn
  <2>3. /\ Brings(q, o) = 0 /\ Brings(p, o) = 0 /\ Frees(q, o) = 0 /\ Frees(p, o) = 0
        /\ ~Receiving(q, Late, o) /\ ~Approving(p, "write", o) /\ ~Approving(q, "write", o)
    BY <1>2, <1>7 DEF Brings, Frees, Receiving, Approving
  <2>4. v.commitment # None => ReservationTaken(q, o, v.commitment)
    BY <1>9, <2>2 DEF OrderTaken
  <2>5. OrderAgrees(p, o, v)
    BY <1>9, <2>2, <2>3, <2>4 DEF OrderAgrees, OrderTaken, ReservationTaken, In
  <2> QED BY <1>9, <2>1, <2>5 DEF LinksStand, OthersSame, SameWork
<1>16. /\ Grows /\ RowsInv' => OrderRequest(p)'
       /\ RowsInv /\ OrderRequest(p)' => MatchesKept(q, p)
       /\ OrderRead(q) /\ OrderTurn(q) =>
            /\ OrderRead(p)' /\ OrderAgrees(p, o, v) /\ LinksStand(q, p, o, v) /\ OthersSame(q, p, o)
  BY <1>2, <1>7, <1>13, <1>14, <1>15, MatchIsSame
<1> QED BY <1>1, <1>2, <1>7, <1>10, <1>11, <1>16, OrderWritten

LEMMA MatchRefreshes ==
    ASSUME OrdersInv, NEW c \in Calls, NEW i \in Invoices, At(c, "completeMatch", "refresh", i, None),
           Keep(c, "write", [status |-> StatusInvoiced(OrderOf[i])]), UNCHANGED db
    PROVE  OrdersInv'
<1>1. PICK q : q = call[c]
  OBVIOUS
<1>2. /\ q # Idle /\ q \in OrdersCall /\ OrderRequest(q)
      /\ q.op = "completeMatch" /\ q.at = "refresh" /\ q.row = i /\ q.arg = None
      /\ Placed(OrderOf[i]) /\ OrderOf[i] \in Orders /\ RowsInv /\ OrdersTyped
  BY <1>1, MatchAt
<1>3. PICK n \in {"FULLY_INVOICED", "PARTIALLY_INVOICED", None} : n = StatusInvoiced(OrderOf[i])
  BY DEF StatusInvoiced
<1>4. PICK s : s = [status |-> n]
  OBVIOUS
<1>5. s \in MatchSeen /\ s.status = n
  BY <1>4 DEF MatchSeen, InForce
<1>6. Keep(c, "write", s) /\ "write" \in OrderSteps /\ s \in OrderSeen
  BY <1>3, <1>4, <1>5 DEF OrderSteps, ReceiptSteps, OrderSeen
<1>7. PICK p \in OrdersCall :
         /\ p.op = q.op /\ p.at = "write" /\ p.row = q.row /\ p.arg = q.arg
         /\ p.seen = s /\ call' = [call EXCEPT ![c] = p] /\ UNCHANGED tidy
  BY <1>1, <1>6, CallAdvances
<1>8. n = "FULLY_INVOICED" => n = None \/ Ordered[OrderOf[i]] <= db[OrderOf[i]].invoiced
  <2>1. Ordered[OrderOf[i]] \in Nat /\ db[OrderOf[i]].invoiced \in Nat
    BY <1>2, OrderRows DEF OrderRow
  <2> QED BY <1>3, <2>1 DEF StatusInvoiced
<1>9. OrderRequest(p)
  BY <1>2, <1>5, <1>7, <1>8 DEF OrderRequest
<1>10. SameWork(q, p) /\ OrderRead(p)
  BY <1>2, <1>7, MatchIsSame
<1>11. \A x \in Orders : Counts(p, x) = 0 /\ Counts(q, x) = 0
  BY <1>2, <1>7 DEF Counts
<1>12. \A x \in Orders : Counts(p, x) <= Counts(q, x)
  BY <1>11
<1>13. tidy' \in BOOLEAN /\ (tidy' => tidy /\ (q = Idle => Alone))
  BY <1>2, <1>7 DEF OrdersInv
<1> QED BY <1>1, <1>7, <1>9, <1>10, <1>12, <1>13, OrderReads


LEMMA MatchCloses ==
    ASSUME OrdersInv, NEW c \in Calls, NEW i \in Invoices, At(c, "completeMatch", "write", i, None),
           IF call[c].seen.status = None THEN UNCHANGED db ELSE Becomes(OrderOf[i], call[c].seen.status),
           Leave(c)
    PROVE  OrdersInv'
<1>1. PICK q : q = call[c]
  OBVIOUS
<1>2. /\ q # Idle /\ q \in OrdersCall /\ OrderRequest(q)
      /\ q.op = "completeMatch" /\ q.at = "write" /\ q.row = i /\ q.arg = None
      /\ Placed(OrderOf[i]) /\ OrderOf[i] \in Orders /\ RowsInv /\ OrdersTyped
      /\ q.seen.status \in {"FULLY_INVOICED", "PARTIALLY_INVOICED", None}
      /\ q.seen.status = "FULLY_INVOICED" =>
            q.seen.status = None \/ Ordered[OrderOf[i]] <= db[OrderOf[i]].invoiced
  BY <1>1, MatchAt
<1>3. CASE q.seen.status = None
  <2>1. UNCHANGED db /\ call' = [call EXCEPT ![c] = Idle] /\ UNCHANGED tidy
    BY <1>1, <1>3 DEF Leave
  <2>2. RowsFit
    BY <1>2, <2>1, NoRow
  <2>3. Quiet(call[c]) /\ call[c].at = "write"
    BY <1>1, <1>2 DEF Quiet
  <2> QED BY <1>1, <1>2, <2>1, <2>2, <2>3, OrderEnds
<1>4. CASE q.seen.status # None
  <2>1. PICK o \in Orders : o = OrderOf[i]
    BY <1>2
  <2>2. PICK s \in {"FULLY_INVOICED", "PARTIALLY_INVOICED"} : s = q.seen.status
    BY <1>2, <1>4
  <2>3. PICK v : v = [db[o] EXCEPT !.status = s]
    OBVIOUS
  <2>4. /\ v \in OrderRow /\ v.status = s /\ v.maker = db[o].maker
        /\ v.checker = db[o].checker /\ v.commitment = db[o].commitment
        /\ v.received = db[o].received /\ v.invoiced = db[o].invoiced /\ db[o].invoiced \in Nat
    BY <2>3, OrderRows DEF OrderRow, OrderStatus, InForce
  <2>5. Placed(o) /\ (s = "FULLY_INVOICED" => Ordered[o] <= v.invoiced)
    BY <1>2, <1>4, <2>1, <2>2, <2>4
  <2>6. OrderFits(o, v)
    BY <2>4, <2>5, OrderRows DEF OrderFits, SignedAs, Placed, Reviewed, FourEyes, In
  <2>7. db' = [db EXCEPT ![o] = v]
    BY <1>1, <1>4, <2>1, <2>2, <2>3 DEF Becomes
  <2>8. ASSUME OrderTurn(q)
        PROVE  OrderAgrees(Idle, o, v) /\ LinksStand(q, Idle, o, v) /\ OthersSame(q, Idle, o)
    <3>1. PICK z : z = Idle
      OBVIOUS
    <3>2. z.op = "none" /\ SameWork(q, z)
      BY <1>2, <3>1, MatchIsSame DEF Idle
    <3>3. OrderTaken(q, o)
      BY <2>8 DEF OrderTurn
    <3>4. Brings(q, o) = 0 /\ Brings(z, o) = 0 /\ Frees(q, o) = 0 /\ Frees(z, o) = 0
      BY <1>2, <3>2 DEF Brings, Frees, Receiving
    <3>5. v.commitment # None /\ v.status \in InForce /\ ReservationTaken(q, o, v.commitment)
      BY <2>4, <2>5, <3>3 DEF OrderTaken, Placed, InForce
    <3>6. OrderAgrees(z, o, v)
      BY <2>4, <3>3, <3>4, <3>5 DEF OrderAgrees, OrderTaken, ReservationTaken
    <3>7. LinksStand(q, z, o, v) /\ OthersSame(q, z, o)
      BY <2>4, <3>2 DEF LinksStand, OthersSame, SameWork
    <3> QED BY <3>1, <3>6, <3>7
  <2> QED BY <1>1, <1>2, <2>4, <2>6, <2>7, <2>8, OrderCloses
<1> QED BY <1>3, <1>4

LEMMA MatchCompleted ==
    ASSUME OrdersInv, NEW c \in Calls, NEW i \in Invoices, CompleteThreeWayMatch(c, i)
    PROVE  OrdersInv'
BY MatchBegins, MatchPosts, MatchMarks, MatchCounts, MatchRefreshes, MatchCloses DEF CompleteThreeWayMatch

-----------------------------------------------------------------------------
(* Everything together *)

LEMMA OrdersCutOff ==
    ASSUME OrdersInv, NEW c \in Calls, CutOff(c)
    PROVE  OrdersInv'
<1>1. PICK q : q = call[c]
  OBVIOUS
<1>2. PICK p \in OrdersCall : p = Idle
  BY DEF OrdersCall, OrderSteps, OrderSeen, Idle
<1>3. /\ RowsInv /\ RowsFit /\ OrderRequest(q) /\ OrderRequest(p)'
      /\ call' = [call EXCEPT ![c] = p] /\ tidy' = FALSE /\ UNCHANGED db
  BY <1>1, <1>2, NoRow DEF CutOff, OrdersInv, RowsInv, OrderRequest
<1>4. \A x \in Orders : Counts(p, x) = 0 /\ Counts(q, x) \in Nat
  BY <1>2, <1>3, CountsTyped DEF Counts, Idle
<1>5. \A x \in Orders : Counts(p, x) <= Counts(q, x)
  BY <1>4
<1>6. MatchesKept(q, p)
  BY <1>3, <1>5, NoMatch
<1> QED BY <1>1, <1>3, <1>6, OrderStep

LEMMA OrdersUnchanged ==
    ASSUME OrdersInv, UNCHANGED docVars
    PROVE  OrdersInv'
<1> USE DEF docVars
<1>1. RowsInv'
  BY RowsStand, NoRow DEF OrdersInv, RowsInv
<1>2. \A c \in Calls : OrderRequest(call[c])'
  <2>1. TAKE c \in Calls
  <2>2. PICK z : z = call[c]
    OBVIOUS
  <2>3. OrderRequest(z)'
    BY <1>1, <2>2, RequestStands, RowsGrow, NoRow DEF OrdersInv, RowsInv
  <2> QED BY <2>2, <2>3
<1>3. \A o \in Orders : MatchesLost(o)' >= 0
  <2>1. \A o \in Orders : MatchesLost(o)' = MatchesLost(o)
    BY DEF MatchesLost, Matched, InvoicesOf, Uncounted, Counts
  <2> QED BY <2>1 DEF OrdersInv
<1>4. OrderTurns' <=> OrderTurns
  BY DEF OrderTurns, Alone, OrderRead, OrderTurn, Approving, Available, CommittedOf, ReceiptRead,
         StatusReceived, OrderTaken, ReservationTaken, ReceiptTaken, LinkTaken, LineTaken, Linking,
         Handling, Unposted, Refused, MayRelease, Spares, Brings, Frees, Valued, Receiving,
         PostedFor, RefusedOn, Worth, WorthPosted, WorthRefused, Late, In
<1> QED BY <1>1, <1>2, <1>3, <1>4 DEF OrdersInv

LEMMA OrdersNextStep == OrdersInv /\ [OrdersSystem]_docVars => OrdersInv'
<1> SUFFICES ASSUME OrdersInv, [OrdersSystem]_docVars PROVE OrdersInv'
  OBVIOUS
<1>1. CASE OrdersNext
  <2>1. ASSUME NEW r \in Requisitions, NEW u \in Users,
               \/ CreateRequisition(r, u)
               \/ \E c \in Calls :
                     SubmitRequisition(c, r) \/ ApproveRequisition(c, r, u) \/ RejectRequisition(c, r)
        PROVE  OrdersInv'
    BY <2>1, RequisitionCreated, RequisitionSteps
  <2>2. ASSUME NEW o \in Orders, NEW c \in Calls,
               \/ RejectPurchaseOrder(c, o)
               \/ \E u \in Users : CreatePurchaseOrder(c, o, u) \/ ApprovePurchaseOrder(c, o, u)
        PROVE  OrdersInv'
    BY <2>2, RejectsOrder, OrderCreated, ApprovalOfOrder
  <2> QED BY <1>1, <2>1, <2>2 DEF OrdersNext
<1>2. CASE DeliveriesNext
  BY <1>2, GoodsReceived, InvoiceCreated, MatchCreated, MatchCompleted DEF DeliveriesNext
<1>3. CASE ApprovalsNext
  <2>1. ASSUME NEW b \in Budgets, NEW u \in Users, CreateBudget(b, u) PROVE OrdersInv'
    BY <2>1, BudgetCreated
  <2>2. ASSUME NEW b \in Budgets, NEW c \in Calls, NEW u \in Users, ApproveBudget(c, b, u) PROVE OrdersInv'
    BY <2>2, BudgetApproved
  <2>3. ASSUME NEW b \in Budgets, NEW c \in Calls,
               SubmitBudget(c, b) \/ RejectBudget(c, b) \/ CloseBudget(c, b)
        PROVE  OrdersInv'
    BY <2>3, BudgetSubmitted
  <2> QED BY <1>3, <2>1, <2>2, <2>3 DEF ApprovalsNext
<1>4. CASE \E c \in Calls : CutOff(c)
  BY <1>4, OrdersCutOff
<1>5. CASE UNCHANGED docVars
  BY <1>5, OrdersUnchanged
<1> QED BY <1>1, <1>2, <1>3, <1>4, <1>5 DEF OrdersSystem, ProcurementNext

LEMMA OrdersStart == OrdersInit => OrdersInv
<1> SUFFICES ASSUME OrdersInit PROVE OrdersInv
  OBVIOUS
<1>1. \A c \in Calls : call[c] = Idle
  BY DEF OrdersInit, CallsStart
<1>2. /\ \A r \in Requisitions : db[r] = NoRequisition
      /\ \A o \in Orders : db[o] = NoOrder
      /\ \A g \in Receipts : db[g] = NoReceipt
      /\ \A i \in Invoices : db[i] = NoInvoice
  BY TablesApart DEF OrdersInit, Tables
<1>3. /\ \A b \in Budgets : db[b] = NoBudget
      /\ \A k \in Commitments : db[k] = NoCommitment
      /\ \A w \in Warehouses : db[w] = NoStock
      /\ \A l \in Lines : db[l] \in LineRow /\ db[l].actual = 0 /\ db[l].revised \in Nat
  <2>1. PICK planned \in [Lines -> Nat] :
           db = [x \in Tables |->
                   IF x \in Requisitions THEN NoRequisition ELSE IF x \in Orders THEN NoOrder
                   ELSE IF x \in Receipts THEN NoReceipt ELSE IF x \in Invoices THEN NoInvoice
                   ELSE IF x \in Budgets THEN NoBudget ELSE IF x \in Lines THEN NewLine(planned[x])
                   ELSE IF x \in Commitments THEN NoCommitment ELSE NoStock]
    BY DEF OrdersInit
  <2>2. \A l \in Lines : db[l] = NewLine(planned[l])
    BY <2>1, TablesApart DEF Tables
  <2>3. /\ \A b \in Budgets : db[b] = NoBudget
        /\ \A k \in Commitments : db[k] = NoCommitment
        /\ \A w \in Warehouses : db[w] = NoStock
    BY <2>1, TablesApart DEF Tables
  <2>4. \A l \in Lines : planned[l] \in Nat
    BY <2>1
  <2>5. \A l \in Lines : NewLine(planned[l]) \in LineRow
    BY <2>4 DEF NewLine, LineRow
  <2>6. \A l \in Lines : db[l].actual = 0 /\ db[l].revised \in Nat
    <3> SUFFICES ASSUME NEW l \in Lines PROVE db[l].actual = 0 /\ db[l].revised \in Nat
      OBVIOUS
    <3>1. db[l] = [revised |-> planned[l], actual |-> 0]
      BY <2>2 DEF NewLine
    <3>2. planned[l] \in Nat
      BY <2>4
    <3> QED BY <3>1, <3>2
  <2> QED BY <2>2, <2>3, <2>5, <2>6
<1>4. OrdersTyped
  <2>1. DOMAIN db = Tables /\ db = [x \in Tables |-> db[x]]
    BY DEF OrdersInit
  <2>2. /\ NoRequisition \in RequisitionRow /\ NoOrder \in OrderRow
        /\ NoReceipt \in ReceiptRow /\ NoInvoice \in InvoiceRow
    BY DEF NoRequisition, RequisitionRow, NoOrder, OrderRow, OrderStatus, NoReceipt, ReceiptRow,
           NoInvoice, InvoiceRow
  <2>3. NoBudget \in BudgetRow /\ NoCommitment \in ReservationRow /\ NoStock \in BalanceRow
    BY DEF NoBudget, BudgetRow, BudgetStatus, NoCommitment, ReservationRow, CommitmentStatus,
           NoStock, BalanceRow
  <2> QED BY <1>2, <1>3, <2>1, <2>2, <2>3 DEF OrdersTyped
<1>5. RowsInv
  <2>1. /\ \A r \in Requisitions : In(r, {"ABSENT"})
        /\ \A o \in Orders : In(o, {"ABSENT"}) /\ ~In(o, InForce) /\ db[o].commitment = None
        /\ \A g \in Receipts : In(g, {"ABSENT"})
        /\ \A i \in Invoices : db[i].grn = None
        /\ \A k \in Commitments : In(k, {"ABSENT"}) /\ db[k].source = None
    BY <1>2, <1>3 DEF In, InForce, NoRequisition, NoOrder, NoReceipt, NoInvoice, NoCommitment
  <2>2. /\ \A r \in Requisitions : ~In(r, {"APPROVED"})
        /\ \A o \in Orders : ~In(o, {"FULLY_INVOICED"})
    BY <2>1 DEF In
  <2> QED BY <1>4, <2>1, <2>2 DEF RowsInv
<1>6. ASSUME NEW o \in Orders PROVE MatchesLost(o) >= 0
  <2>1. IsFiniteSet(InvoicesOf(o)) /\ IsFiniteSet(Calls)
    BY ProcurementAssumption, FS_Subset DEF InvoicesOf
  <2>2. \A i \in InvoicesOf(o) : Matched[i] = 0
    <3>1. \A i \in InvoicesOf(o) : /\ Matched[i] = Delivered[i] * db[i].entries
                                   /\ Delivered[i] \in Nat /\ db[i].entries = 0
      BY <1>2, ProcurementAssumption DEF Matched, InvoicesOf, NoInvoice
    <3> QED BY <3>1
  <2>3. \A c \in Calls : Uncounted(o)[c] = 0
    BY <1>1 DEF Uncounted, Counts, Idle
  <2>4. SumFunctionOnSet(Matched, InvoicesOf(o)) = 0 /\ SumFunctionOnSet(Uncounted(o), Calls) = 0
    BY <2>1, <2>2, <2>3, SumOfNone
  <2>5. db[o].invoiced = 0
    BY <1>2 DEF NoOrder
  <2> QED BY <2>4, <2>5 DEF MatchesLost
<1>7. OrderTurn(Idle)
  <2>1. PICK z : z = Idle
    OBVIOUS
  <2>2. z.op = "none"
    BY <2>1 DEF Idle
  <2>3. ASSUME NEW o \in Orders PROVE OrderTaken(z, o)
    <3>1. PostedFor(o) = {} /\ Ordered[o] \in Nat
      BY <1>2, ProcurementAssumption DEF PostedFor, In, NoReceipt
    <3>2. SumFunctionOnSet(Delivered, PostedFor(o)) = 0
      BY <3>1, SumEmpty
    <3>3. Brings(z, o) = 0 /\ ~Approving(z, "write", o)
      BY <2>2 DEF Brings, Receiving, Approving
    <3>4. db[o].received = 0 /\ db[o].commitment = None /\ db[o].status = "ABSENT"
      BY <1>2 DEF NoOrder
    <3> QED BY <3>1, <3>2, <3>3, <3>4 DEF OrderTaken, In, InForce
  <2>4. \A g \in Receipts : ReceiptTaken(z, g)
    BY <1>2, <2>2 DEF ReceiptTaken, Handling, Unposted, In, NoReceipt
  <2>5. \A k \in Commitments : LinkTaken(z, k)
    BY <1>3 DEF LinkTaken, NoCommitment
  <2>6. ASSUME NEW l \in Lines PROVE LineTaken(z, l)
    <3>1. {k \in Commitments : In(k, Open) /\ db[k].line = l} = {}
      BY <1>3 DEF In, Open, NoCommitment
    <3>2. CommittedOf(l) = 0
      BY <3>1, SumEmpty DEF CommittedOf
    <3>3. Spares(z, l) = 0
      BY <2>2 DEF Spares
    <3>4. RefusedOn(l) = {}
      BY <1>2 DEF RefusedOn, In, NoReceipt
    <3>5. WorthRefused(l) = 0
      BY <3>4, SumEmpty DEF WorthRefused
    <3> QED BY <1>3, <3>2, <3>3, <3>5 DEF LineTaken
  <2> QED BY <2>1, <2>3, <2>4, <2>5, <2>6 DEF OrderTurn
<1>8. call \in [Calls -> OrdersCall] /\ tidy \in BOOLEAN
  BY DEF OrdersInit, CallsStart, OrdersCall, OrderSteps, OrderSeen, Idle
<1>9. \A c \in Calls : OrderRequest(call[c])
  BY <1>1 DEF OrderRequest
<1> QED BY <1>1, <1>5, <1>6, <1>7, <1>8, <1>9 DEF OrdersInv, OrderTurns

LEMMA OrdersInvSuffices == OrdersInv => OrdersSound
<1> SUFFICES ASSUME OrdersInv PROVE OrdersSound
  OBVIOUS
<1>0. RowsInv /\ OrdersTyped
  BY DEF OrdersInv, RowsInv
<1>1. ProcurementTypeOK
  BY <1>0 DEF OrdersTyped, ProcurementTypeOK, RequisitionRow, OrderRow, OrderStatus, ReceiptRow,
              InvoiceRow, In
<1>2. OrderBacked /\ OrderInForceReserved
  BY <1>0 DEF RowsInv, OrderBacked, OrderInForceReserved, Placed, Reviewed
<1>3. ASSUME NEW o \in Orders, In(o, {"FULLY_INVOICED"})
      PROVE  Ordered[o] <= SumFunctionOnSet([i \in Invoices |-> Delivered[i] * db[i].entries],
                                            {i \in Invoices : OrderOf[i] = o})
  <2>1. PICK m \in Int : m = SumFunctionOnSet(Matched, InvoicesOf(o))
    <3>1. MatchNumbers
      BY <1>0, MatchesNumberedNow DEF OrdersInv
    <3> QED BY <3>1 DEF MatchNumbers
  <2>2. PICK u \in Nat : u = SumFunctionOnSet(Uncounted(o), Calls)
    <3>1. \A c \in Calls : Uncounted(o)[c] \in Nat
      BY CountsTyped DEF Uncounted, OrdersInv
    <3> QED BY <3>1, ProcurementAssumption, SumNotNegative
  <2>3. PICK n \in Nat : n = db[o].invoiced
    BY OrderRows DEF OrderRow
  <2>4. m - n - u >= 0
    BY <2>1, <2>2, <2>3 DEF OrdersInv, MatchesLost
  <2>5. Ordered[o] <= n /\ Ordered[o] \in Nat
    BY <1>3, <2>3, OrderRows
  <2>6. Ordered[o] <= m
    BY <2>4, <2>5
  <2> QED BY <2>1, <2>6 DEF Matched, InvoicesOf
<1>4. ASSUME tidy, Alone
      PROVE  /\ OrderTurn(Idle)
             /\ \A o \in Orders : /\ ~Approving(Idle, "write", o) /\ ~Receiving(Idle, Late, o)
                                  /\ Brings(Idle, o) = 0 /\ Frees(Idle, o) = 0
             /\ \A g \in Receipts : ~Handling(Idle, g) /\ ~Unposted(Idle, g)
             /\ \A k \in Commitments, o \in Orders : ~Linking(Idle, k, o)
             /\ \A l \in Lines : Spares(Idle, l) = 0
  BY <1>4 DEF OrdersInv, OrderTurns, Idle, Approving, Receiving, Brings, Frees, Handling, Unposted,
              Linking, Spares
<1>5. OrderReconciles
  <2>1. ASSUME tidy, Alone, NEW o \in Orders
        PROVE  /\ db[o].received = SumFunctionOnSet(Delivered, PostedFor(o))
               /\ db[o].received <= Ordered[o]
               /\ db[o].commitment # None =>
                     db[db[o].commitment].released = SumFunctionOnSet(Worth, PostedFor(o))
               /\ In(o, {"PARTIALLY_RECEIVED"}) => db[o].received < Ordered[o]
    <3>1. OrderTaken(Idle, o) /\ WorthPosted(o) \in Int
          /\ SumFunctionOnSet(Delivered, PostedFor(o)) \in Int
      BY <1>0, <1>4, <2>1, WorthTyped DEF OrderTurn
    <3>2. db[o].received = SumFunctionOnSet(Delivered, PostedFor(o))
      BY <1>4, <2>1, <3>1 DEF OrderTaken
    <3>3. db[o].commitment # None => db[db[o].commitment].released = WorthPosted(o)
      BY <1>4, <2>1, <3>1 DEF OrderTaken, ReservationTaken
    <3> QED BY <1>4, <2>1, <3>1, <3>2, <3>3 DEF OrderTaken, WorthPosted
  <2>2. ASSUME tidy, Alone, NEW g \in Receipts
        PROVE  /\ db[g].entries = IF In(g, {"ABSENT"}) \/ db[g].worth = 0 THEN 0 ELSE 1
               /\ In(g, {"DRAFT"}) =>
                     db[g].worth = 0 \/ ~MayRelease(db[OrderOf[g]].commitment, db[g].worth)
    BY <1>4, <2>2 DEF OrderTurn, ReceiptTaken, Refused
  <2> QED BY <2>1, <2>2 DEF OrderReconciles, PostedFor
<1>6. ReservedForOrders
  <2> SUFFICES ASSUME tidy, Alone
               PROVE  /\ \A k \in Commitments : db[k].source # None => db[db[k].source].commitment = k
                      /\ \A o \in Orders : db[o].commitment # None <=> In(o, InForce)
    BY DEF ReservedForOrders
  <2>1. ASSUME NEW k \in Commitments, db[k].source # None PROVE db[db[k].source].commitment = k
    <3>1. db[k].source \in Orders
      BY <1>0, <2>1 DEF RowsInv
    <3> QED BY <1>4, <2>1, <3>1 DEF OrderTurn, LinkTaken
  <2>2. ASSUME NEW o \in Orders PROVE db[o].commitment # None <=> In(o, InForce)
    BY <1>4 DEF OrderTurn, OrderTaken
  <2> QED BY <2>1, <2>2
<1>7. OrdersWithinBudget
  <2> SUFFICES ASSUME tidy, Alone, NEW l \in Lines 
               PROVE  db[l].actual + CommittedOf(l) <= db[l].revised + WorthRefused(l)
    BY DEF OrdersWithinBudget, WorthRefused
  <2>1. db[l].actual + CommittedOf(l) + 0 <= db[l].revised + WorthRefused(l)
    BY <1>4 DEF OrderTurn, LineTaken
  <2>2. db[l].actual \in Nat /\ CommittedOf(l) \in Int
    BY <1>0, CommittedTyped DEF OrdersTyped, LineRow
  <2> QED BY <2>1, <2>2
<1> QED BY <1>1, <1>2, <1>3, <1>5, <1>6, <1>7 DEF OrdersSound, FullyInvoiced

\* For any number of requisitions, orders, receipts, invoices, budgets and
\* requests: an order of a requisition stands on one that two people signed,
\* an order in force is signed by two people and reserved, and one that is
\* fully invoiced has invoices posted for all of it, however requests overlap
\* and wherever they are cut off.  While requests take turns, what was received
\* for an order was ordered and posted once, at whatever unit cost; what it is
\* worth was released from the order's only reservation, or the release was
\* refused and the receipt stays a draft; and a budget line is overspent by no
\* more than the worth of those drafts.
THEOREM OrdersAreAlwaysSound == OrdersSpec => []OrdersSound
BY OrdersStart, OrdersNextStep, OrdersInvSuffices, PTL DEF OrdersSpec
=============================================================================

----------------------------- MODULE Receivables -----------------------------
(***************************************************************************)
(* Accounts receivable: customer invoices and the receipts that settle     *)
(* them.  Posting either one is an entry in the journal, a row in the      *)
(* customer ledger and a change of status, three commits in an order of    *)
(* its own for each document.  Tax and currency are left out.              *)
(***************************************************************************)
EXTENDS Documents, Functions

CONSTANTS
    Bills,       \* customer invoices
    Total,       \* what a bill is for
    Settlements, \* receipts, of one allocation each
    BillOf,      \* the bill that a receipt settles
    Amount,      \* what the receipt allocates
    MaxEntries   \* bound: entries of a document before it is left alone

ASSUME ReceivablesAssumption ==
    /\ Total \in [Bills -> Nat] /\ Amount \in [Settlements -> Nat]
    /\ BillOf \in [Settlements -> Bills] /\ MaxEntries \in Nat
    /\ IsFiniteSet(Settlements) /\ IsFiniteSet(Calls) /\ Bills \cap Settlements = {}

NoBill == [status |-> "ABSENT", entries |-> 0, ledger |-> 0, received |-> 0]
NoSettlement == [status |-> "ABSENT", entries |-> 0, ledger |-> 0]

Posted == {"POSTED"}
WriteLedger(x) == db' = [db EXCEPT ![x].ledger = @ + 1]

ReceivablesTypeOK ==
    \A x \in Bills \cup Settlements :
        /\ db[x].status \in {"ABSENT", "DRAFT", "POSTED"}
        /\ db[x].entries \in Nat /\ db[x].ledger \in Nat

CreateBill(i) == Statement(In(i, {"ABSENT"}), Becomes(i, "DRAFT"))

\* Mutated form of BeginPostBill: a bill that is posted is posted again.
BeginPostBillAgain(c, i) ==
    ~In(i, {"ABSENT"}) /\ Enter(c, "postBill", "post", i, None, None)

BeginPostBill(c, i) ==
    /\ In(i, {"DRAFT"}) /\ db[i].entries < MaxEntries
    /\ Enter(c, "postBill", "post", i, None, None)

PostBill(c, i) ==
    \/ BeginPostBill(c, i)
    \/ At(c, "postBill", "post", i, None) /\ PostEntry(i) /\ Goto(c, "posted")
    \/ At(c, "postBill", "posted", i, None) /\ Becomes(i, "POSTED") /\ Goto(c, "ledger")
    \/ At(c, "postBill", "ledger", i, None) /\ WriteLedger(i) /\ Leave(c)

\* The number of a receipt is unique: a second insert is refused.
InsertReceipt(r) == IF In(r, {"ABSENT"}) THEN Becomes(r, "DRAFT") ELSE UNCHANGED db

\* The open balance is checked when the receipt is prepared, and not again.
CreateSettlement(c, r) ==
    Handler(c, "createReceipt", r, None,
            /\ In(r, {"ABSENT"}) /\ In(BillOf[r], Posted)
            /\ Amount[r] <= Total[BillOf[r]] - db[BillOf[r]].received,
            InsertReceipt(r))

Allocate(r) == db' = [db EXCEPT ![BillOf[r]].received = @ + Amount[r]]

PostSettlement(c, r) ==
    \/ /\ In(r, {"DRAFT"}) /\ db[r].entries < MaxEntries
       /\ Enter(c, "postReceipt", "post", r, None, None)
    \/ At(c, "postReceipt", "post", r, None) /\ PostEntry(r) /\ Goto(c, "allocate")
    \/ At(c, "postReceipt", "allocate", r, None) /\ Allocate(r) /\ Goto(c, "ledger")
    \/ At(c, "postReceipt", "ledger", r, None) /\ WriteLedger(r) /\ Goto(c, "write")
    \/ At(c, "postReceipt", "write", r, None) /\ Becomes(r, "POSTED") /\ Leave(c)

ReceivablesNext ==
    \/ \E i \in Bills : CreateBill(i) \/ \E c \in Calls : PostBill(c, i)
    \/ \E c \in Calls, r \in Settlements : CreateSettlement(c, r) \/ PostSettlement(c, r)

-----------------------------------------------------------------------------
ReceiptsOf(i) == {r \in Settlements : BillOf[r] = i}
\* What the journal, and what the posted receipts have of each receipt.
Journalled == [r \in Settlements |-> Amount[r] * db[r].entries]
Allocated == [r \in Settlements |-> IF In(r, Posted) THEN Amount[r] ELSE 0]

\* Each row of the customer ledger and each amount received stands on a journal
\* entry of its own, and receipts settle posted bills only, wherever requests
\* stop and however often they post one document.
CustomerLedgerBacked ==
    /\ \A x \in Bills \cup Settlements :
          /\ db[x].ledger <= db[x].entries
          /\ In(x, Posted) => db[x].entries > 0
    /\ \A i \in Bills :
          db[i].received <= SumFunctionOnSet(Journalled, ReceiptsOf(i))
    /\ \A r \in Settlements : ~In(r, {"ABSENT"}) => In(BillOf[r], Posted)

\* While requests take turns, a document is in the journal and in the customer
\* ledger once when it is posted and not at all before, and a bill has received
\* what its posted receipts allocate.
CustomerLedgerAgrees ==
    tidy /\ Alone =>
        /\ \A x \in Bills \cup Settlements :
              db[x].entries = db[x].ledger /\ db[x].entries = IF In(x, Posted) THEN 1 ELSE 0
        /\ \A i \in Bills : db[i].received = SumFunctionOnSet(Allocated, ReceiptsOf(i))

\* The customer ledger and the journal agree: CustomerLedgerBacked always,
\* CustomerLedgerAgrees while requests take turns.
ReceivablesSound ==
    CallTypeOK /\ ReceivablesTypeOK /\ CustomerLedgerBacked /\ CustomerLedgerAgrees
=============================================================================

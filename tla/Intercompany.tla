----------------------------- MODULE Intercompany -----------------------------
(***************************************************************************)
(* Transactions between two entities: the draft of the initiator, the      *)
(* mirror of the counterparty and the row that links them are written one  *)
(* after the other.  The drafts are posted by the posting engine.          *)
(***************************************************************************)
EXTENDS Documents

CONSTANTS Deals

ASSUME NoneIsNoStatus == None \notin {"RECONCILED", "PARTIALLY_RECONCILED"}

\* entries: of the initiator and of the counterparty, a status each.
NoDeal == [status |-> "ABSENT", entries |-> <<"ABSENT", "ABSENT">>]
EntryStatus == {"ABSENT", "DRAFT", "POSTED", "REVERSED"}

IntercompanyTypeOK ==
    \A x \in Deals :
        /\ db[x].status \in {"ABSENT", "UNRECONCILED", "PARTIALLY_RECONCILED", "RECONCILED", "DISPUTED"}
        /\ db[x].entries \in EntryStatus \X EntryStatus

WriteSide(x, side, status) ==
    db' = [db EXCEPT ![x].entries = IF side = 1 THEN <<status, @[2]>> ELSE <<@[1], status>>]

\* create: x stands for what one request makes.
CreateDeal(c, x) ==
    LET here(at) == At(c, "create", at, x, None)
    IN  \/ /\ In(x, {"ABSENT"}) /\ db[x].entries = NoDeal.entries
           /\ \A e \in Calls : call[e].row # x
           /\ Enter(c, "create", "draft", x, None, None)
        \/ here("draft") /\ WriteSide(x, 1, "DRAFT") /\ Goto(c, "mirror")
        \/ here("mirror") /\ WriteSide(x, 2, "DRAFT") /\ Goto(c, "link")
        \/ here("link") /\ Becomes(x, "UNRECONCILED") /\ Leave(c)

\* The posting engine posts a draft that was approved, and reverses it.
PostSide(x, side) ==
    Statement(db[x].entries[side] = "DRAFT", WriteSide(x, side, "POSTED"))
ReverseSide(x, side) ==
    Statement(db[x].entries[side] = "POSTED", WriteSide(x, side, "REVERSED"))

BothPosted(x) == db[x].entries = <<"POSTED", "POSTED">>

\* Mutated form of Outcome: one posted entry is enough.
OutcomeEither(x) ==
    IF \E side \in 1..2 : db[x].entries[side] = "POSTED" THEN "RECONCILED" ELSE "PARTIALLY_RECONCILED"

Outcome(x) == IF BothPosted(x) THEN "RECONCILED" ELSE "PARTIALLY_RECONCILED"

Reconcile(c, x) ==
    \/ ~In(x, {"ABSENT"}) /\ Enter(c, "reconcile", "write", x, None, Outcome(x))
    \/ At(c, "reconcile", "write", x, None) /\ Becomes(x, call[c].seen) /\ Leave(c)

FlagDisputed(c, x) ==
    Handler(c, "dispute", x, None, ~In(x, {"ABSENT"}), Becomes(x, "DISPUTED"))

IntercompanyNext ==
    \E x \in Deals :
        \/ \E side \in 1..2 : PostSide(x, side) \/ ReverseSide(x, side)
        \/ \E c \in Calls : CreateDeal(c, x) \/ Reconcile(c, x) \/ FlagDisputed(c, x)

-----------------------------------------------------------------------------
\* A transaction always has both of its entries, and the pair is reconciled
\* only when both were posted, whatever is cut off or overtaken.  (An entry that
\* is reversed later leaves the pair reconciled until somebody asks again.)
PairsComplete ==
    \A x \in Deals :
        /\ ~In(x, {"ABSENT"}) => \A side \in 1..2 : db[x].entries[side] # "ABSENT"
        /\ In(x, {"RECONCILED"}) => \A side \in 1..2 : db[x].entries[side] \in {"POSTED", "REVERSED"}

\* While no request is cut off, neither entity keeps an entry without the other.
NoOrphan ==
    tidy /\ Alone => \A x \in Deals :
        \A side \in 1..2 : db[x].entries[side] = "ABSENT" <=> In(x, {"ABSENT"})

\* The books of the two entities mirror each other: PairsComplete always,
\* NoOrphan while no request is cut off.
DealsSound == IntercompanyTypeOK /\ PairsComplete /\ NoOrphan
=============================================================================

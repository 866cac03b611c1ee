------------------------------ MODULE Budgeting ------------------------------
(***************************************************************************)
(* Budgets with their lines, and the commitments that reserve a line.      *)
(***************************************************************************)
EXTENDS Documents, Functions

CONSTANTS
    Budgets, Lines,
    BudgetOf,      \* the budget of a line
    Commitments,   \* bound: commitments ever made
    Amounts,       \* the amounts that requests carry
    MaxRevised     \* bound: what a line may hold before a transfer to it stops

ASSUME BudgetAssumption ==
    /\ BudgetOf \in [Lines -> Budgets] /\ Amounts \subseteq Nat /\ None \notin Users
    /\ IsFiniteSet(Lines)
    \* They are rows of three tables.
    /\ Budgets \cap Lines = {} /\ Budgets \cap Commitments = {} /\ Lines \cap Commitments = {}

NoBudget == [status |-> "ABSENT", maker |-> None, checker |-> None]
NewLine(amount) == [revised |-> amount, actual |-> 0]
NoCommitment == [status |-> "ABSENT", line |-> None, amount |-> 0, released |-> 0, source |-> None]

Open == {"OPEN", "PARTIALLY_RELEASED"}

BudgetTypeOK ==
    /\ \A b \in Budgets :
          db[b].status \in {"ABSENT", "DRAFT", "SUBMITTED", "APPROVED", "REJECTED", "CLOSED"}
    /\ \A l \in Lines : db[l].revised \in Int /\ db[l].actual \in Nat
    /\ \A k \in Commitments :
          /\ db[k].status \in Open \cup {"ABSENT", "RELEASED", "CANCELLED"}
          /\ db[k].line \in Lines \cup {None} /\ db[k].amount \in Nat /\ db[k].released \in Nat

CreateBudget(b, u) ==
    Statement(In(b, {"ABSENT"}), db' = [db EXCEPT ![b].status = "DRAFT", ![b].maker = u])

SubmitBudget(c, b) ==
    Handler(c, "submit", b, None, In(b, {"DRAFT", "REJECTED"}), Becomes(b, "SUBMITTED"))

ApproveBudget(c, b, u) ==
    Handler(c, "approve", b, u, In(b, {"SUBMITTED"}) /\ db[b].maker # u,
            ApprovedBy(u, b, "APPROVED"))

RejectBudget(c, b) ==
    Handler(c, "reject", b, None, In(b, {"SUBMITTED"}), Becomes(b, "REJECTED"))

CloseBudget(c, b) ==
    Handler(c, "close", b, None, In(b, {"APPROVED"}), Becomes(b, "CLOSED"))

\* The new amount is compared with nothing.
Revise(c, l, amount) ==
    Handler(c, "revise", l, amount, In(BudgetOf[l], {"APPROVED"}),
            db' = [db EXCEPT ![l].revised = amount])

CommittedOf(l) ==
    SumFunctionOnSet([k \in Commitments |-> db[k].amount - db[k].released],
                     {k \in Commitments : In(k, Open) /\ db[k].line = l})

\* getAvailableForLine, its queries taken together.
Available(l) == db[l].revised - db[l].actual - CommittedOf(l)

\* Mutated form of Transfer: the new amounts are computed from what was read.
TransferAbsolute(c, l, m, amount) ==
    \/ /\ l # m /\ BudgetOf[l] = BudgetOf[m]
       /\ In(BudgetOf[l], {"APPROVED"}) /\ Available(l) >= amount
       /\ db[m].revised + amount <= MaxRevised
       /\ Enter(c, "transfer", "write", l, <<m, amount>>, <<db[l].revised, db[m].revised>>)
    \/ /\ At(c, "transfer", "write", l, <<m, amount>>)
       /\ db' = [db EXCEPT ![l].revised = call[c].seen[1] - amount,
                           ![m].revised = call[c].seen[2] + amount]
       /\ Leave(c)

Transfer(c, l, m, amount) ==
    Handler(c, "transfer", l, <<m, amount>>,
            /\ l # m /\ BudgetOf[l] = BudgetOf[m]
            /\ In(BudgetOf[l], {"APPROVED"}) /\ Available(l) >= amount
            /\ db[m].revised + amount <= MaxRevised,
            db' = [db EXCEPT ![l].revised = @ - amount, ![m].revised = @ + amount])

Reserve(k, l, amount, source) ==
    /\ In(k, {"ABSENT"})
    /\ db' = [db EXCEPT ![k] = [status |-> "OPEN", line |-> l, amount |-> amount,
                                released |-> 0, source |-> source]]

MayReserve(l, amount) == In(BudgetOf[l], {"APPROVED"}) /\ Available(l) >= amount

CreateCommitment(c, l, amount) ==
    Handler(c, "createCommitment", l, amount, MayReserve(l, amount),
            \E k \in Commitments : Reserve(k, l, amount, None))

\* Mutated form of MayRelease: what was released before is not counted.
MayReleaseAgain(k, amount) == In(k, Open) /\ amount <= db[k].amount

MayRelease(k, amount) == In(k, Open) /\ db[k].released + amount <= db[k].amount

Release(k, released) ==
    db' = [db EXCEPT ![k].released = released,
                     ![k].status = IF released >= db[k].amount THEN "RELEASED"
                                   ELSE "PARTIALLY_RELEASED"]

\* What has been released is written as it was read plus the amount.
ReleaseCommitment(c, k, amount) ==
    \/ MayRelease(k, amount)
       /\ Enter(c, "releaseCommitment", "write", k, amount, db[k].released)
    \/ /\ At(c, "releaseCommitment", "write", k, amount)
       /\ Release(k, call[c].seen + amount)
       /\ Leave(c)

CancelCommitment(c, k) ==
    Handler(c, "cancelCommitment", k, None, In(k, Open), Becomes(k, "CANCELLED"))

ApprovalsNext ==
    \E b \in Budgets :
        \/ \E u \in Users : CreateBudget(b, u)
        \/ \E c \in Calls :
              \/ SubmitBudget(c, b) \/ RejectBudget(c, b) \/ CloseBudget(c, b)
              \/ \E u \in Users : ApproveBudget(c, b, u)

LinesNext ==
    \E c \in Calls :
        \/ \E l \in Lines, amount \in Amounts :
              \/ Revise(c, l, amount) \/ CreateCommitment(c, l, amount)
              \/ \E m \in Lines : Transfer(c, l, m, amount)
        \/ \E k \in Commitments :
              \/ CancelCommitment(c, k)
              \/ \E amount \in Amounts : ReleaseCommitment(c, k, amount)

BudgetNext == ApprovalsNext \/ LinesNext

-----------------------------------------------------------------------------
\* A budget that was ever in force was approved by somebody other than its
\* preparer, although submissions, approvals and rejections overwrite each
\* other.
BudgetFourEyes == \A b \in Budgets : In(b, {"APPROVED", "CLOSED"}) => FourEyes(b)

\* The total of a budget changes by a revision only: transfers move amounts
\* between its lines whatever else runs.
Envelope(b) == SumFunctionOnSet([l \in Lines |-> db[l].revised], {l \in Lines : BudgetOf[l] = b})
EnvelopeKept ==
    [][\A b \in Budgets :
          \/ Envelope(b)' = Envelope(b)
          \/ \E c \in Calls : call[c].op = "revise" /\ call[c].at = "write"]_docVars

\* No commitment releases more than it reserved, although what was released is
\* written from an old read.
ReleasedWithin == \A k \in Commitments : db[k].released <= db[k].amount

\* The control over a budget: four eyes on it, and commitments that release
\* what they reserved at most, whatever else runs.
BudgetSound == CallTypeOK /\ BudgetTypeOK /\ BudgetFourEyes /\ ReleasedWithin
=============================================================================

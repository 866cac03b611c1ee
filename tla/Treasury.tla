------------------------------- MODULE Treasury -------------------------------
(***************************************************************************)
(* Loan facilities with their drawdowns and repayment schedules, and       *)
(* placements that mature and roll over.                                   *)
(***************************************************************************)
EXTENDS Documents, Sequences, Functions

CONSTANTS
    Loans, Facility,      \* loan facilities, and what each lends
    Sums,                 \* the amounts that requests carry
    MostInstallments,     \* bound: lines of a loan's schedules together
    MostDrawn,            \* bound: what is ever drawn
    Placements            \* bound: placements ever opened

ASSUME LoanAssumption == Facility \in Nat /\ Sums \subseteq Nat \ {0}

\* lines: what each installment asks for and what was paid on it.
NoLoan == [status |-> "ABSENT", drawn |-> 0, lines |-> <<>>]
NoPlacement == [status |-> "ABSENT", from |-> None, rolls |-> FALSE]

TreasuryTypeOK ==
    /\ \A n \in Loans :
          /\ db[n].status \in {"ABSENT", "ACTIVE"} /\ db[n].drawn \in Nat
          /\ \A i \in DOMAIN db[n].lines : db[n].lines[i] \in [due : Nat, paid : Nat]
    /\ \A p \in Placements :
          /\ db[p].status \in {"ABSENT", "ACTIVE", "MATURED"}
          /\ db[p].from \in Placements \cup {None} /\ db[p].rolls \in BOOLEAN

CreateLoanFacility(n) == Statement(In(n, {"ABSENT"}), Becomes(n, "ACTIVE"))

MayDraw(n, sum) == In(n, {"ACTIVE"}) /\ db[n].drawn + sum <= Facility

\* A drawdown is a row of its own, so two of them add up.
CreateDrawdown(c, n, sum) ==
    Handler(c, "draw", n, sum, MayDraw(n, sum) /\ db[n].drawn + sum <= MostDrawn,
            db' = [db EXCEPT ![n].drawn = @ + sum])

MaySchedule(n) == db[n].lines = <<>> /\ db[n].drawn > 0

\* The drawn amount as read, in equal installments; interest is left out.
GenerateRepaymentSchedule(c, n, count) ==
    \/ /\ MaySchedule(n) /\ db[n].drawn % count = 0
       /\ Enter(c, "schedule", "write", n, count, db[n].drawn)
    \/ /\ At(c, "schedule", "write", n, count)
       /\ Len(db[n].lines) + count <= MostInstallments
       /\ db' = [db EXCEPT ![n].lines =
                    @ \o [i \in 1..count |-> [due |-> call[c].seen \div count, paid |-> 0]]]
       /\ Leave(c)

MayRepay(line, sum) == line.paid # line.due /\ line.paid + sum <= line.due

\* What has been paid is written as it was read plus the payment.
RecordRepayment(c, n, i, sum) ==
    \/ /\ i \in DOMAIN db[n].lines /\ MayRepay(db[n].lines[i], sum)
       /\ Enter(c, "repay", "write", n, <<i, sum>>, db[n].lines[i].paid)
    \/ /\ At(c, "repay", "write", n, <<i, sum>>)
       /\ db' = [db EXCEPT ![n].lines[i].paid = call[c].seen + sum]
       /\ Leave(c)

\* The instruction says whether a placement rolls over at its end.
CreatePlacement(p, rolls) ==
    Statement(In(p, {"ABSENT"}),
        db' = [db EXCEPT ![p] = [status |-> "ACTIVE", from |-> None, rolls |-> rolls]])

MayMature(p) == In(p, {"ACTIVE"})

\* A rollover matures the placement and opens its successor in one transaction.
ProcessMaturity(c, p) ==
    \/ MayMature(p) /\ Enter(c, "mature", "write", p, None, None)
    \/ /\ At(c, "mature", "write", p, None)
       /\ IF db[p].rolls
          THEN \E q \in Placements :
                  /\ In(q, {"ABSENT"})
                  /\ db' = [db EXCEPT ![p].status = "MATURED",
                               ![q] = [status |-> "ACTIVE", from |-> p, rolls |-> TRUE]]
          ELSE Becomes(p, "MATURED")
       /\ Leave(c)

LoansNext ==
    \E n \in Loans :
        \/ CreateLoanFacility(n)
        \/ \E c \in Calls, sum \in Sums :
              \/ CreateDrawdown(c, n, sum) \/ GenerateRepaymentSchedule(c, n, sum)
              \/ \E i \in 1..MostInstallments : RecordRepayment(c, n, i, sum)

PlacementsNext ==
    \E p \in Placements :
        \/ \E rolls \in BOOLEAN : CreatePlacement(p, rolls)
        \/ \E c \in Calls : ProcessMaturity(c, p)

-----------------------------------------------------------------------------
\* No installment is ever paid beyond what it asks for, although what was paid
\* is written from an old read.
PaidWithinInstallment ==
    \A n \in Loans : \A i \in DOMAIN db[n].lines : db[n].lines[i].paid <= db[n].lines[i].due

\* What the installments of a loan ask for.
Asked(n) ==
    SumFunctionOnSet([i \in DOMAIN db[n].lines |-> db[n].lines[i].due], DOMAIN db[n].lines)

\* While requests take turns, a loan is drawn within its facility and its
\* installments ask for no more than was drawn.
LoansAgree ==
    tidy /\ Alone => \A n \in Loans :
        /\ db[n].drawn <= Facility
        /\ Asked(n) <= db[n].drawn

\* While requests take turns, the money of a placement that matured is placed
\* again once.
OneRollover ==
    /\ \A p \in Placements : db[p].from # None => In(db[p].from, {"MATURED"})
    /\ tidy /\ Alone => \A p, q \in Placements :
          p # q /\ db[p].from # None => db[p].from # db[q].from

\* Loans and placements keep within what was agreed: PaidWithinInstallment
\* always, LoansAgree and OneRollover while requests take turns.
TreasurySound == TreasuryTypeOK /\ PaidWithinInstallment /\ LoansAgree /\ OneRollover
=============================================================================

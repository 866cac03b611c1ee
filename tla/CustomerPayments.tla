--------------------------- MODULE CustomerPayments ---------------------------
(***************************************************************************)
(* Installments of sales, and the mortgages whose disbursement pays them.  *)
(* A payment posts an entry and then writes the amount paid as it was read *)
(* plus the payment.  A schedule has one installment here, of the price;   *)
(* amounts are whole cents.                                                *)
(***************************************************************************)
EXTENDS Documents

CONSTANTS
    Installments,
    Due,         \* the amount of an installment
    Mortgages,
    Lendable,    \* amounts that lenders approve
    Payments,    \* amounts that customers and lenders pay
    MaxCash      \* bound: cash of an installment before it is left alone

ASSUME PaymentsAssumption ==
    /\ Due \in [Installments -> Nat] /\ MaxCash \in Nat /\ Payments \subseteq Nat \ {0}
    /\ Lendable \subseteq Nat /\ Installments \cap Mortgages = {}

\* cash is what journal entries say was received, most the most that a mortgage
\* was ever approved for, and lent what journal entries say it brought.
NoInstallment == [status |-> "ABSENT", paid |-> 0, cash |-> 0]
NoMortgage == [status |-> "ABSENT", approved |-> 0, most |-> 0, disbursed |-> 0, lent |-> 0]

PaymentsTypeOK ==
    /\ \A l \in Installments :
          db[l].status \in {"ABSENT", "DUE"} /\ db[l].paid \in Nat /\ db[l].cash \in Nat
    /\ \A m \in Mortgages :
          db[m].status \in {"ABSENT", "DRAFT", "SUBMITTED", "APPROVED", "DECLINED",
                            "DISBURSED", "CLOSED"}

CreateInstallmentSchedule(l) == Statement(In(l, {"ABSENT"}), Becomes(l, "DUE"))

\* A payment may exceed what remains by a cent.
Tolerance == 1

\* Mutated form of MayPay: what was paid before is not counted.
MayPayAgain(l, amount) == In(l, {"DUE"}) /\ amount <= Due[l] + Tolerance

MayPay(l, amount) == In(l, {"DUE"}) /\ amount <= Due[l] - db[l].paid + Tolerance

PaidNow(seen, amount) == seen + amount

\* recordCustomerPayment, for a customer and for a disbursement.
Pay(c, op, row, l, amount, post, then) ==
    LET here(at) == At(c, op, at, row, <<l, amount>>)
    IN  \/ /\ here("read")
           /\ IF MayPay(l, amount) /\ db[l].cash < MaxCash THEN Keep(c, "post", db[l].paid)
              ELSE Leave(c)
           /\ UNCHANGED db
        \/ here("post") /\ post /\ Goto(c, "paid")
        \/ /\ here("paid")
           /\ db' = [db EXCEPT ![l].paid = PaidNow(call[c].seen, amount)]
           /\ then

RecordCustomerPayment(c, l, amount) ==
    \/ Enter(c, "payment", "read", l, <<l, amount>>, None)
    \/ Pay(c, "payment", l, l, amount, db' = [db EXCEPT ![l].cash = @ + amount], Leave(c))

CreateApplication(m) == Statement(In(m, {"ABSENT"}), Becomes(m, "DRAFT"))

SubmitApplication(c, m) ==
    Handler(c, "submitMortgage", m, None, In(m, {"DRAFT"}), Becomes(m, "SUBMITTED"))

\* Each approval brings an amount of its own.
ApproveApplication(c, m, amount) ==
    Handler(c, "approveMortgage", m, amount, In(m, {"SUBMITTED"}),
            db' = [db EXCEPT ![m].status = "APPROVED", ![m].approved = amount,
                             ![m].most = IF amount > @ THEN amount ELSE @])

DeclineApplication(c, m) ==
    Handler(c, "declineMortgage", m, None, In(m, {"SUBMITTED"}), Becomes(m, "DECLINED"))

MayDisburse(m, amount) == In(m, {"APPROVED"}) /\ amount <= db[m].approved

\* The request names the installment that is paid.
Disburse(c, m, l, amount) ==
    \/ MayDisburse(m, amount) /\ Enter(c, "disburse", "read", m, <<l, amount>>, None)
    \/ Pay(c, "disburse", m, l, amount,
           db' = [db EXCEPT ![l].cash = @ + amount, ![m].lent = @ + amount], Goto(c, "write"))
    \/ /\ At(c, "disburse", "write", m, <<l, amount>>)
       /\ db' = [db EXCEPT ![m].status = "DISBURSED", ![m].disbursed = amount]
       /\ Leave(c)

CloseApplication(c, m) ==
    Handler(c, "closeMortgage", m, None, In(m, {"DISBURSED"}), Becomes(m, "CLOSED"))

PaymentsNext ==
    \/ \E l \in Installments :
          \/ CreateInstallmentSchedule(l)
          \/ \E c \in Calls, amount \in Payments : RecordCustomerPayment(c, l, amount)
    \/ \E m \in Mortgages :
          \/ CreateApplication(m)
          \/ \E c \in Calls :
                \/ SubmitApplication(c, m) \/ DeclineApplication(c, m) \/ CloseApplication(c, m)
                \/ \E amount \in Lendable : ApproveApplication(c, m, amount)
                \/ \E l \in Installments, amount \in Payments : Disburse(c, m, l, amount)

-----------------------------------------------------------------------------
\* No installment is paid more than a cent beyond what is due, or beyond the cash
\* that came in, although the amount paid is written from an old read.
PaidWithinDue == \A l \in Installments : db[l].paid <= Due[l] + Tolerance /\ db[l].paid <= db[l].cash

\* What a mortgage says it disbursed was once approved, and came in, although
\* approvals for other amounts, refusals and disbursements overwrite each other.
\* (A second approval that is late leaves less approved than was disbursed.)
DisbursedApproved ==
    \A m \in Mortgages :
        /\ In(m, {"DISBURSED", "CLOSED"}) => db[m].disbursed > 0
        /\ db[m].disbursed <= db[m].most /\ db[m].disbursed <= db[m].lent

\* While requests take turns, the cash of an installment is what it counts as
\* paid, and a mortgage brings cash once, when it is disbursed, within what it is
\* approved for.
CashIsPaid ==
    tidy /\ Alone =>
        /\ \A l \in Installments : db[l].paid = db[l].cash
        /\ \A m \in Mortgages :
              /\ db[m].lent = db[m].disbursed /\ db[m].disbursed <= db[m].approved
              /\ db[m].lent > 0 => In(m, {"DISBURSED", "CLOSED"})

\* What customers and lenders paid is what came in: PaidWithinDue and
\* DisbursedApproved always, CashIsPaid while requests take turns.
CustomerPaymentsSound == PaymentsTypeOK /\ PaidWithinDue /\ DisbursedApproved /\ CashIsPaid
=============================================================================

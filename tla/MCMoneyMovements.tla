-------------------------- MODULE MCMoneyMovements --------------------------
(***************************************************************************)
(* Instances of MoneyMovements for TLC: every refund is of one payment.    *)
(* Payments with their refunds and transfers share no row, so one          *)
(* behaviour has either.                                                   *)
(***************************************************************************)
EXTENDS MoneyMovements

CONSTANT p1

VARIABLE concerns   \* the rows that users create in this behaviour

OfP1 == [x \in Refunds |-> p1]

MCInit == MoneyInit /\ concerns \in {Payments \cup Refunds, Transfers}
MCNext == 
    /\ MoneyNext
    /\ \A x \in Rows \ concerns : status'[x] = "ABSENT" /\ provider'[x] = "none"
    /\ concerns' = concerns
MCSpec == MCInit /\ [][MCNext]_<<moneyVars, concerns>> /\ MoneyFairness
=============================================================================

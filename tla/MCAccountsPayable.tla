------------------------- MODULE MCAccountsPayable -------------------------
(***************************************************************************)
(* Instances of AccountsPayable for TLC.  An invoice is for two cents.     *)
(* Either two requests interleave over one invoice and may stop anywhere,  *)
(* or requests take turns over two invoices and a batch and end only where *)
(* the code refuses them.                                                  *)
(***************************************************************************)
EXTENDS AccountsPayable, TLC

CONSTANTS i1, i2, d1

Part(i, amount) == [invoice |-> i, amount |-> amount, deductions |-> {}]
Withheld(i, amount, d) == [invoice |-> i, amount |-> amount, deductions |-> {d}]

OneVendor == [i \in Invoices |-> "acme"]
TwoVendors == (i1 :> "acme" @@ i2 :> "bolt")
TwoCents == [i \in Invoices |-> 2]

\* An invoice in two parts, tax withheld from one, and one part of it.
InParts == {<<Withheld(i1, 1, d1), Part(i1, 1)>>, <<Part(i1, 1)>>}

\* Invoices in full, in two parts, and a list over two vendors, which is refused.
InFull ==
    {<<Part(i1, 2)>>, <<Part(i1, 1), Withheld(i1, 1, d1)>>, <<Part(i2, 2)>>,
     <<Part(i1, 1), Part(i2, 1)>>}

AnyList == InParts \cup InFull

\* One invoice, no batch, and two vouchers or a remittance.
Race ==
    /\ PayNext
    /\ invoice'[i2] = invoice[i2] /\ batch' = batch
    /\ \A r \in Requests : request'[r].list \in InParts \cup {<<>>}
    /\ journal'[d1] = 0 \/ \E v \in Vouchers : voucher'[v].status = "ABSENT"

MCNext == serial' = serial /\ IF serial THEN OneByOne ELSE Race
MCSpec == SubledgerInit /\ [][MCNext]_<<payVars, serial>>

Symmetry == Permutations(Users) \cup Permutations(Vouchers) \cup Permutations(Requests)
=============================================================================

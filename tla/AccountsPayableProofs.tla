------------------------ MODULE AccountsPayableProofs ------------------------
(***************************************************************************)
(* Payments are checked, follow their invoices, and are in the ledger.     *)
(*                                                                         *)
(* The argument: rows only grow (Grows), so what a request has read and    *)
(* relies on still holds when it writes (RequestInv), and every request    *)
(* that still owes a vendor ledger row has a journal entry of its own      *)
(* (RowsCovered), however many requests post one document.                 *)
(***************************************************************************)
EXTENDS AccountsPayable, SumTheorems, SequenceTheorems

\* No step takes back an entry, an approval, or the posting of an invoice, or
\* changes who prepared a voucher or a batch.
Grows ==
    /\ \A x \in Docs : journal'[x] >= journal[x] /\ vendorLedger'[x] >= vendorLedger[x]
    /\ \A i \in Invoices : invoice[i].status = "POSTED" => invoice'[i].status = "POSTED"
    /\ \A v \in Vouchers :
        voucher[v].status # "ABSENT" =>
            /\ voucher'[v].status # "ABSENT"
            /\ voucher'[v].createdBy = voucher[v].createdBy
            /\ Vetted(voucher[v]) => Vetted(voucher'[v])
    /\ \A b \in Batches :
        batch[b].status # "ABSENT" =>
            /\ batch'[b].status # "ABSENT"
            /\ batch'[b].createdBy = batch[b].createdBy
            /\ Vetted(batch[b]) => Vetted(batch'[b])

\* Under such a step what could be settled still can.
LEMMA SettleableStays ==
    ASSUME PayTypeOK, PayTypeOK', Grows, NEW list \in Seq(AllocationType), Settleable(list)
    PROVE  Settleable(list)'
<1>1. \A k \in DOMAIN list : list[k].invoice \in Invoices
  <2>1. \A k \in DOMAIN list : list[k] \in AllocationType
    OBVIOUS
  <2>2. QED
    BY <2>1 DEF AllocationType
<1>2. \A i \in Invoices : journal[i] \in Nat /\ journal'[i] \in Nat /\ journal'[i] >= journal[i]
  BY DEF PayTypeOK, Grows, Docs
<1>3. ASSUME NEW k \in DOMAIN list
      PROVE  invoice'[list[k].invoice].status = "POSTED" /\ journal'[list[k].invoice] > 0
  <2>1. PICK i \in Invoices : i = list[k].invoice
    BY <1>1
  <2>2. invoice[i].status = "POSTED" /\ journal[i] > 0
    BY <2>1 DEF Settleable
  <2>3. QED
    BY <2>1, <2>2, <1>2 DEF Grows
<1>4. QED
  BY <1>3 DEF Settleable

\* Under such a step a request that does not move keeps its invariant.
LEMMA RequestStays ==
    ASSUME PayTypeOK, PayTypeOK', Grows, NEW r \in Requests, request'[r] = request[r],
           RequestOK(request[r])
    PROVE  RequestOK(request[r])'
<1>1. PICK q \in RequestRow : q = request[r]
  BY DEF PayTypeOK
<1>2. q = request'[r]
  BY <1>1
<1>3. \A x \in Docs : /\ journal[x] \in Nat /\ journal'[x] \in Nat /\ journal'[x] >= journal[x]
                      /\ vendorLedger[x] \in Nat /\ vendorLedger'[x] \in Nat
                      /\ vendorLedger'[x] >= vendorLedger[x]
  BY DEF PayTypeOK, Grows
<1>4. InvoiceRequestOK(request[r])'
  BY <1>1, <1>2, <1>3 DEF RequestOK, InvoiceRequestOK, Docs
<1>5. RemitRequestOK(request[r])'
  BY <1>1, <1>2, <1>3 DEF RequestOK, RemitRequestOK, Docs
<1>6. BatchRequestOK(request[r])'
  BY <1>1, <1>2 DEF RequestOK, BatchRequestOK, Grows
<1>7. VoucherRequestOK(request[r])'
  <2>1. Settleable(q.list) => Settleable(q.list)'
    BY <1>1, SettleableStays DEF RequestRow
  <2>2. q.op = "createVoucher" => Settleable(request[r].list)'
    BY <1>1, <1>2, <2>1 DEF RequestOK, VoucherRequestOK, Settleable
  <2>3. q.op = "postVoucher" /\ q.batch # None => q.batch \in Batches
    BY <1>1 DEF RequestRow
  <2>4. QED
    BY <1>1, <1>2, <1>3, <2>2, <2>3 DEF RequestOK, VoucherRequestOK, Grows, Docs
<1>8. QED
  BY <1>4, <1>5, <1>6, <1>7 DEF RequestOK

-----------------------------------------------------------------------------
(* Counting the requests that owe a ledger row *)

\* The requests that owe a row are finitely many.
LEMMA OwingFinite ==
    ASSUME NEW x
    PROVE  IsFiniteSet(Owing(x)) /\ Cardinality(Owing(x)) \in Nat
<1>1. IsFiniteSet(Owing(x))
  BY PayAssumption, FS_Subset DEF Owing
<1>2. QED
  BY <1>1, FS_CardinalityType

\* A step that neither posts nor writes a row keeps the rows covered, unless a
\* request comes to owe one.
LEMMA RowsKept ==
    ASSUME PayTypeOK, RowsCovered, UNCHANGED <<journal, vendorLedger>>, NEW r \in Requests,
           \A q \in Requests \ {r} : request'[q] = request[q],
           \A x \in Docs : Owes(request[r], x)' => Owes(request[r], x)
    PROVE  RowsCovered'
<1> SUFFICES ASSUME NEW x \in Docs
             PROVE  vendorLedger[x] + Cardinality(Owing(x)') <= journal[x]
  BY DEF RowsCovered
<1>1. PICK S : S = Owing(x)'
  OBVIOUS
<1>2. S \subseteq Owing(x)
  BY <1>1 DEF Owing, Owes
<1>3. Cardinality(S) <= Cardinality(Owing(x)) /\ Cardinality(S) \in Nat
  BY <1>2, OwingFinite, FS_Subset, FS_CardinalityType
<1>4. vendorLedger[x] + Cardinality(Owing(x)) <= journal[x]
  BY DEF RowsCovered
<1>5. journal[x] \in Nat /\ vendorLedger[x] \in Nat /\ Cardinality(Owing(x)) \in Nat
  BY OwingFinite DEF PayTypeOK
<1>6. vendorLedger[x] + Cardinality(S) <= journal[x]
  BY <1>3, <1>4, <1>5
<1>7. QED
  BY <1>1, <1>6

\* A posting covers the row that its request comes to owe.
LEMMA RowsPosted ==
    ASSUME PayTypeOK, RowsCovered, UNCHANGED vendorLedger, NEW r \in Requests, NEW y \in Docs,
           journal' = [journal EXCEPT ![y] = @ + 1],
           \A q \in Requests \ {r} : request'[q] = request[q],
           \A x \in Docs : Owes(request[r], x)' => x = y
    PROVE  RowsCovered'
<1> SUFFICES ASSUME NEW x \in Docs
             PROVE  vendorLedger[x] + Cardinality(Owing(x)') <= journal'[x]
  BY DEF RowsCovered
<1>1. PICK S : S = Owing(x)'
  OBVIOUS
<1>2. vendorLedger[x] + Cardinality(Owing(x)) <= journal[x]
  BY DEF RowsCovered
<1>3. journal[x] \in Nat /\ vendorLedger[x] \in Nat /\ Cardinality(Owing(x)) \in Nat
  BY OwingFinite DEF PayTypeOK
<1>4. CASE x = y
  <2>1. S \subseteq Owing(x) \cup {r}
    BY <1>1 DEF Owing, Owes
  <2>2. IsFiniteSet(Owing(x) \cup {r}) /\ Cardinality(Owing(x) \cup {r}) <= Cardinality(Owing(x)) + 1
    <3>1. IsFiniteSet(Owing(x) \cup {r})
      BY OwingFinite, FS_AddElement
    <3>2. \/ Cardinality(Owing(x) \cup {r}) = Cardinality(Owing(x))
          \/ Cardinality(Owing(x) \cup {r}) = Cardinality(Owing(x)) + 1
      BY OwingFinite, FS_AddElement
    <3>3. QED
      BY <3>1, <3>2, <1>3
  <2>3. Cardinality(S) <= Cardinality(Owing(x) \cup {r}) /\ Cardinality(S) \in Nat
    BY <2>1, <2>2, FS_Subset, FS_CardinalityType
  <2>4. Cardinality(Owing(x) \cup {r}) \in Nat
    BY <2>2, FS_CardinalityType
  <2>5. journal'[x] = journal[x] + 1
    BY <1>4 DEF PayTypeOK
  <2>6. vendorLedger[x] + Cardinality(S) <= journal'[x]
    BY <1>2, <1>3, <2>2, <2>3, <2>4, <2>5
  <2>7. QED
    BY <1>1, <2>6
<1>5. CASE x # y
  <2>1. S \subseteq Owing(x)
    BY <1>1, <1>5 DEF Owing, Owes
  <2>2. Cardinality(S) <= Cardinality(Owing(x)) /\ Cardinality(S) \in Nat
    BY <2>1, OwingFinite, FS_Subset, FS_CardinalityType
  <2>3. journal'[x] = journal[x]
    BY <1>5 DEF PayTypeOK
  <2>4. vendorLedger[x] + Cardinality(S) <= journal'[x]
    BY <1>2, <1>3, <2>2, <2>3
  <2>5. QED
    BY <1>1, <2>4
<1>6. QED
  BY <1>4, <1>5

\* A request that writes the row it owed owes it no more.
LEMMA RowsWritten ==
    ASSUME PayTypeOK, RowsCovered, UNCHANGED journal, NEW r \in Requests, NEW y \in Docs,
           vendorLedger' = [vendorLedger EXCEPT ![y] = @ + 1],
           \A q \in Requests \ {r} : request'[q] = request[q],
           Owes(request[r], y), \A x \in Docs : ~ Owes(request[r], x)'
    PROVE  RowsCovered'
<1> SUFFICES ASSUME NEW x \in Docs
             PROVE  vendorLedger'[x] + Cardinality(Owing(x)') <= journal[x]
  BY DEF RowsCovered
<1>1. PICK S : S = Owing(x)'
  OBVIOUS
<1>2. vendorLedger[x] + Cardinality(Owing(x)) <= journal[x]
  BY DEF RowsCovered
<1>3. journal[x] \in Nat /\ vendorLedger[x] \in Nat /\ Cardinality(Owing(x)) \in Nat
  BY OwingFinite DEF PayTypeOK
<1>4. S \subseteq Owing(x) \ {r}
  BY <1>1 DEF Owing, Owes
<1>5. IsFiniteSet(Owing(x) \ {r})
  BY OwingFinite, FS_Subset
<1>6. Cardinality(S) <= Cardinality(Owing(x) \ {r}) /\ Cardinality(S) \in Nat
      /\ Cardinality(Owing(x) \ {r}) \in Nat
  BY <1>4, <1>5, FS_Subset, FS_CardinalityType
<1>7. CASE x = y
  <2>1. r \in Owing(x)
    BY <1>7 DEF Owing
  <2>2. Cardinality(Owing(x) \ {r}) = Cardinality(Owing(x)) - 1
    BY <2>1, OwingFinite, FS_RemoveElement
  <2>3. vendorLedger'[x] = vendorLedger[x] + 1
    BY <1>7 DEF PayTypeOK
  <2>4. vendorLedger'[x] + Cardinality(S) <= journal[x]
    BY <1>2, <1>3, <1>6, <2>2, <2>3
  <2>5. QED
    BY <1>1, <2>4
<1>8. CASE x # y
  <2>1. Cardinality(Owing(x) \ {r}) <= Cardinality(Owing(x))
    BY OwingFinite, FS_Subset
  <2>2. vendorLedger'[x] = vendorLedger[x]
    BY <1>8 DEF PayTypeOK
  <2>3. vendorLedger'[x] + Cardinality(S) <= journal[x]
    BY <1>2, <1>3, <1>6, <2>1, <2>2
  <2>4. QED
    BY <1>1, <2>3
<1>9. QED
  BY <1>7, <1>8

-----------------------------------------------------------------------------
(* One step of one request *)

\* What the documents that a step changes have to satisfy.
DocsOK ==
    /\ \A v \in Vouchers :
        /\ voucher'[v].status = "ABSENT" => voucher'[v] = voucher[v] /\ journal'[v] = journal[v]
        /\ journal'[v] > journal[v] => Vetted(voucher'[v])
        /\ voucher'[v].status \in {"APPROVED", "POSTED"} /\ voucher'[v].status # voucher[v].status
            => Vetted(voucher'[v])
        /\ voucher'[v].status = "POSTED" /\ voucher[v].status # "POSTED" => vendorLedger'[v] > 0
    /\ \A b \in Batches :
        batch'[b].status \in {"APPROVED", "PROCESSED"} /\ batch'[b].status # batch[b].status
        => Vetted(batch'[b])
    /\ \A i \in Invoices :
        invoice'[i].status = "POSTED" /\ invoice[i].status # "POSTED" => journal'[i] > 0
    /\ \A d \in Deductions :
        deduction'[d] = "REMITTED" /\ deduction[d] # "REMITTED" => journal'[d] > 0

\* A step keeps the invariant once the request that takes it, and the documents
\* it changes, are accounted for.
LEMMA StepStays ==
    ASSUME PayInv, PayTypeOK', Grows, DocsOK, RowsCovered', NEW r,
           \A q \in Requests \ {r} : request'[q] = request[q],
           r \in Requests => RequestOK(request[r])',
           \A v \in Vouchers :
               voucher'[v].allocations = voucher[v].allocations
               \/ \A k \in DOMAIN voucher'[v].allocations :
                    LET i == voucher'[v].allocations[k].invoice
                    IN  invoice'[i].status = "POSTED" /\ journal'[i] > 0
    PROVE  PayInv'
<1>1. RequestInv'
  <2>1. ASSUME NEW q \in Requests
        PROVE  RequestOK(request[q])'
    <3>1. ASSUME q # r PROVE RequestOK(request[q])'
      BY <3>1, RequestStays DEF PayInv, RequestInv
    <3>2. ASSUME q = r PROVE RequestOK(request[q])'
      BY <3>2
    <3>3. QED
      BY <3>1, <3>2
  <2>2. QED
    BY <2>1 DEF RequestInv
<1>2. \A x \in Docs : /\ journal[x] \in Nat /\ journal'[x] \in Nat /\ journal'[x] >= journal[x]
                      /\ vendorLedger[x] \in Nat /\ vendorLedger'[x] \in Nat
                      /\ vendorLedger'[x] >= vendorLedger[x]
  BY DEF PayInv, PayTypeOK, Grows
<1>3. AbsentInv'
  BY DEF PayInv, AbsentInv, Grows, DocsOK
<1>4. LedgerBacked'
  <2>1. \A x \in Docs : vendorLedger'[x] <= journal'[x]
    <3>1. ASSUME NEW x \in Docs PROVE vendorLedger'[x] <= journal'[x]
      <4>1. PICK S : S = Owing(x)'
        OBVIOUS
      <4>2. Cardinality(S) \in Nat
        BY <4>1, PayAssumption, FS_Subset, FS_CardinalityType DEF Owing
      <4>3. vendorLedger'[x] + Cardinality(S) <= journal'[x]
        BY <4>1 DEF RowsCovered
      <4>4. QED
        BY <4>2, <4>3, <1>2
    <3>2. QED
      BY <3>1
  <2>2. \A v \in PostedVouchers' : vendorLedger'[v] > 0
    BY <1>2 DEF PostedVouchers, PayInv, LedgerBacked, DocsOK, Docs
  <2>3. \A i \in Invoices : invoice'[i].status = "POSTED" => journal'[i] > 0
    BY <1>2 DEF PayInv, LedgerBacked, DocsOK, Docs
  <2>4. \A d \in Deductions : deduction'[d] = "REMITTED" => journal'[d] > 0
    BY <1>2 DEF PayInv, LedgerBacked, DocsOK, Docs
  <2>5. QED
    BY <2>1, <2>2, <2>3, <2>4 DEF LedgerBacked
<1>5. PaymentChecked'
  <2>1. ASSUME NEW v \in Vouchers,
               voucher'[v].status \in {"APPROVED", "POSTED"} \/ journal'[v] > 0
        PROVE  Vetted(voucher'[v])
    <3>1. journal[v] \in Nat /\ journal'[v] \in Nat /\ journal'[v] >= journal[v]
      BY <1>2 DEF Docs
    <3>2. CASE \/ journal'[v] > journal[v]
               \/ voucher'[v].status \in {"APPROVED", "POSTED"}
                  /\ voucher'[v].status # voucher[v].status
      BY <3>2 DEF DocsOK
    <3>3. CASE \/ journal'[v] = journal[v] /\ journal'[v] > 0
               \/ voucher'[v].status \in {"APPROVED", "POSTED"}
                  /\ voucher'[v].status = voucher[v].status
      <4>1. Vetted(voucher[v])
        BY <3>3 DEF PayInv, PaymentChecked
      <4>2. voucher[v].status # "ABSENT"
        BY <3>3 DEF PayInv, AbsentInv
      <4>3. QED
        BY <4>1, <4>2 DEF Grows
    <3>4. QED
      BY <2>1, <3>1, <3>2, <3>3
  <2>2. ASSUME NEW b \in Batches, batch'[b].status \in {"APPROVED", "PROCESSED"}
        PROVE  Vetted(batch'[b])
    BY <2>2 DEF PayInv, PaymentChecked, DocsOK, Grows
  <2>3. QED
    BY <2>1, <2>2 DEF PaymentChecked, Vetted
<1>6. PaymentAfterInvoice'
  <2>1. ASSUME NEW v \in Vouchers, NEW k \in DOMAIN voucher'[v].allocations
        PROVE  LET i == voucher'[v].allocations[k].invoice
               IN  invoice'[i].status = "POSTED" /\ journal'[i] > 0
    <3>1. CASE voucher'[v].allocations = voucher[v].allocations
      <4>1. PICK list \in Seq(AllocationType) : list = voucher[v].allocations
        BY DEF PayInv, PayTypeOK, VoucherRow
      <4>2. Settleable(list)
        BY <4>1 DEF PayInv, PaymentAfterInvoice, Settleable
      <4>3. Settleable(list)'
        BY <4>2, SettleableStays DEF PayInv
      <4>4. QED
        BY <2>1, <3>1, <4>1, <4>3 DEF Settleable
    <3>2. QED
      BY <2>1, <3>1
  <2>2. QED
    BY <2>1 DEF PaymentAfterInvoice
<1>7. QED
  BY <1>1, <1>3, <1>4, <1>5, <1>6 DEF PayInv

-----------------------------------------------------------------------------
(* Steps that move a request and no document *)

\* The fields of a request have their types.
LEMMA RequestFields ==
    ASSUME PayTypeOK, NEW r \in Requests
    PROVE  /\ request[r] \in RequestRow
           /\ request[r].doc \in Docs \cup {None} /\ request[r].user \in Users \cup {None}
           /\ request[r].batch \in Batches \cup {None}
           /\ request[r].list \in Seq(AllocationType) /\ request[r].todo \subseteq Vouchers
BY DEF PayTypeOK, RequestRow

LEMMA IdleType == Idle \in RequestRow
<1>1. <<>> \in Seq(AllocationType)
  OBVIOUS
<1>2. QED
  BY <1>1 DEF Idle, RequestRow

\* A request is overwritten.
LEMMA OneRequest ==
    ASSUME PayTypeOK, NEW r \in Requests, NEW q \in RequestRow,
           request' = [request EXCEPT ![r] = q]
    PROVE  /\ request' \in [Requests -> RequestRow] /\ request'[r] = q
           /\ \A s \in Requests \ {r} : request'[s] = request[s]
BY DEF PayTypeOK

\* A request that ends relies on nothing and owes nothing.
LEMMA FinishOne ==
    ASSUME PayTypeOK, NEW r \in Requests, Finish(r)
    PROVE  /\ request' \in [Requests -> RequestRow] /\ request'[r] = Idle
           /\ \A s \in Requests \ {r} : request'[s] = request[s]
           /\ RequestOK(request[r])'
           /\ \A x \in Docs : ~ Owes(request[r], x)'
<1>1. /\ request' \in [Requests -> RequestRow] /\ request'[r] = Idle
      /\ \A s \in Requests \ {r} : request'[s] = request[s]
  BY IdleType, OneRequest DEF Finish
<1>2. request'[r].op = "none"
  BY <1>1 DEF Idle
<1>3. RequestOK(request[r])'
  BY <1>2 DEF RequestOK, InvoiceRequestOK, VoucherRequestOK, BatchRequestOK, RemitRequestOK
<1>4. \A x \in Docs : ~ Owes(request[r], x)'
  BY <1>2 DEF Owes
<1>5. QED
  BY <1>1, <1>3, <1>4

\* A request goes on to another step.
LEMMA GotoOne ==
    ASSUME PayTypeOK, NEW r \in Requests, Goto(r, "apply") \/ Goto(r, "ledger") \/ Goto(r, "status")
    PROVE  /\ request' \in [Requests -> RequestRow]
           /\ \A s \in Requests \ {r} : request'[s] = request[s]
           /\ request'[r].op = request[r].op /\ request'[r].doc = request[r].doc
           /\ request'[r].user = request[r].user /\ request'[r].batch = request[r].batch
           /\ request'[r].list = request[r].list /\ request'[r].todo = request[r].todo
           /\ Goto(r, "apply") => request'[r].step = "apply"
           /\ Goto(r, "ledger") => request'[r].step = "ledger"
           /\ Goto(r, "status") => request'[r].step = "status"
<1>1. request[r] \in RequestRow
  BY RequestFields
<1>2. ASSUME NEW step \in {"apply", "ledger", "status"}, Goto(r, step)
      PROVE  /\ request'[r] = [request[r] EXCEPT !.step = step]
             /\ [request[r] EXCEPT !.step = step] \in RequestRow
             /\ request' = [request EXCEPT ![r] = [request[r] EXCEPT !.step = step]]
  BY <1>1, <1>2 DEF Goto, PayTypeOK, RequestRow
<1>3. ASSUME NEW step \in {"apply", "ledger", "status"}, Goto(r, step)
      PROVE  /\ request' \in [Requests -> RequestRow]
             /\ \A s \in Requests \ {r} : request'[s] = request[s]
             /\ request'[r].op = request[r].op /\ request'[r].doc = request[r].doc
             /\ request'[r].user = request[r].user /\ request'[r].batch = request[r].batch
             /\ request'[r].list = request[r].list /\ request'[r].todo = request[r].todo
             /\ request'[r].step = step
  BY SMTT(30), <1>1, <1>2, <1>3, OneRequest DEF RequestRow
<1>4. QED
  BY <1>3

\* No document changes, and the request that moves comes to owe no row.
LEMMA OnlyRequest ==
    ASSUME PayInv, UNCHANGED <<docVars, journal, vendorLedger>>, NEW r \in Requests,
           request' \in [Requests -> RequestRow],
           \A s \in Requests \ {r} : request'[s] = request[s],
           RequestOK(request[r])',
           \A x \in Docs : Owes(request[r], x)' => Owes(request[r], x)
    PROVE  PayInv'
<1>1. PayTypeOK'
  BY DEF PayInv, PayTypeOK, docVars
<1>2. \A x \in Docs : journal[x] \in Nat /\ vendorLedger[x] \in Nat
  BY DEF PayInv, PayTypeOK
<1>3. Grows /\ DocsOK
  BY <1>2 DEF Grows, DocsOK, docVars, Docs
<1>4. RowsCovered'
  BY RowsKept DEF PayInv
<1>5. \A v \in Vouchers : voucher'[v].allocations = voucher[v].allocations
  BY DEF docVars
<1>6. QED
  BY <1>1, <1>3, <1>4, <1>5, StepStays

\* A request begins.
LEMMA BeginOne ==
    ASSUME PayInv, NEW r \in Requests, NEW q \in RequestRow, Begin(r, q),
           RequestOK(request[r])', \A x \in Docs : ~ Owes(q, x)
    PROVE  PayInv'
<1>1. PayTypeOK /\ request' = [request EXCEPT ![r] = q]
  BY DEF Begin, PayInv
<1>2. /\ request' \in [Requests -> RequestRow] /\ request'[r] = q
      /\ \A s \in Requests \ {r} : request'[s] = request[s]
  BY <1>1, OneRequest
<1>3. \A x \in Docs : ~ Owes(request[r], x)'
  BY <1>2 DEF Owes
<1>4. QED
  BY <1>2, <1>3, OnlyRequest DEF Begin

LEMMA BeginPostInvoiceStep ==
    ASSUME PayInv, NEW r \in Requests, NEW i \in Invoices, BeginPostInvoice(r, i)
    PROVE  PayInv'
<1>1. PICK q : q = [Idle EXCEPT !.op = "postInvoice", !.step = "journal", !.doc = i]
  OBVIOUS
<1>2. q \in RequestRow /\ q.op = "postInvoice" /\ q.step = "journal" /\ q.doc = i
  BY <1>1, IdleType DEF Idle, RequestRow, Docs
<1>3. Begin(r, q) /\ request'[r] = q
  BY <1>1, <1>2 DEF BeginPostInvoice, Begin, PayInv, PayTypeOK
<1>4. RequestOK(request[r])'
  BY <1>2, <1>3 DEF RequestOK, InvoiceRequestOK, VoucherRequestOK, BatchRequestOK, RemitRequestOK
<1>5. QED
  BY <1>2, <1>3, <1>4, BeginOne DEF Owes

LEMMA BeginVoucherStep ==
    ASSUME PayInv, NEW r \in Requests, NEW v \in Vouchers, NEW user \in Users,
           NEW b \in Batches \cup {None}, NEW list \in Lists, BeginVoucher(r, v, user, b, list)
    PROVE  PayInv'
<1>1. PICK q : q = [Idle EXCEPT !.op = "createVoucher", !.step = "insert", !.doc = v,
                                !.user = user, !.batch = b, !.list = list]
  OBVIOUS
<1>2. list \in Seq(AllocationType)
  BY PayAssumption
<1>3. /\ q \in RequestRow /\ q.op = "createVoucher" /\ q.step = "insert" /\ q.doc = v
      /\ q.user = user /\ q.list = list
  BY <1>1, <1>2, IdleType DEF Idle, RequestRow, Docs
<1>4. Begin(r, q) /\ request'[r] = q
  BY <1>1, <1>3 DEF BeginVoucher, Begin, PayInv, PayTypeOK
<1>5. Settleable(list)
  <2>1. ASSUME NEW k \in DOMAIN list
        PROVE  invoice[list[k].invoice].status = "POSTED" /\ journal[list[k].invoice] > 0
    <3>1. list[k] \in AllocationType
      BY <1>2
    <3>2. PICK i \in Invoices : i = list[k].invoice
      BY <3>1 DEF AllocationType
    <3>3. invoice[i].status = "POSTED"
      BY <3>2 DEF BeginVoucher
    <3>4. QED
      BY <3>2, <3>3 DEF PayInv, LedgerBacked
  <2>2. QED
    BY <2>1 DEF Settleable
<1>6. Settleable(request[r].list)'
  BY <1>3, <1>4, <1>5 DEF Settleable, Begin, docVars
<1>7. RequestOK(request[r])'
  BY <1>3, <1>4, <1>6
  DEF RequestOK, InvoiceRequestOK, VoucherRequestOK, BatchRequestOK, RemitRequestOK
<1>8. QED
  BY <1>3, <1>4, <1>7, BeginOne DEF Owes

LEMMA BeginApproveVoucherStep ==
    ASSUME PayInv, NEW r \in Requests, NEW v \in Vouchers, NEW user \in Users,
           BeginApproveVoucher(r, v, user)
    PROVE  PayInv'
<1>1. PICK q : q = [Idle EXCEPT !.op = "approveVoucher", !.step = "write", !.doc = v,
                                !.user = user]
  OBVIOUS
<1>2. /\ q \in RequestRow /\ q.op = "approveVoucher" /\ q.step = "write" /\ q.doc = v
      /\ q.user = user
  BY <1>1, IdleType DEF Idle, RequestRow, Docs
<1>3. Begin(r, q) /\ request'[r] = q /\ UNCHANGED voucher
  BY <1>1, <1>2 DEF BeginApproveVoucher, Begin, PayInv, PayTypeOK, docVars
<1>4. voucher[v].status = "DRAFT" /\ voucher[v].createdBy # user
  BY DEF BeginApproveVoucher
<1>5. RequestOK(request[r])'
  BY <1>2, <1>3, <1>4
  DEF RequestOK, InvoiceRequestOK, VoucherRequestOK, BatchRequestOK, RemitRequestOK
<1>6. QED
  BY <1>2, <1>3, <1>5, BeginOne DEF Owes

LEMMA BeginPostVoucherStep ==
    ASSUME PayInv, NEW r \in Requests, NEW v \in Vouchers, BeginPostVoucher(r, v)
    PROVE  PayInv'
<1>1. PICK q : q = [Idle EXCEPT !.op = "postVoucher", !.step = "journal", !.doc = v,
                                !.list = voucher[v].allocations]
  OBVIOUS
<1>2. voucher[v].allocations \in Seq(AllocationType)
  BY DEF PayInv, PayTypeOK, VoucherRow
<1>3. /\ q \in RequestRow /\ q.op = "postVoucher" /\ q.step = "journal" /\ q.doc = v
      /\ q.batch = None
  BY <1>1, <1>2, IdleType DEF Idle, RequestRow, Docs
<1>4. Begin(r, q) /\ request'[r] = q /\ UNCHANGED voucher
  BY <1>1, <1>3 DEF BeginPostVoucher, Begin, PayInv, PayTypeOK, docVars
<1>5. voucher[v].status = "APPROVED" /\ Vetted(voucher[v])
  BY DEF BeginPostVoucher, PayInv, PaymentChecked
<1>6. RequestOK(request[r])'
  BY <1>3, <1>4, <1>5
  DEF RequestOK, InvoiceRequestOK, VoucherRequestOK, BatchRequestOK, RemitRequestOK
<1>7. QED
  BY <1>3, <1>4, <1>6, BeginOne DEF Owes

LEMMA BeginApproveBatchStep ==
    ASSUME PayInv, NEW r \in Requests, NEW b \in Batches, NEW user \in Users,
           BeginApproveBatch(r, b, user)
    PROVE  PayInv'
<1>1. PICK q : q = [Idle EXCEPT !.op = "approveBatch", !.step = "write", !.batch = b,
                                !.user = user]
  OBVIOUS
<1>2. /\ q \in RequestRow /\ q.op = "approveBatch" /\ q.step = "write" /\ q.batch = b
      /\ q.user = user
  BY <1>1, IdleType DEF Idle, RequestRow
<1>3. Begin(r, q) /\ request'[r] = q /\ UNCHANGED batch
  BY <1>1, <1>2 DEF BeginApproveBatch, Begin, PayInv, PayTypeOK, docVars
<1>4. batch[b].status = "DRAFT" /\ batch[b].createdBy # user
  BY DEF BeginApproveBatch
<1>5. RequestOK(request[r])'
  BY <1>2, <1>3, <1>4
  DEF RequestOK, InvoiceRequestOK, VoucherRequestOK, BatchRequestOK, RemitRequestOK
<1>6. QED
  BY <1>2, <1>3, <1>5, BeginOne DEF Owes

LEMMA BeginProcessStep ==
    ASSUME PayInv, NEW r \in Requests, NEW b \in Batches, BeginProcess(r, b)
    PROVE  PayInv'
<1>1. PICK todo \in SUBSET Vouchers :
        todo = {v \in Vouchers : voucher[v].batch = b /\ voucher[v].status = "APPROVED"}
  OBVIOUS
<1>2. PICK q : q = [Idle EXCEPT !.op = "processBatch", !.step = "next", !.batch = b,
                                !.todo = todo]
  OBVIOUS
<1>3. q \in RequestRow /\ q.op = "processBatch" /\ q.step = "next" /\ q.batch = b
  BY <1>2, IdleType DEF Idle, RequestRow
<1>4. Begin(r, q) /\ request'[r] = q /\ UNCHANGED batch
  BY <1>1, <1>2, <1>3 DEF BeginProcess, Begin, PayInv, PayTypeOK, docVars
<1>5. batch[b].status = "APPROVED" /\ Vetted(batch[b])
  BY DEF BeginProcess, PayInv, PaymentChecked
<1>6. RequestOK(request[r])'
  BY <1>3, <1>4, <1>5
  DEF RequestOK, InvoiceRequestOK, VoucherRequestOK, BatchRequestOK, RemitRequestOK
<1>7. QED
  BY <1>3, <1>4, <1>6, BeginOne DEF Owes

LEMMA BeginRemitStep ==
    ASSUME PayInv, NEW r \in Requests, NEW d \in Deductions, BeginRemit(r, d)
    PROVE  PayInv'
<1>1. PICK q : q = [Idle EXCEPT !.op = "remit", !.step = "journal", !.doc = d]
  OBVIOUS
<1>2. q \in RequestRow /\ q.op = "remit" /\ q.step = "journal" /\ q.doc = d
  BY <1>1, IdleType DEF Idle, RequestRow, Docs
<1>3. Begin(r, q) /\ request'[r] = q
  BY <1>1, <1>2 DEF BeginRemit, Begin, PayInv, PayTypeOK
<1>4. RequestOK(request[r])'
  BY <1>2, <1>3 DEF RequestOK, InvoiceRequestOK, VoucherRequestOK, BatchRequestOK, RemitRequestOK
<1>5. QED
  BY <1>2, <1>3, <1>4, BeginOne DEF Owes

LEMMA StopStep ==
    ASSUME PayInv, NEW r \in Requests, Stop(r)
    PROVE  PayInv'
BY FinishOne, OnlyRequest DEF Stop, PayInv

LEMMA NextVoucherStep ==
    ASSUME PayInv, NEW r \in Requests, NEW v \in Vouchers, NextVoucher(r, v)
    PROVE  PayInv'
<1>1. PICK p \in RequestRow : p = request[r]
  BY RequestFields DEF PayInv
<1>2. CASE voucher[v].status # "APPROVED"
  <2>1. Finish(r) /\ PayTypeOK
    BY <1>2 DEF NextVoucher, PayInv
  <2>2. QED
    BY <2>1, FinishOne, OnlyRequest DEF NextVoucher
<1>3. CASE voucher[v].status = "APPROVED"
  <2>1. PICK list \in Seq(AllocationType) : list = voucher[v].allocations
    BY DEF PayInv, PayTypeOK, VoucherRow
  <2>2. PICK q : q = [p EXCEPT !.op = "postVoucher", !.step = "journal", !.doc = v,
                               !.list = list, !.todo = @ \ {v}]
    OBVIOUS
  <2>3. /\ q \in RequestRow /\ q.op = "postVoucher" /\ q.step = "journal" /\ q.doc = v
        /\ q.batch = p.batch
    BY <1>1, <2>2 DEF RequestRow, Docs
  <2>4. request' = [request EXCEPT ![r] = q] /\ UNCHANGED <<docVars, journal, vendorLedger>>
    BY <1>1, <1>3, <2>1, <2>2 DEF NextVoucher, PayInv, PayTypeOK, RequestRow
  <2>5. /\ request' \in [Requests -> RequestRow] /\ request'[r] = q
        /\ \A s \in Requests \ {r} : request'[s] = request[s]
    BY <2>3, <2>4, OneRequest DEF PayInv
  <2>6. Vetted(voucher[v])
    BY <1>3 DEF PayInv, PaymentChecked
  <2>7. p.batch \in Batches /\ Vetted(batch[p.batch]) /\ batch[p.batch].status # "ABSENT"
    BY <1>1 DEF NextVoucher, At, PayInv, RequestInv, RequestOK, BatchRequestOK
  <2>8. voucher' = voucher /\ batch' = batch
    BY <2>4 DEF docVars
  <2>9. RequestOK(request[r])'
    BY <1>3, <2>3, <2>5, <2>6, <2>7, <2>8
    DEF RequestOK, InvoiceRequestOK, VoucherRequestOK, BatchRequestOK, RemitRequestOK
  <2>10. \A x \in Docs : ~ Owes(request[r], x)'
    BY <2>3, <2>5 DEF Owes
  <2>11. QED
    BY <2>4, <2>5, <2>9, <2>10, OnlyRequest
<1>4. QED
  BY <1>2, <1>3

-----------------------------------------------------------------------------
(* Postings and ledger rows *)

\* What a request that is about to write knows of its document.
LEMMA KnownOf ==
    ASSUME PayInv, NEW r \in Requests
    PROVE  RequestOK(request[r])
BY DEF PayInv, RequestInv

\* A posting of the document of r, which is typed and not an absent or
\* unchecked voucher.
LEMMA PostJournalOne ==
    ASSUME PayInv, NEW r \in Requests, NEW step \in {"apply", "status"}, PostJournal(r, step),
           request[r].doc \in Docs,
           request[r].doc \in Vouchers =>
               voucher[request[r].doc].status # "ABSENT" /\ Vetted(voucher[request[r].doc]),
           RequestOK(request[r])'
    PROVE  PayInv'
<1>1. PICK y \in Docs : y = request[r].doc
  OBVIOUS
<1>2. journal' = [journal EXCEPT ![y] = @ + 1] /\ UNCHANGED <<docVars, vendorLedger>> /\ Goto(r, step)
  BY <1>1 DEF PostJournal
<1>3. /\ request' \in [Requests -> RequestRow]
      /\ \A s \in Requests \ {r} : request'[s] = request[s]
      /\ request'[r].doc = y
  BY <1>1, <1>2, GotoOne DEF PayInv
<1>4. PayTypeOK'
  <2>1. journal' \in [Docs -> Nat]
    BY <1>2 DEF PayInv, PayTypeOK
  <2>2. QED
    BY <1>2, <1>3, <2>1 DEF PayInv, PayTypeOK, docVars
<1>5. \A x \in Docs : /\ journal[x] \in Nat /\ vendorLedger[x] \in Nat /\ vendorLedger'[x] = vendorLedger[x]
                      /\ journal'[x] = IF x = y THEN journal[x] + 1 ELSE journal[x]
  BY <1>2 DEF PayInv, PayTypeOK
<1>6. Grows
  BY <1>2, <1>5 DEF Grows, docVars
<1>7. DocsOK
  BY <1>1, <1>2, <1>5 DEF DocsOK, docVars, Docs
<1>8. \A x \in Docs : Owes(request[r], x)' => x = y
  BY <1>3 DEF Owes
<1>9. RowsCovered'
  BY <1>2, <1>3, <1>8, RowsPosted DEF PayInv
<1>10. \A v \in Vouchers : voucher'[v].allocations = voucher[v].allocations
  BY <1>2 DEF docVars
<1>11. QED
  BY <1>3, <1>4, <1>6, <1>7, <1>9, <1>10, StepStays

\* The postings of the three kinds of documents.
LEMMA PostInvoiceJournalStep ==
    ASSUME PayInv, NEW r \in Requests, PostInvoiceJournal(r)
    PROVE  PayInv'
<1>1. request[r].op = "postInvoice" /\ PostJournal(r, "status") /\ Goto(r, "status")
  BY DEF PostInvoiceJournal, At, PostJournal
<1>2. PICK i \in Invoices : i = request[r].doc
  BY <1>1, KnownOf DEF RequestOK, InvoiceRequestOK
<1>3. request'[r].op = "postInvoice" /\ request'[r].step = "status" /\ request'[r].doc = i
  BY <1>1, <1>2, GotoOne DEF PayInv
<1>4. journal'[i] > 0
  BY <1>1, <1>2 DEF PostJournal, PayInv, PayTypeOK, Docs
<1>5. RequestOK(request[r])'
  BY <1>3, <1>4 DEF RequestOK, InvoiceRequestOK, VoucherRequestOK, BatchRequestOK, RemitRequestOK
<1>6. i \in Docs /\ i \notin Vouchers
  BY PayAssumption DEF Docs
<1>7. QED
  BY <1>1, <1>2, <1>5, <1>6, PostJournalOne

LEMMA PostVoucherJournalStep ==
    ASSUME PayInv, NEW r \in Requests, PostVoucherJournal(r)
    PROVE  PayInv'
<1>1. request[r].op = "postVoucher" /\ PostJournal(r, "apply") /\ Goto(r, "apply")
  BY DEF PostVoucherJournal, At, PostJournal
<1>2. PICK v \in Vouchers : v = request[r].doc
  BY <1>1, KnownOf DEF RequestOK, VoucherRequestOK
<1>3. /\ request'[r].op = "postVoucher" /\ request'[r].step = "apply" /\ request'[r].doc = v
      /\ request'[r].batch = request[r].batch
  BY <1>1, <1>2, GotoOne DEF PayInv
<1>4. /\ voucher[v].status # "ABSENT" /\ Vetted(voucher[v])
      /\ request[r].batch # None =>
            Vetted(batch[request[r].batch]) /\ batch[request[r].batch].status # "ABSENT"
  BY <1>1, <1>2, KnownOf DEF RequestOK, VoucherRequestOK
<1>5. voucher' = voucher /\ batch' = batch
  BY <1>1 DEF PostJournal, docVars
<1>6. RequestOK(request[r])'
  BY <1>3, <1>4, <1>5
  DEF RequestOK, InvoiceRequestOK, VoucherRequestOK, BatchRequestOK, RemitRequestOK
<1>7. QED
  BY <1>1, <1>2, <1>4, <1>6, PostJournalOne DEF Docs

LEMMA RemitJournalStep ==
    ASSUME PayInv, NEW r \in Requests, RemitJournal(r)
    PROVE  PayInv'
<1>1. request[r].op = "remit" /\ PostJournal(r, "status") /\ Goto(r, "status")
  BY DEF RemitJournal, At, PostJournal
<1>2. PICK d \in Deductions : d = request[r].doc
  BY <1>1, KnownOf DEF RequestOK, RemitRequestOK
<1>3. request'[r].op = "remit" /\ request'[r].step = "status" /\ request'[r].doc = d
  BY <1>1, <1>2, GotoOne DEF PayInv
<1>4. journal'[d] > 0
  BY <1>1, <1>2 DEF PostJournal, PayInv, PayTypeOK, Docs
<1>5. RequestOK(request[r])'
  BY <1>3, <1>4 DEF RequestOK, InvoiceRequestOK, VoucherRequestOK, BatchRequestOK, RemitRequestOK
<1>6. d \in Docs /\ d \notin Vouchers
  BY PayAssumption DEF Docs
<1>7. QED
  BY <1>1, <1>2, <1>5, <1>6, PostJournalOne

\* A request writes the ledger row it owes.
LEMMA LedgerRowOne ==
    ASSUME PayInv, NEW r \in Requests, WriteLedgerRow(r), NEW y \in Docs,
           y = request[r].doc, Owes(request[r], y),
           request' \in [Requests -> RequestRow],
           \A s \in Requests \ {r} : request'[s] = request[s],
           RequestOK(request[r])', \A x \in Docs : ~ Owes(request[r], x)'
    PROVE  PayInv'
<1>1. vendorLedger' = [vendorLedger EXCEPT ![y] = @ + 1] /\ UNCHANGED <<docVars, journal>>
  BY DEF WriteLedgerRow
<1>2. PayTypeOK'
  <2>1. vendorLedger' \in [Docs -> Nat]
    BY <1>1 DEF PayInv, PayTypeOK
  <2>2. QED
    BY <1>1, <2>1 DEF PayInv, PayTypeOK, docVars
<1>3. \A x \in Docs : /\ journal[x] \in Nat /\ vendorLedger[x] \in Nat /\ journal'[x] = journal[x]
                      /\ vendorLedger'[x] >= vendorLedger[x]
  BY <1>1 DEF PayInv, PayTypeOK
<1>4. Grows
  BY <1>1, <1>3 DEF Grows, docVars
<1>5. DocsOK
  BY <1>1, <1>3 DEF DocsOK, docVars, Docs
<1>6. RowsCovered'
  BY <1>1, RowsWritten DEF PayInv
<1>7. \A v \in Vouchers : voucher'[v].allocations = voucher[v].allocations
  BY <1>1 DEF docVars
<1>8. QED
  BY <1>2, <1>4, <1>5, <1>6, <1>7, StepStays

LEMMA WriteInvoiceLedgerStep ==
    ASSUME PayInv, NEW r \in Requests, WriteInvoiceLedger(r)
    PROVE  PayInv'
<1>1. request[r].op = "postInvoice" /\ request[r].step = "ledger" /\ WriteLedgerRow(r) /\ Finish(r)
  BY DEF WriteInvoiceLedger, At
<1>2. PICK i \in Invoices : i = request[r].doc
  BY <1>1, KnownOf DEF RequestOK, InvoiceRequestOK
<1>3. i \in Docs /\ Owes(request[r], i)
  BY <1>1, <1>2 DEF Docs, Owes
<1>4. QED
  BY <1>1, <1>2, <1>3, FinishOne, LedgerRowOne DEF PayInv

LEMMA WriteVoucherLedgerStep ==
    ASSUME PayInv, NEW r \in Requests, WriteVoucherLedger(r)
    PROVE  PayInv'
<1>1. /\ request[r].op = "postVoucher" /\ request[r].step = "apply" /\ WriteLedgerRow(r)
      /\ Goto(r, "status")
  BY DEF WriteVoucherLedger, At
<1>2. PICK v \in Vouchers : v = request[r].doc
  BY <1>1, KnownOf DEF RequestOK, VoucherRequestOK
<1>3. v \in Docs /\ Owes(request[r], v)
  BY <1>1, <1>2 DEF Docs, Owes
<1>4. /\ request' \in [Requests -> RequestRow]
      /\ \A s \in Requests \ {r} : request'[s] = request[s]
      /\ request'[r].op = "postVoucher" /\ request'[r].step = "status"
      /\ request'[r].doc = v /\ request'[r].batch = request[r].batch
  BY <1>1, <1>2, GotoOne DEF PayInv
<1>5. vendorLedger'[v] > 0 /\ voucher' = voucher /\ batch' = batch
  BY <1>1, <1>2, <1>3 DEF WriteLedgerRow, PayInv, PayTypeOK, docVars
<1>6. /\ voucher[v].status # "ABSENT" /\ Vetted(voucher[v])
      /\ request[r].batch # None =>
            Vetted(batch[request[r].batch]) /\ batch[request[r].batch].status # "ABSENT"
  BY <1>1, <1>2, KnownOf DEF RequestOK, VoucherRequestOK
<1>7. RequestOK(request[r])'
  BY <1>4, <1>5, <1>6
  DEF RequestOK, InvoiceRequestOK, VoucherRequestOK, BatchRequestOK, RemitRequestOK
<1>8. \A x \in Docs : ~ Owes(request[r], x)'
  BY <1>4 DEF Owes
<1>9. QED
  BY <1>1, <1>2, <1>3, <1>4, <1>7, <1>8, LedgerRowOne

-----------------------------------------------------------------------------
(* Writes to the documents *)

\* A request that ends without a posting of its own leaves the rows covered.
LEMMA FinishRows ==
    ASSUME PayInv, NEW r \in Requests, Finish(r), UNCHANGED <<journal, vendorLedger>>
    PROVE  RowsCovered'
<1>1. /\ \A s \in Requests \ {r} : request'[s] = request[s]
      /\ \A x \in Docs : ~ Owes(request[r], x)'
  BY FinishOne DEF PayInv
<1>2. QED
  BY <1>1, RowsKept DEF PayInv

\* Nothing is posted or written to the vendor ledger.
LEMMA CountsKept ==
    ASSUME PayInv, UNCHANGED <<journal, vendorLedger>>
    PROVE  \A x \in Docs : /\ journal[x] \in Nat /\ journal'[x] = journal[x]
                          /\ vendorLedger[x] \in Nat /\ vendorLedger'[x] = vendorLedger[x]
BY DEF PayInv, PayTypeOK

LEMMA CreateInvoiceStep ==
    ASSUME PayInv, NEW i \in Invoices, CreateInvoice(i)
    PROVE  PayInv'
<1>1. /\ invoice[i].status = "ABSENT"
      /\ UNCHANGED <<voucher, batch, deduction, journal, vendorLedger, request>>
      /\ invoice' = [invoice EXCEPT ![i].status = "DRAFT"]
  BY DEF CreateInvoice
<1>2. invoice' \in [Invoices -> InvoiceRow] /\ invoice'[i].status = "DRAFT"
      /\ \A j \in Invoices \ {i} : invoice'[j] = invoice[j]
  BY <1>1 DEF PayInv, PayTypeOK, InvoiceRow, DocStatus
<1>3. PayTypeOK'
  BY <1>1, <1>2 DEF PayInv, PayTypeOK
<1>4. Grows /\ DocsOK
  BY <1>1, <1>2, CountsKept DEF Grows, DocsOK, Docs
<1>5. RowsCovered'
  BY <1>1 DEF PayInv, RowsCovered, Owing, Owes
<1>6. PICK r : r \notin Requests
  BY NoSetContainsEverything
<1>7. \A v \in Vouchers : voucher'[v].allocations = voucher[v].allocations
  BY <1>1
<1>8. QED
  BY <1>1, <1>3, <1>4, <1>5, <1>6, <1>7, StepStays

LEMMA CreateBatchStep ==
    ASSUME PayInv, NEW b \in Batches, NEW user \in Users, CreateBatch(b, user)
    PROVE  PayInv'
<1>1. /\ batch[b].status = "ABSENT"
      /\ UNCHANGED <<invoice, voucher, deduction, journal, vendorLedger, request>>
      /\ batch' = [batch EXCEPT ![b].status = "DRAFT", ![b].createdBy = user]
  BY DEF CreateBatch
<1>2. batch' \in [Batches -> BatchRow] /\ batch'[b].status = "DRAFT"
      /\ \A c \in Batches \ {b} : batch'[c] = batch[c]
  BY ZenonT(40), <1>1 DEF PayInv, PayTypeOK, BatchRow
<1>3. PayTypeOK'
  BY <1>1, <1>2 DEF PayInv, PayTypeOK
<1>4. Grows /\ DocsOK
  BY <1>1, <1>2, CountsKept DEF Grows, DocsOK, Docs
<1>5. RowsCovered'
  BY <1>1 DEF PayInv, RowsCovered, Owing, Owes
<1>6. PICK r : r \notin Requests
  BY NoSetContainsEverything
<1>7. \A v \in Vouchers : voucher'[v].allocations = voucher[v].allocations
  BY <1>1
<1>8. QED
  BY <1>1, <1>3, <1>4, <1>5, <1>6, <1>7, StepStays

LEMMA MarkInvoicePostedStep ==
    ASSUME PayInv, NEW r \in Requests, MarkInvoicePosted(r)
    PROVE  PayInv'
<1>1. /\ request[r].op = "postInvoice" /\ request[r].step = "status" /\ Goto(r, "ledger")
      /\ UNCHANGED <<voucher, batch, deduction, journal, vendorLedger>>
  BY DEF MarkInvoicePosted, At
<1>2. PICK i \in Invoices : i = request[r].doc /\ journal[i] > 0
  BY <1>1, KnownOf DEF RequestOK, InvoiceRequestOK
<1>3. /\ invoice' \in [Invoices -> InvoiceRow] /\ invoice'[i].status = "POSTED"
      /\ \A j \in Invoices \ {i} : invoice'[j] = invoice[j]
  BY <1>2 DEF MarkInvoicePosted, PayInv, PayTypeOK, InvoiceRow, DocStatus
<1>4. /\ request' \in [Requests -> RequestRow]
      /\ \A s \in Requests \ {r} : request'[s] = request[s]
      /\ request'[r].op = "postInvoice" /\ request'[r].step = "ledger" /\ request'[r].doc = i
  BY <1>1, <1>2, GotoOne DEF PayInv
<1>5. PayTypeOK'
  BY <1>1, <1>3, <1>4 DEF PayInv, PayTypeOK
<1>6. Grows /\ DocsOK
  BY <1>1, <1>2, <1>3, CountsKept DEF Grows, DocsOK, Docs
<1>7. RequestOK(request[r])'
  BY <1>1, <1>2, <1>4 DEF RequestOK, InvoiceRequestOK, VoucherRequestOK, BatchRequestOK, RemitRequestOK
<1>8. \A x \in Docs : Owes(request[r], x)' => Owes(request[r], x)
  BY <1>1, <1>2, <1>4 DEF Owes
<1>9. RowsCovered'
  BY <1>1, <1>4, <1>8, RowsKept DEF PayInv
<1>10. \A v \in Vouchers : voucher'[v].allocations = voucher[v].allocations
  BY <1>1
<1>11. QED
  BY <1>4, <1>5, <1>6, <1>7, <1>9, <1>10, StepStays

LEMMA InsertVoucherStep ==
    ASSUME PayInv, NEW r \in Requests, InsertVoucher(r)
    PROVE  PayInv'
<1>1. PICK q \in RequestRow : q = request[r]
  BY RequestFields DEF PayInv
<1>2. /\ q.op = "createVoucher" /\ q.doc \in Vouchers /\ q.user \in Users /\ Settleable(q.list)
      /\ q.list \in Seq(AllocationType) /\ q.batch \in Batches \cup {None}
  BY <1>1, KnownOf DEF InsertVoucher, At, RequestOK, VoucherRequestOK, RequestRow
<1>3. PICK row : row = [NoVoucher EXCEPT !.status = "DRAFT", !.createdBy = q.user,
                                         !.batch = q.batch, !.allocations = q.list]
  OBVIOUS
<1>4. row \in VoucherRow /\ row.status = "DRAFT" /\ row.allocations = q.list
  BY <1>2, <1>3 DEF NoVoucher, VoucherRow, DocStatus
<1>5. /\ voucher' = [voucher EXCEPT ![q.doc] = row] /\ voucher[q.doc].status = "ABSENT"
      /\ UNCHANGED <<invoice, batch, journal, vendorLedger>> /\ Finish(r)
      /\ deduction' = [d \in Deductions |->
              IF d \in DeductionsOf(q.list) THEN "PENDING" ELSE deduction[d]]
  BY <1>1, <1>3 DEF InsertVoucher
<1>6. /\ voucher' \in [Vouchers -> VoucherRow] /\ voucher'[q.doc] = row
      /\ \A v \in Vouchers \ {q.doc} : voucher'[v] = voucher[v]
  BY <1>2, <1>4, <1>5 DEF PayInv, PayTypeOK
<1>7. /\ deduction' \in [Deductions -> {"ABSENT", "PENDING", "REMITTED"}]
      /\ \A d \in Deductions : deduction'[d] = "REMITTED" => deduction[d] = "REMITTED"
  BY <1>5 DEF PayInv, PayTypeOK
<1>8. PayTypeOK'
  BY <1>5, <1>6, <1>7, FinishOne DEF PayInv, PayTypeOK
<1>9. Grows /\ DocsOK
  BY <1>2, <1>4, <1>5, <1>6, <1>7, CountsKept DEF Grows, DocsOK, Docs
<1>10. \A v \in Vouchers :
          voucher'[v].allocations = voucher[v].allocations
          \/ \A k \in DOMAIN voucher'[v].allocations :
               LET i == voucher'[v].allocations[k].invoice
               IN  invoice'[i].status = "POSTED" /\ journal'[i] > 0
  BY <1>2, <1>4, <1>5, <1>6 DEF Settleable
<1>11. QED
  BY <1>5, <1>8, <1>9, <1>10, FinishOne, FinishRows, StepStays DEF PayInv

LEMMA WriteApproveVoucherStep ==
    ASSUME PayInv, NEW r \in Requests, WriteApproveVoucher(r)
    PROVE  PayInv'
<1>1. /\ request[r].op = "approveVoucher" /\ Finish(r)
      /\ UNCHANGED <<invoice, batch, deduction, journal, vendorLedger>>
  BY DEF WriteApproveVoucher, At
<1>2. PICK v \in Vouchers : v = request[r].doc
  BY <1>1, KnownOf DEF RequestOK, VoucherRequestOK
<1>3. PICK user \in Users : user = request[r].user
  BY <1>1, KnownOf DEF RequestOK, VoucherRequestOK
<1>4. voucher[v].status # "ABSENT" /\ user # voucher[v].createdBy
  BY <1>1, <1>2, <1>3, KnownOf DEF RequestOK, VoucherRequestOK
<1>5. /\ voucher' \in [Vouchers -> VoucherRow]
      /\ voucher'[v].status = "APPROVED" /\ voucher'[v].approvedBy = user
      /\ voucher'[v].createdBy = voucher[v].createdBy
      /\ voucher'[v].allocations = voucher[v].allocations
      /\ \A w \in Vouchers \ {v} : voucher'[w] = voucher[w]
  <2>1. PICK old \in VoucherRow : old = voucher[v]
    BY DEF PayInv, PayTypeOK
  <2>2. PICK row : row = [old EXCEPT !.status = "APPROVED", !.approvedBy = user]
    OBVIOUS
  <2>3. /\ row \in VoucherRow /\ row.status = "APPROVED" /\ row.approvedBy = user
        /\ row.createdBy = old.createdBy /\ row.allocations = old.allocations
    BY <2>2 DEF VoucherRow
  <2>4. voucher' = [voucher EXCEPT ![v].status = "APPROVED", ![v].approvedBy = user]
    BY <1>2, <1>3 DEF WriteApproveVoucher
  <2>5. voucher' = [voucher EXCEPT ![v] = row]
    BY <2>1, <2>2, <2>4 DEF PayInv, PayTypeOK, VoucherRow
  <2>6. QED
    BY <2>1, <2>3, <2>5 DEF PayInv, PayTypeOK
<1>6. Vetted(voucher'[v])
  BY <1>3, <1>4, <1>5, PayAssumption DEF Vetted
<1>7. PayTypeOK'
  BY <1>1, <1>5, FinishOne DEF PayInv, PayTypeOK
<1>8. Grows /\ DocsOK
  BY <1>1, <1>4, <1>5, <1>6, CountsKept DEF Grows, DocsOK, Docs
<1>9. QED
  BY <1>1, <1>5, <1>7, <1>8, FinishOne, FinishRows, StepStays DEF PayInv

LEMMA ApplyAllocationStep ==
    ASSUME PayInv, NEW r \in Requests, ApplyAllocation(r)
    PROVE  PayInv'
<1>1. PICK p \in RequestRow : p = request[r]
  BY RequestFields DEF PayInv
<1>2. /\ p.op = "postVoucher" /\ p.step = "apply" /\ p.list # <<>> /\ p.list \in Seq(AllocationType)
      /\ UNCHANGED <<voucher, batch, deduction, journal, vendorLedger>>
  BY <1>1 DEF ApplyAllocation, At, RequestRow
<1>3. PICK a \in AllocationType : a = Head(p.list)
  BY <1>2
<1>4. Tail(p.list) \in Seq(AllocationType)
  BY <1>2
<1>5. PICK i \in Invoices : i = a.invoice
  BY DEF AllocationType
<1>6. invoice' = [invoice EXCEPT ![i].paid = @ + a.amount] /\ a.amount \in Nat
  BY <1>1, <1>3, <1>5 DEF ApplyAllocation, AllocationType
<1>7. /\ invoice' \in [Invoices -> InvoiceRow]
      /\ \A j \in Invoices : invoice'[j].status = invoice[j].status
  BY <1>6 DEF PayInv, PayTypeOK, InvoiceRow
<1>8. PICK q : q = [p EXCEPT !.list = Tail(p.list)]
  OBVIOUS
<1>9. /\ q \in RequestRow /\ q.op = p.op /\ q.step = p.step /\ q.doc = p.doc /\ q.batch = p.batch
  BY <1>4, <1>8 DEF RequestRow
<1>10. request' = [request EXCEPT ![r] = q]
  BY <1>1, <1>8 DEF ApplyAllocation, PayInv, PayTypeOK, RequestRow
<1>11. /\ request' \in [Requests -> RequestRow] /\ request'[r] = q
       /\ \A s \in Requests \ {r} : request'[s] = request[s]
  BY <1>9, <1>10, OneRequest DEF PayInv
<1>12. PayTypeOK'
  BY <1>2, <1>7, <1>11 DEF PayInv, PayTypeOK
<1>13. Grows /\ DocsOK
  BY <1>2, <1>7, CountsKept DEF Grows, DocsOK, Docs
<1>14. RequestOK(request[r])'
  <2>1. VoucherRequestOK(request[r])
    BY KnownOf DEF RequestOK
  <2>2. VoucherRequestOK(request[r])'
    BY <1>1, <1>2, <1>9, <1>11, <2>1 DEF VoucherRequestOK
  <2>3. QED
    BY <1>2, <1>9, <1>11, <2>2 DEF RequestOK, InvoiceRequestOK, BatchRequestOK, RemitRequestOK
<1>15. \A x \in Docs : Owes(request[r], x)' => Owes(request[r], x)
  BY <1>1, <1>9, <1>11 DEF Owes
<1>16. RowsCovered'
  BY <1>2, <1>11, <1>15, RowsKept DEF PayInv
<1>17. \A v \in Vouchers : voucher'[v].allocations = voucher[v].allocations
  BY <1>2
<1>18. QED
  BY <1>11, <1>12, <1>13, <1>14, <1>16, <1>17, StepStays

\* What MarkVoucherPosted does to its request, in a batch and outside.
LEMMA MarkedRequest ==
    ASSUME PayInv, NEW r \in Requests, MarkVoucherPosted(r)
    PROVE  /\ request' \in [Requests -> RequestRow]
           /\ \A s \in Requests \ {r} : request'[s] = request[s]
           /\ \/ request'[r] = Idle
              \/ /\ request[r].batch \in Batches /\ request'[r].batch = request[r].batch
                 /\ request'[r].op = "processBatch" /\ request'[r].step = "next"
<1>1. PICK p \in RequestRow : p = request[r]
  BY RequestFields DEF PayInv
<1>2. CASE p.batch = None
  BY <1>1, <1>2, FinishOne DEF MarkVoucherPosted, PayInv
<1>3. CASE p.batch # None
  <2>1. PICK q : q = [p EXCEPT !.op = "processBatch", !.step = "next", !.doc = None]
    OBVIOUS
  <2>2. q \in RequestRow /\ q.op = "processBatch" /\ q.step = "next" /\ q.batch = p.batch
    BY <2>1 DEF RequestRow
  <2>3. request' = [request EXCEPT ![r] = q]
    BY <1>1, <1>3, <2>1 DEF MarkVoucherPosted, PayInv, PayTypeOK, RequestRow
  <2>4. p.batch \in Batches
    BY <1>3 DEF RequestRow
  <2>5. QED
    BY <1>1, <2>2, <2>3, <2>4, OneRequest DEF PayInv
<1>4. QED
  BY <1>2, <1>3

LEMMA MarkVoucherPostedStep ==
    ASSUME PayInv, NEW r \in Requests, MarkVoucherPosted(r)
    PROVE  PayInv'
<1>1. /\ request[r].op = "postVoucher" /\ request[r].step = "status"
      /\ UNCHANGED <<invoice, batch, deduction, journal, vendorLedger>>
  BY DEF MarkVoucherPosted, At
<1>2. PICK v \in Vouchers : v = request[r].doc
  BY <1>1, KnownOf DEF RequestOK, VoucherRequestOK
<1>3. /\ voucher[v].status # "ABSENT" /\ Vetted(voucher[v]) /\ vendorLedger[v] > 0
      /\ request[r].batch # None =>
            Vetted(batch[request[r].batch]) /\ batch[request[r].batch].status # "ABSENT"
  BY <1>1, <1>2, KnownOf DEF RequestOK, VoucherRequestOK
<1>4. /\ voucher' \in [Vouchers -> VoucherRow]
      /\ voucher'[v].status = "POSTED" /\ voucher'[v].approvedBy = voucher[v].approvedBy
      /\ voucher'[v].createdBy = voucher[v].createdBy
      /\ voucher'[v].allocations = voucher[v].allocations
      /\ \A w \in Vouchers \ {v} : voucher'[w] = voucher[w]
  <2>1. PICK old \in VoucherRow : old = voucher[v]
    BY DEF PayInv, PayTypeOK
  <2>2. PICK row : row = [old EXCEPT !.status = "POSTED"]
    OBVIOUS
  <2>3. /\ row \in VoucherRow /\ row.status = "POSTED" /\ row.approvedBy = old.approvedBy
        /\ row.createdBy = old.createdBy /\ row.allocations = old.allocations
    BY <2>2 DEF VoucherRow, DocStatus
  <2>4. voucher' = [voucher EXCEPT ![v].status = "POSTED"]
    BY <1>2 DEF MarkVoucherPosted
  <2>5. voucher' = [voucher EXCEPT ![v] = row]
    BY <2>1, <2>2, <2>4 DEF PayInv, PayTypeOK, VoucherRow
  <2>6. QED
    BY <2>1, <2>3, <2>5 DEF PayInv, PayTypeOK
<1>5. Vetted(voucher'[v])
  BY <1>3, <1>4 DEF Vetted
<1>6. PayTypeOK'
  BY <1>1, <1>4, MarkedRequest DEF PayInv, PayTypeOK
<1>7. Grows /\ DocsOK
  BY <1>1, <1>3, <1>4, <1>5, CountsKept DEF Grows, DocsOK, Docs
<1>8. RequestOK(request[r])'
  <2>1. CASE request'[r] = Idle
    BY <2>1 DEF Idle, RequestOK, InvoiceRequestOK, VoucherRequestOK, BatchRequestOK, RemitRequestOK
  <2>2. CASE request'[r] # Idle
    <3>1. /\ request[r].batch \in Batches /\ request'[r].batch = request[r].batch
          /\ request'[r].op = "processBatch" /\ request'[r].step = "next"
      BY <2>2, MarkedRequest
    <3>2. request[r].batch # None
      BY <3>1, PayAssumption
    <3>3. QED
      BY <1>1, <1>3, <3>1, <3>2
      DEF RequestOK, InvoiceRequestOK, VoucherRequestOK, BatchRequestOK, RemitRequestOK
  <2>3. QED
    BY <2>1, <2>2
<1>9. \A x \in Docs : ~ Owes(request[r], x)'
  BY MarkedRequest DEF Owes, Idle
<1>10. RowsCovered'
  BY <1>1, <1>9, MarkedRequest, RowsKept DEF PayInv
<1>11. QED
  BY <1>4, <1>6, <1>7, <1>8, <1>10, MarkedRequest, StepStays

LEMMA WriteApproveBatchStep ==
    ASSUME PayInv, NEW r \in Requests, WriteApproveBatch(r)
    PROVE  PayInv'
<1>1. /\ request[r].op = "approveBatch" /\ Finish(r)
      /\ UNCHANGED <<invoice, voucher, deduction, journal, vendorLedger>>
  BY DEF WriteApproveBatch, At
<1>2. PICK b \in Batches : b = request[r].batch
  BY <1>1, KnownOf DEF RequestOK, BatchRequestOK
<1>3. PICK user \in Users : user = request[r].user
  BY <1>1, KnownOf DEF RequestOK, BatchRequestOK
<1>4. batch[b].status # "ABSENT" /\ user # batch[b].createdBy
  BY <1>1, <1>2, <1>3, KnownOf DEF RequestOK, BatchRequestOK
<1>5. /\ batch' \in [Batches -> BatchRow]
      /\ batch'[b].status = "APPROVED" /\ batch'[b].approvedBy = user
      /\ batch'[b].createdBy = batch[b].createdBy
      /\ \A c \in Batches \ {b} : batch'[c] = batch[c]
  <2>1. PICK old \in BatchRow : old = batch[b]
    BY DEF PayInv, PayTypeOK
  <2>2. PICK row : row = [old EXCEPT !.status = "APPROVED", !.approvedBy = user]
    OBVIOUS
  <2>3. /\ row \in BatchRow /\ row.status = "APPROVED" /\ row.approvedBy = user
        /\ row.createdBy = old.createdBy
    BY <2>2 DEF BatchRow
  <2>4. batch' = [batch EXCEPT ![b].status = "APPROVED", ![b].approvedBy = user]
    BY <1>2, <1>3 DEF WriteApproveBatch
  <2>5. batch' = [batch EXCEPT ![b] = row]
    BY <2>1, <2>2, <2>4 DEF PayInv, PayTypeOK, BatchRow
  <2>6. QED
    BY <2>1, <2>3, <2>5 DEF PayInv, PayTypeOK
<1>6. Vetted(batch'[b])
  BY <1>3, <1>4, <1>5, PayAssumption DEF Vetted
<1>7. PayTypeOK'
  BY <1>1, <1>5, FinishOne DEF PayInv, PayTypeOK
<1>8. Grows /\ DocsOK
  BY <1>1, <1>4, <1>5, <1>6, CountsKept DEF Grows, DocsOK, Docs
<1>9. QED
  BY <1>1, <1>7, <1>8, FinishOne, FinishRows, StepStays DEF PayInv

LEMMA CloseBatchStep ==
    ASSUME PayInv, NEW r \in Requests, CloseBatch(r)
    PROVE  PayInv'
<1>1. /\ request[r].op = "processBatch" /\ Finish(r)
      /\ UNCHANGED <<invoice, voucher, deduction, journal, vendorLedger>>
  BY DEF CloseBatch, At
<1>2. PICK b \in Batches : b = request[r].batch
  BY <1>1, KnownOf DEF RequestOK, BatchRequestOK
<1>3. batch[b].status # "ABSENT" /\ Vetted(batch[b])
  BY <1>1, <1>2, KnownOf DEF RequestOK, BatchRequestOK
<1>4. /\ batch' \in [Batches -> BatchRow]
      /\ batch'[b].status = "PROCESSED" /\ batch'[b].approvedBy = batch[b].approvedBy
      /\ batch'[b].createdBy = batch[b].createdBy
      /\ \A c \in Batches \ {b} : batch'[c] = batch[c]
  BY <1>2 DEF CloseBatch, PayInv, PayTypeOK, BatchRow
<1>5. Vetted(batch'[b])
  BY <1>3, <1>4 DEF Vetted
<1>6. PayTypeOK'
  BY <1>1, <1>4, FinishOne DEF PayInv, PayTypeOK
<1>7. Grows /\ DocsOK
  BY <1>1, <1>3, <1>4, <1>5, CountsKept DEF Grows, DocsOK, Docs
<1>8. QED
  BY <1>1, <1>6, <1>7, FinishOne, FinishRows, StepStays DEF PayInv

LEMMA MarkRemittedStep ==
    ASSUME PayInv, NEW r \in Requests, MarkRemitted(r)
    PROVE  PayInv'
<1>1. /\ request[r].op = "remit" /\ request[r].step = "status" /\ Finish(r)
      /\ UNCHANGED <<invoice, voucher, batch, journal, vendorLedger>>
  BY DEF MarkRemitted, At
<1>2. PICK d \in Deductions : d = request[r].doc /\ journal[d] > 0
  BY <1>1, KnownOf DEF RequestOK, RemitRequestOK
<1>3. deduction' = [deduction EXCEPT ![d] = "REMITTED"]
  BY <1>2 DEF MarkRemitted
<1>4. PayTypeOK'
  BY <1>1, <1>3, FinishOne DEF PayInv, PayTypeOK
<1>5. Grows /\ DocsOK
  BY <1>1, <1>2, <1>3, CountsKept DEF Grows, DocsOK, Docs, PayInv, PayTypeOK
<1>6. QED
  BY <1>1, <1>4, <1>5, FinishOne, FinishRows, StepStays DEF PayInv

-----------------------------------------------------------------------------
(* The theorems *)

LEMMA PayInitInv == PayInit => PayInv
<1> SUFFICES ASSUME PayInit PROVE PayInv
  OBVIOUS
<1>1. NoVoucher \in VoucherRow /\ NoVoucher.status = "ABSENT" /\ NoVoucher.allocations = <<>>
  <2>1. <<>> \in Seq(AllocationType)
    OBVIOUS
  <2>2. QED
    BY <2>1 DEF NoVoucher, VoucherRow, DocStatus
<1>2. PayTypeOK
  BY <1>1, IdleType DEF PayInit, PayTypeOK, InvoiceRow, DocStatus, BatchRow, NoBatch
<1>3. RequestInv
  BY DEF PayInit, RequestInv, RequestOK, InvoiceRequestOK, VoucherRequestOK, BatchRequestOK,
         RemitRequestOK, Idle
<1>4. AbsentInv
  BY DEF PayInit, AbsentInv, Docs
<1>5. RowsCovered
  <2>1. \A x \in Docs : Owing(x) = {}
    BY DEF PayInit, Owing, Owes, Idle
  <2>2. Cardinality({}) = 0
    BY FS_EmptySet
  <2>3. \A x \in Docs : vendorLedger[x] = 0 /\ journal[x] = 0
    BY DEF PayInit
  <2>4. QED
    BY <2>1, <2>2, <2>3 DEF RowsCovered
<1>6. LedgerBacked
  BY <1>1 DEF PayInit, LedgerBacked, PostedVouchers, Docs
<1>7. PaymentChecked
  BY <1>1 DEF PayInit, PaymentChecked, NoBatch, Docs
<1>8. PaymentAfterInvoice
  BY <1>1 DEF PayInit, PaymentAfterInvoice
<1>9. QED
  BY <1>2, <1>3, <1>4, <1>5, <1>6, <1>7, <1>8 DEF PayInv

LEMMA PayNextInv == PayInv /\ [PayNext]_payVars => PayInv'
<1> SUFFICES ASSUME PayInv, [PayNext]_payVars PROVE PayInv'
  OBVIOUS
<1>1. ASSUME NEW i \in Invoices, CreateInvoice(i) PROVE PayInv'
  BY <1>1, CreateInvoiceStep
<1>2. ASSUME NEW b \in Batches, NEW user \in Users, CreateBatch(b, user) PROVE PayInv'
  BY <1>2, CreateBatchStep
<1>3. ASSUME NEW r \in Requests, PayBegin(r) PROVE PayInv'
  BY <1>3, SMTT(30), BeginPostInvoiceStep, BeginPostVoucherStep, BeginApproveVoucherStep,
     BeginVoucherStep, BeginProcessStep, BeginApproveBatchStep, BeginRemitStep DEF PayBegin
<1>4. ASSUME NEW r \in Requests, PayContinue(r) PROVE PayInv'
  BY <1>4, PostInvoiceJournalStep, MarkInvoicePostedStep, WriteInvoiceLedgerStep,
     InsertVoucherStep, WriteApproveVoucherStep, PostVoucherJournalStep, ApplyAllocationStep,
     WriteVoucherLedgerStep, MarkVoucherPostedStep, WriteApproveBatchStep, CloseBatchStep,
     NextVoucherStep, RemitJournalStep, MarkRemittedStep DEF PayContinue
<1>5. ASSUME NEW r \in Requests, Stop(r) PROVE PayInv'
  BY <1>5, StopStep
<1>6. ASSUME UNCHANGED payVars PROVE PayInv'
  BY <1>6 DEF payVars, docVars, PayInv, PayTypeOK, RequestInv, RequestOK, InvoiceRequestOK,
     VoucherRequestOK, BatchRequestOK, RemitRequestOK, Settleable, AbsentInv, RowsCovered, Owing,
     Owes, LedgerBacked, PostedVouchers, PaymentChecked, PaymentAfterInvoice
<1>7. QED
  BY <1>1, <1>2, <1>3, <1>4, <1>5, <1>6 DEF PayNext

\* The inductive invariant holds in every reachable state.
THEOREM PayInvariant == PaySpec => []PayInv
BY PayInitInv, PayNextInv, PTL DEF PaySpec

\* Every variable keeps its type (the rows of accounts payable).
THEOREM PayTypeCorrect == PaySpec => []PayTypeOK
BY PayInvariant, PTL DEF PayInv

\* Every vendor ledger row has a journal entry of its own, and what says it is
\* posted or remitted is in the ledger, however many requests post one document
\* at once and wherever they stop (postInvoice, postPaymentVoucher, remit).
THEOREM LedgerRowsAreBacked == PaySpec => []LedgerBacked
BY PayInvariant, PTL DEF PayInv

\* No voucher reaches the ledger, and no batch is approved or processed, but
\* by the approval of somebody other than its preparer.
THEOREM PaymentsAreChecked == PaySpec => []PaymentChecked
BY PayInvariant, PTL DEF PayInv

\* Vouchers settle only invoices that are posted and in the ledger.
THEOREM PaymentsFollowInvoices == PaySpec => []PaymentAfterInvoice
BY PayInvariant, PTL DEF PayInv


-----------------------------------------------------------------------------
(* What lists of allocations settle *)

LEMMA SettlesNat ==
    ASSUME NEW list \in Seq(AllocationType), NEW i
    PROVE  Settles(list, i) \in Nat
<1> DEFINE f == [k \in DOMAIN list |-> IF list[k].invoice = i THEN list[k].amount ELSE 0]
<1>1. DOMAIN list = 1..Len(list) /\ Len(list) \in Nat /\ \A k \in DOMAIN list : list[k] \in AllocationType
  OBVIOUS
<1>2. IsFiniteSet(DOMAIN list)
  BY <1>1, FS_Interval
<1>3. \A k \in DOMAIN list : f[k] \in Nat
  BY <1>1 DEF AllocationType
<1>4. SumFunctionOnSet(f, DOMAIN list) \in Nat
  <2> HIDE DEF f
  <2> QED BY <1>2, <1>3, SumNotNegative
<1> QED BY <1>4 DEF Settles, SumFunction

LEMMA SettlesNothing ==
    ASSUME NEW i
    PROVE  Settles(<<>>, i) = 0
<1> DEFINE f == [k \in DOMAIN <<>> |-> IF <<>>[k].invoice = i THEN <<>>[k].amount ELSE 0]
<1>1. DOMAIN f = {}
  OBVIOUS
<1>2. SumFunctionOnSet(f, {}) = 0
  BY SumEmpty
<1> QED BY <1>1, <1>2 DEF Settles, SumFunction

LEMMA SettlesHead ==
    ASSUME NEW list \in Seq(AllocationType), list # <<>>, NEW i
    PROVE  /\ Tail(list) \in Seq(AllocationType) /\ Head(list) \in AllocationType
           /\ Settles(list, i) = (IF Head(list).invoice = i THEN Head(list).amount ELSE 0)
                                 + Settles(Tail(list), i)
<1> DEFINE rest == Tail(list)
           f == [k \in DOMAIN list |-> IF list[k].invoice = i THEN list[k].amount ELSE 0]
           g == [k \in DOMAIN rest |-> IF rest[k].invoice = i THEN rest[k].amount ELSE 0]
           n == Len(list)
           b == [k \in 1..(n - 1) |-> k + 1]
<1>1. /\ n \in Nat \ {0} /\ DOMAIN list = 1..n /\ rest \in Seq(AllocationType)
      /\ DOMAIN rest = 1..(n - 1) /\ \A k \in 1..(n - 1) : rest[k] = list[k + 1]
      /\ Head(list) = list[1] /\ \A k \in 1..n : list[k] \in AllocationType
  OBVIOUS
<1>2. \A k \in 1..(n - 1) : f[b[k]] = g[k] /\ g[k] \in Int
  BY <1>1 DEF AllocationType
<1>3. Numeric(g, 1..(n - 1))
  <2>1. IsFiniteSet(1..(n - 1))
    BY <1>1, FS_Interval
  <2> HIDE DEF g, n
  <2> QED BY <1>2, <2>1 DEF Numeric
<1>4. \A x, y \in 1..(n - 1) : b[x] = b[y] => x = y
  BY <1>1
<1>5. SumFunctionOnSet(f, {b[k] : k \in 1..(n - 1)}) = SumFunctionOnSet(g, 1..(n - 1))
  <2> DEFINE S == 1..(n - 1)
  <2>1. (\A k \in S : f[b[k]] = g[k]) /\ Numeric(g, S) /\ \A x, y \in S : b[x] = b[y] => x = y
    BY <1>2, <1>3, <1>4
  <2> HIDE DEF f, g, b, S
  <2>2. SumFunctionOnSet(f, {b[k] : k \in S}) = SumFunctionOnSet(g, S)
    BY <2>1, SumRenamed
  <2> QED BY <2>2 DEF S
<1>6. {b[k] : k \in 1..(n - 1)} = (1..n) \ {1}
  <2>1. ASSUME NEW k \in (1..n) \ {1} PROVE k - 1 \in 1..(n - 1) /\ b[k - 1] = k
    BY <1>1
  <2>2. ASSUME NEW k \in 1..(n - 1) PROVE b[k] \in (1..n) \ {1}
    BY <1>1
  <2> HIDE DEF b, n
  <2> QED BY <2>1, <2>2
<1>7. Numeric(f, 1..n)
  <2>1. \A k \in 1..n : f[k] \in Int
    BY <1>1 DEF AllocationType
  <2> HIDE DEF f
  <2> QED BY <1>1, <2>1, FS_Interval DEF Numeric
<1>8. 1 \in 1..n /\ f[1] = IF Head(list).invoice = i THEN Head(list).amount ELSE 0
  BY <1>1
<1>9. SumFunctionOnSet(f, 1..n) = f[1] + SumFunctionOnSet(f, (1..n) \ {1})
  <2> HIDE DEF f
  <2> QED BY <1>7, <1>8, SumTakes
<1>10. Settles(list, i) = SumFunctionOnSet(f, 1..n) /\ Settles(rest, i) = SumFunctionOnSet(g, 1..(n - 1))
  BY <1>1 DEF Settles, SumFunction
<1> QED BY <1>1, <1>5, <1>6, <1>8, <1>9, <1>10

-----------------------------------------------------------------------------
(* What is paid of an invoice, between what posted vouchers settle and what the
   journal has *)

\* A request that applies a voucher: it has posted it and goes through its list.
Paying(q) == q.op = "postVoucher" /\ q.step = "apply"

Pending(i) == [r \in Requests |-> IF Paying(request[r]) THEN Settles(request[r].list, i) ELSE 0]
Begun(i) ==
    [r \in Requests |->
        IF Paying(request[r])
        THEN Settles(voucher[request[r].doc].allocations, i) - Settles(request[r].list, i)
        ELSE 0]

\* The vouchers that were applied in full.
Applied ==
    {v \in Vouchers :
        \/ voucher[v].status = "POSTED"
        \/ \E r \in Requests : At(r, "postVoucher", "status") /\ request[r].doc = v}

\* What the journal has is applied, still to be applied, or lost with a request
\* that stopped; what is applied in full, and what was begun, is paid.
Lost(i) ==
    SumFunctionOnSet(JournalledTo(i), Vouchers)
    - invoice[i].paid - SumFunctionOnSet(Pending(i), Requests)
Extra(i) ==
    invoice[i].paid
    - SumFunctionOnSet(AllocatedTo(i), Applied) - SumFunctionOnSet(Begun(i), Requests)

\* A list that is applied is the rest of what its voucher settles.
ListsHeld ==
    \A r \in Requests : request[r].op = "postVoucher" =>
        LET all == voucher[request[r].doc].allocations
        IN  /\ request[r].step = "journal" => request[r].list = all
            /\ request[r].step = "apply" =>
                 \A i \in Invoices : Settles(request[r].list, i) <= Settles(all, i)

PaidInv == ListsHeld /\ \A i \in Invoices : Lost(i) >= 0 /\ Extra(i) >= 0

\* The sums are sums of natural numbers.
PaidNumbers(i) ==
    /\ IsFiniteSet(Applied)
    /\ \A v \in Vouchers : AllocatedTo(i)[v] \in Nat /\ JournalledTo(i)[v] \in Nat
    /\ \A r \in Requests : Pending(i)[r] \in Nat /\ Begun(i)[r] \in Nat
    /\ Numeric(AllocatedTo(i), Applied) /\ Numeric(JournalledTo(i), Vouchers)
    /\ Numeric(Pending(i), Requests) /\ Numeric(Begun(i), Requests)
    /\ SumFunctionOnSet(AllocatedTo(i), Applied) \in Nat
    /\ SumFunctionOnSet(JournalledTo(i), Vouchers) \in Nat
    /\ SumFunctionOnSet(Pending(i), Requests) \in Nat
    /\ SumFunctionOnSet(Begun(i), Requests) \in Nat
    /\ invoice[i].paid \in Nat

LEMMA PaidSums == PayInv /\ ListsHeld => \A i \in Invoices : PaidNumbers(i)
<1> SUFFICES ASSUME PayInv, ListsHeld, NEW i \in Invoices PROVE PaidNumbers(i)
  OBVIOUS
<1>1. IsFiniteSet(Vouchers) /\ IsFiniteSet(Requests) /\ IsFiniteSet(Applied)
  BY PayAssumption, FS_Subset DEF Applied
<1>2. ASSUME NEW v \in Vouchers
      PROVE  AllocatedTo(i)[v] \in Nat /\ JournalledTo(i)[v] \in Nat
  <2>1. voucher[v].allocations \in Seq(AllocationType) /\ journal[v] \in Nat
    BY DEF PayInv, PayTypeOK, VoucherRow, Docs
  <2>2. AllocatedTo(i)[v] \in Nat
    BY <2>1, SettlesNat DEF AllocatedTo
  <2>3. JournalledTo(i)[v] = journal[v] * AllocatedTo(i)[v]
    BY DEF JournalledTo
  <2> QED BY <2>1, <2>2, <2>3
<1>3. ASSUME NEW r \in Requests
      PROVE  Pending(i)[r] \in Nat /\ Begun(i)[r] \in Nat
  <2>1. request[r].list \in Seq(AllocationType)
    BY RequestFields DEF PayInv
  <2>2. Settles(request[r].list, i) \in Nat
    BY <2>1, SettlesNat
  <2>3. ASSUME Paying(request[r])
        PROVE  LET all == voucher[request[r].doc].allocations
               IN  Settles(all, i) \in Nat /\ Settles(request[r].list, i) <= Settles(all, i)
    <3>1. request[r].doc \in Vouchers
      BY <2>3 DEF Paying, PayInv, RequestInv, RequestOK, VoucherRequestOK
    <3>2. voucher[request[r].doc].allocations \in Seq(AllocationType)
      BY <3>1 DEF PayInv, PayTypeOK, VoucherRow
    <3> QED BY <2>3, <3>2, SettlesNat DEF Paying, ListsHeld
  <2> QED BY <2>2, <2>3 DEF Pending, Begun
<1>4. Applied \subseteq Vouchers
  BY DEF Applied
<1>5. /\ SumFunctionOnSet(AllocatedTo(i), Applied) \in Nat
      /\ SumFunctionOnSet(JournalledTo(i), Vouchers) \in Nat
      /\ SumFunctionOnSet(Pending(i), Requests) \in Nat
      /\ SumFunctionOnSet(Begun(i), Requests) \in Nat
  BY <1>1, <1>2, <1>3, <1>4, SumNotNegative
<1>6. invoice[i].paid \in Nat
  BY DEF PayInv, PayTypeOK, InvoiceRow
<1> QED BY <1>1, <1>2, <1>3, <1>4, <1>5, <1>6 DEF Numeric, PaidNumbers

LEMMA PaidSumsNext == (PayInv /\ ListsHeld => \A i \in Invoices : PaidNumbers(i))'
BY PaidSums, PTL

\* A voucher that was journalled, is posted, or is being posted stands.
LEMMA AbsentUntouched ==
    ASSUME PayInv, NEW v \in Vouchers, voucher[v].status = "ABSENT"
    PROVE  /\ journal[v] = 0 /\ v \notin Applied
           /\ \A r \in Requests : request[r].op = "postVoucher" => request[r].doc # v
<1>1. \A r \in Requests : request[r].op = "postVoucher" => voucher[request[r].doc].status # "ABSENT"
  BY DEF PayInv, RequestInv, RequestOK, VoucherRequestOK
<1> QED BY <1>1 DEF PayInv, AbsentInv, Applied, At

\* A step of r that pays nothing and posts no voucher, and after which r applies
\* none, neither pays too much nor too little.
LEMMA PaidStays ==
    ASSUME PayInv, PayInv', ListsHeld, ListsHeld', NEW r,
           \A s \in Requests \ {r} : request'[s] = request[s],
           r \in Requests => ~Paying(request'[r]),
           \A v \in Vouchers : /\ journal'[v] = journal[v]
                               /\ \/ voucher'[v].allocations = voucher[v].allocations
                                  \/ voucher[v].status = "ABSENT",
           Applied' \subseteq Applied,
           NEW i \in Invoices, invoice'[i].paid = invoice[i].paid
    PROVE  /\ Lost(i)' >= Lost(i) /\ Extra(i)' >= Extra(i)
           /\ (r \in Requests => ~Paying(request[r])) => Lost(i)' = Lost(i)
<1> PaidNumbers(i) /\ PaidNumbers(i)' /\ IsFiniteSet(Vouchers) /\ IsFiniteSet(Requests)
  BY PaidSums, PaidSumsNext, PayAssumption
<1>1. SumFunctionOnSet(JournalledTo(i)', Vouchers) = SumFunctionOnSet(JournalledTo(i), Vouchers)
  <2>1. ASSUME NEW v \in Vouchers PROVE JournalledTo(i)'[v] = JournalledTo(i)[v]
    <3>1. JournalledTo(i)[v] = journal[v] * AllocatedTo(i)[v]
          /\ JournalledTo(i)'[v] = journal'[v] * AllocatedTo(i)'[v]
      BY DEF JournalledTo
    <3>2. AllocatedTo(i)[v] \in Nat /\ AllocatedTo(i)'[v] \in Nat
      BY DEF PaidNumbers
    <3>3. CASE voucher[v].status = "ABSENT"
      BY <3>1, <3>2, <3>3, AbsentUntouched
    <3>4. CASE voucher'[v].allocations = voucher[v].allocations
      BY <3>1, <3>4 DEF AllocatedTo
    <3> QED BY <3>3, <3>4
  <2> QED BY <2>1, SumSame DEF PaidNumbers
<1>2. SumFunctionOnSet(AllocatedTo(i)', Applied') <= SumFunctionOnSet(AllocatedTo(i), Applied)
  <2>1. ASSUME NEW v \in Applied PROVE AllocatedTo(i)'[v] = AllocatedTo(i)[v]
    BY AbsentUntouched DEF AllocatedTo, Applied
  <2>2. Numeric(AllocatedTo(i), Applied')
    BY FS_Subset DEF Numeric, PaidNumbers
  <2>3. SumFunctionOnSet(AllocatedTo(i), Applied') = SumFunctionOnSet(AllocatedTo(i)', Applied')
    BY <2>1, <2>2, SumSame
  <2>4. SumFunctionOnSet(AllocatedTo(i), Applied') <= SumFunctionOnSet(AllocatedTo(i), Applied)
    <3>1. \A v \in Applied : AllocatedTo(i)[v] >= 0
      BY DEF PaidNumbers, Applied
    <3> QED BY <3>1, SumOfFewer DEF PaidNumbers
  <2> QED BY <2>3, <2>4
<1>3. ASSUME NEW s \in Requests, s # r
      PROVE  Pending(i)'[s] = Pending(i)[s] /\ Begun(i)'[s] = Begun(i)[s]
  <2>1. Paying(request[s]) => voucher'[request[s].doc].allocations = voucher[request[s].doc].allocations
    <3>1. Paying(request[s]) => request[s].doc \in Vouchers
      BY DEF Paying, PayInv, RequestInv, RequestOK, VoucherRequestOK
    <3> QED BY <3>1, AbsentUntouched DEF Paying
  <2> QED BY <1>3, <2>1 DEF Pending, Begun, Paying
<1>4. r \in Requests => Pending(i)'[r] = 0 /\ Begun(i)'[r] = 0
  BY DEF Pending, Begun
<1>5. r \in Requests /\ ~Paying(request[r]) => Pending(i)[r] = 0 /\ Begun(i)[r] = 0
  BY DEF Pending, Begun
<1>6. /\ SumFunctionOnSet(Pending(i)', Requests) <= SumFunctionOnSet(Pending(i), Requests)
      /\ SumFunctionOnSet(Begun(i)', Requests) <= SumFunctionOnSet(Begun(i), Requests)
  <2>1. \A s \in Requests : Pending(i)'[s] <= Pending(i)[s] /\ Begun(i)'[s] <= Begun(i)[s]
    BY <1>3, <1>4 DEF PaidNumbers
  <2> QED BY <2>1, SumAtMost DEF PaidNumbers
<1>7. (r \in Requests => ~Paying(request[r])) =>
          SumFunctionOnSet(Pending(i)', Requests) = SumFunctionOnSet(Pending(i), Requests)
  <2>1. (r \in Requests => ~Paying(request[r])) => \A s \in Requests : Pending(i)[s] = Pending(i)'[s]
    BY <1>3, <1>4, <1>5
  <2> QED BY <2>1, SumSame DEF PaidNumbers
<1>8. /\ SumFunctionOnSet(AllocatedTo(i), Applied) \in Nat
      /\ SumFunctionOnSet(JournalledTo(i), Vouchers) \in Nat
      /\ SumFunctionOnSet(Pending(i), Requests) \in Nat
      /\ SumFunctionOnSet(Begun(i), Requests) \in Nat
      /\ invoice[i].paid \in Nat
      /\ SumFunctionOnSet(AllocatedTo(i)', Applied') \in Nat
      /\ SumFunctionOnSet(Pending(i)', Requests) \in Nat
      /\ SumFunctionOnSet(Begun(i)', Requests) \in Nat
  BY DEF PaidNumbers
<1> QED BY <1>1, <1>2, <1>6, <1>7, <1>8 DEF Lost, Extra

\* What r does is of no account to what is paid.
Quiet(r) ==
    /\ \A s \in Requests \ {r} : request'[s] = request[s]
    /\ r \in Requests =>
          /\ ~Paying(request'[r])
          /\ request'[r].op = "postVoucher" /\ request'[r].step = "journal" =>
                 request'[r].list = voucher'[request'[r].doc].allocations
    /\ \A v \in Vouchers : /\ journal'[v] = journal[v]
                           /\ \/ voucher'[v].allocations = voucher[v].allocations
                              \/ voucher[v].status = "ABSENT"
    /\ Applied' \subseteq Applied
    /\ \A i \in Invoices : invoice'[i].paid = invoice[i].paid

\* The lists of the other requests stay what they were.
LEMMA ListsStay ==
    ASSUME PayInv, ListsHeld, NEW r, \A s \in Requests \ {r} : request'[s] = request[s],
           \A v \in Vouchers : \/ voucher'[v].allocations = voucher[v].allocations
                               \/ voucher[v].status = "ABSENT",
           r \in Requests /\ request'[r].op = "postVoucher" =>
               LET all == voucher'[request'[r].doc].allocations
               IN  /\ request'[r].step = "journal" => request'[r].list = all
                   /\ request'[r].step = "apply" =>
                        \A i \in Invoices : Settles(request'[r].list, i) <= Settles(all, i)
    PROVE  ListsHeld'
<1> SUFFICES ASSUME NEW s \in Requests, request'[s].op = "postVoucher"
             PROVE  LET all == voucher'[request'[s].doc].allocations
                    IN  /\ request'[s].step = "journal" => request'[s].list = all
                        /\ request'[s].step = "apply" =>
                             \A i \in Invoices : Settles(request'[s].list, i) <= Settles(all, i)
  BY DEF ListsHeld, Settles
<1>1. CASE s = r
  BY <1>1
<1>2. CASE s # r
  <2>1. request'[s] = request[s] /\ request[s].doc \in Vouchers
    BY <1>2 DEF PayInv, RequestInv, RequestOK, VoucherRequestOK
  <2>2. voucher'[request[s].doc].allocations = voucher[request[s].doc].allocations
    BY <2>1, AbsentUntouched
  <2> QED BY <2>1, <2>2 DEF ListsHeld
<1> QED BY <1>1, <1>2

LEMMA QuietKeeps ==
    ASSUME PayInv, PayInv', ListsHeld, NEW r, Quiet(r)
    PROVE  /\ ListsHeld'
           /\ \A i \in Invoices :
                 /\ Lost(i)' >= Lost(i) /\ Extra(i)' >= Extra(i)
                 /\ (r \in Requests => ~Paying(request[r])) => Lost(i)' = Lost(i)
<1>1. ListsHeld'
  BY ListsStay DEF Quiet, Paying
<1>2. ASSUME NEW i \in Invoices
      PROVE  /\ Lost(i)' >= Lost(i) /\ Extra(i)' >= Extra(i)
             /\ (r \in Requests => ~Paying(request[r])) => Lost(i)' = Lost(i)
  BY <1>1, PaidStays DEF Quiet
<1> QED BY <1>1, <1>2

\* A request that begins, ends or goes on, and posts no voucher.
LEMMA QuietRequest ==
    ASSUME PayInv, NEW r \in Requests, \A s \in Requests \ {r} : request'[s] = request[s],
           request'[r].op = "postVoucher" =>
               request'[r].step = "journal" /\ request'[r].list = voucher'[request'[r].doc].allocations,
           \A v \in Vouchers : /\ journal'[v] = journal[v]
                               /\ \/ voucher'[v].allocations = voucher[v].allocations
                                  \/ voucher[v].status = "ABSENT"
                               /\ voucher'[v].status = "POSTED" => v \in Applied,
           \A i \in Invoices : invoice'[i].paid = invoice[i].paid
    PROVE  Quiet(r)
<1>1. ~Paying(request'[r])
  BY DEF Paying
<1>2. ASSUME NEW v \in Applied' PROVE v \in Applied
  <2>1. v \in Vouchers
    BY DEF Applied
  <2>2. CASE \E s \in Requests : At(s, "postVoucher", "status")' /\ request'[s].doc = v
    <3>1. PICK s \in Requests : At(s, "postVoucher", "status")' /\ request'[s].doc = v
      BY <2>2
    <3>2. s # r
      BY <3>1 DEF At
    <3> QED BY <2>1, <3>1, <3>2 DEF Applied, At
  <2>3. CASE voucher'[v].status = "POSTED"
    BY <2>1, <2>3
  <2> QED BY <2>2, <2>3 DEF Applied
<1> QED BY <1>1, <1>2 DEF Quiet

LEMMA QuietBegin ==
    ASSUME PayInv, NEW r \in Requests, NEW q, Begin(r, q),
           q.op = "postVoucher" => q.step = "journal" /\ q.list = voucher[q.doc].allocations
    PROVE  Quiet(r) /\ ~Paying(request[r])
<1>1. request'[r] = q /\ \A s \in Requests \ {r} : request'[s] = request[s]
  BY DEF Begin, PayInv, PayTypeOK
<1>2. UNCHANGED <<invoice, voucher, journal>> /\ request[r] = Idle
  BY DEF Begin, docVars
<1> QED BY <1>1, <1>2, QuietRequest DEF Paying, Idle, Applied

LEMMA QuietBegins ==
    ASSUME PayInv, NEW r \in Requests, PayBegin(r)
    PROVE  Quiet(r) /\ ~Paying(request[r])
<1>1. ASSUME NEW i \in Invoices, BeginPostInvoice(r, i)
      PROVE  Quiet(r) /\ ~Paying(request[r])
  BY <1>1, QuietBegin DEF BeginPostInvoice, Idle
<1>2. ASSUME NEW v \in Vouchers, BeginPostVoucher(r, v)
      PROVE  Quiet(r) /\ ~Paying(request[r])
  BY <1>2, QuietBegin DEF BeginPostVoucher, Idle
<1>3. ASSUME NEW v \in Vouchers, NEW user \in Users, BeginApproveVoucher(r, v, user)
      PROVE  Quiet(r) /\ ~Paying(request[r])
  BY <1>3, QuietBegin DEF BeginApproveVoucher, Idle
<1>4. ASSUME NEW v \in Vouchers, NEW user \in Users, NEW b \in Batches \cup {None},
             NEW list \in Lists, BeginVoucher(r, v, user, b, list)
      PROVE  Quiet(r) /\ ~Paying(request[r])
  BY <1>4, QuietBegin DEF BeginVoucher, Idle
<1>5. ASSUME NEW b \in Batches, BeginProcess(r, b)
      PROVE  Quiet(r) /\ ~Paying(request[r])
  BY <1>5, QuietBegin DEF BeginProcess, Idle
<1>6. ASSUME NEW b \in Batches, NEW user \in Users, BeginApproveBatch(r, b, user)
      PROVE  Quiet(r) /\ ~Paying(request[r])
  BY <1>6, QuietBegin DEF BeginApproveBatch, Idle
<1>7. ASSUME NEW d \in Deductions, BeginRemit(r, d)
      PROVE  Quiet(r) /\ ~Paying(request[r])
  BY <1>7, QuietBegin DEF BeginRemit, Idle
<1> QED BY <1>1, <1>2, <1>3, <1>4, <1>5, <1>6, <1>7 DEF PayBegin

\* The steps of the requests that post, apply or finish no voucher.
LEMMA QuietContinues ==
    ASSUME PayInv, NEW r \in Requests,
           \/ PostInvoiceJournal(r) \/ MarkInvoicePosted(r) \/ WriteInvoiceLedger(r)
           \/ InsertVoucher(r) \/ WriteApproveVoucher(r) \/ MarkVoucherPosted(r)
           \/ WriteApproveBatch(r) \/ CloseBatch(r) \/ (\E v \in Vouchers : NextVoucher(r, v))
           \/ RemitJournal(r) \/ MarkRemitted(r)
    PROVE  Quiet(r) /\ ~Paying(request[r])
<1> DEFINE rows == /\ \A v \in Vouchers :
                         /\ journal'[v] = journal[v]
                         /\ \/ voucher'[v].allocations = voucher[v].allocations
                            \/ voucher[v].status = "ABSENT"
                         /\ voucher'[v].status = "POSTED" => v \in Applied
                   /\ \A i \in Invoices : invoice'[i].paid = invoice[i].paid
           others == \A s \in Requests \ {r} : request'[s] = request[s]
<1>0. /\ request \in [Requests -> RequestRow] /\ request[r] = [request[r] EXCEPT !.op = @]
      /\ invoice \in [Invoices -> InvoiceRow] /\ voucher \in [Vouchers -> VoucherRow]
      /\ journal \in [Docs -> Nat] /\ RequestOK(request[r])
  BY DEF PayInv, PayTypeOK, RequestRow, RequestInv
<1>1. CASE PostInvoiceJournal(r)
  <2>1. request[r].op = "postInvoice" /\ request[r].doc \in Invoices
    BY <1>0, <1>1 DEF PostInvoiceJournal, At, RequestOK, InvoiceRequestOK
  <2>2. others /\ request'[r].op = "postInvoice"
    BY <1>0, <1>1, <2>1 DEF PostInvoiceJournal, PostJournal, Goto, RequestRow
  <2>3. rows
    BY <1>0, <1>1, <2>1, PayAssumption DEF PostInvoiceJournal, PostJournal, docVars, Applied, Docs
  <2> QED BY <2>1, <2>2, <2>3, QuietRequest DEF Paying
<1>2. CASE MarkInvoicePosted(r)
  <2>1. others /\ request'[r].op = "postInvoice" /\ request[r].op = "postInvoice"
    BY <1>0, <1>2 DEF MarkInvoicePosted, At, Goto, RequestRow
  <2>2. rows
    BY <1>0, <1>2 DEF MarkInvoicePosted, Applied, InvoiceRow
  <2> QED BY <2>1, <2>2, QuietRequest DEF Paying
<1>3. CASE WriteInvoiceLedger(r)
  <2>1. others /\ request'[r].op = "none" /\ request[r].op = "postInvoice"
    BY <1>0, <1>3 DEF WriteInvoiceLedger, At, Finish, Idle
  <2>2. rows
    BY <1>0, <1>3 DEF WriteInvoiceLedger, WriteLedgerRow, docVars, Applied
  <2> QED BY <2>1, <2>2, QuietRequest DEF Paying
<1>4. CASE InsertVoucher(r)
  <2>1. others /\ request'[r].op = "none" /\ request[r].op = "createVoucher"
    BY <1>0, <1>4 DEF InsertVoucher, At, Finish, Idle
  <2>2. rows
    <3>1. request[r].doc \in Vouchers /\ voucher[request[r].doc].status = "ABSENT"
      BY <1>0, <1>4 DEF InsertVoucher, At, RequestOK, VoucherRequestOK
    <3>2. /\ voucher'[request[r].doc].status = "DRAFT"
          /\ \A v \in Vouchers \ {request[r].doc} : voucher'[v] = voucher[v]
          /\ UNCHANGED <<invoice, journal>>
      BY <1>0, <1>4, <3>1 DEF InsertVoucher, NoVoucher
    <3> QED BY <3>1, <3>2 DEF Applied
  <2> QED BY <2>1, <2>2, QuietRequest DEF Paying
<1>5. CASE WriteApproveVoucher(r)
  <2>1. others /\ request'[r].op = "none" /\ request[r].op = "approveVoucher"
    BY <1>0, <1>5 DEF WriteApproveVoucher, At, Finish, Idle
  <2>2. rows
    BY <1>0, <1>5 DEF WriteApproveVoucher, Applied, VoucherRow
  <2> QED BY <2>1, <2>2, QuietRequest DEF Paying
<1>6. CASE MarkVoucherPosted(r)
  <2>1. others /\ request'[r].op # "postVoucher" /\ At(r, "postVoucher", "status")
    BY <1>0, <1>6 DEF MarkVoucherPosted, Finish, Idle, RequestRow
  <2>2. rows
    BY <1>0, <1>6, <2>1 DEF MarkVoucherPosted, Applied, VoucherRow
  <2> QED BY <2>1, <2>2, QuietRequest DEF Paying, At
<1>7. CASE WriteApproveBatch(r)
  <2>1. others /\ request'[r].op = "none" /\ request[r].op = "approveBatch"
    BY <1>0, <1>7 DEF WriteApproveBatch, At, Finish, Idle
  <2>2. rows
    BY <1>0, <1>7 DEF WriteApproveBatch, Applied
  <2> QED BY <2>1, <2>2, QuietRequest DEF Paying
<1>8. CASE CloseBatch(r)
  <2>1. others /\ request'[r].op = "none" /\ request[r].op = "processBatch"
    BY <1>0, <1>8 DEF CloseBatch, At, Finish, Idle
  <2>2. rows
    BY <1>0, <1>8 DEF CloseBatch, Applied
  <2> QED BY <2>1, <2>2, QuietRequest DEF Paying
<1>9. ASSUME NEW v \in Vouchers, NextVoucher(r, v)
      PROVE  Quiet(r) /\ ~Paying(request[r])
  <2>1. others /\ request[r].op = "processBatch"
    BY <1>0, <1>9 DEF NextVoucher, At, Finish
  <2>2. \/ request'[r].op = "none"
        \/ /\ request'[r].step = "journal" /\ request'[r].doc = v
           /\ request'[r].list = voucher[v].allocations
    <3>1. CASE voucher[v].status = "APPROVED"
      <4>1. request'[r] = [request[r] EXCEPT !.op = "postVoucher", !.step = "journal", !.doc = v,
                                             !.list = voucher[v].allocations, !.todo = @ \ {v}]
        BY <1>0, <1>9, <3>1 DEF NextVoucher
      <4>2. request[r] \in RequestRow
        BY <1>0
      <4> QED BY <4>1, <4>2 DEF RequestRow
    <3>2. CASE voucher[v].status # "APPROVED"
      <4>1. Finish(r)
        BY <1>9, <3>2 DEF NextVoucher
      <4> QED BY <1>0, <4>1 DEF Finish, Idle
    <3> QED BY <3>1, <3>2
  <2>3. rows /\ UNCHANGED voucher
    BY <1>0, <1>9 DEF NextVoucher, docVars, Applied
  <2> QED BY <2>1, <2>2, <2>3, QuietRequest DEF Paying
<1>10. CASE RemitJournal(r)
  <2>1. request[r].op = "remit" /\ request[r].doc \in Deductions
    BY <1>0, <1>10 DEF RemitJournal, At, RequestOK, RemitRequestOK
  <2>2. others /\ request'[r].op = "remit"
    BY <1>0, <1>10, <2>1 DEF RemitJournal, PostJournal, Goto, RequestRow
  <2>3. rows
    BY <1>0, <1>10, <2>1, PayAssumption DEF RemitJournal, PostJournal, docVars, Applied, Docs
  <2> QED BY <2>1, <2>2, <2>3, QuietRequest DEF Paying
<1>11. CASE MarkRemitted(r)
  <2>1. others /\ request'[r].op = "none" /\ request[r].op = "remit"
    BY <1>0, <1>11 DEF MarkRemitted, At, Finish, Idle
  <2>2. rows
    BY <1>0, <1>11 DEF MarkRemitted, Applied
  <2> QED BY <2>1, <2>2, QuietRequest DEF Paying
<1> QED BY <1>1, <1>2, <1>3, <1>4, <1>5, <1>6, <1>7, <1>8, <1>9, <1>10, <1>11

\* Posting a voucher: what it settles is still to be applied.
LEMMA VoucherJournalled ==
    ASSUME PayInv, PayInv', ListsHeld, NEW r \in Requests, PostVoucherJournal(r)
    PROVE  ListsHeld' /\ \A i \in Invoices : Lost(i)' = Lost(i) /\ Extra(i)' = Extra(i)
<1>1. PICK v \in Vouchers : v = request[r].doc
  BY DEF PostVoucherJournal, At, PayInv, RequestInv, RequestOK, VoucherRequestOK
<1>2. /\ request[r].op = "postVoucher" /\ request[r].step = "journal"
      /\ request[r].list = voucher[v].allocations
      /\ request' = [request EXCEPT ![r].step = "apply"]
      /\ journal' = [journal EXCEPT ![v] = @ + 1] /\ UNCHANGED <<invoice, voucher>>
  BY <1>1 DEF PostVoucherJournal, At, PostJournal, Goto, docVars, ListsHeld
<1>3. /\ request \in [Requests -> RequestRow] /\ journal \in [Docs -> Nat] /\ v \in Docs
      /\ voucher[v].allocations \in Seq(AllocationType)
  BY DEF PayInv, PayTypeOK, VoucherRow, Docs
<1>4. /\ request'[r].op = "postVoucher" /\ request'[r].step = "apply" /\ request'[r].doc = v
      /\ request'[r].list = voucher[v].allocations
      /\ \A s \in Requests \ {r} : request'[s] = request[s]
  BY <1>1, <1>2, <1>3 DEF RequestRow
<1>5. \A i \in Invoices : Settles(voucher[v].allocations, i) \in Nat
  BY <1>3, SettlesNat
<1>6. ListsHeld'
  BY <1>2, <1>4, <1>5, ListsStay
<1>7. ASSUME NEW i \in Invoices
      PROVE  Lost(i)' = Lost(i) /\ Extra(i)' = Extra(i)
  <2> DEFINE all == Settles(voucher[v].allocations, i)
  <2>1. PaidNumbers(i) /\ PaidNumbers(i)' /\ IsFiniteSet(Vouchers) /\ IsFiniteSet(Requests)
    BY <1>6, PaidSums, PaidSumsNext, PayAssumption
  <2>2. Applied' = Applied
    BY <1>2, <1>4 DEF Applied, At
  <2>3. AllocatedTo(i)' = AllocatedTo(i)
    BY <1>2 DEF AllocatedTo
  <2>4. SumFunctionOnSet(JournalledTo(i)', Vouchers) = SumFunctionOnSet(JournalledTo(i), Vouchers) + all
    <3>1. \A w \in Vouchers : /\ JournalledTo(i)[w] = journal[w] * AllocatedTo(i)[w]
                              /\ JournalledTo(i)'[w] = journal'[w] * AllocatedTo(i)[w]
      BY <2>3 DEF JournalledTo
    <3>2. \A w \in Vouchers \ {v} : JournalledTo(i)[w] = JournalledTo(i)'[w]
      BY <1>2, <3>1
    <3>3. AllocatedTo(i)[v] = all /\ journal'[v] = journal[v] + 1 /\ journal[v] \in Nat /\ all \in Nat
      BY <1>2, <1>3, <1>5 DEF AllocatedTo
    <3>4. JournalledTo(i)[v] = journal[v] * all /\ JournalledTo(i)'[v] = (journal[v] + 1) * all
      BY <3>1, <3>3
    <3>5. JournalledTo(i)'[v] = JournalledTo(i)[v] + all
      BY <3>3, <3>4
    <3>6. SumFunctionOnSet(JournalledTo(i)', Vouchers)
            = SumFunctionOnSet(JournalledTo(i), Vouchers) - JournalledTo(i)[v] + JournalledTo(i)'[v]
      BY <2>1, <3>2, SumChanges DEF PaidNumbers
    <3>7. JournalledTo(i)[v] \in Nat /\ SumFunctionOnSet(JournalledTo(i), Vouchers) \in Nat
      BY <2>1 DEF PaidNumbers
    <3> QED BY <3>3, <3>5, <3>6, <3>7
  <2>5. SumFunctionOnSet(Pending(i)', Requests) = SumFunctionOnSet(Pending(i), Requests) + all
    <3>1. Pending(i)[r] = 0 /\ Pending(i)'[r] = all
      BY <1>2, <1>4 DEF Pending, Paying
    <3>2. \A s \in Requests \ {r} : Pending(i)[s] = Pending(i)'[s]
      BY <1>4 DEF Pending, Paying
    <3>3. SumFunctionOnSet(Pending(i)', Requests)
            = SumFunctionOnSet(Pending(i), Requests) - Pending(i)[r] + Pending(i)'[r]
      BY <2>1, <3>2, SumChanges DEF PaidNumbers
    <3> QED BY <1>5, <2>1, <3>1, <3>3 DEF PaidNumbers
  <2>6. SumFunctionOnSet(Begun(i)', Requests) = SumFunctionOnSet(Begun(i), Requests)
    <3>1. \A s \in Requests : Begun(i)[s] = Begun(i)'[s]
      BY <1>2, <1>4, <1>5 DEF Begun, Paying
    <3> QED BY <2>1, <3>1, SumSame DEF PaidNumbers
  <2>7. invoice' = invoice
    BY <1>2
  <2> QED BY <1>5, <2>1, <2>2, <2>3, <2>4, <2>5, <2>6, <2>7 DEF Lost, Extra, PaidNumbers
<1> QED BY <1>6, <1>7

\* Applying an allocation: what was still to be applied is paid.
LEMMA AllocationApplied ==
    ASSUME PayInv, PayInv', ListsHeld, NEW r \in Requests, ApplyAllocation(r)
    PROVE  ListsHeld' /\ \A i \in Invoices : Lost(i)' = Lost(i) /\ Extra(i)' = Extra(i)
<1>1. PICK v \in Vouchers : v = request[r].doc
  BY DEF ApplyAllocation, At, PayInv, RequestInv, RequestOK, VoucherRequestOK
<1>2. PICK list \in Seq(AllocationType) : list = request[r].list
  BY RequestFields DEF PayInv
<1>3. /\ request[r].op = "postVoucher" /\ request[r].step = "apply" /\ list # <<>>
      /\ invoice' = [invoice EXCEPT ![Head(list).invoice].paid = @ + Head(list).amount]
      /\ request' = [request EXCEPT ![r].list = Tail(@)]
      /\ UNCHANGED <<voucher, journal>>
  BY <1>2 DEF ApplyAllocation, At
<1>4. /\ request \in [Requests -> RequestRow] /\ invoice \in [Invoices -> InvoiceRow]
      /\ voucher[v].allocations \in Seq(AllocationType)
      /\ Tail(list) \in Seq(AllocationType) /\ Head(list) \in AllocationType
  BY <1>3, SettlesHead DEF PayInv, PayTypeOK, VoucherRow
<1>5. /\ request'[r].op = "postVoucher" /\ request'[r].step = "apply" /\ request'[r].doc = v
      /\ request'[r].list = Tail(list)
      /\ \A s \in Requests \ {r} : request'[s] = request[s]
  BY <1>1, <1>2, <1>3, <1>4 DEF RequestRow
<1> DEFINE part(i) == IF Head(list).invoice = i THEN Head(list).amount ELSE 0
           all(i) == Settles(voucher[v].allocations, i)
<1>6. ASSUME NEW i \in Invoices
      PROVE  /\ part(i) \in Nat /\ all(i) \in Nat /\ Settles(Tail(list), i) \in Nat
             /\ Settles(list, i) = part(i) + Settles(Tail(list), i) /\ Settles(list, i) <= all(i)
             /\ invoice'[i].paid = invoice[i].paid + part(i)
  <2>1. part(i) \in Nat
    BY <1>4 DEF AllocationType
  <2>2. all(i) \in Nat /\ Settles(Tail(list), i) \in Nat
    BY <1>4, SettlesNat
  <2>3. Settles(list, i) = part(i) + Settles(Tail(list), i)
    BY <1>3, SettlesHead
  <2>4. Settles(list, i) <= all(i)
    BY <1>1, <1>2, <1>3 DEF ListsHeld
  <2>5. invoice'[i].paid = invoice[i].paid + part(i)
    BY <1>3, <1>4 DEF InvoiceRow, AllocationType
  <2> QED BY <2>1, <2>2, <2>3, <2>4, <2>5
<1>7. ListsHeld'
  <2>1. \A i \in Invoices : Settles(Tail(list), i) <= all(i)
    <3> HIDE DEF part, all
    <3> QED BY <1>6
  <2> QED BY <1>3, <1>5, <2>1, ListsStay
<1>8. ASSUME NEW i \in Invoices
      PROVE  Lost(i)' = Lost(i) /\ Extra(i)' = Extra(i)
  <2>1. PaidNumbers(i) /\ PaidNumbers(i)' /\ IsFiniteSet(Vouchers) /\ IsFiniteSet(Requests)
    BY <1>7, PaidSums, PaidSumsNext, PayAssumption
  <2>2. Applied' = Applied
    BY <1>3, <1>5 DEF Applied, At
  <2>3. AllocatedTo(i)' = AllocatedTo(i) /\ JournalledTo(i)' = JournalledTo(i)
    BY <1>3 DEF AllocatedTo, JournalledTo
  <2>4. SumFunctionOnSet(Pending(i)', Requests) = SumFunctionOnSet(Pending(i), Requests) - part(i)
    <3>1. Pending(i)[r] = Settles(list, i) /\ Pending(i)'[r] = Settles(Tail(list), i)
      BY <1>2, <1>3, <1>5 DEF Pending, Paying
    <3>2. \A s \in Requests \ {r} : Pending(i)[s] = Pending(i)'[s]
      BY <1>5 DEF Pending, Paying
    <3>3. SumFunctionOnSet(Pending(i)', Requests)
            = SumFunctionOnSet(Pending(i), Requests) - Pending(i)[r] + Pending(i)'[r]
      BY <2>1, <3>2, SumChanges DEF PaidNumbers
    <3>4. /\ Settles(list, i) = part(i) + Settles(Tail(list), i)
          /\ part(i) \in Nat /\ Settles(Tail(list), i) \in Nat
      BY <1>6
    <3> HIDE DEF part
    <3> QED BY <2>1, <3>1, <3>3, <3>4 DEF PaidNumbers
  <2>5. SumFunctionOnSet(Begun(i)', Requests) = SumFunctionOnSet(Begun(i), Requests) + part(i)
    <3>1. Begun(i)[r] = all(i) - Settles(list, i) /\ Begun(i)'[r] = all(i) - Settles(Tail(list), i)
      BY <1>1, <1>2, <1>3, <1>5 DEF Begun, Paying
    <3>2. \A s \in Requests \ {r} : Begun(i)[s] = Begun(i)'[s]
      BY <1>3, <1>5 DEF Begun, Paying
    <3>3. SumFunctionOnSet(Begun(i)', Requests)
            = SumFunctionOnSet(Begun(i), Requests) - Begun(i)[r] + Begun(i)'[r]
      BY <2>1, <3>2, SumChanges DEF PaidNumbers
    <3>4. /\ Settles(list, i) = part(i) + Settles(Tail(list), i)
          /\ part(i) \in Nat /\ Settles(Tail(list), i) \in Nat /\ all(i) \in Nat
      BY <1>6
    <3> HIDE DEF part, all
    <3> QED BY <2>1, <3>1, <3>3, <3>4 DEF PaidNumbers
  <2>6. invoice'[i].paid = invoice[i].paid + part(i) /\ part(i) \in Nat
    BY <1>6
  <2>7. /\ SumFunctionOnSet(JournalledTo(i), Vouchers) \in Nat
        /\ SumFunctionOnSet(AllocatedTo(i), Applied) \in Nat
        /\ SumFunctionOnSet(Pending(i), Requests) \in Nat
        /\ SumFunctionOnSet(Begun(i), Requests) \in Nat /\ invoice[i].paid \in Nat
    BY <2>1 DEF PaidNumbers
  <2>8. PICK p \in Nat : p = part(i)
    BY <2>6
  <2> HIDE DEF part
  <2>9. Lost(i)' = Lost(i)
    BY <2>3, <2>4, <2>6, <2>7, <2>8 DEF Lost
  <2>10. Extra(i)' = Extra(i)
    BY <2>2, <2>3, <2>5, <2>6, <2>7, <2>8 DEF Extra
  <2> QED BY <2>9, <2>10
<1> QED BY <1>7, <1>8

\* The vendor ledger row: the voucher was applied in full.
LEMMA VoucherApplied ==
    ASSUME PayInv, PayInv', ListsHeld, NEW r \in Requests, WriteVoucherLedger(r)
    PROVE  ListsHeld' /\ \A i \in Invoices : Lost(i)' = Lost(i) /\ Extra(i)' >= Extra(i)
<1>1. PICK v \in Vouchers : v = request[r].doc
  BY DEF WriteVoucherLedger, At, PayInv, RequestInv, RequestOK, VoucherRequestOK
<1>2. /\ request[r].op = "postVoucher" /\ request[r].step = "apply" /\ request[r].list = <<>>
      /\ request' = [request EXCEPT ![r].step = "status"] /\ UNCHANGED <<invoice, voucher, journal>>
  BY <1>1 DEF WriteVoucherLedger, At, WriteLedgerRow, Goto, docVars
<1>3. request \in [Requests -> RequestRow] /\ voucher[v].allocations \in Seq(AllocationType)
  BY DEF PayInv, PayTypeOK, VoucherRow
<1>4. /\ request'[r].op = "postVoucher" /\ request'[r].step = "status" /\ request'[r].doc = v
      /\ \A s \in Requests \ {r} : request'[s] = request[s]
  BY <1>1, <1>2, <1>3 DEF RequestRow
<1>5. ListsHeld'
  BY <1>2, <1>4, ListsStay
<1>6. Applied' = Applied \cup {v}
  <2>1. \A w \in Vouchers : (\E s \in Requests : At(s, "postVoucher", "status")' /\ request'[s].doc = w)
          <=> w = v \/ \E s \in Requests : At(s, "postVoucher", "status") /\ request[s].doc = w
    BY <1>2, <1>4 DEF At
  <2> QED BY <1>2, <2>1 DEF Applied
<1>7. ASSUME NEW i \in Invoices
      PROVE  Lost(i)' = Lost(i) /\ Extra(i)' >= Extra(i)
  <2> DEFINE all == Settles(voucher[v].allocations, i)
  <2>1. PaidNumbers(i) /\ PaidNumbers(i)' /\ IsFiniteSet(Vouchers) /\ IsFiniteSet(Requests)
    BY <1>5, PaidSums, PaidSumsNext, PayAssumption
  <2>2. AllocatedTo(i)' = AllocatedTo(i) /\ JournalledTo(i)' = JournalledTo(i)
    BY <1>2 DEF AllocatedTo, JournalledTo
  <2>3. AllocatedTo(i)[v] = all /\ all \in Nat
    BY <1>3, SettlesNat DEF AllocatedTo
  <2>4. SumFunctionOnSet(AllocatedTo(i), Applied') <= SumFunctionOnSet(AllocatedTo(i), Applied) + all
    <3>1. CASE v \in Applied
      <4>1. Applied' = Applied
        BY <1>6, <3>1
      <4> QED BY <2>1, <2>3, <4>1 DEF PaidNumbers
    <3>2. CASE v \notin Applied
      <4>1. SumFunctionOnSet(AllocatedTo(i), Applied \cup {v})
              = SumFunctionOnSet(AllocatedTo(i), Applied) + AllocatedTo(i)[v]
        BY <2>1, <2>3, <3>2, SumAdds DEF PaidNumbers
      <4> QED BY <1>6, <2>1, <2>3, <4>1 DEF PaidNumbers
    <3> QED BY <3>1, <3>2
  <2>5. Settles(request[r].list, i) = 0
    BY <1>2, SettlesNothing
  <2>6. SumFunctionOnSet(Pending(i)', Requests) = SumFunctionOnSet(Pending(i), Requests)
    <3>1. \A s \in Requests : Pending(i)[s] = Pending(i)'[s]
      BY <1>2, <1>4, <2>5 DEF Pending, Paying
    <3> QED BY <2>1, <3>1, SumSame DEF PaidNumbers
  <2>7. SumFunctionOnSet(Begun(i)', Requests) = SumFunctionOnSet(Begun(i), Requests) - all
    <3>1. Begun(i)[r] = all /\ Begun(i)'[r] = 0
      BY <1>1, <1>2, <1>4, <2>3, <2>5 DEF Begun, Paying
    <3>2. \A s \in Requests \ {r} : Begun(i)[s] = Begun(i)'[s]
      BY <1>2, <1>4 DEF Begun, Paying
    <3>3. SumFunctionOnSet(Begun(i)', Requests)
            = SumFunctionOnSet(Begun(i), Requests) - Begun(i)[r] + Begun(i)'[r]
      BY <2>1, <3>2, SumChanges DEF PaidNumbers
    <3> QED BY <2>1, <2>3, <3>1, <3>3 DEF PaidNumbers
  <2>8. invoice' = invoice
    BY <1>2
  <2>9. /\ SumFunctionOnSet(AllocatedTo(i), Applied) \in Nat
        /\ SumFunctionOnSet(AllocatedTo(i), Applied') \in Nat
        /\ SumFunctionOnSet(Begun(i), Requests) \in Nat /\ invoice[i].paid \in Nat
    BY <2>1, <2>2 DEF PaidNumbers
  <2> HIDE DEF all
  <2> QED BY <2>2, <2>3, <2>4, <2>6, <2>7, <2>8, <2>9 DEF Lost, Extra
<1> QED BY <1>5, <1>7

\* A request that stops has at most not applied what it had posted.
LEMMA QuietStop ==
    ASSUME PayInv, NEW r \in Requests, Stop(r)
    PROVE  /\ Quiet(r)
           /\ request[r].step \in {"insert", "journal"} => ~Paying(request[r])
<1>1. request'[r].op = "none" /\ \A s \in Requests \ {r} : request'[s] = request[s]
  BY FinishOne DEF Stop, PayInv, Idle
<1>2. UNCHANGED <<invoice, voucher, journal>>
  BY DEF Stop, docVars
<1>3. Quiet(r)
  BY <1>1, <1>2, QuietRequest DEF Applied
<1> QED BY <1>3 DEF Paying

\* Every step leaves what was lost and what was paid beyond need as it was, or
\* adds to it; and only a request that stops while it applies a voucher loses
\* something.
LEMMA PaidMoves ==
    ASSUME PayInv, PayInv', ListsHeld, [PayNext]_payVars
    PROVE  /\ ListsHeld'
           /\ \A i \in Invoices :
                 /\ Lost(i)' >= Lost(i) /\ Extra(i)' >= Extra(i)
                 /\ Lost(i)' = Lost(i) \/ \E r \in Requests : Stop(r) /\ Paying(request[r])
<1> DEFINE Goal == /\ ListsHeld'
                   /\ \A i \in Invoices :
                         /\ Lost(i)' >= Lost(i) /\ Extra(i)' >= Extra(i)
                         /\ Lost(i)' = Lost(i) \/ \E r \in Requests : Stop(r) /\ Paying(request[r])
<1>0. \A i \in Invoices : Lost(i) \in Int /\ Extra(i) \in Int
  BY PaidSums DEF PaidNumbers, Lost, Extra
<1>1. ASSUME NEW r \in Requests, Quiet(r), ~Paying(request[r]) \/ Stop(r)
      PROVE  Goal
  BY <1>1, QuietKeeps
<1>2. ASSUME NEW i \in Invoices, CreateInvoice(i)
      PROVE  Goal
  <2>1. /\ UNCHANGED <<voucher, journal, request>>
        /\ \A j \in Invoices : invoice'[j].paid = invoice[j].paid
    BY <1>2 DEF CreateInvoice, PayInv, PayTypeOK, InvoiceRow
  <2>2. \E x : x \notin Requests /\ Quiet(x)
    <3>1. Applied' = Applied
      BY <2>1 DEF Applied, At
    <3>2. \E x : x \notin Requests
      BY NoSetContainsEverything
    <3> QED BY <2>1, <3>1, <3>2 DEF Quiet
  <2> QED BY <2>2, QuietKeeps
<1>3. ASSUME NEW r \in Requests, PayBegin(r)
      PROVE  Goal
  BY <1>1, <1>3, QuietBegins
<1>4. ASSUME NEW r \in Requests, PayContinue(r)
      PROVE  Goal
  <2>1. CASE PostVoucherJournal(r)
    BY <1>0, <2>1, VoucherJournalled
  <2>2. CASE ApplyAllocation(r)
    BY <1>0, <2>2, AllocationApplied
  <2>3. CASE WriteVoucherLedger(r)
    BY <1>0, <2>3, VoucherApplied
  <2> QED BY <1>1, <1>4, <2>1, <2>2, <2>3, QuietContinues DEF PayContinue
<1>5. ASSUME NEW r \in Requests, Stop(r)
      PROVE  Goal
  <2>1. Quiet(r)
    BY <1>5, QuietStop
  <2> QED BY <1>1, <1>5, <2>1
<1>6. ASSUME \/ \E b \in Batches, user \in Users : CreateBatch(b, user)
             \/ UNCHANGED payVars
      PROVE  Goal
  <2>1. UNCHANGED <<invoice, voucher, journal, request>>
    BY <1>6 DEF CreateBatch, payVars, docVars
  <2>2. \E x : x \notin Requests /\ Quiet(x)
    <3>1. Applied' = Applied
      BY <2>1 DEF Applied, At
    <3>2. \E x : x \notin Requests
      BY NoSetContainsEverything
    <3> QED BY <2>1, <3>1, <3>2 DEF Quiet
  <2> QED BY <2>2, QuietKeeps
<1> QED BY <1>2, <1>3, <1>4, <1>5, <1>6 DEF PayNext

-----------------------------------------------------------------------------
(* Requests that take turns *)

\* A document says that it is posted or remitted.
Done(x) ==
    \/ x \in Invoices /\ invoice[x].status = "POSTED"
    \/ x \in Vouchers /\ voucher[x].status = "POSTED"
    \/ x \in Deductions /\ deduction[x] = "REMITTED"

\* A request that has posted a document and has not yet marked it.
Marks(q, x) ==
    /\ q.doc = x
    /\ \/ q.op \in {"postInvoice", "remit"} /\ q.step = "status"
       \/ q.op = "postVoucher" /\ q.step \in {"apply", "status"}

\* With q the only request: what it will post is not posted, and the journal
\* and the ledger hold each document that is done, or under way with q, once.
Fresh(q) == q.step = "journal" \/ q.op = "approveVoucher" => ~Done(q.doc)
Booked(q, x) ==
    /\ journal[x] = IF Done(x) \/ Marks(q, x) THEN 1 ELSE 0
    /\ x \notin Deductions => vendorLedger[x] = IF Owes(q, x) THEN journal[x] - 1 ELSE journal[x]
Turn(q) == Fresh(q) /\ \A x \in Docs : Booked(q, x)

Alone(r) == \A s \in Requests \ {r} : request[s] = Idle

TurnInv ==
    /\ \A r, s \in Requests : r = s \/ request[r] = Idle \/ request[s] = Idle
    /\ \A r \in Requests : Alone(r) => Turn(request[r])
    /\ Requests = {} => Turn(Idle)
    /\ \A i \in Invoices : Lost(i) = 0

\* How a step of a lone request moves one document: not at all, into the
\* journal, or into the vendor ledger.
Rests(r, x) ==
    /\ journal'[x] = journal[x] /\ vendorLedger'[x] = vendorLedger[x]
    /\ (Done(x) \/ Marks(request[r], x))' <=> (Done(x) \/ Marks(request[r], x))
    /\ x \notin Deductions => (Owes(request[r], x)' <=> Owes(request[r], x))

Enters(r, x) ==
    /\ journal'[x] = journal[x] + 1 /\ vendorLedger'[x] = vendorLedger[x]
    /\ ~Done(x) /\ ~Marks(request[r], x) /\ Marks(request[r], x)'
    /\ x \notin Deductions => ~Owes(request[r], x) /\ Owes(request[r], x)'

Lands(r, x) ==
    /\ journal'[x] = journal[x] /\ vendorLedger'[x] = vendorLedger[x] + 1
    /\ (Done(x) \/ Marks(request[r], x))' <=> (Done(x) \/ Marks(request[r], x))
    /\ Owes(request[r], x) /\ ~Owes(request[r], x)'

LEMMA TurnGoesOn ==
    ASSUME PayTypeOK, NEW r \in Requests, Turn(request[r]), Fresh(request[r])',
           \A x \in Docs : Rests(r, x) \/ Enters(r, x) \/ Lands(r, x)
    PROVE  Turn(request[r])'
<1> SUFFICES ASSUME NEW x \in Docs PROVE Booked(request[r], x)'
  BY DEF Turn, Docs
<1>1. Booked(request[r], x) /\ journal[x] \in Nat /\ vendorLedger[x] \in Nat
  BY DEF Turn, PayTypeOK
<1>2. CASE Rests(r, x)
  BY <1>1, <1>2 DEF Booked, Rests
<1>3. CASE Enters(r, x)
  BY <1>1, <1>3 DEF Booked, Enters
<1>4. CASE Lands(r, x)
  BY <1>1, <1>4 DEF Booked, Lands
<1> QED BY <1>2, <1>3, <1>4

\* A step that begins, refuses or hands on a request, and writes no document.
LEMMA TurnPasses ==
    ASSUME PayTypeOK, NEW r \in Requests, Turn(request[r]), UNCHANGED <<docVars, journal, vendorLedger>>,
           \A x \in Docs : /\ ~Marks(request[r], x) /\ ~Owes(request[r], x)
                           /\ ~Marks(request[r], x)' /\ ~Owes(request[r], x)',
           (request'[r].step = "journal" \/ request'[r].op = "approveVoucher") => ~Done(request'[r].doc)
    PROVE  Turn(request[r])'
<1>1. \A x : Done(x)' <=> Done(x)
  BY DEF Done, docVars
<1>2. Fresh(request[r])'
  BY <1>1 DEF Fresh, Done, docVars
<1>3. \A x \in Docs : Rests(r, x)
  BY <1>1 DEF Rests, Done
<1> QED BY <1>2, <1>3, TurnGoesOn

LEMMA TurnBegin ==
    ASSUME PayTypeOK, NEW r \in Requests, Turn(request[r]), NEW q, Begin(r, q),
           \A x \in Docs : ~Marks(q, x) /\ ~Owes(q, x),
           q.step = "journal" \/ q.op = "approveVoucher" => ~Done(q.doc)
    PROVE  Turn(request[r])'
<1>1. request[r] = Idle /\ request'[r] = q /\ UNCHANGED <<docVars, journal, vendorLedger>>
  BY DEF Begin, PayTypeOK
<1>2. \A x \in Docs : ~Marks(request[r], x) /\ ~Owes(request[r], x)
  BY <1>1 DEF Marks, Owes, Idle
<1>3. \A x \in Docs : ~Marks(request[r], x)' /\ ~Owes(request[r], x)'
  BY <1>1 DEF Marks, Owes
<1> QED BY <1>1, <1>2, <1>3, TurnPasses

LEMMA TurnBegins ==
    ASSUME PayTypeOK, NEW r \in Requests, Turn(request[r]), PayBegin(r)
    PROVE  Turn(request[r])'
<1>1. ASSUME NEW i \in Invoices, BeginPostInvoice(r, i)
      PROVE  Turn(request[r])'
  <2> DEFINE q == [Idle EXCEPT !.op = "postInvoice", !.step = "journal", !.doc = i]
  <2>1. Begin(r, q) /\ \A x \in Docs : ~Marks(q, x) /\ ~Owes(q, x)
    BY <1>1 DEF BeginPostInvoice, Idle, Marks, Owes
  <2>2. q.step = "journal" \/ q.op = "approveVoucher" => ~Done(q.doc)
    BY <1>1, PayAssumption DEF BeginPostInvoice, Idle, Done
  <2> HIDE DEF q
  <2> QED BY <2>1, <2>2, TurnBegin
<1>2. ASSUME NEW v \in Vouchers, BeginPostVoucher(r, v)
      PROVE  Turn(request[r])'
  <2> DEFINE q == [Idle EXCEPT !.op = "postVoucher", !.step = "journal", !.doc = v,
                                  !.list = voucher[v].allocations]
  <2>1. Begin(r, q) /\ \A x \in Docs : ~Marks(q, x) /\ ~Owes(q, x)
    BY <1>2 DEF BeginPostVoucher, Idle, Marks, Owes
  <2>2. q.step = "journal" \/ q.op = "approveVoucher" => ~Done(q.doc)
    BY <1>2, PayAssumption DEF BeginPostVoucher, Idle, Done
  <2> HIDE DEF q
  <2> QED BY <2>1, <2>2, TurnBegin
<1>3. ASSUME NEW v \in Vouchers, NEW user \in Users, BeginApproveVoucher(r, v, user)
      PROVE  Turn(request[r])'
  <2> DEFINE q == [Idle EXCEPT !.op = "approveVoucher", !.step = "write", !.doc = v,
                                  !.user = user]
  <2>1. Begin(r, q) /\ \A x \in Docs : ~Marks(q, x) /\ ~Owes(q, x)
    BY <1>3 DEF BeginApproveVoucher, Idle, Marks, Owes
  <2>2. q.step = "journal" \/ q.op = "approveVoucher" => ~Done(q.doc)
    BY <1>3, PayAssumption DEF BeginApproveVoucher, Idle, Done
  <2> HIDE DEF q
  <2> QED BY <2>1, <2>2, TurnBegin
<1>4. ASSUME NEW v \in Vouchers, NEW user \in Users, NEW b \in Batches \cup {None},
             NEW list \in Lists, BeginVoucher(r, v, user, b, list)
      PROVE  Turn(request[r])'
  <2> DEFINE q == [Idle EXCEPT !.op = "createVoucher", !.step = "insert", !.doc = v,
                                  !.user = user, !.batch = b, !.list = list]
  <2>1. Begin(r, q) /\ \A x \in Docs : ~Marks(q, x) /\ ~Owes(q, x)
    BY <1>4 DEF BeginVoucher, Idle, Marks, Owes
  <2>2. q.step = "journal" \/ q.op = "approveVoucher" => ~Done(q.doc)
    BY <1>4 DEF BeginVoucher, Idle
  <2> HIDE DEF q
  <2> QED BY <2>1, <2>2, TurnBegin
<1>5. ASSUME NEW b \in Batches, BeginProcess(r, b)
      PROVE  Turn(request[r])'
  <2> DEFINE q == [Idle EXCEPT !.op = "processBatch", !.step = "next", !.batch = b,
               !.todo = {v \in Vouchers : voucher[v].batch = b /\ voucher[v].status = "APPROVED"}]
  <2>1. Begin(r, q) /\ \A x \in Docs : ~Marks(q, x) /\ ~Owes(q, x)
    BY <1>5 DEF BeginProcess, Idle, Marks, Owes
  <2>2. q.step = "journal" \/ q.op = "approveVoucher" => ~Done(q.doc)
    BY <1>5 DEF BeginProcess, Idle
  <2> HIDE DEF q
  <2> QED BY <2>1, <2>2, TurnBegin
<1>6. ASSUME NEW b \in Batches, NEW user \in Users, BeginApproveBatch(r, b, user)
      PROVE  Turn(request[r])'
  <2> DEFINE q == [Idle EXCEPT !.op = "approveBatch", !.step = "write", !.batch = b,
                                  !.user = user]
  <2>1. Begin(r, q) /\ \A x \in Docs : ~Marks(q, x) /\ ~Owes(q, x)
    BY <1>6 DEF BeginApproveBatch, Idle, Marks, Owes
  <2>2. q.step = "journal" \/ q.op = "approveVoucher" => ~Done(q.doc)
    BY <1>6 DEF BeginApproveBatch, Idle
  <2> HIDE DEF q
  <2> QED BY <2>1, <2>2, TurnBegin
<1>7. ASSUME NEW d \in Deductions, BeginRemit(r, d)
      PROVE  Turn(request[r])'
  <2> DEFINE q == [Idle EXCEPT !.op = "remit", !.step = "journal", !.doc = d]
  <2>1. Begin(r, q) /\ \A x \in Docs : ~Marks(q, x) /\ ~Owes(q, x)
    BY <1>7 DEF BeginRemit, Idle, Marks, Owes
  <2>2. q.step = "journal" \/ q.op = "approveVoucher" => ~Done(q.doc)
    BY <1>7, PayAssumption DEF BeginRemit, Idle, Done
  <2> HIDE DEF q
  <2> QED BY <2>1, <2>2, TurnBegin
<1> QED BY <1>1, <1>2, <1>3, <1>4, <1>5, <1>6, <1>7 DEF PayBegin

\* The steps that post: what is posted was not posted.
LEMMA TurnPosts ==
    ASSUME PayInv, NEW r \in Requests, Turn(request[r]),
           PostInvoiceJournal(r) \/ PostVoucherJournal(r) \/ RemitJournal(r)
    PROVE  Turn(request[r])'
<1>1. PICK q \in RequestRow : q = request[r]
  BY DEF PayInv, PayTypeOK
<1>2. PICK step \in {"status", "apply"} :
          /\ PostJournal(r, step)
          /\ step = "apply" <=> q.op = "postVoucher"
  BY <1>1 DEF PostInvoiceJournal, PostVoucherJournal, RemitJournal, At
<1>3. /\ q.step = "journal" /\ q.op \in {"postInvoice", "postVoucher", "remit"} /\ q.doc \in Docs
      /\ q.doc \notin Deductions <=> q.op \in {"postInvoice", "postVoucher"}
  BY <1>1, PayAssumption DEF PostInvoiceJournal, PostVoucherJournal, RemitJournal, At, Docs, PayInv,
     RequestInv, RequestOK, InvoiceRequestOK, VoucherRequestOK, RemitRequestOK
<1>4. /\ request'[r] = [q EXCEPT !.step = step] /\ UNCHANGED <<docVars, vendorLedger>>
      /\ journal'[q.doc] = journal[q.doc] + 1 /\ \A x \in Docs \ {q.doc} : journal'[x] = journal[x]
  BY <1>1, <1>2, <1>3 DEF PostJournal, Goto, PayInv, PayTypeOK
<1>5. request'[r].step = step /\ request'[r].op = q.op /\ request'[r].doc = q.doc
  BY <1>4 DEF RequestRow
<1>6. \A x : Done(x)' <=> Done(x)
  BY <1>4 DEF Done, docVars
<1>7. ~Done(q.doc)
  BY <1>1, <1>3 DEF Turn, Fresh
<1>8. Enters(r, q.doc)
  BY <1>1, <1>2, <1>3, <1>4, <1>5, <1>7 DEF Enters, Marks, Owes
<1>9. \A x \in Docs \ {q.doc} : Rests(r, x)
  BY <1>1, <1>4, <1>5, <1>6 DEF Rests, Marks, Owes, Done
<1>10. Fresh(request[r])'
  BY <1>2, <1>3, <1>5 DEF Fresh
<1> QED BY <1>8, <1>9, <1>10, TurnGoesOn DEF PayInv

\* The steps that write a vendor ledger row.
LEMMA TurnRows ==
    ASSUME PayInv, NEW r \in Requests, Turn(request[r]), WriteInvoiceLedger(r) \/ WriteVoucherLedger(r)
    PROVE  Turn(request[r])'
<1>1. PICK q \in RequestRow : q = request[r]
  BY DEF PayInv, PayTypeOK
<1>2. /\ UNCHANGED <<docVars, journal>> /\ q.doc \in Docs /\ q.doc \notin Deductions
      /\ vendorLedger'[q.doc] = vendorLedger[q.doc] + 1
      /\ \A x \in Docs \ {q.doc} : vendorLedger'[x] = vendorLedger[x]
  <2>1. q.doc \in Invoices \cup Vouchers
    BY <1>1 DEF WriteInvoiceLedger, WriteVoucherLedger, At, PayInv, RequestInv, RequestOK,
       InvoiceRequestOK, VoucherRequestOK
  <2> QED BY <1>1, <2>1, PayAssumption DEF WriteInvoiceLedger, WriteVoucherLedger, WriteLedgerRow, Docs,
             PayInv, PayTypeOK
<1>3. \A x : Done(x)' <=> Done(x)
  BY <1>2 DEF Done, docVars
<1>4. CASE WriteInvoiceLedger(r)
  <2>1. q.op = "postInvoice" /\ q.step = "ledger" /\ request'[r] = Idle
    BY <1>1, <1>4 DEF WriteInvoiceLedger, At, Finish, PayInv, PayTypeOK
  <2>2. Lands(r, q.doc) /\ \A x \in Docs \ {q.doc} : Rests(r, x)
    BY <1>1, <1>2, <1>3, <2>1 DEF Lands, Rests, Marks, Owes, Idle, Done
  <2>3. Fresh(request[r])'
    BY <2>1 DEF Fresh, Idle
  <2> QED BY <2>2, <2>3, TurnGoesOn DEF PayInv
<1>5. CASE WriteVoucherLedger(r)
  <2>1. q.op = "postVoucher" /\ q.step = "apply" /\ request'[r] = [q EXCEPT !.step = "status"]
    BY <1>1, <1>5 DEF WriteVoucherLedger, At, Goto, PayInv, PayTypeOK
  <2>2. request'[r].op = "postVoucher" /\ request'[r].step = "status" /\ request'[r].doc = q.doc
    BY <2>1 DEF RequestRow
  <2>3. Lands(r, q.doc) /\ \A x \in Docs \ {q.doc} : Rests(r, x)
    BY <1>1, <1>2, <1>3, <2>1, <2>2 DEF Lands, Rests, Marks, Owes, Done
  <2>4. Fresh(request[r])'
    BY <2>2 DEF Fresh
  <2> QED BY <2>3, <2>4, TurnGoesOn DEF PayInv
<1> QED BY <1>4, <1>5

\* The steps that mark a document, or write another kind of row.
LEMMA TurnMarks ==
    ASSUME PayInv, NEW r \in Requests, Turn(request[r]),
           MarkInvoicePosted(r) \/ MarkVoucherPosted(r) \/ MarkRemitted(r)
    PROVE  Turn(request[r])'
<1>1. PICK q \in RequestRow : q = request[r]
  BY DEF PayInv, PayTypeOK
<1>2. /\ request \in [Requests -> RequestRow] /\ invoice \in [Invoices -> InvoiceRow]
      /\ voucher \in [Vouchers -> VoucherRow]
      /\ deduction \in [Deductions -> {"ABSENT", "PENDING", "REMITTED"}]
  BY DEF PayInv, PayTypeOK
<1>3. CASE MarkInvoicePosted(r)
  <2>1. /\ q.op = "postInvoice" /\ q.step = "status" /\ q.doc \in Invoices
        /\ request'[r] = [q EXCEPT !.step = "ledger"]
        /\ invoice' = [invoice EXCEPT ![q.doc].status = "POSTED"]
        /\ UNCHANGED <<voucher, deduction, journal, vendorLedger>>
    BY <1>1, <1>2, <1>3 DEF MarkInvoicePosted, At, Goto, PayInv, RequestInv, RequestOK, InvoiceRequestOK
  <2>2. request'[r].op = "postInvoice" /\ request'[r].step = "ledger" /\ request'[r].doc = q.doc
    BY <2>1 DEF RequestRow
  <2>3. \A x : Done(x)' <=> Done(x) \/ x = q.doc
    BY <1>2, <2>1, PayAssumption DEF Done, InvoiceRow
  <2>4. \A x \in Docs : Rests(r, x)
    BY <1>1, <2>1, <2>2, <2>3 DEF Rests, Marks, Owes
  <2> QED BY <2>2, <2>4, TurnGoesOn DEF Fresh, PayInv
<1>4. CASE MarkVoucherPosted(r)
  <2>1. /\ q.op = "postVoucher" /\ q.step = "status" /\ q.doc \in Vouchers
        /\ voucher' = [voucher EXCEPT ![q.doc].status = "POSTED"]
        /\ UNCHANGED <<invoice, deduction, journal, vendorLedger>>
    BY <1>1, <1>2, <1>4 DEF MarkVoucherPosted, At, PayInv, RequestInv, RequestOK, VoucherRequestOK
  <2>2. request'[r].op \in {"none", "processBatch"} /\ request'[r].step \in {"idle", "next"}
    <3>1. request'[r] = Idle \/ request'[r] = [q EXCEPT !.op = "processBatch", !.step = "next", !.doc = None]
      BY <1>1, <1>2, <1>4 DEF MarkVoucherPosted, Finish
    <3>2. [q EXCEPT !.op = "processBatch", !.step = "next", !.doc = None].op = "processBatch"
          /\ [q EXCEPT !.op = "processBatch", !.step = "next", !.doc = None].step = "next"
      BY DEF RequestRow
    <3>3. CASE request'[r] = Idle
      BY <3>3 DEF Idle
    <3> QED BY <3>1, <3>2, <3>3
  <2>3. \A x : Done(x)' <=> Done(x) \/ x = q.doc
    BY <1>2, <2>1, PayAssumption DEF Done, VoucherRow
  <2>4. \A x \in Docs : Rests(r, x)
    BY <1>1, <2>1, <2>2, <2>3 DEF Rests, Marks, Owes
  <2> QED BY <2>2, <2>4, TurnGoesOn DEF Fresh, PayInv
<1>5. CASE MarkRemitted(r)
  <2>1. /\ q.op = "remit" /\ q.step = "status" /\ q.doc \in Deductions /\ request'[r] = Idle
        /\ deduction' = [deduction EXCEPT ![q.doc] = "REMITTED"]
        /\ UNCHANGED <<invoice, voucher, journal, vendorLedger>>
    BY <1>1, <1>2, <1>5 DEF MarkRemitted, At, Finish, PayInv, RequestInv, RequestOK, RemitRequestOK
  <2>2. \A x : Done(x)' <=> Done(x) \/ x = q.doc
    BY <1>2, <2>1, PayAssumption DEF Done
  <2>3. \A x \in Docs : Rests(r, x)
    BY <1>1, <2>1, <2>2 DEF Rests, Marks, Owes, Idle
  <2> QED BY <2>1, <2>3, TurnGoesOn DEF Fresh, Idle, PayInv
<1> QED BY <1>3, <1>4, <1>5

\* The remaining steps, which mark nothing and post nothing.
LEMMA TurnWrites ==
    ASSUME PayInv, NEW r \in Requests, Turn(request[r]),
           \/ InsertVoucher(r) \/ WriteApproveVoucher(r) \/ WriteApproveBatch(r) \/ CloseBatch(r)
           \/ request[r].step \in {"insert", "journal"} /\ Stop(r)
    PROVE  Turn(request[r])'
<1>1. PICK q \in RequestRow : q = request[r]
  BY DEF PayInv, PayTypeOK
<1>2. /\ request \in [Requests -> RequestRow] /\ voucher \in [Vouchers -> VoucherRow]
      /\ deduction \in [Deductions -> {"ABSENT", "PENDING", "REMITTED"}]
  BY DEF PayInv, PayTypeOK
<1>3. request'[r] = Idle /\ UNCHANGED <<invoice, journal, vendorLedger>>
  BY <1>2 DEF InsertVoucher, WriteApproveVoucher, WriteApproveBatch, CloseBatch, Stop, Finish, docVars
<1>4. \A x \in Docs : ~Marks(q, x) /\ ~Owes(q, x)
  BY <1>1 DEF InsertVoucher, WriteApproveVoucher, WriteApproveBatch, CloseBatch, At, Marks, Owes
<1>5. \A x : Done(x)' <=> Done(x)
  <2>1. CASE InsertVoucher(r)
    <3>1. /\ q.doc \in Vouchers /\ voucher[q.doc].status = "ABSENT"
          /\ voucher'[q.doc].status = "DRAFT"
          /\ \A v \in Vouchers \ {q.doc} : voucher'[v] = voucher[v]
      BY <1>1, <1>2, <2>1 DEF InsertVoucher, At, NoVoucher, PayInv, RequestInv, RequestOK, VoucherRequestOK
    <3>2. \A d \in Deductions : deduction'[d] = "REMITTED" <=> deduction[d] = "REMITTED"
      BY <2>1 DEF InsertVoucher
    <3> QED BY <1>3, <3>1, <3>2 DEF Done
  <2>2. CASE WriteApproveVoucher(r)
    <3>1. /\ q.doc \in Vouchers /\ ~Done(q.doc) /\ UNCHANGED deduction
          /\ voucher'[q.doc].status = "APPROVED"
          /\ \A v \in Vouchers \ {q.doc} : voucher'[v] = voucher[v]
      BY <1>1, <1>2, <2>2 DEF WriteApproveVoucher, At, PayInv, RequestInv, RequestOK, VoucherRequestOK,
         VoucherRow, Turn, Fresh
    <3> QED BY <1>3, <3>1, PayAssumption DEF Done
  <2>3. CASE ~InsertVoucher(r) /\ ~WriteApproveVoucher(r)
    <3>1. UNCHANGED <<voucher, deduction>>
      BY <2>3 DEF WriteApproveBatch, CloseBatch, Stop, docVars
    <3> QED BY <1>3, <3>1 DEF Done
  <2> QED BY <2>1, <2>2, <2>3
<1>6. \A x \in Docs : Rests(r, x)
  BY <1>1, <1>3, <1>4, <1>5 DEF Rests, Marks, Owes, Idle
<1> QED BY <1>3, <1>6, TurnGoesOn DEF Fresh, Idle, PayInv

LEMMA TurnNextVoucher ==
    ASSUME PayInv, NEW r \in Requests, Turn(request[r]), NEW v \in Vouchers, NextVoucher(r, v)
    PROVE  Turn(request[r])'
<1>1. PICK q \in RequestRow : q = request[r]
  BY DEF PayInv, PayTypeOK
<1>2. /\ q.op = "processBatch" /\ UNCHANGED <<docVars, journal, vendorLedger>>
      /\ request \in [Requests -> RequestRow]
  BY <1>1 DEF NextVoucher, At, PayInv, PayTypeOK
<1>3. \/ request'[r] = Idle
      \/ /\ voucher[v].status = "APPROVED" /\ request'[r].op = "postVoucher"
         /\ request'[r].step = "journal" /\ request'[r].doc = v
  <2>1. CASE voucher[v].status = "APPROVED"
    <3>1. request'[r] = [q EXCEPT !.op = "postVoucher", !.step = "journal", !.doc = v,
                                  !.list = voucher[v].allocations, !.todo = @ \ {v}]
      BY <1>1, <1>2, <2>1 DEF NextVoucher
    <3> QED BY <2>1, <3>1 DEF RequestRow
  <2>2. CASE voucher[v].status # "APPROVED"
    BY <1>2, <2>2 DEF NextVoucher, Finish
  <2> QED BY <2>1, <2>2
<1>4. \A x \in Docs : /\ ~Marks(request[r], x) /\ ~Owes(request[r], x)
                      /\ ~Marks(request[r], x)' /\ ~Owes(request[r], x)'
  BY <1>1, <1>2, <1>3 DEF Marks, Owes, Idle
<1>5. (request'[r].step = "journal" \/ request'[r].op = "approveVoucher") => ~Done(request'[r].doc)
  BY <1>3, PayAssumption DEF Done, Idle
<1> QED BY <1>2, <1>4, <1>5, TurnPasses DEF PayInv

\* Applying an allocation marks nothing.
LEMMA TurnApplies ==
    ASSUME PayInv, NEW r \in Requests, Turn(request[r]), ApplyAllocation(r)
    PROVE  Turn(request[r])'
<1>1. PICK q \in RequestRow : q = request[r]
  BY DEF PayInv, PayTypeOK
<1>2. /\ q.step = "apply" /\ request'[r] = [q EXCEPT !.list = Tail(@)] /\ q.list # <<>>
      /\ invoice' = [invoice EXCEPT ![Head(q.list).invoice].paid = @ + Head(q.list).amount]
      /\ UNCHANGED <<voucher, deduction, journal, vendorLedger>>
  BY <1>1 DEF ApplyAllocation, At, PayInv, PayTypeOK
<1>3. request'[r].op = q.op /\ request'[r].step = "apply" /\ request'[r].doc = q.doc
  BY <1>2 DEF RequestRow
<1>4. \A i \in Invoices : invoice'[i].status = invoice[i].status
  BY <1>2 DEF PayInv, PayTypeOK, InvoiceRow
<1>5. \A x : Done(x)' <=> Done(x)
  BY <1>2, <1>4 DEF Done
<1>6. \A x \in Docs : Rests(r, x)
  BY <1>1, <1>2, <1>3, <1>5 DEF Rests, Marks, Owes
<1>7. Fresh(request[r])'
  <2>1. q.op # "approveVoucher"
    BY <1>1 DEF ApplyAllocation, At
  <2> QED BY <1>3, <2>1 DEF Fresh
<1> QED BY <1>6, <1>7, TurnGoesOn DEF PayInv

\* A request moves alone.
LEMMA OnlyOne ==
    ASSUME PayInv, NEW r \in Requests, PayBegin(r) \/ PayContinue(r) \/ Stop(r)
    PROVE  \A s \in Requests \ {r} : request'[s] = request[s]
<1>1. CASE PayBegin(r)
  BY <1>1, QuietBegins DEF Quiet
<1>2. CASE Stop(r)
  BY <1>2, QuietStop DEF Quiet
<1>3. CASE PostVoucherJournal(r) \/ ApplyAllocation(r) \/ WriteVoucherLedger(r)
  BY <1>3 DEF PostVoucherJournal, ApplyAllocation, WriteVoucherLedger, PostJournal, Goto, PayInv, PayTypeOK
<1> QED BY <1>1, <1>2, <1>3, QuietContinues DEF PayContinue, Quiet

\* A step of nobody: a draft invoice, a batch, or no change.
LEMMA TurnIdles ==
    ASSUME PayInv,
           \/ \E i \in Invoices : CreateInvoice(i)
           \/ \E b \in Batches, user \in Users : CreateBatch(b, user)
           \/ UNCHANGED payVars
    PROVE  /\ UNCHANGED request
           /\ Turn(Idle) => Turn(Idle)'
           /\ \A r \in Requests : Turn(request[r]) => Turn(request[r])'
<1>1. UNCHANGED <<voucher, deduction, journal, vendorLedger, request>>
  BY DEF CreateInvoice, CreateBatch, payVars, docVars
<1>2. \A i \in Invoices : invoice'[i].status = "POSTED" <=> invoice[i].status = "POSTED"
  <2>1. CASE \E i \in Invoices : CreateInvoice(i)
    BY <2>1 DEF CreateInvoice, PayInv, PayTypeOK, InvoiceRow
  <2>2. CASE UNCHANGED invoice
    BY <2>2
  <2> QED BY <2>1, <2>2 DEF CreateBatch, payVars, docVars
<1>3. \A x : Done(x)' <=> Done(x)
  BY <1>1, <1>2 DEF Done
<1>4. ASSUME NEW x PROVE (Booked(Idle, x) => Booked(Idle, x)')
                         /\ \A r \in Requests : Booked(request[r], x) => Booked(request[r], x)'
  BY <1>1, <1>3 DEF Booked, Marks, Owes
<1>5. Turn(Idle) => Turn(Idle)'
  BY <1>4 DEF Turn, Fresh, Idle, Docs
<1>6. \A r \in Requests : Turn(request[r]) => Turn(request[r])'
  BY <1>1, <1>3, <1>4 DEF Turn, Fresh, Docs
<1> QED BY <1>1, <1>5, <1>6

\* Requests that take turns keep the two in step.
LEMMA TurnsKept ==
    ASSUME PayInv, PayInv', ListsHeld, TurnInv, OneByOne \/ UNCHANGED payVars
    PROVE  TurnInv'
<1>1. [PayNext]_payVars
  BY DEF OneByOne, PayNext
<1>2. ASSUME NEW s \in Requests, Stop(s), Paying(request[s]) PROVE FALSE
  <2>1. /\ request[s].op = "postVoucher" /\ request[s].step = "apply" /\ request[s] # Idle
        /\ request'[s] = Idle
    BY <1>2 DEF Paying, Stop, Finish, Idle, PayInv, PayTypeOK
  <2>2. OneByOne /\ ~UNCHANGED request
    BY <2>1 DEF payVars
  <2>3. PICK r \in Requests :
            /\ Alone(r)
            /\ \/ PayBegin(r) \/ PayContinue(r)
               \/ request[r].step \in {"insert", "journal"} /\ Stop(r)
    BY <2>2 DEF OneByOne, Alone, CreateInvoice, CreateBatch
  <2>4. r = s
    BY <2>1, <2>3 DEF Alone
  <2>5. ~PayBegin(s)
    BY <2>1 DEF PayBegin, BeginPostInvoice, BeginPostVoucher, BeginApproveVoucher, BeginVoucher,
       BeginProcess, BeginApproveBatch, BeginRemit, Begin
  <2>6. ApplyAllocation(s) \/ WriteVoucherLedger(s)
    BY <2>1, <2>3, <2>4, <2>5 DEF PayContinue, PostInvoiceJournal, MarkInvoicePosted,
       WriteInvoiceLedger, InsertVoucher, WriteApproveVoucher, PostVoucherJournal,
       MarkVoucherPosted, WriteApproveBatch, CloseBatch, NextVoucher, RemitJournal, MarkRemitted, At
  <2>7. request'[s].step \in {"apply", "status"}
    <3>1. request[s] \in RequestRow
      BY DEF PayInv, PayTypeOK
    <3> QED BY <2>1, <2>6, <3>1 DEF ApplyAllocation, WriteVoucherLedger, Goto, RequestRow, PayInv, PayTypeOK
  <2> QED BY <2>1, <2>7 DEF Idle
<1>3. \A i \in Invoices : Lost(i)' = 0
  BY <1>1, <1>2, PaidMoves DEF TurnInv
<1>4. CASE ~\E r \in Requests : Alone(r) /\ \/ PayBegin(r) \/ PayContinue(r)
                                            \/ request[r].step \in {"insert", "journal"} /\ Stop(r)
  <2>1. \/ \E i \in Invoices : CreateInvoice(i)
        \/ \E b \in Batches, user \in Users : CreateBatch(b, user)
        \/ UNCHANGED payVars
    BY <1>4 DEF OneByOne, Alone
  <2>2. /\ UNCHANGED request
        /\ Turn(Idle) => Turn(Idle)'
        /\ \A r \in Requests : Turn(request[r]) => Turn(request[r])'
    BY <2>1, TurnIdles
  <2>3. \A r \in Requests : Alone(r)' <=> Alone(r)
    BY <2>2 DEF Alone
  <2> QED BY <1>3, <2>2, <2>3 DEF TurnInv
<1>5. ASSUME NEW r \in Requests, Alone(r),
             \/ PayBegin(r) \/ PayContinue(r)
             \/ request[r].step \in {"insert", "journal"} /\ Stop(r)
      PROVE  TurnInv'
  <2>1. Turn(request[r])
    BY <1>5 DEF TurnInv
  <2>2. Turn(request[r])'
    BY <1>5, <2>1, TurnBegins, TurnPosts, TurnRows, TurnMarks, TurnWrites, TurnNextVoucher, TurnApplies
       DEF PayContinue, PayInv
  <2>3. Alone(r)'
    <3>1. \A s \in Requests \ {r} : request'[s] = request[s]
      BY <1>5, OnlyOne
    <3> QED BY <1>5, <3>1 DEF Alone
  <2>4. ASSUME NEW s \in Requests, Alone(s)' PROVE Turn(request[s])'
    <3>1. CASE s = r
      BY <2>2, <3>1
    <3>2. CASE s # r
      <4>1. request'[s] = Idle /\ request'[r] = Idle
        BY <2>3, <2>4, <3>2 DEF Alone
      <4> QED BY <2>2, <4>1 DEF Turn, Fresh, Booked, Marks, Owes, Done, Idle, Docs
    <3> QED BY <3>1, <3>2
  <2> QED BY <1>3, <2>3, <2>4 DEF TurnInv, Alone
<1> QED BY <1>4, <1>5

-----------------------------------------------------------------------------
(* The subledger *)

\* At first nothing is paid and nothing is posted.
LEMMA SubledgerInitInv == SubledgerInit => PayInv /\ PaidInv /\ TurnInv
<1> SUFFICES ASSUME PayInit PROVE PayInv /\ PaidInv /\ TurnInv
  BY DEF SubledgerInit
<1>1. PayInv
  BY PayInitInv
<1>2. /\ \A r \in Requests : request[r] = Idle
      /\ \A x \in Docs : journal[x] = 0 /\ vendorLedger[x] = 0
      /\ \A x : ~Done(x)
  BY DEF PayInit, Done, NoVoucher
<1>3. ListsHeld
  BY <1>2 DEF ListsHeld, Idle
<1>4. ASSUME NEW i \in Invoices PROVE Lost(i) = 0 /\ Extra(i) = 0
  <2>1. PaidNumbers(i) /\ IsFiniteSet(Vouchers) /\ IsFiniteSet(Requests)
    BY <1>1, <1>3, PaidSums, PayAssumption
  <2>2. \A v \in Vouchers : JournalledTo(i)[v] = 0
    <3>1. \A v \in Vouchers : JournalledTo(i)[v] = journal[v] * AllocatedTo(i)[v] /\ journal[v] = 0
      BY <1>2 DEF JournalledTo, Docs
    <3> QED BY <2>1, <3>1 DEF PaidNumbers
  <2>3. SumFunctionOnSet(JournalledTo(i), Vouchers) = 0
    BY <2>1, <2>2, SumOfNone
  <2>4. \A r \in Requests : Pending(i)[r] = 0 /\ Begun(i)[r] = 0
    BY <1>2 DEF Pending, Begun, Paying, Idle
  <2>5. SumFunctionOnSet(Pending(i), Requests) = 0 /\ SumFunctionOnSet(Begun(i), Requests) = 0
    BY <2>1, <2>4, SumOfNone
  <2>6. Applied = {}
    BY <1>2 DEF Applied, At, Idle, Done
  <2>7. SumFunctionOnSet(AllocatedTo(i), Applied) = 0
    BY <2>6, SumEmpty
  <2>8. invoice[i].paid = 0
    BY DEF PayInit
  <2> QED BY <2>3, <2>5, <2>7, <2>8 DEF Lost, Extra
<1>5. Turn(Idle) /\ \A r \in Requests : Turn(request[r])
  BY <1>2 DEF Turn, Fresh, Booked, Marks, Owes, Idle
<1> QED BY <1>1, <1>2, <1>3, <1>4, <1>5 DEF PaidInv, TurnInv

SubledgerInv == PayInv /\ PaidInv /\ (serial => TurnInv)

LEMMA SubledgerNextInv == SubledgerInv /\ [SubledgerNext]_<<payVars, serial>> => SubledgerInv'
<1> SUFFICES ASSUME SubledgerInv, [SubledgerNext]_<<payVars, serial>> PROVE SubledgerInv'
  OBVIOUS
<1>1. [PayNext]_payVars /\ serial' = serial /\ (serial => OneByOne \/ UNCHANGED payVars)
  BY DEF SubledgerNext, OneByOne, PayNext
<1>2. PayInv'
  BY <1>1, PayNextInv DEF SubledgerInv
<1>3. PaidInv'
  <2>1. ListsHeld' /\ \A i \in Invoices : Lost(i)' >= Lost(i) /\ Extra(i)' >= Extra(i)
    BY <1>1, <1>2, PaidMoves DEF SubledgerInv, PaidInv
  <2>2. \A i \in Invoices : PaidNumbers(i) /\ PaidNumbers(i)'
    BY <1>2, <2>1, PaidSums, PaidSumsNext DEF SubledgerInv, PaidInv
  <2>3. \A i \in Invoices : /\ Lost(i) \in Int /\ Extra(i) \in Int
                             /\ Lost(i)' \in Int /\ Extra(i)' \in Int
    BY <2>2 DEF PaidNumbers, Lost, Extra
  <2>4. \A i \in Invoices : Lost(i)' >= 0 /\ Extra(i)' >= 0
    BY <2>1, <2>3 DEF SubledgerInv, PaidInv
  <2> QED BY <2>1, <2>4 DEF PaidInv
<1>4. serial' => TurnInv'
  BY <1>1, <1>2, TurnsKept DEF SubledgerInv, PaidInv
<1> QED BY <1>2, <1>3, <1>4 DEF SubledgerInv

\* What the invariant says of the amounts paid, and of requests that take turns.
LEMMA PaidIsBetween == PayInv /\ PaidInv => PaidBetween
<1> SUFFICES ASSUME PayInv, PaidInv, NEW i \in Invoices
             PROVE  /\ SumFunctionOnSet(AllocatedTo(i), PostedVouchers) <= invoice[i].paid
                    /\ invoice[i].paid <= SumFunctionOnSet(JournalledTo(i), Vouchers)
  BY DEF PaidBetween
<1>1. PaidNumbers(i)
  BY PaidSums DEF PaidInv
<1>2. PostedVouchers \subseteq Applied
  BY DEF PostedVouchers, Applied
<1>3. \A v \in Applied : AllocatedTo(i)[v] >= 0
  BY <1>1 DEF PaidNumbers, Applied
<1>4. SumFunctionOnSet(AllocatedTo(i), PostedVouchers) <= SumFunctionOnSet(AllocatedTo(i), Applied)
  BY <1>1, <1>2, <1>3, SumOfFewer DEF PaidNumbers
<1>5. SumFunctionOnSet(AllocatedTo(i), PostedVouchers) \in Int
  <2>1. IsFiniteSet(PostedVouchers) /\ \A v \in PostedVouchers : AllocatedTo(i)[v] \in Nat
    BY <1>1, <1>2, FS_Subset DEF PaidNumbers, PostedVouchers
  <2> QED BY <2>1, SumNotNegative
<1> QED BY <1>1, <1>4, <1>5 DEF PaidInv, Lost, Extra, PaidNumbers

LEMMA TurnsAgree == PayInv /\ PaidInv /\ TurnInv => PostedOnce /\ SubledgerAgrees
<1> SUFFICES ASSUME PayInv, PaidInv, TurnInv PROVE PostedOnce /\ SubledgerAgrees
  OBVIOUS
<1>1. \E q : Turn(q) /\ (q = Idle \/ \E r \in Requests : q = request[r] /\ Alone(r))
  <2>1. CASE Requests = {}
    BY <2>1 DEF TurnInv
  <2>2. CASE Requests # {}
    <3>1. PICK r \in Requests : Alone(r)
      BY <2>2 DEF TurnInv, Alone
    <3> QED BY <3>1 DEF TurnInv
  <2> QED BY <2>1, <2>2
<1>2. PostedOnce
  BY <1>1 DEF PostedOnce, Turn, Booked
<1>3. ASSUME \A r \in Requests : request[r] = Idle PROVE Turn(Idle)
  BY <1>1, <1>3
<1>4. ASSUME \A r \in Requests : request[r] = Idle, NEW i \in Invoices
      PROVE  invoice[i].paid = SumFunctionOnSet(JournalledTo(i), Vouchers)
  <2>1. PaidNumbers(i) /\ IsFiniteSet(Requests)
    BY PaidSums, PayAssumption DEF PaidInv
  <2>2. \A r \in Requests : Pending(i)[r] = 0
    BY <1>4 DEF Pending, Paying, Idle
  <2>3. SumFunctionOnSet(Pending(i), Requests) = 0
    BY <2>1, <2>2, SumOfNone
  <2>4. Lost(i) = 0
    BY DEF TurnInv
  <2> QED BY <2>1, <2>3, <2>4 DEF Lost, PaidNumbers
<1>5. ASSUME \A r \in Requests : request[r] = Idle, NEW x \in Docs
      PROVE  /\ journal[x] = IF Done(x) THEN 1 ELSE 0
             /\ x \notin Deductions => vendorLedger[x] = journal[x]
  BY <1>3, <1>5 DEF Turn, Booked, Marks, Owes, Idle
<1>6. SubledgerAgrees
  BY <1>4, <1>5, PayAssumption DEF SubledgerAgrees, Done, Docs
<1> QED BY <1>2, <1>6

\* What is paid of an invoice lies between what the posted vouchers settle of it
\* and what the journal paid, however requests interleave and wherever they
\* stop (postPaymentVoucher applies one allocation after the other); and while
\* requests take turns no document is posted twice, and between them statuses,
\* amounts paid and vendor ledger rows agree with the journal.
THEOREM SubledgerIsAlwaysSound == SubledgerSpec => []SubledgerSound
<1>1. SubledgerInit => SubledgerInv
  BY SubledgerInitInv DEF SubledgerInv
<1>2. SubledgerInv => SubledgerSound
  BY PaidIsBetween, TurnsAgree DEF SubledgerInv, SubledgerSound
<1> QED BY <1>1, <1>2, SubledgerNextInv, PTL DEF SubledgerSpec
=============================================================================

--------------------------- MODULE AccountsPayable ---------------------------
(***************************************************************************)
(* Vendor invoices, payment vouchers and batches, and tax deductions, with *)
(* the journal entries and vendor ledger rows they leave behind.           *)
(*                                                                         *)
(* A posting is one transaction of the posting engine and one step here.   *)
(* What the handlers of AccountsPayableService write around it commits     *)
(* statement by statement, so requests interleave between any two of them, *)
(* and one that stops has done part of its work.                           *)
(***************************************************************************)
EXTENDS Integers, Sequences, FiniteSets, Functions

CONSTANTS
    Invoices,     \* bound: rows of vendor_invoices
    Vouchers,     \* bound: rows of payment_vouchers
    Batches,      \* bound: rows of payment_batches
    Deductions,   \* bound: rows of wht_deductions and vat_deductions
    VendorOf,     \* the vendor of an invoice
    Total,        \* the sum of the lines of an invoice, in cents
    Lists,        \* the allocation lists that requests carry
    Users,
    Requests,     \* bound: requests in flight at once
    MayFail,      \* whether a request may stop between two writes
    MaxPosted,    \* bound: journal entries of one document
    None

Docs == Invoices \cup Vouchers \cup Deductions

\* A part of an invoice that a voucher settles, and the rows of the taxes that
\* are withheld from it, if any.
AllocationType == [invoice : Invoices, amount : Nat, deductions : SUBSET Deductions]

ASSUME PayAssumption ==
    /\ Total \in [Invoices -> Nat]
    /\ IsFiniteSet(Requests) /\ IsFiniteSet(Vouchers)
    /\ Lists \subseteq Seq(AllocationType)
    /\ None \notin Docs \cup Batches \cup Users
    /\ Invoices \cap Vouchers = {} /\ Docs \cap Batches = {}
    /\ Deductions \cap (Invoices \cup Vouchers) = {}

VARIABLES
    invoice,       \* vendor_invoices: status and amountPaid
    voucher,       \* payment_vouchers with their allocations
    batch,         \* payment_batches
    deduction,     \* status of the deductions
    journal,       \* how many journal entries a document has
    vendorLedger,  \* how many vendor ledger rows a document has
    request,       \* the requests in flight
    serial         \* whether requests take turns and end only where they are refused

docVars == <<invoice, voucher, batch, deduction>>
payVars == <<docVars, journal, vendorLedger, request>>

DocStatus == {"ABSENT", "DRAFT", "POSTED"}
InvoiceRow == [status : DocStatus, paid : Nat]
VoucherRow ==
    [status : DocStatus \cup {"APPROVED"}, createdBy : Users \cup {None},
     approvedBy : Users \cup {None}, batch : Batches \cup {None},
     allocations : Seq(AllocationType)]
BatchRow ==
    [status : {"ABSENT", "DRAFT", "APPROVED", "PROCESSED"},
     createdBy : Users \cup {None}, approvedBy : Users \cup {None}]

NoVoucher ==
    [status |-> "ABSENT", createdBy |-> None, approvedBy |-> None, batch |-> None,
     allocations |-> <<>>]
NoBatch == [status |-> "ABSENT", createdBy |-> None, approvedBy |-> None]

\* list: the allocations to insert or still to apply; todo: the vouchers of the
\* batch that are still to be posted.
RequestRow ==
    [op : {"none", "postInvoice", "createVoucher", "approveVoucher", "postVoucher",
           "approveBatch", "processBatch", "remit"},
     step : {"idle", "insert", "write", "journal", "apply", "ledger", "status", "next"},
     doc : Docs \cup {None}, user : Users \cup {None}, batch : Batches \cup {None},
     list : Seq(AllocationType), todo : SUBSET Vouchers]

Idle ==
    [op |-> "none", step |-> "idle", doc |-> None, user |-> None, batch |-> None,
     list |-> <<>>, todo |-> {}]

PayTypeOK ==
    /\ invoice \in [Invoices -> InvoiceRow]
    /\ voucher \in [Vouchers -> VoucherRow]
    /\ batch \in [Batches -> BatchRow]
    /\ deduction \in [Deductions -> {"ABSENT", "PENDING", "REMITTED"}]
    /\ journal \in [Docs -> Nat]
    /\ vendorLedger \in [Docs -> Nat]
    /\ request \in [Requests -> RequestRow]

PayInit ==
    /\ invoice = [i \in Invoices |-> [status |-> "ABSENT", paid |-> 0]]
    /\ voucher = [v \in Vouchers |-> NoVoucher]
    /\ batch = [b \in Batches |-> NoBatch]
    /\ deduction = [d \in Deductions |-> "ABSENT"]
    /\ journal = [x \in Docs |-> 0]
    /\ vendorLedger = [x \in Docs |-> 0]
    /\ request = [r \in Requests |-> Idle]

At(r, op, step) == request[r].op = op /\ request[r].step = step
Begin(r, q) ==
    /\ request[r] = Idle
    /\ request' = [request EXCEPT ![r] = q]
    /\ UNCHANGED <<docVars, journal, vendorLedger>>
Goto(r, step) == request' = [request EXCEPT ![r].step = step]
Finish(r) == request' = [request EXCEPT ![r] = Idle]

\* postSystemEntry for the document of r, and the step of its handler after it.
PostJournal(r, step) ==
    /\ journal[request[r].doc] < MaxPosted
    /\ journal' = [journal EXCEPT ![request[r].doc] = @ + 1]
    /\ Goto(r, step)
    /\ UNCHANGED <<docVars, vendorLedger>>

WriteLedgerRow(r) ==
    /\ vendorLedger' = [vendorLedger EXCEPT ![request[r].doc] = @ + 1]
    /\ UNCHANGED <<docVars, journal>>

-----------------------------------------------------------------------------
(* createInvoice, postInvoice *)

CreateInvoice(i) ==
    /\ invoice[i].status = "ABSENT"
    /\ invoice' = [invoice EXCEPT ![i].status = "DRAFT"]
    /\ UNCHANGED <<voucher, batch, deduction, journal, vendorLedger, request>>

BeginPostInvoice(r, i) ==
    /\ invoice[i].status = "DRAFT"
    /\ Begin(r, [Idle EXCEPT !.op = "postInvoice", !.step = "journal", !.doc = i])

PostInvoiceJournal(r) == At(r, "postInvoice", "journal") /\ PostJournal(r, "status")

MarkInvoicePosted(r) ==
    /\ At(r, "postInvoice", "status")
    /\ invoice' = [invoice EXCEPT ![request[r].doc].status = "POSTED"]
    /\ Goto(r, "ledger")
    /\ UNCHANGED <<voucher, batch, deduction, journal, vendorLedger>>

WriteInvoiceLedger(r) == At(r, "postInvoice", "ledger") /\ WriteLedgerRow(r) /\ Finish(r)

-----------------------------------------------------------------------------
(* createPaymentVoucher, approvePaymentVoucher *)

Tolerance == 1
OpenBalance(i) == Total[i] - invoice[i].paid

\* Mutated form of BeginVoucher: the invoices need not be posted.
BeginVoucherUnposted(r, v, user, b, list) ==
    /\ voucher[v].status = "ABSENT"
    /\ \A k, l \in DOMAIN list : VendorOf[list[k].invoice] = VendorOf[list[l].invoice]
    /\ \A k \in DOMAIN list : list[k].amount <= OpenBalance(list[k].invoice) + Tolerance
    /\ Begin(r, [Idle EXCEPT !.op = "createVoucher", !.step = "insert", !.doc = v,
                             !.user = user, !.batch = b, !.list = list])

\* Each allocation is checked against the open balance on its own.
BeginVoucher(r, v, user, b, list) ==
    /\ voucher[v].status = "ABSENT"
    /\ \A k, l \in DOMAIN list : VendorOf[list[k].invoice] = VendorOf[list[l].invoice]
    /\ \A k \in DOMAIN list :
        /\ invoice[list[k].invoice].status = "POSTED"
        /\ list[k].amount <= OpenBalance(list[k].invoice) + Tolerance
    /\ Begin(r, [Idle EXCEPT !.op = "createVoucher", !.step = "insert", !.doc = v,
                             !.user = user, !.batch = b, !.list = list])

DeductionsOf(list) == UNION {list[k].deductions : k \in DOMAIN list}

\* One nested create; the batch must exist, whatever its status.
InsertVoucher(r) ==
    /\ At(r, "createVoucher", "insert")
    /\ LET q == request[r]
       IN  /\ voucher[q.doc].status = "ABSENT"
           /\ q.batch # None => batch[q.batch].status # "ABSENT"
           /\ \A d \in DeductionsOf(q.list) : deduction[d] = "ABSENT"
           /\ voucher' = [voucher EXCEPT ![q.doc] =
                  [NoVoucher EXCEPT !.status = "DRAFT", !.createdBy = q.user,
                                    !.batch = q.batch, !.allocations = q.list]]
           /\ deduction' = [d \in Deductions |->
                  IF d \in DeductionsOf(q.list) THEN "PENDING" ELSE deduction[d]]
    /\ Finish(r)
    /\ UNCHANGED <<invoice, batch, journal, vendorLedger>>

\* Mutated form of BeginApproveVoucher: the approver may be the preparer.
BeginApproveVoucherSelf(r, v, user) ==
    /\ voucher[v].status = "DRAFT"
    /\ Begin(r, [Idle EXCEPT !.op = "approveVoucher", !.step = "write", !.doc = v,
                             !.user = user])

BeginApproveVoucher(r, v, user) ==
    /\ voucher[v].status = "DRAFT"
    /\ voucher[v].createdBy # user
    /\ Begin(r, [Idle EXCEPT !.op = "approveVoucher", !.step = "write", !.doc = v,
                             !.user = user])

WriteApproveVoucher(r) ==
    /\ At(r, "approveVoucher", "write")
    /\ voucher' = [voucher EXCEPT ![request[r].doc].status = "APPROVED",
                                  ![request[r].doc].approvedBy = request[r].user]
    /\ Finish(r)
    /\ UNCHANGED <<invoice, batch, deduction, journal, vendorLedger>>

-----------------------------------------------------------------------------
(* postPaymentVoucher *)

BeginPostVoucher(r, v) ==
    /\ voucher[v].status = "APPROVED"
    /\ Begin(r, [Idle EXCEPT !.op = "postVoucher", !.step = "journal", !.doc = v,
                             !.list = voucher[v].allocations])

PostVoucherJournal(r) == At(r, "postVoucher", "journal") /\ PostJournal(r, "apply")

\* Mutated form of ApplyAllocation: what is paid is overwritten.
ApplyOverwrite(r) ==
    /\ At(r, "postVoucher", "apply")
    /\ request[r].list # <<>>
    /\ LET a == Head(request[r].list)
       IN  invoice' = [invoice EXCEPT ![a.invoice].paid = a.amount]
    /\ request' = [request EXCEPT ![r].list = Tail(@)]
    /\ UNCHANGED <<voucher, batch, deduction, journal, vendorLedger>>

\* Mutated form of ApplyAllocation: the sign is wrong.
ApplyNegative(r) ==
    /\ At(r, "postVoucher", "apply")
    /\ request[r].list # <<>>
    /\ LET a == Head(request[r].list)
       IN  invoice' = [invoice EXCEPT ![a.invoice].paid = @ - a.amount]
    /\ request' = [request EXCEPT ![r].list = Tail(@)]
    /\ UNCHANGED <<voucher, batch, deduction, journal, vendorLedger>>

\* amountPaid: { increment }, one statement for each allocation.
ApplyAllocation(r) ==
    /\ At(r, "postVoucher", "apply")
    /\ request[r].list # <<>>
    /\ LET a == Head(request[r].list)
       IN  invoice' = [invoice EXCEPT ![a.invoice].paid = @ + a.amount]
    /\ request' = [request EXCEPT ![r].list = Tail(@)]
    /\ UNCHANGED <<voucher, batch, deduction, journal, vendorLedger>>

WriteVoucherLedger(r) ==
    /\ At(r, "postVoucher", "apply")
    /\ request[r].list = <<>>
    /\ WriteLedgerRow(r)
    /\ Goto(r, "status")

\* The last write; in a batch the loop goes on with the next voucher.
MarkVoucherPosted(r) ==
    /\ At(r, "postVoucher", "status")
    /\ voucher' = [voucher EXCEPT ![request[r].doc].status = "POSTED"]
    /\ IF request[r].batch = None
       THEN Finish(r)
       ELSE request' = [request EXCEPT ![r].op = "processBatch", ![r].step = "next",
                                       ![r].doc = None]
    /\ UNCHANGED <<invoice, batch, deduction, journal, vendorLedger>>

-----------------------------------------------------------------------------
(* createPaymentBatch, approvePaymentBatch, processPaymentBatch *)

CreateBatch(b, user) ==
    /\ batch[b].status = "ABSENT"
    /\ batch' = [batch EXCEPT ![b].status = "DRAFT", ![b].createdBy = user]
    /\ UNCHANGED <<invoice, voucher, deduction, journal, vendorLedger, request>>

BeginApproveBatch(r, b, user) ==
    /\ batch[b].status = "DRAFT"
    /\ batch[b].createdBy # user
    /\ Begin(r, [Idle EXCEPT !.op = "approveBatch", !.step = "write", !.batch = b,
                             !.user = user])

WriteApproveBatch(r) ==
    /\ At(r, "approveBatch", "write")
    /\ batch' = [batch EXCEPT ![request[r].batch].status = "APPROVED",
                              ![request[r].batch].approvedBy = request[r].user]
    /\ Finish(r)
    /\ UNCHANGED <<invoice, voucher, deduction, journal, vendorLedger>>

\* The batch is read with its vouchers; those then approved are to be posted.
BeginProcess(r, b) ==
    /\ batch[b].status = "APPROVED"
    /\ Begin(r, [Idle EXCEPT !.op = "processBatch", !.step = "next", !.batch = b,
                             !.todo = {v \in Vouchers : voucher[v].batch = b
                                                        /\ voucher[v].status = "APPROVED"}])

\* postPaymentVoucher reads the voucher again, and what it throws ends the loop.
NextVoucher(r, v) ==
    /\ At(r, "processBatch", "next")
    /\ v \in request[r].todo
    /\ IF voucher[v].status = "APPROVED"
       THEN request' = [request EXCEPT
                ![r].op = "postVoucher", ![r].step = "journal", ![r].doc = v,
                ![r].list = voucher[v].allocations, ![r].todo = @ \ {v}]
       ELSE Finish(r)
    /\ UNCHANGED <<docVars, journal, vendorLedger>>

CloseBatch(r) ==
    /\ At(r, "processBatch", "next")
    /\ request[r].todo = {}
    /\ batch' = [batch EXCEPT ![request[r].batch].status = "PROCESSED"]
    /\ Finish(r)
    /\ UNCHANGED <<invoice, voucher, deduction, journal, vendorLedger>>

-----------------------------------------------------------------------------
(* remitWHT, remitVAT *)

\* Mutated form of BeginRemit: the deduction is marked and not posted.
BeginRemitUnposted(r, d) ==
    /\ deduction[d] = "PENDING"
    /\ Begin(r, [Idle EXCEPT !.op = "remit", !.step = "status", !.doc = d])

\* The voucher of the deduction is not looked at.
BeginRemit(r, d) ==
    /\ deduction[d] = "PENDING"
    /\ Begin(r, [Idle EXCEPT !.op = "remit", !.step = "journal", !.doc = d])

RemitJournal(r) == At(r, "remit", "journal") /\ PostJournal(r, "status")

MarkRemitted(r) ==
    /\ At(r, "remit", "status")
    /\ deduction' = [deduction EXCEPT ![request[r].doc] = "REMITTED"]
    /\ Finish(r)
    /\ UNCHANGED <<invoice, voucher, batch, journal, vendorLedger>>

-----------------------------------------------------------------------------
\* A request ends early: the posting engine or the insert refuses it, or, when
\* MayFail, it stops between two writes.
Stop(r) ==
    /\ request[r] # Idle
    /\ MayFail \/ request[r].step \in {"insert", "journal"}
    /\ Finish(r)
    /\ UNCHANGED <<docVars, journal, vendorLedger>>

PayBegin(r) ==
    \/ \E i \in Invoices : BeginPostInvoice(r, i)
    \/ \E v \in Vouchers :
        \/ BeginPostVoucher(r, v)
        \/ \E user \in Users :
            \/ BeginApproveVoucher(r, v, user)
            \/ \E b \in Batches \cup {None}, list \in Lists : BeginVoucher(r, v, user, b, list)
    \/ \E b \in Batches :
        BeginProcess(r, b) \/ \E user \in Users : BeginApproveBatch(r, b, user)
    \/ \E d \in Deductions : BeginRemit(r, d)

PayContinue(r) ==
    \/ PostInvoiceJournal(r) \/ MarkInvoicePosted(r) \/ WriteInvoiceLedger(r)
    \/ InsertVoucher(r) \/ WriteApproveVoucher(r)
    \/ PostVoucherJournal(r) \/ ApplyAllocation(r) \/ WriteVoucherLedger(r)
    \/ MarkVoucherPosted(r)
    \/ WriteApproveBatch(r) \/ CloseBatch(r) \/ \E v \in Vouchers : NextVoucher(r, v)
    \/ RemitJournal(r) \/ MarkRemitted(r)

PayNext ==
    \/ \E i \in Invoices : CreateInvoice(i)
    \/ \E b \in Batches, user \in Users : CreateBatch(b, user)
    \/ \E r \in Requests : PayBegin(r) \/ PayContinue(r) \/ Stop(r)

PaySpec == PayInit /\ [][PayNext]_payVars

\* One request at a time, which stops only where the code refuses it.
OneByOne ==
    \/ \E i \in Invoices : CreateInvoice(i)
    \/ \E b \in Batches, user \in Users : CreateBatch(b, user)
    \/ \E r \in Requests :
          /\ \A s \in Requests \ {r} : request[s] = Idle
          /\ \/ PayBegin(r) \/ PayContinue(r)
             \/ request[r].step \in {"insert", "journal"} /\ Stop(r)

\* Requests interleave, or they take turns.
SubledgerInit == PayInit /\ serial \in BOOLEAN
SubledgerNext == serial' = serial /\ IF serial THEN OneByOne ELSE PayNext
SubledgerSpec == SubledgerInit /\ [][SubledgerNext]_<<payVars, serial>>

-----------------------------------------------------------------------------
(* Properties that hold whatever the requests interleave and wherever they stop *)

\* What a list of allocations settles of invoice i.
Settles(list, i) ==
    SumFunction([k \in DOMAIN list |-> IF list[k].invoice = i THEN list[k].amount ELSE 0])

\* What each voucher settles of it, and what the journal has of that.
AllocatedTo(i) == [v \in Vouchers |-> Settles(voucher[v].allocations, i)]
JournalledTo(i) == [v \in Vouchers |-> journal[v] * AllocatedTo(i)[v]]

PostedVouchers == {v \in Vouchers : voucher[v].status = "POSTED"}

\* The amount paid of an invoice is at least what posted vouchers settle of it
\* and at most what the journal has for it: no voucher is posted before it is
\* applied in full, and nothing is applied that the ledger does not have.
PaidBetween ==
    \A i \in Invoices :
        /\ SumFunctionOnSet(AllocatedTo(i), PostedVouchers) <= invoice[i].paid
        /\ invoice[i].paid <= SumFunctionOnSet(JournalledTo(i), Vouchers)

\* Every vendor ledger row has a journal entry of its own, and every document
\* that says it is posted or remitted has one.
LedgerBacked ==
    /\ \A x \in Docs : vendorLedger[x] <= journal[x]
    /\ \A v \in PostedVouchers : vendorLedger[v] > 0
    /\ \A i \in Invoices : invoice[i].status = "POSTED" => journal[i] > 0
    /\ \A d \in Deductions : deduction[d] = "REMITTED" => journal[d] > 0

Vetted(row) == row.approvedBy \notin {None, row.createdBy}

\* No voucher is paid, and no batch approved, but by the approval of somebody
\* other than its preparer, in spite of approvals written from stale reads.
PaymentChecked ==
    /\ \A v \in Vouchers :
        voucher[v].status \in {"APPROVED", "POSTED"} \/ journal[v] > 0 => Vetted(voucher[v])
    /\ \A b \in Batches : batch[b].status \in {"APPROVED", "PROCESSED"} => Vetted(batch[b])

\* Vouchers settle only invoices the ledger has as a liability already.
PaymentAfterInvoice ==
    \A v \in Vouchers : \A k \in DOMAIN voucher[v].allocations :
        LET i == voucher[v].allocations[k].invoice
        IN  invoice[i].status = "POSTED" /\ journal[i] > 0

-----------------------------------------------------------------------------
(* The inductive invariant behind the last three *)

\* A request that has posted a document and not yet written its ledger row.
Owes(q, x) ==
    /\ q.doc = x
    /\ \/ q.op = "postInvoice" /\ q.step \in {"status", "ledger"}
       \/ q.op = "postVoucher" /\ q.step = "apply"

Owing(x) == {r \in Requests : Owes(request[r], x)}

\* The journal entries of a document cover its ledger rows and those to come.
RowsCovered == \A x \in Docs : vendorLedger[x] + Cardinality(Owing(x)) <= journal[x]

Settleable(list) ==
    \A k \in DOMAIN list :
        invoice[list[k].invoice].status = "POSTED" /\ journal[list[k].invoice] > 0

\* What a request has read, and still holds when it writes.
InvoiceRequestOK(q) ==
    q.op = "postInvoice" =>
        /\ q.doc \in Invoices
        /\ q.step \in {"journal", "status", "ledger"}
        /\ q.step # "journal" => journal[q.doc] > 0

VoucherRequestOK(q) ==
    /\ q.op = "createVoucher" =>
        q.doc \in Vouchers /\ q.step = "insert" /\ q.user \in Users /\ Settleable(q.list)
    /\ q.op = "approveVoucher" =>
        /\ q.doc \in Vouchers /\ q.step = "write" /\ q.user \in Users
        /\ voucher[q.doc].status # "ABSENT" /\ q.user # voucher[q.doc].createdBy
    /\ q.op = "postVoucher" =>
        /\ q.doc \in Vouchers /\ q.step \in {"journal", "apply", "status"}
        /\ voucher[q.doc].status # "ABSENT" /\ Vetted(voucher[q.doc])
        /\ q.step = "status" => vendorLedger[q.doc] > 0
        /\ q.batch # None => Vetted(batch[q.batch]) /\ batch[q.batch].status # "ABSENT"

BatchRequestOK(q) ==
    /\ q.op = "approveBatch" =>
        /\ q.batch \in Batches /\ q.step = "write" /\ q.user \in Users
        /\ batch[q.batch].status # "ABSENT" /\ q.user # batch[q.batch].createdBy
    /\ q.op = "processBatch" =>
        /\ q.batch \in Batches /\ q.step = "next"
        /\ batch[q.batch].status # "ABSENT" /\ Vetted(batch[q.batch])

RemitRequestOK(q) ==
    q.op = "remit" =>
        q.doc \in Deductions /\ q.step \in {"journal", "status"}
        /\ (q.step = "status" => journal[q.doc] > 0)

RequestOK(q) ==
    InvoiceRequestOK(q) /\ VoucherRequestOK(q) /\ BatchRequestOK(q) /\ RemitRequestOK(q)

RequestInv == \A r \in Requests : RequestOK(request[r])

\* A voucher that is not there has not been posted.
AbsentInv == \A v \in Vouchers : voucher[v].status = "ABSENT" => voucher[v] = NoVoucher /\ journal[v] = 0

PayInv ==
    /\ PayTypeOK /\ RequestInv /\ AbsentInv /\ RowsCovered
    /\ LedgerBacked /\ PaymentChecked /\ PaymentAfterInvoice

-----------------------------------------------------------------------------
(* Properties that need requests to take turns and not to stop half-way *)

\* No document is posted twice.
PostedOnce == \A x \in Docs : journal[x] <= 1

\* Between requests the subledger agrees with the journal: statuses, amounts
\* paid and vendor ledger rows, also after a batch that was refused half-way.
SubledgerAgrees ==
    (\A r \in Requests : request[r] = Idle) =>
        /\ \A i \in Invoices :
            /\ invoice[i].status = "POSTED" <=> journal[i] > 0
            /\ invoice[i].paid = SumFunctionOnSet(JournalledTo(i), Vouchers)
        /\ \A v \in Vouchers : voucher[v].status = "POSTED" <=> journal[v] > 0
        /\ \A d \in Deductions : deduction[d] = "REMITTED" <=> journal[d] > 0
        /\ \A x \in Invoices \cup Vouchers : vendorLedger[x] = journal[x]

\* What the subledger says was paid lies between what it settled and what the
\* journal paid, and while requests take turns nothing is posted twice and the
\* two agree.
SubledgerSound == PaidBetween /\ (serial => PostedOnce /\ SubledgerAgrees)

\* No invoice is paid beyond its total, save the rounding tolerance.
NotOverpaid == \A i \in Invoices : invoice[i].paid <= Total[i] + Tolerance
=============================================================================

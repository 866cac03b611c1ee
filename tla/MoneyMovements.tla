--------------------------- MODULE MoneyMovements ---------------------------
(***************************************************************************)
(* Hosted payments, refunds and bank transfers: the rows of the program,   *)
(* the provider that moves the money, the webhooks it sends, and the       *)
(* worker's sweeps that verify what is still PENDING.                      *)
(*                                                                         *)
(* A handler reads its row, waits for the provider and then writes by      *)
(* reference, so the answer it writes may be old.  Answers and webhooks    *)
(* may be lost, webhooks repeated and reordered, requests stopped.         *)
(***************************************************************************)
EXTENDS Integers, FiniteSets

CONSTANTS
    Payments,   \* bound: references of hosted payments
    Refunds,    \* bound: refund references the provider hands out
    Transfers,  \* bound: references of bank transfers
    PaymentOf,  \* the payment that a refund returns
    Calls,      \* bound: requests of users in flight at once
    MaxFaults,  \* bound: answers lost, requests stopped and webhooks repeated
    MaxEvents,  \* bound: webhooks the provider sends about one row
    None

Sweeps == {"payment", "transfer"}
Rows == Payments \cup Refunds \cup Transfers

ASSUME MoneyAssumption ==
    /\ PaymentOf \in [Refunds -> Payments]
    /\ Payments \cap Refunds = {} /\ Transfers \cap (Payments \cup Refunds) = {}
    /\ Calls \cap Sweeps = {} /\ IsFiniteSet(Calls)
    /\ MaxFaults \in Nat /\ MaxEvents \in Nat
    /\ None \notin Rows

VARIABLES
    status,    \* status column of payment_transactions, payment_refunds, bank_transfers
    known,     \* transfers whose row has a providerTransferId
    provider,  \* where a row stands at the provider
    ordered,   \* how often the provider was told to make a transfer
    mail,      \* webhooks under way
    events,    \* webhooks sent about a row
    call,      \* the requests in flight, the worker's among them
    sweep,     \* the rows that a sweep of the worker still has to verify
    faults

moneyVars == <<status, known, provider, ordered, mail, events, call, sweep, faults>>
rowVars == <<status, known>>
providerVars == <<provider, ordered, mail, events>>

ProviderState == {"none", "pending", "success", "failed", "abandoned", "reversed", "processed"}
Status == {"ABSENT", "PENDING", "SUCCESSFUL", "FAILED", "ABANDONED", "REVERSED"}
Message == [row : Payments \cup Refunds, state : ProviderState]
Idle == [op |-> "none", at |-> "idle", row |-> None, answer |-> "none"]

MoneyTypeOK ==
    /\ status \in [Rows -> Status]
    /\ known \subseteq Transfers
    /\ provider \in [Rows -> ProviderState]
    /\ ordered \in [Transfers -> Nat]
    /\ mail \subseteq Message
    /\ events \in [Payments \cup Refunds -> 0 .. MaxEvents]
    /\ call \in [Calls \cup Sweeps ->
          [op : {"none", "initialize", "refund", "initiate", "verify"},
           at : {"idle", "ask", "write", "fail"},
           row : Rows \cup {None}, answer : ProviderState]]
    /\ sweep \in [Sweeps -> SUBSET Rows]
    /\ faults \in 0 .. MaxFaults

MoneyInit ==
    /\ status = [x \in Rows |-> "ABSENT"]
    /\ known = {}
    /\ provider = [x \in Rows |-> "none"]
    /\ ordered = [x \in Transfers |-> 0]
    /\ mail = {}
    /\ events = [x \in Payments \cup Refunds |-> 0]
    /\ call = [c \in Calls \cup Sweeps |-> Idle]
    /\ sweep = [s \in Sweeps |-> {}]
    /\ faults = 0

\* Mutated form of PaymentStatus: what is neither a success nor abandoned failed.
PaymentStatusHasty(state) ==
    CASE state = "success" -> "SUCCESSFUL"
      [] state = "abandoned" -> "ABANDONED"
      [] OTHER -> "FAILED"

\* What the program records of a provider's word about a payment, a refund and
\* a transfer: PENDING for every word it does not know.
PaymentStatus(state) ==
    CASE state = "success" -> "SUCCESSFUL"
      [] state = "abandoned" -> "ABANDONED"
      [] state \in {"failed", "reversed"} -> "FAILED"
      [] OTHER -> "PENDING"

RefundStatus(state) ==
    CASE state = "processed" -> "SUCCESSFUL"
      [] state = "failed" -> "FAILED"
      [] OTHER -> "PENDING"

TransferStatus(state) ==
    CASE state = "success" -> "SUCCESSFUL"
      [] state = "failed" -> "FAILED"
      [] state = "reversed" -> "REVERSED"
      [] OTHER -> "PENDING"

StatusOf(x, state) ==
    IF x \in Payments THEN PaymentStatus(state)
    ELSE IF x \in Refunds THEN RefundStatus(state)
    ELSE TransferStatus(state)

Enter(c, op, at, x) ==
    /\ call[c] = Idle
    /\ call' = [call EXCEPT ![c] = [op |-> op, at |-> at, row |-> x, answer |-> "none"]]
At(c, op, at) == call[c].op = op /\ call[c].at = at
Leave(c) == call' = [call EXCEPT ![c] = Idle]
Answered(c, state) == call' = [call EXCEPT ![c].at = "write", ![c].answer = state]
Fault == faults < MaxFaults /\ faults' = faults + 1

-----------------------------------------------------------------------------
(* The provider, and what becomes of a request to it *)

Settled(x) == provider[x] \notin {"none", "pending"}

\* The exception that a handler sees: an initiated transfer is marked FAILED,
\* every other handler ends.
Throws(c) ==
    IF call[c].op = "initiate" THEN call' = [call EXCEPT ![c].at = "fail"] ELSE Leave(c)

\* The provider leaves the row of c in the given state and answers, or the
\* answer is lost.
Replies(c, state) ==
    /\ provider' = [provider EXCEPT ![call[c].row] = state]
    /\ \/ Answered(c, state) /\ UNCHANGED faults
       \/ Fault /\ Throws(c)

\* The request never arrives, or is refused.
AskFails(c) ==
    /\ call[c].at = "ask"
    /\ Throws(c)
    /\ UNCHANGED <<rowVars, providerVars, sweep, faults>>

Settle(x) ==
    /\ provider[x] = "pending"
    /\ \E state \in IF x \in Refunds THEN {"processed", "failed"}
                    ELSE IF x \in Payments THEN {"success", "failed", "abandoned"}
                    ELSE {"success", "failed"} :
           provider' = [provider EXCEPT ![x] = state]
    /\ UNCHANGED <<rowVars, ordered, mail, events, call, sweep, faults>>

Reverse(x) ==
    /\ provider[x] = "success"
    /\ provider' = [provider EXCEPT ![x] = "reversed"]
    /\ UNCHANGED <<rowVars, ordered, mail, events, call, sweep, faults>>

Notify(x) ==
    /\ provider[x] # "none" /\ events[x] < MaxEvents
    /\ mail' = mail \cup {[row |-> x, state |-> provider[x]]}
    /\ events' = [events EXCEPT ![x] = @ + 1]
    /\ UNCHANGED <<rowVars, provider, ordered, call, sweep, faults>>

LoseWebhook(m) ==
    /\ m \in mail
    /\ mail' = mail \ {m}
    /\ UNCHANGED <<rowVars, provider, ordered, events, call, sweep, faults>>

-----------------------------------------------------------------------------
(* PaymentsService *)

BeginInitialize(c, x) ==
    /\ status[x] = "ABSENT"
    /\ Enter(c, "initialize", "ask", x)
    /\ UNCHANGED <<rowVars, providerVars, sweep, faults>>

AskInitialize(c) ==
    /\ At(c, "initialize", "ask") /\ provider[call[c].row] = "none"
    /\ Replies(c, "pending")
    /\ UNCHANGED <<rowVars, ordered, mail, events, sweep>>

\* The reference is unique: the insert of a second request is refused.
InsertPayment(c) ==
    /\ At(c, "initialize", "write")
    /\ status' = [status EXCEPT ![call[c].row] = IF @ = "ABSENT" THEN "PENDING" ELSE @]
    /\ Leave(c)
    /\ UNCHANGED <<known, providerVars, sweep, faults>>

\* Mutated form of BeginRefund: a payment under way can be refunded.
BeginRefundPending(c, x) ==
    /\ status[PaymentOf[x]] # "ABSENT" /\ provider[x] = "none"
    /\ Enter(c, "refund", "ask", x)
    /\ UNCHANGED <<rowVars, providerVars, sweep, faults>>

BeginRefund(c, x) ==
    /\ status[PaymentOf[x]] = "SUCCESSFUL" /\ provider[x] = "none"
    /\ Enter(c, "refund", "ask", x)
    /\ UNCHANGED <<rowVars, providerVars, sweep, faults>>

AskRefund(c) ==
    /\ At(c, "refund", "ask") /\ provider[call[c].row] = "none"
    /\ \E state \in {"pending", "processed"} : Replies(c, state)
    /\ UNCHANGED <<rowVars, ordered, mail, events, sweep>>

InsertRefund(c) ==
    /\ At(c, "refund", "write")
    /\ status' = [status EXCEPT ![call[c].row] = RefundStatus(call[c].answer)]
    /\ Leave(c)
    /\ UNCHANGED <<known, providerVars, sweep, faults>>

\* A webhook that matches no row is dropped, any other overwrites the status.
\* The provider may send it once more.
Deliver(m) ==
    /\ m \in mail
    /\ status' = [status EXCEPT ![m.row] = IF @ = "ABSENT" THEN @ ELSE StatusOf(m.row, m.state)]
    /\ \/ mail' = mail \ {m} /\ UNCHANGED faults
       \/ Fault /\ UNCHANGED mail
    /\ UNCHANGED <<known, provider, ordered, events, call, sweep>>

ApplyWebhookEvent(m) == m.row \in Payments /\ Deliver(m)
ApplyRefundWebhookEvent(m) == m.row \in Refunds /\ Deliver(m)

AskVerify(c) ==
    /\ At(c, "verify", "ask") /\ provider[call[c].row] # "none"
    /\ Answered(c, provider[call[c].row])
    /\ UNCHANGED <<rowVars, providerVars, sweep, faults>>

WriteStatus(c) ==
    /\ status' = [status EXCEPT ![call[c].row] = StatusOf(call[c].row, call[c].answer)]
    /\ Leave(c)
    /\ UNCHANGED <<providerVars, sweep, faults>>

WritePayment(c) ==
    At(c, "verify", "write") /\ call[c].row \in Payments /\ WriteStatus(c) /\ UNCHANGED known

WriteRefund(c) ==
    At(c, "verify", "write") /\ call[c].row \in Refunds /\ WriteStatus(c) /\ UNCHANGED known

-----------------------------------------------------------------------------
(* BankTransferService, and verification of any row *)

CreateRecord(x) ==
    /\ status[x] = "ABSENT"
    /\ status' = [status EXCEPT ![x] = "PENDING"]
    /\ UNCHANGED <<known, providerVars, call, sweep, faults>>

\* Mutated form of BeginInitiate: a transfer that the provider knows and has
\* not finished is initiated again.
BeginInitiateKnown(c, x) ==
    /\ status[x] = "PENDING"
    /\ Enter(c, "initiate", "ask", x)
    /\ UNCHANGED <<rowVars, providerVars, sweep, faults>>

BeginInitiate(c, x) ==
    /\ status[x] = "PENDING" /\ x \notin known
    /\ Enter(c, "initiate", "ask", x)
    /\ UNCHANGED <<rowVars, providerVars, sweep, faults>>

\* The provider makes one transfer per reference, however often it is ordered.
AskInitiate(c) ==
    /\ At(c, "initiate", "ask")
    /\ ordered' = [ordered EXCEPT ![call[c].row] = @ + 1]
    /\ \E state \in IF provider[call[c].row] = "none" THEN {"pending", "success", "failed"}
                    ELSE {provider[call[c].row]} : Replies(c, state)
    /\ UNCHANGED <<rowVars, mail, events, sweep>>

MarkFailed(c) ==
    /\ At(c, "initiate", "fail")
    /\ status' = [status EXCEPT ![call[c].row] = "FAILED"]
    /\ Leave(c)
    /\ UNCHANGED <<known, providerVars, sweep, faults>>

\* verifyPayment, verifyRefund and verifyTransfer take a row of any status, but
\* a transfer that was never initiated.
Verifiable(x) ==
    /\ status[x] # "ABSENT"
    /\ x \in Transfers => status[x] # "PENDING" \/ x \in known

BeginVerify(c, x) ==
    /\ Verifiable(x)
    /\ Enter(c, "verify", "ask", x)
    /\ UNCHANGED <<rowVars, providerVars, sweep, faults>>

ApplyProviderResult(c) ==
    /\ call[c].op \in {"initiate", "verify"} /\ call[c].at = "write"
    /\ call[c].row \in Transfers
    /\ WriteStatus(c)
    /\ known' = known \cup {call[c].row}

\* The process stops, or the database fails a request, anywhere.
Stop(c) ==
    /\ call[c] # Idle
    /\ Fault
    /\ Leave(c)
    /\ UNCHANGED <<rowVars, providerVars, sweep>>

-----------------------------------------------------------------------------
(* The worker.  Its service account may do what its role allows. *)

\* Mutated form of WorkerPermissions: the role before payments were added.
WorkerPermissionsBefore == {"bankrecon.manage"}

WorkerPermissions == {"payments.manage", "payments.reconcile", "bankrecon.manage"}

VerifyPermission(x) == IF x \in Transfers THEN "bank_transfer.manage" ELSE "payments.manage"

Swept(s) == IF s = "transfer" THEN Transfers ELSE Payments \cup Refunds

\* Every quarter of an hour.  That young rows are left for the next sweep is
\* left out.
StartSweep(s) ==
    /\ sweep[s] = {} /\ call[s] = Idle
    /\ sweep' = [sweep EXCEPT ![s] = {x \in Swept(s) : status[x] = "PENDING"}]
    /\ sweep'[s] # {}
    /\ UNCHANGED <<rowVars, providerVars, call, faults>>

\* The next row, payments before refunds.  A call that the guard or the handler
\* refuses is counted and the sweep goes on.
SweepRow(s, x) ==
    /\ call[s] = Idle
    /\ x \in sweep[s] /\ (x \in Refunds => sweep[s] \cap Payments = {})
    /\ sweep' = [sweep EXCEPT ![s] = @ \ {x}]
    /\ IF VerifyPermission(x) \in WorkerPermissions /\ Verifiable(x)
       THEN Enter(s, "verify", "ask", x)
       ELSE UNCHANGED call
    /\ UNCHANGED <<rowVars, providerVars, faults>>

-----------------------------------------------------------------------------
MoneyNext ==
    \/ \E x \in Rows : Settle(x)
    \/ \E x \in Payments \cup Transfers : Reverse(x)
    \/ \E x \in Payments \cup Refunds : Notify(x)
    \/ \E m \in mail : 
          ApplyWebhookEvent(m) \/ ApplyRefundWebhookEvent(m) \/ LoseWebhook(m)
    \/ \E x \in Transfers : CreateRecord(x)
    \/ \E c \in Calls :
          \/ \E x \in Payments : BeginInitialize(c, x)
          \/ \E x \in Refunds : BeginRefund(c, x)
          \/ \E x \in Transfers : BeginInitiate(c, x)
          \/ \E x \in Rows : BeginVerify(c, x)
          \/ AskInitialize(c) \/ AskRefund(c) \/ AskInitiate(c)
          \/ InsertPayment(c) \/ InsertRefund(c) \/ MarkFailed(c)
    \/ \E c \in Calls \cup Sweeps :
          \/ AskVerify(c) \/ AskFails(c) \/ Stop(c)
          \/ WritePayment(c) \/ WriteRefund(c) \/ ApplyProviderResult(c)
    \/ \E s \in Sweeps : StartSweep(s) \/ \E x \in Rows : SweepRow(s, x)

\* The scheduler starts every sweep, the worker goes on to the next row, the
\* API finishes a verification that was answered, and the provider answers
\* about a row that is asked about again and again.  Nothing is assumed of
\* users, of webhooks, or of how a payment ends.
MoneyFairness ==
    \A s \in Sweeps :
        /\ WF_moneyVars(StartSweep(s))
        /\ WF_moneyVars(\E x \in Swept(s) : SweepRow(s, x))
        /\ WF_moneyVars(WritePayment(s) \/ WriteRefund(s) \/ ApplyProviderResult(s))
        /\ \A x \in Swept(s) : SF_moneyVars(AskVerify(s) /\ call[s].row = x)

MoneySpec == MoneyInit /\ [][MoneyNext]_moneyVars /\ MoneyFairness

-----------------------------------------------------------------------------
(* Properties *)

\* No row tells of an outcome that the provider never reached, however late
\* and in whatever order answers and webhooks arrive.  Only a transfer can
\* say FAILED without: it was given up when its answer was lost.
Truthful ==
    /\ MoneyTypeOK
    /\ \A x \in Rows :
        /\ status[x] = "SUCCESSFUL" => provider[x] \in {"success", "processed", "reversed"}
        /\ status[x] = "FAILED" => provider[x] \in {"failed", "reversed"} \/ x \in Transfers
        /\ status[x] \in {"ABANDONED", "REVERSED"} => StatusOf(x, provider[x]) = status[x]

\* The provider is never told to refund a payment that it did not receive,
\* although the status is read long before.
RefundsWhatWasPaid ==
    \A x \in Refunds : provider[x] # "none" => provider[PaymentOf[x]] \in {"success", "reversed"}

\* A transfer is ordered again only by requests that overlap or after one that
\* was cut off before it could record the answer.
OrderedOnce == \A x \in Transfers : ordered[x] <= Cardinality(Calls) + faults

\* Once the provider has settled a payment or refund that has a row, that row
\* leaves PENDING for good: lost, late and reordered webhooks, refunds whose
\* webhook came before their row, and verifications that fail any number of
\* times are all made good by the sweep.
PaymentsSettle ==
    \A x \in Payments \cup Refunds :
        status[x] # "ABSENT" /\ Settled(x) ~> [](status[x] # "PENDING")

\* The same for a transfer that has been initiated, as the comments of the
\* reconciliation sweep say.
TransfersSettle ==
    \A x \in Transfers : x \in known /\ Settled(x) ~> [](status[x] # "PENDING")
=============================================================================

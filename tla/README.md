# Verification of 7F LedgerOS

7F LedgerOS is an ERP for a real-estate group: a NestJS API over PostgreSQL
(`src/apps/api`), a BullMQ worker that sweeps, imports and sends
(`src/apps/worker`), a Next.js client (`src/apps/web`) and shared packages. This
directory holds TLA+ specifications of the parts that keep business state, the
TLC configurations that check them on small instances, and proofs, checked by
TLAPS, of what matters most for instances of any size.

## How the program behaves

A handler of the API is a sequence of awaited database statements. Several
handlers run at once, in one Node process or in many. Unless a service opens a
Prisma transaction, each statement commits by itself; a transaction runs at
READ COMMITTED, PostgreSQL's default, and no service locks a row explicitly (the
number sequence and the unique columns lock as a side effect). The usual shape
is therefore

    read the row  ->  check its status  ->  (await ...)  ->  UPDATE ... WHERE id

where the update does not repeat the check. A handler can stop at any await: a
validation throws, the connection fails, the process is restarted. What it had
committed stays. The worker calls the same handlers again for rows that look
stale, and calls providers outside that time out, repeat and reorder.

All models share this shape. A *request* record (`req`, `task`, `request`,
`call`) holds what a handler has read and not yet written; an action is a
database statement, or the commit of a transaction, with the conditions that are
checked on the way to it; and one action (`Drop`, `FailTask`, `Stop`, `CutOff`)
ends a request between two statements.

Two kinds of properties follow from it. Some hold *whatever the requests
interleave* and wherever they stop. Others are promises of the code or its
documentation that need the requests to *take turns* and to run to their end:
they are stated under a flag that says so (`tidy` in the modules on `Documents`,
`serial` in the workflow engine and in accounts payable, one request in
`posting_serial`). The distance between the two lists is the main result of the
project; "Seen in the models" lists what it means in practice.

## Inventory

| Component | State | Operations | What makes it correct |
|---|---|---|---|
| Posting engine (`general-ledger`) | `journal_entries`, `fiscal_periods`, number sequences, audit rows | draft, submit, approve, reject, post, reverse, system posting, lock period | unique, gap-free numbers; balance; maker is not checker; nothing posted into a locked period; one reversal |
| Chart of accounts, entities | accounts, activations, active flags | activate, deactivate | postings only to active accounts of active entities; retirement traps nothing |
| Workflow engine | instances, stage instances, action log | start, act, resubmit | each stage has its approvals; one active stage; an ended instance stays ended |
| Intercompany | two entries, link row | create, reconcile, dispute | both legs or none; reconciled only if both were posted |
| Accounts payable | invoices, vouchers, batches, deductions, vendor ledger | create, approve, post, process, remit | each ledger row is in the journal; maker is not checker; only posted invoices are paid; subledger equals journal |
| Accounts receivable | bills, receipts, customer ledger | create, post, allocate | as above, and no more received than allocated |
| Payments, refunds, transfers | rows; the provider and its webhooks outside | initiate, webhook, verify, refund, sweep | no row ahead of the provider; no refund of what was not paid; ordered once; every settled payment is known in the end |
| Bank reconciliation, bank links | statement items, matches, sessions; watermark of a feed | match, adjust, approve; sync, import | approved means matched once; nothing missed, nothing imported twice |
| Procurement, budgeting, inventory | requisitions, orders, receipts, invoices; lines, commitments; balances, movements | approve, receive, match; commit, release, transfer; post documents | orders in force are approved and reserved; what arrives was ordered, and its worth released from what was reserved; stock is the sum of its movements |
| Treasury | loans with schedules, placements | draw, repay, place, mature, roll over | drawn within the facility; paid within the installment; one rollover |
| Fixed assets | assets, monthly rows | register, depreciate, dispose | nothing done ahead of the journal; each month once |
| Sales, revenue, handover | units, reservations, sales, bills; handovers, snags, revenue | reserve, expire, convert, swap, transfer, cancel; inspect, complete | one holder per unit; billed once; no handover without revenue of its own, none recognized again unless the unit was sold again |
| Customer payments, mortgages | installments, applications | pay, approve, disburse | paid is backed by cash, within what is due; disbursed is within what was approved |
| Commissions, agents | plans, assignments, calculations | calculate, approve, accrue, pay, reverse | one primary agent; bands without overlap; paid once after accrual |
| Leasing, land, facilities | tenants, leases, rents; plots, plans; facilities, repairs | activate, renew, bill; release, approve; decommission, repair, bill | one open lease per unit; allocated while released; out of use for a reason |
| Leads, messages | leads, prospects; notifications, jobs, receipts | qualify, convert, reserve, win; queue, send, report | won means reserved; sent means taken by the provider, once |
| Recruitment, signatures | openings, vacancies, applications, interviews, offers, candidates; copies at outside services | approve, schedule, offer, send, sign, hire | hired only on an accepted offer that was approved and sent; copies agree with rows |
| Payroll, leave, exits, attendance, reviews | runs, payslips; balances; checklists; days; cycles | calculate, approve, post; request, decide; clear; punch; submit | posted is what the payslips say; leave within the balance and shown on its days; tax is progressive |
| Safety | incidents, actions, checklists | report, correct, close, finalize | closed when corrected; a result stands on assessed items |
| Project control | valuations, certificates, retention; network; bookings; risks | certify, release; schedule; book; assess | retention adds up; the network has no cycle and its floats are right |
| Tax, reporting, authentication, gateway, storage, web client, packages | none of their own, atomic counters, or user interface | | not modelled, see the end |

Components call each other in process. The posting engine is the centre: every
component that moves money calls `postSystemEntry`, which is a transaction of
its own, before or after it updates its own rows, in separate commits. The
workflow engine is the second: approvals of offers, openings, plans and
facilities are instances of it whose outcome a later `refresh` copies.
PROJECT.json lists every component with its files, modules and status, and the
hazards with the line at which each bites.

### What is hard

- *Interleaving.* Every read-check-update above races with any other handler on
  the row. Most run outside a transaction, and READ COMMITTED does not help
  those that have one.
- *Partial failure.* A business operation is several commits, the ledger posting
  being one of them. A crash between two leaves the ledger and the document in
  disagreement, and a retry may post again.
- *Stale checks.* Balances and limits are checked when a document is prepared and
  relied on when it is posted.
- *Rounding.* Amounts are binary floating point in the services and
  `Decimal(18,2)` in the database.
- *Delivery.* Webhooks come late, twice or in another order; provider calls time
  out after they took effect; jobs are repeated; sweeps overlap themselves.

## Modules

| Module | Models |
|---|---|
| `JournalLines` | arithmetic of journal lines: tolerance, rounding to cents, swapping, netting |
| `ChartOfAccounts` | entities, accounts, activations and their retirement |
| `PostingEngine` | the posting engine over the two above |
| `JournalRegister` | abstract: an append-only register of journal numbers per book |
| `WorkflowEngine` | the approval engine |
| `AccountsPayable` | invoices, vouchers, batches, deductions |
| `MoneyMovements` | payments, refunds, transfers, the provider, webhooks, the worker's sweeps |
| `Documents` | what the modules below share: rows, requests, handlers, cuts |
| `Budgeting`, `Inventory`, `Procurement` | budgets, stock, and orders over both |
| `Intercompany`, `FixedAssets`, `Treasury` | deals of two entities, assets, loans and placements |
| `BankReconciliation` | sessions; linked accounts and the import job; these and `Treasury`, their requests interleaved |
| `ProjectControls` | bookings, risks, the task network, valuations with their certificates |
| `Receivables`, `UnitSales`, `Handover`, `Leads` | bills; units over bills; handover over units; leads over units |
| `CustomerPayments`, `Commissions` | installments and mortgages; plans, agents, calculations |
| `Leasing`, `LandBank`, `Facilities` | leases and rents; plots and plans; facilities and repairs |
| `Property` | the three above, their requests interleaved |
| `ExternalCopies` | objects at outside services that stand for a row, with their calls and retries |
| `Recruitment`, `Safety` | hiring, and safety at work, over `ExternalCopies` |
| `Payroll`, `Workforce` | payroll runs; attendance, reviews, leave, exits |
| `Messages` | notifications, queues, attempts, delivery reports; joined with leads in `Leads` |
| `MCPostingEngine`, `MCWorkflowEngine`, `MCAccountsPayable`, `MCMoneyMovements` | small instances of one module each |
| `MCOperations`, `MCContracts` | small instances of the modules on `Documents`, in scenes |
| `SumTheorems` | facts about sums over finite sets that the proofs share |
| `...Proofs` (seven) | theorems: see "What is proved" |

Some operators begin with the comment "Mutated form of": they are plausible
mistakes in the definition that follows them, belong to no specification, and
show that the properties notice them (PROJECT.json, "mutants").

### Posting engine (`general-ledger/posting-engine.service.ts`)

| Code | Model |
|---|---|
| `journal_entries` row | `entry[e]`; number 0 is the random `DRAFT-` number |
| `fiscal_periods.status` | `period[p]` |
| `journal_number_sequences.lastNumber` | `lastNumber[b]`, a book being an entity and a year |
| `audit_logs` rows | `audit` (numbers), `lockAudit` (locks) |
| a handler between two awaits | `req[r]`: operation, step, and what it has read |
| `createDraft` | `BeginDraft`, `OpenPeriod`, `InsertDraft` |
| `submitForApproval`, `approve`, `reject` | `BeginSubmit`/`WriteSubmit` and so on |
| `post` | `BeginPost`, `TakeNumber`, `CommitPost` |
| `reverse` | `BeginReverse`, `OpenPeriod`, `InsertReversal`, `TakeNumber`, `CommitReverse` |
| `postSystemEntry` | `BeginSystem`, `OpenPeriod`, `TakeNumber`, `CommitSystem` |
| `lockPeriod` | `BeginLock`, `WriteLock`, `AuditLock` |
| a throw, a rollback, a crash | `Drop` |
| `getTrialBalance` | `TrialBalance` |

Row locks that PostgreSQL takes by itself are guards: `Holders` (the upsert of
the sequence row, held to the end of the transaction), `Inserters` and
`Reversers` (the unique indexes on the period and on `reversalOfId`). The writes
of a transaction appear at its commit.

### Workflow engine (`workflow/workflow.service.ts`)

`instance`, `stage` are the rows of `workflow_instances` and
`workflow_stage_instances`. `recorded` counts the advancing rows of
`workflow_actions` per stage, `fresh` those since the last submission; the
latter is a history variable that no guard reads. `StartInstance` is one nested
create: its parameter `left` holds the stages that workflow-level rules leave
out and `roles` the role each stage's rules chose, both arbitrary within what
the definition allows. `act` is `BeginAct`, `RecordAction`, `WriteStage` and then
`ActivateNext` or `EndInstance`; `resubmit` is `BeginResubmit`, `RestartFirst`,
`LogResubmit`, `Reopen`. The four advancing actions (submit, review, approve,
post) do the same thing in the code and are one kind, `ADVANCE`. `serial` is
chosen at the start: if it is set, a request begins only when none is at work
and none is cut off.

### Accounts payable (`accounts-payable/accounts-payable.service.ts`)

`invoice`, `voucher`, `batch`, `deduction` are rows; `journal[x]` and
`vendorLedger[x]` count the journal entries and vendor ledger rows document `x`
has caused. A posting is one commit of the posting engine, hence one step
(`PostJournal`); what the handler writes around it are steps of their own.
`postPaymentVoucher` is `BeginPostVoucher`, `PostVoucherJournal`, one
`ApplyAllocation` per allocation, `WriteVoucherLedger`, `MarkVoucherPosted`;
`processPaymentBatch` is `BeginProcess`, then `NextVoucher` and the same steps
for each voucher, then `CloseBatch`. Tax amounts are abstracted: an allocation
carries the set of deduction rows it creates and the gross amount that is
applied to the invoice. Entities, bank accounts and descriptions are left out.

### Money (`payments`, `transfers`, the reconciliation processors)

`status[x]` is the row of a payment, refund or transfer, `provider[x]` what the
provider has done (external: modelled from the statuses the adapters map),
`mail` the webhooks under way, which may be lost, repeated and applied in any
order, `call[c]` a request of a user or of a sweep. `Begin...` is the read,
`Ask...` the call of the provider, whose answer may be lost after it took effect
(`AskFails`), `Insert...`, `Write...` and `ApplyProviderResult` the update by
reference. `StartSweep` selects the PENDING rows, `SweepRow` calls the verify
endpoint for each, through the permissions of the worker's role. `ordered` and
`faults` are history.

### Documents and the modules on it

`db` maps every row to a record (a row that is not there yet has status
ABSENT), `call` the requests in flight to what each has read, and `tidy` says
that requests have taken turns so far and none was cut off. `Handler` is the
usual handler, a check and a later write; `Statement` one that checks and writes in
a single statement or transaction; `Insertion` one that a unique key protects;
handlers of more commits are written out with `Enter`, `Keep`, `Goto` and
`Leave`. `PostEntry` is a call of `postSystemEntry`. Operators carry the names of
the methods they model; the few fields that are history (`done`, `handled`,
`retired`, `approvals`, `cash`, `most`, `resold`...) are named as such where the row
is defined and no guard reads them except to bound a run.

Where one component writes what another relies on, their requests interleave in one
next-state relation. `Handover` extends `UnitSales`: a handover names the unit it is
of, which need not be its sale's, and `EstateNext` joins reservations, sales,
recognitions and completions, because a conversion does not look at the unit and may
sell one whose revenue is already recognized (`SellUnit`, counted in `resold`).
`LeaveNext` and `AttendanceNext` share the days of employees: `GrantLeave` is the
transaction of `approveLeaveRequest`, with the balance and the ON_LEAVE record of every
day. In `Procurement` a receipt has a quantity (`Delivered`), which the order and the
stock count, and a unit cost of its own (`cost`, the override of a receipt's line), by
which the journal and the reservation take its worth. In `CustomerPayments` every
approval of a mortgage brings its own amount, and `most` remembers the largest.

## What the runs show

| Run | Instance | Shows |
|---|---|---|
| `posting_race` | 2 entries, 1 period, 2 requests | under every interleaving and abort: types, a complete audit trail, maker is not checker, sound reversals, and the register refinement |
| `posting_serial` | 2 entries, 2 periods in 2 years, accounts and entity retirable, 1 request | gap-free numbers, balanced manual entries, the documented status flow and immutable postings; retirement leaves no approved entry that no operation can end |
| `workflow` | 1 instance of 3 stages, 2 requests; they interleave over two of the stages, or take turns over all three | counted approvals are logged; nothing ends approved without enough of them; taking turns, one active stage, prompt advance, the first stage asked anew, ended for good |
| `payables` | 2 vouchers on 1 invoice interleaved, or 2 invoices, 2 vouchers and a batch by turns | amounts paid, ledger rows and approvals stay within the journal even when a document is posted twice; taking turns, nothing is, and the subledger equals the journal |
| `money` | 1 payment with a refund, or 1 transfer; 1 user request beside the sweeps; 1 fault, 1 webhook per row | rows tell the truth, refunds return what was paid, a transfer is ordered once, and every settled payment and refund leaves PENDING for good |
| `operations` | 17 scenes, 2 requests | budgets, stock, orders, assets, loans and placements, reconciliation, statement import, deals, certificates, networks, bookings and risks keep what each module promises |
| `contracts` | 40 scenes, 2 requests | the same for receivables, sales, handover (alone and with the sales of its unit), installments, commissions, leases, land, facilities, leads, recruitment, payroll, workforce, safety, messages |
| `posting_gap` | as `posting_race` | **violated:** two posts of one entry leave a hole in the numbers |
| `trial_balance` | 1 request | **violated:** a reversal negates the trial balance instead of restoring it |
| `payables_overpaid` | as `payables` | **violated:** two vouchers pay one invoice twice |
| `money_sweep` | 1 transfer | **violated:** the sweep never settles a transfer, as its role may not call the endpoint |
| `depreciation_twice` | the scenes of `operations` | **violated:** a month of an asset is posted twice |

The properties of the modules on `Documents` are named `...Sound` and are the
conjunction of the module's type invariant and its named parts, each with a
comment of its own. `BankingSound`, `ProjectsSound`, `PropertySound`, `OutreachSound`
and `PeopleSound` join those of several modules (see `BankReconciliation`,
`MCOperations`, `Property`, `Leads` and `MCContracts`).

### Scenes

Requests that share no row only multiply the states. `MCOperations` and
`MCContracts` therefore choose at the start which part of the business a behaviour
is about, together with the rows it begins from (an approved budget, a sold
unit, an application), and keep the rest still. Some scenes cut a component
further, and say so where they do: of rows that are alike the first is used
before the second (`UsedBefore`); of two users who are alike ann is the first; a
behaviour has one notification (`OneNotice`); reviews are either closed by the
cycle or commented on; an invoice is matched with the receipt of its own
delivery, and of two receipts that race the second comes at the cost of the order; in
`estate`, where one unit is reserved, sold and handed over, requests take turns or are
conversions, recognitions and completions of one sale; in `handover` both records
name the unit of their sale, and in `snags` the one record names another; a mortgage
is submitted and closed only by a request whose turn it is; in `absence`, leave meets
attendance on one day; a valuation advances in one scene, and two approved ones are certified
in another. What a scene leaves out another covers, so that every
disjunct of every handler is taken in some scene.

### Bounds

- *Rows.* Two or three of what competes: every property is about one document, a
  pair, or a sum over them, and a fault needs at most two documents on one
  shared row (two receipts on an order, two sales of a unit). A workflow instance
  shares nothing with another, so one is enough.
- *Requests.* Two: the guard of a step looks at rows or at one other holder of a
  lock; more requests add waiting, not a new conflict. The theorems do not have
  this bound.
- *Periods.* One in `posting_race`, so that everything competes for the same
  sequence row; two years in `posting_serial`, so that a reversal can fall into
  another book. `OneRetired` lets one account or entity, or activation, be
  retired at a time.
- *Amounts.* A cent is 10 mills, and a journal is a cent, or two and one (unbalanced),
  or in mills (balanced only before rounding). Elsewhere amounts are 1 to 3 against
  limits of 2 or 3, so that a limit is reached exactly, in parts, and beyond. Receipts
  come at unit costs of 0, 1 and 2 where the order's is 1 (`UnitCosts`), mortgages are
  approved for 1 or 2 (`Lendable`), and an installment of 2 may be paid the cent of
  `Tolerance` beyond it.
- *Counts.* `MaxPosted`, `MaxEntries`, `MaxAccrued`, `MostBilled`, `MostSent`,
  `MostCharged`, `MostImported` and the like are 1 or 2: a document can be posted
  twice, which is the fault that matters. Where the bound is 1 (`MaxPosted` of
  `operations`, `MaxEntries`) it is on the check of a request that begins, so that two
  that overlap still post twice. `MaxRecorded` and `RaceRecorded` are above the approvals
  any stage asks for. `Attempts`, `MostJobs`, `MostMessages` are 2: one retry.
  `Horizon` is 4 slots with a `Lookback` of 2, so that a slot can fall out of the
  lookback; `Busy` are the slots with transactions. `MaxFaults` and `MaxEvents` are 1.
- *Symmetry* is over rows, users and requests that no constant distinguishes, and
  only in runs without liveness.

`CHECK_DEADLOCK FALSE` is there because these systems stop: the rows of the
instance are used up, an approved entry may be left in a locked period, an
instance ends, or a bound is reached.

### Fairness

Only `MoneyMovements` assumes any. Weak fairness: the scheduler starts each
sweep (`scheduler.service.ts` repeats it every fifteen minutes), the worker goes
on to the next row (each error is caught and counted), and the API writes the
answer it got. Strong fairness: a sweep that asks about a row again and again is
answered at some time. Nothing is assumed of users, of webhooks, or of how a
payment ends. `PaymentsSettle` holds under it; `TransfersSettle` does not, which
is a disagreement (below). Everywhere else the code promises no progress to a
document by itself, since each step waits for somebody to send a request;
`NothingTrapped` says what can be said instead, that a step is possible.

## What is proved

The theorems hold for any number of rows, users, requests, stages and amounts,
under the named assumptions of the modules only: types of the constants, `None`
apart from what it stands for, rows of one table apart from those of another, and
finite sets where something is summed or counted over them. Each module's
specification begins with the rows absent, for orders with budget lines of any amounts.
The three theorems on sales and handovers are about one specification, `EstateSpec`,
whose steps are those of reservations, sales and handovers together.

| Module | Theorem | States |
|---|---|---|
| `PostingEngineProofs` | `TypeCorrect`, `NumbersAreUnique`, `AuditIsComplete`, `ApprovalIsIndependent`, `ReversalIsSound`, `ManualEntriesBalance` | `[]` of the invariants of `posting_race`, and `ManualBalanced` |
| | `RegisterIsImplemented` | `Spec => ImplementsRegister` |
| | `NumberingHasNoGap`, `LockedPeriodsAreSettled`, `TheLedgerOnlyGrows` | for one request: `[]GapFree`, `[]LockedSettled`, `LedgerOnlyGrows` |
| `WorkflowEngineProofs` | `WorkflowTypeCorrect`, `CountedApprovalsAreRecorded`, `NeverShortOfApprovals`, `StagesGoInTurn`, `EndedStaysEnded` | every property of `workflow` |
| `AccountsPayableProofs` | `PayTypeCorrect`, `LedgerRowsAreBacked`, `PaymentsAreChecked`, `PaymentsFollowInvoices`, `SubledgerIsAlwaysSound` | the invariants of `payables` |
| `MoneyMovementsProofs` | `RowsTellTheTruth`, `RefundsReturnWhatWasPaid`, `TransfersAreOrderedOnce` | the invariants of `money` |
| `OperationsProofs` | `StockIsAlwaysSound`, `BudgetIsAlwaysSound`, `DealsAlwaysSound` | `[]StockSound`, `[]BudgetSound`, `[]DealsSound` |
| | `AssetsAreAlwaysSound`, `OrdersAreAlwaysSound` | `[]AssetsSound`, `[]OrdersSound` |
| | `EnvelopeIsKept` | `EnvelopeKept` |
| `SalesProofs` | `SalesAreAlwaysSound`, `HandoverIsAlwaysSound`, `NoSnagIsLeft` | `[]SalesSound`, `[]HandoverSound`, `NoSnagLeft` |
| | `ReceivablesAreAlwaysSound`, `PaymentsAreAlwaysSound` | `[]ReceivablesSound`, `[]CustomerPaymentsSound` |
| | `CommissionsAreAlwaysSound` | `[]CommissionsSound` |
| `PropertyProofs` | `PropertyIsAlwaysSound`, `BankingIsAlwaysSound` | `[]PropertySound`, `[]BankingSound` |
| | `OutreachIsAlwaysSound` | `[]OutreachSound` |

Each proof module shows `Init => I`, `I /\ [Next]_v => I'` and `I` implies the
property, with one lemma or step per action.

*Sums.* The library's induction theorem takes a predicate as an operator, which no
backend here can instantiate. `SumTheorems` does without it: it takes the set of
counterexamples instead of a predicate, gives that set a smallest member, and refutes
it. What it proves once of `SumFunctionOnSet` (a sum takes a member out, is the same
for functions that agree, grows with its terms, moves by what one term moves) the
proofs cite, so that a step which writes one row moves a sum by one term.

*Posting engine, `IInv`.* Uniqueness is not inductive: a request that took a
number commits it later. `SequenceInv` says that at most one transaction holds
the sequence row of a book and has the next number, `ReverserInv` the same of a
reversal. `RequestInv` says that what a request has read is still true of the
row when it writes: the status may have changed, but preparer, origin, lines and
period never do, which is why maker/checker survives stale status writes.
`RowInv` ties status, number and origin together. The refinement needs the
sequence part alone: a commit of a number is one `Issue`, all else stutters. For
one request, `SerialInv` adds that what it has read is still so (`StillSo`), that
what is in the ledger is numbered, and the two properties themselves.

*Workflow engine, `WorkflowInv`.* A stale count is never above the log, as the
action is logged before the count is written (`TaskInv`), and a stage becomes
active only when the earlier ones have enough in the log (`StageInv`). The log
only grows, so both survive any interleaving. `SerialInv` adds `TurnInv` while
requests take turns: the count of a stage is at least the approvals since the
last submission and equal to them for the first stage, the stages before the
active one are approved and those after it untouched; for the request at work,
`AtWork` says how far each of its steps has carried the instance from there.

*Accounts payable, `PayInv`.* Journal counts, preparers, and "posted" of an
invoice only grow or stay (`Grows`), so what a request relies on cannot be taken
away. `RowsCovered` counts the requests that posted a document and still owe its
ledger row: the journal entries cover the rows and those to come, which is what
makes `vendorLedger <= journal` inductive under double postings.

*Accounts payable, `PaidInv` and `TurnInv`.* Of an invoice, what the journal paid is
applied, still to be applied by a request at work, or was lost with one that stopped
(`Lost`); what is paid is what posted vouchers settle, and what requests have begun to
apply (`Extra`). Neither is ever negative, which bounds `paid` from both sides. With
turns (`serial`) nothing is lost, and every document is in the journal and in the
vendor ledger once it is posted, or is the one that the request at work has just
entered (`Booked`).

*Money, `MoneyInv` and `OrderInv`.* The provider only moves on, and an answer or a
webhook under way is something it has said (`Said`); what it has said stays said,
so what is written of it, however late, is true. For the orders: one that is not
recorded is held by a request that will record it or was paid for with a fault,
and once it is recorded no request begins to order again (`OrderBound`).

*Stock, `StockInv`.* A posting holds what it read of the balances (`PostingOK`) and
checked it against zero; a commit that overwrites another leaves a balance that
some request found sufficient. With turns what it read is still so (`Current`), and
a balance moves by what is recorded as its movement.

*Budgets, `BudgetInv`.* Makers of budgets and amounts of commitments never change
(`BudgetsStay`), so an approval by another person and a release within the amount
stay what they were although the statuses around them are overwritten. `EnvelopeKept`
needs of a transfer only that both lines are of one budget, which it has checked and
which never changes: it takes from one term of the sum what it gives to another, and
does so whatever the amounts have become since its check.

*Orders, `OrdersInv`.* An order stands on a requisition that two people signed and on
a reservation, and neither is taken back once a request has read it (`RowsInv`,
`RowsFit`, `Grows`), so a status written late is still justified. An order counts no
invoice that is not in the journal: what it counts and what requests have still to
count is covered by the posted invoices (`MatchesLost`), also after a match was cut
off. With turns `OrderTurn(q)` says how far the request at work is ahead of the rows
of its order: a receipt posted and not yet released, a reservation made and not yet
linked, a line whose actual has taken what its commitment has not yet given up
(`LineTaken`). Goods move a reservation by their worth (`Valued`, `Frees`), and a release
that is refused stays refused, since what a reservation has left only shrinks; so a
receipt that was posted and not received is worth more than is left there (`Refused`),
and a line is overspent by such receipts alone (`WorthRefused`). One of goods that cost
nothing ends at its posting and moves neither.

*Assets, `AssetsInv`.* A month has its entry before its row and a disposal its entry
before its mark, so neither is ever without. With turns and months in order, what a
run read as accumulated is so when it writes, and the journal is ahead of the rows by
the month under way (`MonthsTaken`) or the disposal under way (`DisposalTaken`).

*Receivables, `ReceivablesInv`.* The same with two gaps: entries that owe a row of the
customer ledger (`RowsLost`) and journalled cash that its bill does not show
(`CashLost`). Both are never negative, and zero with turns, when a row is in the
journal once if it is posted or under way (`EnteredOnce`).

*Customer payments, `PaymentsInv`.* Cash is received before the installment is written,
by a request that knows the amount, so an installment never shows more than its cash.
A disbursement has read an approved amount, which is never more than the largest ever
approved (`most`), whatever approval is written over it. With turns the difference is
what the request at work has received and not yet written (`UnderWay`), and likewise of
what a mortgage brought in and says it disbursed (`LentOut`).

*Commissions, `CommissionsInv`.* A plan is stored with bands that were checked: in
order, without a gap and the last one alone open. So one band at most holds a unit,
and a basis one unit larger earns what that band pays more, which carries the sum over
the bands to the sum over the units (by the least basis where they would differ). The
entry of a payout precedes its status. With turns what the request at work read is
still so (`StatusRead`), what the journal has taken is what the status says or is about
to say (`EnteredAsSaid`), and a second active calculation, successor or primary agent
was looked for by that request alone (`OneOfEach`).

*Estate, `SalesInv`.* Without turns (`Recognized`): the handovers that stand on an entry
for a unit (`Claims`) are the completed ones and those of completions that have posted
and not yet written (`Claiming`). The entry is posted in the step that adds one to the
set, so the set never outgrows the entries, although a unit may be recognized by
requests of another kind; and a sale is marked by a request that has posted for its
unit, as a sale never changes its unit. `RowsLinked` and `RequestOK` need no turns
either: a converted reservation has a sale, and an invoice stays one.

`SalesSound` and `HandoverSound` are about states in which nobody is at work, and say
nothing of those in between. `Turn(q)` says it for the one request `q` that is: each
commit finds the rows as the commit before left them (`TurnOK`), except that a conversion
has the unit held twice until its reservation is marked (`Splitting`), a swap has the new
unit held while it still reads available (`Swapping`), and a conversion is not billed
before its last commits (`Billing`). Of revenue, `RevenueOnce(q)` says that a unit has as
many entries as it was sold again after a handover, one more while it is handed over,
and one more between posting and mark (`Marking`); its sales say so as well, except those
that are about to be told (`Telling`) or that a conversion has just added (`Joining`).
The proof uses `SalesAssumption` and `HandoverAssumption`: rows of different tables are
different rows, and handovers are finitely many.

*Property, `PropertyInv`.* That a lease was begun, a retirement approved and a repair
done is never taken back (`Kept`), so what a request read of it holds when it writes,
however late (`RequestOK`). A link is written by a request that has made its bill: the
links and the requests that owe one, counted as a set, are covered by the bills
(`LinksCovered`), also after a request was cut off. Plans that give way do so in the
commit that approves another of their estate, so one stays in force (`LandOK`). `Turn(q)`
is what holds while `q` is the only request: what it read is so, a flat has one tenant and
one lease, an estate one plan, and a facility under maintenance has a request to attend
to, or one that `q` is closing (`Closing`). The three components have no rows in common
(`PropertyAssumption`), so a step of one leaves the parts of the others alone
(`LettingStays`, `LandStays`, `UpkeepStays`) and is argued in its own.

*Money at the bank, `BankInv`.* What a request relies on is never taken back
(`BankKept`): an installment asks for what it did, so a payment that was read to fit
writes no more than fits, even over another; an item keeps its matches, so it may be
flagged; a slot that was imported or left behind stays so, and a watermark is moved
over such slots only (`FeedRequest`), however late. Entries of an item cover its
adjustments and those that requests have posted and not yet matched (`MatchesCovered`).
`BankTurn(q)` is what holds while `q` is the only request: a drawdown still fits, a
schedule still finds no installments, an item is matched once or is the one `q` is
matching (`Matching`), a slot is imported once and those past the watermark not at all
unless `q` has just imported them (`Marking`). That installments ask for no more than
was drawn uses that equal parts add up to their multiple (`EqualParts`).

*Leads and messages, `OutreachInv`.* A reservation that was made for a prospect is not
unmade here, nor are its customers, so a request that comes late to reserve or win is
still right (`LeadRequest`). A job is in the hands of one worker (`JobsApart`) and no
other request uses up its attempts, so it finds something left whenever it goes on
(`NoticeRequest`); messages and reports only grow, which makes a status true that is
written of an old one. With turns, `LeadTurn` and `NoticeTurn` say how far the request at
work is with its row: one job delivers, a message that was taken is that job's and brings
it to its end, and while a notification waits a job is left that is not at its end.

*Intercompany, `DealsInv`.* Entries of a deal that were posted stay posted or are
reversed, so a status written from an old read is still about settled entries; with
turns only the request that creates a pair may find it half made (`Paired`).

### Model-checked only

- *`ENABLED`*: `RetirementTrapsNothing`, hence `NothingTrapped`.
- *Liveness under fairness*: `PaymentsSettle`.
- *Recursive functions over data*: the critical path of `ProjectControls`, hence
  `ProjectsSound`.
- Not attempted: `PeopleSound`.

## Disagreements between code and documentation

Five runs end in a counterexample; PROJECT.json, "findings", quotes the lines.

1. `posting_gap`: the README's gap-free numbering does not survive two posts of
   one entry: both read APPROVED, the second waits for the sequence row, numbers
   the entry again, and the first number is left without an entry.
2. `trial_balance`: only POSTED entries are summed, so the reversed original
   drops out and the reversal stays.
3. `payables_overpaid`: the open balance counts posted vouchers, is compared with
   each allocation alone, and is not compared again at posting.
4. `money_sweep`: the comment on the sweep says that it re-verifies every stale
   transfer; the role of the worker lacks the permission of the endpoint, so every
   call is refused and counted as a failure.
5. `depreciation_twice`: the comment says that a month may be run again without
   posting twice; the entry is posted before the unique row is inserted.

### Seen in the models

What follows was met while modelling: with two requests, a stop between two writes, or
(where it says so) one request after another. The properties are stated so that they say
what remains true; none of these is given a run of its own.

*Ledger and approvals.* A period is locked between the check and the commit of a
posting, or a draft appears in a locked period. A late submit, approve or reject takes
an entry back from a later status. `postSystemEntry` checks the amounts it is given and
stores rounded ones; an entry drafted in mills is approved and then refused by `post`
for good, which keeps its period from being locked (one request). An approval is logged
and not counted; a rejection and a last approval overwrite each other; a request that
stops before `ActivateNext` leaves an instance in progress that no operation accepts.
`resubmit` resets the first stage only, so later stages keep the approvals of the round
before (one request). A last stage of type ARCHIVED ends APPROVED.

*Payables, receivables, intercompany.* A stop between the posting of a voucher and its
last write leaves it APPROVED, and a retry posts it again; an approval from a stale read
does the same to a posted voucher. A deduction of a draft voucher can be remitted (one
request). A pair of drafts loses its link or its mirror; a pair stays RECONCILED after
one entry is reversed.

*Money.* A lost answer marks a transfer FAILED though it may have moved, and the sweep
never looks at FAILED. `verifyTransfer` may rewrite any status, though
`bank-transfer-reconciliation.processor.ts:38-39` calls some terminal.

*Banks.* A timeout after the import makes the next run import the slots again;
overlapping runs move the watermark back; what is older than the lookback is dropped.
`WORKER_SERVICE` lacks `bank_link.manage`, which `mono-linked-account.controller.ts:80`
requires (the model lets the sync through, as for a role that has it). `manualMatch`
does not look whether the journal line is matched, and `autoMatch` only at matches of
its own session.

*Procurement, budgets, treasury, assets.* Approvals of two orders overcommit a line, as
a comment on `approvePurchaseOrder` acknowledges. One request: a receipt dearer than its
order is posted and stocked before `releaseCommitment` refuses it
(`procurement.service.ts:379-411`), so it stays DRAFT, the line is overspent by it, and
the order counts nothing received; a cheaper one leaves part of the reservation for
good, and one at no cost, which `create-grn.dto.ts:23` allows, is saved and then refused
by the posting engine. Orders are of one line in the model; in the code the lines are
reserved one after the other (239-265), so of two on one budget line the second may be
refused when the first is committed, and the order stays DRAFT with a commitment (one
request). Two drawdowns exceed a facility. Months run out of order depreciate too much;
a run that selected an asset as ACTIVE writes so over DISPOSED; an asset with a residual
value is marked FULLY_DEPRECIATED only by the run after.

*Sales and handover.* Concurrent `allocateUnit` and `reserveUnit` sell a unit twice; the
expiry sweep writes EXPIRED over CONVERTED; the handover of a cancelled sale completes;
a snag is added while the completion runs. `recognizeOnHandover` recognizes the revenue
of a unit nobody bought, and `convertReservationToSale` does not look at the unit:
reserve, recognize, convert and complete, one after the other, recognize the revenue of
one unit twice. `scheduleHandover` takes the unit from the request
(`handover.service.ts:30-45`), so completing may recognize and mark a unit that is not
the sale's (one request). A second approval of a mortgage that is late writes another
amount over the one that was disbursed against (`mortgage.service.ts:72-86`), which
leaves more disbursed than approved. A refused reservation leaves the customer created
for the prospect, and the default code of the customer makes the retry fail (one
request).

*Commissions, payroll, people.* `adjust` and `calculate` leave two active calculations,
though `commission-calculation.service.ts:31-33` says at most one; `reverse` posts no
reversing entry; a FIXED tiered plan whose last tier is closed pays nothing beyond it
(one request); a late `suspend` overwrites TERMINATED. A late `calculatePayrollRun`
takes a POSTED run back and it is posted again; other deductions are credited although
net pay is not reduced by them. `approveLeaveRequest` writes ON_LEAVE over a day that
was worked (`leave.service.ts:141-153`, one request). Two approvals deduct one leave
twice; a balance initialised again with fewer carried days is overdrawn; an exit whose
items are all cleared may stay IN_PROGRESS. A later batch of punches overwrites the day,
so "earliest CLOCK_IN and latest CLOCK_OUT" (`attendance.service.ts:171-176`) holds
within one batch only; `markAbsentees` fails as a whole when someone clocks in
meanwhile. `submitManagerReview` and `submitSelfAssessment` do not look at the cycle,
although `performance.service.ts:76` says a closed cycle locks them.

*Recruitment and copies.* `refreshApproval` writes APPROVED over SENT and ACCEPTED, so
an accepted offer can be sent again and the candidate hired twice (one request); a
second send whose provider fails leaves both `envelopeId` and `signatureSyncFailedAt`,
which `offer.service.ts:280-290` calls mutually exclusive, and likewise concurrent
retries in `candidate.service.ts`; a retry with no event id creates an event for a
cancelled interview; a lost answer makes the retry create a second event, contact or
account; a concurrent failed Teams retry leads the next to cancel a live meeting; a
closed requisition is approved again by a late refresh; `withdraw` does not flag an
envelope that could not be voided; a late `schedule` writes INTERVIEW over a later
stage.

*Property.* Renewing an EXPIRED lease ignores another open lease and a FORMER tenant
(one request); a late renewal revives a TERMINATED lease; a rent bill loses its link.
Two approvals leave two master plans in force. `close` sets a facility OPERATIONAL while
other requests are open, and `cancel` never does; a late `recordService` revives a
decommissioned facility; a vendor is billed twice. An action may be added to a closed
incident; `finalizeChecklist` says "any non-compliant item fails the checklist"
(`hse.service.ts:364-369`), while a mix passes with observations (380-388).

*Projects.* Concurrent `addDependency` closes a cycle, though
`scheduling.service.ts:198-199` calls the graph cycle-free; with leads the critical path
may be empty; concurrent bookings overbook a resource, and the check sums all overlaps
instead of the peak; a late `assessRisk` writes over OCCURRED or CLOSED. Each
certificate adds the cumulative retention to what is held, so too much is held (one
request); two drafts certified at once overpay; a valuation may be rejected after its
certificate.

*Messages.* A late `delivered` or `failed` overwrites READ, and SENT does; a failure
after the provider took the message marks FAILED and sends again; a report that comes
before the provider's id is stored matches nothing; a job of a queue that is switched
off is dropped and the notification stays PENDING; e-mail jobs are queued without
attempts.

## Not modelled

- *Web client, shared packages, reporting, dashboards*: no state of their own.
- *Adapters of providers, storage, search, Power BI*: their state is outside the
  repository; what of it handlers rely on is in `MoneyMovements`, `ExternalCopies`,
  `Messages` and `BankReconciliation` (feeds), marked external in PROJECT.json.
- *Authentication, rate limits, scoping*: counters are raised atomically (in Redis or
  by the database), filters are stateless. That a caller may call is assumed
  everywhere but in the sweeps.
- *Tax*: the position is a sum that is read; `remitPeriod` calls the remittance that
  `AccountsPayable` models.
- *Domain events* of the posting and workflow engines: emitted after the commit,
  and nothing in the repository listens.
- *Record keeping*: training, goals, discipline, site records, campaigns, near misses,
  parcels and titles write one row without a check of what else is there.
- Inside modelled parts: creation of master data, wording, descriptions, currencies,
  dates below the month, amounts of tax in invoices.

## Plan

1. A proof of `PeopleSound`, with the invariants its modules need.
2. A composition of `Recruitment` with `WorkflowEngine`: an offer is sent only after
   its instance is approved, with the instance's own stages.
3. Unit sales as an implementation of an abstract unit that is free, held or sold,
   for requests that take turns.

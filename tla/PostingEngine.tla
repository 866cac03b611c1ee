--------------------------- MODULE PostingEngine ---------------------------
(***************************************************************************)
(* The posting engine: journal entries, fiscal periods, the journal number *)
(* sequences, and the requests that work on them.                          *)
(*                                                                         *)
(* A request is a handler of PostingEngineService between two awaits.  Its *)
(* record keeps what it has read and not written yet, so two requests      *)
(* interleave at every database access.  A handler outside a transaction   *)
(* commits each statement on its own.  A transaction (post, reverse,       *)
(* postSystemEntry) runs at READ COMMITTED: it reads committed rows, waits *)
(* for the row of the number sequence from the moment it increments it,    *)
(* and its writes appear together at commit.  A request can be dropped at  *)
(* any point: a validation that throws, a transaction timeout, a deadlock  *)
(* victim, a crash of the process.                                         *)
(***************************************************************************)
EXTENDS JournalLines, ChartOfAccounts, FiniteSets

CONSTANTS
    Entries,    \* bound: the rows of journal_entries
    Periods,    \* the rows fiscal_periods may have: a calendar month of an entity
    EntityOf,   \* the entity of a period
    YearOf,     \* the calendar year of a period
    Users,
    Dtos,       \* the line lists that requests carry
    Requests,   \* bound: requests in flight at once
    None        \* a null column or an absent value

Book(p) == <<EntityOf[p], YearOf[p]>>
Books == {Book(p) : p \in Periods}

LineType == [account : Accounts, debit : Nat, credit : Nat]

ASSUME PeriodAssumption == EntityOf \in [Periods -> Entities]
ASSUME DtoAssumption == Dtos \subseteq Seq(LineType)

VARIABLES
    entry,       \* journal_entries, by row; status "ABSENT" is a free row
    period,      \* FiscalPeriod.status, "ABSENT" before the row is created
    lastNumber,  \* JournalNumberSequence.lastNumber
    audit,       \* JOURNAL_* rows of audit_logs
    lockAudit,   \* PERIOD_LOCKED rows of audit_logs
    req          \* the requests in flight

ledgerVars == <<entry, period, lastNumber, audit, lockAudit>>
vars == <<ledgerVars, req, chartVars>>

Status == {"DRAFT", "PENDING_APPROVAL", "APPROVED", "POSTED", "REVERSED", "REJECTED"}
Unresolved == {"DRAFT", "PENDING_APPROVAL", "APPROVED"}
PeriodStatus == {"OPEN", "LOCKED"}
Origin == {"MANUAL", "SYSTEM", "SYSTEM_REVERSAL"}

ASSUME NoneAssumption == None \notin Entries \cup Users \cup Periods \cup Origin

\* Number 0 is the random DRAFT-<uuid> an entry has until it is posted.
EntryType ==
    [status : Status \cup {"ABSENT"}, number : Nat, period : Periods \cup {None},
     origin : Origin \cup {None}, createdBy : Users \cup {None},
     approvedBy : Users \cup {None}, reversalOf : Entries \cup {None},
     lines : Seq(LineType)]

FreeRow ==
    [status |-> "ABSENT", number |-> 0, period |-> None, origin |-> None,
     createdBy |-> None, approvedBy |-> None, reversalOf |-> None, lines |-> <<>>]

Op == {"draft", "submit", "approve", "reject", "post", "reverse", "system", "lock"}
Step == {"open", "insert", "number", "write", "audit"}

RequestType ==
    [op : Op \cup {"none"}, step : Step \cup {"idle"}, entry : Entries \cup {None},
     user : Users \cup {None}, period : Periods \cup {None}, lines : Seq(LineType),
     opens : BOOLEAN, number : Nat]

Idle ==
    [op |-> "none", step |-> "idle", entry |-> None, user |-> None,
     period |-> None, lines |-> <<>>, opens |-> FALSE, number |-> 0]

AuditType == [book : Books, number : Nat, entry : Entries]

TypeOK ==
    /\ entry \in [Entries -> EntryType]
    /\ period \in [Periods -> PeriodStatus \cup {"ABSENT"}]
    /\ lastNumber \in [Books -> Nat]
    /\ audit \subseteq AuditType
    /\ lockAudit \subseteq Periods
    /\ req \in [Requests -> RequestType]
    /\ ChartTypeOK

Init ==
    /\ entry = [e \in Entries |-> FreeRow]
    /\ period = [p \in Periods |-> "ABSENT"]
    /\ lastNumber = [b \in Books |-> 0]
    /\ audit = {}
    /\ lockAudit = {}
    /\ req = [r \in Requests |-> Idle]
    /\ ChartInit

Exists(e) == entry[e].status # "ABSENT"
Numbered(e) == entry[e].number # 0
BookOf(e) == Book(entry[e].period)

At(r, op, step) == req[r].op = op /\ req[r].step = step

\* The handler r has read what it needs and goes on with request record q.
Begin(r, q) ==
    /\ req[r] = Idle
    /\ req' = [req EXCEPT ![r] = q]
    /\ UNCHANGED <<ledgerVars, chartVars>>

Goto(r, step) == req' = [req EXCEPT ![r].step = step]
Finish(r) == req' = [req EXCEPT ![r] = Idle]

\* Where getOrCreateFiscalPeriod continues: with the row, or by inserting it.
AfterPeriod(p, step) == IF period[p] = "ABSENT" THEN "open" ELSE step

-----------------------------------------------------------------------------
(* getOrCreateFiscalPeriod *)

\* Transactions that have inserted the row of p and not committed it.
Inserters(p) == {r \in Requests : req[r].opens /\ req[r].period = p}

NextStep(op) ==
    CASE op = "draft" -> "write" [] op = "reverse" -> "insert" [] OTHER -> "number"

\* The INSERT of the period row; it waits for an uncommitted insert of the
\* same row, and fails (Drop) on one committed since the read.
OpenPeriod(r) ==
    /\ req[r].step = "open"
    /\ period[req[r].period] = "ABSENT"
    /\ Inserters(req[r].period) = {}
    /\ IF req[r].op = "draft"
       THEN /\ period' = [period EXCEPT ![req[r].period] = "OPEN"]
            /\ Goto(r, "write")
       ELSE /\ req' = [req EXCEPT ![r].step = NextStep(req[r].op), ![r].opens = TRUE]
            /\ UNCHANGED period
    /\ UNCHANGED <<entry, lastNumber, audit, lockAudit, chartVars>>

\* The period rows when the transaction of r commits.
CommittedPeriods(r) ==
    IF req[r].opens THEN [period EXCEPT ![req[r].period] = "OPEN"] ELSE period

-----------------------------------------------------------------------------
(* createDraft, submitForApproval, approve, reject: no transaction *)

BeginDraft(r, user, p, dto) ==
    /\ AssertBalanced(dto)
    /\ AssertNoZeroLines(dto)
    /\ EntityOf[p] \in activeEntities
    /\ period[p] # "LOCKED"
    /\ Begin(r, [Idle EXCEPT !.op = "draft", !.step = AfterPeriod(p, "write"),
                             !.user = user, !.period = p, !.lines = dto])

LinesPostable(entity, lines) ==
    \A account \in AccountsOf(lines) : Postable(entity, account)

InsertDraft(r, e) ==
    /\ At(r, "draft", "write")
    /\ ~Exists(e)
    /\ LinesPostable(EntityOf[req[r].period], req[r].lines)
    /\ entry' = [entry EXCEPT ![e] =
           [FreeRow EXCEPT !.status = "DRAFT", !.period = req[r].period,
                           !.origin = "MANUAL", !.createdBy = req[r].user,
                           !.lines = Stored(req[r].lines)]]
    /\ Finish(r)
    /\ UNCHANGED <<period, lastNumber, audit, lockAudit, chartVars>>

\* Mutated form of BeginChange: the status is not checked.
BeginChangeUnchecked(r, op, e, user, status) ==
    /\ Exists(e)
    /\ Begin(r, [Idle EXCEPT !.op = op, !.step = "write", !.entry = e, !.user = user])

\* The read of a status change: the row, its status, then the update.
BeginChange(r, op, e, user, status) ==
    /\ entry[e].status = status
    /\ Begin(r, [Idle EXCEPT !.op = op, !.step = "write", !.entry = e, !.user = user])

BeginSubmit(r, e) == BeginChange(r, "submit", e, None, "DRAFT")
BeginReject(r, e) == BeginChange(r, "reject", e, None, "PENDING_APPROVAL")

\* Mutated form of BeginApprove: the approver may be the preparer.
BeginApproveSelf(r, e, user) == BeginChange(r, "approve", e, user, "PENDING_APPROVAL")

BeginApprove(r, e, user) ==
    /\ entry[e].createdBy # user
    /\ BeginChange(r, "approve", e, user, "PENDING_APPROVAL")

\* UPDATE ... WHERE id: the status that was read is not part of the condition.
WriteSubmit(r) ==
    /\ At(r, "submit", "write")
    /\ entry' = [entry EXCEPT ![req[r].entry].status = "PENDING_APPROVAL"]
    /\ Finish(r)
    /\ UNCHANGED <<period, lastNumber, audit, lockAudit, chartVars>>

\* Mutated form of WriteReject: a status the schema does not have.
WriteRejectUnknown(r) ==
    /\ At(r, "reject", "write")
    /\ entry' = [entry EXCEPT ![req[r].entry].status = "CANCELLED"]
    /\ Finish(r)
    /\ UNCHANGED <<period, lastNumber, audit, lockAudit, chartVars>>

WriteReject(r) ==
    /\ At(r, "reject", "write")
    /\ entry' = [entry EXCEPT ![req[r].entry].status = "REJECTED"]
    /\ Finish(r)
    /\ UNCHANGED <<period, lastNumber, audit, lockAudit, chartVars>>

WriteApprove(r) ==
    /\ At(r, "approve", "write")
    /\ entry' = [entry EXCEPT ![req[r].entry].status = "APPROVED",
                              ![req[r].entry].approvedBy = req[r].user]
    /\ Finish(r)
    /\ UNCHANGED <<period, lastNumber, audit, lockAudit, chartVars>>

-----------------------------------------------------------------------------
(* The journal number sequence *)

NumberOps == {"post", "reverse", "system"}

\* Transactions holding the sequence row of a book until they end.
Holders(b) ==
    {r \in Requests : req[r].op \in NumberOps /\ req[r].step = "write"
                      /\ Book(req[r].period) = b}

\* Mutated form of TakeNumber: the number is read without the row lock.
TakeNumberUnlocked(r) ==
    /\ req[r].step = "number"
    /\ req[r].op = "system" => LinesPostable(EntityOf[req[r].period], req[r].lines)
    /\ req' = [req EXCEPT ![r].step = "write",
                          ![r].number = lastNumber[Book(req[r].period)] + 1]
    /\ UNCHANGED <<ledgerVars, chartVars>>

\* Mutated form of TakeNumber: the increment commits at once, outside the transaction.
TakeNumberOutside(r) ==
    /\ req[r].step = "number"
    /\ req[r].op = "system" => LinesPostable(EntityOf[req[r].period], req[r].lines)
    /\ LET b == Book(req[r].period)
       IN  /\ req' = [req EXCEPT ![r].step = "write", ![r].number = lastNumber[b] + 1]
           /\ lastNumber' = [lastNumber EXCEPT ![b] = @ + 1]
    /\ UNCHANGED <<entry, period, audit, lockAudit, chartVars>>

\* INSERT ... ON CONFLICT DO UPDATE ... RETURNING "lastNumber".
TakeNumber(r) ==
    /\ req[r].step = "number"
    /\ req[r].op = "system" => LinesPostable(EntityOf[req[r].period], req[r].lines)
    /\ LET b == Book(req[r].period)
       IN  /\ Holders(b) = {}
           /\ req' = [req EXCEPT ![r].step = "write", ![r].number = lastNumber[b] + 1]
    /\ UNCHANGED <<ledgerVars, chartVars>>

\* The sequence row and the audit row at commit; the audit row names entry e.
CommitNumber(r, e) ==
    LET b == Book(req[r].period)
    IN  /\ lastNumber' = [lastNumber EXCEPT ![b] = req[r].number]
        /\ audit' = audit \cup {[book |-> b, number |-> req[r].number, entry |-> e]}

-----------------------------------------------------------------------------
(* post *)

\* Mutated form of BeginPost: the stored lines are not checked again.
BeginPostUnbalanced(r, e, user) ==
    /\ entry[e].status = "APPROVED"
    /\ period[entry[e].period] = "OPEN"
    /\ Begin(r, [Idle EXCEPT !.op = "post", !.step = "number", !.entry = e,
                             !.user = user, !.period = entry[e].period])

BeginPost(r, e, user) ==
    /\ entry[e].status = "APPROVED"
    /\ period[entry[e].period] = "OPEN"
    /\ Balanced(entry[e].lines)
    /\ Begin(r, [Idle EXCEPT !.op = "post", !.step = "number", !.entry = e,
                             !.user = user, !.period = entry[e].period])

\* Transactions that have inserted a reversal of e and not committed it.
Reversers(e) ==
    {r \in Requests : req[r].op = "reverse" /\ req[r].entry = e
                      /\ req[r].step \in {"number", "write"}}

\* The update of the entry row waits for those: it changes a unique column of
\* a row they refer to.
CommitPost(r) ==
    /\ At(r, "post", "write")
    /\ Reversers(req[r].entry) = {}
    /\ entry' = [entry EXCEPT ![req[r].entry].status = "POSTED",
                              ![req[r].entry].number = req[r].number]
    /\ CommitNumber(r, req[r].entry)
    /\ Finish(r)
    /\ UNCHANGED <<period, lockAudit, chartVars>>

-----------------------------------------------------------------------------
(* reverse *)

\* Mutated form of BeginReverse: the original need not be in the ledger.
BeginReverseApproved(r, e, user, p) ==
    /\ entry[e].status \in {"APPROVED", "POSTED"}
    /\ EntityOf[p] = EntityOf[entry[e].period]
    /\ period[p] # "LOCKED"
    /\ Begin(r, [Idle EXCEPT !.op = "reverse", !.step = AfterPeriod(p, "insert"),
                             !.entry = e, !.user = user, !.period = p,
                             !.lines = Swapped(entry[e].lines)])

\* p is the month of today, of the entity of the original.
BeginReverse(r, e, user, p) ==
    /\ entry[e].status = "POSTED"
    /\ EntityOf[p] = EntityOf[entry[e].period]
    /\ period[p] # "LOCKED"
    /\ Begin(r, [Idle EXCEPT !.op = "reverse", !.step = AfterPeriod(p, "insert"),
                             !.entry = e, !.user = user, !.period = p,
                             !.lines = Swapped(entry[e].lines)])

\* The INSERT of the reversal; reversalOfId is unique, so it waits for an
\* uncommitted reversal of the same entry and fails on a committed one.
InsertReversal(r) ==
    /\ At(r, "reverse", "insert")
    /\ Reversers(req[r].entry) = {}
    /\ \A e \in Entries : entry[e].reversalOf # req[r].entry
    /\ Goto(r, "number")
    /\ UNCHANGED <<ledgerVars, chartVars>>

CommitReverse(r, e) ==
    /\ At(r, "reverse", "write")
    /\ ~Exists(e)
    /\ entry' = [entry EXCEPT
           ![e] = [FreeRow EXCEPT !.status = "POSTED", !.number = req[r].number,
                       !.period = req[r].period, !.origin = "SYSTEM_REVERSAL",
                       !.createdBy = req[r].user, !.approvedBy = req[r].user,
                       !.reversalOf = req[r].entry, !.lines = req[r].lines],
           ![req[r].entry].status = "REVERSED"]
    /\ period' = CommittedPeriods(r)
    /\ CommitNumber(r, req[r].entry)
    /\ Finish(r)
    /\ UNCHANGED <<lockAudit, chartVars>>

-----------------------------------------------------------------------------
(* postSystemEntry: posted at once, without draft or approval *)

BeginSystem(r, user, p, dto) ==
    /\ AssertBalanced(dto)
    /\ AssertNoZeroLines(dto)
    /\ EntityOf[p] \in activeEntities
    /\ period[p] # "LOCKED"
    /\ Begin(r, [Idle EXCEPT !.op = "system", !.step = AfterPeriod(p, "number"),
                             !.user = user, !.period = p, !.lines = dto])

CommitSystem(r, e) ==
    /\ At(r, "system", "write")
    /\ ~Exists(e)
    /\ entry' = [entry EXCEPT ![e] =
           [FreeRow EXCEPT !.status = "POSTED", !.number = req[r].number,
                           !.period = req[r].period, !.origin = "SYSTEM",
                           !.createdBy = req[r].user, !.approvedBy = req[r].user,
                           !.lines = Stored(req[r].lines)]]
    /\ period' = CommittedPeriods(r)
    /\ CommitNumber(r, e)
    /\ Finish(r)
    /\ UNCHANGED <<lockAudit, chartVars>>

-----------------------------------------------------------------------------
(* lockPeriod: no transaction *)

\* Mutated form of BeginLock: approved entries do not hold up the lock.
BeginLockApproved(r, p) ==
    /\ period[p] # "ABSENT"
    /\ \A e \in Entries :
        entry[e].period = p => entry[e].status \notin {"DRAFT", "PENDING_APPROVAL"}
    /\ Begin(r, [Idle EXCEPT !.op = "lock", !.step = "write", !.period = p])

BeginLock(r, p) ==
    /\ period[p] # "ABSENT"
    /\ \A e \in Entries : entry[e].period = p => entry[e].status \notin Unresolved
    /\ Begin(r, [Idle EXCEPT !.op = "lock", !.step = "write", !.period = p])

WriteLock(r) ==
    /\ At(r, "lock", "write")
    /\ period' = [period EXCEPT ![req[r].period] = "LOCKED"]
    /\ Goto(r, "audit")
    /\ UNCHANGED <<entry, lastNumber, audit, lockAudit, chartVars>>

AuditLock(r) ==
    /\ At(r, "lock", "audit")
    /\ lockAudit' = lockAudit \cup {req[r].period}
    /\ Finish(r)
    /\ UNCHANGED <<entry, period, lastNumber, audit, chartVars>>

-----------------------------------------------------------------------------
\* The request ends without its next write: an exception, an aborted
\* transaction, a crash.  What it committed stays.
Drop(r) ==
    /\ req[r] # Idle
    /\ Finish(r)
    /\ UNCHANGED <<ledgerVars, chartVars>>

BeginAny(r) ==
    \/ \E user \in Users, p \in Periods, dto \in Dtos :
        BeginDraft(r, user, p, dto) \/ BeginSystem(r, user, p, dto)
    \/ \E e \in Entries :
        \/ BeginSubmit(r, e) \/ BeginReject(r, e)
        \/ \E user \in Users :
            \/ BeginApprove(r, e, user) \/ BeginPost(r, e, user)
            \/ \E p \in Periods : BeginReverse(r, e, user, p)
    \/ \E p \in Periods : BeginLock(r, p)

Continue(r) ==
    \/ OpenPeriod(r) \/ TakeNumber(r) \/ InsertReversal(r)
    \/ WriteSubmit(r) \/ WriteReject(r) \/ WriteApprove(r)
    \/ CommitPost(r) \/ WriteLock(r) \/ AuditLock(r)
    \/ \E e \in Entries :
        InsertDraft(r, e) \/ CommitReverse(r, e) \/ CommitSystem(r, e)

Next ==
    \/ \E r \in Requests : BeginAny(r) \/ Continue(r) \/ Drop(r)
    \/ ChartNext /\ UNCHANGED <<ledgerVars, req>>

Spec == Init /\ [][Next]_vars

-----------------------------------------------------------------------------
(* Properties that hold whatever the requests interleave *)

\* No two entries of a book carry the same journal number, however many
\* postings, reversals and system entries race for the sequence row.
UniqueNumbers ==
    \A e, f \in Entries :
        /\ Numbered(e) /\ Numbered(f)
        /\ BookOf(e) = BookOf(f)
        /\ entry[e].number = entry[f].number
        => e = f

\* The audit row an entry's number has: a reversal is audited under its original.
AuditOf(e) ==
    [book |-> BookOf(e), number |-> entry[e].number,
     entry |-> IF entry[e].reversalOf = None THEN e ELSE entry[e].reversalOf]

\* Every number taken from a sequence is in the audit log exactly once, and
\* every numbered entry is there with its number: the sequence, the entry and
\* the audit row commit together or not at all.
AuditTrail ==
    /\ \A b \in Books : {a.number : a \in {x \in audit : x.book = b}} = 1..lastNumber[b]
    /\ \A a1, a2 \in audit : a1.book = a2.book /\ a1.number = a2.number => a1 = a2
    /\ \A e \in Entries : Numbered(e) => AuditOf(e) \in audit

\* The preparer of a manual entry is never the one who approved it, and an
\* entry that got past approval has an approver, even when approvals,
\* rejections and postings overwrite each other's status.
MakerChecker ==
    \A e \in Entries :
        entry[e].origin = "MANUAL" /\ entry[e].status \in {"APPROVED", "POSTED", "REVERSED"}
        => entry[e].approvedBy \notin {None, entry[e].createdBy}

\* An entry is reversed at most once, by an entry that mirrors its lines and
\* is in the ledger for good; only a posted entry has a reversal, and an entry
\* marked REVERSED has one.
ReversalSound ==
    /\ \A e \in Entries :
        entry[e].reversalOf # None =>
            /\ Numbered(entry[e].reversalOf)
            /\ entry[e].lines = Swapped(entry[entry[e].reversalOf].lines)
            /\ entry[e].status \in {"POSTED", "REVERSED"}
            /\ \A f \in Entries : entry[f].reversalOf = entry[e].reversalOf => f = e
    /\ \A e \in Entries :
        entry[e].status = "REVERSED" => \E f \in Entries : entry[f].reversalOf = e

\* A manual entry in the ledger balances in the amounts the database stored,
\* whatever decimals the request carried.
ManualBalanced ==
    \A e \in Entries :
        Numbered(e) /\ entry[e].origin = "MANUAL" => Balanced(entry[e].lines)

\* The numbers of the audit log are a register in the sense of JournalRegister.
Register == INSTANCE JournalRegister
    WITH Rows <- Entries, issued <- lastNumber, register <- audit

ImplementsRegister == Register!Spec

-----------------------------------------------------------------------------
(* The inductive invariant behind them *)

\* A manual entry somebody other than its preparer approved.
Vetted(e) ==
    entry[e].origin = "MANUAL" => entry[e].approvedBy \notin {None, entry[e].createdBy}

\* What a row of journal_entries looks like whichever request wrote it last.
RowInv ==
    \A e \in Entries :
        /\ ~Exists(e) => entry[e] = FreeRow
        /\ Exists(e) => entry[e].period \in Periods /\ entry[e].origin \in Origin
        /\ Exists(e) /\ entry[e].origin # "MANUAL" => entry[e].status \in {"POSTED", "REVERSED"}
        /\ entry[e].status \in {"POSTED", "REVERSED"} => Numbered(e)
        /\ entry[e].reversalOf # None => entry[e].origin = "SYSTEM_REVERSAL"
        /\ Numbered(e) => entry[e].number <= lastNumber[BookOf(e)]

\* What a request in flight has read, and still holds when it writes.
EntryOps == {"submit", "approve", "reject", "post"}
RequestOK(q) ==
    /\ q.op \in EntryOps => q.entry \in Entries /\ entry[q.entry].origin = "MANUAL"
    /\ q.op \in {"submit", "approve", "reject"} => q.step = "write"
    /\ q.op = "approve" => q.user \in Users /\ q.user # entry[q.entry].createdBy
    /\ q.op = "post" => /\ q.period = entry[q.entry].period
                        /\ Balanced(entry[q.entry].lines)
    /\ q.op = "reverse" => /\ q.entry \in Entries
                           /\ Numbered(q.entry)
                           /\ q.lines = Swapped(entry[q.entry].lines)
    /\ q.op \in {"post", "reverse"} => Vetted(q.entry)
    /\ q.op \in {"draft", "post", "reverse", "system", "lock"} => q.period \in Periods
    /\ q.step = "open" => q.op \in {"draft", "reverse", "system"}
    /\ q.step = "number" => q.op \in NumberOps

RequestInv == \A r \in Requests : RequestOK(req[r])

\* One transaction at a time has the sequence row of a book, with the next number.
SequenceInv ==
    \A b \in Books : \A r \in Holders(b) :
        /\ req[r].number = lastNumber[b] + 1
        /\ \A s \in Holders(b) : s = r

\* One transaction at a time is reversing an entry, and only the first ever.
ReverserInv ==
    \A e \in Entries : \A r \in Reversers(e) :
        /\ \A s \in Reversers(e) : s = r
        /\ \A f \in Entries : entry[f].reversalOf # e

IInv ==
    /\ TypeOK /\ RowInv /\ RequestInv /\ SequenceInv /\ ReverserInv
    /\ UniqueNumbers /\ AuditTrail /\ MakerChecker /\ ReversalSound /\ ManualBalanced

-----------------------------------------------------------------------------
(* Properties of the documentation that need the requests to take turns *)

\* Gap-free numbering: the entries of a book carry all the numbers issued.
GapFree ==
    \A b \in Books :
        {entry[e].number : e \in {f \in Entries : Numbered(f) /\ BookOf(f) = b}}
            = 1..lastNumber[b]

\* A locked period holds no entry that is still to be posted or rejected.
LockedSettled ==
    \A e \in Entries :
        Exists(e) /\ period[entry[e].period] = "LOCKED" => entry[e].status \notin Unresolved

\* The status changes the operations are documented to make.
Documented ==
    {<<"ABSENT", "DRAFT">>, <<"DRAFT", "PENDING_APPROVAL">>,
     <<"PENDING_APPROVAL", "APPROVED">>, <<"PENDING_APPROVAL", "REJECTED">>,
     <<"APPROVED", "POSTED">>, <<"POSTED", "REVERSED">>, <<"ABSENT", "POSTED">>}

\* The ledger only grows: an entry goes the documented way through its statuses,
\* enters the ledger in an open period only, and keeps its number and its lines
\* from then on.
LedgerOnlyGrows ==
    [][\A e \in Entries :
        /\ entry'[e].status # entry[e].status
            => <<entry[e].status, entry'[e].status>> \in Documented
        /\ entry'[e].number # entry[e].number => period'[entry'[e].period] = "OPEN"
        /\ Numbered(e) => /\ entry'[e].number = entry[e].number
                          /\ entry'[e].lines = entry[e].lines]_vars

\* Retiring an account or an entity traps no entry: what is approved can still
\* be posted if it balances as stored (it cannot be rejected any more, and would
\* hold up the lock of its period for good), and what is posted reversed.
RetirementTrapsNothing ==
    (\A r \in Requests : req[r] = Idle) => \A e \in Entries :
        /\ entry[e].status = "APPROVED" /\ period[entry[e].period] = "OPEN" /\ Balanced(entry[e].lines)
            => ENABLED \E r \in Requests, user \in Users : BeginPost(r, e, user)
        /\ entry[e].status = "POSTED"
            => \A p \in Periods :
                EntityOf[p] = EntityOf[entry[e].period] /\ period[p] = "OPEN"
                => ENABLED \E r \in Requests, user \in Users : BeginReverse(r, e, user, p)

\* No entry is ever stuck: neither locking a period nor retiring an account or an
\* entity takes the last way out from it.
NothingTrapped == LockedSettled /\ RetirementTrapsNothing

-----------------------------------------------------------------------------
(* The trial balance, read by getTrialBalance and the consolidation *)

SumOver(S, f(_)) == SumFunction([x \in S |-> f(x)])

TrialBalance(entity, account) ==
    LET posted == {e \in Entries : entry[e].status = "POSTED" /\ EntityOf[entry[e].period] = entity}
    IN  SumOver(posted, LAMBDA e : NetOn(entry[e].lines, account))

\* An entry and its reversal cancel out: the trial balance is that of all the
\* entries in the ledger, the reversed ones being posted history.
ReversalNetsToZero ==
    \A entity \in Entities, account \in Accounts :
        LET history == {e \in Entries : Numbered(e) /\ EntityOf[entry[e].period] = entity}
        IN  TrialBalance(entity, account)
                = SumOver(history, LAMBDA e : NetOn(entry[e].lines, account))
=============================================================================

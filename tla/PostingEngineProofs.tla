------------------------ MODULE PostingEngineProofs ------------------------
(***************************************************************************)
(* Proofs about PostingEngine, for any number of entries, periods, users   *)
(* and concurrent requests.                                                *)
(***************************************************************************)
EXTENDS PostingEngine, SequenceTheorems, TLAPS

-----------------------------------------------------------------------------
(* Journal lines *)

\* A list built line by line over another list is a list of lines.
LEMMA MapLines ==
    ASSUME NEW lines \in Seq(LineType), NEW g,
           g = [i \in DOMAIN lines |-> g[i]],
           \A i \in DOMAIN lines : g[i] \in LineType
    PROVE  g \in Seq(LineType)
<1>1. DOMAIN lines = 1..Len(lines) /\ Len(lines) \in Nat
  OBVIOUS
<1>2. g \in [1..Len(lines) -> LineType]
  BY <1>1
<1> QED  BY <1>1, <1>2, SeqDef

\* Rounding to cents keeps an amount a natural number.
LEMMA RoundToCentNat ==
    ASSUME NEW x \in Nat
    PROVE  RoundToCent(x) \in Nat
BY DEF RoundToCent, MillsPerCent

\* The database stores a list of lines.
LEMMA StoredLines ==
    ASSUME NEW lines \in Seq(LineType)
    PROVE  Stored(lines) \in Seq(LineType)
<1> DEFINE g == Stored(lines)
<1>1. ASSUME NEW i \in DOMAIN lines
      PROVE  g[i] \in LineType
  <2>1. lines[i] \in LineType
    BY <1>1
  <2> QED  BY <2>1, RoundToCentNat DEF Stored, Line, LineType
<1>2. g = [i \in DOMAIN lines |-> g[i]]
  BY DEF Stored
<1> HIDE DEF g
<1>3. g \in Seq(LineType)
  BY <1>1, <1>2, MapLines
<1> QED  BY <1>3 DEF g

\* A reversal has a list of lines.
LEMMA SwappedLines ==
    ASSUME NEW lines \in Seq(LineType)
    PROVE  Swapped(lines) \in Seq(LineType)
<1> DEFINE g == Swapped(lines)
<1>1. ASSUME NEW i \in DOMAIN lines
      PROVE  g[i] \in LineType
  <2>1. lines[i] \in LineType
    BY <1>1
  <2> QED  BY <2>1 DEF Swapped, Line, LineType
<1>2. g = [i \in DOMAIN lines |-> g[i]]
  BY DEF Swapped
<1> HIDE DEF g
<1>3. g \in Seq(LineType)
  BY <1>1, <1>2, MapLines
<1> QED  BY <1>3 DEF g

-----------------------------------------------------------------------------
(* Type correctness *)

LEMMA InitType == Init => TypeOK
<1> SUFFICES ASSUME Init PROVE TypeOK
  OBVIOUS
<1>1. FreeRow \in EntryType
  BY DEF FreeRow, EntryType
<1>2. Idle \in RequestType
  BY DEF Idle, RequestType
<1> QED  BY <1>1, <1>2 DEF Init, TypeOK, ChartInit, ChartTypeOK

\* A handler that begins puts a well-typed record in req.
LEMMA BeginType ==
    ASSUME TypeOK, NEW r \in Requests, BeginAny(r)
    PROVE  TypeOK'
<1> USE DEF TypeOK, RequestType, Op, Step, EntryType, Idle, Begin, ledgerVars, chartVars,
            ChartTypeOK
<1>1. ASSUME NEW q \in RequestType, Begin(r, q) PROVE TypeOK'
  BY <1>1
<1>2. ASSUME NEW user \in Users, NEW p \in Periods, NEW dto \in Dtos, BeginDraft(r, user, p, dto)
      PROVE  TypeOK'
  <2>1. dto \in Seq(LineType)
    BY DtoAssumption
  <2>2. [Idle EXCEPT !.op = "draft", !.step = AfterPeriod(p, "write"),
                     !.user = user, !.period = p, !.lines = dto] \in RequestType
    BY <2>1 DEF AfterPeriod
  <2> QED  BY <1>1, <1>2, <2>2 DEF BeginDraft
<1>3. ASSUME NEW user \in Users, NEW p \in Periods, NEW dto \in Dtos, BeginSystem(r, user, p, dto)
      PROVE  TypeOK'
  <2>1. dto \in Seq(LineType)
    BY DtoAssumption
  <2>2. [Idle EXCEPT !.op = "system", !.step = AfterPeriod(p, "number"),
                     !.user = user, !.period = p, !.lines = dto] \in RequestType
    BY <2>1 DEF AfterPeriod
  <2> QED  BY <1>1, <1>3, <2>2 DEF BeginSystem
<1>4. ASSUME NEW e \in Entries, BeginSubmit(r, e) PROVE TypeOK'
  BY <1>1, <1>4 DEF BeginSubmit, BeginChange
<1>5. ASSUME NEW e \in Entries, BeginReject(r, e) PROVE TypeOK'
  BY <1>1, <1>5 DEF BeginReject, BeginChange
<1>6. ASSUME NEW e \in Entries, NEW user \in Users, BeginApprove(r, e, user) PROVE TypeOK'
  BY <1>1, <1>6 DEF BeginApprove, BeginChange
<1>7. ASSUME NEW e \in Entries, NEW user \in Users, BeginPost(r, e, user) PROVE TypeOK'
  BY <1>1, <1>7 DEF BeginPost
<1>8. ASSUME NEW e \in Entries, NEW user \in Users, NEW p \in Periods,
             BeginReverse(r, e, user, p)
      PROVE  TypeOK'
  <2>1. Swapped(entry[e].lines) \in Seq(LineType)
    BY SwappedLines
  <2>2. [Idle EXCEPT !.op = "reverse", !.step = AfterPeriod(p, "insert"), !.entry = e,
                     !.user = user, !.period = p, !.lines = Swapped(entry[e].lines)]
            \in RequestType
    BY <2>1 DEF AfterPeriod
  <2> QED  BY <1>1, <1>8, <2>2 DEF BeginReverse
<1>9. ASSUME NEW p \in Periods, BeginLock(r, p) PROVE TypeOK'
  BY <1>1, <1>9 DEF BeginLock
<1> QED  BY <1>2, <1>3, <1>4, <1>5, <1>6, <1>7, <1>8, <1>9 DEF BeginAny

\* The numbers and the audit row a commit writes are well typed.
LEMMA CommitNumberType ==
    ASSUME TypeOK, NEW r \in Requests, NEW e \in Entries, req[r].period \in Periods,
           CommitNumber(r, e)
    PROVE  /\ lastNumber' \in [Books -> Nat]
           /\ audit' \subseteq AuditType
<1>1. Book(req[r].period) \in Books
  BY DEF Books
<1>2. req[r].number \in Nat
  BY DEF TypeOK, RequestType
<1> HIDE DEF Book
<1> QED  BY <1>1, <1>2 DEF CommitNumber, TypeOK, AuditType

\* A request record stays one when its step, its flag or its number changes.
LEMMA RequestUpdate ==
    ASSUME req \in [Requests -> RequestType], NEW r \in Requests,
           NEW step \in Step, NEW opens \in BOOLEAN, NEW number \in Nat
    PROVE  /\ [req EXCEPT ![r].step = step] \in [Requests -> RequestType]
           /\ [req EXCEPT ![r].step = step, ![r].opens = opens] \in [Requests -> RequestType]
           /\ [req EXCEPT ![r].step = step, ![r].number = number] \in [Requests -> RequestType]
           /\ [req EXCEPT ![r] = Idle] \in [Requests -> RequestType]
<1>1. req[r] \in RequestType
  OBVIOUS
<1>2. [req[r] EXCEPT !.step = step] \in RequestType
  BY <1>1 DEF RequestType
<1>3. [req[r] EXCEPT !.step = step, !.opens = opens] \in RequestType
  BY <1>1 DEF RequestType
<1>4. [req[r] EXCEPT !.step = step, !.number = number] \in RequestType
  BY <1>1 DEF RequestType
<1>5. Idle \in RequestType
  BY DEF RequestType, Idle
<1> QED  BY <1>2, <1>3, <1>4, <1>5

\* An entry row stays one when its status, its approver or its number changes.
LEMMA EntryUpdate ==
    ASSUME entry \in [Entries -> EntryType], NEW e,
           NEW status \in Status, NEW user \in Users \cup {None}, NEW number \in Nat
    PROVE  /\ [entry EXCEPT ![e].status = status] \in [Entries -> EntryType]
           /\ [entry EXCEPT ![e].status = status, ![e].approvedBy = user]
                  \in [Entries -> EntryType]
           /\ [entry EXCEPT ![e].status = status, ![e].number = number]
                  \in [Entries -> EntryType]
<1>1. CASE e \notin Entries
  BY <1>1
<1>2. CASE e \in Entries
  <2>1. entry[e] \in EntryType
    BY <1>2
  <2>2. [entry[e] EXCEPT !.status = status] \in EntryType
    BY <2>1 DEF EntryType
  <2>3. [entry[e] EXCEPT !.status = status, !.approvedBy = user] \in EntryType
    BY <2>1 DEF EntryType
  <2>4. [entry[e] EXCEPT !.status = status, !.number = number] \in EntryType
    BY <2>1 DEF EntryType
  <2> QED  BY <1>2, <2>2, <2>3, <2>4
<1> QED  BY <1>1, <1>2

LEMMA ContinueType ==
    ASSUME TypeOK, RequestInv, NEW r \in Requests, Continue(r)
    PROVE  TypeOK'
<1> USE DEF TypeOK, Goto, Finish, ledgerVars, chartVars, ChartTypeOK, At
<1>a. req[r] \in RequestType
  OBVIOUS
<1>1. CASE OpenPeriod(r)
  <2>1. NextStep(req[r].op) \in Step /\ "write" \in Step
    BY DEF NextStep, Step
  <2>2. /\ [req EXCEPT ![r].step = "write"] \in [Requests -> RequestType]
        /\ [req EXCEPT ![r].step = NextStep(req[r].op), ![r].opens = TRUE]
               \in [Requests -> RequestType]
    <3>1. TRUE \in BOOLEAN /\ 0 \in Nat
      OBVIOUS
    <3> QED  BY <2>1, <3>1, RequestUpdate
  <2>2a. req' \in [Requests -> RequestType]
    BY <1>1, <2>2 DEF OpenPeriod
  <2>3. period' \in [Periods -> PeriodStatus \cup {"ABSENT"}]
    BY <1>1 DEF OpenPeriod, PeriodStatus
  <2> QED  BY <1>1, <2>2a, <2>3 DEF OpenPeriod
<1>2. CASE TakeNumber(r)
  <2>1. Book(req[r].period) \in Books
    BY <1>2 DEF TakeNumber, RequestInv, RequestOK, NumberOps, Books
  <2>2. lastNumber[Book(req[r].period)] + 1 \in Nat /\ "write" \in Step
    BY <2>1 DEF Step
  <2>3. req' \in [Requests -> RequestType]
    BY ZenonT(40), <1>2, <2>2, RequestUpdate DEF TakeNumber
  <2> QED  BY <1>2, <2>3 DEF TakeNumber
<1>3. CASE InsertReversal(r)
  <2>1. req' \in [Requests -> RequestType]
    BY <1>3, RequestUpdate DEF InsertReversal, Step
  <2> QED  BY <1>3, <2>1 DEF InsertReversal
<1>b. [req EXCEPT ![r] = Idle] \in [Requests -> RequestType]
  BY DEF RequestType, Idle
<1>4. CASE WriteSubmit(r)
  <2>1. entry' \in [Entries -> EntryType]
    BY <1>4, EntryUpdate DEF WriteSubmit, Status
  <2> QED  BY <1>4, <1>b, <2>1 DEF WriteSubmit
<1>5. CASE WriteReject(r)
  <2>1. entry' \in [Entries -> EntryType]
    BY <1>5, EntryUpdate DEF WriteReject, Status
  <2> QED  BY <1>5, <1>b, <2>1 DEF WriteReject
<1>6. CASE WriteApprove(r)
  <2>1. req[r].user \in Users \cup {None}
    BY <1>a DEF RequestType
  <2>2. "APPROVED" \in Status /\ 0 \in Nat
    BY DEF Status
  <2>3. [entry EXCEPT ![req[r].entry].status = "APPROVED",
                      ![req[r].entry].approvedBy = req[r].user] \in [Entries -> EntryType]
    BY <2>1, <2>2, EntryUpdate
  <2> QED  BY <1>6, <1>b, <2>3 DEF WriteApprove
<1>7. CASE CommitPost(r)
  <2>1. req[r].entry \in Entries /\ req[r].period \in Periods
    BY <1>7 DEF CommitPost, RequestInv, RequestOK, EntryOps
  <2>2. lastNumber' \in [Books -> Nat] /\ audit' \subseteq AuditType
    BY <1>7, <2>1, CommitNumberType DEF CommitPost
  <2>3. req[r].number \in Nat
    BY <1>a DEF RequestType
  <2>4. "POSTED" \in Status /\ None \in Users \cup {None}
    BY DEF Status
  <2>5. [entry EXCEPT ![req[r].entry].status = "POSTED",
                      ![req[r].entry].number = req[r].number] \in [Entries -> EntryType]
    BY <2>3, <2>4, EntryUpdate
  <2> QED  BY <1>7, <1>b, <2>2, <2>5 DEF CommitPost
<1>8. CASE WriteLock(r)
  <2>1. req' \in [Requests -> RequestType]
    BY <1>8, RequestUpdate DEF WriteLock, Step
  <2>2. period' \in [Periods -> PeriodStatus \cup {"ABSENT"}]
    BY <1>8 DEF WriteLock, PeriodStatus
  <2> QED  BY <1>8, <2>1, <2>2 DEF WriteLock
<1>9. CASE AuditLock(r)
  BY <1>9, <1>b DEF AuditLock, RequestInv, RequestOK
<1>c. CommittedPeriods(r) \in [Periods -> PeriodStatus \cup {"ABSENT"}]
  BY DEF CommittedPeriods, PeriodStatus
<1>10. ASSUME NEW e \in Entries, InsertDraft(r, e) PROVE TypeOK'
  <2>1. Stored(req[r].lines) \in Seq(LineType)
    BY <1>a, StoredLines DEF RequestType
  <2>2. [FreeRow EXCEPT !.status = "DRAFT", !.period = req[r].period,
                        !.origin = "MANUAL", !.createdBy = req[r].user,
                        !.lines = Stored(req[r].lines)] \in EntryType
    BY <1>a, <2>1 DEF RequestType, EntryType, FreeRow, Status, Origin
  <2> QED  BY <1>10, <1>b, <2>2 DEF InsertDraft
<1>11. ASSUME NEW e \in Entries, CommitReverse(r, e) PROVE TypeOK'
  <2>1. req[r].entry \in Entries /\ req[r].period \in Periods
    BY <1>11 DEF CommitReverse, RequestInv, RequestOK
  <2>2. lastNumber' \in [Books -> Nat] /\ audit' \subseteq AuditType
    BY <1>11, <2>1, CommitNumberType DEF CommitReverse
  <2> DEFINE row == [FreeRow EXCEPT !.status = "POSTED", !.number = req[r].number,
                       !.period = req[r].period, !.origin = "SYSTEM_REVERSAL",
                       !.createdBy = req[r].user, !.approvedBy = req[r].user,
                       !.reversalOf = req[r].entry, !.lines = req[r].lines]
  <2> DEFINE mid == [entry EXCEPT ![e] = row]
  <2>3. row \in EntryType
    BY <1>a DEF RequestType, EntryType, FreeRow, Status, Origin
  <2>4. mid \in [Entries -> EntryType]
    BY <2>3
  <2>5. mid[req[r].entry] \in EntryType
    BY <2>1, <2>4
  <2>6. [mid[req[r].entry] EXCEPT !.status = "REVERSED"] \in EntryType
    BY <2>5 DEF EntryType, Status
  <2>7. entry' = [mid EXCEPT ![req[r].entry] = [mid[req[r].entry] EXCEPT !.status = "REVERSED"]]
    BY <1>11, <2>1, <2>4 DEF CommitReverse
  <2> HIDE DEF mid, row
  <2>8. entry' \in [Entries -> EntryType]
    BY <2>4, <2>6, <2>7
  <2> QED  BY <1>11, <1>b, <1>c, <2>2, <2>8 DEF CommitReverse
<1>12. ASSUME NEW e \in Entries, CommitSystem(r, e) PROVE TypeOK'
  <2>1. req[r].period \in Periods
    BY <1>12 DEF CommitSystem, RequestInv, RequestOK
  <2>2. lastNumber' \in [Books -> Nat] /\ audit' \subseteq AuditType
    BY <1>12, <2>1, CommitNumberType DEF CommitSystem
  <2>3. Stored(req[r].lines) \in Seq(LineType)
    BY <1>a, StoredLines DEF RequestType
  <2>4. [FreeRow EXCEPT !.status = "POSTED", !.number = req[r].number,
                        !.period = req[r].period, !.origin = "SYSTEM",
                        !.createdBy = req[r].user, !.approvedBy = req[r].user,
                        !.lines = Stored(req[r].lines)] \in EntryType
    BY <1>a, <2>3 DEF RequestType, EntryType, FreeRow, Status, Origin
  <2> QED  BY <1>12, <1>b, <1>c, <2>2, <2>4 DEF CommitSystem
<1> QED
  BY <1>1, <1>2, <1>3, <1>4, <1>5, <1>6, <1>7, <1>8, <1>9, <1>10, <1>11, <1>12 DEF Continue

LEMMA NextType ==
    ASSUME TypeOK, RequestInv, [Next]_vars
    PROVE  TypeOK'
<1>1. ASSUME NEW r \in Requests, BeginAny(r) PROVE TypeOK'
  BY <1>1, BeginType
<1>2. ASSUME NEW r \in Requests, Continue(r) PROVE TypeOK'
  BY <1>2, ContinueType
<1>3. ASSUME NEW r \in Requests, Drop(r) PROVE TypeOK'
  BY <1>3 DEF Drop, Finish, TypeOK, RequestType, Idle, ledgerVars, chartVars, ChartTypeOK
<1>4. CASE ChartNext /\ UNCHANGED <<ledgerVars, req>>
  BY <1>4 DEF ChartNext, DeactivateAccount, ActivateForEntity, DeactivateForEntity,
              DeactivateEntity, TypeOK, ChartTypeOK, ledgerVars
<1>5. CASE UNCHANGED vars
  BY <1>5 DEF vars, TypeOK, ChartTypeOK, ledgerVars, chartVars
<1> QED  BY <1>1, <1>2, <1>3, <1>4, <1>5 DEF Next

-----------------------------------------------------------------------------
(* The initial states *)

LEMMA InitInv == Init => IInv
<1> SUFFICES ASSUME Init PROVE IInv
  OBVIOUS
<1>1. TypeOK
  BY InitType
<1>2. \A e \in Entries : entry[e] = FreeRow
  BY DEF Init
<1>3. \A e \in Entries : ~Exists(e) /\ ~Numbered(e) /\ entry[e].reversalOf = None
                         /\ entry[e].status = "ABSENT" /\ entry[e].origin = None
  BY <1>2 DEF FreeRow, Exists, Numbered
<1>4. \A r \in Requests : req[r].op = "none" /\ req[r].step = "idle"
  BY DEF Init, Idle
<1>5. RowInv
  BY <1>2, <1>3 DEF RowInv
<1>6. RequestInv
  BY <1>4 DEF RequestInv, RequestOK, EntryOps
<1>7. SequenceInv
  BY <1>4 DEF SequenceInv, Holders, NumberOps
<1>8. ReverserInv
  BY <1>4 DEF ReverserInv, Reversers
<1>9. AuditTrail
  <2>1. \A b \in Books : lastNumber[b] = 0 /\ audit = {}
    BY DEF Init
  <2>2. 1..0 = {}
    OBVIOUS
  <2> QED  BY <1>3, <2>1, <2>2 DEF AuditTrail, Init
<1>10. UniqueNumbers /\ ReversalSound /\ ManualBalanced
  BY <1>3 DEF UniqueNumbers, ReversalSound, ManualBalanced
<1>11. MakerChecker
  BY <1>3 DEF MakerChecker
<1> QED  BY <1>1, <1>5, <1>6, <1>7, <1>8, <1>9, <1>10, <1>11 DEF IInv

-----------------------------------------------------------------------------
(* What a step leaves alone *)

\* The part of the inductive invariant that speaks of the ledger only.
LedgerInv ==
    /\ RowInv /\ UniqueNumbers /\ AuditTrail /\ MakerChecker /\ ReversalSound
    /\ ManualBalanced

\* The part that speaks of the requests in flight.
FlightInv == RequestInv /\ SequenceInv /\ ReverserInv

LEMMA LedgerQuiet ==
    ASSUME LedgerInv, UNCHANGED <<entry, lastNumber, audit>>
    PROVE  LedgerInv'
<1>1. RowInv'
  BY DEF LedgerInv, RowInv, Exists, Numbered, BookOf
<1>2. UniqueNumbers'
  BY DEF LedgerInv, UniqueNumbers, Numbered, BookOf
<1>3. AuditTrail'
  BY DEF LedgerInv, AuditTrail, AuditOf, Numbered, BookOf
<1>4. MakerChecker'
  BY DEF LedgerInv, MakerChecker
<1>5. ReversalSound'
  BY DEF LedgerInv, ReversalSound, Numbered
<1>6. ManualBalanced'
  BY DEF LedgerInv, ManualBalanced, Numbered
<1> QED  BY <1>1, <1>2, <1>3, <1>4, <1>5, <1>6 DEF LedgerInv

\* What every step keeps of an existing row.
Stable ==
    \A e \in Entries : Exists(e) =>
        /\ entry'[e].origin = entry[e].origin
        /\ entry'[e].createdBy = entry[e].createdBy
        /\ entry'[e].period = entry[e].period
        /\ entry'[e].lines = entry[e].lines
        /\ entry'[e].reversalOf = entry[e].reversalOf
        /\ Numbered(e) => Numbered(e)'
        /\ Vetted(e) => Vetted(e)'

\* A request that does nothing keeps what it knows.
LEMMA RequestKept ==
    ASSUME RowInv, Stable, NEW s \in Requests, RequestOK(req[s]), req'[s] = req[s]
    PROVE  RequestOK(req[s])'
<1>1. \A e \in Entries : entry[e].origin = "MANUAL" \/ Numbered(e) => Exists(e)
  BY NoneAssumption DEF RowInv, FreeRow, Numbered, Origin
<1> DEFINE q == req[s]
<1>2. CASE q.op \in EntryOps
  <2>1. q.entry \in Entries /\ Exists(q.entry)
    BY <1>1, <1>2 DEF RequestOK
  <2> QED  BY <1>2, <2>1 DEF RequestOK, Stable, EntryOps
<1>3. CASE q.op = "reverse"
  <2>1. q.entry \in Entries /\ Exists(q.entry)
    BY <1>1, <1>3 DEF RequestOK
  <2> QED  BY <1>3, <2>1 DEF RequestOK, Stable, EntryOps
<1>4. CASE q.op \notin EntryOps \cup {"reverse"}
  BY <1>4 DEF RequestOK, EntryOps
<1> QED  BY <1>2, <1>3, <1>4

LEMMA QuietStable ==
    ASSUME UNCHANGED entry
    PROVE  Stable
BY DEF Stable, Numbered, Vetted

-----------------------------------------------------------------------------
(* A handler that begins *)

LEMMA BeginKeeps ==
    ASSUME IInv, NEW r \in Requests, NEW q, Begin(r, q), RequestOK(q),
           q.op \in NumberOps => q.step # "write",
           q.op = "reverse" => q.step \notin {"number", "write"}
    PROVE  LedgerInv' /\ FlightInv'
<1>1. UNCHANGED <<entry, lastNumber, audit>>
  BY DEF Begin, ledgerVars
<1>2. req'[r] = q /\ \A s \in Requests \ {r} : req'[s] = req[s]
  BY DEF Begin, IInv, TypeOK
<1>3. LedgerInv'
  BY <1>1, LedgerQuiet DEF IInv, LedgerInv
<1>4. Stable
  BY <1>1, QuietStable
<1>5. RequestInv'
  <2>1. \A s \in Requests \ {r} : RequestOK(req[s])'
    BY <1>2, <1>4, RequestKept DEF IInv, RequestInv
  <2>2. RequestOK(req[r])'
    BY <1>1, <1>2 DEF RequestOK, Numbered, Vetted
  <2> QED  BY <2>1, <2>2 DEF RequestInv
<1>6. SequenceInv'
  <2>1. \A b \in Books : Holders(b)' \subseteq Holders(b)
    BY <1>2 DEF Holders, NumberOps
  <2>2. \A b \in Books : \A s \in Holders(b)' : req'[s] = req[s]
    BY <1>2 DEF Holders, NumberOps
  <2> QED  BY <1>1, <2>1, <2>2 DEF SequenceInv, IInv
<1>7. ReverserInv'
  <2>1. \A e \in Entries : Reversers(e)' \subseteq Reversers(e)
    BY <1>2 DEF Reversers, NumberOps
  <2> QED  BY <1>1, <2>1 DEF ReverserInv, IInv
<1> QED  BY <1>3, <1>5, <1>6, <1>7 DEF FlightInv

LEMMA BeginInv ==
    ASSUME IInv, NEW r \in Requests, BeginAny(r)
    PROVE  LedgerInv' /\ FlightInv'
<1> USE DEF NumberOps, EntryOps
<1>1. ASSUME NEW user \in Users, NEW p \in Periods, NEW dto \in Dtos, BeginDraft(r, user, p, dto)
      PROVE  LedgerInv' /\ FlightInv'
  <2> DEFINE q == [Idle EXCEPT !.op = "draft", !.step = AfterPeriod(p, "write"),
                               !.user = user, !.period = p, !.lines = dto]
  <2>1. RequestOK(q) /\ q.op = "draft"
    BY DEF RequestOK, Idle, AfterPeriod
  <2> QED  BY <1>1, <2>1, BeginKeeps DEF BeginDraft
<1>2. ASSUME NEW user \in Users, NEW p \in Periods, NEW dto \in Dtos, BeginSystem(r, user, p, dto)
      PROVE  LedgerInv' /\ FlightInv'
  <2> DEFINE q == [Idle EXCEPT !.op = "system", !.step = AfterPeriod(p, "number"),
                               !.user = user, !.period = p, !.lines = dto]
  <2>1. RequestOK(q) /\ q.op = "system" /\ q.step \in {"open", "number"}
    BY DEF RequestOK, Idle, AfterPeriod
  <2>2. Begin(r, q)
    BY <1>2 DEF BeginSystem
  <2> HIDE DEF q
  <2> QED  BY <2>1, <2>2, BeginKeeps
<1>3. \A e \in Entries :
          entry[e].status \in {"DRAFT", "PENDING_APPROVAL", "APPROVED"}
          => entry[e].origin = "MANUAL" /\ Exists(e)
  BY DEF IInv, RowInv, Exists, Origin
<1>4. ASSUME NEW e \in Entries, BeginSubmit(r, e) PROVE LedgerInv' /\ FlightInv'
  <2> DEFINE q == [Idle EXCEPT !.op = "submit", !.step = "write", !.entry = e, !.user = None]
  <2>1. RequestOK(q) /\ q.op = "submit"
    BY <1>3, <1>4 DEF RequestOK, Idle, BeginSubmit, BeginChange
  <2> QED  BY <1>4, <2>1, BeginKeeps DEF BeginSubmit, BeginChange
<1>5. ASSUME NEW e \in Entries, BeginReject(r, e) PROVE LedgerInv' /\ FlightInv'
  <2> DEFINE q == [Idle EXCEPT !.op = "reject", !.step = "write", !.entry = e, !.user = None]
  <2>1. RequestOK(q) /\ q.op = "reject"
    BY <1>3, <1>5 DEF RequestOK, Idle, BeginReject, BeginChange
  <2> QED  BY <1>5, <2>1, BeginKeeps DEF BeginReject, BeginChange
<1>6. ASSUME NEW e \in Entries, NEW user \in Users, BeginApprove(r, e, user)
      PROVE  LedgerInv' /\ FlightInv'
  <2> DEFINE q == [Idle EXCEPT !.op = "approve", !.step = "write", !.entry = e, !.user = user]
  <2>1. RequestOK(q) /\ q.op = "approve"
    BY <1>3, <1>6 DEF RequestOK, Idle, BeginApprove, BeginChange
  <2> QED  BY <1>6, <2>1, BeginKeeps DEF BeginApprove, BeginChange
<1>7. ASSUME NEW e \in Entries, NEW user \in Users, BeginPost(r, e, user)
      PROVE  LedgerInv' /\ FlightInv'
  <2> DEFINE q == [Idle EXCEPT !.op = "post", !.step = "number", !.entry = e,
                               !.user = user, !.period = entry[e].period]
  <2>1. entry[e].origin = "MANUAL" /\ entry[e].period \in Periods /\ Vetted(e)
    BY <1>3, <1>7 DEF BeginPost, IInv, RowInv, MakerChecker, Vetted
  <2>2. RequestOK(q) /\ q.op = "post" /\ q.step = "number"
    BY <1>7, <2>1 DEF RequestOK, Idle, BeginPost
  <2> QED  BY <1>7, <2>2, BeginKeeps DEF BeginPost
<1>8. ASSUME NEW e \in Entries, NEW user \in Users, NEW p \in Periods,
             BeginReverse(r, e, user, p)
      PROVE  LedgerInv' /\ FlightInv'
  <2> DEFINE q == [Idle EXCEPT !.op = "reverse", !.step = AfterPeriod(p, "insert"), !.entry = e,
                               !.user = user, !.period = p, !.lines = Swapped(entry[e].lines)]
  <2>1. Numbered(e) /\ Vetted(e)
    BY <1>8 DEF BeginReverse, IInv, RowInv, MakerChecker, Vetted
  <2>2. RequestOK(q) /\ q.op = "reverse" /\ q.step \in {"open", "insert"}
    BY <2>1 DEF RequestOK, Idle, AfterPeriod
  <2>3. Begin(r, q)
    BY <1>8 DEF BeginReverse
  <2> HIDE DEF q
  <2> QED  BY <2>2, <2>3, BeginKeeps
<1>9. ASSUME NEW p \in Periods, BeginLock(r, p) PROVE LedgerInv' /\ FlightInv'
  <2> DEFINE q == [Idle EXCEPT !.op = "lock", !.step = "write", !.period = p]
  <2>1. RequestOK(q) /\ q.op = "lock"
    BY DEF RequestOK, Idle
  <2> QED  BY <1>9, <2>1, BeginKeeps DEF BeginLock
<1> QED  BY <1>1, <1>2, <1>4, <1>5, <1>6, <1>7, <1>8, <1>9 DEF BeginAny

-----------------------------------------------------------------------------
(* A handler that ends, or takes a step that leaves the entries alone *)

\* After its last write a request is idle; the others keep what they know.
LEMMA FinishKeeps ==
    ASSUME IInv, NEW r \in Requests, Finish(r), Stable,
           \A e, f \in Entries :
               entry'[f].reversalOf = e /\ entry[f].reversalOf # e
               => req[r].op = "reverse" /\ req[r].entry = e /\ req[r].step = "write",
           \A b \in Books : lastNumber'[b] # lastNumber[b] => r \in Holders(b)
    PROVE  FlightInv'
<1>1. req'[r] = Idle /\ \A s \in Requests \ {r} : req'[s] = req[s]
  BY DEF Finish, IInv, TypeOK
<1>2. RequestInv'
  <2>1. \A s \in Requests \ {r} : RequestOK(req[s])'
    BY <1>1, RequestKept DEF IInv, RequestInv
  <2>2. RequestOK(req[r])'
    BY <1>1 DEF RequestOK, Idle, EntryOps
  <2> QED  BY <2>1, <2>2 DEF RequestInv
<1>3. SequenceInv'
  <2>1. \A b \in Books : Holders(b)' = Holders(b) \ {r}
    BY <1>1 DEF Holders, NumberOps, Idle
  <2>2. \A b \in Books : \A s \in Holders(b)' : req'[s] = req[s]
    BY <1>1, <2>1 DEF Holders
  <2> QED  BY <2>1, <2>2 DEF SequenceInv, IInv
<1>4. ReverserInv'
  <2>1. \A e \in Entries : Reversers(e)' = Reversers(e) \ {r}
    BY <1>1 DEF Reversers, Idle
  <2>2. ASSUME NEW e \in Entries, NEW s \in Reversers(e)', NEW f \in Entries,
               entry'[f].reversalOf = e
        PROVE  FALSE
    <3>1. s \in Reversers(e) /\ s # r /\ entry[f].reversalOf # e
      BY <2>1 DEF IInv, ReverserInv
    <3>2. r \in Reversers(e)
      BY <2>2, <3>1 DEF Reversers
    <3> QED  BY <3>1, <3>2 DEF IInv, ReverserInv
  <2> QED  BY <2>1, <2>2 DEF IInv, ReverserInv
<1> QED  BY <1>2, <1>3, <1>4 DEF FlightInv

LEMMA DropInv ==
    ASSUME IInv, NEW r \in Requests, Finish(r), UNCHANGED <<entry, lastNumber, audit>>
    PROVE  LedgerInv' /\ FlightInv'
<1>1. LedgerInv'
  BY LedgerQuiet DEF IInv, LedgerInv
<1>2. Stable
  BY QuietStable
<1> QED  BY <1>1, <1>2, FinishKeeps

\* A step inside a handler: only its own record changes, and not what it read.
LEMMA InsideKeeps ==
    ASSUME IInv, NEW r \in Requests, UNCHANGED <<entry, lastNumber, audit>>,
           \A s \in Requests \ {r} : req'[s] = req[s],
           req'[r].op = req[r].op, req'[r].entry = req[r].entry,
           req'[r].user = req[r].user, req'[r].period = req[r].period,
           req'[r].lines = req[r].lines, req'[r].step # "open",
           req'[r].step = "number" => req[r].op \in NumberOps,
           req[r].op \in {"submit", "approve", "reject"} => req'[r].step = "write"
    PROVE  LedgerInv' /\ RequestInv'
<1>1. LedgerInv'
  BY LedgerQuiet DEF IInv, LedgerInv
<1>2. Stable
  BY QuietStable
<1>3. \A s \in Requests \ {r} : RequestOK(req[s])'
  BY <1>2, RequestKept DEF IInv, RequestInv
<1>4. RequestOK(req[r])'
  BY DEF IInv, RequestInv, RequestOK, Numbered, Vetted
<1> QED  BY <1>1, <1>3, <1>4 DEF RequestInv

LEMMA OpenPeriodInv ==
    ASSUME IInv, NEW r \in Requests, OpenPeriod(r)
    PROVE  LedgerInv' /\ FlightInv'
<1>0. req[r].op \in {"draft", "reverse", "system"} /\ req[r] \in RequestType
  BY DEF OpenPeriod, IInv, RequestInv, RequestOK, TypeOK
<1>1. \A s \in Requests \ {r} : req'[s] = req[s]
  BY DEF OpenPeriod, Goto, IInv, TypeOK
<1>2. /\ req'[r].op = req[r].op /\ req'[r].entry = req[r].entry
      /\ req'[r].user = req[r].user /\ req'[r].period = req[r].period
      /\ req'[r].lines = req[r].lines
      /\ req'[r].step = NextStep(req[r].op)
  BY <1>0 DEF OpenPeriod, Goto, IInv, TypeOK, RequestType, NextStep
<1>3. LedgerInv' /\ RequestInv'
  BY <1>0, <1>1, <1>2, InsideKeeps DEF OpenPeriod, NextStep, NumberOps
<1>4. SequenceInv'
  <2>1. \A b \in Books : Holders(b)' = Holders(b)
    BY <1>0, <1>1, <1>2 DEF Holders, NextStep, NumberOps, OpenPeriod
  <2>2. \A b \in Books : \A s \in Holders(b) : s # r
    BY DEF Holders, OpenPeriod
  <2> QED  BY <1>1, <2>1, <2>2 DEF SequenceInv, IInv, OpenPeriod, Holders
<1>5. ReverserInv'
  <2>1. \A e \in Entries : Reversers(e)' = Reversers(e)
    BY <1>0, <1>1, <1>2 DEF Reversers, NextStep, OpenPeriod
  <2> QED  BY <2>1 DEF ReverserInv, IInv, OpenPeriod
<1> QED  BY <1>3, <1>4, <1>5 DEF FlightInv

LEMMA TakeNumberInv ==
    ASSUME IInv, NEW r \in Requests, TakeNumber(r)
    PROVE  LedgerInv' /\ FlightInv'
<1>0. /\ req[r].op \in NumberOps /\ req[r].period \in Periods /\ req[r] \in RequestType
      /\ req[r].step = "number"
  BY DEF TakeNumber, IInv, RequestInv, RequestOK, NumberOps, TypeOK
<1>1. \A s \in Requests \ {r} : req'[s] = req[s]
  BY DEF TakeNumber, IInv, TypeOK
<1>2. /\ req'[r].op = req[r].op /\ req'[r].entry = req[r].entry
      /\ req'[r].user = req[r].user /\ req'[r].period = req[r].period
      /\ req'[r].lines = req[r].lines
      /\ req'[r].step = "write"
      /\ req'[r].number = lastNumber[Book(req[r].period)] + 1
  BY <1>0 DEF TakeNumber, IInv, TypeOK, RequestType
<1>3. UNCHANGED <<entry, lastNumber, audit>>
  BY DEF TakeNumber, ledgerVars
<1>4. LedgerInv' /\ RequestInv'
  BY <1>0, <1>1, <1>2, <1>3, InsideKeeps
<1>5. SequenceInv'
  <2> DEFINE mine == Book(req[r].period)
  <2>0. Holders(mine) = {}
    BY DEF TakeNumber
  <2>1. Holders(mine)' = {r}
    BY <1>0, <1>1, <1>2, <2>0 DEF Holders
  <2>2. \A b \in Books \ {mine} : Holders(b)' = Holders(b) /\ r \notin Holders(b)
    BY <1>0, <1>1, <1>2 DEF Holders
  <2>3. \A b \in Books \ {mine} : \A s \in Holders(b) : req'[s] = req[s]
    BY <1>1, <2>2 DEF Holders
  <2> HIDE DEF mine
  <2>4. ASSUME NEW b \in Books \ {mine}, NEW s \in Holders(b)'
        PROVE  req'[s].number = lastNumber'[b] + 1 /\ \A t \in Holders(b)' : t = s
    BY <1>3, <2>2, <2>3 DEF SequenceInv, IInv
  <2> QED  BY <1>2, <1>3, <2>1, <2>4 DEF SequenceInv, mine
<1>6. ReverserInv'
  <2>1. \A e \in Entries : Reversers(e)' = Reversers(e)
    BY <1>0, <1>1, <1>2 DEF Reversers
  <2> QED  BY <1>3, <2>1 DEF ReverserInv, IInv
<1> QED  BY <1>4, <1>5, <1>6 DEF FlightInv

LEMMA InsertReversalInv ==
    ASSUME IInv, NEW r \in Requests, InsertReversal(r)
    PROVE  LedgerInv' /\ FlightInv'
<1>0. req[r] \in RequestType /\ req[r].op = "reverse" /\ req[r].step = "insert"
  BY DEF InsertReversal, At, IInv, TypeOK
<1>1. \A s \in Requests \ {r} : req'[s] = req[s]
  BY DEF InsertReversal, Goto, IInv, TypeOK
<1>2. /\ req'[r].op = req[r].op /\ req'[r].entry = req[r].entry
      /\ req'[r].user = req[r].user /\ req'[r].period = req[r].period
      /\ req'[r].lines = req[r].lines
      /\ req'[r].step = "number"
  BY <1>0 DEF InsertReversal, Goto, IInv, TypeOK, RequestType
<1>3. UNCHANGED <<entry, lastNumber, audit>>
  BY DEF InsertReversal, ledgerVars
<1>4. LedgerInv' /\ RequestInv'
  BY <1>0, <1>1, <1>2, <1>3, InsideKeeps DEF NumberOps
<1>5. SequenceInv'
  <2>1. \A b \in Books : Holders(b)' = Holders(b) /\ r \notin Holders(b)
    BY <1>0, <1>1, <1>2 DEF Holders
  <2> QED  BY <1>1, <1>3, <2>1 DEF SequenceInv, IInv, Holders
<1>6. ReverserInv'
  <2>1. Reversers(req[r].entry)' = {r}
    BY <1>0, <1>1, <1>2 DEF Reversers, InsertReversal
  <2>2. \A e \in Entries : e # req[r].entry => Reversers(e)' = Reversers(e)
    BY <1>0, <1>1, <1>2 DEF Reversers
  <2>3. \A f \in Entries : entry'[f].reversalOf # req[r].entry
    BY <1>3 DEF InsertReversal
  <2>4. req'[r].entry = req[r].entry
    BY <1>2
  <2>5. ASSUME NEW e \in Entries, NEW s \in Reversers(e)', NEW t \in Reversers(e)',
               NEW f \in Entries
        PROVE  t = s /\ entry'[f].reversalOf # e
    <3>1. CASE e = req[r].entry
      BY <2>1, <2>3, <2>4, <3>1 DEF Reversers
    <3>2. CASE e # req[r].entry
      BY <1>3, <2>2, <3>2 DEF ReverserInv, IInv
    <3> QED  BY <3>1, <3>2
  <2> QED  BY <2>5 DEF ReverserInv
<1> QED  BY <1>4, <1>5, <1>6 DEF FlightInv

LEMMA WriteLockInv ==
    ASSUME IInv, NEW r \in Requests, WriteLock(r)
    PROVE  LedgerInv' /\ FlightInv'
<1>0. req[r] \in RequestType /\ req[r].op = "lock"
  BY DEF WriteLock, At, IInv, TypeOK
<1>1. \A s \in Requests \ {r} : req'[s] = req[s]
  BY DEF WriteLock, Goto, IInv, TypeOK
<1>2. /\ req'[r].op = req[r].op /\ req'[r].entry = req[r].entry
      /\ req'[r].user = req[r].user /\ req'[r].period = req[r].period
      /\ req'[r].lines = req[r].lines
      /\ req'[r].step = "audit"
  BY <1>0 DEF WriteLock, Goto, IInv, TypeOK, RequestType
<1>3. UNCHANGED <<entry, lastNumber, audit>>
  BY DEF WriteLock
<1>4. LedgerInv' /\ RequestInv'
  BY <1>0, <1>1, <1>2, <1>3, InsideKeeps
<1>5. SequenceInv'
  <2>1. \A b \in Books : Holders(b)' = Holders(b) /\ r \notin Holders(b)
    BY <1>0, <1>1, <1>2 DEF Holders, NumberOps
  <2> QED  BY <1>1, <1>3, <2>1 DEF SequenceInv, IInv, Holders
<1>6. ReverserInv'
  <2>1. \A e \in Entries : Reversers(e)' = Reversers(e)
    BY <1>0, <1>1, <1>2 DEF Reversers
  <2> QED  BY <1>3, <2>1 DEF ReverserInv, IInv
<1> QED  BY <1>4, <1>5, <1>6 DEF FlightInv

-----------------------------------------------------------------------------
(* The writes that change the status of an entry *)

\* An update of the status, and for an approval of the approver, of a manual
\* entry that is not yet in the ledger or is, and keeps its number.
LEMMA StatusWriteKeeps ==
    ASSUME IInv, NEW r \in Requests, Finish(r), UNCHANGED <<lastNumber, audit>>,
           NEW e \in Entries, entry[e].origin = "MANUAL",
           entry'[e].status \in {"PENDING_APPROVAL", "APPROVED", "REJECTED"},
           entry'[e].approvedBy = entry[e].approvedBy
               \/ entry'[e].approvedBy \notin {None, entry[e].createdBy},
           entry'[e].status = "APPROVED" => entry'[e].approvedBy \notin {None, entry[e].createdBy},
           \A f \in Entries \ {e} : entry'[f] = entry[f],
           entry'[e].number = entry[e].number, entry'[e].period = entry[e].period,
           entry'[e].origin = entry[e].origin, entry'[e].createdBy = entry[e].createdBy,
           entry'[e].reversalOf = entry[e].reversalOf, entry'[e].lines = entry[e].lines
    PROVE  LedgerInv' /\ FlightInv'
<1>1. Exists(e) /\ entry[e].reversalOf = None
  BY NoneAssumption DEF IInv, RowInv, FreeRow, Origin, Exists
<1>2. Stable
  BY DEF Stable, Numbered, Vetted
<1>3. FlightInv'
  BY <1>2, FinishKeeps
<1>4. RowInv'
  <2>1. \A f \in Entries : BookOf(f)' = BookOf(f) /\ (Numbered(f)' <=> Numbered(f))
    BY DEF BookOf, Numbered
  <2> QED  BY <1>1, <2>1 DEF IInv, RowInv, Exists
<1>5. UniqueNumbers'
  BY DEF IInv, UniqueNumbers, Numbered, BookOf
<1>6. AuditTrail'
  <2>1. \A f \in Entries : AuditOf(f)' = AuditOf(f) /\ (Numbered(f)' <=> Numbered(f))
    BY DEF AuditOf, BookOf, Numbered
  <2> QED  BY <2>1 DEF IInv, AuditTrail
<1>7. MakerChecker'
  BY DEF IInv, MakerChecker
<1>8. ReversalSound'
  <2>1. \A f \in Entries : entry'[f].reversalOf = entry[f].reversalOf
                           /\ entry'[f].lines = entry[f].lines
                           /\ (Numbered(f)' <=> Numbered(f))
    BY DEF Numbered
  <2>2. \A f \in Entries : entry'[f].status = "REVERSED" => entry[f].status = "REVERSED"
    OBVIOUS
  <2>3. ASSUME NEW f \in Entries, entry'[f].reversalOf # None
        PROVE  /\ Numbered(entry[f].reversalOf)' /\ f # e
               /\ entry'[f].lines = Swapped(entry'[entry[f].reversalOf].lines)
    <3>1. entry[f].reversalOf # None /\ entry[f].reversalOf \in Entries
      BY <2>1, <2>3 DEF IInv, TypeOK, EntryType
    <3>2. f # e
      BY <1>1, <3>1
    <3> QED  BY <2>1, <3>1, <3>2 DEF IInv, ReversalSound, Numbered
  <2> QED  BY <2>1, <2>2, <2>3 DEF IInv, ReversalSound, Numbered
<1>9. ManualBalanced'
  BY DEF IInv, ManualBalanced, Numbered
<1> QED  BY <1>3, <1>4, <1>5, <1>6, <1>7, <1>8, <1>9 DEF LedgerInv

LEMMA StatusWriteInv ==
    ASSUME IInv, NEW r \in Requests, WriteSubmit(r) \/ WriteReject(r) \/ WriteApprove(r)
    PROVE  LedgerInv' /\ FlightInv'
<1>1. RequestOK(req[r])
  BY DEF IInv, RequestInv
<1>2. entry \in [Entries -> EntryType]
  BY DEF IInv, TypeOK
<1> DEFINE e == req[r].entry
<1>3. CASE WriteSubmit(r)
  <2>1. e \in Entries /\ entry[e].origin = "MANUAL" /\ entry[e] \in EntryType
    BY <1>1, <1>2, <1>3 DEF RequestOK, EntryOps, WriteSubmit, At
  <2>2. /\ Finish(r) /\ UNCHANGED <<lastNumber, audit>>
        /\ entry' = [entry EXCEPT ![e].status = "PENDING_APPROVAL"]
    BY <1>3 DEF WriteSubmit
  <2> HIDE DEF e
  <2> QED  BY <1>2, <2>1, <2>2, StatusWriteKeeps DEF EntryType
<1>4. CASE WriteReject(r)
  <2>1. e \in Entries /\ entry[e].origin = "MANUAL" /\ entry[e] \in EntryType
    BY <1>1, <1>2, <1>4 DEF RequestOK, EntryOps, WriteReject, At
  <2>2. /\ Finish(r) /\ UNCHANGED <<lastNumber, audit>>
        /\ entry' = [entry EXCEPT ![e].status = "REJECTED"]
    BY <1>4 DEF WriteReject
  <2> HIDE DEF e
  <2> QED  BY <1>2, <2>1, <2>2, StatusWriteKeeps DEF EntryType
<1>5. CASE WriteApprove(r)
  <2> DEFINE user == req[r].user
  <2>1. /\ e \in Entries /\ entry[e].origin = "MANUAL" /\ entry[e] \in EntryType
        /\ user \in Users /\ user # entry[e].createdBy
    BY <1>1, <1>2, <1>5 DEF RequestOK, EntryOps, WriteApprove, At
  <2>2. user # None
    BY <2>1, NoneAssumption
  <2>3. /\ Finish(r) /\ UNCHANGED <<lastNumber, audit>>
        /\ entry' = [entry EXCEPT ![e].status = "APPROVED", ![e].approvedBy = user]
    BY <1>5 DEF WriteApprove
  <2> HIDE DEF e, user
  <2> QED  BY <1>2, <2>1, <2>2, <2>3, StatusWriteKeeps DEF EntryType
<1> QED  BY <1>3, <1>4, <1>5

-----------------------------------------------------------------------------
(* A new row *)

\* A row that was free gets its first content; no number is given to it.
LEMMA InsertDraftInv ==
    ASSUME IInv, NEW r \in Requests, NEW e \in Entries, InsertDraft(r, e)
    PROVE  LedgerInv' /\ FlightInv'
<1>1. /\ entry[e] = FreeRow /\ ~Exists(e) /\ ~Numbered(e)
      /\ \A f \in Entries : entry[f].reversalOf # e
  BY NoneAssumption DEF InsertDraft, IInv, RowInv, ReversalSound, FreeRow, Numbered
<1>2. req[r].period \in Periods /\ entry \in [Entries -> EntryType]
  BY DEF InsertDraft, At, IInv, TypeOK, RequestInv, RequestOK
<1>3. /\ entry'[e].status = "DRAFT" /\ entry'[e].number = 0
      /\ entry'[e].period = req[r].period /\ entry'[e].origin = "MANUAL"
      /\ entry'[e].reversalOf = None
      /\ \A f \in Entries \ {e} : entry'[f] = entry[f]
  BY <1>2 DEF InsertDraft, FreeRow
<1>4. Finish(r) /\ UNCHANGED <<lastNumber, audit>>
  BY DEF InsertDraft
<1> HIDE DEF IInv
<1>5. Stable
  BY <1>1, <1>3 DEF Stable, Numbered, Vetted
<1>6. FlightInv'
  <2>1. \A f \in Entries : entry'[f].reversalOf = entry[f].reversalOf
    BY <1>1, <1>3 DEF FreeRow
  <2> QED  BY <1>4, <1>5, <2>1, FinishKeeps
<1>7. \A f \in Entries : (Numbered(f)' <=> Numbered(f)) /\ (Numbered(f) => f # e)
  BY <1>1, <1>3 DEF Numbered
<1>8. RowInv'
  <2>1. \A f \in Entries \ {e} : BookOf(f)' = BookOf(f)
    BY <1>3 DEF BookOf
  <2> QED  BY <1>2, <1>3, <1>4, <1>7, <2>1 DEF IInv, RowInv, Exists, Origin
<1>9. UniqueNumbers'
  BY <1>3, <1>7 DEF IInv, UniqueNumbers, BookOf
<1>10. AuditTrail'
  <2>1. \A f \in Entries : Numbered(f) => AuditOf(f)' = AuditOf(f)
    BY <1>3, <1>7 DEF AuditOf, BookOf
  <2> QED  BY <1>4, <1>7, <2>1 DEF IInv, AuditTrail
<1>11. MakerChecker'
  BY <1>3 DEF IInv, MakerChecker
<1>12. ReversalSound'
  <2>1. ASSUME NEW f \in Entries, entry'[f].reversalOf # None
        PROVE  /\ f # e /\ entry'[f] = entry[f]
               /\ entry[f].reversalOf \in Entries \ {e}
               /\ entry'[entry[f].reversalOf] = entry[entry[f].reversalOf]
    BY <1>1, <1>2, <1>3, <2>1 DEF EntryType
  <2>2. \A f \in Entries : entry'[f].status = "REVERSED" => f # e
    BY <1>3
  <2>3. ASSUME NEW f \in Entries, entry'[f].reversalOf # None
        PROVE  /\ Numbered(entry[f].reversalOf)'
               /\ entry'[f].lines = Swapped(entry'[entry[f].reversalOf].lines)
               /\ entry'[f].status \in {"POSTED", "REVERSED"}
               /\ \A g \in Entries : entry'[g].reversalOf = entry[f].reversalOf => g = f
    <3>1. entry[f].reversalOf # None
      BY <2>1, <2>3
    <3>2. Numbered(entry[f].reversalOf)'
      BY <1>7, <2>1, <2>3, <3>1 DEF IInv, ReversalSound
    <3>3. \A g \in Entries : entry'[g].reversalOf = entry[f].reversalOf => g = f
      BY <1>3, <2>1, <2>3, <3>1 DEF IInv, ReversalSound
    <3> QED  BY <2>1, <2>3, <3>1, <3>2, <3>3 DEF IInv, ReversalSound
  <2>4. ASSUME NEW f \in Entries, entry'[f].status = "REVERSED"
        PROVE  \E g \in Entries : entry'[g].reversalOf = f
    <3>1. PICK g \in Entries : entry[g].reversalOf = f
      BY <1>3, <2>2, <2>4 DEF IInv, ReversalSound
    <3>2. f # None
      BY NoneAssumption
    <3>3. g # e
      BY <1>1, <3>1, <3>2 DEF FreeRow
    <3> QED  BY <1>3, <3>1, <3>3
  <2>5. \A f \in Entries : entry'[f].reversalOf # None => entry'[f].reversalOf = entry[f].reversalOf
    BY <2>1
  <2> QED  BY <2>3, <2>4, <2>5 DEF ReversalSound, Numbered
<1>13. ManualBalanced'
  BY <1>3, <1>7 DEF IInv, ManualBalanced
<1> QED  BY <1>6, <1>8, <1>9, <1>10, <1>11, <1>12, <1>13 DEF LedgerInv

-----------------------------------------------------------------------------
(* The commits that give a number *)

\* The transaction that has the sequence row extends the audit log by the
\* number after the last one.
LEMMA CommitNumberKeeps ==
    ASSUME IInv, NEW r \in Requests, NEW e \in Entries, NEW b \in Books,
           b = Book(req[r].period), r \in Holders(b), CommitNumber(r, e)
    PROVE  /\ lastNumber[b] \in Nat /\ req[r].number = lastNumber[b] + 1
           /\ lastNumber' = [lastNumber EXCEPT ![b] = lastNumber[b] + 1]
           /\ lastNumber'[b] = lastNumber[b] + 1
           /\ \A c \in Books : lastNumber'[c] # lastNumber[c] => c = b
           /\ \A c \in Books : lastNumber[c] <= lastNumber'[c] /\ lastNumber[c] \in Nat
           /\ audit' = audit \cup {[book |-> b, number |-> lastNumber[b] + 1, entry |-> e]}
           /\ \A c \in Books :
                {a.number : a \in {x \in audit' : x.book = c}} = 1..lastNumber'[c]
           /\ \A a1, a2 \in audit' : a1.book = a2.book /\ a1.number = a2.number => a1 = a2
<1>1. lastNumber \in [Books -> Nat] /\ req[r].number = lastNumber[b] + 1
  BY DEF IInv, TypeOK, SequenceInv
<1> DEFINE row == [book |-> b, number |-> lastNumber[b] + 1, entry |-> e]
<1>2. /\ lastNumber' = [lastNumber EXCEPT ![b] = lastNumber[b] + 1]
      /\ audit' = audit \cup {row}
  BY <1>1 DEF CommitNumber
<1>3. /\ row.book = b /\ row.number = lastNumber[b] + 1
  OBVIOUS
<1> HIDE DEF row
<1>4. \A c \in Books : {a.number : a \in {x \in audit : x.book = c}} = 1..lastNumber[c]
  BY DEF IInv, AuditTrail
<1>5. \A a \in audit : a.book = b => a.number \in 1..lastNumber[b]
  BY <1>4
<1>6. \A c \in Books : {a.number : a \in {x \in audit' : x.book = c}} = 1..lastNumber'[c]
  <2>1. {a.number : a \in {x \in audit' : x.book = b}}
            = {a.number : a \in {x \in audit : x.book = b}} \cup {row.number}
    BY <1>2, <1>3
  <2>2. 1..(lastNumber[b] + 1) = 1..lastNumber[b] \cup {lastNumber[b] + 1}
    BY <1>1
  <2>3. ASSUME NEW c \in Books, c # b
        PROVE  {a.number : a \in {x \in audit' : x.book = c}} = 1..lastNumber'[c]
    <3>1. {x \in audit' : x.book = c} = {x \in audit : x.book = c}
      BY <1>2, <1>3, <2>3
    <3>2. lastNumber'[c] = lastNumber[c]
      BY <1>1, <1>2, <2>3
    <3> QED  BY <1>4, <3>1, <3>2
  <2>4. lastNumber'[b] = lastNumber[b] + 1
    BY <1>1, <1>2
  <2>5. {a.number : a \in {x \in audit' : x.book = b}} = 1..lastNumber'[b]
    BY <1>3, <1>4, <2>1, <2>2, <2>4
  <2> QED  BY <2>3, <2>5
<1>7. \A a1, a2 \in audit' : a1.book = a2.book /\ a1.number = a2.number => a1 = a2
  <2>1. \A a1, a2 \in audit : a1.book = a2.book /\ a1.number = a2.number => a1 = a2
    BY DEF IInv, AuditTrail
  <2>2. \A a \in audit : a.book = b => a.number # lastNumber[b] + 1
    BY <1>1, <1>5
  <2> QED  BY <1>2, <1>3, <2>1, <2>2
<1>8. \A c \in Books : lastNumber'[c] # lastNumber[c] => c = b
  BY <1>1, <1>2
<1>9. \A c \in Books : lastNumber[c] <= lastNumber'[c] /\ lastNumber[c] \in Nat
  BY <1>1, <1>2
<1>10. lastNumber'[b] = lastNumber[b] + 1
  BY <1>1, <1>2
<1> QED  BY <1>1, <1>2, <1>6, <1>7, <1>8, <1>9, <1>10 DEF row

\* The number a commit gives is new in its book.
LEMMA NumberIsNew ==
    ASSUME RowInv, lastNumber \in [Books -> Nat], NEW e \in Entries, Numbered(e)
    PROVE  BookOf(e) \in Books /\ entry[e].number # lastNumber[BookOf(e)] + 1
<1>1. Exists(e)
  BY DEF RowInv, FreeRow, Numbered
<1>2. BookOf(e) \in Books
  BY <1>1 DEF RowInv, BookOf, Books
<1>3. entry[e].number <= lastNumber[BookOf(e)]
  BY DEF RowInv
<1>4. lastNumber[BookOf(e)] \in Nat
  BY <1>2
<1> HIDE DEF BookOf
<1> QED  BY <1>2, <1>3, <1>4

LEMMA CommitPostInv ==
    ASSUME IInv, NEW r \in Requests, CommitPost(r)
    PROVE  LedgerInv' /\ FlightInv'
<1> DEFINE e == req[r].entry
<1> DEFINE b == Book(req[r].period)
<1>1. /\ e \in Entries /\ entry[e].origin = "MANUAL" /\ Vetted(e) /\ Balanced(entry[e].lines)
      /\ req[r].period \in Periods /\ req[r].period = entry[e].period
  BY DEF CommitPost, At, IInv, RequestInv, RequestOK, EntryOps
<1>2. /\ entry \in [Entries -> EntryType] /\ entry[e] \in EntryType
      /\ lastNumber \in [Books -> Nat]
  BY <1>1 DEF IInv, TypeOK
<1>3. b \in Books /\ r \in Holders(b) /\ BookOf(e) = b
  BY <1>1 DEF Books, CommitPost, At, Holders, NumberOps, BookOf
<1>4. CommitNumber(r, e) /\ Finish(r)
  BY DEF CommitPost
<1>5. /\ lastNumber[b] \in Nat /\ req[r].number = lastNumber[b] + 1
      /\ \A c \in Books : lastNumber'[c] # lastNumber[c] => c = b
      /\ \A c \in Books : lastNumber[c] <= lastNumber'[c] /\ lastNumber[c] \in Nat
      /\ lastNumber'[b] = lastNumber[b] + 1
      /\ audit' = audit \cup {[book |-> b, number |-> lastNumber[b] + 1, entry |-> e]}
      /\ \A c \in Books : {a.number : a \in {x \in audit' : x.book = c}} = 1..lastNumber'[c]
      /\ \A a1, a2 \in audit' : a1.book = a2.book /\ a1.number = a2.number => a1 = a2
  BY SMTT(30), <1>1, <1>3, <1>4, CommitNumberKeeps
<1>6. /\ entry'[e].status = "POSTED" /\ entry'[e].number = lastNumber[b] + 1
      /\ entry'[e].period = entry[e].period /\ entry'[e].origin = entry[e].origin
      /\ entry'[e].createdBy = entry[e].createdBy /\ entry'[e].approvedBy = entry[e].approvedBy
      /\ entry'[e].reversalOf = entry[e].reversalOf /\ entry'[e].lines = entry[e].lines
      /\ \A f \in Entries \ {e} : entry'[f] = entry[f]
  BY <1>1, <1>2, <1>5 DEF CommitPost, EntryType
<1>7. Exists(e) /\ entry[e].reversalOf = None
  BY <1>1, NoneAssumption DEF IInv, RowInv, FreeRow, Origin, Exists
<1>n. RowInv
  BY DEF IInv
<1> HIDE DEF e, b
<1>8. \A f \in Entries : BookOf(f)' = BookOf(f) /\ (Numbered(f)' <=> (Numbered(f) \/ f = e))
  BY <1>5, <1>6 DEF BookOf, Numbered
<1>9. Stable
  BY <1>6, <1>8 DEF Stable, Vetted
<1>10. FlightInv'
  <2>1. \A f \in Entries : entry'[f].reversalOf = entry[f].reversalOf
    BY <1>6
  <2> QED  BY <1>3, <1>4, <1>5, <1>9, <2>1, FinishKeeps
<1>11. RowInv'
  <2>1. ASSUME NEW f \in Entries, Numbered(f)'
        PROVE  entry'[f].number <= lastNumber'[BookOf(f)']
    <3>1. CASE f = e
      BY <1>3, <1>5, <1>6, <1>8, <3>1
    <3>2. CASE f # e
      <4>1. Numbered(f) /\ entry'[f].number = entry[f].number /\ BookOf(f)' = BookOf(f)
        BY <1>6, <1>8, <2>1, <3>2
      <4>2. BookOf(f) \in Books /\ entry[f].number <= lastNumber[BookOf(f)]
        BY <1>2, <4>1, NumberIsNew, <1>n DEF RowInv
      <4>3. entry[f].number \in Nat
        BY <1>2 DEF EntryType
      <4>4. lastNumber[BookOf(f)] <= lastNumber'[BookOf(f)] /\ lastNumber[BookOf(f)] \in Nat
        BY <1>5, <4>2
      <4>5. lastNumber'[BookOf(f)] \in Nat
        BY <1>2, <1>4, <1>5, <4>2 DEF CommitNumber
      <4> QED  BY <4>1, <4>2, <4>3, <4>4, <4>5
    <3> QED  BY <3>1, <3>2
  <2>2. \A f \in Entries : Exists(f)' <=> Exists(f)
    BY <1>6, <1>7 DEF Exists
  <2>3. ASSUME NEW f \in Entries
        PROVE  /\ ~Exists(f)' => entry'[f] = FreeRow
               /\ Exists(f)' => entry'[f].period \in Periods /\ entry'[f].origin \in Origin
               /\ Exists(f)' /\ entry'[f].origin # "MANUAL" => entry'[f].status \in {"POSTED", "REVERSED"}
               /\ entry'[f].status \in {"POSTED", "REVERSED"} => Numbered(f)'
               /\ entry'[f].reversalOf # None => entry'[f].origin = "SYSTEM_REVERSAL"
    BY <1>1, <1>6, <1>7, <1>8, <1>n, <2>2 DEF RowInv, Origin
  <2> QED  BY <2>1, <2>3 DEF RowInv
<1>12. UniqueNumbers'
  <2>1. ASSUME NEW f \in Entries \ {e}, Numbered(f), BookOf(f) = b
        PROVE  entry[f].number # lastNumber[b] + 1
    BY <1>2, <1>n, <2>1, NumberIsNew
  <2> QED  BY <1>3, <1>6, <1>8, <2>1 DEF IInv, UniqueNumbers
<1>13. AuditTrail'
  <2>1. \A f \in Entries \ {e} : AuditOf(f)' = AuditOf(f)
    BY <1>6, <1>8 DEF AuditOf
  <2>2. ASSUME NEW f \in Entries, f = e
        PROVE  AuditOf(f)' = [book |-> b, number |-> lastNumber[b] + 1, entry |-> f]
    <3>1. BookOf(f)' = b
      BY <1>3, <1>8, <2>2
    <3> QED  BY <1>6, <1>7, <2>2, <3>1 DEF AuditOf
  <2>3. \A f \in Entries : Numbered(f) => AuditOf(f) \in audit
    BY DEF IInv, AuditTrail
  <2>4. ASSUME NEW f \in Entries, Numbered(f)'
        PROVE  AuditOf(f)' \in audit'
    <3>1. CASE f = e
      BY <1>5, <2>2, <3>1
    <3>2. CASE f # e
      BY <1>5, <1>8, <2>1, <2>3, <2>4, <3>2
    <3> QED  BY <3>1, <3>2
  <2> QED  BY <1>5, <2>4 DEF AuditTrail
<1>14. MakerChecker'
  BY <1>1, <1>6 DEF IInv, MakerChecker, Vetted
<1>15. ReversalSound'
  <2>1. \A f \in Entries : /\ entry'[f].reversalOf = entry[f].reversalOf
                           /\ entry'[f].lines = entry[f].lines
                           /\ entry'[f].status \in {entry[f].status, "POSTED"}
                           /\ Numbered(f) => Numbered(f)'
    BY <1>6, <1>8
  <2>2. ASSUME NEW f \in Entries, entry'[f].reversalOf # None
        PROVE  /\ Numbered(entry[f].reversalOf)'
               /\ entry'[f].lines = Swapped(entry'[entry[f].reversalOf].lines)
               /\ entry'[f].status \in {"POSTED", "REVERSED"}
               /\ \A g \in Entries : entry'[g].reversalOf = entry[f].reversalOf => g = f
    <3>1. entry[f].reversalOf # None /\ entry[f].reversalOf \in Entries
      BY <1>2, <2>1, <2>2 DEF EntryType
    <3> QED  BY <2>1, <3>1 DEF IInv, ReversalSound
  <2>3. \A f \in Entries : entry'[f].status = "REVERSED" => \E g \in Entries : entry'[g].reversalOf = f
    BY <2>1 DEF IInv, ReversalSound
  <2> QED  BY <2>1, <2>2, <2>3 DEF ReversalSound, Numbered
<1>16. ManualBalanced'
  BY <1>1, <1>6, <1>8 DEF IInv, ManualBalanced
<1> QED  BY <1>10, <1>11, <1>12, <1>13, <1>14, <1>15, <1>16 DEF LedgerInv

\* A row e posted on insertion, with orig the entry it reverses or None.
LEMMA CommitNewRow ==
    ASSUME IInv, NEW r \in Requests, NEW e \in Entries, NEW b \in Books,
           NEW orig \in Entries \cup {None},
           b = Book(req[r].period), req[r].period \in Periods, r \in Holders(b), Finish(r),
           CommitNumber(r, IF orig = None THEN e ELSE orig),
           ~Exists(e),
           entry'[e].status = "POSTED", entry'[e].number = req[r].number,
           entry'[e].period = req[r].period, entry'[e].reversalOf = orig,
           entry'[e].origin = IF orig = None THEN "SYSTEM" ELSE "SYSTEM_REVERSAL",
           \A f \in Entries \ {e} :
               /\ entry'[f].number = entry[f].number /\ entry'[f].period = entry[f].period
               /\ entry'[f].origin = entry[f].origin
               /\ entry'[f].createdBy = entry[f].createdBy
               /\ entry'[f].approvedBy = entry[f].approvedBy
               /\ entry'[f].reversalOf = entry[f].reversalOf
               /\ entry'[f].lines = entry[f].lines
               /\ f # orig => entry'[f] = entry[f]
               /\ f = orig => entry'[f].status = "REVERSED",
           orig # None =>
               /\ Numbered(orig) /\ Vetted(orig)
               /\ entry'[e].lines = Swapped(entry[orig].lines)
               /\ req[r].op = "reverse" /\ req[r].entry = orig /\ req[r].step = "write"
    PROVE  LedgerInv' /\ FlightInv'
<1>1. RowInv /\ lastNumber \in [Books -> Nat] /\ entry \in [Entries -> EntryType]
  BY DEF IInv, TypeOK
<1>2. /\ entry[e] = FreeRow /\ entry[e].reversalOf = None /\ ~Numbered(e) /\ orig # e
      /\ \A f \in Entries : entry[f].reversalOf # e
  BY <1>1, NoneAssumption DEF RowInv, FreeRow, Numbered, IInv, ReversalSound
<1> DEFINE a == IF orig = None THEN e ELSE orig
<1>3. a \in Entries
  OBVIOUS
<1>4. /\ lastNumber[b] \in Nat /\ req[r].number = lastNumber[b] + 1
      /\ \A c \in Books : lastNumber'[c] # lastNumber[c] => c = b
      /\ \A c \in Books : lastNumber[c] <= lastNumber'[c] /\ lastNumber[c] \in Nat
      /\ lastNumber' = [lastNumber EXCEPT ![b] = lastNumber[b] + 1]
      /\ lastNumber'[b] = lastNumber[b] + 1
      /\ audit' = audit \cup {[book |-> b, number |-> lastNumber[b] + 1, entry |-> a]}
      /\ \A c \in Books : {x.number : x \in {y \in audit' : y.book = c}} = 1..lastNumber'[c]
      /\ \A a1, a2 \in audit' : a1.book = a2.book /\ a1.number = a2.number => a1 = a2
  BY <1>3, CommitNumberKeeps
<1>5. \A f \in Entries : f # e => BookOf(f)' = BookOf(f)
  BY DEF BookOf
<1>6. BookOf(e)' = b
  BY DEF BookOf
<1>7. \A f \in Entries : Numbered(f)' <=> (Numbered(f) \/ f = e)
  BY <1>4 DEF Numbered
<1>8. Stable
  BY <1>2, <1>7 DEF Stable, Vetted
<1>9. FlightInv'
  <2>1. \A g, f \in Entries :
            entry'[f].reversalOf = g /\ entry[f].reversalOf # g
            => req[r].op = "reverse" /\ req[r].entry = g /\ req[r].step = "write"
    BY NoneAssumption
  <2> QED  BY <1>4, <1>8, <2>1, FinishKeeps
<1>10. RowInv'
  <2>1. ASSUME NEW f \in Entries, Numbered(f)'
        PROVE  entry'[f].number <= lastNumber'[BookOf(f)']
    <3>1. CASE f = e
      BY <1>4, <1>6, <3>1
    <3>2. CASE f # e
      <4>1. Numbered(f) /\ entry'[f].number = entry[f].number /\ BookOf(f)' = BookOf(f)
        BY <1>5, <1>7, <2>1, <3>2
      <4>2. BookOf(f) \in Books /\ entry[f].number <= lastNumber[BookOf(f)]
        BY <1>1, <4>1, NumberIsNew DEF RowInv
      <4>3. entry[f].number \in Nat
        BY <1>1 DEF EntryType
      <4>4. lastNumber[BookOf(f)] <= lastNumber'[BookOf(f)] /\ lastNumber[BookOf(f)] \in Nat
            /\ lastNumber'[BookOf(f)] \in Nat
        BY <1>1, <1>4, <4>2
      <4> QED  BY <4>1, <4>2, <4>3, <4>4
    <3> QED  BY <3>1, <3>2
  <2>2. ASSUME NEW f \in Entries, f # e
        PROVE  /\ ~Exists(f)' => entry'[f] = FreeRow
               /\ Exists(f)' => entry'[f].period \in Periods /\ entry'[f].origin \in Origin
               /\ Exists(f)' /\ entry'[f].origin # "MANUAL" => entry'[f].status \in {"POSTED", "REVERSED"}
               /\ entry'[f].status \in {"POSTED", "REVERSED"} => Numbered(f)'
               /\ entry'[f].reversalOf # None => entry'[f].origin = "SYSTEM_REVERSAL"
    <3>1. CASE f = orig
      <4>1. Exists(f) /\ Numbered(f)'
        BY <1>1, <1>7, <2>2, <3>1, NoneAssumption DEF RowInv, FreeRow, Numbered
      <4> QED  BY <1>1, <2>2, <3>1, <4>1, NoneAssumption DEF RowInv, Exists
    <3>2. CASE f # orig
      BY <1>1, <1>7, <2>2, <3>2 DEF RowInv, Exists
    <3> QED  BY <3>1, <3>2
  <2>3. /\ Exists(e)' /\ entry'[e].period \in Periods /\ entry'[e].origin \in Origin
        /\ Numbered(e)' /\ entry'[e].status = "POSTED"
        /\ entry'[e].reversalOf # None => entry'[e].origin = "SYSTEM_REVERSAL"
    BY <1>7 DEF Exists, Origin
  <2> QED  BY <2>1, <2>2, <2>3 DEF RowInv
<1>11. UniqueNumbers'
  <2>1. ASSUME NEW f \in Entries \ {e}, Numbered(f), BookOf(f) = b
        PROVE  entry[f].number # lastNumber[b] + 1
    BY <1>1, <2>1, NumberIsNew
  <2> QED  BY <1>4, <1>5, <1>6, <1>7, <2>1 DEF IInv, UniqueNumbers
<1>12. AuditTrail'
  <2>1. \A f \in Entries : f # e => AuditOf(f)' = AuditOf(f)
    BY <1>5 DEF AuditOf
  <2>2. AuditOf(e)' = [book |-> b, number |-> lastNumber[b] + 1, entry |-> a]
    BY <1>4, <1>6 DEF AuditOf
  <2>3. \A f \in Entries : Numbered(f) => AuditOf(f) \in audit
    BY DEF IInv, AuditTrail
  <2> HIDE DEF a
  <2>4. \A f \in Entries : Numbered(f)' => AuditOf(f)' \in audit'
    BY <1>4, <1>7, <2>1, <2>2, <2>3
  <2> QED  BY <1>4, <2>4 DEF AuditTrail
<1>13. MakerChecker'
  <2>1. entry'[e].origin # "MANUAL"
    OBVIOUS
  <2>2. ASSUME NEW f \in Entries \ {e}, entry'[f].origin = "MANUAL",
               entry'[f].status \in {"APPROVED", "POSTED", "REVERSED"}
        PROVE  entry'[f].approvedBy \notin {None, entry'[f].createdBy}
    <3>1. CASE f = orig
      BY <2>2, <3>1, NoneAssumption DEF Vetted
    <3>2. CASE f # orig
      BY <2>2, <3>2 DEF IInv, MakerChecker
    <3> QED  BY <3>1, <3>2
  <2> QED  BY <2>1, <2>2 DEF MakerChecker
<1>14. ReversalSound'
  <2>1. ASSUME NEW f \in Entries, entry'[f].reversalOf # None
        PROVE  /\ entry'[entry'[f].reversalOf].number # 0
               /\ entry'[f].lines = Swapped(entry'[entry'[f].reversalOf].lines)
               /\ entry'[f].status \in {"POSTED", "REVERSED"}
               /\ \A g \in Entries : entry'[g].reversalOf = entry'[f].reversalOf => g = f
    <3>0. \A g \in Entries : orig # None => entry[g].reversalOf # orig
      BY NoneAssumption DEF IInv, ReverserInv, Reversers
    <3>1. CASE f = e
      BY <1>2, <1>7, <2>1, <3>0, <3>1 DEF Numbered
    <3>2. CASE f # e
      <4>1. /\ entry'[f].reversalOf = entry[f].reversalOf
            /\ entry[f].reversalOf \in Entries \ {e}
        BY <1>1, <1>2, <2>1, <3>2 DEF EntryType
      <4>2. Numbered(entry[f].reversalOf) /\ entry[f].lines = Swapped(entry[entry[f].reversalOf].lines)
            /\ entry[f].status \in {"POSTED", "REVERSED"}
        BY <2>1, <4>1 DEF IInv, ReversalSound
      <4>3. \A g \in Entries : entry'[g].reversalOf = entry'[f].reversalOf => g = f
        BY <2>1, <3>0, <3>2, <4>1 DEF IInv, ReversalSound
      <4> QED  BY <2>1, <3>2, <4>1, <4>2, <4>3 DEF Numbered
    <3> QED  BY <3>1, <3>2
  <2>2. ASSUME NEW f \in Entries, entry'[f].status = "REVERSED"
        PROVE  \E g \in Entries : entry'[g].reversalOf = f
    <3>1. CASE f = orig
      BY <3>1
    <3>2. CASE f # orig
      <4>1. f # e /\ entry[f].status = "REVERSED"
        BY <2>2, <3>2
      <4>2. PICK g \in Entries : entry[g].reversalOf = f
        BY <4>1 DEF IInv, ReversalSound
      <4>3. g # e
        BY <1>2, <4>2, NoneAssumption
      <4> QED  BY <4>2, <4>3
    <3> QED  BY <3>1, <3>2
  <2> QED  BY <2>1, <2>2 DEF ReversalSound, Numbered
<1>15. ManualBalanced'
  BY <1>7 DEF IInv, ManualBalanced
<1> QED  BY <1>9, <1>10, <1>11, <1>12, <1>13, <1>14, <1>15 DEF LedgerInv

LEMMA CommitSystemInv ==
    ASSUME IInv, NEW r \in Requests, NEW e \in Entries, CommitSystem(r, e)
    PROVE  LedgerInv' /\ FlightInv'
<1> DEFINE b == Book(req[r].period)
<1>1. req[r].period \in Periods /\ entry \in [Entries -> EntryType]
  BY DEF CommitSystem, At, IInv, TypeOK, RequestInv, RequestOK
<1>2. b \in Books /\ r \in Holders(b)
  BY <1>1 DEF Books, CommitSystem, At, Holders, NumberOps
<1>3. CommitNumber(r, e) /\ Finish(r) /\ ~Exists(e)
  BY DEF CommitSystem
<1>4. /\ entry'[e].status = "POSTED" /\ entry'[e].number = req[r].number
      /\ entry'[e].period = req[r].period /\ entry'[e].reversalOf = None
      /\ entry'[e].origin = "SYSTEM"
      /\ \A f \in Entries \ {e} : entry'[f] = entry[f]
  BY <1>1 DEF CommitSystem, FreeRow
<1>5. None \notin Entries
  BY NoneAssumption
<1> HIDE DEF b
<1> QED  BY <1>1, <1>2, <1>3, <1>4, <1>5, CommitNewRow DEF b

LEMMA CommitReverseInv ==
    ASSUME IInv, NEW r \in Requests, NEW e \in Entries, CommitReverse(r, e)
    PROVE  LedgerInv' /\ FlightInv'
<1> DEFINE b == Book(req[r].period)
<1> DEFINE orig == req[r].entry
<1>1. /\ req[r].period \in Periods /\ entry \in [Entries -> EntryType]
      /\ orig \in Entries /\ Numbered(orig) /\ Vetted(orig)
      /\ req[r].lines = Swapped(entry[orig].lines)
      /\ req[r].op = "reverse" /\ req[r].step = "write"
  BY DEF CommitReverse, At, IInv, TypeOK, RequestInv, RequestOK
<1>2. b \in Books /\ r \in Holders(b)
  BY <1>1 DEF Books, Holders, NumberOps
<1>3. CommitNumber(r, orig) /\ Finish(r) /\ ~Exists(e)
  BY DEF CommitReverse
<1>4. orig # e /\ orig # None /\ entry[orig] \in EntryType
  BY <1>1, <1>3, NoneAssumption DEF IInv, RowInv, FreeRow, Numbered
<1> DEFINE row == [FreeRow EXCEPT !.status = "POSTED", !.number = req[r].number,
                       !.period = req[r].period, !.origin = "SYSTEM_REVERSAL",
                       !.createdBy = req[r].user, !.approvedBy = req[r].user,
                       !.reversalOf = orig, !.lines = req[r].lines]
<1>5. entry' = [entry EXCEPT ![e] = row, ![orig].status = "REVERSED"]
  BY DEF CommitReverse
<1>6. /\ row.status = "POSTED" /\ row.number = req[r].number
      /\ row.period = req[r].period /\ row.reversalOf = orig
      /\ row.origin = "SYSTEM_REVERSAL" /\ row.lines = req[r].lines
  BY DEF FreeRow
<1> HIDE DEF row, orig, b
<1>7. /\ entry'[e] = row
      /\ \A f \in Entries \ {e} : f # orig => entry'[f] = entry[f]
      /\ entry'[orig] = [entry[orig] EXCEPT !.status = "REVERSED"]
  BY <1>1, <1>4, <1>5
<1>8. /\ entry'[orig].number = entry[orig].number /\ entry'[orig].period = entry[orig].period
      /\ entry'[orig].origin = entry[orig].origin
      /\ entry'[orig].createdBy = entry[orig].createdBy
      /\ entry'[orig].approvedBy = entry[orig].approvedBy
      /\ entry'[orig].reversalOf = entry[orig].reversalOf
      /\ entry'[orig].lines = entry[orig].lines
      /\ entry'[orig].status = "REVERSED"
  BY <1>4, <1>7 DEF EntryType
<1>9. req[r].entry = orig /\ b = Book(req[r].period)
  BY DEF orig, b
<1>10. \A f \in Entries \ {e} :
          /\ entry'[f].number = entry[f].number /\ entry'[f].period = entry[f].period
          /\ entry'[f].origin = entry[f].origin
          /\ entry'[f].createdBy = entry[f].createdBy
          /\ entry'[f].approvedBy = entry[f].approvedBy
          /\ entry'[f].reversalOf = entry[f].reversalOf
          /\ entry'[f].lines = entry[f].lines
          /\ f # orig => entry'[f] = entry[f]
          /\ f = orig => entry'[f].status = "REVERSED"
  BY <1>7, <1>8
<1> QED  BY <1>1, <1>2, <1>3, <1>4, <1>6, <1>7, <1>9, <1>10, CommitNewRow

-----------------------------------------------------------------------------
(* The inductive step, and the theorems *)

LEMMA ContinueInv ==
    ASSUME IInv, NEW r \in Requests, Continue(r)
    PROVE  LedgerInv' /\ FlightInv'
<1>1. CASE OpenPeriod(r)
  BY <1>1, OpenPeriodInv
<1>2. CASE TakeNumber(r)
  BY <1>2, TakeNumberInv
<1>3. CASE InsertReversal(r)
  BY <1>3, InsertReversalInv
<1>4. CASE WriteSubmit(r) \/ WriteReject(r) \/ WriteApprove(r)
  BY <1>4, StatusWriteInv
<1>5. CASE CommitPost(r)
  BY <1>5, CommitPostInv
<1>6. CASE WriteLock(r)
  BY <1>6, WriteLockInv
<1>7. CASE AuditLock(r)
  BY <1>7, DropInv DEF AuditLock
<1>8. ASSUME NEW e \in Entries, InsertDraft(r, e) \/ CommitReverse(r, e) \/ CommitSystem(r, e)
      PROVE  LedgerInv' /\ FlightInv'
  BY <1>8, InsertDraftInv, CommitReverseInv, CommitSystemInv
<1> QED  BY <1>1, <1>2, <1>3, <1>4, <1>5, <1>6, <1>7, <1>8 DEF Continue

LEMMA NextInv ==
    ASSUME IInv, [Next]_vars
    PROVE  IInv'
<1>1. TypeOK'
  BY NextType DEF IInv
<1>2. ASSUME NEW r \in Requests, BeginAny(r) PROVE LedgerInv' /\ FlightInv'
  BY <1>2, BeginInv
<1>3. ASSUME NEW r \in Requests, Continue(r) PROVE LedgerInv' /\ FlightInv'
  BY <1>3, ContinueInv
<1>4. ASSUME NEW r \in Requests, Drop(r) PROVE LedgerInv' /\ FlightInv'
  BY <1>4, DropInv DEF Drop, ledgerVars
<1>5. ASSUME UNCHANGED <<ledgerVars, req>> PROVE LedgerInv' /\ FlightInv'
  <2>1. UNCHANGED <<entry, lastNumber, audit>> /\ req' = req
    BY <1>5 DEF ledgerVars
  <2>2. LedgerInv'
    BY <2>1, LedgerQuiet DEF IInv, LedgerInv
  <2>3. RequestInv'
    BY <2>1, QuietStable, RequestKept DEF IInv, RequestInv
  <2>4. SequenceInv' /\ ReverserInv'
    BY <2>1 DEF IInv, SequenceInv, ReverserInv, Holders, Reversers
  <2> QED  BY <2>2, <2>3, <2>4 DEF FlightInv
<1>6. LedgerInv' /\ FlightInv'
  BY <1>2, <1>3, <1>4, <1>5 DEF Next, vars
<1> QED  BY <1>1, <1>6 DEF IInv, LedgerInv, FlightInv

\* The inductive invariant holds in every reachable state.
THEOREM Invariance == Spec => []IInv
<1>1. Init => IInv
  BY InitInv
<1>2. IInv /\ [Next]_vars => IInv'
  BY NextInv
<1> QED  BY <1>1, <1>2, PTL DEF Spec

\* Every value the engine stores has its type, whatever the interleaving.
THEOREM TypeCorrect == Spec => []TypeOK
<1>1. IInv => TypeOK
  BY DEF IInv
<1> QED  BY <1>1, Invariance, PTL

\* Postings, reversals and system entries that race for a sequence row never
\* give two entries of a book the same journal number.
THEOREM NumbersAreUnique == Spec => []UniqueNumbers
<1>1. IInv => UniqueNumbers
  BY DEF IInv
<1> QED  BY <1>1, Invariance, PTL

\* The sequence, the entry and the audit row agree in every reachable state.
THEOREM AuditIsComplete == Spec => []AuditTrail
<1>1. IInv => AuditTrail
  BY DEF IInv
<1> QED  BY <1>1, Invariance, PTL

\* No preparer's own approval ever stands, in spite of stale status writes.
THEOREM ApprovalIsIndependent == Spec => []MakerChecker
<1>1. IInv => MakerChecker
  BY DEF IInv
<1> QED  BY <1>1, Invariance, PTL

\* An entry has at most one reversal, its mirror image, even when reversals race.
THEOREM ReversalIsSound == Spec => []ReversalSound
<1>1. IInv => ReversalSound
  BY DEF IInv
<1> QED  BY <1>1, Invariance, PTL

\* A manual entry in the ledger balances as stored.
THEOREM ManualEntriesBalance == Spec => []ManualBalanced
<1>1. IInv => ManualBalanced
  BY DEF IInv
<1> QED  BY <1>1, Invariance, PTL

-----------------------------------------------------------------------------
(* The engine implements the register of journal numbers *)

\* A commit is one step of the register.
LEMMA CommitIsIssue ==
    ASSUME IInv, NEW r \in Requests, NEW e \in Entries, CommitNumber(r, e),
           req[r].op \in NumberOps, req[r].step = "write", req[r].period \in Periods
    PROVE  Register!Next
<1> DEFINE b == Book(req[r].period)
<1>1. b \in Books /\ r \in Holders(b)
  BY DEF Books, Holders
<1> HIDE DEF b
<1>2. b = Book(req[r].period)
  BY DEF b
<1>3. /\ lastNumber' = [lastNumber EXCEPT ![b] = lastNumber[b] + 1]
      /\ audit' = audit \cup {[book |-> b, number |-> lastNumber[b] + 1, entry |-> e]}
  BY <1>1, <1>2, CommitNumberKeeps
<1> QED  BY <1>1, <1>3 DEF Register!Next, Register!Issue

LEMMA NextIsRegister ==
    ASSUME IInv, [Next]_vars
    PROVE  [Register!Next]_(Register!regVars)
<1> USE DEF Register!regVars
<1>1. ASSUME NEW r \in Requests, Continue(r)
      PROVE  Register!Next \/ UNCHANGED <<lastNumber, audit>>
  <2>1. RequestOK(req[r])
    BY DEF IInv, RequestInv
  <2>2. CASE CommitPost(r)
    BY <2>1, <2>2, CommitIsIssue DEF CommitPost, At, RequestOK, EntryOps, NumberOps
  <2>3. ASSUME NEW e \in Entries, CommitReverse(r, e) PROVE Register!Next
    BY <2>1, <2>3, CommitIsIssue DEF CommitReverse, At, RequestOK, NumberOps
  <2>4. ASSUME NEW e \in Entries, CommitSystem(r, e) PROVE Register!Next
    BY SMTT(30), <2>1, <2>4, CommitIsIssue DEF CommitSystem, At, RequestOK, NumberOps
  <2> QED
    BY <1>1, <2>2, <2>3, <2>4
    DEF Continue, OpenPeriod, TakeNumber, InsertReversal, WriteSubmit, WriteReject,
        WriteApprove, WriteLock, AuditLock, InsertDraft, ledgerVars
<1>2. ASSUME NEW r \in Requests, BeginAny(r)
      PROVE  UNCHANGED <<lastNumber, audit>>
  BY <1>2 DEF BeginAny, BeginDraft, BeginSystem, BeginSubmit, BeginReject, BeginApprove,
              BeginChange, BeginPost, BeginReverse, BeginLock, Begin, ledgerVars
<1>3. ASSUME NEW r \in Requests, Drop(r)
      PROVE  UNCHANGED <<lastNumber, audit>>
  BY <1>3 DEF Drop, ledgerVars
<1>4. CASE UNCHANGED ledgerVars
  BY <1>4 DEF ledgerVars
<1> QED  BY <1>1, <1>2, <1>3, <1>4 DEF Next, vars

\* Every behaviour of the engine is one of the append-only register in which
\* each book's next number is given out once and without a hole.
THEOREM RegisterIsImplemented == Spec => ImplementsRegister
<1>1. Init => Register!Init
  BY DEF Init, Register!Init
<1>2. IInv /\ [Next]_vars => [Register!Next]_(Register!regVars)
  BY NextIsRegister
<1> QED  BY <1>1, <1>2, Invariance, PTL DEF Spec, ImplementsRegister, Register!Spec

-----------------------------------------------------------------------------
(* Requests that take turns *)

\* What a request has read is still so when it writes.
StillSo(q) ==
    /\ q.op = "submit" => entry[q.entry].status = "DRAFT"
    /\ q.op \in {"approve", "reject"} => entry[q.entry].status = "PENDING_APPROVAL"
    /\ q.op = "post" => entry[q.entry].status = "APPROVED" /\ period[q.period] = "OPEN"
    /\ q.op = "reverse" => entry[q.entry].status = "POSTED"
    /\ q.op \in {"draft", "reverse", "system"} =>
           q.step = "open" \/ q.opens \/ period[q.period] = "OPEN"
    /\ q.op = "draft" => ~q.opens
    /\ q.op = "lock" /\ q.step = "write" =>
           \A e \in Entries : entry[e].period = q.period => entry[e].status \notin Unresolved

\* Numbers are for the ledger, and its periods have rows.
LedgerNumbered ==
    \A e \in Entries : /\ Numbered(e) <=> entry[e].status \in {"POSTED", "REVERSED"}
                       /\ Exists(e) => period[entry[e].period] # "ABSENT"

SerialInv(r) == IInv /\ StillSo(req[r]) /\ LedgerNumbered /\ LockedSettled /\ GapFree

\* The step that LedgerOnlyGrows allows.
Grows ==
    \A e \in Entries :
        /\ entry'[e].status # entry[e].status
            => <<entry[e].status, entry'[e].status>> \in Documented
        /\ entry'[e].number # entry[e].number => period'[entry'[e].period] = "OPEN"
        /\ Numbered(e) => /\ entry'[e].number = entry[e].number
                          /\ entry'[e].lines = entry[e].lines

\* The entries and the sequences stay, and a period is opened or locked where
\* that is in order.
LEMMA EntriesStay ==
    ASSUME LedgerNumbered, LockedSettled, GapFree, UNCHANGED <<entry, lastNumber>>,
           \A p \in Periods :
               \/ period'[p] = period[p]
               \/ period'[p] = "OPEN"
               \/ /\ period'[p] = "LOCKED"
                  /\ \A e \in Entries : entry[e].period = p => entry[e].status \notin Unresolved,
           RowInv
    PROVE  LedgerNumbered' /\ LockedSettled' /\ GapFree' /\ Grows
<1>1. \A e \in Entries : Exists(e) => entry[e].period \in Periods
  BY DEF RowInv
<1>2. LedgerNumbered'
  BY <1>1 DEF LedgerNumbered, Numbered, Exists
<1>3. LockedSettled'
  BY <1>1 DEF LockedSettled, Exists
<1>4. GapFree'
  BY DEF GapFree, Numbered, BookOf
<1>5. Grows
  BY DEF Grows
<1> QED  BY <1>2, <1>3, <1>4, <1>5

\* An idle request has read nothing.
LEMMA IdleStillSo == ASSUME NEW r \in Requests, req'[r] = Idle PROVE StillSo(req[r])'
BY DEF StillSo, Idle

LEMMA BeginSerial ==
    ASSUME NEW r \in Requests, SerialInv(r), BeginAny(r)
    PROVE  StillSo(req[r])' /\ LedgerNumbered' /\ LockedSettled' /\ GapFree' /\ Grows
<1> USE DEF StillSo
<1>t. /\ req \in [Requests -> RequestType]
      /\ \A p \in Periods : period[p] \in {"OPEN", "LOCKED", "ABSENT"}
  BY SMTT(30) DEF SerialInv, IInv, TypeOK, PeriodStatus
<1>1. UNCHANGED <<entry, period, lastNumber>>
  BY DEF BeginAny, BeginDraft, BeginSystem, BeginSubmit, BeginReject, BeginApprove,
         BeginChange, BeginPost, BeginReverse, BeginLock, Begin, ledgerVars
<1>2. LedgerNumbered' /\ LockedSettled' /\ GapFree' /\ Grows
  BY <1>1, EntriesStay DEF SerialInv, IInv
<1>3. ASSUME NEW user \in Users, NEW p \in Periods, NEW dto \in Dtos,
             BeginDraft(r, user, p, dto) \/ BeginSystem(r, user, p, dto)
      PROVE  StillSo(req[r])'
  <2>1. req'[r].step = "open" \/ period[p] = "OPEN"
    BY <1>t, <1>3 DEF BeginDraft, BeginSystem, Begin, AfterPeriod, Idle
  <2>2. req'[r].period = p /\ req'[r].op \in {"draft", "system"} /\ ~req'[r].opens
    BY ZenonT(40), <1>t, <1>3 DEF BeginDraft, BeginSystem, Begin, Idle
  <2> QED  BY <1>1, <2>1, <2>2
<1>4. ASSUME NEW e \in Entries, BeginSubmit(r, e) \/ BeginReject(r, e)
      PROVE  StillSo(req[r])'
  BY ZenonT(40), <1>t, <1>1, <1>4 DEF BeginSubmit, BeginReject, BeginChange, Begin, Idle
<1>5. ASSUME NEW e \in Entries, NEW user \in Users, BeginApprove(r, e, user)
      PROVE  StillSo(req[r])'
  BY <1>t, <1>1, <1>5 DEF BeginApprove, BeginChange, Begin, Idle
<1>6. ASSUME NEW e \in Entries, NEW user \in Users, BeginPost(r, e, user)
      PROVE  StillSo(req[r])'
  BY <1>t, <1>1, <1>6 DEF BeginPost, Begin, Idle
<1>7. ASSUME NEW e \in Entries, NEW user \in Users, NEW p \in Periods, BeginReverse(r, e, user, p)
      PROVE  StillSo(req[r])'
  <2>1. req'[r].step = "open" \/ period[p] = "OPEN"
    BY <1>t, <1>7 DEF BeginReverse, Begin, AfterPeriod, Idle
  <2>2. req'[r].period = p /\ req'[r].op = "reverse" /\ req'[r].entry = e
    BY <1>t, <1>7 DEF BeginReverse, Begin, Idle
  <2>3. entry[e].status = "POSTED"
    BY <1>7 DEF BeginReverse
  <2> QED  BY <1>1, <2>1, <2>2, <2>3
<1>8. ASSUME NEW p \in Periods, BeginLock(r, p)
      PROVE  StillSo(req[r])'
  BY <1>t, <1>1, <1>8 DEF BeginLock, Begin, Idle
<1> QED  BY <1>2, <1>3, <1>4, <1>5, <1>6, <1>7, <1>8 DEF BeginAny

\* The steps of a request that leave the entries alone.
LEMMA InsideSerial ==
    ASSUME NEW r \in Requests, SerialInv(r),
           \/ OpenPeriod(r) \/ TakeNumber(r) \/ InsertReversal(r)
           \/ WriteLock(r) \/ AuditLock(r) \/ Drop(r)
    PROVE  StillSo(req[r])' /\ LedgerNumbered' /\ LockedSettled' /\ GapFree' /\ Grows
<1>t. /\ req \in [Requests -> RequestType] /\ RequestOK(req[r])
      /\ period \in [Periods -> PeriodStatus \cup {"ABSENT"}]
      /\ StillSo(req[r]) /\ RowInv
  BY DEF SerialInv, IInv, TypeOK, RequestInv
<1>1. UNCHANGED <<entry, lastNumber>>
  BY DEF OpenPeriod, TakeNumber, InsertReversal, WriteLock, AuditLock, Drop, ledgerVars
<1>2. CASE OpenPeriod(r)
  <2>1. req[r].op \in {"draft", "reverse", "system"} /\ req[r].period \in Periods
    BY <1>t, <1>2 DEF OpenPeriod, RequestOK
  <2>2. \A p \in Periods : period'[p] = period[p] \/ period'[p] = "OPEN"
    BY <1>t, <1>2 DEF OpenPeriod
  <2>3. StillSo(req[r])'
    <3>1. CASE req[r].op = "draft"
      <4>1. /\ req'[r].op = "draft" /\ req'[r].period = req[r].period /\ req'[r].opens = req[r].opens
            /\ period'[req[r].period] = "OPEN"
        BY <1>t, <1>2, <2>1, <3>1 DEF OpenPeriod, Goto, RequestType
      <4> QED  BY <1>t, <3>1, <4>1 DEF StillSo
    <3>2. CASE req[r].op # "draft"
      <4>1. /\ req'[r].op = req[r].op /\ req'[r].entry = req[r].entry /\ req'[r].opens
        BY <1>t, <1>2, <3>2 DEF OpenPeriod, RequestType
      <4> QED  BY <1>t, <1>1, <2>1, <3>2, <4>1 DEF StillSo
    <3> QED  BY <3>1, <3>2
  <2> QED  BY <1>1, <2>2, <2>3, <1>t, EntriesStay DEF SerialInv
<1>3. CASE TakeNumber(r) \/ InsertReversal(r)
  <2>1. UNCHANGED period
    BY <1>3 DEF TakeNumber, InsertReversal, ledgerVars
  <2>2. /\ req'[r].op = req[r].op /\ req'[r].period = req[r].period
        /\ req'[r].opens = req[r].opens /\ req'[r].entry = req[r].entry
        /\ req[r].step # "open" /\ req[r].op # "lock"
    BY <1>t, <1>3 DEF TakeNumber, InsertReversal, Goto, At, RequestType, RequestOK, NumberOps
  <2>3. StillSo(req[r])'
    BY <1>t, <1>1, <2>1, <2>2 DEF StillSo
  <2> QED  BY <1>1, <2>1, <2>3, <1>t, EntriesStay DEF SerialInv
<1>4. CASE WriteLock(r)
  <2>1. req[r].op = "lock" /\ req[r].step = "write" /\ req[r].period \in Periods
    BY <1>t, <1>4 DEF WriteLock, At, RequestOK
  <2>2. /\ \A e \in Entries : entry[e].period = req[r].period => entry[e].status \notin Unresolved
        /\ \A p \in Periods : period'[p] = period[p] \/ (p = req[r].period /\ period'[p] = "LOCKED")
    BY <1>t, <1>4, <2>1 DEF WriteLock, StillSo
  <2>3. req'[r].op = "lock" /\ req'[r].step = "audit"
    BY <1>t, <1>4, <2>1 DEF WriteLock, Goto, RequestType
  <2>4. StillSo(req[r])'
    BY <2>3 DEF StillSo
  <2> QED  BY <1>1, <2>2, <2>4, <1>t, EntriesStay DEF SerialInv
<1>5. CASE AuditLock(r) \/ Drop(r)
  <2>1. UNCHANGED period /\ req'[r] = Idle
    BY <1>t, <1>5 DEF AuditLock, Drop, Finish, ledgerVars
  <2> QED  BY <1>1, <2>1, <1>t, EntriesStay, IdleStillSo DEF SerialInv
<1> QED  BY <1>2, <1>3, <1>4, <1>5

\* A status change takes an entry from the status that was read.
LEMMA StatusSerial ==
    ASSUME NEW r \in Requests, SerialInv(r), WriteSubmit(r) \/ WriteReject(r) \/ WriteApprove(r)
    PROVE  StillSo(req[r])' /\ LedgerNumbered' /\ LockedSettled' /\ GapFree' /\ Grows
<1>t. /\ req \in [Requests -> RequestType] /\ RequestOK(req[r])
      /\ entry \in [Entries -> EntryType]
      /\ StillSo(req[r]) /\ RowInv
  BY DEF SerialInv, IInv, TypeOK, RequestInv
<1> DEFINE e == req[r].entry
<1>1. /\ e \in Entries
      /\ entry[e].status \in {"DRAFT", "PENDING_APPROVAL"}
      /\ entry'[e].status \in {"PENDING_APPROVAL", "REJECTED", "APPROVED"}
      /\ <<entry[e].status, entry'[e].status>> \in Documented
      /\ entry'[e].number = entry[e].number /\ entry'[e].period = entry[e].period
      /\ entry'[e].lines = entry[e].lines
      /\ \A f \in Entries : f # e => entry'[f] = entry[f]
  <2>1. e \in Entries
    BY <1>t DEF WriteSubmit, WriteReject, WriteApprove, At, RequestOK, EntryOps
  <2>2. CASE WriteSubmit(r)
    BY <1>t, <2>1, <2>2 DEF WriteSubmit, At, StillSo, EntryType, Documented
  <2>3. CASE WriteReject(r)
    BY <1>t, <2>1, <2>3 DEF WriteReject, At, StillSo, EntryType, Documented
  <2>4. CASE WriteApprove(r)
    BY <1>t, <2>1, <2>4 DEF WriteApprove, At, StillSo, EntryType, Documented
  <2> QED  BY <2>2, <2>3, <2>4
<1>2. UNCHANGED <<period, lastNumber>> /\ req'[r] = Idle
  BY <1>t DEF WriteSubmit, WriteReject, WriteApprove, Finish
<1> HIDE DEF e
<1>3. \A f \in Entries : /\ Numbered(f)' <=> Numbered(f)
                         /\ BookOf(f)' = BookOf(f)
                         /\ entry'[f].number = entry[f].number
                         /\ Exists(f)' <=> Exists(f)
                         /\ entry'[f].period = entry[f].period
  BY <1>1 DEF Numbered, BookOf, Exists
<1>4. LedgerNumbered'
  BY <1>1, <1>2, <1>3 DEF SerialInv, LedgerNumbered
<1>5. LockedSettled'
  BY <1>1, <1>2, <1>3 DEF SerialInv, LockedSettled, Unresolved, Exists
<1>6. GapFree'
  BY <1>2, <1>3 DEF SerialInv, GapFree
<1>7. Grows
  BY <1>1, <1>3 DEF Grows, Numbered
<1> QED  BY <1>2, <1>4, <1>5, <1>6, <1>7, IdleStillSo

LEMMA InsertSerial ==
    ASSUME NEW r \in Requests, SerialInv(r), NEW e \in Entries, InsertDraft(r, e)
    PROVE  StillSo(req[r])' /\ LedgerNumbered' /\ LockedSettled' /\ GapFree' /\ Grows
<1>t. /\ req \in [Requests -> RequestType] /\ RequestOK(req[r])
      /\ entry \in [Entries -> EntryType]
      /\ StillSo(req[r]) /\ RowInv
  BY DEF SerialInv, IInv, TypeOK, RequestInv
<1>1. /\ entry[e] = FreeRow /\ entry[e].status = "ABSENT" /\ entry[e].number = 0
      /\ entry'[e].status = "DRAFT" /\ entry'[e].number = 0
      /\ entry'[e].period = req[r].period
      /\ \A f \in Entries : f # e => entry'[f] = entry[f]
  BY <1>t DEF InsertDraft, Exists, RowInv, FreeRow
<1>2. period[req[r].period] = "OPEN" /\ UNCHANGED <<period, lastNumber>> /\ req'[r] = Idle
  BY <1>t DEF InsertDraft, At, StillSo, Finish
<1>3. \A f \in Entries : Numbered(f)' <=> Numbered(f)
  BY <1>1 DEF Numbered
<1>4. LedgerNumbered'
  BY <1>1, <1>2, <1>3 DEF SerialInv, LedgerNumbered, Exists
<1>5. LockedSettled'
  BY <1>1, <1>2 DEF SerialInv, LockedSettled, Exists
<1>6. \A f \in Entries : Numbered(f) => f # e
  BY <1>1 DEF Numbered
<1>7. GapFree'
  BY <1>1, <1>2, <1>3, <1>6 DEF SerialInv, GapFree, BookOf
<1>8. Grows
  BY <1>1, <1>6 DEF Grows, Documented
<1> QED  BY <1>2, <1>4, <1>5, <1>7, <1>8, IdleStillSo

\* A commit that numbers one row leaves no hole in its book.
LEMMA NumberTaken ==
    ASSUME GapFree, RowInv, lastNumber \in [Books -> Nat], NEW b \in Books, NEW e \in Entries,
           lastNumber' = [lastNumber EXCEPT ![b] = lastNumber[b] + 1],
           ~Numbered(e), Numbered(e)', BookOf(e)' = b, entry'[e].number = lastNumber[b] + 1,
           \A f \in Entries : f # e =>
               entry'[f].number = entry[f].number /\ entry'[f].period = entry[f].period
    PROVE  GapFree'
<1> DEFINE numbers(c) == {entry[x].number : x \in {f \in Entries : Numbered(f) /\ BookOf(f) = c}}
<1>1. \A f \in Entries : f # e => (Numbered(f)' <=> Numbered(f)) /\ BookOf(f)' = BookOf(f)
  BY DEF Numbered, BookOf
<1>2. ASSUME NEW c \in Books PROVE numbers(c)' = 1..lastNumber'[c]
  <2>1. numbers(c) = 1..lastNumber[c]
    BY DEF GapFree
  <2>2. CASE c = b
    <3>1. numbers(c)' = numbers(c) \cup {lastNumber[b] + 1}
      BY <1>1, <2>2
    <3>2. lastNumber'[c] = lastNumber[b] + 1 /\ lastNumber[b] \in Nat
      BY <2>2
    <3>3. 1..(lastNumber[b] + 1) = 1..lastNumber[b] \cup {lastNumber[b] + 1}
      BY <3>2
    <3> QED  BY <2>1, <2>2, <3>1, <3>2, <3>3
  <2>3. CASE c # b
    <3>1. numbers(c)' = numbers(c)
      BY <1>1, <2>3
    <3>2. lastNumber'[c] = lastNumber[c]
      BY <2>3
    <3> QED  BY <2>1, <3>1, <3>2
  <2> QED  BY <2>2, <2>3
<1> QED  BY <1>2 DEF GapFree

LEMMA PostSerial ==
    ASSUME NEW r \in Requests, SerialInv(r), CommitPost(r)
    PROVE  StillSo(req[r])' /\ LedgerNumbered' /\ LockedSettled' /\ GapFree' /\ Grows
<1>t. /\ req \in [Requests -> RequestType] /\ RequestOK(req[r])
      /\ entry \in [Entries -> EntryType] /\ lastNumber \in [Books -> Nat]
      /\ StillSo(req[r]) /\ RowInv
  BY DEF SerialInv, IInv, TypeOK, RequestInv
<1>0. PICK e, b : e = req[r].entry /\ b = Book(req[r].period)
  OBVIOUS
<1>1. /\ e \in Entries /\ req[r].period = entry[e].period /\ req[r].period \in Periods
      /\ entry[e].status = "APPROVED" /\ period[req[r].period] = "OPEN"
  BY <1>t, <1>0 DEF CommitPost, At, RequestOK, EntryOps, StillSo
<1>2. b \in Books /\ r \in Holders(b) /\ CommitNumber(r, e)
  BY <1>0, <1>1 DEF Books, CommitPost, At, Holders, NumberOps
<1>3. /\ lastNumber' = [lastNumber EXCEPT ![b] = lastNumber[b] + 1]
      /\ req[r].number = lastNumber[b] + 1 /\ lastNumber[b] \in Nat
  BY <1>0, <1>1, <1>2, CommitNumberKeeps DEF SerialInv
<1>4. /\ entry'[e].status = "POSTED" /\ entry'[e].number = lastNumber[b] + 1
      /\ entry'[e].period = entry[e].period /\ entry'[e].lines = entry[e].lines
      /\ \A f \in Entries : f # e => entry'[f] = entry[f]
  BY <1>t, <1>0, <1>1, <1>3 DEF CommitPost, EntryType
<1>5. UNCHANGED period /\ req'[r] = Idle
  BY <1>t DEF CommitPost, Finish
<1>6. ~Numbered(e) /\ BookOf(e) = b
  BY <1>0, <1>1 DEF SerialInv, LedgerNumbered, BookOf
<1>7. BookOf(e)' = b /\ Numbered(e)'
  BY <1>3, <1>4, <1>6 DEF BookOf, Numbered
<1>8. GapFree'
  BY <1>t, <1>1, <1>2, <1>3, <1>4, <1>6, <1>7, NumberTaken DEF SerialInv
<1>9. LedgerNumbered'
  BY <1>1, <1>4, <1>5, <1>7 DEF SerialInv, LedgerNumbered, Exists, Numbered
<1>10. LockedSettled'
  BY <1>4, <1>5 DEF SerialInv, LockedSettled, Exists, Unresolved
<1>11. Grows
  BY <1>1, <1>4, <1>5, <1>6 DEF Grows, Documented
<1> QED  BY <1>5, <1>8, <1>9, <1>10, <1>11, IdleStillSo

\* A row is inserted into the ledger, and the one it reverses is marked.
LEMMA NewRowSerial ==
    ASSUME NEW r \in Requests, SerialInv(r), NEW e \in Entries, NEW orig \in Entries \cup {None},
           req[r].op \in {"reverse", "system"}, req[r].step = "write", req[r].period \in Periods,
           CommitNumber(r, IF orig = None THEN e ELSE orig), Finish(r),
           period' = CommittedPeriods(r), ~Exists(e),
           orig # None => entry[orig].status = "POSTED",
           entry'[e].status = "POSTED", entry'[e].number = req[r].number,
           entry'[e].period = req[r].period,
           \A f \in Entries : f # e =>
               /\ entry'[f].number = entry[f].number /\ entry'[f].period = entry[f].period
               /\ entry'[f].lines = entry[f].lines
               /\ entry'[f].status = IF f = orig THEN "REVERSED" ELSE entry[f].status
    PROVE  StillSo(req[r])' /\ LedgerNumbered' /\ LockedSettled' /\ GapFree' /\ Grows
<1>t. /\ req \in [Requests -> RequestType]
      /\ lastNumber \in [Books -> Nat] /\ period \in [Periods -> PeriodStatus \cup {"ABSENT"}]
      /\ StillSo(req[r]) /\ RowInv
  BY DEF SerialInv, IInv, TypeOK, RequestInv
<1> DEFINE b == Book(req[r].period)
           a == IF orig = None THEN e ELSE orig
<1>1. b \in Books /\ r \in Holders(b) /\ a \in Entries
  BY DEF Books, Holders, NumberOps
<1>2. /\ lastNumber' = [lastNumber EXCEPT ![b] = lastNumber[b] + 1]
      /\ req[r].number = lastNumber[b] + 1 /\ lastNumber[b] \in Nat
  <2> HIDE DEF a, b
  <2>1. b = Book(req[r].period) /\ CommitNumber(r, a)
    BY DEF a, b
  <2> QED  BY <1>1, <2>1, CommitNumberKeeps DEF SerialInv
<1>3. ~Numbered(e) /\ entry[e].status = "ABSENT" /\ entry[e].number = 0
  BY <1>t DEF RowInv, FreeRow, Exists, Numbered
<1>4. BookOf(e)' = b /\ Numbered(e)'
  BY <1>2 DEF BookOf, Numbered
<1>5. GapFree'
  <2> HIDE DEF a, b
  <2> QED  BY <1>t, <1>1, <1>2, <1>3, <1>4, NumberTaken DEF SerialInv
<1>6. /\ period'[req[r].period] = "OPEN"
      /\ \A p \in Periods : p # req[r].period => period'[p] = period[p]
  BY <1>t DEF CommittedPeriods, StillSo
<1>7. \A f \in Entries : f # e =>
          /\ Numbered(f)' <=> Numbered(f)
          /\ entry'[f].status \in {"POSTED", "REVERSED"} <=> entry[f].status \in {"POSTED", "REVERSED"}
          /\ Exists(f)' <=> Exists(f)
          /\ entry'[f].status \in Unresolved => entry[f].status \in Unresolved
  <2> TAKE f \in Entries
  <2> HAVE f # e
  <2>1. Numbered(f)' <=> Numbered(f)
    BY DEF Numbered
  <2>2. CASE f = orig
    <3>1. entry'[f].status = "REVERSED" /\ entry[f].status = "POSTED"
      BY <2>2, NoneAssumption
    <3> QED  BY <2>1, <3>1 DEF Exists, Unresolved
  <2>3. CASE f # orig
    <3>1. entry'[f].status = entry[f].status
      BY <2>3
    <3> QED  BY <2>1, <3>1 DEF Exists
  <2> QED  BY <2>2, <2>3
<1> HIDE DEF a, b
<1>8. LedgerNumbered'
  <2>1. ASSUME NEW f \in Entries, f # e
        PROVE  /\ Numbered(f)' <=> entry'[f].status \in {"POSTED", "REVERSED"}
               /\ Exists(f)' => period'[entry'[f].period] # "ABSENT"
    <3>1. Exists(f) => entry[f].period \in Periods
      BY <1>t DEF RowInv
    <3> QED  BY <1>6, <1>7, <2>1, <3>1 DEF SerialInv, LedgerNumbered
  <2>2. /\ Numbered(e)' <=> entry'[e].status \in {"POSTED", "REVERSED"}
        /\ Exists(e)' => period'[entry'[e].period] # "ABSENT"
    BY <1>4, <1>6
  <2> QED  BY <2>1, <2>2 DEF LedgerNumbered
<1>9. LockedSettled'
  <2>1. ASSUME NEW f \in Entries, f # e, Exists(f)', period'[entry'[f].period] = "LOCKED"
        PROVE  entry'[f].status \notin Unresolved
    <3>1. Exists(f) /\ entry[f].period \in Periods
      BY <1>t, <1>7, <2>1 DEF RowInv
    <3>2. period[entry[f].period] = "LOCKED"
      BY <1>6, <2>1, <3>1
    <3> QED  BY <1>7, <2>1, <3>1, <3>2 DEF SerialInv, LockedSettled
  <2>2. entry'[e].status \notin Unresolved
    BY DEF Unresolved
  <2> QED  BY <2>1, <2>2 DEF LockedSettled
<1>10. Grows
  <2>1. ASSUME NEW f \in Entries, f # e, f = orig
        PROVE  /\ <<entry[f].status, entry'[f].status>> \in Documented
               /\ entry'[f].number = entry[f].number /\ entry'[f].lines = entry[f].lines
    BY <2>1, NoneAssumption DEF Documented
  <2>2. ASSUME NEW f \in Entries, f # e, f # orig
        PROVE  /\ entry'[f].status = entry[f].status
               /\ entry'[f].number = entry[f].number /\ entry'[f].lines = entry[f].lines
    BY <2>2
  <2>3. /\ <<entry[e].status, entry'[e].status>> \in Documented
        /\ period'[entry'[e].period] = "OPEN"
    BY <1>3, <1>6 DEF Documented
  <2> QED  BY <1>3, <2>1, <2>2, <2>3 DEF Grows
<1>11. req'[r] = Idle
  BY <1>t DEF Finish
<1> QED  BY <1>5, <1>8, <1>9, <1>10, <1>11, IdleStillSo

LEMMA CommitSerial ==
    ASSUME NEW r \in Requests, SerialInv(r), NEW e \in Entries, CommitReverse(r, e) \/ CommitSystem(r, e)
    PROVE  StillSo(req[r])' /\ LedgerNumbered' /\ LockedSettled' /\ GapFree' /\ Grows
<1>t. /\ req \in [Requests -> RequestType] /\ RequestOK(req[r])
      /\ entry \in [Entries -> EntryType] /\ StillSo(req[r]) /\ RowInv
  BY DEF SerialInv, IInv, TypeOK, RequestInv
<1>1. CASE CommitReverse(r, e)
  <2> DEFINE orig == req[r].entry
  <2>1. /\ req[r].op = "reverse" /\ req[r].step = "write" /\ req[r].period \in Periods
        /\ orig \in Entries /\ orig # None /\ entry[orig].status = "POSTED" /\ orig # e
    BY <1>t, <1>1, NoneAssumption DEF CommitReverse, At, RequestOK, StillSo, Exists
  <2>2. /\ CommitNumber(r, orig) /\ Finish(r) /\ period' = CommittedPeriods(r) /\ ~Exists(e)
    BY <1>1 DEF CommitReverse
  <2>3. /\ entry'[e].status = "POSTED" /\ entry'[e].number = req[r].number
        /\ entry'[e].period = req[r].period
        /\ \A f \in Entries : f # e =>
               /\ entry'[f].number = entry[f].number /\ entry'[f].period = entry[f].period
               /\ entry'[f].lines = entry[f].lines
               /\ entry'[f].status = IF f = orig THEN "REVERSED" ELSE entry[f].status
    BY <1>t, <1>1, <2>1 DEF CommitReverse, FreeRow, EntryType
  <2> HIDE DEF orig
  <2>4. PICK o \in Entries \cup {None} : o = orig
    BY <2>1
  <2> QED  BY <2>1, <2>2, <2>3, <2>4, NewRowSerial
<1>2. CASE CommitSystem(r, e)
  <2>1. /\ req[r].op = "system" /\ req[r].step = "write" /\ req[r].period \in Periods
        /\ CommitNumber(r, e) /\ Finish(r) /\ period' = CommittedPeriods(r) /\ ~Exists(e)
    BY <1>t, <1>2 DEF CommitSystem, At, RequestOK
  <2>2. /\ entry'[e].status = "POSTED" /\ entry'[e].number = req[r].number
        /\ entry'[e].period = req[r].period
        /\ \A f \in Entries : f # e => entry'[f] = entry[f]
    BY <1>t, <1>2 DEF CommitSystem, FreeRow
  <2>3. PICK o \in Entries \cup {None} : o = None
    OBVIOUS
  <2>4. \A f \in Entries : f # o
    BY <2>3, NoneAssumption
  <2> QED  BY <2>1, <2>2, <2>3, <2>4, NewRowSerial
<1> QED  BY <1>1, <1>2

LEMMA SerialStep ==
    ASSUME NEW r, Requests = {r}, SerialInv(r), [Next]_vars
    PROVE  SerialInv(r)' /\ (Grows \/ UNCHANGED vars)
<1>0. r \in Requests /\ IInv'
  BY NextInv DEF SerialInv
<1>1. CASE BeginAny(r)
  BY <1>0, <1>1, BeginSerial DEF SerialInv
<1>2. CASE Continue(r) \/ Drop(r)
  BY <1>0, <1>2, InsideSerial, StatusSerial, PostSerial, InsertSerial, CommitSerial
     DEF SerialInv, Continue
<1>3. CASE UNCHANGED <<ledgerVars, req>>
  <2>1. UNCHANGED <<entry, period, lastNumber, req>>
    BY <1>3 DEF ledgerVars
  <2>2. StillSo(req[r])'
    BY <2>1 DEF SerialInv, StillSo
  <2>3. LedgerNumbered' /\ LockedSettled' /\ GapFree' /\ Grows
    BY <2>1, EntriesStay DEF SerialInv, IInv
  <2> QED  BY <1>0, <2>2, <2>3 DEF SerialInv
<1> QED  BY <1>1, <1>2, <1>3 DEF Next, vars

LEMMA SerialInit ==
    ASSUME NEW r, Requests = {r}, Init
    PROVE  SerialInv(r)
<1>1. IInv
  BY InitInv
<1>2. /\ req[r] = Idle /\ entry = [e \in Entries |-> FreeRow]
      /\ lastNumber = [b \in Books |-> 0]
  BY DEF Init
<1>3. StillSo(req[r])
  BY <1>2 DEF StillSo, Idle
<1>4. LedgerNumbered /\ LockedSettled
  BY <1>2 DEF LedgerNumbered, LockedSettled, Numbered, Exists, FreeRow
<1>5. GapFree
  BY <1>2 DEF GapFree, Numbered, FreeRow
<1> QED  BY <1>1, <1>3, <1>4, <1>5 DEF SerialInv

\* While requests take turns, the entries of a book carry every number that was
\* taken from its sequence: the numbering has no gap.
THEOREM NumberingHasNoGap == ASSUME NEW r, Requests = {r} PROVE Spec => []GapFree
<1>1. Init => SerialInv(r)
  BY SerialInit
<1>2. SerialInv(r) /\ [Next]_vars => SerialInv(r)'
  BY SerialStep
<1>3. SerialInv(r) => GapFree
  BY DEF SerialInv
<1> QED  BY <1>1, <1>2, <1>3, PTL DEF Spec

\* While requests take turns, a locked period holds no entry that is still to be
\* posted or rejected.
THEOREM LockedPeriodsAreSettled == ASSUME NEW r, Requests = {r} PROVE Spec => []LockedSettled
<1>1. Init => SerialInv(r)
  BY SerialInit
<1>2. SerialInv(r) /\ [Next]_vars => SerialInv(r)'
  BY SerialStep
<1>3. SerialInv(r) => LockedSettled
  BY DEF SerialInv
<1> QED  BY <1>1, <1>2, <1>3, PTL DEF Spec

\* While requests take turns, entries go the documented way, enter the ledger in
\* open periods only, and keep their number and lines there.
THEOREM TheLedgerOnlyGrows == ASSUME NEW r, Requests = {r} PROVE Spec => LedgerOnlyGrows
<1>1. Init => SerialInv(r)
  BY SerialInit
<1>2. SerialInv(r) /\ [Next]_vars => SerialInv(r)'
  BY SerialStep
<1>3. SerialInv(r) /\ [Next]_vars => [Grows]_vars
  BY SerialStep
<1> QED  BY <1>1, <1>2, <1>3, PTL DEF Spec, LedgerOnlyGrows, Grows
=============================================================================

----------------------------- MODULE Workforce ------------------------------
(***************************************************************************)
(* Attendance, from clock-ins and from the punches of devices that are     *)
(* folded into the record of the day; the reviews of a cycle; leave        *)
(* against the balance of the year; and the clearance of employees who     *)
(* leave, whose status rolls up the items of a checklist. Shifts, goals,   *)
(* competencies, training and succession are written without a check of    *)
(* what else is there, and left out.                                       *)
(***************************************************************************)
EXTENDS Documents, Functions
LOCAL INSTANCE FiniteSetsExt

CONSTANTS
    WorkDays,          \* of an employee each
    Times,             \* of a day
    Punches, DayOf,
    Cycles,
    Reviews, CycleOf

ASSUME WorkforceAssumption ==
    /\ Times \subseteq Nat
    /\ DayOf \in [Punches -> WorkDays] /\ CycleOf \in [Reviews -> Cycles]

\* AWAY is the ABSENT of the source.  worked: a clock-in or a punch was recorded.
NoDay == [status |-> "ABSENT", from |-> None, until |-> None, shift |-> None, worked |-> FALSE]
NoPunch == [status |-> "ABSENT", kind |-> None, time |-> None]
NoCycle == [status |-> "ABSENT"]
\* peers: who wrote the comments on the review; asked: who was told that his were
\* taken; after: the review was written to when its cycle was CLOSED.
NoReview ==
    [status |-> "ABSENT", rated |-> FALSE, calibrated |-> FALSE, peers |-> {}, asked |-> {},
     after |-> FALSE]

WorkforceTypeOK ==
    /\ \A d \in WorkDays :
          /\ db[d].status \in {"ABSENT", "AWAY", "PRESENT", "LATE", "ON_LEAVE"}
          /\ {db[d].from, db[d].until, db[d].shift} \subseteq Times \cup {None}
    /\ \A p \in Punches : db[p].status \in {"ABSENT", "PENDING", "PROCESSED"}
    /\ \A y \in Cycles : db[y].status \in {"ABSENT", "OPEN", "CALIBRATION", "CLOSED"}
    /\ \A r \in Reviews : db[r].peers \subseteq Users

AssignShift(d, start) == Statement(TRUE, db' = [db EXCEPT ![d].shift = start])

LateStatus(d, from) ==
    IF db[d].shift # None /\ from > db[d].shift THEN "LATE" ELSE "PRESENT"

ClockIn(c, d, t) ==
    \/ Enter(c, "clockIn", "write", d, t, LateStatus(d, t))
    \/ /\ At(c, "clockIn", "write", d, t)
       /\ db' = [db EXCEPT ![d].status = call[c].seen, ![d].from = t, ![d].worked = TRUE]
       /\ Leave(c)

ClockOut(c, d, t) ==
    Handler(c, "clockOut", d, t, ~In(d, {"ABSENT"}), db' = [db EXCEPT ![d].until = t])

\* One statement inserts them all or, if one of the keys is taken, none.
MayInsert(days) == \A d \in days : In(d, {"ABSENT"})

MarkAbsentees(c) ==
    LET missing == {d \in WorkDays : In(d, {"ABSENT"})}
    IN  \/ missing # {} /\ Enter(c, "absentees", "insert", None, None, missing)
        \/ /\ At(c, "absentees", "insert", None, None)
           /\ IF MayInsert(call[c].seen)
              THEN db' = [x \in DOMAIN db |->
                             IF x \in call[c].seen THEN [db[x] EXCEPT !.status = "AWAY"] ELSE db[x]]
              ELSE UNCHANGED db
           /\ Leave(c)

PushBiometricEvent(p, kind, t) ==
    Statement(In(p, {"ABSENT"}),
        db' = [db EXCEPT ![p] = [status |-> "PENDING", kind |-> kind, time |-> t]])

\* The times of the punches that are folded into a day.
TimesOf(punches, kind) == {db[p].time : p \in {q \in punches : db[q].kind = kind}}

\* The punches found unprocessed, day by day: what status the day has, its
\* record, and then that the punches are processed.
ReconcileBiometricEvents(c) ==
    LET pending == {p \in Punches : In(p, {"PENDING"})}
        here(at) == call[c].op = "reconcile" /\ call[c].at = at
        left == call[c].seen.left
        d == call[c].row
        folded == {p \in left : DayOf[p] = d}
        froms == TimesOf(folded, "in")
        untils == TimesOf(folded, "out")
        next(to) == call' = [call EXCEPT ![c].row = to, ![c].at = "day"] /\ UNCHANGED tidy
    IN  \/ \E p \in pending :
              Enter(c, "reconcile", "day", DayOf[p], None, [left |-> pending, status |-> "PRESENT"])
        \/ /\ here("day") /\ UNCHANGED db
           /\ Keep(c, "record",
                 [left |-> left,
                  status |-> IF froms = {} THEN "PRESENT" ELSE LateStatus(d, Min(froms))])
        \/ /\ here("record")
           /\ db' = [db EXCEPT
                 ![d].status = call[c].seen.status, ![d].worked = TRUE,
                 ![d].from = IF froms = {} THEN @ ELSE Min(froms),
                 ![d].until = IF untils = {} THEN @ ELSE Max(untils)]
           /\ Goto(c, "mark")
        \/ /\ here("mark")
           /\ db' = [x \in DOMAIN db |->
                        IF x \in folded THEN [db[x] EXCEPT !.status = "PROCESSED"] ELSE db[x]]
           /\ Keep(c, "next", [call[c].seen EXCEPT !.left = left \ folded])
        \/ here("next") /\ UNCHANGED db /\ \E p \in left : next(DayOf[p])
        \/ here("next") /\ left = {} /\ UNCHANGED db /\ Leave(c)

AttendanceNext ==
    \/ \E d \in WorkDays, t \in Times :
          \/ AssignShift(d, t)
          \/ \E c \in Calls : ClockIn(c, d, t) \/ ClockOut(c, d, t)
    \/ \E p \in Punches, kind \in {"in", "out"}, t \in Times : PushBiometricEvent(p, kind, t)
    \/ \E c \in Calls : MarkAbsentees(c) \/ ReconcileBiometricEvents(c)

-----------------------------------------------------------------------------
CreateCycle(y) == Statement(In(y, {"ABSENT"}), Becomes(y, "OPEN"))

StartCalibration(c, y) ==
    Handler(c, "calibration", y, None, In(y, {"OPEN"}), Becomes(y, "CALIBRATION"))

MayClose(y) == \A r \in Reviews : CycleOf[r] = y => In(r, {"ABSENT", "COMPLETED"})

CloseCycle(c, y) ==
    LET here(at) == At(c, "closeCycle", at, y, None)
    IN  \/ In(y, {"CALIBRATION"}) /\ Enter(c, "closeCycle", "count", y, None, None)
        \/ here("count") /\ UNCHANGED db /\ (IF MayClose(y) THEN Goto(c, "write") ELSE Leave(c))
        \/ here("write") /\ Becomes(y, "CLOSED") /\ Leave(c)

\* The status of the cycle is not looked at, here and in the handlers below.
Reviewed(r, row) ==
    db' = [db EXCEPT ![r] = [row EXCEPT !.after = @ \/ In(CycleOf[r], {"CLOSED"})]]

SubmitSelfAssessment(r) ==
    Statement(~In(CycleOf[r], {"ABSENT"}),
              Reviewed(r, [db[r] EXCEPT !.status = "SELF_ASSESSMENT"]))

\* What these check of the review is never taken back.
SubmitManagerReview(r) ==
    Statement(~In(r, {"ABSENT"}),
              Reviewed(r, [db[r] EXCEPT !.status = "MANAGER_REVIEW", !.rated = TRUE]))
CalibrateReview(r) ==
    Statement(db[r].rated,
              Reviewed(r, [db[r] EXCEPT !.status = "CALIBRATED", !.calibrated = TRUE]))
CompleteReview(r) ==
    Statement(db[r].calibrated, Reviewed(r, [db[r] EXCEPT !.status = "COMPLETED"]))

\* The comments as they were read are written back with one more.
AddPeerFeedback(c, r, u) ==
    \/ ~In(r, {"ABSENT"}) /\ Enter(c, "peer", "write", r, u, db[r].peers)
    \/ /\ At(c, "peer", "write", r, u)
       /\ Reviewed(r, [db[r] EXCEPT !.status = "PEER_REVIEW", !.peers = call[c].seen \cup {u},
                                    !.asked = @ \cup {u}])
       /\ Leave(c)

ReviewsNext ==
    \/ \E y \in Cycles :
          CreateCycle(y) \/ \E c \in Calls : StartCalibration(c, y) \/ CloseCycle(c, y)
    \/ \E r \in Reviews :
          \/ SubmitSelfAssessment(r) \/ SubmitManagerReview(r)
          \/ CalibrateReview(r) \/ CompleteReview(r)
          \/ \E c \in Calls, u \in Users : AddPeerFeedback(c, r, u)

-----------------------------------------------------------------------------
\* Whoever clocked in, or whose punch was taken, is not marked as absent, though a
\* leave that is approved later may cover the day, and a punch is processed only
\* when its day shows it, in any interleaving.
WorkIsRecorded ==
    /\ \A d \in WorkDays : db[d].worked => In(d, {"PRESENT", "LATE", "ON_LEAVE"})
    /\ \A p \in Punches : In(p, {"PROCESSED"}) =>
          LET day == db[DayOf[p]]
          IN  day.worked /\ (IF db[p].kind = "in" THEN day.from ELSE day.until) # None

\* While requests take turns, a cycle is closed with every review completed that
\* is not written to later, and no comment of a peer is lost.
CyclesAreComplete ==
    tidy => \A r \in Reviews :
        /\ In(CycleOf[r], {"CLOSED"}) => In(r, {"ABSENT", "COMPLETED"}) \/ db[r].after
        /\ db[r].peers = db[r].asked

\* A completed review was rated and calibrated, in any interleaving.
CompletedIsCalibrated ==
    \A r \in Reviews : In(r, {"COMPLETED"}) => db[r].rated /\ db[r].calibrated

\* What employees did is on record: the three properties above.
WorkforceSound ==
    WorkforceTypeOK /\ WorkIsRecorded /\ CyclesAreComplete /\ CompletedIsCalibrated

-----------------------------------------------------------------------------
(* Leave and exits *)

CONSTANTS
    Balances, Requests,
    BalanceOf,         \* of a request
    LeaveDays,         \* the days that a request asks for
    Yearly,            \* the days a leave type entitles to
    Carried,           \* the days that may be carried forward
    Exits, Clearances, \* the items of a checklist
    AssetItem          \* the one that asks for what the employee was issued

ASSUME LeaveAssumption ==
    /\ BalanceOf \in [Requests -> Balances]
    /\ LeaveDays \in [Requests -> SUBSET WorkDays] /\ IsFiniteSet(WorkDays)
    /\ \A q \in Requests : LeaveDays[q] # {}
    /\ Yearly \in Nat /\ Carried \subseteq Nat /\ AssetItem \in Clearances

\* most: the most days the balance was ever entitled to; deducted: how often the
\* days of a request were.
NoBalance == [status |-> "ABSENT", entitled |-> 0, used |-> 0, most |-> 0]
NoRequest == [status |-> "ABSENT", deducted |-> 0]
\* held: whether the employee has an asset.
NoExit == [status |-> "ABSENT", cleared |-> {}, held |-> FALSE]

Days == [q \in Requests |-> Cardinality(LeaveDays[q])]

EmploymentTypeOK ==
    /\ \A b \in Balances : db[b].entitled \in Nat /\ db[b].used \in Nat
    /\ \A q \in Requests : db[q].status \in {"ABSENT", "SUBMITTED", "APPROVED", "REJECTED", "CANCELLED"}
    /\ \A e \in Exits : db[e].status \in {"ABSENT", "IN_PROGRESS", "COMPLETED"}
                        /\ db[e].cleared \subseteq Clearances

InitializeBalance(b, carried) ==
    LET entitled == Yearly + carried
    IN  Statement(TRUE,
            db' = [db EXCEPT ![b].status = "OPEN", ![b].entitled = entitled,
                             ![b].most = IF entitled > @ THEN entitled ELSE @])

DaysLeft(b) == db[b].entitled - db[b].used
Affordable(q) == In(BalanceOf[q], {"OPEN"}) /\ Days[q] <= DaysLeft(BalanceOf[q])

RequestLeave(c, q) ==
    Insertion(c, "request", q, None, Affordable(q), Becomes(q, "SUBMITTED"))

MayApproveLeave(q) == In(q, {"SUBMITTED"}) /\ Affordable(q)

\* The balance (the increment is the database's), the record of each day of the
\* leave, whatever it shows, and the status, in one transaction.
GrantLeave(q) ==
    LET granted == [db[q] EXCEPT !.status = "APPROVED", !.deducted = @ + 1]
    IN  db' = [x \in DOMAIN db |->
                  IF x \in LeaveDays[q] THEN [db[x] EXCEPT !.status = "ON_LEAVE"]
                  ELSE IF x = BalanceOf[q] THEN [db[x] EXCEPT !.used = @ + Days[q]]
                  ELSE IF x = q THEN granted ELSE db[x]]

ApproveLeaveRequest(c, q) ==
    Handler(c, "approveLeave", q, None, MayApproveLeave(q), GrantLeave(q))

RejectLeaveRequest(c, q) ==
    Handler(c, "rejectLeave", q, None, In(q, {"SUBMITTED"}), Becomes(q, "REJECTED"))

CancelLeaveRequest(c, q) ==
    Handler(c, "cancelLeave", q, None, In(q, {"SUBMITTED"}), Becomes(q, "CANCELLED"))

LeaveNext ==
    \/ \E b \in Balances, carried \in Carried : InitializeBalance(b, carried)
    \/ \E q \in Requests, c \in Calls :
          \/ RequestLeave(c, q) \/ ApproveLeaveRequest(c, q)
          \/ RejectLeaveRequest(c, q) \/ CancelLeaveRequest(c, q)

-----------------------------------------------------------------------------
InitiateExit(c, e) == Insertion(c, "exit", e, None, TRUE, Becomes(e, "IN_PROGRESS"))

AssignAsset(e) == Statement(~db[e].held, db' = [db EXCEPT ![e].held = TRUE])
ReturnAsset(c, e) == Handler(c, "return", e, None, db[e].held, db' = [db EXCEPT ![e].held = FALSE])

MayClear(e, item) == In(e, {"IN_PROGRESS", "COMPLETED"}) /\ ~(item = AssetItem /\ db[e].held)

AllCleared(e) == db[e].cleared = Clearances

\* The item, then recomputeExitClearanceStatus, which reads all items and writes.
ClearExitItem(c, e, item) ==
    LET here(at) == At(c, "clear", at, e, item)
    IN  \/ MayClear(e, item) /\ Enter(c, "clear", "item", e, item, None)
        \/ /\ here("item")
           /\ db' = [db EXCEPT ![e].cleared = @ \cup {item}]
           /\ Goto(c, "recompute")
        \/ here("recompute") /\ UNCHANGED db /\ Keep(c, "status", AllCleared(e))
        \/ /\ here("status")
           /\ Becomes(e, IF call[c].seen THEN "COMPLETED" ELSE "IN_PROGRESS")
           /\ Leave(c)

ExitsNext ==
    \E e \in Exits :
        \/ AssignAsset(e)
        \/ \E c \in Calls :
              \/ InitiateExit(c, e) \/ ReturnAsset(c, e)
              \/ \E item \in Clearances : ClearExitItem(c, e, item)

-----------------------------------------------------------------------------
Granted(b) == {q \in Requests : BalanceOf[q] = b /\ In(q, {"APPROVED"})}
DaysOf(requests) == FoldFunctionOnSet(+, 0, Days, requests)

\* No leave is approved without being taken from its balance, whatever requests
\* interleave.  As long as they take turns no more is taken, and never more than
\* the balance was good for.
LeaveIsDeducted ==
    \A b \in Balances :
        /\ db[b].used >= DaysOf(Granted(b))
        /\ tidy => db[b].used = DaysOf(Granted(b)) /\ db[b].used <= db[b].most

\* A day shows a leave only if one was granted for it, and a day of a leave that
\* was granted shows the leave or work, never an absence, in any interleaving with
\* clock-ins, punches and the marking of absentees.
LeaveIsShown ==
    /\ \A d \in WorkDays : In(d, {"ON_LEAVE"}) =>
          \E q \in Requests : d \in LeaveDays[q] /\ db[q].deducted > 0
    /\ \A q \in Requests : db[q].deducted > 0 =>
          \A d \in LeaveDays[q] : In(d, {"ON_LEAVE"}) \/ db[d].worked

\* An exit is completed only if every item is cleared; once requests have taken
\* turns it is completed as soon as they are.
ExitsAreCleared ==
    \A e \in Exits :
        /\ In(e, {"COMPLETED"}) => db[e].cleared = Clearances
        /\ tidy /\ Alone /\ db[e].cleared = Clearances => In(e, {"COMPLETED"})

\* Leave and exits follow their records: the three properties above.
EmploymentSound == EmploymentTypeOK /\ LeaveIsDeducted /\ LeaveIsShown /\ ExitsAreCleared
=============================================================================

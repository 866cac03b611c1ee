-------------------------- MODULE ProjectControls ---------------------------
(***************************************************************************)
(* What a project keeps: the bookings of its crews and machines, its risks *)
(* and the issues that they turn into, the task network with its critical  *)
(* path, and the valuations of its work packages with their certificates.  *)
(* Issues that come of no risk, owners and scores are left out.            *)
(***************************************************************************)
EXTENDS Documents, FiniteSetsExt

CONSTANTS
    Bookings,     \* allocations of one resource
    Crew,         \* the quantity that a booking asks for
    Span,         \* the days of a booking
    Capacity,     \* of the resource
    Risks,
    Issues,
    RiskOf        \* the risk that an issue comes of

ASSUME ControlsAssumption ==
    /\ Crew \in [Bookings -> Nat \ {0}] /\ Span \in [Bookings -> SUBSET Nat]
    /\ Capacity \in Nat /\ RiskOf \in [Issues -> Risks]

NoBooking == [status |-> "ABSENT"]
\* occurred: it was OCCURRED once; closed: it was CLOSED once.
NoRisk == [status |-> "ABSENT", occurred |-> FALSE, closed |-> FALSE]
\* solved and closed: what it was once.
NoIssue == [status |-> "ABSENT", solved |-> FALSE, closed |-> FALSE]

OpenBooking == {"PLANNED", "ACTIVE"}

ControlsTypeOK ==
    /\ \A b \in Bookings : db[b].status \in OpenBooking \cup {"ABSENT", "COMPLETED", "CANCELLED"}
    /\ \A r \in Risks :
          db[r].status \in {"ABSENT", "IDENTIFIED", "ASSESSED", "MITIGATING", "MONITORING",
                            "OCCURRED", "CLOSED"}
    /\ \A i \in Issues :
          db[i].status \in {"ABSENT", "OPEN", "IN_PROGRESS", "ESCALATED", "RESOLVED", "CLOSED"}

Committed(open) == MapThenSumSet(LAMBDA b : Crew[b], open)

\* All that overlaps counts, on whatever day it does.
MayBook(b) ==
    LET overlapping == {o \in Bookings : In(o, OpenBooking) /\ Span[o] \cap Span[b] # {}}
    IN  Committed(overlapping) + Crew[b] <= Capacity

AllocateResource(c, b) == Insertion(c, "allocate", b, None, MayBook(b), Becomes(b, "PLANNED"))

\* start, complete, cancel
MoveAllocation(c, b, status) ==
    Handler(c, "moveAllocation", b, status, In(b, OpenBooking), Becomes(b, status))

-----------------------------------------------------------------------------
RiskOpen(r) == ~In(r, {"ABSENT", "CLOSED"})

CreateRisk(r) == Statement(In(r, {"ABSENT"}), Becomes(r, "IDENTIFIED"))

\* The status is written in any case, as it was read.
AssessRisk(c, r) ==
    \/ RiskOpen(r) /\ Enter(c, "assess", "write", r, None, db[r].status)
    \/ /\ At(c, "assess", "write", r, None)
       /\ Becomes(r, IF call[c].seen = "IDENTIFIED" THEN "ASSESSED" ELSE call[c].seen)
       /\ Leave(c)

\* setMitigationPlan, monitorRisk
MoveRisk(c, r, status) == Handler(c, "moveRisk", r, status, RiskOpen(r), Becomes(r, status))

CloseRisk(c, r) ==
    Handler(c, "closeRisk", r, None, RiskOpen(r),
            db' = [db EXCEPT ![r].status = "CLOSED", ![r].closed = TRUE])

\* The risk and its issue in one transaction; an OCCURRED one may occur again.
ConvertRiskToIssue(c, r, i) ==
    Handler(c, "convertRisk", r, i, RiskOpen(r) /\ In(i, {"ABSENT"}) /\ RiskOf[i] = r,
            /\ In(i, {"ABSENT"})
            /\ db' = [db EXCEPT ![r].status = "OCCURRED", ![r].occurred = TRUE,
                                ![i].status = "OPEN"])

\* startIssueWork, escalateIssue
MoveIssue(c, i, status) ==
    Handler(c, "moveIssue", i, status, ~In(i, {"ABSENT", "CLOSED"}), Becomes(i, status))

ResolveIssue(c, i) ==
    Handler(c, "resolveIssue", i, None, ~In(i, {"ABSENT", "CLOSED"}),
            db' = [db EXCEPT ![i].status = "RESOLVED", ![i].solved = TRUE])

CloseIssue(c, i) ==
    Handler(c, "closeIssue", i, None, In(i, {"RESOLVED"}),
            db' = [db EXCEPT ![i].status = "CLOSED", ![i].closed = TRUE])

ResourcesNext ==
    \E b \in Bookings, c \in Calls :
        \/ AllocateResource(c, b)
        \/ \E status \in {"ACTIVE", "COMPLETED", "CANCELLED"} : MoveAllocation(c, b, status)

RisksNext ==
    \/ \E r \in Risks :
          \/ CreateRisk(r)
          \/ \E c \in Calls :
                \/ AssessRisk(c, r) \/ CloseRisk(c, r)
                \/ \E status \in {"MITIGATING", "MONITORING"} : MoveRisk(c, r, status)
                \/ \E i \in Issues : ConvertRiskToIssue(c, r, i)
    \/ \E i \in Issues, c \in Calls :
          \/ ResolveIssue(c, i) \/ CloseIssue(c, i)
          \/ \E status \in {"IN_PROGRESS", "ESCALATED"} : MoveIssue(c, i, status)

-----------------------------------------------------------------------------
\* While requests take turns, the resource is never over-booked on any day.
NotOverbooked ==
    tidy => \A day \in UNION {Span[b] : b \in Bookings} :
        Committed({b \in Bookings : In(b, OpenBooking) /\ day \in Span[b]}) <= Capacity

\* A risk has issues exactly if it occurred, and an issue is closed only once it
\* was resolved, whatever requests interleave; while they take turns, what was
\* closed stays closed.
RisksAccounted ==
    /\ \A r \in Risks : db[r].occurred <=> \E i \in Issues : RiskOf[i] = r /\ ~In(i, {"ABSENT"})
    /\ \A i \in Issues : db[i].closed => db[i].solved
    /\ tidy => \A x \in Risks \cup Issues : db[x].closed => In(x, {"CLOSED"})

\* Resources and risks are in hand: the two properties above.
ControlsSound == ControlsTypeOK /\ NotOverbooked /\ RisksAccounted

-----------------------------------------------------------------------------
(* The task network of a project and its critical path *)

CONSTANTS
    Networks, Tasks, Duration,
    Lags             \* a negative lag is a lead

ASSUME SchedulingAssumption == Duration \in [Tasks -> Nat \ {0}] /\ Lags \subseteq Int

\* edges: predecessor, successor and lag; floats: what was last computed.
NoNetwork == [edges |-> {}, floats |-> None, computed |-> {}]

Successors(edges, t) == {e[2] : e \in {e \in edges : e[1] = t}}
\* canReach, its queries taken together.
CanReach(edges, from, to) ==
    LET within[n \in 0..Cardinality(Tasks)] ==
            IF n = 0 THEN {from}
            ELSE within[n - 1] \cup UNION {Successors(edges, t) : t \in within[n - 1]}
    IN to \in within[Cardinality(Tasks)]
Acyclic(edges) == \A t \in Tasks : \A s \in Successors(edges, t) : ~CanReach(edges, s, t)

MayDepend(edges, a, b) == a # b /\ b \notin Successors(edges, a) /\ ~CanReach(edges, b, a)

\* The pair is a unique key.
AddDependency(c, n, a, b, lag) ==
    Handler(c, "depend", n, <<a, b, lag>>, MayDepend(db[n].edges, a, b),
            IF b \in Successors(db[n].edges, a) THEN UNCHANGED db
            ELSE db' = [db EXCEPT ![n].edges = @ \cup {<<a, b, lag>>}])

\* The forward pass, along a topological order.
EarliestStart(edges) ==
    LET es[t \in Tasks] ==
            LET before == {e \in edges : e[2] = t}
            IN IF before = {} THEN 0
               ELSE Max({es[e[1]] + Duration[e[1]] + e[3] : e \in before})
    IN es
ProjectDuration(edges) == Max({EarliestStart(edges)[t] + Duration[t] : t \in Tasks})

\* The backward pass.
LatestStart(edges) ==
    LET ls[t \in Tasks] ==
            LET after == {e \in edges : e[1] = t}
            IN (IF after = {} THEN ProjectDuration(edges)
                ELSE Min({ls[e[2]] - e[3] : e \in after})) - Duration[t]
    IN ls
Floats(edges) == [t \in Tasks |-> LatestStart(edges)[t] - EarliestStart(edges)[t]]

\* A network with a cycle is refused.
ComputeCriticalPath(c, n) ==
    \/ Acyclic(db[n].edges) /\ Enter(c, "schedule", "write", n, None, db[n].edges)
    \/ /\ At(c, "schedule", "write", n, None)
       /\ db' = [db EXCEPT ![n].floats = Floats(call[c].seen), ![n].computed = call[c].seen]
       /\ Leave(c)

SchedulingNext ==
    \E c \in Calls, n \in Networks :
        \/ ComputeCriticalPath(c, n)
        \/ \E a, b \in Tasks, lag \in Lags : AddDependency(c, n, a, b, lag)

-----------------------------------------------------------------------------
\* While requests take turns, the network has no cycle.
NetworkAcyclic == tidy /\ Alone => \A n \in Networks : Acyclic(db[n].edges)

\* A task that is delayed by its float, and no more, leaves the end of the
\* project where it is; so no float is negative, and without leads the critical
\* tasks lead from the start to the end.
Chain(edges, critical) ==
    \E path \in UNION {[1..n -> critical] : n \in 1..Cardinality(Tasks)} :
        LET last == DOMAIN path
            start[i \in last] ==
                IF i = 1 THEN 0
                ELSE start[i - 1] + Duration[path[i - 1]]
                     + (CHOOSE e \in edges : e[1] = path[i - 1] /\ e[2] = path[i])[3]
        IN /\ \A i \in last \ {1} : path[i] \in Successors(edges, path[i - 1])
           /\ start[Max(last)] + Duration[path[Max(last)]] = ProjectDuration(edges)
FloatsRight ==
    \A n \in Networks : db[n].floats # None =>
        LET edges == db[n].computed IN
        /\ \A t \in Tasks : db[n].floats[t] >= 0
        /\ (\A e \in edges : e[3] >= 0) => Chain(edges, {t \in Tasks : db[n].floats[t] = 0})

\* A network stays one that can be scheduled, and its floats are those of its
\* longest paths.
ScheduleSound == NetworkAcyclic /\ FloatsRight

-----------------------------------------------------------------------------
(* The valuations of a work package, the interim payment certificate of
   each, and the retention that certificates add to and releases take from. *)

CONSTANTS
    Packages, Valuations,
    PackageOf, Retained,   \* the package of a valuation, what its certificate retains
    Parts,                 \* amounts that are released
    MostReleased           \* bound: what is ever released

Workflow == <<"DRAFT", "REVIEWED", "APPROVED", "CERTIFIED">>
Successive(from, to) ==
    \/ to = "REJECTED" /\ from \notin {"ABSENT", "CERTIFIED"}
    \/ \E n \in 1..3 : from = Workflow[n] /\ to = Workflow[n + 1]
Targets == {"REVIEWED", "APPROVED", "CERTIFIED", "REJECTED"}

\* certificate: its status, counted the times it was added to the retention.
NoValuation == [status |-> "ABSENT", certificate |-> "ABSENT", rolled |-> 0]
\* releases: the rows' total; held and released: what the retention says.
NoPackage == [held |-> 0, released |-> 0, releases |-> 0]

CertificatesTypeOK ==
    /\ \A v \in Valuations :
          /\ {db[v].status, db[v].certificate} \subseteq {"ABSENT", "DRAFT"} \cup Targets
          /\ db[v].rolled \in Nat
    /\ \A p \in Packages : {db[p].held, db[p].released, db[p].releases} \subseteq Nat

CreateProgressValuation(v) == Statement(In(v, {"ABSENT"}), Becomes(v, "DRAFT"))

\* advanceGeneric for the valuation; it may leave APPROVED after its
\* certificate was issued.
AdvanceValuation(c, v, target) ==
    Handler(c, "advanceValuation", v, target,
            Successive(db[v].status, target), Becomes(v, target))

MayCertify(v) == In(v, {"APPROVED"}) /\ db[v].certificate = "ABSENT"

\* A second certificate of a valuation is refused by a unique key.
GenerateCertificate(c, v) ==
    Handler(c, "generate", v, None, MayCertify(v),
            db' = [db EXCEPT ![v].certificate = IF @ = "ABSENT" THEN "DRAFT" ELSE @])

\* Mutated form of Retains: an approved certificate counts already.
RetainsEarly(target) == target \in {"APPROVED", "CERTIFIED"}

Retains(target) == target = "CERTIFIED"

\* Certifying adds to the retention what it retains: a read and a write.
AdvanceCertificate(c, v, target) ==
    LET here(at) == At(c, "advance", at, v, target)
    IN  \/ Successive(db[v].certificate, target) /\ Enter(c, "advance", "write", v, target, 0)
        \/ /\ here("write") /\ db' = [db EXCEPT ![v].certificate = target]
           /\ IF Retains(target) THEN Goto(c, "retention") ELSE Leave(c)
        \/ here("retention") /\ UNCHANGED db /\ Keep(c, "roll", db[PackageOf[v]].held)
        \/ /\ here("roll")
           /\ db' = [db EXCEPT ![PackageOf[v]].held = call[c].seen + Retained[v],
                               ![v].rolled = @ + 1]
           /\ Leave(c)

MayReleasePart(p, part) == db[p].released + part <= db[p].held

\* The row of the release and the new total, computed from what was read, in
\* one transaction.
ReleaseRetention(c, p, part) ==
    \/ /\ MayReleasePart(p, part) /\ db[p].releases + part <= MostReleased
       /\ Enter(c, "releaseRetention", "write", p, part, db[p].released)
    \/ /\ At(c, "releaseRetention", "write", p, part)
       /\ db' = [db EXCEPT ![p].releases = @ + part, ![p].released = call[c].seen + part]
       /\ Leave(c)

CertificatesNext ==
    \E c \in Calls :
        \/ \E v \in Valuations :
              \/ CreateProgressValuation(v) \/ GenerateCertificate(c, v)
              \/ \E target \in Targets :
                    AdvanceValuation(c, v, target) \/ AdvanceCertificate(c, v, target)
        \/ \E p \in Packages, part \in Parts : ReleaseRetention(c, p, part)

-----------------------------------------------------------------------------
\* While requests take turns, the retention of a package is what its certified
\* certificates retain, each added once, and releases never exceed it.
RetentionAgrees ==
    tidy /\ Alone => \A p \in Packages :
        /\ db[p].held = MapThenSumSet(LAMBDA v : Retained[v],
               {v \in Valuations : PackageOf[v] = p /\ db[v].certificate = "CERTIFIED"})
        /\ db[p].releases = db[p].released /\ db[p].releases <= db[p].held

\* While requests take turns, a certificate is issued on a valuation that was
\* approved: one that was rejected afterwards, at most, and never a draft.
CertifiedWasApproved ==
    tidy /\ Alone => \A v \in Valuations :
        db[v].certificate # "ABSENT" => db[v].status \in {"APPROVED", "CERTIFIED", "REJECTED"}

\* What a package has released never exceeds what it ever held by the totals it
\* keeps, although both are written from old reads.
TotalsBounded ==
    \A p \in Packages : db[p].released <= MapThenSumSet(LAMBDA v : db[v].rolled * Retained[v],
                                              {v \in Valuations : PackageOf[v] = p})

\* Certificates and retentions agree with the work that was approved:
\* TotalsBounded always, the others while requests take turns.
CertificatesSound ==
    CertificatesTypeOK /\ TotalsBounded /\ RetentionAgrees /\ CertifiedWasApproved
=============================================================================

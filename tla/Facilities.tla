------------------------------ MODULE Facilities ------------------------------
(***************************************************************************)
(* Facilities of a project or a unit, and the maintenance requests that    *)
(* take them out of use and back.  Where a request closes or begins, the   *)
(* facility is read and written after the request was.                     *)
(***************************************************************************)
EXTENDS Documents

CONSTANTS
    Facilities,
    Repairs,      \* maintenance requests
    FacilityOf,
    MostBilled    \* bound: invoices of a request

ASSUME FacilitiesAssumption == FacilityOf \in [Repairs -> Facilities] /\ MostBilled \in Nat

\* decision: the workflow instance that the row names; approved: one of them was
\* approved once; retired: the facility was DECOMMISSIONED once.
NoFacility == [status |-> "OPERATIONAL", decision |-> "none", approved |-> FALSE, retired |-> FALSE]
\* done: it was RESOLVED once; bills and links count the invoices and their links.
NoRepair == [status |-> "ABSENT", done |-> FALSE, bills |-> 0, links |-> 0]

ActiveFacility == {"OPERATIONAL", "UNDER_MAINTENANCE", "OUT_OF_SERVICE"}
OpenMaintenance == {"OPEN", "ASSIGNED", "IN_PROGRESS", "ON_HOLD"}

FacilitiesTypeOK ==
    /\ \A f \in Facilities :
          /\ db[f].status \in ActiveFacility \cup {"DECOMMISSIONED"}
          /\ db[f].decision \in {"none", "PENDING", "APPROVED", "REJECTED", "RETURNED"}
    /\ \A r \in Repairs :
          /\ db[r].status \in OpenMaintenance \cup {"ABSENT", "RESOLVED", "CLOSED", "CANCELLED"}
          /\ db[r].bills \in 0..MostBilled /\ db[r].links \in 0..MostBilled

RecordService(c, f) ==
    Handler(c, "service", f, None, ~In(f, {"DECOMMISSIONED"}), Becomes(f, "OPERATIONAL"))

SetOutOfService(c, f) ==
    Handler(c, "outOfService", f, None, ~In(f, {"DECOMMISSIONED"}), Becomes(f, "OUT_OF_SERVICE"))

\* startInstance, then the row; an instance that another one replaces is lost.
RequestDecommission(c, f) ==
    Handler(c, "requestDecommission", f, None,
        In(f, ActiveFacility) /\ db[f].decision = "none",
        db' = [db EXCEPT ![f].decision = "PENDING"])

DecideDecommission(f, outcome) ==
    Statement(db[f].decision = "PENDING",
        db' = [db EXCEPT ![f].decision = outcome, ![f].approved = @ \/ outcome = "APPROVED"])

\* resubmit, after a return.
ResubmitDecommission(f) ==
    Statement(db[f].decision = "RETURNED", db' = [db EXCEPT ![f].decision = "PENDING"])

Grants == {"APPROVED"}

\* Only what the workflow engine answered counts for the write.
RefreshDecommission(c, f) ==
    LET here(at) == At(c, "refreshDecommission", at, f, None)
    IN  \/ /\ db[f].decision \in {"APPROVED", "REJECTED", "RETURNED"}
           /\ Enter(c, "refreshDecommission", "write", f, None, db[f].decision)
        \/ /\ here("write")
           /\ db' = IF call[c].seen \in Grants
                    THEN [db EXCEPT ![f].status = "DECOMMISSIONED", ![f].decision = "none",
                                    ![f].retired = TRUE]
                    ELSE [db EXCEPT ![f].decision = "none"]
           /\ Leave(c)

-----------------------------------------------------------------------------
CreateMaintenanceRequest(c, r) ==
    Insertion(c, "createRepair", r, None, ~In(FacilityOf[r], {"DECOMMISSIONED"}),
              Becomes(r, "OPEN"))

\* A request that moves from one status to another, and nothing else.
MoveRepair(c, r, op, from, to) == Handler(c, op, r, None, In(r, from), Becomes(r, to))

\* The facility, read after the request was written, goes from one status to another.
Follow(c, op, r, from, to) ==
    LET here(at) == At(c, op, at, r, None)
    IN  \/ /\ here("facility") /\ UNCHANGED db
           /\ IF In(FacilityOf[r], {from}) THEN Goto(c, "follow") ELSE Leave(c)
        \/ here("follow") /\ Becomes(FacilityOf[r], to) /\ Leave(c)

Assign(c, r) ==
    \/ In(r, {"OPEN"}) /\ Enter(c, "assign", "write", r, None, None)
    \/ At(c, "assign", "write", r, None) /\ Becomes(r, "ASSIGNED") /\ Goto(c, "facility")
    \/ Follow(c, "assign", r, "OPERATIONAL", "UNDER_MAINTENANCE")

Resolve(c, r) ==
    Handler(c, "resolve", r, None, In(r, {"ASSIGNED", "IN_PROGRESS", "ON_HOLD"}),
            db' = [db EXCEPT ![r].status = "RESOLVED", ![r].done = TRUE])

\* Other requests that are open at the facility are not looked for.
CloseRepair(c, r) ==
    \/ In(r, {"RESOLVED"}) /\ Enter(c, "closeRepair", "write", r, None, None)
    \/ At(c, "closeRepair", "write", r, None) /\ Becomes(r, "CLOSED") /\ Goto(c, "facility")
    \/ Follow(c, "closeRepair", r, "UNDER_MAINTENANCE", "OPERATIONAL")

\* createInvoice of accounts payable, then the link.
BillVendor(c, r) ==
    LET here(at) == At(c, "billVendor", at, r, None)
    IN  \/ /\ In(r, {"RESOLVED", "CLOSED"}) /\ db[r].links = 0
           /\ Enter(c, "billVendor", "bill", r, None, None)
        \/ /\ here("bill") /\ db[r].bills < MostBilled
           /\ db' = [db EXCEPT ![r].bills = @ + 1]
           /\ Goto(c, "link")
        \/ here("link") /\ db' = [db EXCEPT ![r].links = @ + 1] /\ Leave(c)

RepairsNext ==
    \E r \in Repairs, c \in Calls :
        \/ CreateMaintenanceRequest(c, r) \/ Assign(c, r) \/ Resolve(c, r) \/ CloseRepair(c, r)
        \/ MoveRepair(c, r, "startWork", {"ASSIGNED"}, "IN_PROGRESS")
        \/ MoveRepair(c, r, "hold", {"ASSIGNED", "IN_PROGRESS"}, "ON_HOLD")
        \/ MoveRepair(c, r, "resume", {"ON_HOLD"}, "IN_PROGRESS")
        \/ MoveRepair(c, r, "cancelRepair", OpenMaintenance, "CANCELLED")
        \/ BillVendor(c, r)

FacilitiesNext ==
    \/ RepairsNext
    \/ \E f \in Facilities :
          \/ ResubmitDecommission(f)
          \/ \E outcome \in {"APPROVED", "REJECTED", "RETURNED"} : DecideDecommission(f, outcome)
          \/ \E c \in Calls :
                \/ RecordService(c, f) \/ SetOutOfService(c, f)
                \/ RequestDecommission(c, f) \/ RefreshDecommission(c, f)

-----------------------------------------------------------------------------
\* A facility is taken out for good only after an approval, whatever requests
\* interleave; while they take turns it does not come back.
RetiredForGood ==
    \A f \in Facilities :
        /\ db[f].retired => db[f].approved
        /\ tidy /\ db[f].retired => In(f, {"DECOMMISSIONED"})

\* While requests take turns, a facility under maintenance has a request that was
\* assigned and is not closed; one that was cancelled leaves it so.
MaintainedForReason ==
    tidy /\ Alone =>
        \A f \in Facilities : In(f, {"UNDER_MAINTENANCE"}) =>
            \E r \in Repairs : FacilityOf[r] = f /\ ~In(r, {"ABSENT", "OPEN", "CLOSED"})

\* Only work that was done is billed; a vendor is billed once for it while
\* requests take turns and no link is lost.
BilledWhenDone ==
    \A r \in Repairs :
        /\ db[r].bills > 0 => db[r].done
        /\ db[r].links <= db[r].bills
        /\ tidy => db[r].bills <= 1

\* A facility is out of use and paid for with a reason: the three properties above.
FacilitiesSound == FacilitiesTypeOK /\ RetiredForGood /\ MaintainedForReason /\ BilledWhenDone
=============================================================================

------------------------------- MODULE LandBank -------------------------------
(***************************************************************************)
(* Plots of land that are released to projects, and the master plans of an *)
(* estate.  The status columns of parcels, acquisitions, titles and survey *)
(* plans, which each write overwrites, are left out.                       *)
(***************************************************************************)
EXTENDS Documents

CONSTANTS
    Plots,
    Projects,
    Estates, MasterPlans,
    EstateOf   \* of a plan

ASSUME LandAssumption == EstateOf \in [MasterPlans -> Estates]

\* release: the one row of a plot, which a release that was cancelled uses again;
\* handled: the status was written by hand.
NoPlot == [status |-> "AVAILABLE", release |-> "none", project |-> None, handled |-> FALSE]
NoMasterPlan == [status |-> "ABSENT"]

PlotStatus == {"PLANNED", "AVAILABLE", "RESERVED", "ALLOCATED", "SOLD"}

LandTypeOK ==
    /\ \A p \in Plots :
          /\ db[p].status \in PlotStatus /\ db[p].release \in {"none", "active", "cancelled"}
          /\ db[p].project \in Projects \cup {None}
    /\ \A m \in MasterPlans : db[m].status \in {"ABSENT", "DRAFT", "APPROVED", "SUPERSEDED"}

UpdatePlotStatus(p, status) ==
    Statement(TRUE, db' = [db EXCEPT ![p].status = status, ![p].handled = TRUE])

Released(p, project) ==
    db' = [db EXCEPT ![p].status = "ALLOCATED", ![p].release = "active", ![p].project = project]

\* The row is updated or created as it was read; its unique key refuses a second
\* row, and the transaction with it.
ReleasePlotToProject(c, p, project) ==
    \/ /\ In(p, {"AVAILABLE"}) /\ db[p].release # "active"
       /\ Enter(c, "releasePlot", "write", p, project, db[p].release)
    \/ /\ At(c, "releasePlot", "write", p, project)
       /\ IF call[c].seen = "none" /\ db[p].release # "none" THEN UNCHANGED db
          ELSE Released(p, project)
       /\ Leave(c)

TakeBack(p) == db' = [db EXCEPT ![p].release = "cancelled", ![p].status = "AVAILABLE"]

CancelPlotRelease(c, p) ==
    Handler(c, "cancelPlot", p, None, db[p].release = "active", TakeBack(p))

-----------------------------------------------------------------------------
CreateMasterPlan(m) == Statement(In(m, {"ABSENT"}), Becomes(m, "DRAFT"))

InForce(estate) == {m \in MasterPlans : EstateOf[m] = estate /\ In(m, {"APPROVED"})}

\* The plans that were found in force give way to the plan, in one commit.
Supersede(m, found) ==
    db' = [x \in DOMAIN db |->
              IF x = m THEN [db[x] EXCEPT !.status = "APPROVED"]
              ELSE IF x \in found THEN [db[x] EXCEPT !.status = "SUPERSEDED"]
              ELSE db[x]]

\* The check, what updateMany finds, and the commit.
ApproveMasterPlan(c, m) ==
    LET here(at) == At(c, "approvePlan", at, m, None)
    IN  \/ In(m, {"DRAFT"}) /\ Enter(c, "approvePlan", "find", m, None, {})
        \/ here("find") /\ UNCHANGED db /\ Keep(c, "commit", InForce(EstateOf[m]))
        \/ here("commit") /\ Supersede(m, call[c].seen) /\ Leave(c)

LandNext ==
    \/ \E p \in Plots :
          \/ \E status \in PlotStatus : UpdatePlotStatus(p, status)
          \/ \E c \in Calls :
                CancelPlotRelease(c, p) \/ \E j \in Projects : ReleasePlotToProject(c, p, j)
    \/ \E m \in MasterPlans :
          CreateMasterPlan(m) \/ \E c \in Calls : ApproveMasterPlan(c, m)

-----------------------------------------------------------------------------
\* A plot whose status nobody wrote by hand is allocated exactly while it is
\* released to a project, whichever releases and cancellations overtake.
AllocatedWhileReleased ==
    \A p \in Plots :
        ~db[p].handled => (In(p, {"ALLOCATED"}) <=> db[p].release = "active")

\* An estate that had a plan in force has one, whichever approvals overtake; as
\* long as requests take turns it has only one.
OnePlanInForce ==
    \A estate \in Estates :
        /\ (\E m \in MasterPlans : EstateOf[m] = estate /\ In(m, {"SUPERSEDED"}))
              => InForce(estate) # {}
        /\ tidy => Cardinality(InForce(estate)) <= 1

\* The land follows its plans: AllocatedWhileReleased, OnePlanInForce.
LandSound == LandTypeOK /\ AllocatedWhileReleased /\ OnePlanInForce
=============================================================================

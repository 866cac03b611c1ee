-------------------------------- MODULE Safety --------------------------------
(***************************************************************************)
(* Incidents, the corrective actions that they ask for with the tasks that *)
(* stand for them at the outside service, and inspection checklists.       *)
(* Near misses, equipment and talks are written once, or without a check.  *)
(***************************************************************************)
EXTENDS ExternalCopies

CONSTANTS
    Incidents,
    Corrections, IncidentOf,   \* corrective actions
    Checklists,
    Checks,                    \* the items of a checklist
    Open, Completed            \* what a task shows of its action

ASSUME SafetyAssumption ==
    IncidentOf \in [Corrections -> Incidents] /\ {Open, Completed} \subseteq Versions

NoIncident == [status |-> "ABSENT"]
\* after: the action was added to an incident that was CLOSED; done: it was COMPLETED once.
NoCorrection == [after |-> FALSE, done |-> FALSE] @@ NoCopy
\* changed: an item was recorded after the result was derived.
NoChecklist ==
    [status |-> "ABSENT", items |-> [i \in Checks |-> "unassessed"], result |-> "none",
     changed |-> FALSE]

CaseStatus == {"OPEN", "INVESTIGATING", "CLOSED"}

SafetyTypeOK ==
    /\ \A i \in Incidents : db[i].status \in CaseStatus \cup {"ABSENT"}
    /\ \A a \in Corrections :
          CopyTypeOK(a) /\ db[a].status \in {"ABSENT", "OPEN", "OVERDUE", "COMPLETED"}
    /\ \A x \in Checklists :
          /\ db[x].items \in [Checks -> {"unassessed", "compliant", "non-compliant"}]
          /\ db[x].result \in {"none", "PASS", "FAIL", "PASS_WITH_OBSERVATIONS"}

CreateIncidentReport(i) == Statement(In(i, {"ABSENT"}), Becomes(i, "OPEN"))

MayAdvanceTo(i, status) ==
    /\ ~In(i, {"ABSENT"})
    /\ status = "CLOSED" =>
          \A a \in Corrections : IncidentOf[a] = i => In(a, {"ABSENT", "COMPLETED"})

AdvanceIncidentStatus(c, i, status) ==
    Handler(c, "advanceIncident", i, status, MayAdvanceTo(i, status), Becomes(i, status))

\* Nothing is asked of the incident.
CreateCorrectiveAction(c, a) ==
    LET here(at) == At(c, "createAction", at, a, None)
    IN  \/ /\ In(a, {"ABSENT"}) /\ ~In(IncidentOf[a], {"ABSENT"})
           /\ Enter(c, "createAction", "insert", a, None, None)
        \/ /\ here("insert") /\ In(a, {"ABSENT"})
           /\ db' = [db EXCEPT ![a].status = "OPEN", ![a].version = Open,
                               ![a].after = In(IncidentOf[a], {"CLOSED"})]
           /\ Goto(c, "create")
        \/ here("create") /\ TryCreate(c, a, Open)

\* The task that the action named when it was read is completed.
CompleteCorrectiveAction(c, a) ==
    LET here(at) == At(c, "completeAction", at, a, None)
        read == call[c].seen
    IN  \/ ~In(a, {"ABSENT"}) /\ Enter(c, "completeAction", "write", a, None, Read(a))
        \/ /\ here("write")
           /\ db' = [db EXCEPT ![a].status = "COMPLETED", ![a].version = Completed,
                               ![a].done = TRUE]
           /\ IF read.known THEN Goto(c, "update") ELSE Leave(c)
        \/ here("update") /\ TryUpdate(c, a, Completed, read.failed)

\* One statement for all that are due.
FlagOverdueCorrectiveActions(due) ==
    Statement(\E a \in due : In(a, {"OPEN"}),
        db' = [x \in DOMAIN db |->
                  IF x \in due /\ In(x, {"OPEN"}) THEN [db[x] EXCEPT !.status = "OVERDUE"]
                  ELSE db[x]])

-----------------------------------------------------------------------------
CreateInspectionChecklist(x) == Statement(In(x, {"ABSENT"}), Becomes(x, "PRESENT"))

RecordItemResult(x, i, finding) ==
    Statement(~In(x, {"ABSENT"}),
        db' = [db EXCEPT ![x].items[i] = finding, ![x].changed = db[x].result # "none"])

\* A checklist fails only when every item does.
Outcome(items) ==
    LET found == {items[i] : i \in Checks}
    IN  IF found = {"compliant"} THEN "PASS"
        ELSE IF found = {"non-compliant"} THEN "FAIL" ELSE "PASS_WITH_OBSERVATIONS"

FinalizeChecklist(c, x) ==
    \/ /\ ~In(x, {"ABSENT"}) /\ \A i \in Checks : db[x].items[i] # "unassessed"
       /\ Enter(c, "finalize", "write", x, None, db[x].items)
    \/ /\ At(c, "finalize", "write", x, None)
       /\ db' = [db EXCEPT ![x].result = Outcome(call[c].seen), ![x].changed = FALSE]
       /\ Leave(c)

IncidentsNext ==
    \/ \E i \in Incidents :
          \/ CreateIncidentReport(i)
          \/ \E c \in Calls, status \in CaseStatus : AdvanceIncidentStatus(c, i, status)
    \/ \E a \in Corrections, c \in Calls :
          CreateCorrectiveAction(c, a) \/ CompleteCorrectiveAction(c, a)
    \/ \E due \in (SUBSET Corrections) \ {{}} : FlagOverdueCorrectiveActions(due)

ChecklistsNext ==
    \E x \in Checklists :
        \/ CreateInspectionChecklist(x)
        \/ \E i \in Checks, finding \in {"compliant", "non-compliant"} : RecordItemResult(x, i, finding)
        \/ \E c \in Calls : FinalizeChecklist(c, x)

-----------------------------------------------------------------------------
\* While requests take turns, an incident is closed with every action completed
\* that was not added after it was closed.
ClosedWhenCorrected ==
    tidy => \A i \in Incidents : In(i, {"CLOSED"}) =>
        \A a \in Corrections :
            IncidentOf[a] = i => db[a].after \/ In(a, {"ABSENT", "COMPLETED"})

\* An action that was completed is never flagged as overdue, whatever requests
\* interleave.
CompletedForGood ==
    \A a \in Corrections : db[a].done => In(a, {"COMPLETED"})

\* While requests take turns and no answer is lost, the task of an action that is
\* not flagged agrees with the action.
TasksAgree ==
    tidy /\ Alone => \A a \in Corrections : ~In(a, {"ABSENT"}) => CopyAgrees(a)

\* A result stands on items that were all assessed, in any interleaving, and on
\* what they say while requests take turns and none is recorded later.
ResultStands ==
    \A x \in Checklists : db[x].result # "none" =>
        /\ \A i \in Checks : db[x].items[i] # "unassessed"
        /\ tidy /\ ~db[x].changed => db[x].result = Outcome(db[x].items)

\* Safety at work is followed up: the four properties above.
SafetySound ==
    SafetyTypeOK /\ ClosedWhenCorrected /\ CompletedForGood /\ TasksAgree /\ ResultStands
=============================================================================

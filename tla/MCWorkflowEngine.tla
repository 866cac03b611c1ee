-------------------------- MODULE MCWorkflowEngine --------------------------
(***************************************************************************)
(* Instances of WorkflowEngine for TLC.  Either two requests interleave    *)
(* over the last two stages, of which the last needs two approvals of the  *)
(* CFO, or requests take turns over all three, the second conditional.     *)
(***************************************************************************)
EXTENDS WorkflowEngine, TLC

CONSTANTS
    clerk, cfo,
    RaceRecorded   \* bound: as MaxRecorded, while requests interleave

ThreeStages == {1, 2, 3}
Type3 == 1 :> "REVIEW" @@ 2 :> "APPROVAL" @@ 3 :> "POSTED"
Min3 == 1 :> 2 @@ 2 :> 1 @@ 3 :> 2
MixedRoles3 == 1 :> {None} @@ 2 :> {None} @@ 3 :> {"CLERK", "CFO"}
MCHolders == "CLERK" :> {clerk, cfo} @@ "CFO" :> {cfo}
Symmetry == Permutations(Requests)

Start(left) ==
    \E i \in Instances, last \in IF serial THEN {"CLERK", "CFO"} ELSE {"CFO"} :
        StartInstance(i, left, 1 :> None @@ 2 :> None @@ 3 :> last)

Request(r) ==
    \/ \E i \in Instances :
          BeginResubmit(r, i) \/ \E kind \in ActionKind, user \in Users : BeginAct(r, i, kind, user)
    \/ WorkflowStep(r)

Race ==
    /\ \/ \E left \in SUBSET ThreeStages : 1 \in left /\ Start(left)
       \/ \E r \in Requests : Request(r) \/ FailTask(r)
    /\ \A i \in Instances, s \in Sequences : recorded'[i][s] <= RaceRecorded

OneByOne ==
    \/ \E left \in SUBSET {2} : Start(left)
    \/ \E r \in Requests : (\A q \in Requests \ {r} : task[q] = NoTask) /\ Request(r)

MCNext == serial' = serial /\ IF serial THEN OneByOne ELSE Race
MCSpec == WorkflowInit /\ [][MCNext]_workflowVars
=============================================================================

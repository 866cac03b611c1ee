------------------------ MODULE WorkflowEngineProofs ------------------------
(***************************************************************************)
(* The approval engine never ends an instance short of approvals; when its *)
(* requests take turns, instances go through their stages one by one.      *)
(*                                                                         *)
(* The argument: a stage becomes active only after the stages before it    *)
(* have had their approvals (StageInv), a request counts one approval more *)
(* than it read and has recorded one more by then (TaskInv), and the       *)
(* actions recorded on a stage never decrease.  A stale count is thus too  *)
(* low, never too high.                                                    *)
(*                                                                         *)
(* When requests take turns, the count is exact: TurnInv says, for the one *)
(* request at work and each step it may be at, which stages have been      *)
(* approved, which are yet untouched, and what its stage has received; an  *)
(* instance on which none is at work is at rest.                           *)
(***************************************************************************)
EXTENDS WorkflowEngine, FiniteSetTheorems, WellFoundedInduction, TLAPS

\* No step removes a recorded action, and after an instance has started no
\* step adds or removes a stage.
Grows ==
    /\ \A i \in Instances, s \in Sequences :
        /\ stage'[i][s].status = "ABSENT" <=> stage[i][s].status = "ABSENT"
        /\ recorded'[i][s] >= recorded[i][s]

\* Under such a step the stages of an instance stay the same.
LEMMA SameStages ==
    ASSUME Grows, NEW i \in Instances
    PROVE  /\ StagesOf(i)' = StagesOf(i)
           /\ \A s \in Sequences : LaterStages(i, s)' = LaterStages(i, s)
BY DEF Grows, StagesOf, LaterStages

\* Under such a step what is enough stays enough.
LEMMA EnoughStays ==
    ASSUME WorkflowTypeOK, WorkflowTypeOK', Grows, NEW i \in Instances, NEW s \in Sequences
    PROVE  /\ Enough(i, s) => Enough(i, s)'
           /\ EnoughBefore(i, s) => EnoughBefore(i, s)'
<1>1. \A t \in Sequences : Enough(i, t) => Enough(i, t)'
  BY StageAssumption DEF Grows, Enough, WorkflowTypeOK
<1>2. QED
  BY <1>1, SameStages DEF EnoughBefore, StagesOf

\* Under such a step a request that does not move keeps its invariant.
LEMMA TaskStays ==
    ASSUME WorkflowTypeOK, WorkflowTypeOK', Grows, NEW r \in Requests,
           task[r] # NoTask, task'[r] = task[r], TaskOK(r)
    PROVE  TaskOK(r)'
<1> DEFINE i == task[r].instance
           s == task[r].at
<1>1. task[r] \in TaskType
  BY DEF WorkflowTypeOK
<1>2. i \in Instances /\ s \in Sequences /\ task[r].received \in Nat
  BY <1>1 DEF TaskType
<1>3. StagesOf(i)' = StagesOf(i) /\ LaterStages(i, s)' = LaterStages(i, s)
  <2>1. ASSUME NEW j \in Instances, NEW t \in Sequences
        PROVE  StagesOf(j)' = StagesOf(j) /\ LaterStages(j, t)' = LaterStages(j, t)
    BY <2>1, SameStages
  <2>2. QED
    BY <2>1, <1>2 DEF StagesOf, LaterStages
<1>4. recorded'[i][s] >= recorded[i][s] /\ recorded'[i][s] \in Nat /\ recorded[i][s] \in Nat
  BY <1>2 DEF Grows, WorkflowTypeOK
<1>5. EnoughBefore(i, s)' /\ (Enough(i, s) => Enough(i, s)')
  <2>1. ASSUME NEW j \in Instances, NEW t \in Sequences
        PROVE  (Enough(j, t) => Enough(j, t)') /\ (EnoughBefore(j, t) => EnoughBefore(j, t)')
    BY <2>1, EnoughStays
  <2>2. QED
    BY <2>1, <1>2 DEF TaskOK, Enough, EnoughBefore
<1>6. IsFirst(s, StagesOf(i)) => IsFirst(s, StagesOf(i))'
  BY <1>3 DEF IsFirst
<1>7. QED
  BY <1>2, <1>3, <1>4, <1>5, <1>6 DEF TaskOK

\* A step of request r keeps the invariants once r itself and the stages it
\* writes are accounted for.
LEMMA StepStays ==
    ASSUME WorkflowInv, WorkflowTypeOK', Grows, NEW r \in Requests,
           \A q \in Requests \ {r} : task'[q] = task[q],
           task'[r] # NoTask => TaskOK(r)',
           \A i \in Instances, s \in Sequences :
               stage'[i][s].status = "ACTIVE" /\ stage[i][s].status # "ACTIVE"
               => EnoughBefore(i, s)',
           \A i \in Instances : instance'[i] = "ABSENT" <=> instance[i] = "ABSENT",
           \A i \in Instances :
               instance'[i] \in {"APPROVED", "POSTED"} /\ instance'[i] # instance[i]
               => \A s \in StagesOf(i) : Enough(i, s),
           ApprovalsAreRecorded'
    PROVE  WorkflowInv'
<1>1. StageInv'
  <2>1. ASSUME NEW i \in Instances, NEW s \in ActiveStages(i)'
        PROVE  EnoughBefore(i, s)'
    <3>1. s \in Sequences /\ stage'[i][s].status = "ACTIVE"
      BY <2>1 DEF ActiveStages
    <3>2. stage[i][s].status = "ACTIVE" => EnoughBefore(i, s)
      BY <3>1 DEF WorkflowInv, StageInv, ActiveStages
    <3>3. QED
      BY <3>1, <3>2, EnoughStays DEF WorkflowInv
  <2>2. \A i \in Instances : instance'[i] = "ABSENT" => StagesOf(i)' = {}
    BY SameStages DEF WorkflowInv, StageInv
  <2>3. QED
    BY <2>1, <2>2 DEF StageInv
<1>2. TaskInv'
  <2>1. ASSUME NEW q \in Requests, task'[q] # NoTask
        PROVE  TaskOK(q)'
    <3>1. CASE q = r
      BY <3>1, <2>1 DEF TaskOK, EnoughBefore, Enough, IsFirst, StagesOf, LaterStages
    <3>2. CASE q # r
      <4>1. task'[q] = task[q] /\ task[q] # NoTask /\ TaskOK(q)
        BY <3>2, <2>1 DEF WorkflowInv, TaskInv
      <4>2. QED
        BY <4>1, TaskStays DEF WorkflowInv
    <3>3. QED
      BY <3>1, <3>2
  <2>2. QED
    BY <2>1 DEF TaskInv
<1>3. EnoughApprovals'
  <2>1. ASSUME NEW i \in Instances, instance'[i] \in {"APPROVED", "POSTED"},
               NEW s \in StagesOf(i)'
        PROVE  Enough(i, s)'
    <3>1. s \in StagesOf(i) /\ s \in Sequences
      BY <2>1, SameStages DEF StagesOf
    <3>2. Enough(i, s)
      BY <2>1, <3>1 DEF WorkflowInv, EnoughApprovals, Enough
    <3>3. QED
      BY <3>1, <3>2, EnoughStays DEF WorkflowInv
  <2>2. QED
    BY <2>1 DEF EnoughApprovals, Enough
<1>4. QED
  BY <1>1, <1>2, <1>3 DEF WorkflowInv

\* One stage instance is overwritten by a row that is not absent.
LEMMA OneStage ==
    ASSUME WorkflowTypeOK, NEW i \in Instances, NEW s \in Sequences, NEW row \in StageRow,
           stage' = [stage EXCEPT ![i][s] = row]
    PROVE  /\ stage' \in [Instances -> [Sequences -> StageRow]]
           /\ stage'[i][s] = row
           /\ \A j \in Instances, t \in Sequences :
                j # i \/ t # s => stage'[j][t] = stage[j][t]
BY DEF WorkflowTypeOK

\* Only the requests may have changed.
LEMMA OnlyTask ==
    ASSUME WorkflowInv, UNCHANGED <<instance, stage, recorded, fresh>>, NEW r \in Requests,
           \A q \in Requests \ {r} : task'[q] = task[q],
           task' \in [Requests -> TaskType \cup {NoTask}],
           task'[r] # NoTask => TaskOK(r)'
    PROVE  WorkflowInv'
<1>1. WorkflowTypeOK' /\ Grows
  BY DEF WorkflowInv, WorkflowTypeOK, Grows
<1>2. ApprovalsAreRecorded'
  BY DEF WorkflowInv, ApprovalsAreRecorded
<1>3. QED
  BY <1>1, <1>2, StepStays

LEMMA BeginActStep ==
    ASSUME WorkflowInv, NEW r \in Requests, NEW i \in Instances, NEW kind \in ActionKind,
           NEW user \in Users, BeginAct(r, i, kind, user)
    PROVE  WorkflowInv'
<1>1. PICK s \in ActiveStages(i) :
        task' = [task EXCEPT ![r] =
            [step |-> "record", kind |-> kind, instance |-> i, at |-> s,
             received |-> stage[i][s].received]]
  BY DEF BeginAct
<1>2. s \in Sequences /\ s \in StagesOf(i) /\ EnoughBefore(i, s)
  BY DEF ActiveStages, StagesOf, WorkflowInv, StageInv
<1>3. stage[i][s].received \in Nat /\ stage[i][s].received <= recorded[i][s]
  BY <1>2 DEF WorkflowInv, WorkflowTypeOK, StageRow, ApprovalsAreRecorded
<1>4. task' \in [Requests -> TaskType \cup {NoTask}]
  BY <1>1, <1>2, <1>3 DEF WorkflowInv, WorkflowTypeOK, TaskType, TaskStep
<1>5. task'[r] = [step |-> "record", kind |-> kind, instance |-> i, at |-> s,
                  received |-> stage[i][s].received]
  BY <1>1 DEF WorkflowInv, WorkflowTypeOK
<1>6. TaskOK(r)'
  BY <1>2, <1>3, <1>5 DEF TaskOK, BeginAct, EnoughBefore, Enough, StagesOf, ActionKind
<1>7. QED
  BY <1>1, <1>4, <1>6, OnlyTask DEF BeginAct, WorkflowInv, WorkflowTypeOK

LEMMA BeginResubmitStep ==
    ASSUME WorkflowInv, NEW r \in Requests, NEW i \in Instances, BeginResubmit(r, i)
    PROVE  WorkflowInv'
<1>1. PICK s \in StagesOf(i) :
        /\ IsFirst(s, StagesOf(i))
        /\ task' = [task EXCEPT ![r] =
               [step |-> "restart", kind |-> "RESUBMIT", instance |-> i, at |-> s,
                received |-> 0]]
  BY DEF BeginResubmit
<1>2. s \in Sequences /\ EnoughBefore(i, s)
  <2>1. s \in Sequences /\ \A t \in StagesOf(i) : t \in Sequences /\ s <= t
    BY <1>1 DEF StagesOf, IsFirst
  <2>2. \A t \in Sequences : t \in Nat
    BY StageAssumption
  <2>3. QED
    BY <2>1, <2>2 DEF EnoughBefore
<1>3. task' \in [Requests -> TaskType \cup {NoTask}]
  BY <1>1, <1>2 DEF WorkflowInv, WorkflowTypeOK, TaskType, TaskStep
<1>4. task'[r] = [step |-> "restart", kind |-> "RESUBMIT", instance |-> i, at |-> s,
                  received |-> 0]
  BY <1>1 DEF WorkflowInv, WorkflowTypeOK
<1>5. TaskOK(r)'
  BY <1>1, <1>2, <1>4
     DEF TaskOK, BeginResubmit, EnoughBefore, Enough, StagesOf, IsFirst
<1>6. QED
  BY <1>1, <1>3, <1>5, OnlyTask DEF BeginResubmit, WorkflowInv, WorkflowTypeOK

LEMMA FailStep ==
    ASSUME WorkflowInv, NEW r \in Requests, FailTask(r)
    PROVE  WorkflowInv'
<1>1. task' = [task EXCEPT ![r] = NoTask]
  BY DEF FailTask, EndTask
<1>2. task' \in [Requests -> TaskType \cup {NoTask}] /\ task'[r] = NoTask
  BY <1>1 DEF WorkflowInv, WorkflowTypeOK
<1>3. QED
  BY <1>1, <1>2, OnlyTask DEF FailTask, WorkflowInv, WorkflowTypeOK

LEMMA RecordActionStep ==
    ASSUME WorkflowInv, NEW r \in Requests, RecordAction(r)
    PROVE  WorkflowInv'
<1>1. task[r] \in TaskType /\ task[r] # NoTask /\ task[r].step = "record" /\ TaskOK(r)
  BY DEF RecordAction, AtStep, NoTask, WorkflowInv, WorkflowTypeOK, TaskInv
<1>2. PICK i \in Instances, s \in Sequences : i = task[r].instance /\ s = task[r].at
  BY <1>1 DEF TaskType
<1>0. task[r].received \in Nat
  BY <1>1 DEF TaskType
<1>3. /\ recorded' \in [Instances -> [Sequences -> Nat]]
      /\ fresh' \in [Instances -> [Sequences -> Nat]]
      /\ \A j \in Instances, t \in Sequences : recorded'[j][t] >= recorded[j][t]
      /\ task[r].kind = "ADVANCE" => recorded'[i][s] = recorded[i][s] + 1
  <2>0. recorded \in [Instances -> [Sequences -> Nat]] /\ fresh \in [Instances -> [Sequences -> Nat]]
    BY DEF WorkflowInv, WorkflowTypeOK
  <2>1. CASE task[r].kind = "ADVANCE"
    <3>1. recorded' = [recorded EXCEPT ![i][s] = @ + 1] /\ fresh' = [fresh EXCEPT ![i][s] = @ + 1]
      BY <2>1, <1>2 DEF RecordAction
    <3>2. QED
      BY <3>1, <2>0, <1>2
  <2>2. CASE task[r].kind # "ADVANCE"
    BY <2>2, <1>2 DEF RecordAction, WorkflowInv, WorkflowTypeOK
  <2>3. QED
    BY <2>1, <2>2
<1>4. task'[r] = (IF task[r].kind = "COMMENT" THEN NoTask ELSE [task[r] EXCEPT !.step = "stage"])
      /\ \A q \in Requests \ {r} : task'[q] = task[q]
  BY DEF RecordAction, EndTask, MoveTo, WorkflowInv, WorkflowTypeOK
<1>5. task' \in [Requests -> TaskType \cup {NoTask}]
  <2>1. [task[r] EXCEPT !.step = "stage"] \in TaskType
    BY <1>1 DEF TaskType, TaskStep
  <2>2. task \in [Requests -> TaskType \cup {NoTask}]
    BY DEF WorkflowInv, WorkflowTypeOK
  <2>3. QED
    BY <2>1, <2>2 DEF RecordAction, EndTask, MoveTo
<1>6. WorkflowTypeOK' /\ Grows
  BY <1>3, <1>5 DEF RecordAction, WorkflowInv, WorkflowTypeOK, Grows
<1>7. ASSUME task'[r] # NoTask
      PROVE  TaskOK(r)'
  <2>1. task'[r] = [task[r] EXCEPT !.step = "stage"] /\ task[r].kind # "COMMENT"
    BY <1>7, <1>4
  <2>2. /\ task'[r].step = "stage" /\ task'[r].kind = task[r].kind
        /\ task'[r].instance = i /\ task'[r].at = s /\ task'[r].received = task[r].received
    BY <2>1, <1>1, <1>2 DEF TaskType
  <2>3. s \in StagesOf(i)' /\ EnoughBefore(i, s)'
    <3>1. ASSUME NEW j \in Instances, NEW t \in Sequences
          PROVE  /\ StagesOf(j)' = StagesOf(j)
                 /\ EnoughBefore(j, t) => EnoughBefore(j, t)'
      BY <3>1, <1>6, SameStages, EnoughStays DEF WorkflowInv
    <3>2. QED
      BY <3>1, <1>1, <1>2 DEF TaskOK
  <2>4. task[r].kind = "ADVANCE" => task[r].received < recorded'[i][s]
    BY <1>0, <1>1, <1>2, <1>3 DEF TaskOK, WorkflowInv, WorkflowTypeOK
  <2>5. task[r].kind # "RESUBMIT"
    BY <1>1 DEF TaskOK
  <2>6. task[r].kind = "ADVANCE" => task[r].received <= recorded'[i][s]
    BY <2>4, <1>0, <1>2, <1>3
  <2>7. QED
    BY <1>2, <2>1, <2>2, <2>3, <2>4, <2>5, <2>6
       DEF TaskOK, StagesOf, EnoughBefore, Enough
<1>8. ApprovalsAreRecorded'
  BY <1>3 DEF RecordAction, WorkflowInv, WorkflowTypeOK, StageRow, ApprovalsAreRecorded
<1>9. QED
  BY <1>4, <1>6, <1>7, <1>8, StepStays DEF RecordAction

\* The row after both of its changing columns are assigned.
LEMMA RowUpdate ==
    ASSUME NEW old \in StageRow, NEW status, NEW received
    PROVE  [old EXCEPT !.status = status, !.received = received]
               = [status |-> status, role |-> old.role, received |-> received]
<1>1. PICK new : new = [old EXCEPT !.status = status, !.received = received]
  OBVIOUS
<1>2. /\ new.status = status /\ new.role = old.role /\ new.received = received
      /\ DOMAIN new = {"status", "role", "received"}
  BY <1>1 DEF StageRow
<1>3. new = [x \in DOMAIN new |-> new[x]]
  BY <1>1
<1>4. QED
  BY <1>1, <1>2, <1>3

\* What a request about to take a step satisfies.
LEMMA TaskFacts ==
    ASSUME WorkflowInv, NEW r \in Requests, NEW step \in TaskStep, AtStep(r, step)
    PROVE  /\ task[r] \in TaskType /\ task[r] # NoTask /\ task[r].step = step
           /\ task[r].instance \in Instances /\ task[r].at \in Sequences
           /\ task[r].received \in Nat /\ task[r].kind \in ActionKind \cup {"RESUBMIT"}
           /\ TaskOK(r)
           /\ task \in [Requests -> TaskType \cup {NoTask}]
<1>1. task[r] # NoTask /\ task[r].step = step
  BY DEF AtStep
<1>2. task \in [Requests -> TaskType \cup {NoTask}] /\ task[r] \in TaskType /\ TaskOK(r)
  <2>1. task \in [Requests -> TaskType \cup {NoTask}]
    BY DEF WorkflowInv, WorkflowTypeOK
  <2>2. task[r] \in TaskType
    BY <1>1, <2>1
  <2>3. TaskOK(r)
    BY <1>1 DEF WorkflowInv, TaskInv
  <2> QED  BY <2>1, <2>2, <2>3
<1>3. QED
  BY <1>1, <1>2 DEF TaskType

LEMMA WriteStageStep ==
    ASSUME WorkflowInv, NEW r \in Requests, WriteStage(r)
    PROVE  WorkflowInv'
<1>1. PICK t \in TaskType : t = task[r] /\ t # NoTask /\ t.step = "stage"
  BY TaskFacts DEF WriteStage, TaskStep
<1>2. PICK i \in Instances, s \in Sequences : i = t.instance /\ s = t.at
  BY SMTT(30), <1>1 DEF TaskType
<1>3. TaskOK(r) /\ t.received \in Nat /\ t.kind \in ActionKind \cup {"RESUBMIT"}
      /\ task \in [Requests -> TaskType \cup {NoTask}]
  BY <1>1, TaskFacts DEF WriteStage, TaskStep
<1>4. /\ s \in StagesOf(i) /\ EnoughBefore(i, s)
      /\ t.kind # "RESUBMIT" /\ t.kind # "COMMENT"
      /\ t.kind = "ADVANCE" => t.received < recorded[i][s]
  BY <1>1, <1>2, <1>3 DEF TaskOK
<1>5. stage[i][s] \in StageRow /\ recorded[i][s] \in Nat /\ MinApprovals[s] \in Nat
      /\ stage \in [Instances -> [Sequences -> StageRow]]
      /\ stage[i][s].received \in Nat /\ stage[i][s].received <= recorded[i][s]
      /\ stage[i][s].role \in Roles \cup {None}
  BY StageAssumption DEF WorkflowInv, WorkflowTypeOK, StageRow, ApprovalsAreRecorded
<1>6. PICK row : row = [status |-> StageAfter(t), role |-> stage[i][s].role,
                        received |-> ReceivedAfter(t, stage[i][s].received)]
  OBVIOUS
<1>7. /\ row \in StageRow /\ row.status # "ABSENT" /\ row.received <= recorded[i][s]
      /\ row.status = "ACTIVE" => t.kind = "ADVANCE"
  BY <1>3, <1>4, <1>5, <1>6 DEF StageRow, StageAfter, ReceivedAfter, StageStatus, ActionKind
<1>8. stage' = [stage EXCEPT ![i][s] = row]
  <2>1. stage' = [stage EXCEPT ![i][s].status = StageAfter(t),
                               ![i][s].received = ReceivedAfter(t, stage[i][s].received)]
    BY <1>1, <1>2 DEF WriteStage
  <2>2. [[stage[i][s] EXCEPT !.status = StageAfter(t)]
            EXCEPT !.received = ReceivedAfter(t, stage[i][s].received)] = row
    <3>1. stage[i][s] \in StageRow
      BY <1>5
    <3>2. QED
      BY <3>1, <1>6, RowUpdate
  <2>3. QED
    BY <2>1, <2>2, <1>5
<1>9. /\ stage' \in [Instances -> [Sequences -> StageRow]]
      /\ stage'[i][s] = row
      /\ \A j \in Instances, q \in Sequences : j # i \/ q # s => stage'[j][q] = stage[j][q]
  BY <1>5, <1>7, <1>8, OneStage
<1>10. /\ task'[r] = NoTask \/ \E step \in {"next", "end"} : task'[r] = [t EXCEPT !.step = step]
       /\ \A q \in Requests \ {r} : task'[q] = task[q]
       /\ task' \in [Requests -> TaskType \cup {NoTask}]
  <2>1. \A step \in {"next", "end"} : [t EXCEPT !.step = step] \in TaskType
    BY DEF TaskType, TaskStep
  <2>2. \/ task' = [task EXCEPT ![r] = NoTask]
        \/ task' = [task EXCEPT ![r] = [t EXCEPT !.step = "next"]]
        \/ task' = [task EXCEPT ![r] = [t EXCEPT !.step = "end"]]
    <3>1. EndTask(r) \/ MoveTo(r, "next") \/ MoveTo(r, "end")
      BY DEF WriteStage
    <3>2. QED
      BY SMTT(30), <3>1, <1>1, <1>3 DEF EndTask, MoveTo
  <2>3. QED
    BY <2>1, <2>2, <1>3
<1>11. WorkflowTypeOK' /\ Grows
  <2>1. recorded' = recorded /\ fresh' = fresh /\ instance' = instance
    BY DEF WriteStage
  <2>2. WorkflowTypeOK'
    BY <2>1, <1>9, <1>10 DEF WorkflowInv, WorkflowTypeOK
  <2>3. stage[i][s].status # "ABSENT"
    BY <1>4 DEF StagesOf
  <2>4. \A j \in Instances, q \in Sequences :
          stage'[j][q].status = "ABSENT" <=> stage[j][q].status = "ABSENT"
    BY <1>7, <1>9, <2>3
  <2>5. QED
    BY SMTT(30), <2>1, <2>2, <2>4 DEF Grows, WorkflowInv, WorkflowTypeOK
<1>12. \A j \in Instances, q \in Sequences :
         /\ StagesOf(j)' = StagesOf(j) /\ LaterStages(j, q)' = LaterStages(j, q)
         /\ Enough(j, q) => Enough(j, q)'
         /\ EnoughBefore(j, q) => EnoughBefore(j, q)'
  BY <1>11, SameStages, EnoughStays DEF WorkflowInv
<1>13. ASSUME task'[r] # NoTask
       PROVE  TaskOK(r)'
  <2>1. PICK step \in {"next", "end"} : task'[r] = [t EXCEPT !.step = step]
    BY <1>13, <1>10
  <2>2. /\ task'[r].step = step /\ task'[r].kind = t.kind
        /\ task'[r].instance = i /\ task'[r].at = s /\ task'[r].received = t.received
    BY <2>1, <1>2 DEF TaskType
  <2>3. /\ step = "next" => t.kind = "ADVANCE"
        /\ t.kind = "ADVANCE" => Complete(t)
        /\ t.kind = "ADVANCE" /\ step = "end" => LaterStages(i, s) = {}
    BY <1>1, <1>2, <1>3, <2>1, <2>2, <1>13 DEF WriteStage, EndTask, MoveTo, NoTask, TaskType
  <2>4. t.kind = "ADVANCE" => Enough(i, s)
    BY SMTT(30), <2>3, <1>2, <1>3, <1>4, <1>5 DEF Complete, Enough
  <2>5. recorded' = recorded
    BY DEF WriteStage
  <2>6. s \in StagesOf(i)' /\ EnoughBefore(i, s)' /\ (Enough(i, s) => Enough(i, s)')
        /\ LaterStages(i, s)' = LaterStages(i, s)
    BY <1>12, <1>4
  <2>7. t.kind = "ADVANCE" => t.received <= recorded'[i][s]
    BY SMTT(30), <2>5, <1>3, <1>4, <1>5
  <2>8. QED
    BY <2>2, <2>3, <2>4, <2>6, <2>7, <1>4 DEF TaskOK
<1>14. ApprovalsAreRecorded'
  BY <1>7, <1>9 DEF WriteStage, WorkflowInv, ApprovalsAreRecorded
<1>15. ASSUME NEW j \in Instances, NEW q \in Sequences,
              stage'[j][q].status = "ACTIVE", stage[j][q].status # "ACTIVE"
       PROVE  EnoughBefore(j, q)'
  BY <1>4, <1>9, <1>12, <1>15
<1>16. QED
  BY ZenonT(40), <1>10, <1>11, <1>13, <1>14, <1>15, StepStays DEF WriteStage

\* Request r makes the row of stage s of instance i active or resets it, and
\* goes on; its own invariant is shown by the caller.
LEMMA ActiveStep ==
    ASSUME WorkflowInv, NEW r \in Requests, NEW i \in Instances, NEW s \in StagesOf(i),
           EnoughBefore(i, s),
           NEW received \in Nat, received <= recorded[i][s],
           stage' = [stage EXCEPT ![i][s] =
               [status |-> "ACTIVE", role |-> stage[i][s].role, received |-> received]],
           UNCHANGED <<instance, recorded, fresh>>,
           \A q \in Requests \ {r} : task'[q] = task[q],
           task' \in [Requests -> TaskType \cup {NoTask}],
           Grows => (task'[r] # NoTask => TaskOK(r)')
    PROVE  WorkflowInv'
<1>1. s \in Sequences /\ stage[i][s].status # "ABSENT"
  BY DEF StagesOf
<1>2. PICK row : row = [status |-> "ACTIVE", role |-> stage[i][s].role, received |-> received]
  OBVIOUS
<1>3. row \in StageRow
  BY <1>1, <1>2 DEF StageRow, StageStatus, WorkflowInv, WorkflowTypeOK
<1>4. /\ stage' \in [Instances -> [Sequences -> StageRow]]
      /\ stage'[i][s] = row
      /\ \A j \in Instances, q \in Sequences : j # i \/ q # s => stage'[j][q] = stage[j][q]
  <2>1. stage' = [stage EXCEPT ![i][s] = row]
    BY <1>2
  <2>2. stage \in [Instances -> [Sequences -> StageRow]] /\ s \in Sequences
    BY <1>1 DEF WorkflowInv, WorkflowTypeOK
  <2>3. QED
    BY <2>1, <2>2, <1>3
<1>5. WorkflowTypeOK'
  BY <1>4 DEF WorkflowInv, WorkflowTypeOK
<1>6. Grows
  BY <1>1, <1>2, <1>4, <1>5 DEF Grows, WorkflowInv, WorkflowTypeOK
<1>7. EnoughBefore(i, s)'
  BY <1>1, <1>5, <1>6, EnoughStays DEF WorkflowInv
<1>8. ApprovalsAreRecorded'
  BY <1>1, <1>2, <1>4 DEF WorkflowInv, ApprovalsAreRecorded
<1>9. ASSUME NEW j \in Instances, NEW q \in Sequences,
             stage'[j][q].status = "ACTIVE", stage[j][q].status # "ACTIVE"
      PROVE  EnoughBefore(j, q)'
  BY <1>4, <1>7, <1>9
<1>10. QED
  BY <1>5, <1>6, <1>8, <1>9, StepStays

LEMMA ActivateNextStep ==
    ASSUME WorkflowInv, NEW r \in Requests, ActivateNext(r)
    PROVE  WorkflowInv'
<1>1. PICK t \in TaskType : t = task[r] /\ t # NoTask /\ t.step = "next"
  BY TaskFacts DEF ActivateNext, TaskStep
<1>2. PICK i \in Instances, s \in Sequences : i = t.instance /\ s = t.at
  BY <1>1 DEF TaskType
<1>3. TaskOK(r) /\ task \in [Requests -> TaskType \cup {NoTask}]
  BY <1>1, TaskFacts DEF ActivateNext, TaskStep
<1>4. EnoughBefore(i, s) /\ Enough(i, s)
  BY <1>1, <1>2, <1>3 DEF TaskOK
<1>5. PICK n \in LaterStages(i, s) :
        /\ IsFirst(n, LaterStages(i, s))
        /\ stage' = [stage EXCEPT ![i][n].status = "ACTIVE"]
  BY <1>1, <1>2 DEF ActivateNext
<1>6. n \in StagesOf(i) /\ n \in Sequences
  BY DEF LaterStages, StagesOf
<1>7. EnoughBefore(i, n)
  <2>1. ASSUME NEW q \in StagesOf(i), q < n
        PROVE  Enough(i, q)
    <3>1. q \in Nat /\ n \in Nat /\ s \in Nat
      BY <1>6, StageAssumption DEF StagesOf
    <3>2. ~ q > s
      BY <1>5, <2>1, <3>1 DEF IsFirst, LaterStages
    <3>3. q < s \/ q = s
      BY <3>1, <3>2
    <3>4. QED
      BY <1>4, <3>3 DEF EnoughBefore
  <2>2. QED
    BY <2>1 DEF EnoughBefore
<1>8. /\ stage[i][n] \in StageRow /\ stage[i][n].received \in Nat
      /\ stage[i][n].received <= recorded[i][n]
  BY <1>6 DEF WorkflowInv, WorkflowTypeOK, StageRow, ApprovalsAreRecorded
<1>9. stage' = [stage EXCEPT ![i][n] =
          [status |-> "ACTIVE", role |-> stage[i][n].role, received |-> stage[i][n].received]]
  <2>1. [stage[i][n] EXCEPT !.status = "ACTIVE"] =
          [status |-> "ACTIVE", role |-> stage[i][n].role, received |-> stage[i][n].received]
    BY <1>8 DEF StageRow
  <2>2. QED
    BY <1>5, <2>1
<1>10. task' \in [Requests -> TaskType \cup {NoTask}] /\ task'[r] = NoTask
       /\ \A q \in Requests \ {r} : task'[q] = task[q]
  BY <1>3 DEF ActivateNext, EndTask
<1>11. QED
  BY <1>6, <1>7, <1>8, <1>9, <1>10, ActiveStep DEF ActivateNext

LEMMA RestartFirstStep ==
    ASSUME WorkflowInv, NEW r \in Requests, RestartFirst(r)
    PROVE  WorkflowInv'
<1>1. PICK t \in TaskType : t = task[r] /\ t # NoTask /\ t.step = "restart"
  BY TaskFacts DEF RestartFirst, TaskStep
<1>2. PICK i \in Instances, s \in Sequences : i = t.instance /\ s = t.at
  BY SMTT(30), <1>1 DEF TaskType
<1>3. TaskOK(r) /\ task \in [Requests -> TaskType \cup {NoTask}]
  BY <1>1, TaskFacts DEF RestartFirst, TaskStep
<1>4. /\ s \in StagesOf(i) /\ EnoughBefore(i, s) /\ t.kind = "RESUBMIT"
      /\ IsFirst(s, StagesOf(i))
  BY <1>1, <1>2, <1>3 DEF TaskOK
<1>5. stage[i][s] \in StageRow /\ 0 <= recorded[i][s]
  BY DEF WorkflowInv, WorkflowTypeOK
<1>6. stage' = [stage EXCEPT ![i][s] =
          [status |-> "ACTIVE", role |-> stage[i][s].role, received |-> 0]]
  <2>1. [[stage[i][s] EXCEPT !.status = "ACTIVE"] EXCEPT !.received = 0] =
          [status |-> "ACTIVE", role |-> stage[i][s].role, received |-> 0]
    BY <1>5, RowUpdate
  <2>2. stage' = [stage EXCEPT ![i][s].status = "ACTIVE", ![i][s].received = 0]
    BY <1>1, <1>2 DEF RestartFirst
  <2>3. QED
    BY <2>1, <2>2, <1>5 DEF WorkflowInv, WorkflowTypeOK
<1>7. /\ task'[r] = [t EXCEPT !.step = "log"] /\ [t EXCEPT !.step = "log"] \in TaskType
      /\ \A q \in Requests \ {r} : task'[q] = task[q]
      /\ task' \in [Requests -> TaskType \cup {NoTask}]
  <2>1. [t EXCEPT !.step = "log"] \in TaskType
    BY DEF TaskType, TaskStep
  <2>2. task' = [task EXCEPT ![r] = [t EXCEPT !.step = "log"]]
    BY <1>1, <1>3 DEF RestartFirst, MoveTo
  <2>3. QED
    BY <2>1, <2>2, <1>3
<1>8. /\ task'[r].step = "log" /\ task'[r].kind = "RESUBMIT"
      /\ task'[r].instance = i /\ task'[r].at = s
  BY <1>2, <1>4, <1>7 DEF TaskType
<1>9. ASSUME Grows
      PROVE  TaskOK(r)'
  <2>1. StagesOf(i)' = StagesOf(i)
    BY SMTT(30), <1>9, SameStages
  <2>2. EnoughBefore(i, s)'
    BY <2>1, <1>4 DEF EnoughBefore, Enough, RestartFirst
  <2>3. QED
    BY <1>4, <1>8, <2>1, <2>2 DEF TaskOK, IsFirst
<1>10. QED
  BY ZenonT(40), <1>4, <1>5, <1>6, <1>7, <1>9, ActiveStep DEF RestartFirst

LEMMA LogResubmitStep ==
    ASSUME WorkflowInv, NEW r \in Requests, LogResubmit(r)
    PROVE  WorkflowInv'
<1>1. PICK t \in TaskType : t = task[r] /\ t # NoTask /\ t.step = "log"
  BY TaskFacts DEF LogResubmit, TaskStep
<1>2. PICK i \in Instances, s \in Sequences : i = t.instance /\ s = t.at
  BY <1>1 DEF TaskType
<1>3. TaskOK(r) /\ task \in [Requests -> TaskType \cup {NoTask}]
  BY <1>1, TaskFacts DEF LogResubmit, TaskStep
<1>4. /\ s \in StagesOf(i) /\ EnoughBefore(i, s) /\ t.kind = "RESUBMIT"
      /\ IsFirst(s, StagesOf(i))
  BY <1>1, <1>2, <1>3 DEF TaskOK
<1>5. /\ task'[r] = [t EXCEPT !.step = "reopen"]
      /\ \A q \in Requests \ {r} : task'[q] = task[q]
      /\ task' \in [Requests -> TaskType \cup {NoTask}]
  <2>1. [t EXCEPT !.step = "reopen"] \in TaskType
    BY DEF TaskType, TaskStep
  <2>2. task' = [task EXCEPT ![r] = [t EXCEPT !.step = "reopen"]]
    BY <1>1, <1>3 DEF LogResubmit, MoveTo
  <2>3. QED
    BY <2>1, <2>2, <1>3
<1>6. /\ task'[r].step = "reopen" /\ task'[r].kind = "RESUBMIT"
      /\ task'[r].instance = i /\ task'[r].at = s
  BY <1>2, <1>4, <1>5 DEF TaskType
<1>7. fresh' \in [Instances -> [Sequences -> Nat]]
  BY DEF LogResubmit, WorkflowInv, WorkflowTypeOK
<1>8. WorkflowTypeOK' /\ Grows
  BY <1>5, <1>7 DEF LogResubmit, WorkflowInv, WorkflowTypeOK, Grows
<1>9. TaskOK(r)'
  BY <1>4, <1>6 DEF TaskOK, LogResubmit, EnoughBefore, Enough, StagesOf, IsFirst
<1>10. ApprovalsAreRecorded'
  BY DEF LogResubmit, WorkflowInv, ApprovalsAreRecorded
<1>11. QED
  BY <1>5, <1>8, <1>9, <1>10, StepStays DEF LogResubmit

\* Steps that leave stages and recorded actions alone.
LEMMA GrowsIdle ==
    ASSUME WorkflowTypeOK, UNCHANGED <<stage, recorded>>
    PROVE  Grows
BY DEF WorkflowTypeOK, Grows

LEMMA EndInstanceStep ==
    ASSUME WorkflowInv, NEW r \in Requests, EndInstance(r)
    PROVE  WorkflowInv'
<1>1. PICK t \in TaskType : t = task[r] /\ t # NoTask /\ t.step = "end"
  BY TaskFacts DEF EndInstance, TaskStep
<1>2. PICK i \in Instances, s \in Sequences : i = t.instance /\ s = t.at
  BY <1>1 DEF TaskType
<1>3. TaskOK(r) /\ task \in [Requests -> TaskType \cup {NoTask}]
      /\ t.kind \in ActionKind \cup {"RESUBMIT"}
  BY <1>1, TaskFacts DEF EndInstance, TaskStep
<1>4. /\ EnoughBefore(i, s) /\ t.kind \in {"ADVANCE", "REJECT", "RETURN"}
      /\ t.kind = "ADVANCE" => Enough(i, s) /\ LaterStages(i, s) = {}
  BY <1>1, <1>2, <1>3 DEF TaskOK, ActionKind
<1>5. instance' = [instance EXCEPT ![i] = StatusAfter(t)]
  BY <1>1, <1>2 DEF EndInstance
<1>6. /\ StatusAfter(t) \in InstanceStatus \ {"ABSENT"}
      /\ StatusAfter(t) \in {"APPROVED", "POSTED"} => t.kind = "ADVANCE"
  BY <1>4 DEF StatusAfter, InstanceStatus, Ended
<1>7. ASSUME t.kind = "ADVANCE", NEW q \in StagesOf(i)
      PROVE  Enough(i, q)
  <2>1. q \in Nat /\ s \in Nat
    BY StageAssumption DEF StagesOf
  <2>2. ~ q > s
    BY <1>4, <1>7 DEF LaterStages
  <2>3. q < s \/ q = s
    BY <2>1, <2>2
  <2>4. QED
    BY <1>4, <1>7, <2>3 DEF EnoughBefore
<1>8. task' \in [Requests -> TaskType \cup {NoTask}] /\ task'[r] = NoTask
      /\ \A q \in Requests \ {r} : task'[q] = task[q]
  BY <1>3 DEF EndInstance, EndTask
<1>9. WorkflowTypeOK' /\ Grows
  <2>1. instance' \in [Instances -> InstanceStatus]
    BY <1>5, <1>6 DEF WorkflowInv, WorkflowTypeOK
  <2>2. QED
    BY <2>1, <1>8, GrowsIdle DEF EndInstance, WorkflowInv, WorkflowTypeOK
<1>10. /\ \A j \in Instances : j # i => instance'[j] = instance[j]
       /\ instance'[i] = StatusAfter(t)
  BY <1>5 DEF WorkflowInv, WorkflowTypeOK
<1>11. instance[i] # "ABSENT"
  BY <1>1, <1>2, <1>3 DEF TaskOK, WorkflowInv, StageInv
<1>12. \A j \in Instances : instance'[j] = "ABSENT" <=> instance[j] = "ABSENT"
  BY <1>6, <1>10, <1>11
<1>13. \A j \in Instances :
         instance'[j] \in {"APPROVED", "POSTED"} /\ instance'[j] # instance[j]
         => \A q \in StagesOf(j) : Enough(j, q)
  BY <1>6, <1>7, <1>10
<1>14. ApprovalsAreRecorded' /\ stage' = stage
  BY DEF EndInstance, WorkflowInv, ApprovalsAreRecorded
<1>15. QED
  BY <1>8, <1>9, <1>12, <1>13, <1>14, StepStays

LEMMA ReopenStep ==
    ASSUME WorkflowInv, NEW r \in Requests, Reopen(r)
    PROVE  WorkflowInv'
<1>1. PICK t \in TaskType : t = task[r] /\ t # NoTask /\ t.step = "reopen"
  BY TaskFacts DEF Reopen, TaskStep
<1>2. PICK i \in Instances, s \in Sequences : i = t.instance /\ s = t.at
  BY <1>1 DEF TaskType
<1>3. TaskOK(r) /\ task \in [Requests -> TaskType \cup {NoTask}]
  BY <1>1, TaskFacts DEF Reopen, TaskStep
<1>4. instance' = [instance EXCEPT ![i] = "IN_PROGRESS"]
  BY <1>1, <1>2 DEF Reopen
<1>5. task' \in [Requests -> TaskType \cup {NoTask}] /\ task'[r] = NoTask
      /\ \A q \in Requests \ {r} : task'[q] = task[q]
  BY <1>3 DEF Reopen, EndTask
<1>6. WorkflowTypeOK' /\ Grows
  <2>1. instance' \in [Instances -> InstanceStatus]
    BY <1>4 DEF WorkflowInv, WorkflowTypeOK, InstanceStatus
  <2>2. QED
    BY <2>1, <1>5, GrowsIdle DEF Reopen, WorkflowInv, WorkflowTypeOK
<1>7. /\ \A j \in Instances : j # i => instance'[j] = instance[j]
      /\ instance'[i] = "IN_PROGRESS"
  BY <1>4 DEF WorkflowInv, WorkflowTypeOK
<1>8. instance[i] # "ABSENT"
  BY <1>1, <1>2, <1>3 DEF TaskOK, WorkflowInv, StageInv
<1>9. ApprovalsAreRecorded' /\ stage' = stage
  BY DEF Reopen, WorkflowInv, ApprovalsAreRecorded
<1>10. QED
  BY <1>5, <1>6, <1>7, <1>8, <1>9, StepStays

\* A step that leaves an instance alone keeps what is said of it.
LEMMA SameInstance ==
    ASSUME NEW j \in Instances, NEW s \in Sequences,
           stage'[j] = stage[j], recorded'[j] = recorded[j]
    PROVE  /\ StagesOf(j)' = StagesOf(j) /\ ActiveStages(j)' = ActiveStages(j)
           /\ LaterStages(j, s)' = LaterStages(j, s)
           /\ Enough(j, s)' <=> Enough(j, s)
           /\ EnoughBefore(j, s)' <=> EnoughBefore(j, s)
<1>1. StagesOf(j)' = StagesOf(j) /\ ActiveStages(j)' = ActiveStages(j)
  BY DEF StagesOf, ActiveStages
<1>2. LaterStages(j, s)' = LaterStages(j, s)
  BY <1>1 DEF LaterStages
<1>3. QED
  BY <1>1, <1>2 DEF EnoughBefore, Enough

LEMMA StartStep ==
    ASSUME WorkflowInv, NEW i \in Instances, NEW left \in SUBSET Conditional,
           NEW roles \in [Sequences -> Roles \cup {None}], StartInstance(i, left, roles)
    PROVE  WorkflowInv'
<1>1. /\ instance[i] = "ABSENT" /\ StagesOf(i) = {}
      /\ instance' = [instance EXCEPT ![i] = "IN_PROGRESS"]
      /\ UNCHANGED <<recorded, fresh, task>>
  BY DEF StartInstance, WorkflowInv, StageInv
<1>2. PICK rows : rows = [s \in Sequences |->
           [status |-> IF s \in left THEN "ABSENT"
                       ELSE IF IsFirst(s, Sequences \ left) THEN "ACTIVE" ELSE "PENDING",
            role |-> IF s \in left THEN None ELSE roles[s],
            received |-> 0]]
  OBVIOUS
<1>3. stage' = [stage EXCEPT ![i] = rows]
  BY <1>2 DEF StartInstance
<1>4. rows \in [Sequences -> StageRow]
  BY <1>2 DEF StageRow, StageStatus
<1>5. /\ stage' \in [Instances -> [Sequences -> StageRow]] /\ stage'[i] = rows
      /\ \A j \in Instances : j # i => stage'[j] = stage[j]
  BY <1>3, <1>4 DEF WorkflowInv, WorkflowTypeOK
<1>6. WorkflowTypeOK'
  BY <1>1, <1>5 DEF WorkflowInv, WorkflowTypeOK, InstanceStatus
<1>7. ApprovalsAreRecorded'
  <2>1. \A s \in Sequences : rows[s].received = 0 /\ recorded[i][s] >= 0
    BY <1>2 DEF WorkflowInv, WorkflowTypeOK
  <2>2. QED
    BY <2>1, <1>1, <1>5 DEF ApprovalsAreRecorded, WorkflowInv
<1>8. ASSUME NEW j \in Instances, j # i
      PROVE  /\ instance'[j] = instance[j] /\ stage'[j] = stage[j]
             /\ recorded'[j] = recorded[j]
  BY <1>1, <1>5, <1>8 DEF WorkflowInv, WorkflowTypeOK
<1>9. instance'[i] = "IN_PROGRESS"
  BY <1>1 DEF WorkflowInv, WorkflowTypeOK
<1>10. StageInv'
  <2>1. ASSUME NEW s \in ActiveStages(i)'
        PROVE  EnoughBefore(i, s)'
    <3>1. s \in Sequences /\ rows[s].status = "ACTIVE"
      BY <1>5 DEF ActiveStages
    <3>2. IsFirst(s, Sequences \ left)
      BY <1>2, <3>1
    <3>3. \A q \in StagesOf(i)' : q \in Sequences \ left
      BY <1>2, <1>5 DEF StagesOf
    <3>4. \A q \in Sequences : q \in Nat
      BY StageAssumption
    <3>5. QED
      BY <3>1, <3>2, <3>3, <3>4 DEF EnoughBefore, IsFirst
  <2>2. QED
    <3>1. ASSUME NEW j \in Instances, NEW s \in ActiveStages(j)'
          PROVE  EnoughBefore(j, s)'
      <4>1. CASE j = i
        BY <4>1, <3>1, <2>1 DEF EnoughBefore, ActiveStages, StagesOf, Enough
      <4>2. CASE j # i
        <5>1. s \in ActiveStages(j) /\ s \in Sequences
          BY <4>2, <3>1, <1>8 DEF ActiveStages
        <5>2. EnoughBefore(j, s)
          BY <5>1 DEF WorkflowInv, StageInv
        <5>3. QED
          BY <4>2, <5>1, <5>2, <1>8, SameInstance
      <4>3. QED
        BY <4>1, <4>2
    <3>2. ASSUME NEW j \in Instances, instance'[j] = "ABSENT"
          PROVE  StagesOf(j)' = {}
      BY <3>2, <1>8, <1>9 DEF WorkflowInv, StageInv, StagesOf
    <3>3. QED
      BY <3>1, <3>2 DEF StageInv
<1>11. TaskInv'
  <2>1. ASSUME NEW r \in Requests, task'[r] # NoTask
        PROVE  TaskOK(r)'
    <3>1. task'[r] = task[r] /\ task[r] \in TaskType /\ TaskOK(r)
      BY <1>1, <2>1 DEF WorkflowInv, WorkflowTypeOK, TaskInv
    <3>2. PICK j \in Instances, s \in Sequences : j = task[r].instance /\ s = task[r].at
      BY <3>1 DEF TaskType
    <3>3. j # i
      BY <1>1, <3>1, <3>2 DEF TaskOK
    <3>4. /\ StagesOf(j)' = StagesOf(j) /\ LaterStages(j, s)' = LaterStages(j, s)
          /\ EnoughBefore(j, s)' <=> EnoughBefore(j, s)
          /\ Enough(j, s)' <=> Enough(j, s)
      BY <1>8, <3>2, <3>3, SameInstance
    <3>5. recorded' = recorded
      BY <1>1
    <3>6. QED
      BY <3>1, <3>2, <3>4, <3>5 DEF TaskOK, IsFirst
  <2>2. QED
    BY <2>1 DEF TaskInv
<1>12. EnoughApprovals'
  <2>1. ASSUME NEW j \in Instances, instance'[j] \in {"APPROVED", "POSTED"},
               NEW s \in StagesOf(j)'
        PROVE  Enough(j, s)'
    <3>1. j # i
      BY <2>1, <1>9
    <3>2. s \in StagesOf(j) /\ s \in Sequences /\ instance[j] = instance'[j]
      BY <2>1, <3>1, <1>8 DEF StagesOf
    <3>3. Enough(j, s)
      BY <2>1, <3>2 DEF WorkflowInv, EnoughApprovals, Enough
    <3>4. QED
      BY <3>1, <3>2, <3>3, <1>8, SameInstance
  <2>2. QED
    BY <2>1 DEF EnoughApprovals, Enough
<1>13. QED
  BY <1>6, <1>7, <1>10, <1>11, <1>12 DEF WorkflowInv

-----------------------------------------------------------------------------
LEMMA WorkflowInvInit == WorkflowInit => WorkflowInv
<1> SUFFICES ASSUME WorkflowInit
             PROVE  WorkflowInv
  OBVIOUS
<1>1. WorkflowTypeOK
  BY DEF WorkflowInit, WorkflowTypeOK, InstanceStatus, StageRow, StageStatus
<1>2. QED
  BY <1>1 DEF WorkflowInit, WorkflowInv, StageInv, TaskInv, ApprovalsAreRecorded,
              EnoughApprovals, ActiveStages, StagesOf

LEMMA WorkflowInvNext ==
    ASSUME WorkflowInv, [WorkflowNext]_workflowVars
    PROVE  WorkflowInv'
<1>1. ASSUME NEW i \in Instances, NEW left \in SUBSET Conditional,
             NEW roles \in [Sequences -> Roles \cup {None}], StartInstance(i, left, roles)
      PROVE  WorkflowInv'
  BY <1>1, StartStep
<1>2. ASSUME NEW r \in Requests, NEW i \in Instances,
             \/ BeginResubmit(r, i)
             \/ \E kind \in ActionKind, user \in Users : BeginAct(r, i, kind, user)
      PROVE  WorkflowInv'
  BY <1>2, BeginResubmitStep, BeginActStep
<1>3. ASSUME NEW r \in Requests, WorkflowStep(r) \/ FailTask(r)
      PROVE  WorkflowInv'
  BY <1>3, RecordActionStep, WriteStageStep, ActivateNextStep, EndInstanceStep,
     RestartFirstStep, LogResubmitStep, ReopenStep, FailStep DEF WorkflowStep
<1>4. CASE UNCHANGED workflowVars
  BY <1>4 DEF workflowVars, WorkflowInv, WorkflowTypeOK, StageInv, TaskInv, TaskOK,
              ApprovalsAreRecorded, EnoughApprovals, EnoughBefore, Enough, StagesOf,
              ActiveStages, LaterStages, IsFirst
<1>5. QED
  BY <1>1, <1>2, <1>3, <1>4 DEF WorkflowNext

LEMMA WorkflowInvAlways == WorkflowSpec => []WorkflowInv
<1>1. WorkflowInv /\ [WorkflowNext]_workflowVars => WorkflowInv'
  BY WorkflowInvNext
<1>2. QED
  BY WorkflowInvInit, <1>1, PTL DEF WorkflowSpec

\* Every variable of the approval engine keeps its type, for any definition
\* of stages and any number of instances and requests.
THEOREM WorkflowTypeCorrect == WorkflowSpec => []WorkflowTypeOK
<1>1. WorkflowInv => WorkflowTypeOK
  BY DEF WorkflowInv
<1>2. QED
  BY WorkflowInvAlways, <1>1, PTL

\* Every approval a stage counts is a row of the action log, which act writes
\* before it updates the count.
THEOREM CountedApprovalsAreRecorded == WorkflowSpec => []ApprovalsAreRecorded
<1>1. WorkflowInv => ApprovalsAreRecorded
  BY DEF WorkflowInv
<1>2. QED
  BY WorkflowInvAlways, <1>1, PTL

\* However requests interleave and fail, act never ends an instance approved
\* or posted with a stage short of the approvals it asks for.
THEOREM NeverShortOfApprovals == WorkflowSpec => []EnoughApprovals
<1>1. WorkflowInv => EnoughApprovals
  BY DEF WorkflowInv
<1>2. QED
  BY WorkflowInvAlways, <1>1, PTL

-----------------------------------------------------------------------------
(***************************************************************************)
(* Requests that take turns.  The approvals a stage was given since the    *)
(* last (re)submission are at most those it counts, and all of them for    *)
(* the first stage, which resubmission resets; the stages before the one   *)
(* an instance waits on are approved, those after it have had none.        *)
(***************************************************************************)
CountedAt(i, s) ==
    /\ fresh[i][s] <= stage[i][s].received
    /\ IsFirst(s, StagesOf(i)) => fresh[i][s] = stage[i][s].received
Counted(i) == \A s \in StagesOf(i) : CountedAt(i, s)

FirstAnew(i) ==
    \A s \in StagesOf(i) : IsFirst(s, StagesOf(i)) => fresh[i][s] >= MinApprovals[s]

\* Stage s is where the instance is.
Reached(i, s) ==
    \A q \in StagesOf(i) :
        /\ q < s => /\ stage[i][q].status = "APPROVED"
                    /\ IsFirst(q, StagesOf(i)) => fresh[i][q] >= MinApprovals[q]
        /\ q > s => fresh[i][q] = 0
Waits(i, s) == s \in StagesOf(i) /\ ActiveStages(i) = {s} /\ Reached(i, s)

\* An instance that no request works on.
Resting(i) ==
    /\ Counted(i)
    /\ instance[i] = "ABSENT" => \A s \in Sequences : fresh[i][s] = 0
    /\ IF instance[i] = "IN_PROGRESS"
       THEN \E s \in StagesOf(i) : Waits(i, s) /\ fresh[i][s] < MinApprovals[s]
       ELSE ActiveStages(i) = {}
    /\ instance[i] \in {"APPROVED", "POSTED"} => FirstAnew(i)

\* And the one that the request t works on, at stage s.
AtWork(t, i, s) ==
    /\ instance[i] = IF t.kind = "RESUBMIT" THEN "RETURNED" ELSE "IN_PROGRESS"
    /\ t.step = "record" => /\ Waits(i, s) /\ Counted(i) /\ fresh[i][s] < MinApprovals[s]
                            /\ t.received = stage[i][s].received
    /\ t.step = "stage" =>
          /\ Waits(i, s) /\ t.received = stage[i][s].received
          /\ \A q \in StagesOf(i) : q # s \/ t.kind # "ADVANCE" => CountedAt(i, q)
          /\ t.kind = "ADVANCE" => /\ fresh[i][s] <= stage[i][s].received + 1
                                   /\ IsFirst(s, StagesOf(i)) =>
                                          fresh[i][s] = stage[i][s].received + 1
    /\ t.step = "next" => /\ ActiveStages(i) = {} /\ Counted(i) /\ Reached(i, s)
                          /\ stage[i][s].status = "APPROVED"
                          /\ IsFirst(s, StagesOf(i)) => fresh[i][s] >= MinApprovals[s]
    /\ t.step = "end" => /\ ActiveStages(i) = {} /\ Counted(i)
                         /\ t.kind = "ADVANCE" => FirstAnew(i)
    /\ t.step = "restart" => ActiveStages(i) = {}
    /\ t.step \in {"log", "reopen"} => ActiveStages(i) = {s} /\ stage[i][s].received = 0
    /\ t.step = "reopen" => \A q \in Sequences : fresh[i][q] = 0

TurnInv ==
    /\ \A q, r \in Requests : task[q] # NoTask /\ task[r] # NoTask => q = r
    /\ \A r \in Requests, t \in TaskType, i \in Instances, s \in Sequences :
          task[r] = t /\ t.instance = i /\ t.at = s => AtWork(t, i, s)
    /\ \A i \in Instances :
          (\A r \in Requests : task[r] # NoTask => task[r].instance # i) => Resting(i)

\* Request r, which works on i, goes on as t or is done.
LEMMA TurnStep ==
    ASSUME WorkflowInv, TurnInv, NEW r \in Requests, NEW i \in Instances, NEW t,
           \A q \in Requests \ {r} : task[q] = NoTask /\ task'[q] = NoTask,
           task[r] # NoTask => task[r].instance = i,
           task'[r] = t,
           t # NoTask => t.instance = i /\ \A s \in Sequences : s = t.at => AtWork(t, i, s)',
           t = NoTask => Resting(i)',
           \A j \in Instances \ {i} :
               stage'[j] = stage[j] /\ fresh'[j] = fresh[j] /\ instance'[j] = instance[j]
    PROVE  TurnInv'
<1>1. \A p, q \in Requests : task'[p] # NoTask /\ task'[q] # NoTask => p = q
  OBVIOUS
<1>2. ASSUME NEW q \in Requests, NEW u \in TaskType, NEW j \in Instances, NEW s \in Sequences,
             task'[q] = u, u.instance = j, u.at = s
      PROVE  AtWork(u, j, s)'
  <2>0. NoTask \notin TaskType
    BY DEF NoTask, TaskType
  <2>1. q = r /\ u = t /\ t # NoTask /\ j = i
    BY <1>2, <2>0
  <2>2. AtWork(t, i, s)'
    BY <1>2, <2>1
  <2> QED  BY <2>1, <2>2
<1>3. ASSUME NEW j \in Instances, \A q \in Requests : task'[q] # NoTask => task'[q].instance # j
      PROVE  Resting(j)'
  <2>1. CASE j = i
    BY <1>3, <2>1
  <2>2. CASE j # i
    <3>1. Resting(j)
      BY <2>2 DEF TurnInv
    <3>2. stage'[j] = stage[j] /\ fresh'[j] = fresh[j] /\ instance'[j] = instance[j]
      BY <2>2
    <3> QED  BY <3>1, <3>2 DEF Resting, Waits, Reached, Counted, CountedAt, FirstAnew,
                               ActiveStages, StagesOf, IsFirst
  <2> QED  BY <2>1, <2>2
<1> QED  BY <1>1, <1>2, <1>3 DEF TurnInv

\* What the request at work knows, and that it is alone.
LEMMA TurnFacts ==
    ASSUME WorkflowInv, TurnInv, NEW r \in Requests, NEW step \in TaskStep, AtStep(r, step)
    PROVE  \E t \in TaskType, i \in Instances, s \in Sequences :
              /\ t = task[r] /\ t # NoTask /\ t.step = step /\ i = t.instance /\ s = t.at
              /\ t.received \in Nat /\ t.kind \in ActionKind \cup {"RESUBMIT"}
              /\ s \in StagesOf(i) /\ AtWork(t, i, s)
              /\ t.kind = "RESUBMIT" <=> step \in {"restart", "log", "reopen"}
              /\ t.kind = "COMMENT" => step = "record"
              /\ t.kind = "RESUBMIT" => IsFirst(s, StagesOf(i))
              /\ \A q \in Requests \ {r} : task[q] = NoTask
<1>1. PICK t \in TaskType : t = task[r] /\ t # NoTask /\ t.step = step
  BY TaskFacts
<1>2. PICK i \in Instances, s \in Sequences : i = t.instance /\ s = t.at
  BY <1>1, TaskFacts
<1>3. /\ t.received \in Nat /\ t.kind \in ActionKind \cup {"RESUBMIT"} /\ TaskOK(r)
  BY <1>1, TaskFacts
<1>4. /\ AtWork(t, i, s) /\ \A q \in Requests \ {r} : task[q] = NoTask
  BY <1>1, <1>2 DEF TurnInv
<1>5. /\ s \in StagesOf(i)
      /\ t.kind = "RESUBMIT" <=> step \in {"restart", "log", "reopen"}
      /\ t.kind = "COMMENT" => step = "record"
      /\ t.kind = "RESUBMIT" => IsFirst(s, StagesOf(i))
  BY <1>1, <1>2, <1>3 DEF TaskOK
<1> QED  BY <1>1, <1>2, <1>3, <1>4, <1>5

\* The request moves to another step.
LEMMA TaskMoves ==
    ASSUME WorkflowInv, NEW r \in Requests, NEW t \in TaskType, t = task[r],
           NEW step \in TaskStep, MoveTo(r, step)
    PROVE  \E u \in TaskType :
              /\ task'[r] = u /\ u # NoTask /\ u.step = step /\ u.kind = t.kind
              /\ u.instance = t.instance /\ u.at = t.at /\ u.received = t.received
              /\ \A q \in Requests \ {r} : task'[q] = task[q]
<1>1. PICK u : u = [t EXCEPT !.step = step]
  OBVIOUS
<1>2. /\ u \in TaskType /\ u.step = step /\ u.kind = t.kind
      /\ u.instance = t.instance /\ u.at = t.at /\ u.received = t.received
  BY <1>1 DEF TaskType
<1>3. u # NoTask
  BY <1>2 DEF NoTask, TaskType
<1>4. task' = [task EXCEPT ![r] = u] /\ task \in [Requests -> TaskType \cup {NoTask}]
  BY <1>1 DEF MoveTo, WorkflowInv, WorkflowTypeOK
<1> QED  BY <1>2, <1>3, <1>4

LEMMA TaskEnds ==
    ASSUME WorkflowInv, NEW r \in Requests, EndTask(r)
    PROVE  task'[r] = NoTask /\ \A q \in Requests \ {r} : task'[q] = task[q]
BY DEF EndTask, WorkflowInv, WorkflowTypeOK

LEMMA ActTurn ==
    ASSUME WorkflowInv, TurnInv, Settled, NEW r \in Requests, NEW i \in Instances,
           NEW kind \in ActionKind, NEW user \in Users, BeginAct(r, i, kind, user)
    PROVE  TurnInv'
<1>1. PICK s \in ActiveStages(i) :
        task' = [task EXCEPT ![r] =
            [step |-> "record", kind |-> kind, instance |-> i, at |-> s,
             received |-> stage[i][s].received]]
  BY DEF BeginAct
<1>2. PICK t : t = [step |-> "record", kind |-> kind, instance |-> i, at |-> s,
                    received |-> stage[i][s].received]
  OBVIOUS
<1>3. task'[r] = t /\ \A q \in Requests \ {r} : task[q] = NoTask /\ task'[q] = NoTask
  BY <1>1, <1>2 DEF Settled, WorkflowInv, WorkflowTypeOK
<1>4. Resting(i) /\ instance[i] = "IN_PROGRESS" /\ task[r] = NoTask
  BY DEF TurnInv, Settled, BeginAct
<1>5. Waits(i, s) /\ Counted(i) /\ fresh[i][s] < MinApprovals[s]
  BY <1>4 DEF Resting, Waits
<1>6. AtWork(t, i, s)
  BY SMTT(30), <1>2, <1>4, <1>5 DEF AtWork, ActionKind
<1>7. AtWork(t, i, s)'
  BY <1>6 DEF BeginAct, AtWork, Waits, Reached, Counted, CountedAt, FirstAnew, ActiveStages,
              StagesOf, IsFirst
<1>8. t.instance = i /\ t.at = s /\ t # NoTask
  BY <1>2 DEF NoTask
<1> QED
  <2>1. task[r] # NoTask => task[r].instance = i
    BY <1>4
  <2>2. t # NoTask => t.instance = i /\ \A q \in Sequences : q = t.at => AtWork(t, i, q)'
    BY <1>7, <1>8
  <2> QED  BY <1>3, <1>8, <2>1, <2>2, TurnStep DEF BeginAct

LEMMA ResubmitTurn ==
    ASSUME WorkflowInv, TurnInv, Settled, NEW r \in Requests, NEW i \in Instances,
           BeginResubmit(r, i)
    PROVE  TurnInv'
<1>1. PICK s \in StagesOf(i) :
        task' = [task EXCEPT ![r] =
            [step |-> "restart", kind |-> "RESUBMIT", instance |-> i, at |-> s, received |-> 0]]
  BY DEF BeginResubmit
<1>2. PICK t : t = [step |-> "restart", kind |-> "RESUBMIT", instance |-> i, at |-> s,
                    received |-> 0]
  OBVIOUS
<1>3. task'[r] = t /\ \A q \in Requests \ {r} : task[q] = NoTask /\ task'[q] = NoTask
  BY <1>1, <1>2 DEF Settled, WorkflowInv, WorkflowTypeOK
<1>4. Resting(i) /\ instance[i] = "RETURNED" /\ task[r] = NoTask
  BY DEF TurnInv, Settled, BeginResubmit
<1>5. AtWork(t, i, s)
  BY <1>2, <1>4 DEF AtWork, Resting
<1>6. AtWork(t, i, s)'
  BY <1>5 DEF BeginResubmit, AtWork, Waits, Reached, Counted, CountedAt, FirstAnew, ActiveStages,
              StagesOf, IsFirst
<1>7. t.instance = i /\ t.at = s /\ t # NoTask
  BY <1>2 DEF NoTask
<1> QED
  <2>1. task[r] # NoTask => task[r].instance = i
    BY <1>4
  <2>2. t # NoTask => t.instance = i /\ \A q \in Sequences : q = t.at => AtWork(t, i, q)'
    BY <1>6, <1>7
  <2> QED  BY <1>3, <1>7, <2>1, <2>2, TurnStep DEF BeginResubmit

LEMMA RecordTurn ==
    ASSUME WorkflowInv, TurnInv, NEW r \in Requests, RecordAction(r)
    PROVE  TurnInv'
<1>1. PICK t \in TaskType, i \in Instances, s \in Sequences :
          /\ t = task[r] /\ t # NoTask /\ t.step = "record" /\ i = t.instance /\ s = t.at
          /\ t.received \in Nat /\ t.kind \in ActionKind
          /\ s \in StagesOf(i) /\ AtWork(t, i, s)
          /\ \A q \in Requests \ {r} : task[q] = NoTask
  BY TurnFacts DEF RecordAction, TaskStep
<1>2. /\ instance[i] = "IN_PROGRESS" /\ Waits(i, s) /\ Counted(i) /\ fresh[i][s] < MinApprovals[s]
      /\ t.received = stage[i][s].received
  BY <1>1 DEF AtWork, ActionKind
<1>3. UNCHANGED <<instance, stage>> /\ \A j \in Instances : StagesOf(j)' = StagesOf(j)
  BY DEF RecordAction, StagesOf
<1>4. fresh \in [Instances -> [Sequences -> Nat]]
  BY DEF WorkflowInv, WorkflowTypeOK
<1>5. CASE t.kind = "COMMENT"
  <2>1. fresh' = fresh /\ EndTask(r)
    BY <1>1, <1>5 DEF RecordAction
  <2>2. Resting(i)
    BY <1>2 DEF Resting, Waits
  <2>3. Resting(i)'
    BY <1>3, <2>1, <2>2 DEF Resting, Waits, Reached, Counted, CountedAt, FirstAnew, ActiveStages,
                            StagesOf, IsFirst
  <2> QED  BY <1>1, <1>3, <2>1, <2>3, TaskEnds, TurnStep
<1>6. CASE t.kind # "COMMENT"
  <2>1. PICK u \in TaskType :
              /\ task'[r] = u /\ u # NoTask /\ u.step = "stage" /\ u.kind = t.kind
              /\ u.instance = i /\ u.at = s /\ u.received = t.received
              /\ \A q \in Requests \ {r} : task'[q] = task[q]
    BY <1>1, <1>6, TaskMoves DEF RecordAction, TaskStep
  <2>2. /\ \A j \in Instances \ {i} : fresh'[j] = fresh[j]
        /\ \A q \in Sequences : q # s \/ t.kind # "ADVANCE" => fresh'[i][q] = fresh[i][q]
        /\ t.kind = "ADVANCE" => fresh'[i][s] = fresh[i][s] + 1
    <3>1. CASE t.kind = "ADVANCE"
      <4>1. fresh' = [fresh EXCEPT ![i][s] = @ + 1]
        BY <1>1, <3>1 DEF RecordAction
      <4> QED  BY <1>4, <3>1, <4>1
    <3>2. CASE t.kind # "ADVANCE"
      BY <1>1, <3>2 DEF RecordAction
    <3> QED  BY <3>1, <3>2
  <2>3. ActiveStages(i)' = ActiveStages(i)
    BY <1>3 DEF ActiveStages
  <2>4. Waits(i, s)'
    <3>1. ASSUME NEW q \in StagesOf(i)
          PROVE  /\ q < s => /\ stage[i][q].status = "APPROVED"
                             /\ IsFirst(q, StagesOf(i)) => fresh'[i][q] >= MinApprovals[q]
                 /\ q > s => fresh'[i][q] = 0
      <4>1. q \in Sequences /\ q \in Nat /\ s \in Nat
        BY StageAssumption DEF StagesOf
      <4>2. q # s => fresh'[i][q] = fresh[i][q]
        BY <2>2, <4>1
      <4> QED  BY <1>2, <4>1, <4>2 DEF Waits, Reached
    <3>2. Reached(i, s)'
      BY <1>3, <3>1 DEF Reached
    <3> QED  BY <1>2, <1>3, <2>3, <3>2 DEF Waits
  <2>5. \A q \in StagesOf(i) : q # s \/ t.kind # "ADVANCE" => CountedAt(i, q)'
    BY <1>2, <1>3, <2>2 DEF Counted, CountedAt, StagesOf
  <2>6. t.kind = "ADVANCE" => /\ fresh'[i][s] <= stage[i][s].received + 1
                              /\ IsFirst(s, StagesOf(i)) => fresh'[i][s] = stage[i][s].received + 1
    BY <1>1, <1>2, <1>4, <2>2 DEF Counted, CountedAt
  <2>7. AtWork(u, i, s)'
    BY <1>1, <1>2, <1>3, <2>1, <2>4, <2>5, <2>6 DEF AtWork, ActionKind
  <2> QED  BY <1>1, <1>3, <2>1, <2>2, <2>7, TurnStep
<1> QED  BY <1>5, <1>6

\* The rows of one stage are written.
LEMMA RowWritten ==
    ASSUME WorkflowInv, NEW i \in Instances, NEW s \in StagesOf(i), NEW status, NEW received,
           status # "ABSENT",
           stage' = [stage EXCEPT ![i][s].status = status, ![i][s].received = received]
    PROVE  /\ stage'[i][s].status = status /\ stage'[i][s].received = received
           /\ \A q \in Sequences \ {s} : stage'[i][q] = stage[i][q]
           /\ \A j \in Instances \ {i} : stage'[j] = stage[j]
           /\ StagesOf(i)' = StagesOf(i)
           /\ ActiveStages(i)' = (ActiveStages(i) \ {s}) \cup {q \in {s} : status = "ACTIVE"}
<1>1. s \in Sequences /\ stage[i][s].status # "ABSENT" /\ stage[i][s] \in StageRow
      /\ stage \in [Instances -> [Sequences -> StageRow]]
  BY DEF StagesOf, WorkflowInv, WorkflowTypeOK
<1>2. PICK row : row = [[stage[i][s] EXCEPT !.status = status] EXCEPT !.received = received]
  OBVIOUS
<1>3. row = [status |-> status, role |-> stage[i][s].role, received |-> received]
  BY <1>1, <1>2, RowUpdate
<1>4. stage' = [stage EXCEPT ![i][s] = row]
  BY <1>1, <1>2
<1>5. /\ stage'[i][s] = row /\ \A q \in Sequences \ {s} : stage'[i][q] = stage[i][q]
      /\ \A j \in Instances \ {i} : stage'[j] = stage[j]
  <2>1. stage[i] \in [Sequences -> StageRow] /\ stage' = [stage EXCEPT ![i] = [stage[i] EXCEPT ![s] = row]]
    BY <1>1, <1>4
  <2>2. stage'[i] = [stage[i] EXCEPT ![s] = row] /\ \A j \in Instances \ {i} : stage'[j] = stage[j]
    BY <1>1, <2>1
  <2> QED  BY <1>1, <2>1, <2>2
<1>6. stage'[i][s].status = status /\ stage'[i][s].received = received
  <2>1. row.status = status /\ row.received = received
    BY <1>3
  <2> QED  BY <1>5, <2>1
<1>7. StagesOf(i)' = StagesOf(i)
  BY <1>1, <1>5, <1>6 DEF StagesOf
<1>8. ActiveStages(i)' = (ActiveStages(i) \ {s}) \cup {q \in {s} : status = "ACTIVE"}
  BY <1>1, <1>5, <1>6 DEF ActiveStages
<1> QED  BY <1>5, <1>6, <1>7, <1>8

LEMMA StageTurn ==
    ASSUME WorkflowInv, TurnInv, NEW r \in Requests, WriteStage(r)
    PROVE  TurnInv'
<1>1. PICK t \in TaskType, i \in Instances, s \in Sequences :
          /\ t = task[r] /\ t # NoTask /\ t.step = "stage" /\ i = t.instance /\ s = t.at
          /\ t.received \in Nat /\ t.kind \in {"ADVANCE", "REJECT", "RETURN"}
          /\ s \in StagesOf(i) /\ AtWork(t, i, s)
          /\ \A q \in Requests \ {r} : task[q] = NoTask
  <2>1. \A kind \in ActionKind \cup {"RESUBMIT"} :
            kind # "RESUBMIT" /\ kind # "COMMENT" => kind \in {"ADVANCE", "REJECT", "RETURN"}
    BY DEF ActionKind
  <2> QED  BY <2>1, TurnFacts DEF WriteStage, TaskStep
<1>2. /\ instance[i] = "IN_PROGRESS" /\ Waits(i, s) /\ t.received = stage[i][s].received
      /\ \A q \in StagesOf(i) : q # s \/ t.kind # "ADVANCE" => CountedAt(i, q)
      /\ t.kind = "ADVANCE" => /\ fresh[i][s] <= stage[i][s].received + 1
                               /\ IsFirst(s, StagesOf(i)) => fresh[i][s] = stage[i][s].received + 1
  BY <1>1 DEF AtWork
<1>3. /\ UNCHANGED <<instance, fresh>> /\ MinApprovals[s] \in Nat /\ fresh[i][s] \in Nat
      /\ s \in Nat
  BY StageAssumption DEF WriteStage, WorkflowInv, WorkflowTypeOK
<1>4. PICK status, received : status = StageAfter(t) /\ received = ReceivedAfter(t, stage[i][s].received)
  OBVIOUS
<1>5. /\ status \in {"REJECTED", "RETURNED", "APPROVED", "ACTIVE"}
      /\ status = "ACTIVE" <=> t.kind = "ADVANCE" /\ ~Complete(t)
      /\ t.kind = "ADVANCE" /\ Complete(t) => status = "APPROVED"
      /\ received = IF t.kind = "ADVANCE" THEN t.received + 1 ELSE t.received
  BY SMTT(30), <1>1, <1>2, <1>4 DEF StageAfter, ReceivedAfter
<1>6. stage' = [stage EXCEPT ![i][s].status = status, ![i][s].received = received]
  BY <1>1, <1>4 DEF WriteStage
<1>7. /\ stage'[i][s].status = status /\ stage'[i][s].received = received
      /\ \A q \in Sequences \ {s} : stage'[i][q] = stage[i][q]
      /\ \A j \in Instances \ {i} : stage'[j] = stage[j]
      /\ StagesOf(i)' = StagesOf(i)
      /\ ActiveStages(i)' = IF status = "ACTIVE" THEN {s} ELSE {}
  <2>1. s \in StagesOf(i) /\ status # "ABSENT" /\ ActiveStages(i) = {s}
    BY <1>1, <1>2, <1>5 DEF Waits
  <2>2. /\ stage'[i][s].status = status /\ stage'[i][s].received = received
        /\ \A q \in Sequences \ {s} : stage'[i][q] = stage[i][q]
        /\ \A j \in Instances \ {i} : stage'[j] = stage[j]
        /\ StagesOf(i)' = StagesOf(i)
        /\ ActiveStages(i)' = (ActiveStages(i) \ {s}) \cup {q \in {s} : status = "ACTIVE"}
    BY <1>6, <2>1, RowWritten
  <2> QED  BY <2>1, <2>2
<1>8. Counted(i)'
  <2>1. CountedAt(i, s)'
    BY <1>1, <1>2, <1>3, <1>5, <1>7 DEF CountedAt
  <2>2. ASSUME NEW q \in StagesOf(i), q # s PROVE CountedAt(i, q)'
    <3>1. stage'[i][q] = stage[i][q] /\ CountedAt(i, q)
      BY <1>2, <1>7, <2>2 DEF StagesOf
    <3> QED  BY <1>3, <1>7, <3>1 DEF CountedAt
  <2> QED  BY <1>7, <2>1, <2>2 DEF Counted
<1>9. Reached(i, s)'
  <2>1. ASSUME NEW q \in StagesOf(i), q < s \/ q > s
        PROVE  /\ q < s => /\ stage'[i][q].status = "APPROVED"
                           /\ IsFirst(q, StagesOf(i)) => fresh[i][q] >= MinApprovals[q]
               /\ q > s => fresh[i][q] = 0
    <3>0. q \in Sequences /\ q \in Nat
      BY StageAssumption DEF StagesOf
    <3>1. q \in Sequences /\ q # s
      BY <1>3, <2>1, <3>0
    <3>2. stage'[i][q] = stage[i][q]
      BY <1>7, <3>1
    <3> QED  BY <1>2, <3>2 DEF Waits, Reached
  <2> QED  BY <1>3, <1>7, <2>1 DEF Reached
<1>10. /\ t.kind = "ADVANCE" /\ Complete(t) /\ IsFirst(s, StagesOf(i)) => fresh[i][s] >= MinApprovals[s]
       /\ t.kind = "ADVANCE" /\ ~Complete(t) => fresh[i][s] < MinApprovals[s]
  BY <1>1, <1>2, <1>3 DEF Complete
<1>11. CASE t.kind = "ADVANCE" /\ ~Complete(t)
  <2>1. EndTask(r)
    BY <1>1, <1>11 DEF WriteStage
  <2>2. Waits(i, s)'
    BY SMTT(30), <1>1, <1>5, <1>7, <1>9, <1>11 DEF Waits
  <2>3. Resting(i)'
    BY <1>1, <1>2, <1>3, <1>7, <1>8, <1>10, <1>11, <2>2 DEF Resting
  <2> QED  BY SMTT(30), <1>1, <1>3, <1>7, <2>1, <2>3, TaskEnds, TurnStep
<1>12. CASE t.kind = "ADVANCE" /\ Complete(t) /\ LaterStages(i, s) # {}
  <2>1. PICK u \in TaskType :
              /\ task'[r] = u /\ u # NoTask /\ u.step = "next" /\ u.kind = t.kind
              /\ u.instance = i /\ u.at = s /\ u.received = t.received
              /\ \A q \in Requests \ {r} : task'[q] = task[q]
    BY <1>1, <1>12, TaskMoves DEF WriteStage, TaskStep
  <2>2. AtWork(u, i, s)'
    BY <1>2, <1>3, <1>5, <1>7, <1>8, <1>9, <1>10, <1>12, <2>1 DEF AtWork
  <2> QED  BY SMTT(30), <1>1, <1>3, <1>7, <2>1, <2>2, TurnStep
<1>13. CASE t.kind # "ADVANCE" \/ (Complete(t) /\ LaterStages(i, s) = {})
  <2>1. PICK u \in TaskType :
              /\ task'[r] = u /\ u # NoTask /\ u.step = "end" /\ u.kind = t.kind
              /\ u.instance = i /\ u.at = s /\ u.received = t.received
              /\ \A q \in Requests \ {r} : task'[q] = task[q]
    <3>1. MoveTo(r, "end")
      BY <1>1, <1>13 DEF WriteStage
    <3> QED  BY SMTT(30), <1>1, <3>1, TaskMoves DEF TaskStep
  <2>2. ASSUME t.kind = "ADVANCE" PROVE FirstAnew(i)'
    <3> SUFFICES ASSUME NEW q \in StagesOf(i), IsFirst(q, StagesOf(i))
                 PROVE  fresh[i][q] >= MinApprovals[q]
      BY <1>3, <1>7 DEF FirstAnew
    <3>1. q <= s /\ q \in Nat /\ q \in Sequences
      BY <1>1, StageAssumption DEF IsFirst, StagesOf
    <3>2. CASE q = s
      BY <1>10, <1>13, <2>2, <3>2
    <3>3. CASE q < s
      BY SMTT(30), <1>2, <3>3 DEF Waits, Reached
    <3> QED  BY <1>3, <3>1, <3>2, <3>3
  <2>3. AtWork(u, i, s)'
    BY <1>1, <1>2, <1>3, <1>5, <1>7, <1>8, <1>13, <2>1, <2>2 DEF AtWork
  <2> QED  BY <1>1, <1>3, <1>7, <2>1, <2>3, TurnStep
<1> QED  BY SMTT(30), <1>11, <1>12, <1>13

LEMMA NextTurn ==
    ASSUME WorkflowInv, TurnInv, NEW r \in Requests, ActivateNext(r)
    PROVE  TurnInv'
<1>1. PICK t \in TaskType, i \in Instances, s \in Sequences :
          /\ t = task[r] /\ t # NoTask /\ t.step = "next" /\ i = t.instance /\ s = t.at
          /\ t.kind # "RESUBMIT" /\ s \in StagesOf(i) /\ AtWork(t, i, s)
          /\ \A q \in Requests \ {r} : task[q] = NoTask
  BY TurnFacts DEF ActivateNext, TaskStep
<1>2. /\ instance[i] = "IN_PROGRESS" /\ ActiveStages(i) = {} /\ Counted(i) /\ Reached(i, s)
      /\ stage[i][s].status = "APPROVED"
      /\ IsFirst(s, StagesOf(i)) => fresh[i][s] >= MinApprovals[s]
  BY <1>1 DEF AtWork
<1>3. UNCHANGED <<instance, fresh>> /\ EndTask(r)
  BY DEF ActivateNext
<1>4. PICK n \in LaterStages(i, s) :
        /\ IsFirst(n, LaterStages(i, s))
        /\ stage' = [stage EXCEPT ![i][n].status = "ACTIVE"]
  BY <1>1 DEF ActivateNext
<1>5. n \in StagesOf(i) /\ n \in Sequences /\ n > s /\ n \in Nat /\ s \in Nat /\ MinApprovals[n] \in Nat \ {0}
  BY StageAssumption DEF LaterStages, StagesOf
<1>6. PICK received : received = stage[i][n].received
  OBVIOUS
<1>7. stage' = [stage EXCEPT ![i][n].status = "ACTIVE", ![i][n].received = received]
  <2>1. stage[i][n] \in StageRow /\ stage \in [Instances -> [Sequences -> StageRow]]
    BY <1>5 DEF WorkflowInv, WorkflowTypeOK
  <2>2. PICK row : row = [stage[i][n] EXCEPT !.status = "ACTIVE"]
    OBVIOUS
  <2>3. [[stage[i][n] EXCEPT !.status = "ACTIVE"] EXCEPT !.received = received]
            = [status |-> "ACTIVE", role |-> stage[i][n].role, received |-> received]
    BY <2>1, RowUpdate
  <2>4. row = [status |-> "ACTIVE", role |-> stage[i][n].role, received |-> received]
    BY <1>6, <2>1, <2>2 DEF StageRow
  <2>5. stage' = [stage EXCEPT ![i][n] = row]
    BY <1>4, <2>2
  <2> QED  BY ZenonT(40), <1>5, <2>1, <2>3, <2>4, <2>5
<1>8. /\ stage'[i][n].status = "ACTIVE" /\ stage'[i][n].received = stage[i][n].received
      /\ \A q \in Sequences \ {n} : stage'[i][q] = stage[i][q]
      /\ \A j \in Instances \ {i} : stage'[j] = stage[j]
      /\ StagesOf(i)' = StagesOf(i)
      /\ ActiveStages(i)' = {n}
  <2>0. PICK status : status = "ACTIVE"
    OBVIOUS
  <2>1. /\ n \in StagesOf(i) /\ status # "ABSENT"
        /\ stage' = [stage EXCEPT ![i][n].status = status, ![i][n].received = received]
    BY <1>5, <1>7, <2>0
  <2>2. /\ stage'[i][n].status = status /\ stage'[i][n].received = received
        /\ \A q \in Sequences \ {n} : stage'[i][q] = stage[i][q]
        /\ \A j \in Instances \ {i} : stage'[j] = stage[j]
        /\ StagesOf(i)' = StagesOf(i)
        /\ ActiveStages(i)' = (ActiveStages(i) \ {n}) \cup {q \in {n} : status = "ACTIVE"}
    BY <2>1, RowWritten
  <2> QED  BY <1>2, <1>6, <2>0, <2>2
<1>9. Counted(i)'
  <2>1. ASSUME NEW q \in StagesOf(i) PROVE CountedAt(i, q)'
    <3>1. q \in Sequences /\ CountedAt(i, q)
      BY <1>2 DEF Counted, StagesOf
    <3>2. stage'[i][q].received = stage[i][q].received
      BY <1>8, <3>1
    <3> QED  BY <1>3, <1>8, <3>1, <3>2 DEF CountedAt
  <2> QED  BY <1>8, <2>1 DEF Counted
<1>10. Waits(i, n)'
  <2>1. ASSUME NEW q \in StagesOf(i)
        PROVE  /\ q < n => /\ stage'[i][q].status = "APPROVED"
                           /\ IsFirst(q, StagesOf(i)) => fresh[i][q] >= MinApprovals[q]
               /\ q > n => fresh[i][q] = 0
    <3>1. q \in Sequences /\ q \in Nat
      BY StageAssumption DEF StagesOf
    <3>2. CASE q < n
      <4>1. ~ q > s
        BY <1>4, <1>5, <3>1, <3>2 DEF IsFirst, LaterStages
      <4>2. stage'[i][q] = stage[i][q]
        BY <1>5, <1>8, <3>1, <3>2
      <4>3. CASE q = s
        BY <1>2, <1>5, <3>2, <4>2, <4>3
      <4>4. CASE q < s
        BY <1>2, <1>5, <3>1, <3>2, <4>2, <4>4 DEF Reached
      <4> QED  BY <1>5, <3>1, <4>1, <4>3, <4>4
    <3>3. CASE q > n
      <4>1. q > s
        BY <1>5, <3>1, <3>3
      <4> QED  BY <1>2, <1>5, <3>1, <3>3, <4>1 DEF Reached
    <3> QED  BY <3>2, <3>3
  <2> QED  BY <1>3, <1>5, <1>8, <2>1 DEF Waits, Reached
<1>11. fresh'[i][n] < MinApprovals[n]
  <2>1. fresh[i][n] = 0
    BY <1>2, <1>5 DEF Reached
  <2> QED  BY <1>3, <1>5, <2>1
<1>12. Resting(i)'
  BY <1>2, <1>3, <1>5, <1>8, <1>9, <1>10, <1>11 DEF Resting
<1> QED  BY <1>1, <1>3, <1>8, <1>12, TaskEnds, TurnStep

LEMMA EndTurn ==
    ASSUME WorkflowInv, TurnInv, NEW r \in Requests, EndInstance(r)
    PROVE  TurnInv' /\ \A i \in Instances : instance[i] \in Ended => instance'[i] = instance[i]
<1>1. PICK t \in TaskType, i \in Instances, s \in Sequences :
          /\ t = task[r] /\ t # NoTask /\ t.step = "end" /\ i = t.instance /\ s = t.at
          /\ t.kind # "RESUBMIT" /\ t.kind # "COMMENT" /\ t.kind \in ActionKind \cup {"RESUBMIT"}
          /\ AtWork(t, i, s)
          /\ \A q \in Requests \ {r} : task[q] = NoTask
  BY TurnFacts DEF EndInstance, TaskStep
<1>2. /\ instance[i] = "IN_PROGRESS" /\ ActiveStages(i) = {} /\ Counted(i)
      /\ t.kind = "ADVANCE" => FirstAnew(i)
  BY <1>1 DEF AtWork
<1>3. UNCHANGED <<stage, fresh>> /\ EndTask(r) /\ instance' = [instance EXCEPT ![i] = StatusAfter(t)]
  BY <1>1 DEF EndInstance
<1>4. instance'[i] = StatusAfter(t) /\ \A j \in Instances \ {i} : instance'[j] = instance[j]
  BY <1>3 DEF WorkflowInv, WorkflowTypeOK
<1>5. /\ StatusAfter(t) \in {"REJECTED", "RETURNED", "POSTED", "APPROVED"}
      /\ StatusAfter(t) \in {"APPROVED", "POSTED"} => t.kind = "ADVANCE"
  BY <1>1 DEF StatusAfter, ActionKind
<1>6. StagesOf(i)' = StagesOf(i) /\ ActiveStages(i)' = ActiveStages(i)
  BY <1>3 DEF StagesOf, ActiveStages
<1>7. Counted(i)' /\ (FirstAnew(i) => FirstAnew(i)')
  BY <1>2, <1>3, <1>6 DEF Counted, CountedAt, FirstAnew
<1>8. Resting(i)'
  BY <1>2, <1>4, <1>5, <1>6, <1>7 DEF Resting
<1>9. TurnInv'
  BY <1>1, <1>3, <1>4, <1>8, TaskEnds, TurnStep
<1> QED  BY <1>2, <1>4, <1>9 DEF Ended

LEMMA RestartTurn ==
    ASSUME WorkflowInv, TurnInv, NEW r \in Requests, RestartFirst(r)
    PROVE  TurnInv'
<1>1. PICK t \in TaskType, i \in Instances, s \in Sequences :
          /\ t = task[r] /\ t # NoTask /\ t.step = "restart" /\ i = t.instance /\ s = t.at
          /\ t.kind = "RESUBMIT" /\ s \in StagesOf(i) /\ AtWork(t, i, s)
          /\ \A q \in Requests \ {r} : task[q] = NoTask
  BY TurnFacts DEF RestartFirst, TaskStep
<1>2. instance[i] = "RETURNED" /\ ActiveStages(i) = {}
  BY SMTT(30), <1>1 DEF AtWork
<1>3. /\ UNCHANGED <<instance, fresh>> /\ MoveTo(r, "log")
      /\ stage' = [stage EXCEPT ![i][s].status = "ACTIVE", ![i][s].received = 0]
  BY <1>1 DEF RestartFirst
<1>4. /\ stage'[i][s].status = "ACTIVE" /\ stage'[i][s].received = 0
      /\ \A j \in Instances \ {i} : stage'[j] = stage[j]
      /\ ActiveStages(i)' = {s}
  <2>0. PICK status : status = "ACTIVE"
    OBVIOUS
  <2>1. PICK received : received = 0
    BY SMTT(30)
  <2>2. /\ s \in StagesOf(i) /\ status # "ABSENT"
        /\ stage' = [stage EXCEPT ![i][s].status = status, ![i][s].received = received]
    BY <1>1, <1>3, <2>0, <2>1
  <2>3. /\ stage'[i][s].status = status /\ stage'[i][s].received = received
        /\ \A q \in Sequences \ {s} : stage'[i][q] = stage[i][q]
        /\ \A j \in Instances \ {i} : stage'[j] = stage[j]
        /\ StagesOf(i)' = StagesOf(i)
        /\ ActiveStages(i)' = (ActiveStages(i) \ {s}) \cup {q \in {s} : status = "ACTIVE"}
    BY <2>2, RowWritten
  <2> QED  BY <1>2, <2>0, <2>1, <2>3
<1>5. UNCHANGED <<instance, fresh>>
  BY <1>3
<1>6. PICK u \in TaskType :
            /\ task'[r] = u /\ u # NoTask /\ u.step = "log" /\ u.kind = t.kind
            /\ u.instance = i /\ u.at = s /\ \A q \in Requests \ {r} : task'[q] = task[q]
  BY <1>1, <1>3, TaskMoves DEF TaskStep
<1>7. AtWork(u, i, s)'
  BY <1>1, <1>2, <1>3, <1>4, <1>5, <1>6 DEF AtWork
<1> QED  BY SMTT(30), <1>1, <1>4, <1>5, <1>6, <1>7, TurnStep

LEMMA LogTurn ==
    ASSUME WorkflowInv, TurnInv, NEW r \in Requests, LogResubmit(r)
    PROVE  TurnInv'
<1>1. PICK t \in TaskType, i \in Instances, s \in Sequences :
          /\ t = task[r] /\ t # NoTask /\ t.step = "log" /\ i = t.instance /\ s = t.at
          /\ t.kind = "RESUBMIT" /\ s \in StagesOf(i) /\ AtWork(t, i, s)
          /\ \A q \in Requests \ {r} : task[q] = NoTask
  BY TurnFacts DEF LogResubmit, TaskStep
<1>2. instance[i] = "RETURNED" /\ ActiveStages(i) = {s} /\ stage[i][s].received = 0
  BY <1>1 DEF AtWork
<1>3. /\ UNCHANGED <<instance, stage>> /\ MoveTo(r, "reopen")
      /\ fresh' = [fresh EXCEPT ![i] = [q \in Sequences |-> 0]]
  BY <1>1 DEF LogResubmit
<1>4. /\ \A q \in Sequences : fresh'[i][q] = 0
      /\ \A j \in Instances \ {i} : fresh'[j] = fresh[j]
      /\ ActiveStages(i)' = ActiveStages(i)
  BY <1>3 DEF WorkflowInv, WorkflowTypeOK, ActiveStages
<1>5. PICK u \in TaskType :
            /\ task'[r] = u /\ u # NoTask /\ u.step = "reopen" /\ u.kind = t.kind
            /\ u.instance = i /\ u.at = s /\ \A q \in Requests \ {r} : task'[q] = task[q]
  BY <1>1, <1>3, TaskMoves DEF TaskStep
<1>6. AtWork(u, i, s)'
  BY <1>1, <1>2, <1>3, <1>4, <1>5 DEF AtWork
<1> QED  BY <1>1, <1>3, <1>4, <1>5, <1>6, TurnStep

LEMMA ReopenTurn ==
    ASSUME WorkflowInv, TurnInv, NEW r \in Requests, Reopen(r)
    PROVE  TurnInv' /\ \A i \in Instances : instance[i] \in Ended => instance'[i] = instance[i]
<1>1. PICK t \in TaskType, i \in Instances, s \in Sequences :
          /\ t = task[r] /\ t # NoTask /\ t.step = "reopen" /\ i = t.instance /\ s = t.at
          /\ t.kind = "RESUBMIT" /\ s \in StagesOf(i) /\ AtWork(t, i, s)
          /\ IsFirst(s, StagesOf(i))
          /\ \A q \in Requests \ {r} : task[q] = NoTask
  BY TurnFacts DEF Reopen, TaskStep
<1>2. /\ instance[i] = "RETURNED" /\ ActiveStages(i) = {s} /\ stage[i][s].received = 0
      /\ \A q \in Sequences : fresh[i][q] = 0
  BY <1>1 DEF AtWork
<1>3. UNCHANGED <<stage, fresh>> /\ EndTask(r) /\ instance' = [instance EXCEPT ![i] = "IN_PROGRESS"]
  BY <1>1 DEF Reopen
<1>4. instance'[i] = "IN_PROGRESS" /\ \A j \in Instances \ {i} : instance'[j] = instance[j]
  BY <1>3 DEF WorkflowInv, WorkflowTypeOK
<1>5. StagesOf(i)' = StagesOf(i) /\ ActiveStages(i)' = {s}
  BY <1>2, <1>3 DEF StagesOf, ActiveStages
<1>6. ASSUME NEW q \in StagesOf(i)
      PROVE  /\ q \in Sequences /\ s <= q /\ ~ q < s /\ fresh[i][q] = 0 /\ stage[i][q].received >= 0
             /\ IsFirst(q, StagesOf(i)) => q = s
  <2>1. q \in Sequences /\ q \in Nat /\ s \in Nat /\ stage[i][q].received \in Nat
    BY StageAssumption DEF StagesOf, WorkflowInv, WorkflowTypeOK, StageRow
  <2>2. s <= q /\ (IsFirst(q, StagesOf(i)) => q <= s)
    BY <1>1 DEF IsFirst
  <2> QED  BY <1>2, <2>1, <2>2
<1>7. Counted(i)'
  BY <1>2, <1>3, <1>5, <1>6 DEF Counted, CountedAt
<1>8. Waits(i, s)'
  BY <1>1, <1>3, <1>5, <1>6 DEF Waits, Reached
<1>9. fresh'[i][s] < MinApprovals[s]
  <2>1. MinApprovals[s] \in Nat \ {0}
    BY StageAssumption
  <2> QED  BY <1>2, <1>3, <2>1
<1>10. Resting(i)'
  BY <1>1, <1>4, <1>5, <1>7, <1>8, <1>9 DEF Resting
<1>11. TurnInv'
  BY <1>1, <1>3, <1>4, <1>10, TaskEnds, TurnStep
<1> QED  BY <1>2, <1>4, <1>11 DEF Ended

\* Among the stages of a workflow there is a first one.
LEMMA FirstExists ==
    ASSUME NEW T \in SUBSET Nat, IsFiniteSet(T), T # {}
    PROVE  \E f \in T : \A s \in T : f <= s
<1> DEFINE UpTo(x) == {y \in T : y <= x}
<1>1. PICK R : R = StrictSubsetOrdering(T)
  OBVIOUS
<1>2. IsWellFoundedOn(R, FiniteSubsetsOf(T))
  BY <1>1, FS_StrictSubsetOrderingWellFounded
<1>3. PICK Heads : Heads = {UpTo(x) : x \in T}
  OBVIOUS
<1>4. Heads \subseteq FiniteSubsetsOf(T) /\ Heads # {}
  <2>1. FiniteSubsetsOf(T) = SUBSET T
    BY FS_FiniteSubsetsOfFinite
  <2>2. \A x \in T : UpTo(x) \in SUBSET T
    OBVIOUS
  <2>3. Heads \subseteq SUBSET T
    <3> HIDE DEF UpTo
    <3> QED  BY <1>3, <2>2
  <2>4. Heads # {}
    <3> HIDE DEF UpTo
    <3> QED  BY <1>3
  <2> QED  BY <2>1, <2>3, <2>4
<1>5. PICK H \in Heads : \A G \in Heads : ~ (<<G, H>> \in R)
  BY <1>2, <1>4, WFMin
<1>6. PICK f \in T : H = UpTo(f)
  BY <1>3
<1>7. ASSUME NEW s \in T, ~(f <= s) PROVE FALSE
  <2>1. s \in Nat /\ f \in Nat /\ s < f
    BY <1>7
  <2>2. \A y \in T : y \in Nat /\ (y <= s => y <= f)
    BY <2>1
  <2>3. UpTo(s) \subseteq UpTo(f)
    BY <2>2
  <2>4. f \notin UpTo(s) /\ f \in UpTo(f)
    BY <2>1
  <2>5. PICK P, Q : P = UpTo(s) /\ Q = UpTo(f)
    OBVIOUS
  <2>6. P \in SUBSET T /\ Q \in SUBSET T /\ P \subseteq Q /\ P # Q /\ P \in Heads /\ H = Q
    BY <1>3, <1>6, <2>3, <2>4, <2>5
  <2>7. <<P, Q>> \in StrictSubsetOrdering(T)
    BY <2>6 DEF StrictSubsetOrdering
  <2> QED  BY <1>1, <1>5, <2>6, <2>7
<1> QED  BY <1>7

LEMMA StartTurn ==
    ASSUME WorkflowInv, TurnInv, NEW i \in Instances, NEW left \in SUBSET Conditional,
           NEW roles \in [Sequences -> Roles \cup {None}], StartInstance(i, left, roles)
    PROVE  TurnInv' /\ \A j \in Instances : instance[j] \in Ended => instance'[j] = instance[j]
<1>1. /\ instance[i] = "ABSENT" /\ Sequences \ left # {}
      /\ instance' = [instance EXCEPT ![i] = "IN_PROGRESS"]
      /\ UNCHANGED <<recorded, fresh, task>>
  BY DEF StartInstance
<1>2. PICK rows : rows = [s \in Sequences |->
           [status |-> IF s \in left THEN "ABSENT"
                       ELSE IF IsFirst(s, Sequences \ left) THEN "ACTIVE" ELSE "PENDING",
            role |-> IF s \in left THEN None ELSE roles[s],
            received |-> 0]]
  OBVIOUS
<1>3. stage' = [stage EXCEPT ![i] = rows]
  BY <1>2 DEF StartInstance
<1>4. /\ stage'[i] = rows /\ instance'[i] = "IN_PROGRESS"
      /\ \A j \in Instances \ {i} : stage'[j] = stage[j] /\ instance'[j] = instance[j]
  BY <1>1, <1>3 DEF WorkflowInv, WorkflowTypeOK
<1>5. /\ StagesOf(i)' = Sequences \ left
      /\ ActiveStages(i)' = {s \in Sequences \ left : IsFirst(s, Sequences \ left)}
      /\ \A s \in Sequences : stage'[i][s].received = 0
  BY <1>2, <1>4 DEF StagesOf, ActiveStages
<1>6. \A r \in Requests, t \in TaskType : task[r] = t => instance[t.instance] # "ABSENT"
  BY DEF TurnInv, AtWork, TaskType
<1>7. \A r \in Requests : task[r] # NoTask => task[r].instance # i
  BY <1>1, <1>6 DEF WorkflowInv, WorkflowTypeOK
<1>8. \A s \in Sequences : fresh[i][s] = 0
  BY <1>1, <1>7 DEF TurnInv, Resting
<1>9. PICK f \in Sequences \ left : \A s \in Sequences \ left : f <= s
  <2>1. PICK T \in SUBSET Sequences : T = Sequences \ left
    OBVIOUS
  <2>2. IsFiniteSet(T) /\ T \in SUBSET Nat /\ T # {}
    BY <1>1, <2>1, StageAssumption, FS_Subset
  <2> QED  BY <2>1, <2>2, FirstExists
<1>10. ActiveStages(i)' = {f} /\ \A s \in StagesOf(i)' : ~ s < f
  <2>1. \A s \in Sequences : s \in Nat
    BY StageAssumption
  <2>2. ASSUME NEW s \in Sequences \ left
        PROVE  (IsFirst(s, Sequences \ left) <=> s = f) /\ ~ s < f
    <3>1. s \in Nat /\ f \in Nat /\ f <= s
      BY <1>9, <2>1
    <3>2. IsFirst(s, Sequences \ left) => s <= f
      BY <1>9 DEF IsFirst
    <3>3. s = f => IsFirst(s, Sequences \ left)
      BY <1>9 DEF IsFirst
    <3> QED  BY <3>1, <3>2, <3>3
  <2> QED  BY <1>5, <1>9, <2>2
<1>11. Waits(i, f)' /\ fresh'[i][f] < MinApprovals[f]
  <2>1. MinApprovals[f] \in Nat \ {0} /\ fresh'[i][f] = 0
    BY <1>1, <1>8, <1>9, StageAssumption
  <2>2. Waits(i, f)'
    BY <1>1, <1>5, <1>8, <1>9, <1>10 DEF Waits, Reached
  <2> QED  BY <2>1, <2>2
<1>12. Counted(i)'
  BY <1>1, <1>5, <1>8 DEF Counted, CountedAt
<1>13. Resting(i)'
  BY <1>4, <1>5, <1>9, <1>11, <1>12 DEF Resting
<1>14. ASSUME NEW j \in Instances \ {i}
       PROVE  /\ Resting(j) => Resting(j)'
              /\ \A t \in TaskType, s \in Sequences : AtWork(t, j, s) => AtWork(t, j, s)'
  <2>1. stage'[j] = stage[j] /\ fresh'[j] = fresh[j] /\ instance'[j] = instance[j]
    BY <1>1, <1>4
  <2>2. StagesOf(j)' = StagesOf(j) /\ ActiveStages(j)' = ActiveStages(j)
    BY <2>1 DEF StagesOf, ActiveStages
  <2>3. /\ Counted(j) <=> Counted(j)'
        /\ FirstAnew(j) <=> FirstAnew(j)'
        /\ \A q \in StagesOf(j) : CountedAt(j, q) <=> CountedAt(j, q)'
        /\ \A q : Reached(j, q) <=> Reached(j, q)'
    BY <2>1, <2>2 DEF Counted, CountedAt, FirstAnew, Reached
  <2>4. \A q : Waits(j, q) <=> Waits(j, q)'
    BY <2>2, <2>3 DEF Waits
  <2>5. Resting(j) => Resting(j)'
    BY <2>1, <2>2, <2>3, <2>4 DEF Resting
  <2>6. ASSUME NEW t \in TaskType, NEW s \in Sequences, AtWork(t, j, s) PROVE AtWork(t, j, s)'
    BY <2>1, <2>2, <2>3, <2>4, <2>6 DEF AtWork
  <2> QED  BY <2>5, <2>6
<1>15. TurnInv'
  <2>1. ASSUME NEW r \in Requests, NEW t \in TaskType, NEW j \in Instances, NEW s \in Sequences,
               task'[r] = t, t.instance = j, t.at = s
        PROVE  AtWork(t, j, s)'
    <3>1. AtWork(t, j, s) /\ j # i
      <4>1. NoTask \notin TaskType
        BY DEF NoTask, TaskType
      <4> QED  BY <1>1, <1>7, <2>1, <4>1 DEF TurnInv
    <3> QED  BY <1>14, <3>1
  <2>2. ASSUME NEW j \in Instances, \A r \in Requests : task'[r] # NoTask => task'[r].instance # j
        PROVE  Resting(j)'
    <3>1. CASE j = i
      BY <1>13, <3>1
    <3>2. CASE j # i
      <4>1. Resting(j)
        BY <1>1, <2>2 DEF TurnInv
      <4> QED  BY <1>14, <3>2, <4>1
    <3> QED  BY <3>1, <3>2
  <2>3. \A q, r \in Requests : task'[q] # NoTask /\ task'[r] # NoTask => q = r
    BY <1>1 DEF TurnInv
  <2> QED  BY <2>1, <2>2, <2>3 DEF TurnInv
<1> QED  BY <1>1, <1>4, <1>15 DEF Ended

-----------------------------------------------------------------------------
(* Requests that take turns *)

SerialInv == WorkflowInv /\ (serial => TurnInv)

LEMMA TurnsFromTheStart == WorkflowInit => SerialInv
<1> SUFFICES ASSUME WorkflowInit PROVE SerialInv
  OBVIOUS
<1>1. WorkflowInv
  BY WorkflowInvInit
<1>2. \A r \in Requests : task[r] = NoTask
  BY DEF WorkflowInit
<1>3. NoTask \notin TaskType
  BY DEF NoTask, TaskType
<1>4. ASSUME NEW i \in Instances PROVE Resting(i)
  <2>1. /\ instance[i] = "ABSENT"
        /\ \A s \in Sequences : fresh[i][s] = 0 /\ stage[i][s].status = "ABSENT"
    BY DEF WorkflowInit
  <2>2. StagesOf(i) = {} /\ ActiveStages(i) = {}
    BY <2>1 DEF StagesOf, ActiveStages
  <2> QED  BY <2>1, <2>2 DEF Resting, Counted
<1> QED  BY <1>1, <1>2, <1>3, <1>4 DEF SerialInv, TurnInv

\* Each step of a run by turns keeps the invariant, and leaves what has ended alone.
LEMMA TurnsGoOn ==
    ASSUME SerialInv, WorkflowNext, serial
    PROVE  TurnInv' /\ \A i \in Instances : instance[i] \in Ended => instance'[i] = instance[i]
<1>1. WorkflowInv /\ TurnInv
  BY DEF SerialInv
<1>2. CASE \E i \in Instances, left \in SUBSET Conditional,
               roles \in [Sequences -> Roles \cup {None}] : StartInstance(i, left, roles)
  BY <1>1, <1>2, StartTurn
<1>3. ASSUME NEW r \in Requests, NEW i \in Instances, Settled, BeginResubmit(r, i)
      PROVE  TurnInv' /\ instance' = instance
  <2>1. TurnInv'
    BY <1>1, <1>3, ResubmitTurn
  <2> QED  BY <1>3, <2>1 DEF BeginResubmit
<1>4. ASSUME NEW r \in Requests, NEW i \in Instances, Settled,
             NEW kind \in ActionKind, NEW user \in Users, BeginAct(r, i, kind, user)
      PROVE  TurnInv' /\ instance' = instance
  <2>1. TurnInv'
    BY <1>1, <1>4, ActTurn
  <2> QED  BY <1>4, <2>1 DEF BeginAct
<1>5. ASSUME NEW r \in Requests, WorkflowStep(r)
      PROVE  TurnInv' /\ \A i \in Instances : instance[i] \in Ended => instance'[i] = instance[i]
  <2>1. CASE RecordAction(r)
    <3>1. TurnInv'
      BY SMTT(30), <1>1, <2>1, RecordTurn
    <3> QED  BY <2>1, <3>1 DEF RecordAction
  <2>2. CASE WriteStage(r)
    <3>1. TurnInv'
      BY <1>1, <2>2, StageTurn
    <3> QED  BY <2>2, <3>1 DEF WriteStage
  <2>3. CASE ActivateNext(r)
    <3>1. TurnInv'
      BY <1>1, <2>3, NextTurn
    <3> QED  BY <2>3, <3>1 DEF ActivateNext
  <2>4. CASE EndInstance(r)
    BY SMTT(30), <1>1, <2>4, EndTurn
  <2>5. CASE RestartFirst(r)
    <3>1. TurnInv'
      BY <1>1, <2>5, RestartTurn
    <3> QED  BY <2>5, <3>1 DEF RestartFirst
  <2>6. CASE LogResubmit(r)
    <3>1. TurnInv'
      BY <1>1, <2>6, LogTurn
    <3> QED  BY <2>6, <3>1 DEF LogResubmit
  <2>7. CASE Reopen(r)
    BY <1>1, <2>7, ReopenTurn
  <2> QED  BY <1>5, <2>1, <2>2, <2>3, <2>4, <2>5, <2>6, <2>7 DEF WorkflowStep
<1> QED
  <2>1. CASE \E r \in Requests : WorkflowStep(r)
    BY <1>5, <2>1
  <2>2. CASE \E r \in Requests, i \in Instances :
                /\ serial => Settled
                /\ \/ BeginResubmit(r, i)
                   \/ \E kind \in ActionKind, user \in Users : BeginAct(r, i, kind, user)
    BY <1>3, <1>4, <2>2
  <2> QED  BY <1>2, <2>1, <2>2 DEF WorkflowNext

LEMMA TurnsKept == SerialInv /\ [WorkflowNext]_workflowVars => SerialInv'
<1> SUFFICES ASSUME SerialInv, [WorkflowNext]_workflowVars PROVE SerialInv'
  OBVIOUS
<1>1. WorkflowInv'
  BY WorkflowInvNext DEF SerialInv
<1>2. serial' = serial
  BY DEF WorkflowNext, workflowVars
<1>3. CASE serial /\ WorkflowNext
  BY <1>1, <1>2, <1>3, TurnsGoOn DEF SerialInv
<1>4. CASE serial /\ UNCHANGED workflowVars
  <2>1. TurnInv
    BY SMTT(30), <1>4 DEF SerialInv
  <2>2. TurnInv'
    BY <1>4, <2>1 DEF workflowVars, TurnInv, AtWork, Resting, Waits, Reached, Counted, CountedAt,
                      FirstAnew, ActiveStages, StagesOf, IsFirst
  <2> QED  BY <1>1, <2>2 DEF SerialInv
<1>5. CASE ~serial
  BY <1>1, <1>2, <1>5 DEF SerialInv
<1> QED  BY <1>3, <1>4, <1>5

\* Who rests, or is at work, goes through the stages one by one.
LEMMA TurnsAreStages == SerialInv => SerialStages
<1> SUFFICES ASSUME SerialInv, serial PROVE OneActiveStage /\ AdvancesWhenEnough /\ FirstStageAnew
  BY DEF SerialStages
<1>1. WorkflowInv /\ TurnInv
  BY DEF SerialInv
<1>2. ASSUME Settled, NEW i \in Instances
      PROVE  Resting(i)
  BY <1>1, <1>2 DEF TurnInv, Settled
<1>3. OneActiveStage
  <2> SUFFICES ASSUME Settled, NEW i \in Instances
               PROVE  IF instance[i] = "IN_PROGRESS"
                      THEN \E s \in StagesOf(i) :
                              /\ ActiveStages(i) = {s}
                              /\ \A t \in StagesOf(i) : t < s => stage[i][t].status = "APPROVED"
                      ELSE ActiveStages(i) = {}
    BY DEF OneActiveStage
  <2>1. Resting(i)
    BY <1>2
  <2> QED  BY <2>1 DEF Resting, Waits, Reached
<1>4. AdvancesWhenEnough
  <2> SUFFICES ASSUME Settled, NEW i \in Instances, NEW s \in ActiveStages(i),
                      instance[i] = "IN_PROGRESS"
               PROVE  fresh[i][s] < MinApprovals[s]
    BY DEF AdvancesWhenEnough
  <2>1. Resting(i)
    BY <1>2
  <2> QED  BY <2>1 DEF Resting, Waits
<1>5. FirstStageAnew
  <2> SUFFICES ASSUME NEW i \in Instances, instance[i] \in {"APPROVED", "POSTED"}
               PROVE  FirstAnew(i)
    BY DEF FirstStageAnew, FirstAnew
  <2>1. CASE \A r \in Requests : task[r] # NoTask => task[r].instance # i
    BY <1>1, <2>1 DEF TurnInv, Resting
  <2>2. ASSUME NEW r \in Requests, task[r] # NoTask, task[r].instance = i
        PROVE  FALSE
    <3>1. PICK t \in TaskType : t = task[r]
      BY <1>1, <2>2 DEF WorkflowInv, WorkflowTypeOK
    <3>2. PICK s \in Sequences : s = t.at
      BY DEF TaskType
    <3>3. AtWork(t, i, s)
      BY <1>1, <2>2, <3>1, <3>2 DEF TurnInv
    <3> QED  BY <3>3 DEF AtWork
  <2> QED  BY <2>1, <2>2
<1> QED  BY <1>3, <1>4, <1>5

LEMMA TurnsHold == WorkflowSpec => []SerialInv
BY TurnsFromTheStart, TurnsKept, PTL DEF WorkflowSpec

\* While requests take turns, an instance waits on exactly one stage with all
\* the earlier ones approved, leaves it with the approval that makes it
\* complete, and is approved only with the approvals of its first stage since
\* it was last resubmitted: whatever the stages, rules and approvers of the
\* workflow.
THEOREM StagesGoInTurn == WorkflowSpec => []SerialStages
BY TurnsHold, TurnsAreStages, PTL

\* While requests take turns, what has been approved, posted or rejected stays
\* so: no request of the engine writes the status of an ended instance.
THEOREM EndedStaysEnded == WorkflowSpec => SerialEndedForGood
<1> DEFINE Keeps == serial => \A i \in Instances : instance[i] \in Ended => instance'[i] = instance[i]
<1>1. SerialInv /\ [WorkflowNext]_workflowVars => [Keeps]_workflowVars
  BY TurnsGoOn
<1> QED  BY <1>1, TurnsHold, PTL DEF WorkflowSpec, SerialEndedForGood
=============================================================================

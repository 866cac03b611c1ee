--------------------------- MODULE WorkflowEngine ---------------------------
(***************************************************************************)
(* The approval engine: instances of one workflow definition, the stages   *)
(* each goes through, and the requests that act on them.                   *)
(*                                                                         *)
(* WorkflowEngineService opens no transaction: act and resubmit read the   *)
(* instance with its stages once, then commit two or three rows one after  *)
(* the other, each by its id alone.  A request keeps what it has read.     *)
(***************************************************************************)
EXTENDS Integers, FiniteSets

CONSTANTS
    Instances,     \* bound: rows of workflow_instances
    Sequences,     \* the definition's stages, by their sequence number
    Conditional,   \* the stages a workflow-level rule may leave out
    StageType,     \* WorkflowStageDefinition.stageType
    MinApprovals,  \* WorkflowStageDefinition.minApprovals
    RolesFor,      \* the roles the rules of a stage may require, None for no role
    HoldersOf,     \* the users that hold a role
    Users,
    Requests,      \* bound: requests in flight at once
    MayFail,       \* whether a request may end between two writes
    MaxRecorded,   \* bound: advancing actions recorded on one stage
    None

StageTypes == {"DRAFT", "SUBMITTED", "REVIEW", "APPROVAL", "POSTED", "ARCHIVED"}
Roles == DOMAIN HoldersOf

ASSUME StageAssumption ==
    /\ Sequences \subseteq Nat /\ IsFiniteSet(Sequences)
    /\ Conditional \subseteq Sequences
    /\ StageType \in [Sequences -> StageTypes]
    /\ MinApprovals \in [Sequences -> Nat \ {0}]
    /\ RolesFor \in [Sequences -> SUBSET (Roles \cup {None})]

VARIABLES
    instance,  \* WorkflowInstance.status, "ABSENT" before it is started
    stage,     \* the stage instances
    recorded,  \* advancing actions that act has logged, by stage
    fresh,     \* those among them since the instance was last (re)submitted
    task,      \* the requests in flight
    serial     \* whether requests take turns and each runs to its end

workflowVars == <<instance, stage, recorded, fresh, task, serial>>

Ended == {"APPROVED", "POSTED", "REJECTED"}
InstanceStatus == {"ABSENT", "IN_PROGRESS", "RETURNED", "ARCHIVED"} \cup Ended
StageStatus == {"ABSENT", "PENDING", "ACTIVE", "APPROVED", "REJECTED", "RETURNED"}
StageRow == [status : StageStatus, role : Roles \cup {None}, received : Nat]

\* ADVANCING_ACTIONS count alike and are one kind here.
ActionKind == {"ADVANCE", "REJECT", "RETURN", "COMMENT"}
TaskStep == {"record", "stage", "next", "end", "restart", "log", "reopen"}
TaskType ==
    [step : TaskStep, kind : ActionKind \cup {"RESUBMIT"}, instance : Instances,
     at : Sequences, received : Nat]
NoTask == [step |-> "idle"]

WorkflowTypeOK ==
    /\ instance \in [Instances -> InstanceStatus]
    /\ stage \in [Instances -> [Sequences -> StageRow]]
    /\ recorded \in [Instances -> [Sequences -> Nat]]
    /\ fresh \in [Instances -> [Sequences -> Nat]]
    /\ task \in [Requests -> TaskType \cup {NoTask}]

WorkflowInit ==
    /\ instance = [i \in Instances |-> "ABSENT"]
    /\ stage = [i \in Instances |->
           [s \in Sequences |-> [status |-> "ABSENT", role |-> None, received |-> 0]]]
    /\ recorded = [i \in Instances |-> [s \in Sequences |-> 0]]
    /\ fresh = [i \in Instances |-> [s \in Sequences |-> 0]]
    /\ task = [r \in Requests |-> NoTask]
    /\ serial \in BOOLEAN

StagesOf(i) == {s \in Sequences : stage[i][s].status # "ABSENT"}
ActiveStages(i) == {s \in Sequences : stage[i][s].status = "ACTIVE"}
IsFirst(s, S) == s \in S /\ \A t \in S : s <= t
LaterStages(i, s) == {t \in StagesOf(i) : t > s}

-----------------------------------------------------------------------------
(* startInstance: the rules leave some conditional stages out, and choose    *)
(* the role each stage requires; one nested create writes all rows.          *)

StartInstance(i, left, roles) ==
    /\ instance[i] = "ABSENT"
    /\ Sequences \ left # {}
    /\ instance' = [instance EXCEPT ![i] = "IN_PROGRESS"]
    /\ stage' = [stage EXCEPT ![i] = [s \in Sequences |->
           [status |-> IF s \in left THEN "ABSENT"
                       ELSE IF IsFirst(s, Sequences \ left) THEN "ACTIVE" ELSE "PENDING",
            role |-> IF s \in left THEN None ELSE roles[s],
            received |-> 0]]]
    /\ UNCHANGED <<recorded, fresh, task>>

-----------------------------------------------------------------------------
(* act *)

MayAct(user, role) == role # None => user \in HoldersOf[role]

\* The read of the instance, its first active stage and the actor's role.
BeginAct(r, i, kind, user) ==
    /\ task[r] = NoTask
    /\ instance[i] = "IN_PROGRESS"
    /\ \E s \in ActiveStages(i) :
        /\ IsFirst(s, ActiveStages(i))
        /\ kind = "COMMENT" \/ MayAct(user, stage[i][s].role)
        /\ task' = [task EXCEPT ![r] =
               [step |-> "record", kind |-> kind, instance |-> i, at |-> s,
                received |-> stage[i][s].received]]
    /\ UNCHANGED <<instance, stage, recorded, fresh>>

AtStep(r, step) == task[r] # NoTask /\ task[r].step = step
MoveTo(r, step) == task' = [task EXCEPT ![r].step = step]
EndTask(r) == task' = [task EXCEPT ![r] = NoTask]

\* Mutated form of RecordAction: the row of the action is not written.
RecordActionUnlogged(r) ==
    /\ AtStep(r, "record")
    /\ IF task[r].kind = "COMMENT" THEN EndTask(r) ELSE MoveTo(r, "stage")
    /\ UNCHANGED <<instance, stage, recorded, fresh>>

RecordAction(r) ==
    /\ AtStep(r, "record")
    /\ LET i == task[r].instance
           s == task[r].at
       IN  IF task[r].kind = "ADVANCE"
           THEN /\ recorded[i][s] < MaxRecorded
                /\ recorded' = [recorded EXCEPT ![i][s] = @ + 1]
                /\ fresh' = [fresh EXCEPT ![i][s] = @ + 1]
           ELSE UNCHANGED <<recorded, fresh>>
    /\ IF task[r].kind = "COMMENT" THEN EndTask(r) ELSE MoveTo(r, "stage")
    /\ UNCHANGED <<instance, stage>>

\* Mutated form of Complete: one approval too few.
CompleteEarly(t) == t.received + 2 >= MinApprovals[t.at]

\* The approval of t completes its stage.  t.received is the count it read.
Complete(t) == t.received + 1 >= MinApprovals[t.at]

StageAfter(t) ==
    CASE t.kind = "REJECT" -> "REJECTED"
      [] t.kind = "RETURN" -> "RETURNED"
      [] Complete(t)       -> "APPROVED"
      [] OTHER             -> "ACTIVE"

ReceivedAfter(t, received) == IF t.kind = "ADVANCE" THEN t.received + 1 ELSE received

WriteStage(r) ==
    /\ AtStep(r, "stage")
    /\ LET t == task[r]
       IN  /\ stage' = [stage EXCEPT
                  ![t.instance][t.at].status = StageAfter(t),
                  ![t.instance][t.at].received = ReceivedAfter(t, @)]
           /\ IF t.kind = "ADVANCE" /\ ~Complete(t) THEN EndTask(r)
              ELSE IF t.kind = "ADVANCE" /\ LaterStages(t.instance, t.at) # {}
                   THEN MoveTo(r, "next")
                   ELSE MoveTo(r, "end")
    /\ UNCHANGED <<instance, recorded, fresh>>

\* Mutated form of ActivateNext: the stage after the next one.
ActivateLast(r) ==
    /\ AtStep(r, "next")
    /\ LET i == task[r].instance
       IN  \E s \in LaterStages(i, task[r].at) :
            /\ \A t \in LaterStages(i, task[r].at) : t <= s
            /\ stage' = [stage EXCEPT ![i][s].status = "ACTIVE"]
    /\ EndTask(r)
    /\ UNCHANGED <<instance, recorded, fresh>>

\* The next stage becomes active; its count stays what it was.
ActivateNext(r) ==
    /\ AtStep(r, "next")
    /\ LET i == task[r].instance
       IN  \E s \in LaterStages(i, task[r].at) :
            /\ IsFirst(s, LaterStages(i, task[r].at))
            /\ stage' = [stage EXCEPT ![i][s].status = "ACTIVE"]
    /\ EndTask(r)
    /\ UNCHANGED <<instance, recorded, fresh>>

\* Mutated form of StatusAfter: the type of the last stage is taken as it is.
StatusAfterType(t) ==
    CASE t.kind = "REJECT" -> "REJECTED"
      [] t.kind = "RETURN" -> "RETURNED"
      [] OTHER -> StageType[t.at]

StatusAfter(t) ==
    CASE t.kind = "REJECT" -> "REJECTED"
      [] t.kind = "RETURN" -> "RETURNED"
      [] t.kind = "ADVANCE" /\ StageType[t.at] = "POSTED" -> "POSTED"
      [] OTHER -> "APPROVED"

EndInstance(r) ==
    /\ AtStep(r, "end")
    /\ instance' = [instance EXCEPT ![task[r].instance] = StatusAfter(task[r])]
    /\ EndTask(r)
    /\ UNCHANGED <<stage, recorded, fresh>>

-----------------------------------------------------------------------------
(* resubmit *)

\* Mutated form of BeginResubmit: any instance that has ended restarts.
BeginResubmitEnded(r, i) ==
    /\ task[r] = NoTask
    /\ instance[i] \in Ended \cup {"RETURNED"}
    /\ \E s \in StagesOf(i) :
        /\ IsFirst(s, StagesOf(i))
        /\ task' = [task EXCEPT ![r] =
               [step |-> "restart", kind |-> "RESUBMIT", instance |-> i, at |-> s,
                received |-> 0]]
    /\ UNCHANGED <<instance, stage, recorded, fresh>>

BeginResubmit(r, i) ==
    /\ task[r] = NoTask
    /\ instance[i] = "RETURNED"
    /\ \E s \in StagesOf(i) :
        /\ IsFirst(s, StagesOf(i))
        /\ task' = [task EXCEPT ![r] =
               [step |-> "restart", kind |-> "RESUBMIT", instance |-> i, at |-> s,
                received |-> 0]]
    /\ UNCHANGED <<instance, stage, recorded, fresh>>

\* Only the first stage is reset.
RestartFirst(r) ==
    /\ AtStep(r, "restart")
    /\ stage' = [stage EXCEPT ![task[r].instance][task[r].at].status = "ACTIVE",
                              ![task[r].instance][task[r].at].received = 0]
    /\ MoveTo(r, "log")
    /\ UNCHANGED <<instance, recorded, fresh>>

LogResubmit(r) ==
    /\ AtStep(r, "log")
    /\ fresh' = [fresh EXCEPT ![task[r].instance] = [s \in Sequences |-> 0]]
    /\ MoveTo(r, "reopen")
    /\ UNCHANGED <<instance, stage, recorded>>

Reopen(r) ==
    /\ AtStep(r, "reopen")
    /\ instance' = [instance EXCEPT ![task[r].instance] = "IN_PROGRESS"]
    /\ EndTask(r)
    /\ UNCHANGED <<stage, recorded, fresh>>

-----------------------------------------------------------------------------
FailTask(r) ==
    /\ MayFail
    /\ task[r] # NoTask
    /\ EndTask(r)
    /\ UNCHANGED <<instance, stage, recorded, fresh>>

WorkflowStep(r) ==
    \/ RecordAction(r) \/ WriteStage(r) \/ ActivateNext(r) \/ EndInstance(r)
    \/ RestartFirst(r) \/ LogResubmit(r) \/ Reopen(r)

Settled == \A r \in Requests : task[r] = NoTask

WorkflowNext ==
    /\ serial' = serial
    /\ \/ \E i \in Instances, left \in SUBSET Conditional, roles \in [Sequences -> Roles \cup {None}] :
              /\ \A s \in Sequences : roles[s] \in RolesFor[s]
              /\ StartInstance(i, left, roles)
       \/ \E r \in Requests, i \in Instances :
              /\ serial => Settled
              /\ \/ BeginResubmit(r, i)
                 \/ \E kind \in ActionKind, user \in Users : BeginAct(r, i, kind, user)
       \/ \E r \in Requests : WorkflowStep(r) \/ (~serial /\ FailTask(r))

WorkflowSpec == WorkflowInit /\ [][WorkflowNext]_workflowVars

-----------------------------------------------------------------------------
(* Properties that hold whatever the requests interleave *)

\* The approvals a stage counts are all in the action log.
ApprovalsAreRecorded ==
    \A i \in Instances, s \in Sequences : stage[i][s].received <= recorded[i][s]

\* An instance that ended approved or posted has the approvals that each of
\* its stages asks for, in spite of stale counts, returns, resubmissions and
\* requests that stop between two writes.
EnoughApprovals ==
    \A i \in Instances : instance[i] \in {"APPROVED", "POSTED"} =>
        \A s \in StagesOf(i) : recorded[i][s] >= MinApprovals[s]

-----------------------------------------------------------------------------
(* The inductive invariant behind them *)

Enough(i, s) == recorded[i][s] >= MinApprovals[s]
EnoughBefore(i, s) == \A t \in StagesOf(i) : t < s => Enough(i, t)

\* A stage is active only when those before it have had their approvals, and
\* an instance not yet started has no stage.
StageInv ==
    /\ \A i \in Instances : \A s \in ActiveStages(i) : EnoughBefore(i, s)
    /\ \A i \in Instances : instance[i] = "ABSENT" => StagesOf(i) = {}

\* What a request has read, and still holds when it writes.
TaskOK(r) ==
    LET t == task[r]
    IN  /\ t.at \in StagesOf(t.instance)
        /\ EnoughBefore(t.instance, t.at)
        /\ t.kind = "RESUBMIT" <=> t.step \in {"restart", "log", "reopen"}
        /\ t.kind = "COMMENT" => t.step = "record"
        /\ t.kind = "RESUBMIT" => IsFirst(t.at, StagesOf(t.instance))
        /\ t.step = "next" => t.kind = "ADVANCE"
        /\ t.kind = "ADVANCE" =>
            /\ t.received <= recorded[t.instance][t.at]
            /\ t.step = "stage" => t.received < recorded[t.instance][t.at]
            /\ t.step \in {"next", "end"} => Enough(t.instance, t.at)
            /\ t.step = "end" => LaterStages(t.instance, t.at) = {}

TaskInv == \A r \in Requests : task[r] # NoTask => TaskOK(r)

WorkflowInv ==
    /\ WorkflowTypeOK /\ StageInv /\ TaskInv
    /\ ApprovalsAreRecorded /\ EnoughApprovals

-----------------------------------------------------------------------------
(* Properties that need the requests to take turns and to run to their end *)

\* Between requests an instance in progress waits on exactly one stage, with
\* every earlier stage approved; any other instance waits on none.
OneActiveStage ==
    Settled => \A i \in Instances :
        IF instance[i] = "IN_PROGRESS"
        THEN \E s \in StagesOf(i) :
                /\ ActiveStages(i) = {s}
                /\ \A t \in StagesOf(i) : t < s => stage[i][t].status = "APPROVED"
        ELSE ActiveStages(i) = {}

\* Between requests, no stage waits for approvals it has already been given.
AdvancesWhenEnough ==
    Settled => \A i \in Instances : \A s \in ActiveStages(i) :
        instance[i] = "IN_PROGRESS" => fresh[i][s] < MinApprovals[s]

\* An approved instance had the approvals of its first stage since it was last
\* resubmitted.
FirstStageAnew ==
    \A i \in Instances : instance[i] \in {"APPROVED", "POSTED"} =>
        \A s \in StagesOf(i) : IsFirst(s, StagesOf(i)) => fresh[i][s] >= MinApprovals[s]

\* While requests take turns, an instance goes through its stages one by one: it
\* waits on exactly one, leaves it as soon as it may, and begins again at the
\* first when it was returned.
SerialStages == serial => OneActiveStage /\ AdvancesWhenEnough /\ FirstStageAnew

\* While requests take turns, approval, posting and rejection end an instance
\* for good.
SerialEndedForGood ==
    [][serial => \A i \in Instances : instance[i] \in Ended => instance'[i] = instance[i]]_workflowVars
=============================================================================

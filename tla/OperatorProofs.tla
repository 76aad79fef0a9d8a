--------------------------- MODULE OperatorProofs ---------------------------
(***************************************************************************)
(* Proofs about WorkflowOperator.tla and ClusterOperator.tla, for any step *)
(* lists, schedules, labels, rules and bounds, with and without faults.    *)
(*                                                                         *)
(* Both arguments are about revisions.  A copy is never newer than the     *)
(* object, and a copy of the same revision has the same spec; what the     *)
(* reconcile has put into the copy's status is then a legal move from the  *)
(* object's status.  Every other write to the object raises its revision,  *)
(* so a copy that is behind stays behind and its status is refused.        *)
(***************************************************************************)
EXTENDS WorkflowOperator, ClusterOperator, TLAPS

OperatorSpec == OperatorInit /\ [][OperatorNext]_operatorVars

Phases == {"", "Running", "Succeeded", "Failed"}
Lists == StepLists \cup {<<>>}
Whens == Schedules \cup {""}
Workflows == [rev : Nat, steps : Lists, schedule : Whens, phase : Phases, last : Nat]

\* The phase a status update may write over the one the object has.
Move(from, to, schedule) ==
  \/ from = to
  \/ from = "" /\ to = "Running" /\ opJob.made
  \/ from = "Running" /\ to = "Succeeded" /\ opJob.succeeded
  \/ from = "Running" /\ to = "Failed" /\ opJob.failed > 0
  \/ to = "Failed" /\ schedule = "bad"

OperatorTypes ==
  /\ opStored \in Workflows /\ opCached \in Workflows /\ opCopy \in Workflows
  /\ opJob \in [made : BOOLEAN, failed : Nat, succeeded : BOOLEAN]
  /\ opTick \in Nat
  /\ opPc \in {"idle", "map", "job", "monitor", "started", "finished", "record", "reject"}

CacheBehind ==
  /\ opCached.rev <= opStored.rev
  /\ opCached.rev = opStored.rev => opCached = opStored

\* What the copy of a reconcile holds as long as its revision is the object's.
CopyMoves ==
  opPc # "idle" =>
    /\ opCopy.rev <= opStored.rev
    /\ opCopy.rev = opStored.rev =>
         /\ opCopy.schedule = opStored.schedule
         /\ Move(opStored.phase, opCopy.phase, opStored.schedule)
         /\ opPc \in {"map", "job"} => opStored.phase = "" /\ opCopy.phase = ""
         /\ opPc = "monitor" => opStored.phase = "Running" /\ opCopy.phase = "Running"

Typed == opMap.made /\ \A i \in DOMAIN opMap.steps : opMap.steps[i].type # ""
MapFirst == opJob.made \/ opPc = "job" => Typed

OperatorIInv == OperatorTypes /\ CacheBehind /\ CopyMoves /\ MapFirst

\* A watched cluster starts without the object, the job or a reconcile.
LEMMA OperatorStart == OperatorInit => OperatorIInv
<1> SUFFICES ASSUME OperatorInit PROVE OperatorIInv
  OBVIOUS
<1>1. NoWorkflow \in Workflows /\ NoWorkflow.rev = 0
  BY DEF NoWorkflow, Workflows, Phases, Lists, Whens
<1>2. OperatorTypes /\ CacheBehind
  BY <1>1 DEF OperatorInit, OperatorTypes, CacheBehind, NoJob
<1>3. CopyMoves /\ MapFirst
  BY DEF OperatorInit, CopyMoves, MapFirst, NoJob
<1> QED
  BY <1>2, <1>3 DEF OperatorIInv

\* A reconcile begins on the cached copy, which has the object's phase when it has the
\* object's revision.
LEMMA ReconcileKeeps ==
  ASSUME OperatorIInv, Reconcile
  PROVE  OperatorIInv'
<1> USE DEF OperatorIInv, OperatorTypes
<1>1. /\ opPc = "idle" /\ UNCHANGED <<opStored, opCached, opJob, opMap, opTick>>
      /\ opCached \in Workflows /\ opTick \in Nat
  BY DEF Reconcile
<1>2. CASE opCached.schedule = ""
  <2>1. opCopy' = opCached /\ opPc' = Execution(opCached, "idle")
    BY <1>2 DEF Reconcile
  <2>2. /\ opPc' \in {"idle", "map", "monitor"}
        /\ opPc' = "map" => opCached.phase = ""
        /\ opPc' = "monitor" => opCached.phase = "Running"
    BY <2>1, <1>1 DEF Execution, Workflows, Phases
  <2> QED
    BY <1>1, <2>1, <2>2 DEF CacheBehind, CopyMoves, MapFirst, Move, Typed
<1>3. CASE opCached.schedule = "bad"
  <2>1. opCopy' = [opCached EXCEPT !.phase = "Failed"] /\ opPc' = "reject"
    BY <1>3 DEF Reconcile, handleScheduledWorkflow
  <2>2. /\ opCopy' \in Workflows /\ opCopy'.rev = opCached.rev
        /\ opCopy'.schedule = "bad" /\ opCopy'.phase = "Failed"
    BY <1>1, <1>3, <2>1 DEF Workflows, Phases
  <2> QED
    BY <1>1, <1>3, <2>1, <2>2 DEF CacheBehind, CopyMoves, MapFirst, Move, Typed
<1>4. CASE opCached.schedule \notin {"", "bad"}
  <2> DEFINE due == IF Due(opCached) THEN [opCached EXCEPT !.last = opTick] ELSE opCached
  <2>1. /\ opCopy' = due
        /\ opPc' = IF Due(opCached) THEN Execution(due, "record") ELSE "record"
    BY <1>4 DEF Reconcile, handleScheduledWorkflow
  <2>2. /\ due \in Workflows /\ due.rev = opCached.rev /\ due.schedule = opCached.schedule
        /\ due.phase = opCached.phase
    BY <1>1 DEF Workflows
  <2> HIDE DEF due
  <2>3. /\ opPc' \in {"record", "map", "monitor"}
        /\ opPc' = "map" => due.phase = ""
        /\ opPc' = "monitor" => due.phase = "Running"
    BY <2>1, <2>2 DEF Execution, Workflows, Phases
  <2> QED
    BY <1>1, <2>1, <2>2, <2>3 DEF CacheBehind, CopyMoves, MapFirst, Move, Typed
<1> QED
  BY <1>2, <1>3, <1>4

\* Every write to the object by the user raises its revision, so whatever copy there is
\* falls behind.
LEMMA ApplyKeeps ==
  ASSUME OperatorIInv, NEW steps \in StepLists, NEW s \in Schedules, ApplyWorkflow(steps, s)
  PROVE  OperatorIInv'
<1>1. /\ opStored' = [opStored EXCEPT !.rev = opStored.rev + 1, !.steps = steps, !.schedule = s]
      /\ UNCHANGED <<opCached, opJob, opMap, opTick, opPc, opCopy>>
  BY DEF ApplyWorkflow
<1>2. opStored \in Workflows /\ steps \in Lists /\ s \in Whens
  BY DEF OperatorIInv, OperatorTypes, Lists, Whens
<1>3. opStored' \in Workflows /\ opStored'.rev = opStored.rev + 1 /\ opStored.rev \in Nat
  <2>1. opStored' = [rev |-> opStored.rev + 1, steps |-> steps, schedule |-> s,
                     phase |-> opStored.phase, last |-> opStored.last]
    BY <1>1, <1>2 DEF Workflows
  <2>2. opStored.rev \in Nat /\ opStored.phase \in Phases /\ opStored.last \in Nat
    BY <1>2 DEF Workflows
  <2> QED
    BY <1>2, <2>1, <2>2 DEF Workflows
<1>4. opCached.rev \in Nat /\ opCopy.rev \in Nat
  BY DEF OperatorIInv, OperatorTypes, Workflows
<1>5. OperatorTypes' /\ MapFirst'
  BY <1>1, <1>3 DEF OperatorIInv, OperatorTypes, MapFirst, Typed
<1>6. CacheBehind'
  BY <1>1, <1>3, <1>4 DEF OperatorIInv, CacheBehind
<1>7. CopyMoves'
  <2>1. opPc # "idle" => opCopy.rev <= opStored.rev
    BY DEF OperatorIInv, CopyMoves
  <2>2. UNCHANGED <<opCopy, opPc>>
    BY <1>1
  <2>3. opPc # "idle" => opCopy.rev <= opStored'.rev /\ opCopy.rev # opStored'.rev
    BY <1>3, <1>4, <2>1
  <2> QED
    BY <2>2, <2>3 DEF CopyMoves, Move
<1> QED
  BY <1>5, <1>6, <1>7 DEF OperatorIInv

\* The clock and the cache disturb no copy.
LEMMA CacheKeeps ==
  ASSUME OperatorIInv, OperatorTick \/ CacheCatchesUp
  PROVE  OperatorIInv'
<1>1. /\ UNCHANGED <<opStored, opJob, opMap, opPc, opCopy>> /\ opTick' \in Nat
      /\ opCached' = opCached \/ opCached' = opStored
  BY DEF OperatorTick, CacheCatchesUp, OperatorIInv, OperatorTypes
<1>2. opStored.rev \in Nat
  BY DEF OperatorIInv, OperatorTypes, Workflows
<1>3. OperatorTypes' /\ MapFirst'
  BY <1>1 DEF OperatorIInv, OperatorTypes, MapFirst, Typed
<1>4. CacheBehind'
  BY <1>1, <1>2 DEF OperatorIInv, CacheBehind
<1>5. CopyMoves'
  BY <1>1 DEF OperatorIInv, CopyMoves, Move
<1> QED
  BY <1>3, <1>4, <1>5 DEF OperatorIInv

\* The pods only add to what the job has seen, so a move it allows stays allowed.
LEMMA PodsKeep ==
  ASSUME OperatorIInv, PodFails \/ PodSucceeds
  PROVE  OperatorIInv'
<1>1. UNCHANGED <<opStored, opCached, opMap, opTick, opPc, opCopy>> /\ opJob.made
  BY DEF PodFails, PodSucceeds
<1>2. \/ opJob' = [opJob EXCEPT !.failed = opJob.failed + 1]
      \/ opJob' = [opJob EXCEPT !.succeeded = TRUE]
  BY DEF PodFails, PodSucceeds
<1>3. opJob \in [made : BOOLEAN, failed : Nat, succeeded : BOOLEAN]
  BY DEF OperatorIInv, OperatorTypes
<1>4. opJob' \in [made : BOOLEAN, failed : Nat, succeeded : BOOLEAN]
  <2>1. opJob.failed + 1 \in Nat
    BY <1>3
  <2>2. CASE opJob' = [opJob EXCEPT !.failed = opJob.failed + 1]
    BY <1>3, <2>1, <2>2
  <2>3. CASE opJob' = [opJob EXCEPT !.succeeded = TRUE]
    BY <1>3, <2>3
  <2> QED
    BY <1>2, <2>2, <2>3
<1>5. /\ opJob'.made
      /\ opJob.succeeded => opJob'.succeeded
      /\ opJob.failed > 0 => opJob'.failed > 0
  BY <1>1, <1>2, <1>3
<1>6. OperatorTypes' /\ CacheBehind'
  BY <1>1, <1>4 DEF OperatorIInv, OperatorTypes, CacheBehind
<1>7. CopyMoves'
  BY <1>1, <1>5 DEF OperatorIInv, CopyMoves, Move
<1>8. MapFirst'
  BY <1>1 DEF OperatorIInv, MapFirst, Typed
<1> QED
  BY <1>6, <1>7, <1>8 DEF OperatorIInv

\* The config map gets a type for every step before the job can be created.
LEMMA MapTyped == configMapForWorkflow(opCopy).made
                  /\ \A i \in DOMAIN configMapForWorkflow(opCopy).steps :
                       configMapForWorkflow(opCopy).steps[i].type # ""
BY DEF configMapForWorkflow

\* The calls of handleWorkflowExecution: each leaves the object alone and changes the
\* copy's phase only by a move the job allows.
LEMMA ExecutionKeeps ==
  ASSUME OperatorIInv,
         CallFails \/ CreateOrUpdateConfigMap \/ CreateJob \/ OperatorRestarts
  PROVE  OperatorIInv'
<1> USE DEF OperatorIInv, OperatorTypes
<1>0. AfterExecution(opCopy) \in {"idle", "record"}
  BY DEF AfterExecution
<1>1. CASE CallFails
  BY <1>0, <1>1 DEF CallFails, CacheBehind, CopyMoves, Move, MapFirst, Typed
<1>2. CASE CreateOrUpdateConfigMap
  <2>1. Typed'
    BY <1>2, MapTyped DEF CreateOrUpdateConfigMap, Typed
  <2> QED
    BY <1>2, <2>1 DEF CreateOrUpdateConfigMap, CacheBehind, CopyMoves, Move, MapFirst
<1>3. CASE CreateJob
  <2>1. UNCHANGED <<opStored, opCached, opMap, opTick>> /\ opPc = "job" /\ Typed /\ Typed'
    BY <1>3 DEF CreateJob, MapFirst, Typed
  <2>2. CASE opJob.made
    BY <1>0, <1>3, <2>1, <2>2 DEF CreateJob, CacheBehind, CopyMoves, Move, MapFirst
  <2>3. CASE ~ opJob.made /\ opCopy.steps = <<>>
    <3>1. /\ opPc' = "idle" /\ opCopy' = opCopy
          /\ opJob' = [made |-> TRUE, failed |-> 0, succeeded |-> FALSE]
      BY <1>3, <2>3 DEF CreateJob, jobForWorkflow
    <3> QED
      BY <2>1, <3>1 DEF CacheBehind, CopyMoves, MapFirst
  <2>4. CASE ~ opJob.made /\ opCopy.steps # <<>>
    <3>1. /\ opPc' = "started" /\ opCopy' = [opCopy EXCEPT !.phase = "Running"]
          /\ opJob' = [made |-> TRUE, failed |-> 0, succeeded |-> FALSE]
      BY <1>3, <2>4 DEF CreateJob, jobForWorkflow
    <3>2. /\ opCopy' \in Workflows /\ opCopy'.rev = opCopy.rev
          /\ opCopy'.schedule = opCopy.schedule /\ opCopy'.phase = "Running"
      BY <3>1 DEF Workflows, Phases
    <3> QED
      BY <2>1, <3>1, <3>2 DEF CacheBehind, CopyMoves, Move, MapFirst
  <2> QED
    BY <2>2, <2>3, <2>4
<1>4. CASE OperatorRestarts
  BY <1>4 DEF OperatorRestarts, CacheBehind, CopyMoves, MapFirst, Typed
<1> QED
  BY <1>1, <1>2, <1>3, <1>4

\* What the monitor reads of the job may be old, never ahead of it.
LEMMA MonitorKeeps ==
  ASSUME OperatorIInv, NEW made \in BOOLEAN, NEW succeeded \in BOOLEAN, NEW failed \in Nat,
         MonitorWorkflow([made |-> made, failed |-> failed, succeeded |-> succeeded])
  PROVE  OperatorIInv'
<1> DEFINE seen == [made |-> made, failed |-> failed, succeeded |-> succeeded]
<1> USE DEF OperatorIInv, OperatorTypes
<1>0. AfterExecution(opCopy) \in {"idle", "record"}
  BY DEF AfterExecution
<1>1. /\ UNCHANGED <<opStored, opCached, opJob, opMap, opTick>> /\ opPc = "monitor"
      /\ succeeded => opJob.succeeded
      /\ failed <= opJob.failed
  BY DEF MonitorWorkflow
<1>2. CASE PhaseSeen(seen) = "Running"
  <2>1. opPc' = AfterExecution(opCopy) /\ UNCHANGED opCopy
    BY <1>2 DEF MonitorWorkflow
  <2> QED
    BY <1>0, <1>1, <2>1 DEF CacheBehind, CopyMoves, Move, MapFirst, Typed
<1>3. CASE PhaseSeen(seen) # "Running"
  <2>1. opPc' = "finished" /\ opCopy' = [opCopy EXCEPT !.phase = PhaseSeen(seen)]
    BY <1>3 DEF MonitorWorkflow
  <2>2. \/ PhaseSeen(seen) = "Succeeded" /\ succeeded
        \/ PhaseSeen(seen) = "Failed" /\ failed > 0
    BY <1>3 DEF PhaseSeen
  <2>3. \/ PhaseSeen(seen) = "Succeeded" /\ opJob.succeeded
        \/ PhaseSeen(seen) = "Failed" /\ opJob.failed > 0
    BY <1>1, <2>2
  <2>4. /\ opCopy' \in Workflows /\ opCopy'.rev = opCopy.rev
        /\ opCopy'.schedule = opCopy.schedule /\ opCopy'.phase = PhaseSeen(seen)
    BY <2>1, <2>3 DEF Workflows, Phases
  <2> QED
    BY <1>1, <2>1, <2>3, <2>4 DEF CacheBehind, CopyMoves, Move, MapFirst, Typed
<1> QED
  BY <1>2, <1>3

\* A status that is taken was computed from the object's own revision, so it is a legal
\* move; it raises the revision, and the answer brings the copy along.
LEMMA StatusKeeps ==
  ASSUME OperatorIInv, NEW answered \in BOOLEAN, UpdateStatus(answered)
  PROVE  /\ OperatorIInv'
         /\ opStored'.phase # opStored.phase =>
              Move(opStored.phase, opStored'.phase, opStored.schedule)
<1>1. /\ UNCHANGED <<opCached, opJob, opMap, opTick>>
      /\ opPc \in {"started", "finished", "record", "reject"}
      /\ opPc' \in {"idle", "record"}
  BY DEF UpdateStatus, AfterExecution
<1>2. /\ opStored \in Workflows /\ opCopy \in Workflows
      /\ opStored.rev \in Nat /\ opCached.rev \in Nat
  BY DEF OperatorIInv, OperatorTypes, Workflows
<1>3. MapFirst'
  BY <1>1 DEF OperatorIInv, MapFirst, Typed
<1>4. CASE answered /\ Accepted(opCopy)
  <2>1. opCopy.rev = opStored.rev /\ opPc # "idle"
    BY <1>1, <1>4 DEF Accepted
  <2>2. Move(opStored.phase, opCopy.phase, opStored.schedule)
    BY <2>1 DEF OperatorIInv, CopyMoves
  <2>3. /\ opStored' = [opStored EXCEPT !.rev = opStored.rev + 1, !.phase = opCopy.phase,
                                        !.last = opCopy.last]
        /\ opCopy' = opStored'
    BY <1>4 DEF UpdateStatus
  <2>4. opStored' = [rev |-> opStored.rev + 1, steps |-> opStored.steps,
                     schedule |-> opStored.schedule, phase |-> opCopy.phase,
                     last |-> opCopy.last]
    BY <1>2, <2>3 DEF Workflows
  <2>5. /\ opStored.steps \in Lists /\ opStored.schedule \in Whens
        /\ opCopy.phase \in Phases /\ opCopy.last \in Nat
    BY <1>2 DEF Workflows
  <2>6. /\ opStored' \in Workflows /\ opStored'.rev = opStored.rev + 1
        /\ opStored'.phase = opCopy.phase
    BY <1>2, <2>4, <2>5 DEF Workflows
  <2>7. OperatorTypes'
    BY <1>1, <2>3, <2>6 DEF OperatorIInv, OperatorTypes
  <2>8. CacheBehind'
    BY <1>1, <1>2, <2>6 DEF OperatorIInv, CacheBehind
  <2>9. CopyMoves'
    <3>1. opCopy'.rev <= opStored'.rev
      BY <1>2, <2>3, <2>6
    <3>2. opCopy'.schedule = opStored'.schedule /\ opCopy'.phase = opStored'.phase
      BY <2>3
    <3>3. opPc' \notin {"map", "job", "monitor"}
      BY <1>1
    <3> QED
      BY <3>1, <3>2, <3>3 DEF CopyMoves, Move
  <2> QED
    BY <1>3, <2>2, <2>6, <2>7, <2>8, <2>9 DEF OperatorIInv
<1>5. CASE ~ (answered /\ Accepted(opCopy))
  <2>1. UNCHANGED <<opStored, opCopy>>
    BY <1>5 DEF UpdateStatus
  <2>2. OperatorTypes' /\ CacheBehind'
    BY <1>1, <2>1 DEF OperatorIInv, OperatorTypes, CacheBehind
  <2>3. CopyMoves'
    BY <1>1, <2>1 DEF OperatorIInv, CopyMoves, Move
  <2> QED
    BY <1>3, <2>1, <2>2, <2>3 DEF OperatorIInv
<1> QED
  BY <1>4, <1>5

\* Only the status update changes the phase of the object.
LEMMA PhaseUntouched ==
  ASSUME opStored \in Workflows,
         \/ \E steps \in StepLists, s \in Schedules : ApplyWorkflow(steps, s)
         \/ OperatorTick \/ CacheCatchesUp \/ PodFails \/ PodSucceeds
         \/ Reconcile \/ CallFails \/ CreateOrUpdateConfigMap \/ CreateJob
         \/ \E seen : MonitorWorkflow(seen)
         \/ OperatorRestarts
  PROVE  opStored'.phase = opStored.phase
<1>1. ASSUME NEW steps, NEW s, ApplyWorkflow(steps, s) PROVE opStored'.phase = opStored.phase
  BY <1>1 DEF ApplyWorkflow, Workflows
<1>2. ASSUME NEW seen, MonitorWorkflow(seen) PROVE opStored'.phase = opStored.phase
  BY <1>2 DEF MonitorWorkflow
<1>3. CASE OperatorTick \/ CacheCatchesUp \/ PodFails \/ PodSucceeds
  BY <1>3 DEF OperatorTick, CacheCatchesUp, PodFails, PodSucceeds
<1>4. CASE Reconcile \/ CallFails \/ OperatorRestarts
  BY <1>4 DEF Reconcile, CallFails, OperatorRestarts
<1>5. CASE CreateOrUpdateConfigMap \/ CreateJob
  BY <1>5 DEF CreateOrUpdateConfigMap, CreateJob
<1> QED
  BY <1>1, <1>2, <1>3, <1>4, <1>5

\* One step of the operator or its environment keeps the invariant and moves the phase
\* only as the job allows.
LEMMA OperatorStep ==
  ASSUME OperatorIInv, [OperatorNext]_operatorVars
  PROVE  /\ OperatorIInv'
         /\ opStored'.phase # opStored.phase =>
              Move(opStored.phase, opStored'.phase, opStored.schedule)
<1>0. opStored \in Workflows
  BY DEF OperatorIInv, OperatorTypes
<1>1. ASSUME NEW steps \in StepLists, NEW s \in Schedules, ApplyWorkflow(steps, s)
      PROVE  OperatorIInv' /\ opStored'.phase = opStored.phase
  BY <1>0, <1>1, ApplyKeeps, PhaseUntouched
<1>2. CASE OperatorTick \/ CacheCatchesUp
  BY <1>0, <1>2, CacheKeeps, PhaseUntouched
<1>3. CASE PodFails \/ PodSucceeds
  BY <1>0, <1>3, PodsKeep, PhaseUntouched
<1>4. CASE Reconcile
  BY <1>0, <1>4, ReconcileKeeps, PhaseUntouched
<1>5. CASE CallFails \/ CreateOrUpdateConfigMap \/ CreateJob \/ OperatorRestarts
  BY <1>0, <1>5, ExecutionKeeps, PhaseUntouched
<1>6. ASSUME NEW made \in BOOLEAN, NEW succeeded \in BOOLEAN, NEW failed \in 0..MaxPodFailures,
             MonitorWorkflow([made |-> made, failed |-> failed, succeeded |-> succeeded])
      PROVE  OperatorIInv' /\ opStored'.phase = opStored.phase
  <2>1. failed \in Nat
    BY OperatorBounds
  <2> QED
    BY <1>0, <1>6, <2>1, MonitorKeeps, PhaseUntouched
<1>7. ASSUME NEW answered \in BOOLEAN, UpdateStatus(answered)
      PROVE  /\ OperatorIInv'
             /\ opStored'.phase # opStored.phase =>
                  Move(opStored.phase, opStored'.phase, opStored.schedule)
  BY <1>7, StatusKeeps
<1>8. CASE UNCHANGED operatorVars
  BY <1>8 DEF operatorVars, OperatorIInv, OperatorTypes, CacheBehind, CopyMoves, Move, MapFirst,
              Typed
<1> QED
  BY <1>1, <1>2, <1>3, <1>4, <1>5, <1>6, <1>7, <1>8 DEF OperatorNext

\* PhaseFollowsJob for every step list, schedule and bound: what monitorWorkflowExecution
\* and the status updates write is backed by the job, although each works on a copy that
\* may be old, any call may fail and the operator may restart anywhere.
THEOREM PhaseFollowsTheJob ==
  OperatorSpec => PhaseFollowsJob
<1>1. OperatorIInv /\ [OperatorNext]_operatorVars => OperatorIInv'
  BY OperatorStep
<1>2. OperatorIInv /\ OperatorIInv' /\ [OperatorNext]_operatorVars =>
        [ /\ opStored'.phase # opStored.phase =>
               \/ opStored.phase = "" /\ opStored'.phase = "Running" /\ opJob.made
               \/ opStored.phase = "Running" /\ opStored'.phase = "Succeeded" /\ opJob.succeeded
               \/ opStored.phase = "Running" /\ opStored'.phase = "Failed" /\ opJob.failed > 0
               \/ opStored'.phase = "Failed" /\ opStored.schedule = "bad"
          /\ opJob'.made => /\ opMap'.made
                             /\ \A i \in DOMAIN opMap'.steps : opMap'.steps[i].type # ""
        ]_operatorVars
  <2> SUFFICES ASSUME OperatorIInv, OperatorIInv', [OperatorNext]_operatorVars
               PROVE  /\ opStored'.phase # opStored.phase =>
                           Move(opStored.phase, opStored'.phase, opStored.schedule)
                      /\ opJob'.made => Typed'
    BY DEF Move, Typed
  <2> QED
    BY OperatorStep DEF OperatorIInv, MapFirst
<1> QED
  BY <1>1, <1>2, OperatorStart, PTL DEF OperatorSpec, PhaseFollowsJob

-----------------------------------------------------------------------------
(* The agent and the policy controller                                     *)

ClusterSpec == ClusterInit /\ [][ClusterNext]_clusterVars

Policies == [rev : Nat, rules : RuleLists \cup {<<>>}, enabled : BOOLEAN, active : BOOLEAN]

\* The labels the service is about to get are the ones the deployment accepted.
AgentIInv ==
  /\ ServiceSelectsPods
  /\ agPc \in {"service", "status"} => agDeploy.made /\ agDeploy.labels = agCopy.labels

\* A copy of the object's revision has its rules, and is active only when they are
\* complete.
PolicyIInv ==
  /\ polStored \in Policies /\ polCached \in Policies /\ polCopy \in Policies
  /\ polCached.rev <= polStored.rev
  /\ polCached.rev = polStored.rev => polCached = polStored
  /\ polPc # "idle" =>
       /\ polCopy.rev <= polStored.rev
       /\ polCopy.rev = polStored.rev /\ polCopy.active =>
            validatePolicy(polStored) /\ polStored.enabled

\* The order of the calls of an agent's reconcile.
LEMMA AgentOrder ==
  /\ AgentSteps[1] = "deploy"
  /\ NextAgentStep("deploy") = "service"
  /\ NextAgentStep("service") = "status"
  /\ NextAgentStep("status") = "idle"
<1>1. AgentSteps[1] = "deploy" /\ AgentSteps[2] = "service" /\ AgentSteps[3] = "status"
  BY DEF AgentSteps
<1>2. (CHOOSE i \in 1..2 : AgentSteps[i] = "deploy") = 1
  BY <1>1
<1>3. (CHOOSE i \in 1..2 : AgentSteps[i] = "service") = 2
  BY <1>1
<1> QED
  BY <1>1, <1>2, <1>3 DEF NextAgentStep

\* The agent's side: the deployment never changes its labels once it exists, and the
\* service is reached only past a deployment that has the copy's.
LEMMA AgentStep ==
  ASSUME AgentIInv, [ClusterNext]_clusterVars
  PROVE  AgentIInv'
<1> USE DEF AgentIInv, ServiceSelectsPods
<1>1. ASSUME NEW l \in AgentLabels, NEW n \in AgentReplicas, ApplyAgent(l, n)
      PROVE  AgentIInv'
  BY <1>1 DEF ApplyAgent
<1>2. ASSUME NEW r \in RuleLists, NEW e \in BOOLEAN, ApplyPolicy(r, e)
      PROVE  AgentIInv'
  BY <1>2 DEF ApplyPolicy, agentSide
<1>3. ASSUME NEW n \in 0..agDeploy.replicas, PodsReady(n)
      PROVE  AgentIInv'
  BY <1>3 DEF PodsReady
<1>4. CASE ClusterCaches
  BY <1>4 DEF ClusterCaches
<1>5. CASE ReconcileAgent
  BY <1>5, AgentOrder DEF ReconcileAgent
<1>6. CASE CreateOrUpdateDeployment
  BY <1>6, AgentOrder DEF CreateOrUpdateDeployment, deploymentForAgent
<1>7. CASE CreateOrUpdateService
  BY <1>7, AgentOrder DEF CreateOrUpdateService, serviceForAgent
<1>8. CASE UpdateAgentStatus
  BY <1>8, AgentOrder DEF UpdateAgentStatus
<1>9. CASE ReconcilePolicy \/ UpdatePolicyStatus \/ PolicyCallFails
  BY <1>9 DEF ReconcilePolicy, UpdatePolicyStatus, PolicyCallFails, agentSide
<1>10. CASE AgentCallFails
  BY <1>10 DEF AgentCallFails
<1>11. CASE UNCHANGED clusterVars
  BY <1>11 DEF clusterVars
<1> QED
  BY <1>1, <1>2, <1>3, <1>4, <1>5, <1>6, <1>7, <1>8, <1>9, <1>10, <1>11 DEF ClusterNext

\* The policy's side, and when a policy may become active.
LEMMA PolicyStep ==
  ASSUME PolicyIInv, [ClusterNext]_clusterVars
  PROVE  /\ PolicyIInv'
         /\ polStored'.active /\ ~ polStored.active =>
              validatePolicy(polStored) /\ polStored.enabled
<1>1. ASSUME NEW r \in RuleLists, NEW e \in BOOLEAN, ApplyPolicy(r, e)
      PROVE  PolicyIInv' /\ polStored'.active = polStored.active
  <2>1. /\ polStored' = [polStored EXCEPT !.rev = polStored.rev + 1, !.rules = r, !.enabled = e]
        /\ UNCHANGED <<polCached, polCopy, polPc>> /\ polStored \in Policies
    BY <1>1 DEF ApplyPolicy, PolicyIInv
  <2>2. polStored' = [rev |-> polStored.rev + 1, rules |-> r, enabled |-> e,
                      active |-> polStored.active]
    BY <2>1 DEF Policies
  <2>3. /\ polStored' \in Policies /\ polStored'.rev = polStored.rev + 1
        /\ polStored'.active = polStored.active /\ polStored.rev \in Nat
    BY <2>1, <2>2 DEF Policies
  <2>4. polCached.rev \in Nat /\ polCopy.rev \in Nat
    BY DEF PolicyIInv, Policies
  <2>5. /\ polCached.rev <= polStored'.rev /\ polCached.rev # polStored'.rev
        /\ polPc # "idle" => polCopy.rev <= polStored'.rev /\ polCopy.rev # polStored'.rev
    BY <2>3, <2>4 DEF PolicyIInv
  <2>6. UNCHANGED <<polCached, polCopy, polPc>> /\ polCached \in Policies /\ polCopy \in Policies
    BY <2>1 DEF PolicyIInv
  <2> QED
    BY <2>3, <2>5, <2>6 DEF PolicyIInv, validatePolicy
<1>2. CASE ClusterCaches
  <2>1. polCached' = polStored /\ UNCHANGED <<polStored, polCopy, polPc>>
    BY <1>2 DEF ClusterCaches
  <2>2. polStored.rev \in Nat
    BY DEF PolicyIInv, Policies
  <2>3. /\ polCached' \in Policies /\ polCached'.rev <= polStored.rev
        /\ polCached'.rev = polStored.rev => polCached' = polStored
    BY <2>1, <2>2 DEF PolicyIInv
  <2>4. UNCHANGED <<polStored, polCopy, polPc>>
    BY <2>1
  <2>5. PolicyIInv'
    BY <2>3, <2>4 DEF PolicyIInv, validatePolicy
  <2> QED
    BY <2>4, <2>5
<1>3. CASE ReconcilePolicy
  <2> DEFINE active == validatePolicy(polCached) /\ polCached.enabled
  <2>1. /\ polCopy' = [polCached EXCEPT !.active = active]
        /\ UNCHANGED <<polStored, polCached>> /\ polCached \in Policies /\ polPc' = "status"
    BY <1>3 DEF ReconcilePolicy, PolicyIInv
  <2>2. active \in BOOLEAN
    BY <2>1 DEF Policies, validatePolicy
  <2>3. polCopy' \in Policies /\ polCopy'.rev = polCached.rev /\ polCopy'.active = active
    <3> HIDE DEF active
    <3> QED
      BY <2>1, <2>2 DEF Policies
  <2> QED
    BY <2>1, <2>3 DEF PolicyIInv, validatePolicy
<1>4. CASE UpdatePolicyStatus
  <2>1. CASE polCopy.rev # polStored.rev
    BY <1>4, <2>1 DEF UpdatePolicyStatus, PolicyIInv, validatePolicy
  <2>2. CASE polCopy.rev = polStored.rev
    <3>1. /\ polStored' = [polStored EXCEPT !.rev = polStored.rev + 1, !.active = polCopy.active]
          /\ UNCHANGED <<polCached, polCopy>> /\ polPc = "status" /\ polPc' = "idle"
      BY <1>4, <2>2 DEF UpdatePolicyStatus
    <3>2. /\ polStored \in Policies /\ polCopy \in Policies /\ polStored.rev \in Nat
          /\ polCached.rev \in Nat
      BY DEF PolicyIInv, Policies
    <3>3. /\ polStored' \in Policies /\ polStored'.rev = polStored.rev + 1
          /\ polStored'.active = polCopy.active
      <4>1. polStored' = [rev |-> polStored.rev + 1, rules |-> polStored.rules,
                          enabled |-> polStored.enabled, active |-> polCopy.active]
        BY <3>1, <3>2 DEF Policies
      <4>2. /\ polStored.rules \in RuleLists \cup {<<>>} /\ polStored.enabled \in BOOLEAN
            /\ polCopy.active \in BOOLEAN
        BY <3>2 DEF Policies
      <4> QED
        BY <3>2, <4>1, <4>2 DEF Policies
    <3>4. polCopy.active => validatePolicy(polStored) /\ polStored.enabled
      BY <2>2, <3>1 DEF PolicyIInv
    <3>5. polCached \in Policies /\ polCached.rev <= polStored.rev
      BY DEF PolicyIInv
    <3>6. polCached.rev <= polStored'.rev /\ polCached.rev # polStored'.rev
      BY <3>2, <3>3, <3>5
    <3>7. UNCHANGED <<polCached, polCopy>> /\ polPc' = "idle"
      BY <3>1
    <3>8. PolicyIInv'
      BY <3>2, <3>3, <3>5, <3>6, <3>7 DEF PolicyIInv
    <3> QED
      BY <3>3, <3>4, <3>8
  <2> QED
    BY <2>1, <2>2
<1>5. CASE PolicyCallFails
  BY <1>5 DEF PolicyCallFails, PolicyIInv
<1>6. ASSUME UNCHANGED policySide
      PROVE  PolicyIInv' /\ polStored'.active = polStored.active
  BY <1>6 DEF policySide, PolicyIInv, validatePolicy
<1>7. ASSUME NEW l, NEW n, ApplyAgent(l, n) PROVE UNCHANGED policySide
  BY <1>7 DEF ApplyAgent, policySide
<1>8. ASSUME NEW n, PodsReady(n) PROVE UNCHANGED policySide
  BY <1>8 DEF PodsReady, policySide
<1>9. CASE ReconcileAgent \/ CreateOrUpdateDeployment \/ CreateOrUpdateService
            \/ UpdateAgentStatus \/ AgentCallFails
  <2>1. UNCHANGED policySide
    BY <1>9 DEF ReconcileAgent, CreateOrUpdateDeployment, CreateOrUpdateService,
                UpdateAgentStatus, AgentCallFails, policySide
  <2> QED
    BY <1>6, <2>1
<1>10. CASE UNCHANGED clusterVars
  <2>1. UNCHANGED policySide
    BY <1>10 DEF clusterVars, policySide
  <2> QED
    BY <1>6, <2>1
<1> QED
  BY <1>1, <1>2, <1>3, <1>4, <1>5, <1>6, <1>7, <1>8, <1>9, <1>10 DEF ClusterNext

\* ReconciledInOrder for every set of labels, replicas and rules: the service follows the
\* deployment, and a policy is activated only on complete rules, whatever users edit
\* while the controllers work on old copies.
THEOREM ReconcilersKeepOrder == ClusterSpec => ReconciledInOrder
<1>1. ClusterInit => AgentIInv /\ PolicyIInv
  <2> SUFFICES ASSUME ClusterInit PROVE AgentIInv /\ PolicyIInv
    OBVIOUS
  <2>1. AgentIInv
    BY DEF ClusterInit, AgentIInv, ServiceSelectsPods, NoService
  <2>2. NoPolicy \in Policies /\ NoPolicy.rev = 0
    BY DEF NoPolicy, Policies
  <2>3. PolicyIInv
    BY <2>2 DEF ClusterInit, PolicyIInv
  <2> QED
    BY <2>1, <2>3
<1>2. AgentIInv /\ PolicyIInv /\ [ClusterNext]_clusterVars => AgentIInv' /\ PolicyIInv'
  BY AgentStep, PolicyStep
<1>3. PolicyIInv /\ [ClusterNext]_clusterVars =>
        [polStored'.active /\ ~ polStored.active =>
           /\ polStored.enabled /\ Len(polStored.rules) > 0
           /\ \A i \in 1..Len(polStored.rules) :
                "" \notin {polStored.rules[i].id, polStored.rules[i].condition,
                           polStored.rules[i].action}]_clusterVars
  <2> SUFFICES ASSUME PolicyIInv, [ClusterNext]_clusterVars,
                      polStored'.active, ~ polStored.active
               PROVE  /\ polStored.enabled /\ Len(polStored.rules) > 0
                      /\ \A i \in 1..Len(polStored.rules) :
                           "" \notin {polStored.rules[i].id, polStored.rules[i].condition,
                                      polStored.rules[i].action}
    OBVIOUS
  <2>1. validatePolicy(polStored) /\ polStored.enabled
    BY PolicyStep
  <2> QED
    BY <2>1 DEF validatePolicy
<1>4. AgentIInv => ServiceSelectsPods
  BY DEF AgentIInv
<1> QED
  BY <1>1, <1>2, <1>3, <1>4, PTL DEF ClusterSpec, ReconciledInOrder, ActivatedWhenValid
=============================================================================

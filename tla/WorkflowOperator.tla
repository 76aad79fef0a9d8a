-------------------------- MODULE WorkflowOperator --------------------------
(***************************************************************************)
(* The Kubernetes workflow controller (k8s/operator/workflow_controller.go) *)
(* against the API server.  A reconcile reads the workflow from a cache     *)
(* that may lag, writes the config map, creates the job under the           *)
(* workflow's own name, and writes the status, which the API server accepts *)
(* only at the revision that was read.  Every call may fail, the operator   *)
(* may restart between two calls, and the user may edit the workflow at any *)
(* time.  A schedule that parses is due one tick after it last ran.         *)
(***************************************************************************)
EXTENDS Naturals, Sequences

CONSTANTS StepLists,        \* the step lists users give: sequences of [type, agent]
          Schedules,        \* of {"", "tick", "bad"}: none, one that parses, one that does not
          OperatorFaults,   \* whether calls to the API server fail and the operator restarts
          MaxOperatorEdits, MaxOperatorTicks, MaxPodFailures, MaxReconciles

ASSUME OperatorBounds == MaxPodFailures \in Nat

VARIABLES opStored,   \* the Workflow object: [rev, steps, schedule, phase, last]
          opCached,   \* the version of it the controller's cache holds
          opJob, opMap, opTick,
          opPc, opCopy,                  \* the reconcile under way and its copy of the object
          opEdits, opLoops               \* bounds

operatorVars == <<opStored, opCached, opJob, opMap, opTick, opPc, opCopy, opEdits, opLoops>>

NoWorkflow == [rev |-> 0, steps |-> <<>>, schedule |-> "", phase |-> "", last |-> 0]
NoJob == [made |-> FALSE, failed |-> 0, succeeded |-> FALSE]
NoMap == [made |-> FALSE, steps |-> <<>>]

OperatorInit ==
  /\ opStored = NoWorkflow /\ opCached = NoWorkflow /\ opCopy = NoWorkflow
  /\ opJob = NoJob /\ opMap = NoMap /\ opTick = 1 /\ opPc = "idle"
  /\ opEdits = 0 /\ opLoops = 0

\* The user creates the workflow, edits its spec; time passes.  last = 0: never scheduled.
ApplyWorkflow(steps, schedule) ==
  /\ opStored.rev = 0 \/ opEdits < MaxOperatorEdits
  /\ opEdits' = IF opStored.rev = 0 THEN 0 ELSE opEdits + 1
  /\ opStored' = [opStored EXCEPT !.rev = @ + 1, !.steps = steps, !.schedule = schedule]
  /\ UNCHANGED <<opCached, opJob, opMap, opTick, opPc, opCopy, opLoops>>

OperatorTick ==
  /\ opTick < MaxOperatorTicks /\ opStored.rev > 0 /\ opTick' = opTick + 1
  /\ UNCHANGED <<opStored, opCached, opJob, opMap, opPc, opCopy, opEdits, opLoops>>

CacheCatchesUp ==
  /\ opCached # opStored /\ opCached' = opStored
  /\ UNCHANGED <<opStored, opJob, opMap, opTick, opPc, opCopy, opEdits, opLoops>>

\* The pods of the job: one that fails is replaced, so a failure is no verdict on the job.
PodFails ==
  /\ opJob.made /\ ~ opJob.succeeded /\ opJob.failed < MaxPodFailures
  /\ opJob' = [opJob EXCEPT !.failed = @ + 1]
  /\ UNCHANGED <<opStored, opCached, opMap, opTick, opPc, opCopy, opEdits, opLoops>>
PodSucceeds ==
  /\ opJob.made /\ ~ opJob.succeeded /\ opJob' = [opJob EXCEPT !.succeeded = TRUE]
  /\ UNCHANGED <<opStored, opCached, opMap, opTick, opPc, opCopy, opEdits, opLoops>>

\* Where handleWorkflowExecution goes with a phase; a finished workflow is left alone.
Execution(w, otherwise) ==
  CASE w.phase = "Running"         -> "monitor"
    [] w.phase \in {"", "Pending"} -> "map"
    [] OTHER                       -> otherwise
\* A scheduled reconcile still writes its status when the execution is over or failed.
AfterExecution(w) == IF w.schedule = "" THEN "idle" ELSE "record"

\* The schedule is due on the first run and one period after the last.
Due(w) == w.last = 0 \/ opTick >= w.last + 1

handleScheduledWorkflow(w) ==
  IF w.schedule = "bad"
  THEN opCopy' = [w EXCEPT !.phase = "Failed"] /\ opPc' = "reject"
  ELSE LET due == IF Due(w) THEN [w EXCEPT !.last = opTick] ELSE w
       IN  /\ opCopy' = due
           /\ opPc' = IF Due(w) THEN Execution(due, "record") ELSE "record"

Reconcile ==
  /\ opPc = "idle" /\ opCached.rev > 0 /\ opLoops < MaxReconciles /\ opLoops' = opLoops + 1
  /\ IF opCached.schedule # "" THEN handleScheduledWorkflow(opCached)
     ELSE opCopy' = opCached /\ opPc' = Execution(opCached, "idle")
  /\ UNCHANGED <<opStored, opCached, opJob, opMap, opTick, opEdits>>

\* A call that fails ends the execution with its error.
CallFails ==
  /\ OperatorFaults /\ opPc \in {"map", "job", "monitor"}
  /\ opPc' = AfterExecution(opCopy)
  /\ UNCHANGED <<opStored, opCached, opJob, opMap, opTick, opCopy, opEdits, opLoops>>

\* The definition the pods read: a step without a type is an agent step, an approval
\* without an agent gets a placeholder.
configMapForWorkflow(w) ==
  LET entry(step) ==
        LET type == IF step.type = "" THEN "agent" ELSE step.type
        IN  [type |-> type,
             agent |-> IF type = "approval" /\ step.agent = "" THEN "approval" ELSE step.agent]
  IN  [made |-> TRUE, steps |-> [i \in DOMAIN w.steps |-> entry(w.steps[i])]]

\* A job that has run no pod yet.
jobForWorkflow(w) == [made |-> TRUE, failed |-> 0, succeeded |-> FALSE]

\* createOrUpdateConfigMap: the map always ends up with the definition of the copy.
CreateOrUpdateConfigMap ==
  /\ opPc = "map" /\ opMap' = configMapForWorkflow(opCopy) /\ opPc' = "job"
  /\ UNCHANGED <<opStored, opCached, opJob, opTick, opCopy, opEdits, opLoops>>

\* The job has the workflow's name: while an earlier one is there the call fails.  The
\* status then names the first step; without one the reconcile panics and is recovered.
CreateJob ==
  /\ opPc = "job"
  /\ IF opJob.made
     THEN opPc' = AfterExecution(opCopy) /\ UNCHANGED <<opJob, opCopy>>
     ELSE /\ opJob' = jobForWorkflow(opCopy)
          /\ IF opCopy.steps = <<>> THEN opPc' = "idle" /\ UNCHANGED opCopy
             ELSE opPc' = "started" /\ opCopy' = [opCopy EXCEPT !.phase = "Running"]
  /\ UNCHANGED <<opStored, opCached, opMap, opTick, opEdits, opLoops>>

\* Mutant: a job the cache does not hold yet counts as failed.
PhaseSeenEager(job) ==
  CASE job.succeeded                -> "Succeeded"
    [] ~ job.made \/ job.failed > 0 -> "Failed"
    [] OTHER                        -> "Running"

\* The verdict on the job as it was read: a success counts before a failure, and a job
\* that is not there is looked for again.
PhaseSeen(job) ==
  CASE ~ job.made     -> "Running"
    [] job.succeeded  -> "Succeeded"
    [] job.failed > 0 -> "Failed"
    [] OTHER          -> "Running"

\* monitorWorkflowExecution: the job may be missing from the cache, or be read before
\* its pods changed.
MonitorWorkflow(seen) ==
  /\ opPc = "monitor"
  /\ seen.succeeded => opJob.succeeded
  /\ seen.failed <= opJob.failed /\ (seen.made => opJob.made)
  /\ IF PhaseSeen(seen) = "Running"
     THEN opPc' = AfterExecution(opCopy) /\ UNCHANGED opCopy
     ELSE opPc' = "finished" /\ opCopy' = [opCopy EXCEPT !.phase = PhaseSeen(seen)]
  /\ UNCHANGED <<opStored, opCached, opJob, opMap, opTick, opEdits, opLoops>>

\* The API server takes a status only for the revision it was read at.
Accepted(w) == w.rev = opStored.rev

\* The status update of each path.  The object's new revision comes back with the
\* answer; a scheduled execution is followed by the schedule's own update.
UpdateStatus(answered) ==
  /\ opPc \in {"started", "finished", "record", "reject"}
  /\ answered \/ OperatorFaults
  /\ LET taken == answered /\ Accepted(opCopy)
         next  == [opStored EXCEPT !.rev = @ + 1, !.phase = opCopy.phase, !.last = opCopy.last]
     IN  /\ opStored' = IF taken THEN next ELSE opStored
         /\ opCopy' = IF taken THEN next ELSE opCopy
         /\ opPc' = IF opPc \in {"started", "finished"} THEN AfterExecution(opCopy) ELSE "idle"
  /\ UNCHANGED <<opCached, opJob, opMap, opTick, opEdits, opLoops>>

OperatorRestarts ==
  /\ OperatorFaults /\ opPc # "idle" /\ opPc' = "idle"
  /\ UNCHANGED <<opStored, opCached, opJob, opMap, opTick, opCopy, opEdits, opLoops>>

OperatorNext ==
  \/ \E steps \in StepLists, s \in Schedules : ApplyWorkflow(steps, s)
  \/ OperatorTick \/ CacheCatchesUp \/ PodFails \/ PodSucceeds
  \/ Reconcile \/ CallFails \/ CreateOrUpdateConfigMap \/ CreateJob
  \/ \E made, succeeded \in BOOLEAN, failed \in 0..MaxPodFailures :
       MonitorWorkflow([made |-> made, failed |-> failed, succeeded |-> succeeded])
  \/ \E answered \in BOOLEAN : UpdateStatus(answered)
  \/ OperatorRestarts

-----------------------------------------------------------------------------
\* The status updates of workflow_controller.go: whatever the cache lags, whichever call
\* fails and wherever the operator restarts, the phase moves only from nothing to
\* Running once a job was made for it, from Running to Succeeded once a pod of the job
\* succeeded or to Failed once one failed, or to Failed when the stored schedule does
\* not parse; and a job has its config map, every step typed, before it exists.
PhaseFollowsJob ==
  [][ /\ opStored'.phase # opStored.phase =>
           \/ opStored.phase = "" /\ opStored'.phase = "Running" /\ opJob.made
           \/ opStored.phase = "Running" /\ opStored'.phase = "Succeeded" /\ opJob.succeeded
           \/ opStored.phase = "Running" /\ opStored'.phase = "Failed" /\ opJob.failed > 0
           \/ opStored'.phase = "Failed" /\ opStored.schedule = "bad"
      /\ opJob'.made => /\ opMap'.made
                         /\ \A i \in DOMAIN opMap'.steps : opMap'.steps[i].type # "" ]_operatorVars
=============================================================================

----------------------------- MODULE StepWorkflow -----------------------------
(***************************************************************************)
(* The step workflows of the server: pkg/orchestrate/workflow.go, run by   *)
(* RuntimeStepExecutor.ExecuteStep.  A step completes with an output or    *)
(* without one, or fails; a condition holds, does not, or cannot be        *)
(* evaluated; the workflow's context may end at any time.                  *)
(***************************************************************************)
EXTENDS Naturals, Sequences, FiniteSets

CONSTANTS OutputKeys,     \* values of output_key, NoKey among them
          NoKey,
          MaxStepCount    \* steps of a workflow

VARIABLES swConfig,   \* [parallel, onError, steps]: steps is a sequence of output keys
          swPc, swNext,
          swResults,  \* result.Steps, by the step's index
          swOutputs,  \* result.Outputs: key -> index of the step that wrote it
          swSeen,     \* the outputs each executed step was given
          swCtxDone, swStatus

swVars == <<swConfig, swPc, swNext, swResults, swOutputs, swSeen, swCtxDone, swStatus>>

Configs == [parallel : BOOLEAN, onError : {"stop", "continue"},
            steps : UNION {[1..n -> OutputKeys] : n \in 1..MaxStepCount}]
Empty == [k \in {} |-> 0]

SwInit ==
  /\ swConfig = [parallel |-> FALSE, onError |-> "stop", steps |-> <<>>]
  /\ swPc = "begin" /\ swNext = 1 /\ swResults = Empty /\ swOutputs = Empty /\ swSeen = Empty
  /\ swCtxDone = FALSE /\ swStatus = "running"

Count == Len(swConfig.steps)
Put(f, k, v) == [x \in DOMAIN f \cup {k} |-> IF x = k THEN v ELSE f[x]]

\* Execute with a configuration that Validate accepts.
SwExecute(config) ==
  /\ swPc = "begin" /\ swPc' = "steps" /\ swConfig' = config
  /\ UNCHANGED <<swNext, swResults, swOutputs, swSeen, swCtxDone, swStatus>>

\* The timeout of the workflow or a cancellation.
SwCancel ==
  /\ swPc = "steps" /\ ~swCtxDone /\ swCtxDone' = TRUE
  /\ UNCHANGED <<swConfig, swPc, swNext, swResults, swOutputs, swSeen, swStatus>>

End(status) == swPc' = "end" /\ swStatus' = status

\* The outcomes of ExecuteStep: a cancelled context fails it.
Outcomes == {"failed"} \cup IF swCtxDone THEN {} ELSE {"completed", "no output"}

\* result.Outputs after step i: only a completed step with an output writes it.
StoredOutput(i, o) ==
  IF o = "completed" /\ swConfig.steps[i] # NoKey
  THEN Put(swOutputs, swConfig.steps[i], i) ELSE swOutputs

\* executeSequential: an iteration that runs its step.
SequentialStep(o) ==
  /\ ~swConfig.parallel /\ swPc = "steps" /\ swNext <= Count /\ ~swCtxDone
  /\ o \in Outcomes \cup {"failed"}
  /\ swResults' = Put(swResults, swNext, o)
  /\ swSeen' = Put(swSeen, swNext, swOutputs)
  /\ swOutputs' = StoredOutput(swNext, o)
  /\ IF o = "failed" /\ swConfig.onError = "stop"
     THEN End("failed") /\ UNCHANGED swNext
     ELSE swNext' = swNext + 1 /\ UNCHANGED <<swPc, swStatus>>
  /\ UNCHANGED <<swConfig, swCtxDone>>

\* ... that skips it, its condition being false ...
SequentialSkip ==
  /\ ~swConfig.parallel /\ swPc = "steps" /\ swNext <= Count /\ ~swCtxDone
  /\ swResults' = Put(swResults, swNext, "skipped")
  /\ swNext' = swNext + 1
  /\ UNCHANGED <<swConfig, swPc, swOutputs, swSeen, swCtxDone, swStatus>>

\* ... or that ends the workflow: its condition is in error, or the context is done.
SequentialAbort ==
  /\ ~swConfig.parallel /\ swPc = "steps" /\ swNext <= Count
  /\ End("failed")
  /\ UNCHANGED <<swConfig, swNext, swResults, swOutputs, swSeen, swCtxDone>>

\* executeParallel: a step's goroutine ends; result.Outputs is still empty.
ParallelStep(i, o) ==
  /\ swConfig.parallel /\ swPc = "steps" /\ i \in 1..Count \ DOMAIN swResults
  /\ o \in Outcomes
  /\ swResults' = Put(swResults, i, o)
  /\ swSeen' = Put(swSeen, i, swOutputs)
  /\ UNCHANGED <<swConfig, swPc, swNext, swOutputs, swCtxDone, swStatus>>

Writers(k) == {i \in 1..Count : swConfig.steps[i] = k /\ swResults[i] = "completed"}
Largest(S) == CHOOSE i \in S : \A j \in S : j <= i

\* Mutant: the outputs are collected from the last step to the first.
CollectedBackwards ==
  [k \in {k \in OutputKeys \ {NoKey} : Writers(k) # {}} |->
     CHOOSE i \in Writers(k) : \A j \in Writers(k) : i <= j]

\* After wg.Wait the outputs are stored in the order of the steps.
Collected ==
  [k \in {k \in OutputKeys \ {NoKey} : Writers(k) # {}} |-> Largest(Writers(k))]

Failures == {i \in DOMAIN swResults : swResults[i] = "failed"}

\* The end of Execute: "completed" when every step is.
FinalStatus ==
  IF swConfig.parallel /\ swConfig.onError = "stop" /\ Failures # {} THEN "failed"
  ELSE IF \A i \in DOMAIN swResults : swResults[i] \in {"completed", "no output"}
       THEN "completed" ELSE "partial"

SwFinish ==
  /\ swPc = "steps"
  /\ IF swConfig.parallel THEN DOMAIN swResults = 1..Count ELSE swNext > Count
  /\ swOutputs' = IF swConfig.parallel THEN Collected ELSE swOutputs
  /\ End(FinalStatus)
  /\ UNCHANGED <<swConfig, swNext, swResults, swSeen, swCtxDone>>

SwNext ==
  \/ \E config \in Configs : SwExecute(config)
  \/ SwCancel \/ SequentialSkip \/ SequentialAbort \/ SwFinish
  \/ \E o \in {"completed", "no output", "failed"} : SequentialStep(o)
  \/ \E i \in 1..MaxStepCount, o \in {"completed", "no output", "failed"} : ParallelStep(i, o)

-----------------------------------------------------------------------------
\* The results of a workflow that ended do not depend on the order in which its
\* parallel steps did: an output is the one of the last step, in the order of the
\* file, that completed with its key.  A step is given exactly the outputs of the
\* completed steps before it, and nothing in a parallel workflow.  "completed"
\* means every step ran and none failed or was skipped, and a failed workflow
\* with on_error continue failed for its context or a condition.
StepResultsExact ==
  LET before(i, k) == {j \in DOMAIN swResults : /\ j < i /\ swConfig.steps[j] = k
                                                /\ swResults[j] = "completed"}
      visible(i) == [k \in {k \in OutputKeys \ {NoKey} : before(i, k) # {}} |->
                       Largest(before(i, k))]
  IN  /\ \A i \in DOMAIN swSeen :
           swSeen[i] = IF swConfig.parallel THEN Empty ELSE visible(i)
      /\ swPc = "end" =>
           /\ swOutputs = visible(Count + 1)
           /\ swStatus = "completed" => /\ DOMAIN swResults = 1..Count
                                        /\ Failures = {} /\ DOMAIN swSeen = 1..Count
           /\ swStatus = "failed" /\ swConfig.onError = "continue" =>
                ~swConfig.parallel /\ DOMAIN swResults # 1..Count
=============================================================================

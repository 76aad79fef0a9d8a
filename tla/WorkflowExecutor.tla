-------------------------- MODULE WorkflowExecutor --------------------------
(***************************************************************************)
(* The DAG workflow executor: Execute and Resume, the goroutines of one    *)
(* level, node conditions, the checkpoint and the node rows of the state   *)
(* store, cancellation, store errors and a crash of the process.           *)
(*                                                                         *)
(* The levels are those of DAG.GetExecutionLevels (module DAG); here only  *)
(* that every dependency is on a lower level matters.  Every node has an   *)
(* output key of its own, so result.Outputs is the set of nodes whose      *)
(* output it holds.  What a node computes, and what a condition says, is   *)
(* a choice.                                                               *)
(***************************************************************************)
EXTENDS Naturals, FiniteSets

CONSTANTS Nodes, Deps,    \* the DAG: Deps[n] are the nodes n depends on
          Level, Depth,   \* Level[n] is the level of n, in 1..Depth
          Conditional,    \* the nodes with a condition
          MaxCalls,       \* bound on calls of Execute and Resume
          StoreFaults,    \* may a store call fail?
          MayCancel,      \* may the caller's context be cancelled?
          MayCrash        \* may the process die?

ASSUME WorkflowAssumption ==
  /\ Deps \in [Nodes -> SUBSET Nodes]
  /\ Depth \in Nat \ {0}
  /\ Level \in [Nodes -> 1..Depth]
  /\ \A n \in Nodes : \A d \in Deps[n] : Level[d] < Level[n]
  /\ Conditional \subseteq Nodes
  /\ MaxCalls \in Nat
  /\ StoreFaults \in BOOLEAN /\ MayCancel \in BOOLEAN /\ MayCrash \in BOOLEAN

VARIABLES
  phase,      \* where the call is: no call, start of a level, goroutines, checkpoint
  call,       \* the function called last
  lvl,        \* the level it works on
  npc,        \* npc[n]: where the goroutine of n is
  status,     \* status[n]: NodeResults[n].Status
  outputs,    \* result.Outputs
  failed,     \* is the errors slice of executeLevel non-empty?
  result,     \* result.Status
  ctxDone,    \* is the context cancelled?
  cp,         \* the row of workflow_states
  nodeRow,    \* nodeRow[n]: status column of n in workflow_step_states
  lost,       \* the nodes whose row the load of the call did not return
  execs,      \* execs[n]: how often n was executed
  calls       \* number of calls so far

nodeVars  == <<npc, status, outputs, failed, execs>>
storeVars == <<cp, nodeRow, lost>>
wvars == <<phase, call, lvl, nodeVars, result, ctxDone, storeVars, calls>>

Statuses == {"pending", "running", "completed", "failed", "skipped"}
NoCheckpoint == [level |-> 0, outputs |-> {}]

\* No goroutine of the level is left: wg.Wait returns.
LevelDone == \A n \in Nodes : npc[n] \in {"off", "done"}

TypeOK ==
  /\ phase \in {"idle", "level", "nodes", "save"}
  /\ call \in {"none", "execute", "resume"}
  /\ lvl \in 1..(Depth + 1)
  /\ npc \in [Nodes -> {"off", "cond", "ready", "exec", "store", "done"}]
  /\ status \in [Nodes -> Statuses]
  /\ outputs \subseteq Nodes
  /\ failed \in BOOLEAN
  /\ result \in {"none", "running", "completed", "failed", "cancelled"}
  /\ ctxDone \in BOOLEAN
  /\ cp \in [level : 0..Depth, outputs : SUBSET Nodes]
  /\ nodeRow \in [Nodes -> {"absent", "completed", "failed"}]
  /\ lost \subseteq Nodes
  /\ execs \in [Nodes -> 0..MaxCalls]
  /\ calls \in 0..MaxCalls

Init ==
  /\ phase = "idle" /\ call = "none" /\ lvl = 1
  /\ npc = [n \in Nodes |-> "off"]
  /\ status = [n \in Nodes |-> "pending"]
  /\ outputs = {} /\ failed = FALSE /\ result = "none" /\ ctxDone = FALSE
  /\ cp = NoCheckpoint
  /\ nodeRow = [n \in Nodes |-> "absent"] /\ lost = {}
  /\ execs = [n \in Nodes |-> 0]
  /\ calls = 0

-----------------------------------------------------------------------------
(* The calls.                                                              *)

\* Execute with a new workflow id.
Execute ==
  /\ phase = "idle" /\ call = "none" /\ calls < MaxCalls
  /\ calls' = calls + 1
  /\ phase' = "level" /\ call' = "execute" /\ lvl' = 1
  /\ result' = "running"
  /\ UNCHANGED <<nodeVars, ctxDone, storeVars>>

\* LoadNodeStates passes over rows it cannot scan and does not ask whether the
\* reading was cut short, by an error or the context: `missing` are the nodes
\* whose row it does not return.
LoadNodeStates(missing) ==
  /\ missing \subseteq {n \in Nodes : nodeRow[n] # "absent"}
  /\ missing # {} => StoreFaults \/ ctxDone'
  /\ status' = [n \in Nodes |-> IF n \in missing \/ nodeRow[n] = "absent" THEN "pending" ELSE nodeRow[n]]
  /\ lost' = missing

\* Resume: outputs from the checkpoint, states from the node rows; a node
\* without one is pending.  Without a checkpoint it fails, changing nothing.
Resume ==
  /\ phase = "idle" /\ call # "none" /\ calls < MaxCalls
  /\ cp # NoCheckpoint
  /\ calls' = calls + 1
  /\ phase' = "level" /\ call' = "resume" /\ lvl' = 1
  /\ ctxDone' \in {FALSE, MayCancel}
  /\ \E missing \in SUBSET Nodes : LoadNodeStates(missing)
  /\ outputs' = cp.outputs
  /\ failed' = FALSE /\ result' = "running"
  /\ UNCHANGED <<npc, execs, cp, nodeRow>>

\* The call returns with status s.
Return(s) == phase' = "idle" /\ result' = s

-----------------------------------------------------------------------------
(* One level.                                                              *)

\* Mutant: every node that has not failed is launched.
ToRunAgain(l) == {n \in Nodes : Level[n] = l /\ (call = "resume" => status[n] # "failed")}

\* The nodes of level l to run: all, or on a resume those that neither
\* completed nor failed.
ToRun(l) == {n \in Nodes : /\ Level[n] = l
                           /\ call = "resume" => status[n] \notin {"completed", "failed"}}

\* Execute checks the context before each level, executeWithSkip does not.
StartLevel ==
  /\ phase = "level" /\ lvl <= Depth
  /\ call = "execute" => ~ctxDone
  /\ phase' = "nodes"
  /\ npc' = [n \in Nodes |-> IF n \notin ToRun(lvl) THEN "off"
                             ELSE IF n \in Conditional THEN "cond" ELSE "ready"]
  /\ failed' = FALSE
  /\ UNCHANGED <<call, lvl, status, outputs, execs, result, ctxDone, storeVars, calls>>

Cancelled ==
  /\ phase = "level" /\ lvl <= Depth /\ call = "execute" /\ ctxDone
  /\ Return("cancelled")
  /\ UNCHANGED <<call, lvl, nodeVars, ctxDone, storeVars, calls>>

\* The condition holds, does not, or cannot be evaluated; the last two leave
\* no node row.
EvaluateCondition(n) ==
  /\ npc[n] = "cond"
  /\ \/ npc' = [npc EXCEPT ![n] = "ready"] /\ UNCHANGED <<status, failed>>
     \/ /\ npc' = [npc EXCEPT ![n] = "done"]
        /\ status' = [status EXCEPT ![n] = "skipped"]
        /\ UNCHANGED failed
     \/ /\ npc' = [npc EXCEPT ![n] = "done"]
        /\ status' = [status EXCEPT ![n] = "failed"]
        /\ failed' = TRUE
  /\ UNCHANGED <<phase, call, lvl, outputs, execs, result, ctxDone, storeVars, calls>>

StartNode(n) ==
  /\ npc[n] = "ready"
  /\ npc' = [npc EXCEPT ![n] = "exec"]
  /\ status' = [status EXCEPT ![n] = "running"]
  /\ execs' = [execs EXCEPT ![n] = @ + 1]
  /\ UNCHANGED <<phase, call, lvl, outputs, failed, result, ctxDone, storeVars, calls>>

\* executeNode or executeApprovalNode returns; the outcome is recorded under mu.
FinishNode(n) ==
  /\ npc[n] = "exec"
  /\ npc' = [npc EXCEPT ![n] = "store"]
  /\ \/ /\ status' = [status EXCEPT ![n] = "completed"]
        /\ outputs' = outputs \cup {n}
        /\ UNCHANGED failed
     \/ /\ status' = [status EXCEPT ![n] = "failed"]
        /\ failed' = TRUE
        /\ UNCHANGED outputs
  /\ UNCHANGED <<phase, call, lvl, execs, result, ctxDone, storeVars, calls>>

\* Mutant: after a cancellation the goroutine returns without wg.Done.
SaveNodeStateNoDone(n) ==
  /\ npc[n] = "store" /\ ~ctxDone
  /\ npc' = [npc EXCEPT ![n] = "done"]
  /\ nodeRow' = [nodeRow EXCEPT ![n] = status[n]]
  /\ UNCHANGED <<phase, call, lvl, status, outputs, failed, execs, result, ctxDone, cp, lost, calls>>

\* SaveNodeState; its error is dropped.
SaveNodeState(n) ==
  /\ npc[n] = "store"
  /\ npc' = [npc EXCEPT ![n] = "done"]
  /\ \/ ~ctxDone /\ nodeRow' = [nodeRow EXCEPT ![n] = status[n]]
     \/ (ctxDone \/ StoreFaults) /\ UNCHANGED nodeRow
  /\ UNCHANGED <<phase, call, lvl, status, outputs, failed, execs, result, ctxDone, cp, lost, calls>>

\* Mutant: wg.Wait is missing, the level ends once every node has started.
EndLevelEarly ==
  /\ phase = "nodes" /\ \A n \in Nodes : npc[n] \notin {"cond", "ready"}
  /\ \/ failed /\ Return("failed") /\ UNCHANGED lvl
     \/ ~failed /\ call = "execute" /\ phase' = "save" /\ UNCHANGED <<lvl, result>>
     \/ ~failed /\ call = "resume" /\ phase' = "level" /\ lvl' = lvl + 1 /\ UNCHANGED result
  /\ UNCHANGED <<call, nodeVars, ctxDone, storeVars, calls>>

\* executeLevel returns.  Execute goes on to the checkpoint, executeWithSkip
\* to the next level.
EndLevel ==
  /\ phase = "nodes" /\ LevelDone
  /\ \/ failed /\ Return("failed") /\ UNCHANGED lvl
     \/ ~failed /\ call = "execute" /\ phase' = "save" /\ UNCHANGED <<lvl, result>>
     \/ ~failed /\ call = "resume" /\ phase' = "level" /\ lvl' = lvl + 1 /\ UNCHANGED result
  /\ UNCHANGED <<call, nodeVars, ctxDone, storeVars, calls>>

\* Mutant: the checkpoint names the next level.
SaveCheckpointAhead ==
  /\ phase = "save" /\ ~ctxDone
  /\ phase' = "level" /\ lvl' = lvl + 1
  /\ cp' = [level |-> IF lvl < Depth THEN lvl + 1 ELSE lvl, outputs |-> outputs]
  /\ UNCHANGED <<call, nodeVars, result, ctxDone, nodeRow, lost, calls>>

\* A checkpoint that cannot be saved ends the call; result.Status stays
\* "running".
SaveCheckpoint ==
  /\ phase = "save"
  /\ \/ /\ ~ctxDone
        /\ phase' = "level" /\ lvl' = lvl + 1
        /\ cp' = [level |-> lvl, outputs |-> outputs]
        /\ UNCHANGED result
     \/ (ctxDone \/ StoreFaults) /\ Return("running") /\ UNCHANGED <<lvl, cp>>
  /\ UNCHANGED <<call, nodeVars, ctxDone, nodeRow, lost, calls>>

\* All levels are done.
Complete ==
  /\ phase = "level" /\ lvl = Depth + 1
  /\ Return("completed")
  /\ UNCHANGED <<call, lvl, nodeVars, ctxDone, storeVars, calls>>

Cancel ==
  /\ MayCancel /\ phase # "idle" /\ ~ctxDone
  /\ ctxDone' = TRUE
  /\ UNCHANGED <<phase, call, lvl, nodeVars, result, storeVars, calls>>

\* A condition is evaluated, which reads result.Outputs without mu, while
\* another node of the level may be storing its output in that map.
RaceOnOutputs == \E m, n \in Nodes : npc[m] = "cond" /\ npc[n] = "exec"

\* The process dies, from outside or because the Go runtime notices the
\* concurrent read and write of the outputs map; only the store remains.
Crash ==
  /\ phase # "idle"
  /\ MayCrash \/ RaceOnOutputs
  /\ phase' = "idle" /\ result' = "none" /\ lvl' = 1
  /\ npc' = [n \in Nodes |-> "off"]
  /\ status' = [n \in Nodes |-> "pending"]
  /\ outputs' = {} /\ failed' = FALSE /\ ctxDone' = FALSE
  /\ UNCHANGED <<call, execs, storeVars, calls>>

NodeStep(n) == EvaluateCondition(n) \/ StartNode(n) \/ FinishNode(n) \/ SaveNodeState(n)

ExecutorStep == \/ \E n \in Nodes : NodeStep(n)
                \/ StartLevel \/ Cancelled \/ EndLevel \/ SaveCheckpoint \/ Complete

\* No call is in progress and none is left to make.
Idle == phase = "idle" /\ (calls = MaxCalls \/ cp = NoCheckpoint) /\ calls > 0
        /\ UNCHANGED wvars

Next == Execute \/ Resume \/ ExecutorStep \/ Cancel \/ Crash \/ Idle

Spec == Init /\ [][Next]_wvars

\* Goroutines are scheduled and a node returns: the engine of an agent stops
\* after its step limit, an approval at its expiry.
FairSpec == Spec /\ WF_wvars(ExecutorStep)
-----------------------------------------------------------------------------
(* Properties.                                                             *)

\* The goroutine of n is under way.
Live(n) == npc[n] \in {"cond", "ready", "exec", "store"}

\* Node n is over in the current call, as its dependents need it.
Settled(n) ==
  \/ status[n] \in {"completed", "skipped"}
  \/ call = "resume" /\ status[n] = "failed" /\ nodeRow[n] = "failed"

\* A node runs only once all it depends on is over: its dependencies have
\* returned and have completed or were skipped.  Only a resumed workflow may
\* meet a failed dependency, one whose failure an earlier call stored.
DependenciesSettled ==
  \A n \in Nodes : Live(n) => \A d \in Deps[n] : ~Live(d) /\ Settled(d)

\* A checkpoint holds the outputs of exactly the levels it covers: of every
\* node without a condition up to its level, and of no node above it, whatever
\* was cancelled, lost or resumed since.
CheckpointComplete ==
  \A n \in Nodes : /\ n \in cp.outputs => Level[n] <= cp.level
                   /\ Level[n] <= cp.level /\ n \notin Conditional => n \in cp.outputs

\* When Execute reports "completed" every node has completed or was skipped,
\* and the last checkpoint is the final one, with all the outputs.
CompletedMeansDone ==
  call = "execute" /\ result = "completed" =>
    /\ \A n \in Nodes : status[n] \in {"completed", "skipped"}
    /\ cp = [level |-> Depth, outputs |-> outputs]

\* A node whose outcome was stored, whichever it was, is executed again only by
\* a Resume whose LoadNodeStates did not return its row, over any number of
\* crashes, cancellations, store errors and resumes.
RecordedNodeNotRerun ==
  [][\A n \in Nodes : nodeRow[n] # "absent" /\ n \notin lost => execs'[n] = execs[n]]_wvars

\* The nodes the current call has already dealt with: lower levels, and in
\* the level under way those whose goroutine has returned.
Passed(n) ==
  \/ Level[n] < lvl
  \/ Level[n] = lvl /\ phase = "save"
  \/ Level[n] = lvl /\ phase = "nodes" /\ ~failed /\ ~Live(n)

\* Node n is still ahead of the current call.
Ahead(n) == Level[n] > lvl \/ (Level[n] = lvl /\ phase = "level")

\* The inductive invariant, in the order its conjuncts build on each other:
\* goroutines belong to the level under way and their pc fits the node,
Goroutines ==
  /\ \A n \in Nodes : Live(n) => phase = "nodes" /\ Level[n] = lvl
  /\ \A n \in Nodes : npc[n] = "cond" => n \in Conditional
  /\ \A n \in Nodes : npc[n] = "store" => \/ status[n] = "completed"
                                          \/ status[n] = "failed" /\ failed

\* the call, its phase and its result fit together,
Calls ==
  /\ phase \in {"nodes", "save"} => lvl <= Depth
  /\ phase = "save" => call = "execute"
  /\ phase # "idle" => call # "none" /\ result = "running"

\* before the first call nothing has happened,
Untouched ==
  call = "none" => /\ status = [n \in Nodes |-> "pending"]
                   /\ nodeRow = [n \in Nodes |-> "absent"]
                   /\ outputs = {} /\ cp = NoCheckpoint

\* what the call has passed is settled,
PassedSettled == phase # "idle" => \A n \in Nodes : Passed(n) => Settled(n)

\* a node with a row the call has read is one it has run, or will leave out,
\* and a failure a resumed call starts from is a stored one,
RowsRespected ==
  phase # "idle" => \A n \in Nodes :
    /\ nodeRow[n] # "absent" /\ n \notin lost => npc[n] \notin {"cond", "ready"}
    /\ nodeRow[n] # "absent" /\ n \notin lost /\ Ahead(n) => call = "resume" /\ status[n] = nodeRow[n]
    /\ Ahead(n) /\ call = "resume" /\ status[n] = "failed" => nodeRow[n] = "failed"

\* the outputs of an Execute are those of its completed nodes, none ahead, and
\* the last checkpoint covers the levels below,
ExecuteOutputs ==
  phase # "idle" /\ call = "execute" =>
    /\ \A n \in Nodes : /\ status[n] = "completed" <=> n \in outputs
                        /\ Ahead(n) \/ npc[n] \in {"cond", "ready", "exec"} => n \notin outputs
                        /\ status[n] = "skipped" => n \in Conditional
    /\ phase = "level" => cp = [level |-> lvl - 1, outputs |-> outputs]

\* and each call executes a node at most once.
ExecsBounded ==
  \A n \in Nodes : /\ execs[n] <= calls
                   /\ npc[n] \in {"cond", "ready"} => execs[n] < calls
                   /\ phase # "idle" /\ Ahead(n) => execs[n] < calls

\* The inductive invariant that carries the proofs about this module: every
\* crash, cancellation, store error, lossy read and resume keeps what the conjuncts above say.
IInv ==
  /\ TypeOK /\ Goroutines /\ Calls /\ Untouched
  /\ PassedSettled /\ RowsRespected /\ ExecuteOutputs /\ ExecsBounded
  /\ CheckpointComplete /\ CompletedMeansDone

\* A node finds the output of every dependency that has completed.
OutputsPresent ==
  \A n \in Nodes : Live(n) => \A d \in Deps[n] : status[d] = "completed" => d \in outputs

\* Under Execute a node finds the output of every dependency that has
\* completed, whatever store calls fail.
ExecuteOutputsPresent == call = "execute" => OutputsPresent

\* Every call of Execute or Resume returns.
CallReturns == phase # "idle" ~> phase = "idle"

\* Resume "re-execute[s] from the beginning but skip[s] completed nodes": a
\* resumed workflow that reports "completed" has no failed node.
ResumeSkipsOnlyCompleted ==
  call = "resume" /\ result = "completed" => \A n \in Nodes : status[n] # "failed"
=============================================================================

--------------------------- MODULE WorkflowProofs ---------------------------
(***************************************************************************)
(* Proofs about WorkflowExecutor.tla, for any DAG, any levels that respect *)
(* it, any conditions, with and without crashes, cancellations and store   *)
(* errors.                                                                 *)
(*                                                                         *)
(* IInv is inductive.  One lemma per action shows that it is kept; the     *)
(* theorems at the end read their property off it.                         *)
(***************************************************************************)
EXTENDS WorkflowExecutor, TLAPS

\* Initially nothing has been called or stored.
LEMMA WorkflowInit == Init => IInv
<1> SUFFICES ASSUME Init PROVE IInv
  OBVIOUS
<1> USE WorkflowAssumption
<1>1. TypeOK
  <2>1. cp \in [level : 0..Depth, outputs : SUBSET Nodes]
    BY DEF Init, NoCheckpoint
  <2>2. /\ lvl \in 1..(Depth + 1) /\ calls \in 0..MaxCalls
        /\ execs \in [Nodes -> 0..MaxCalls]
    BY DEF Init
  <2> QED
    BY <2>1, <2>2 DEF Init, TypeOK, Statuses
<1>2. CheckpointComplete
  BY DEF Init, CheckpointComplete, NoCheckpoint
<1> QED
  BY <1>1, <1>2 DEF Init, IInv, Goroutines, Calls, Untouched, PassedSettled, RowsRespected,
     ExecuteOutputs, ExecsBounded, CompletedMeansDone, Live

\* Execute starts from the untouched state, at level 1.
LEMMA ExecuteStep == ASSUME IInv, Execute PROVE IInv'
<1> USE WorkflowAssumption
<1>1. TypeOK'
  BY DEF IInv, TypeOK, Execute, nodeVars, storeVars
<1>2. Goroutines' /\ Calls' /\ Untouched' /\ CheckpointComplete' /\ CompletedMeansDone'
  BY DEF IInv, TypeOK, Goroutines, Calls, Untouched, CheckpointComplete, CompletedMeansDone,
     Execute, nodeVars, storeVars, Live
<1>3. PassedSettled'
  BY DEF IInv, TypeOK, PassedSettled, Passed, Execute, nodeVars, storeVars, Live
<1>4. RowsRespected'
  BY DEF IInv, TypeOK, RowsRespected, Untouched, Goroutines, Execute, nodeVars, storeVars
<1>5. ExecuteOutputs'
  <2>1. /\ \A n \in Nodes : status'[n] = "pending"
        /\ outputs' = {} /\ cp' = NoCheckpoint /\ lvl' = 1
    BY DEF IInv, Untouched, Execute, nodeVars, storeVars
  <2> QED
    BY <2>1 DEF ExecuteOutputs, NoCheckpoint
<1>6. ExecsBounded'
  BY DEF IInv, TypeOK, ExecsBounded, Execute, nodeVars, storeVars
<1> QED
  BY <1>1, <1>2, <1>3, <1>4, <1>5, <1>6 DEF IInv

\* Resume takes its statuses from the rows it could read, so what is ahead agrees
\* with them.
LEMMA ResumeStep == ASSUME IInv, Resume PROVE IInv'
<1> USE WorkflowAssumption
<1>0. PICK missing \in SUBSET Nodes : LoadNodeStates(missing)
  BY DEF Resume
<1>1. TypeOK'
  <2>1. status' \in [Nodes -> Statuses] /\ outputs' \subseteq Nodes /\ lost' \subseteq Nodes
    BY <1>0 DEF IInv, TypeOK, Resume, LoadNodeStates, Statuses
  <2>2. lvl' \in 1..(Depth + 1) /\ calls' \in 0..MaxCalls
    BY DEF IInv, TypeOK, Resume
  <2>3. ctxDone' \in BOOLEAN
    <3>1. ctxDone' \in {FALSE, MayCancel} /\ MayCancel \in BOOLEAN
      BY DEF Resume
    <3> QED
      BY ONLY <3>1, Zenon
  <2> QED
    BY <2>1, <2>2, <2>3 DEF IInv, TypeOK, Resume
<1>2. Goroutines'
  BY DEF IInv, Goroutines, Resume, Live
<1>3. Calls' /\ Untouched' /\ CheckpointComplete' /\ CompletedMeansDone'
  BY DEF IInv, TypeOK, Calls, Untouched, CheckpointComplete, CompletedMeansDone, Resume
<1>4. PassedSettled'
  BY DEF IInv, TypeOK, PassedSettled, Passed, Resume
<1>5. RowsRespected'
  <2>1. \A n \in Nodes : ~Live(n)
    BY DEF IInv, Goroutines, Resume
  <2>2. \A n \in Nodes : /\ nodeRow'[n] = nodeRow[n] /\ npc'[n] = npc[n]
                         /\ nodeRow[n] # "absent" /\ n \notin lost' => status'[n] = nodeRow[n]
                         /\ status'[n] = "failed" => nodeRow[n] = "failed"
    BY <1>0 DEF IInv, TypeOK, Resume, LoadNodeStates
  <2> QED
    BY <2>1, <2>2 DEF RowsRespected, Resume, Live
<1>6. ExecuteOutputs'
  BY DEF ExecuteOutputs, Resume
<1>7. ExecsBounded'
  BY DEF IInv, TypeOK, ExecsBounded, Resume
<1> QED
  BY <1>1, <1>2, <1>3, <1>4, <1>5, <1>6, <1>7 DEF IInv

\* StartLevel launches no node with a row that was read; what a Resume leaves out
\* is settled.
LEMMA StartLevelStep == ASSUME IInv, StartLevel PROVE IInv'
<1> USE WorkflowAssumption
<1>0. \A n \in Nodes : /\ npc'[n] \in {"off", "cond", "ready"}
                       /\ Live(n)' <=> n \in ToRun(lvl)
                       /\ npc'[n] = "cond" => n \in Conditional
                       /\ npc'[n] = "off" <=> n \notin ToRun(lvl)
  BY DEF StartLevel, Live
<1>1. TypeOK'
  BY DEF IInv, TypeOK, StartLevel, storeVars
<1>2. Goroutines'
  BY <1>0 DEF Goroutines, StartLevel, ToRun
<1>3. Calls' /\ Untouched' /\ CheckpointComplete' /\ CompletedMeansDone'
  BY DEF IInv, TypeOK, Calls, Untouched, CheckpointComplete, CompletedMeansDone, StartLevel, storeVars
<1>4. PassedSettled'
  <2> SUFFICES ASSUME NEW n \in Nodes, Passed(n)' PROVE Settled(n)'
    BY DEF PassedSettled
  <2>1. CASE Level[n] < lvl
    BY <2>1 DEF IInv, PassedSettled, Passed, Settled, StartLevel, storeVars
  <2>2. CASE Level[n] = lvl /\ n \notin ToRun(lvl)
    BY <2>2 DEF IInv, RowsRespected, Ahead, ToRun, Settled, StartLevel, storeVars
  <2> QED
    BY <2>1, <2>2, <1>0 DEF Passed, StartLevel
<1>5. RowsRespected'
  <2>1. \A n \in Nodes : nodeRow[n] \in {"absent", "completed", "failed"}
    BY DEF IInv, TypeOK
  <2> QED
    BY <1>0, <2>1 DEF IInv, RowsRespected, Ahead, ToRun, StartLevel, storeVars
<1>6. ExecuteOutputs'
  <2>1. \A n \in Nodes : Level[n] = lvl \/ Level[n] > lvl => Ahead(n)
    BY DEF Ahead, StartLevel
  <2> QED
    BY <2>1, <1>0 DEF IInv, ExecuteOutputs, Ahead, ToRun, StartLevel, storeVars
<1>7. ExecsBounded'
  BY <1>0 DEF IInv, ExecsBounded, Ahead, ToRun, StartLevel, storeVars
<1> QED
  BY <1>1, <1>2, <1>3, <1>4, <1>5, <1>6, <1>7 DEF IInv

\* A goroutine under way belongs to a call at the level of its node, which is
\* neither passed nor ahead.
LEMMA LiveNode ==
  ASSUME IInv, NEW n \in Nodes, Live(n)
  PROVE  /\ phase = "nodes" /\ Level[n] = lvl /\ call # "none"
         /\ result = "running" /\ ~Passed(n) /\ ~Ahead(n)
<1>1. phase = "nodes" /\ Level[n] = lvl
  BY DEF IInv, Goroutines
<1>2. Level[n] \in Nat /\ lvl \in Nat
  BY WorkflowAssumption DEF IInv, TypeOK
<1> QED
  BY <1>1, <1>2 DEF IInv, Calls, Passed, Ahead

\* A condition that does not hold settles its node, one that fails fails the level.
LEMMA EvaluateConditionStep ==
  ASSUME IInv, NEW n \in Nodes, EvaluateCondition(n) PROVE IInv'
<1> USE WorkflowAssumption
<1>0. Live(n) /\ npc[n] = "cond" /\ n \in Conditional
  BY DEF EvaluateCondition, Live, IInv, Goroutines
<1>a. /\ phase = "nodes" /\ Level[n] = lvl /\ call # "none"
      /\ result = "running" /\ ~Passed(n) /\ ~Ahead(n)
  BY <1>0, LiveNode
<1>b. /\ npc'[n] \in {"ready", "done"}
      /\ status'[n] \in {status[n], "skipped", "failed"}
      /\ npc'[n] = "done" /\ ~failed' => status'[n] = "skipped"
      /\ failed => failed'
      /\ \A m \in Nodes : m # n => npc'[m] = npc[m] /\ status'[m] = status[m]
  BY DEF EvaluateCondition, IInv, TypeOK
<1>c. /\ phase' = phase /\ call' = call /\ lvl' = lvl /\ outputs' = outputs /\ execs' = execs
      /\ result' = result /\ ctxDone' = ctxDone /\ cp' = cp /\ nodeRow' = nodeRow /\ lost' = lost /\ calls' = calls
  BY DEF EvaluateCondition, storeVars
<1>1. TypeOK'
  <2>1. npc' \in [Nodes -> {"off", "cond", "ready", "exec", "store", "done"}]
    BY DEF IInv, TypeOK, EvaluateCondition
  <2>2. status' \in [Nodes -> Statuses]
    BY DEF IInv, TypeOK, EvaluateCondition, Statuses
  <2>3. failed' \in BOOLEAN
    BY DEF IInv, TypeOK, EvaluateCondition
  <2> QED
    BY <2>1, <2>2, <2>3, <1>c DEF IInv, TypeOK
<1>2. Goroutines'
  BY <1>a, <1>b, <1>c DEF IInv, Goroutines, Live
<1>3. Calls' /\ Untouched' /\ CheckpointComplete' /\ CompletedMeansDone'
  BY <1>a, <1>c DEF IInv, Calls, Untouched, CheckpointComplete, CompletedMeansDone
<1>4. PassedSettled'
  <2> SUFFICES ASSUME NEW m \in Nodes, Passed(m)' PROVE Settled(m)'
    BY DEF PassedSettled
  <2>1. CASE m = n
    BY <2>1, <1>0, <1>a, <1>b, <1>c DEF Passed, Settled, Live
  <2>2. CASE m # n
    <3>1. Passed(m)
      BY <2>2, <1>b, <1>c DEF Passed, Live, IInv, TypeOK
    <3> QED
      BY <3>1, <2>2, <1>a, <1>b, <1>c DEF IInv, PassedSettled, Settled
  <2> QED
    BY <2>1, <2>2
<1>5. RowsRespected'
  BY <1>0, <1>a, <1>b, <1>c DEF IInv, RowsRespected, Ahead
<1>6. ExecuteOutputs'
  BY <1>0, <1>a, <1>b, <1>c DEF IInv, ExecuteOutputs, Ahead
<1>7. ExecsBounded'
  BY <1>0, <1>a, <1>b, <1>c DEF IInv, ExecsBounded, Ahead
<1> QED
  BY <1>1, <1>2, <1>3, <1>4, <1>5, <1>6, <1>7 DEF IInv

\* A node is started that this call has not executed yet.
LEMMA StartNodeStep ==
  ASSUME IInv, NEW n \in Nodes, StartNode(n) PROVE IInv'
<1> USE WorkflowAssumption
<1>0. Live(n) /\ npc[n] = "ready"
  BY DEF StartNode, Live
<1>a. /\ phase = "nodes" /\ Level[n] = lvl /\ call # "none"
      /\ result = "running" /\ ~Passed(n) /\ ~Ahead(n)
  BY <1>0, LiveNode
<1>b. /\ npc'[n] = "exec" /\ status'[n] = "running" /\ execs'[n] = execs[n] + 1
      /\ \A m \in Nodes : m # n => npc'[m] = npc[m] /\ status'[m] = status[m] /\ execs'[m] = execs[m]
  BY DEF StartNode, IInv, TypeOK
<1>c. /\ phase' = phase /\ call' = call /\ lvl' = lvl /\ outputs' = outputs /\ failed' = failed
      /\ result' = result /\ ctxDone' = ctxDone /\ cp' = cp /\ nodeRow' = nodeRow /\ lost' = lost /\ calls' = calls
  BY DEF StartNode, storeVars
<1>d. execs[n] < calls
  BY <1>0 DEF IInv, ExecsBounded
<1>1. TypeOK'
  <2>1. execs' \in [Nodes -> 0..MaxCalls]
    BY <1>d DEF IInv, TypeOK, StartNode
  <2> QED
    BY <2>1, <1>c DEF IInv, TypeOK, StartNode, Statuses
<1>2. Goroutines'
  BY <1>a, <1>b, <1>c DEF IInv, Goroutines, Live
<1>3. Calls' /\ Untouched' /\ CheckpointComplete' /\ CompletedMeansDone'
  BY <1>a, <1>c DEF IInv, Calls, Untouched, CheckpointComplete, CompletedMeansDone
<1>4. PassedSettled'
  <2> SUFFICES ASSUME NEW m \in Nodes, Passed(m)' PROVE Settled(m)'
    BY DEF PassedSettled
  <2>1. m # n /\ Passed(m)
    BY <1>0, <1>a, <1>b, <1>c DEF Passed, Live
  <2> QED
    BY <2>1, <1>a, <1>b, <1>c DEF IInv, PassedSettled, Settled
<1>5. RowsRespected'
  BY <1>0, <1>a, <1>b, <1>c DEF IInv, RowsRespected, Ahead
<1>6. ExecuteOutputs'
  BY <1>0, <1>a, <1>b, <1>c DEF IInv, ExecuteOutputs, Ahead
<1>7. ExecsBounded'
  BY <1>0, <1>a, <1>b, <1>c, <1>d DEF IInv, ExecsBounded, Ahead, TypeOK
<1> QED
  BY <1>1, <1>2, <1>3, <1>4, <1>5, <1>6, <1>7 DEF IInv

\* A node's outcome is recorded while its goroutine is under way.
LEMMA FinishNodeStep ==
  ASSUME IInv, NEW n \in Nodes, FinishNode(n) PROVE IInv'
<1> USE WorkflowAssumption
<1>0. Live(n) /\ npc[n] = "exec"
  BY DEF FinishNode, Live
<1>a. /\ phase = "nodes" /\ Level[n] = lvl /\ call # "none"
      /\ result = "running" /\ ~Passed(n) /\ ~Ahead(n)
  BY <1>0, LiveNode
<1>b. /\ npc'[n] = "store" /\ (failed => failed')
      /\ \/ status'[n] = "completed" /\ outputs' = outputs \cup {n}
         \/ status'[n] = "failed" /\ failed' /\ outputs' = outputs
      /\ \A m \in Nodes : m # n => npc'[m] = npc[m] /\ status'[m] = status[m]
  BY DEF FinishNode, IInv, TypeOK
<1>c. /\ phase' = phase /\ call' = call /\ lvl' = lvl /\ execs' = execs
      /\ result' = result /\ ctxDone' = ctxDone /\ cp' = cp /\ nodeRow' = nodeRow /\ lost' = lost /\ calls' = calls
  BY DEF FinishNode, storeVars
<1>1. TypeOK'
  <2>1. npc' \in [Nodes -> {"off", "cond", "ready", "exec", "store", "done"}]
    BY DEF IInv, TypeOK, FinishNode
  <2>2. status' \in [Nodes -> Statuses]
    BY DEF IInv, TypeOK, FinishNode, Statuses
  <2>3. failed' \in BOOLEAN /\ outputs' \subseteq Nodes
    BY DEF IInv, TypeOK, FinishNode
  <2> QED
    BY <2>1, <2>2, <2>3, <1>c DEF IInv, TypeOK
<1>2. Goroutines'
  BY <1>a, <1>b, <1>c DEF IInv, Goroutines, Live
<1>3. Calls' /\ Untouched' /\ CheckpointComplete' /\ CompletedMeansDone'
  BY <1>a, <1>c DEF IInv, Calls, Untouched, CheckpointComplete, CompletedMeansDone
<1>4. PassedSettled'
  <2> SUFFICES ASSUME NEW m \in Nodes, Passed(m)' PROVE Settled(m)'
    BY DEF PassedSettled
  <2>1. m # n /\ Passed(m)
    BY <1>0, <1>a, <1>b, <1>c DEF Passed, Live
  <2> QED
    BY <2>1, <1>a, <1>b, <1>c DEF IInv, PassedSettled, Settled
<1>5. RowsRespected'
  BY <1>0, <1>a, <1>b, <1>c DEF IInv, RowsRespected, Ahead
<1>6. ExecuteOutputs'
  BY <1>0, <1>a, <1>b, <1>c DEF IInv, ExecuteOutputs, Ahead
<1>7. ExecsBounded'
  BY <1>0, <1>a, <1>b, <1>c DEF IInv, ExecsBounded, Ahead
<1> QED
  BY <1>1, <1>2, <1>3, <1>4, <1>5, <1>6, <1>7 DEF IInv

\* The row a node leaves, or fails to leave, says what the node did.
LEMMA SaveNodeStateStep ==
  ASSUME IInv, NEW n \in Nodes, SaveNodeState(n) PROVE IInv'
<1> USE WorkflowAssumption
<1>0. Live(n) /\ npc[n] = "store"
  BY DEF SaveNodeState, Live
<1>a. /\ phase = "nodes" /\ Level[n] = lvl /\ call # "none"
      /\ result = "running" /\ ~Passed(n) /\ ~Ahead(n)
  BY <1>0, LiveNode
<1>b. /\ npc'[n] = "done" /\ nodeRow'[n] \in {status[n], nodeRow[n]}
      /\ \A m \in Nodes : m # n => npc'[m] = npc[m] /\ nodeRow'[m] = nodeRow[m]
  BY DEF SaveNodeState, IInv, TypeOK
<1>c. /\ phase' = phase /\ call' = call /\ lvl' = lvl /\ status' = status /\ outputs' = outputs
      /\ failed' = failed /\ execs' = execs /\ result' = result /\ ctxDone' = ctxDone
      /\ cp' = cp /\ lost' = lost /\ calls' = calls
  BY DEF SaveNodeState
<1>d. status[n] = "completed" \/ (status[n] = "failed" /\ failed)
  BY <1>0 DEF IInv, Goroutines
<1>1. TypeOK'
  <2>1. nodeRow' \in [Nodes -> {"absent", "completed", "failed"}]
    BY <1>d DEF IInv, TypeOK, SaveNodeState
  <2> QED
    BY <2>1, <1>c DEF IInv, TypeOK, SaveNodeState
<1>2. Goroutines'
  BY <1>a, <1>b, <1>c DEF IInv, Goroutines, Live
<1>3. Calls' /\ Untouched' /\ CheckpointComplete' /\ CompletedMeansDone'
  BY <1>a, <1>c DEF IInv, Calls, Untouched, CheckpointComplete, CompletedMeansDone
<1>4. PassedSettled'
  <2> SUFFICES ASSUME NEW m \in Nodes, Passed(m)' PROVE Settled(m)'
    BY DEF PassedSettled
  <2>1. CASE m = n
    BY <2>1, <1>a, <1>c, <1>d DEF Passed, Settled
  <2>2. CASE m # n
    <3>1. Passed(m)
      BY <2>2, <1>b, <1>c DEF Passed, Live
    <3> QED
      BY <3>1, <2>2, <1>a, <1>b, <1>c DEF IInv, PassedSettled, Settled
  <2> QED
    BY <2>1, <2>2
<1>5. RowsRespected'
  BY <1>0, <1>a, <1>b, <1>c DEF IInv, RowsRespected, Ahead
<1>6. ExecuteOutputs'
  BY <1>0, <1>a, <1>b, <1>c DEF IInv, ExecuteOutputs, Ahead
<1>7. ExecsBounded'
  BY <1>0, <1>a, <1>b, <1>c DEF IInv, ExecsBounded, Ahead
<1> QED
  BY <1>1, <1>2, <1>3, <1>4, <1>5, <1>6, <1>7 DEF IInv

\* When a level ends without error all its nodes are settled.
LEMMA EndLevelStep == ASSUME IInv, EndLevel PROVE IInv'
<1> USE WorkflowAssumption
<1>0. /\ phase = "nodes" /\ lvl \in 1..Depth /\ call # "none" /\ result = "running"
      /\ \A n \in Nodes : ~Live(n) /\ Level[n] \in Nat
  BY DEF EndLevel, LevelDone, Live, IInv, Calls, TypeOK
<1>a. /\ call' = call /\ npc' = npc /\ status' = status /\ outputs' = outputs /\ failed' = failed
      /\ execs' = execs /\ ctxDone' = ctxDone /\ cp' = cp /\ nodeRow' = nodeRow /\ lost' = lost /\ calls' = calls
  BY DEF EndLevel, nodeVars, storeVars
<1>b. \/ phase' = "idle" /\ result' = "failed" /\ lvl' = lvl
      \/ ~failed /\ call = "execute" /\ phase' = "save" /\ lvl' = lvl /\ result' = result
      \/ ~failed /\ call = "resume" /\ phase' = "level" /\ lvl' = lvl + 1 /\ result' = result
  BY DEF EndLevel, Return
<1>c. phase' # "idle" => \A n \in Nodes : Level[n] <= lvl => Settled(n)
  BY <1>0, <1>b DEF IInv, PassedSettled, Passed, TypeOK
<1>1. TypeOK'
  BY <1>0, <1>a, <1>b DEF IInv, TypeOK
<1>2. Goroutines'
  BY <1>0, <1>a DEF IInv, Goroutines, Live
<1>3. Calls' /\ Untouched' /\ CheckpointComplete' /\ CompletedMeansDone'
  BY <1>0, <1>a, <1>b DEF IInv, Calls, Untouched, CheckpointComplete, CompletedMeansDone
<1>4. PassedSettled'
  BY <1>0, <1>a, <1>b, <1>c DEF PassedSettled, Passed, Settled
<1>5. RowsRespected'
  BY <1>0, <1>a, <1>b DEF IInv, RowsRespected, Ahead
<1>6. ExecuteOutputs'
  BY <1>0, <1>a, <1>b DEF IInv, ExecuteOutputs, Ahead
<1>7. ExecsBounded'
  BY <1>0, <1>a, <1>b DEF IInv, ExecsBounded, Ahead
<1> QED
  BY <1>1, <1>2, <1>3, <1>4, <1>5, <1>6, <1>7 DEF IInv

\* A checkpoint is written once the level is settled; the nodes without a
\* condition that are settled in an Execute have completed.
LEMMA SaveCheckpointStep == ASSUME IInv, SaveCheckpoint PROVE IInv'
<1> USE WorkflowAssumption
<1>0. /\ phase = "save" /\ lvl \in 1..Depth /\ call = "execute" /\ result = "running"
      /\ \A n \in Nodes : ~Live(n) /\ Level[n] \in Nat
      /\ \A n \in Nodes : Level[n] <= lvl => Settled(n)
  BY DEF SaveCheckpoint, IInv, Goroutines, Calls, TypeOK, PassedSettled, Passed
<1>a. /\ call' = call /\ npc' = npc /\ status' = status /\ outputs' = outputs /\ failed' = failed
      /\ execs' = execs /\ ctxDone' = ctxDone /\ nodeRow' = nodeRow /\ lost' = lost /\ calls' = calls
  BY DEF SaveCheckpoint, nodeVars
<1>b. \/ /\ phase' = "level" /\ lvl' = lvl + 1 /\ result' = result
         /\ cp' = [level |-> lvl, outputs |-> outputs]
      \/ phase' = "idle" /\ result' = "running" /\ lvl' = lvl /\ cp' = cp
  BY DEF SaveCheckpoint, Return
<1>1. TypeOK'
  BY <1>0, <1>a, <1>b DEF IInv, TypeOK
<1>2. Goroutines'
  BY <1>0, <1>a DEF IInv, Goroutines, Live
<1>3. Calls' /\ Untouched' /\ CompletedMeansDone'
  BY <1>0, <1>a, <1>b DEF IInv, Calls, Untouched, CompletedMeansDone
<1>4. CheckpointComplete'
  <2>1. \A n \in Nodes : /\ n \in outputs => Level[n] <= lvl
                         /\ Level[n] <= lvl /\ n \notin Conditional => n \in outputs
    BY <1>0 DEF IInv, ExecuteOutputs, Ahead, Settled
  <2> QED
    BY <2>1, <1>b, SMTT(20) DEF IInv, CheckpointComplete
<1>5. PassedSettled'
  BY <1>0, <1>a, <1>b DEF PassedSettled, Passed, Settled
<1>6. RowsRespected'
  BY <1>0, <1>a, <1>b DEF IInv, RowsRespected, Ahead
<1>7. ExecuteOutputs'
  BY <1>0, <1>a, <1>b DEF IInv, ExecuteOutputs, Ahead
<1>8. ExecsBounded'
  BY <1>0, <1>a, <1>b DEF IInv, ExecsBounded, Ahead
<1> QED
  BY <1>1, <1>2, <1>3, <1>4, <1>5, <1>6, <1>7, <1>8 DEF IInv

\* A call that returns from the start of a level has no goroutine left; when
\* all levels are done every node is settled.
LEMMA CompleteStep == ASSUME IInv, Complete \/ Cancelled PROVE IInv'
<1> USE WorkflowAssumption
<1>0. /\ phase = "level" /\ phase' = "idle" /\ call # "none"
      /\ \/ result' = "cancelled"
         \/ result' = "completed" /\ lvl = Depth + 1
      /\ \A n \in Nodes : ~Live(n)
  BY DEF Complete, Cancelled, Return, IInv, Goroutines, Calls
<1>a. /\ call' = call /\ lvl' = lvl /\ npc' = npc /\ status' = status /\ outputs' = outputs
      /\ failed' = failed /\ execs' = execs /\ ctxDone' = ctxDone /\ cp' = cp
      /\ nodeRow' = nodeRow /\ lost' = lost /\ calls' = calls
  BY DEF Complete, Cancelled, nodeVars, storeVars
<1>1. TypeOK'
  BY <1>0, <1>a DEF IInv, TypeOK
<1>2. Goroutines'
  BY <1>0, <1>a DEF IInv, Goroutines, Live
<1>3. Calls' /\ Untouched' /\ CheckpointComplete'
  BY <1>0, <1>a DEF IInv, Calls, Untouched, CheckpointComplete
<1>4. CompletedMeansDone'
  <2> SUFFICES ASSUME call = "execute", result' = "completed"
               PROVE  /\ \A n \in Nodes : status[n] \in {"completed", "skipped"}
                      /\ cp = [level |-> Depth, outputs |-> outputs]
    BY <1>a DEF CompletedMeansDone
  <2>1. lvl = Depth + 1 /\ \A n \in Nodes : Level[n] < lvl
    BY <1>0
  <2>2. cp = [level |-> Depth, outputs |-> outputs]
    BY <1>0, <2>1 DEF IInv, ExecuteOutputs
  <2>3. \A n \in Nodes : Settled(n)
    BY <1>0, <2>1 DEF IInv, PassedSettled, Passed
  <2> QED
    BY <2>2, <2>3 DEF Settled
<1>5. PassedSettled' /\ RowsRespected' /\ ExecuteOutputs'
  BY <1>0 DEF PassedSettled, RowsRespected, ExecuteOutputs
<1>6. ExecsBounded'
  BY <1>0, <1>a, SMTT(20) DEF IInv, ExecsBounded
<1> QED
  BY <1>1, <1>2, <1>3, <1>4, <1>5, <1>6 DEF IInv

\* Cancelling the context changes nothing the invariant speaks of.
LEMMA CancelStep == ASSUME IInv, Cancel PROVE IInv'
BY DEF IInv, TypeOK, Goroutines, Calls, Untouched, PassedSettled, RowsRespected, ExecuteOutputs,
   ExecsBounded, CheckpointComplete, CompletedMeansDone, Passed, Settled, Ahead, Live,
   Cancel, nodeVars, storeVars

\* A crash leaves the rows and the checkpoint, and no call.
LEMMA CrashStep == ASSUME IInv, Crash PROVE IInv'
<1> USE WorkflowAssumption
<1>0. phase # "idle" /\ call # "none"
  BY DEF Crash, IInv, Calls
<1>1. TypeOK'
  <2>1. status' \in [Nodes -> Statuses] /\ lvl' \in 1..(Depth + 1) /\ outputs' \subseteq Nodes
    BY DEF Crash, Statuses
  <2> QED
    BY <2>1 DEF IInv, TypeOK, Crash, storeVars
<1>2. Goroutines' /\ Calls' /\ PassedSettled' /\ RowsRespected' /\ ExecuteOutputs'
  BY DEF Goroutines, Calls, PassedSettled, RowsRespected, ExecuteOutputs, Crash, Live
<1>3. Untouched' /\ CheckpointComplete' /\ CompletedMeansDone'
  BY <1>0 DEF IInv, Untouched, CheckpointComplete, CompletedMeansDone, Crash, storeVars
<1>4. ExecsBounded'
  BY DEF IInv, ExecsBounded, Crash
<1> QED
  BY <1>1, <1>2, <1>3, <1>4 DEF IInv

\* A step that changes no variable keeps the invariant.
LEMMA StutterStep == ASSUME IInv, UNCHANGED wvars PROVE IInv'
BY DEF IInv, TypeOK, Goroutines, Calls, Untouched, PassedSettled, RowsRespected, ExecuteOutputs,
   ExecsBounded, CheckpointComplete, CompletedMeansDone, Passed, Settled, Ahead, Live,
   wvars, nodeVars, storeVars

\* Every step of the executor and of its environment keeps the invariant.
LEMMA WorkflowNext == ASSUME IInv, [Next]_wvars PROVE IInv'
<1>1. ASSUME NEW n \in Nodes, NodeStep(n) PROVE IInv'
  BY <1>1, EvaluateConditionStep, StartNodeStep, FinishNodeStep, SaveNodeStateStep DEF NodeStep
<1> QED
  BY <1>1, ExecuteStep, ResumeStep, StartLevelStep, EndLevelStep, SaveCheckpointStep,
     CompleteStep, CancelStep, CrashStep, StutterStep DEF Next, ExecutorStep, Idle

\* IInv is an invariant of the executor: what Execute and Resume rely on holds
\* over any sequence of crashes, cancellations and store errors.
THEOREM WorkflowInvariant == Spec => []IInv
BY WorkflowInit, WorkflowNext, PTL DEF Spec

\* The variables keep their types; in particular no call runs a node twice.
THEOREM WorkflowTypeOK == Spec => []TypeOK
<1>1. IInv => TypeOK
  BY DEF IInv
<1> QED
  BY <1>1, WorkflowInvariant, PTL

\* executeLevel runs a node only after all its dependencies, for every DAG.
THEOREM NodeAfterDependencies == Spec => []DependenciesSettled
<1>1. IInv => DependenciesSettled
  <2> SUFFICES ASSUME IInv, NEW n \in Nodes, Live(n), NEW d \in Deps[n]
               PROVE  ~Live(d) /\ Settled(d)
    BY DEF DependenciesSettled
  <2>1. d \in Nodes /\ Level[d] < Level[n] /\ Level[n] \in Nat /\ Level[d] \in Nat
    BY WorkflowAssumption
  <2>2. phase = "nodes" /\ Level[n] = lvl
    BY LiveNode
  <2>3. ~Live(d)
    BY <2>1, <2>2 DEF IInv, Goroutines
  <2> QED
    BY <2>1, <2>2, <2>3, SMTT(20) DEF IInv, PassedSettled, Passed
<1> QED
  BY <1>1, WorkflowInvariant, PTL

\* SaveCheckpoint stores the outputs of exactly the levels it names.
THEOREM CheckpointsAreComplete == Spec => []CheckpointComplete
<1>1. IInv => CheckpointComplete
  BY DEF IInv
<1> QED
  BY <1>1, WorkflowInvariant, PTL

\* "completed" from Execute means that every node is done and checkpointed.
THEOREM CompletedIsDone == Spec => []CompletedMeansDone
<1>1. IInv => CompletedMeansDone
  BY DEF IInv
<1> QED
  BY <1>1, WorkflowInvariant, PTL

\* Execute hands every node the outputs of its completed dependencies.
THEOREM ExecuteHasOutputs == Spec => []ExecuteOutputsPresent
<1>1. IInv => ExecuteOutputsPresent
  <2> SUFFICES ASSUME IInv, call = "execute", NEW n \in Nodes, Live(n),
                      NEW d \in Deps[n], status[d] = "completed"
               PROVE  d \in outputs
    BY DEF ExecuteOutputsPresent, OutputsPresent
  <2>1. d \in Nodes /\ phase = "nodes"
    BY LiveNode, WorkflowAssumption
  <2> QED
    BY <2>1 DEF IInv, ExecuteOutputs
<1> QED
  BY <1>1, WorkflowInvariant, PTL

\* A node with a row is executed again by no call but a Resume that could not read
\* the row, whatever else fails.
THEOREM RecordedStaysDone == Spec => RecordedNodeNotRerun
<1>1. ASSUME IInv, [Next]_wvars, NEW n \in Nodes, nodeRow[n] # "absent", n \notin lost
      PROVE  execs'[n] = execs[n]
  <2>1. ASSUME NEW m \in Nodes, StartNode(m) PROVE execs'[n] = execs[n]
    <3>1. Live(m) /\ npc[m] = "ready"
      BY <2>1 DEF StartNode, Live
    <3>2. m # n
      BY <3>1, <1>1, LiveNode, SMTT(20) DEF IInv, RowsRespected
    <3> QED
      BY <2>1, <3>2, <1>1 DEF StartNode, IInv, TypeOK
  <2>2. CASE \A m \in Nodes : ~StartNode(m)
    BY <2>2, <1>1 DEF Next, ExecutorStep, NodeStep, Execute, Resume, StartLevel, Cancelled,
       EvaluateCondition, FinishNode, SaveNodeState, EndLevel, SaveCheckpoint, Complete,
       Cancel, Crash, Idle, wvars, nodeVars
  <2> QED
    BY <2>1, <2>2
<1>2. IInv /\ [Next]_wvars =>
        [\A n \in Nodes : nodeRow[n] # "absent" /\ n \notin lost => execs'[n] = execs[n]]_wvars
  BY <1>1
<1> QED
  BY <1>2, WorkflowInvariant, PTL DEF Spec, RecordedNodeNotRerun
=============================================================================

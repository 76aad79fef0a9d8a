---------------------------- MODULE EngineProofs ----------------------------
(***************************************************************************)
(* Proofs about AgentEngine.tla, for any runs, approval nodes and step     *)
(* limit, with either queue, with and without failures and crashes.        *)
(*                                                                         *)
(* IInv is inductive.  Most steps move one run or node and touch no        *)
(* request: QuietStep says when such a move keeps IInv.  The others ask    *)
(* for an approval, make a call, or decide.                                *)
(***************************************************************************)
EXTENDS AgentEngine, TLAPS

\* Initially there is no request and no call.
LEMMA EngineInit == Init => IInv
<1> SUFFICES ASSUME Init PROVE IInv
  OBVIOUS
<1> USE EngineAssumption
<1>1. TypeOK
  BY DEF Init, TypeOK, Decisions
<1>2. GatedCallApproved /\ DecisionIsFinal /\ ToolNotRepeated
  BY DEF Init, GatedCallApproved, DecisionIsFinal, ToolNotRepeated, Decisions
<1>3. \A w \in Waiters : pc[w] = "start"
  BY DEF Init
<1>4. \A c \in Calls : queue[c] = "none" /\ decided[c] = "none"
  BY DEF Init
<1>5. WaitsForRequest
  BY <1>3 DEF WaitsForRequest
<1> QED
  BY <1>1, <1>2, <1>3, <1>4, <1>5 DEF Init, IInv, Waiters

\* The call of a run or a node is a call, and is made of what it should be.
LEMMA CallIsCall ==
  ASSUME IInv, NEW w \in Waiters
  PROVE  /\ CallOf(w) \in Calls /\ CallOf(w) = <<w, count[w]>>
         /\ count[w] \in 0..MaxSteps
BY DEF IInv, TypeOK, CallOf, Calls

\* A move of w to p that makes no request and no call.  It needs a step left
\* and a request to wait for where p says so, and may go on from a gated call
\* only by waiting, by making it once approved, by the next step, or to the end.
LEMMA QuietStep ==
  ASSUME IInv, NEW w \in Waiters, NEW p, NEW k \in 0..MaxSteps,
         p \in {"loop", "plan", "check", "wait", "sleep", "tool", "ended"},
         pc[w] # "ended", pc' = [pc EXCEPT ![w] = p],
         count' = [count EXCEPT ![w] = k], k = count[w] \/ k = count[w] + 1,
         current' \in [Waiters -> {"init", "planning", "observing", "completed", "failed", "interrupted"}],
         UNCHANGED <<stopped, gated, ran, queueVars>>,
         w \in Runs /\ p \in {"plan", "check", "wait", "tool"} => k < MaxSteps,
         w \in Runs => p # "sleep",
         p \in {"wait", "sleep"} => queue[<<w, k>>] # "none",
         <<w, count[w]>> \in gated =>
           k = count[w] + 1 \/ p \in {"wait", "sleep", "tool", "ended"},
         p = "tool" /\ <<w, k>> \in gated => decided[<<w, k>>] = "approved"
  PROVE  IInv'
<1> USE EngineAssumption
<1>0. /\ pc \in [Waiters -> {"start", "loop", "plan", "check", "wait", "sleep", "tool", "ended"}]
      /\ count \in [Waiters -> 0..MaxSteps]
  BY DEF IInv, TypeOK
<1>1. /\ pc'[w] = p /\ count'[w] = k
      /\ \A v \in Waiters : v # w => pc'[v] = pc[v] /\ count'[v] = count[v]
      /\ stopped' = stopped /\ gated' = gated /\ ran' = ran
      /\ queue' = queue /\ decided' = decided
  BY <1>0 DEF queueVars
<1>2. TypeOK'
  <2>1. pc' \in [Waiters -> {"start", "loop", "plan", "check", "wait", "sleep", "tool", "ended"}]
    BY <1>0
  <2>2. count' \in [Waiters -> 0..MaxSteps]
    BY <1>0
  <2> QED
    BY <2>1, <2>2, <1>1 DEF IInv, TypeOK
<1>3. GatedCallApproved' /\ DecisionIsFinal'
  BY <1>1 DEF IInv, GatedCallApproved, DecisionIsFinal
<1>4. WaitsForRequest'
  BY <1>1 DEF IInv, WaitsForRequest, CallOf
<1>5. ToolNotRepeated'
  <2> SUFFICES ASSUME NEW r \in Runs, pc'[r] # "ended" PROVE <<r, count'[r]>> \notin ran
    BY <1>1 DEF ToolNotRepeated, CallOf
  <2>1. CASE r = w
    BY <2>1, <1>0, <1>1 DEF IInv
  <2>2. CASE r # w
    BY <2>2, <1>1 DEF IInv, ToolNotRepeated, CallOf, Waiters
  <2> QED
    BY <2>1, <2>2
<1>6. \A r \in Runs : /\ pc'[r] \in {"plan", "check", "wait", "tool"} => count'[r] < MaxSteps
                      /\ pc'[r] # "sleep"
  BY <1>1 DEF IInv, Waiters
<1>7. \A v \in Waiters, j \in 0..MaxSteps :
        /\ <<v, j>> \in gated =>
             \/ j < count'[v]
             \/ j = count'[v] /\ pc'[v] \in {"wait", "sleep", "tool", "ended"}
        /\ <<v, j>> \in ran => j < count'[v] \/ (j = count'[v] /\ pc'[v] = "ended")
  <2> SUFFICES ASSUME NEW v \in Waiters, NEW j \in 0..MaxSteps
               PROVE  /\ <<v, j>> \in gated =>
                           \/ j < count'[v]
                           \/ j = count'[v] /\ pc'[v] \in {"wait", "sleep", "tool", "ended"}
                      /\ <<v, j>> \in ran => j < count'[v] \/ (j = count'[v] /\ pc'[v] = "ended")
    OBVIOUS
  <2>1. CASE v = w
    BY <2>1, <1>0, <1>1 DEF IInv
  <2>2. CASE v # w
    BY <2>2, <1>1 DEF IInv
  <2> QED
    BY <2>1, <2>2
<1>8. \A v \in Waiters : pc'[v] = "tool" /\ <<v, count'[v]>> \in gated
                           => decided[<<v, count'[v]>>] = "approved"
  BY <1>1 DEF IInv, CallOf
<1> QED
  BY <1>1, <1>2, <1>3, <1>4, <1>5, <1>6, <1>7, <1>8 DEF IInv, CallOf

\* Ending w is always a quiet move.
LEMMA EndStep ==
  ASSUME IInv, NEW w \in Waiters, pc[w] # "ended",
         NEW s \in {"completed", "failed", "interrupted"}, End(w, s),
         UNCHANGED <<count, stopped, gated, ran, queueVars>>
  PROVE  IInv'
<1>1. count[w] \in 0..MaxSteps /\ count' = [count EXCEPT ![w] = count[w]]
  BY DEF IInv, TypeOK
<1>2. current' \in [Waiters -> {"init", "planning", "observing", "completed", "failed", "interrupted"}]
  BY DEF IInv, TypeOK, End
<1>3. pc' = [pc EXCEPT ![w] = "ended"]
  BY DEF End
<1> QED
  BY <1>1, <1>2, <1>3, QuietStep

\* The steps of a run before and between its calls are quiet.
LEMMA LoopSteps ==
  ASSUME IInv, NEW r \in Runs, StartRun(r) \/ LoopHead(r) \/ Plan(r)
  PROVE  IInv'
<1> USE EngineAssumption
<1>0. /\ r \in Waiters /\ count[r] \in 0..MaxSteps /\ count = [count EXCEPT ![r] = count[r]]
      /\ <<r, count[r]>> \in gated => pc[r] \in {"wait", "sleep", "tool", "ended"}
      /\ current \in [Waiters -> {"init", "planning", "observing", "completed", "failed", "interrupted"}]
  BY DEF IInv, TypeOK, Waiters
<1>1. CASE StartRun(r)
  <2>1. current' \in [Waiters -> {"init", "planning", "observing", "completed", "failed", "interrupted"}]
    BY <1>1, <1>0 DEF StartRun
  <2> QED
    BY <1>0, <1>1, <2>1, QuietStep DEF StartRun
<1>2. CASE LoopHead(r)
  <2>1. CASE End(r, "completed") \/ End(r, "interrupted")
    BY <2>1, <1>0, <1>2, EndStep DEF LoopHead
  <2>2. CASE /\ count[r] < MaxSteps
             /\ pc' = [pc EXCEPT ![r] = "plan"]
             /\ UNCHANGED current
    BY <2>2, <1>0, <1>2, QuietStep DEF LoopHead
  <2> QED
    BY <2>1, <2>2, <1>2 DEF LoopHead
<1>3. CASE Plan(r)
  <2>0. count[r] < MaxSteps
    BY <1>3 DEF Plan, IInv
  <2>1. CASE End(r, "failed") /\ UNCHANGED count
    BY <2>1, <1>0, <1>3, EndStep DEF Plan
  <2>2. CASE \E s \in {"completed", "failed"} :
               End(r, s) /\ count' = [count EXCEPT ![r] = @ + 1]
    <3>1. /\ pc' = [pc EXCEPT ![r] = "ended"]
          /\ count' = [count EXCEPT ![r] = count[r] + 1] /\ count[r] + 1 \in 0..MaxSteps
          /\ current' \in [Waiters -> {"init", "planning", "observing", "completed", "failed", "interrupted"}]
      BY <2>0, <2>2, <1>0 DEF End
    <3> QED
      BY <3>1, <1>0, <1>3, QuietStep DEF Plan
  <2>3. CASE pc' = [pc EXCEPT ![r] = "check"] /\ UNCHANGED <<current, count>>
    BY <2>0, <2>3, <1>0, <1>3, QuietStep DEF Plan
  <2> QED
    BY <2>1, <2>2, <2>3, <1>3 DEF Plan
<1> QED
  BY <1>1, <1>2, <1>3

\* The callback goes on to the tool only with an approved request.
LEMMA AwaitApprovalStep == ASSUME IInv, NEW r \in Runs, AwaitApproval(r) PROVE IInv'
<1> USE EngineAssumption
<1>0. /\ r \in Waiters /\ count[r] \in 0..MaxSteps /\ count = [count EXCEPT ![r] = count[r]]
      /\ current \in [Waiters -> {"init", "planning", "observing", "completed", "failed", "interrupted"}]
      /\ CallOf(r) \in Calls /\ CallOf(r) = <<r, count[r]>>
      /\ pc[r] = "wait" /\ count[r] < MaxSteps
  BY CallIsCall DEF IInv, TypeOK, Waiters, AwaitApproval
<1>1. CASE End(r, "failed")
  BY <1>0, <1>1, EndStep DEF AwaitApproval
<1>2. CASE queue[CallOf(r)] = "approved" /\ pc' = [pc EXCEPT ![r] = "tool"] /\ UNCHANGED current
  <2>1. decided[<<r, count[r]>>] = "approved"
    BY <1>0, <1>2 DEF IInv, DecisionIsFinal, Decisions
  <2> QED
    BY <2>1, <1>0, <1>2, QuietStep DEF AwaitApproval
<1> QED
  BY <1>1, <1>2 DEF AwaitApproval

\* A request is made for a call that had none.
LEMMA AskStep ==
  ASSUME IInv, NEW w \in Waiters, pc[w] \in {"start", "check"},
         NEW p \in {"wait", "ended"}, pc' = [pc EXCEPT ![w] = p],
         w \in Runs /\ p = "wait" => count[w] < MaxSteps,
         gated' = gated \cup {CallOf(w)},
         \/ Enqueue(CallOf(w))
         \/ p = "ended" /\ UNCHANGED queue,
         current' \in [Waiters -> {"init", "planning", "observing", "completed", "failed", "interrupted"}],
         UNCHANGED <<count, stopped, ran, decided>>
  PROVE  IInv'
<1> USE EngineAssumption
<1> DEFINE c == <<w, count[w]>>
<1>0. /\ pc \in [Waiters -> {"start", "loop", "plan", "check", "wait", "sleep", "tool", "ended"}]
      /\ count \in [Waiters -> 0..MaxSteps] /\ queue \in [Calls -> {"none", "pending"} \cup Decisions]
      /\ CallOf(w) = c /\ c \in Calls /\ count[w] \in 0..MaxSteps
  <2>1. CallOf(w) = c /\ c \in Calls /\ count[w] \in 0..MaxSteps
    BY CallIsCall
  <2> QED
    BY <2>1 DEF IInv, TypeOK
<1>1. c \notin gated /\ c \notin ran /\ queue[c] = "none" /\ decided[c] = "none"
  BY <1>0 DEF IInv
<1>2. /\ pc'[w] = p /\ \A v \in Waiters : v # w => pc'[v] = pc[v]
      /\ gated' = gated \cup {c} /\ ran' = ran /\ count' = count /\ decided' = decided
      /\ p = "wait" => queue'[c] = "pending"
      /\ queue'[c] \in {"none", "pending"}
      /\ \A d \in Calls : d # c => queue'[d] = queue[d]
  BY <1>0, <1>1 DEF Enqueue
<1>3. TypeOK'
  <2>1. pc' \in [Waiters -> {"start", "loop", "plan", "check", "wait", "sleep", "tool", "ended"}]
    BY <1>0
  <2>2. queue' \in [Calls -> {"none", "pending"} \cup Decisions] /\ gated' \subseteq Calls
    BY <1>0 DEF Enqueue, IInv, TypeOK
  <2> QED
    BY <2>1, <2>2 DEF IInv, TypeOK
<1>4. GatedCallApproved'
  BY <1>1, <1>2 DEF IInv, GatedCallApproved
<1>5. DecisionIsFinal'
  BY <1>2 DEF IInv, DecisionIsFinal, Decisions
<1>6. WaitsForRequest'
  <2> SUFFICES ASSUME NEW v \in Waiters, pc'[v] \in {"wait", "sleep"}
               PROVE  queue'[<<v, count[v]>>] # "none"
    BY <1>2 DEF WaitsForRequest, CallOf
  <2>1. <<v, count[v]>> \in Calls
    BY CallIsCall
  <2> QED
    BY <2>1, <1>2 DEF IInv, WaitsForRequest, CallOf
<1>7. ToolNotRepeated'
  BY <1>1, <1>2 DEF IInv, ToolNotRepeated, CallOf, Waiters
<1>8. \A r \in Runs : /\ pc'[r] \in {"plan", "check", "wait", "tool"} => count'[r] < MaxSteps
                      /\ pc'[r] # "sleep"
  BY <1>2 DEF IInv, Waiters
<1>9. \A d \in Calls : queue'[d] # "none" \/ decided'[d] # "none" => d \in gated'
  BY <1>2 DEF IInv
<1>10. \A d \in Calls : queue'[d] = "pending" => decided'[d] = "none"
  BY <1>1, <1>2 DEF IInv
<1>11. \A v \in Waiters, j \in 0..MaxSteps :
         /\ <<v, j>> \in gated' =>
              \/ j < count'[v]
              \/ j = count'[v] /\ pc'[v] \in {"wait", "sleep", "tool", "ended"}
         /\ <<v, j>> \in ran' => j < count'[v] \/ (j = count'[v] /\ pc'[v] = "ended")
  <2> SUFFICES ASSUME NEW v \in Waiters, NEW j \in 0..MaxSteps
               PROVE  /\ <<v, j>> \in gated' =>
                           \/ j < count'[v]
                           \/ j = count'[v] /\ pc'[v] \in {"wait", "sleep", "tool", "ended"}
                      /\ <<v, j>> \in ran' => j < count'[v] \/ (j = count'[v] /\ pc'[v] = "ended")
    OBVIOUS
  <2>1. /\ <<v, j>> \in gated =>
             \/ j < count[v]
             \/ j = count[v] /\ pc[v] \in {"wait", "sleep", "tool", "ended"}
        /\ <<v, j>> \in ran => j < count[v] \/ (j = count[v] /\ pc[v] = "ended")
    BY DEF IInv
  <2>2. <<v, j>> = c => v = w /\ j = count[w]
    OBVIOUS
  <2>3. CASE v = w
    BY <2>1, <2>2, <2>3, <1>2
  <2>4. CASE v # w
    BY <2>1, <2>2, <2>4, <1>2
  <2> QED
    BY <2>3, <2>4
<1>12. \A v \in Waiters : pc'[v] = "tool" /\ CallOf(v)' \in gated' => decided'[CallOf(v)'] = "approved"
  BY <1>2 DEF IInv, CallOf
<1> QED
  BY <1>3, <1>4, <1>5, <1>6, <1>7, <1>8, <1>9, <1>10, <1>11, <1>12 DEF IInv

\* PolicyExecutor lets the call through, refuses it, or asks.
LEMMA CheckPolicyStep == ASSUME IInv, NEW r \in Runs, CheckPolicy(r) PROVE IInv'
<1> USE EngineAssumption
<1>0. /\ r \in Waiters /\ pc[r] = "check" /\ count[r] < MaxSteps
      /\ count[r] \in 0..MaxSteps /\ count = [count EXCEPT ![r] = count[r]]
      /\ current \in [Waiters -> {"init", "planning", "observing", "completed", "failed", "interrupted"}]
      /\ <<r, count[r]>> \notin gated
      /\ UNCHANGED <<count, stopped, ran, decided>>
  BY DEF IInv, TypeOK, Waiters, CheckPolicy
<1>1. CASE End(r, "failed") /\ UNCHANGED <<gated, queue>>
  BY <1>0, <1>1, EndStep DEF queueVars
<1>2. CASE pc' = [pc EXCEPT ![r] = "tool"] /\ UNCHANGED <<current, gated, queue>>
  BY <1>0, <1>2, QuietStep DEF queueVars
<1>3. CASE /\ gated' = gated \cup {CallOf(r)}
           /\ Enqueue(CallOf(r))
           /\ pc' = [pc EXCEPT ![r] = "wait"]
           /\ UNCHANGED current
  BY <1>0, <1>3, AskStep
<1>4. CASE gated' = gated \cup {CallOf(r)} /\ End(r, "failed") /\ UNCHANGED queue
  BY <1>0, <1>4, AskStep DEF End
<1> QED
  BY <1>1, <1>2, <1>3, <1>4 DEF CheckPolicy

\* A node asks once.
LEMMA AskNodeStep == ASSUME IInv, NEW n \in ApprovalNodes, AskNode(n) PROVE IInv'
<1> USE EngineAssumption
<1>0. /\ n \in Waiters /\ n \notin Runs /\ pc[n] = "start"
      /\ current \in [Waiters -> {"init", "planning", "observing", "completed", "failed", "interrupted"}]
      /\ gated' = gated \cup {CallOf(n)}
      /\ UNCHANGED <<count, stopped, ran, decided>>
  BY DEF IInv, TypeOK, Waiters, AskNode
<1>1. CASE /\ Enqueue(CallOf(n))
           /\ pc' = [pc EXCEPT ![n] = "wait"]
           /\ UNCHANGED current
  BY <1>0, <1>1, AskStep
<1>2. CASE End(n, "failed") /\ UNCHANGED queue
  BY <1>0, <1>2, AskStep DEF End
<1> QED
  BY <1>1, <1>2 DEF AskNode

\* Making a call, which has been approved if it is gated: w ends, or has made
\* a step.
LEMMA CallStep ==
  ASSUME IInv, NEW w \in Waiters, pc[w] # "ended",
         <<w, count[w]>> \in gated => decided[<<w, count[w]>>] = "approved",
         NEW p, NEW k \in 0..MaxSteps,
         \/ p = "ended" /\ k = count[w]
         \/ p = "loop" /\ k = count[w] + 1,
         pc' = [pc EXCEPT ![w] = p], count' = [count EXCEPT ![w] = k],
         ran' = ran \cup {CallOf(w)},
         current' \in [Waiters -> {"init", "planning", "observing", "completed", "failed", "interrupted"}],
         UNCHANGED <<stopped, gated, queueVars>>
  PROVE  IInv'
<1> USE EngineAssumption
<1> DEFINE c == <<w, count[w]>>
<1>0. /\ pc \in [Waiters -> {"start", "loop", "plan", "check", "wait", "sleep", "tool", "ended"}]
      /\ count \in [Waiters -> 0..MaxSteps] /\ CallOf(w) = c /\ c \in Calls
  <2>1. CallOf(w) = c /\ c \in Calls
    BY CallIsCall
  <2> QED
    BY <2>1 DEF IInv, TypeOK
<1>1. /\ pc'[w] = p /\ count'[w] = k
      /\ \A v \in Waiters : v # w => pc'[v] = pc[v] /\ count'[v] = count[v]
      /\ ran' = ran \cup {c} /\ stopped' = stopped /\ gated' = gated
      /\ queue' = queue /\ decided' = decided
  BY <1>0 DEF queueVars
<1>2. TypeOK'
  <2>1. pc' \in [Waiters -> {"start", "loop", "plan", "check", "wait", "sleep", "tool", "ended"}]
    BY <1>0
  <2>2. count' \in [Waiters -> 0..MaxSteps]
    BY <1>0
  <2>3. ran' \subseteq Calls
    BY <1>0, <1>1 DEF IInv, TypeOK
  <2> QED
    BY <2>1, <2>2, <2>3, <1>1 DEF IInv, TypeOK
<1>3. GatedCallApproved' /\ DecisionIsFinal'
  BY <1>1 DEF IInv, GatedCallApproved, DecisionIsFinal
<1>4. WaitsForRequest'
  BY <1>1 DEF IInv, WaitsForRequest, CallOf
<1>5. \A v \in Waiters, j \in 0..MaxSteps :
        /\ <<v, j>> \in gated =>
             \/ j < count'[v]
             \/ j = count'[v] /\ pc'[v] \in {"wait", "sleep", "tool", "ended"}
        /\ <<v, j>> \in ran' => j < count'[v] \/ (j = count'[v] /\ pc'[v] = "ended")
  <2> SUFFICES ASSUME NEW v \in Waiters, NEW j \in 0..MaxSteps
               PROVE  /\ <<v, j>> \in gated =>
                           \/ j < count'[v]
                           \/ j = count'[v] /\ pc'[v] \in {"wait", "sleep", "tool", "ended"}
                      /\ <<v, j>> \in ran' => j < count'[v] \/ (j = count'[v] /\ pc'[v] = "ended")
    OBVIOUS
  <2>1. /\ <<v, j>> \in gated =>
             \/ j < count[v]
             \/ j = count[v] /\ pc[v] \in {"wait", "sleep", "tool", "ended"}
        /\ <<v, j>> \in ran => j < count[v] \/ (j = count[v] /\ pc[v] = "ended")
        /\ count[v] \in 0..MaxSteps
    BY <1>0 DEF IInv
  <2>2. <<v, j>> = c => v = w /\ j = count[w]
    OBVIOUS
  <2>3. CASE v = w
    BY <2>1, <2>2, <2>3, <1>1
  <2>4. CASE v # w
    BY <2>1, <2>2, <2>4, <1>1
  <2> QED
    BY <2>3, <2>4
<1>6. ToolNotRepeated'
  <2> SUFFICES ASSUME NEW r \in Runs, pc'[r] # "ended" PROVE <<r, count'[r]>> \notin ran'
    BY DEF ToolNotRepeated, CallOf
  <2>1. r \in Waiters /\ count'[r] \in 0..MaxSteps
    BY <1>0, <1>1 DEF Waiters
  <2> QED
    BY <2>1, <1>5
<1>7. \A r \in Runs : /\ pc'[r] \in {"plan", "check", "wait", "tool"} => count'[r] < MaxSteps
                      /\ pc'[r] # "sleep"
  BY <1>1 DEF IInv, Waiters
<1>8. \A v \in Waiters : pc'[v] = "tool" /\ CallOf(v)' \in gated' => decided'[CallOf(v)'] = "approved"
  BY <1>1 DEF IInv, CallOf
<1>9. \A d \in Calls : /\ queue'[d] # "none" \/ decided'[d] # "none" => d \in gated'
                       /\ queue'[d] = "pending" => decided'[d] = "none"
  BY <1>1 DEF IInv
<1> QED
  BY <1>1, <1>2, <1>3, <1>4, <1>5, <1>6, <1>7, <1>8, <1>9 DEF IInv

\* A tool is called when nothing gates it or its request has been approved.
LEMMA CallToolStep == ASSUME IInv, NEW r \in Runs, CallTool(r) PROVE IInv'
<1> USE EngineAssumption
<1>0. /\ r \in Waiters /\ pc[r] = "tool" /\ count[r] < MaxSteps /\ count[r] \in 0..MaxSteps
      /\ current \in [Waiters -> {"init", "planning", "observing", "completed", "failed", "interrupted"}]
      /\ count = [count EXCEPT ![r] = count[r]]
      /\ <<r, count[r]>> \in gated => decided[<<r, count[r]>>] = "approved"
  BY DEF IInv, TypeOK, Waiters, CallTool, CallOf
<1>1. CASE End(r, "failed") /\ UNCHANGED count
  <2>1. current' \in [Waiters -> {"init", "planning", "observing", "completed", "failed", "interrupted"}]
    BY <1>0, <1>1 DEF End
  <2> QED
    BY <1>0, <1>1, <2>1, CallStep DEF CallTool, End
<1>2. CASE /\ pc' = [pc EXCEPT ![r] = "loop"]
           /\ current' = [current EXCEPT ![r] = "observing"]
           /\ count' = [count EXCEPT ![r] = @ + 1]
  <2>1. /\ current' \in [Waiters -> {"init", "planning", "observing", "completed", "failed", "interrupted"}]
        /\ count[r] + 1 \in 0..MaxSteps /\ count' = [count EXCEPT ![r] = count[r] + 1]
    BY <1>0, <1>2
  <2> QED
    BY <1>0, <1>2, <2>1, CallStep DEF CallTool
<1> QED
  BY <1>1, <1>2 DEF CallTool

\* A node completes on an approved request, and otherwise moves quietly.
LEMMA PollNodeStep == ASSUME IInv, NEW n \in ApprovalNodes, PollNode(n) PROVE IInv'
<1> USE EngineAssumption
<1>0. /\ n \in Waiters /\ n \notin Runs /\ pc[n] = "wait" /\ count[n] \in 0..MaxSteps
      /\ current \in [Waiters -> {"init", "planning", "observing", "completed", "failed", "interrupted"}]
      /\ count = [count EXCEPT ![n] = count[n]]
      /\ CallOf(n) = <<n, count[n]>> /\ CallOf(n) \in Calls
      /\ UNCHANGED <<count, stopped, gated, queueVars>>
  BY CallIsCall DEF IInv, TypeOK, Waiters, PollNode
<1>1. CASE queue[CallOf(n)] = "approved" /\ End(n, "completed") /\ ran' = ran \cup {CallOf(n)}
  <2>1. decided[<<n, count[n]>>] = "approved"
    BY <1>0, <1>1 DEF IInv, DecisionIsFinal, Decisions
  <2>2. current' \in [Waiters -> {"init", "planning", "observing", "completed", "failed", "interrupted"}]
    BY <1>0, <1>1 DEF End
  <2> QED
    BY <1>0, <1>1, <2>1, <2>2, CallStep DEF End
<1>2. CASE End(n, "failed") /\ UNCHANGED ran
  BY <1>0, <1>2, EndStep
<1>3. CASE /\ queue[CallOf(n)] = "pending"
           /\ pc' = [pc EXCEPT ![n] = "sleep"]
           /\ UNCHANGED <<current, ran>>
  BY <1>0, <1>3, QuietStep
<1> QED
  BY <1>1, <1>2, <1>3 DEF PollNode

\* The tick and the done context move a node quietly.
LEMMA SleepSteps == ASSUME IInv, NEW n \in ApprovalNodes, WakeNode(n) \/ StopNode(n) PROVE IInv'
<1> USE EngineAssumption
<1>0. /\ n \in Waiters /\ n \notin Runs /\ pc[n] = "sleep" /\ count[n] \in 0..MaxSteps
      /\ current \in [Waiters -> {"init", "planning", "observing", "completed", "failed", "interrupted"}]
      /\ count = [count EXCEPT ![n] = count[n]]
      /\ queue[<<n, count[n]>>] # "none"
      /\ UNCHANGED <<count, stopped, gated, ran, queueVars>>
  BY DEF IInv, TypeOK, Waiters, WakeNode, StopNode, WaitsForRequest, CallOf
<1>1. CASE pc' = [pc EXCEPT ![n] = "wait"] /\ UNCHANGED current
  BY <1>0, <1>1, QuietStep
<1>2. CASE End(n, "failed")
  BY <1>0, <1>2, EndStep
<1> QED
  BY <1>1, <1>2 DEF WakeNode, StopNode

\* Only a pending request takes a decision, and a pending request had none.
LEMMA DecideStep == ASSUME IInv, NEW c \in Calls, NEW d \in Decisions, Decide(c, d) PROVE IInv'
<1> USE EngineAssumption
<1>0. /\ queue \in [Calls -> {"none", "pending"} \cup Decisions]
      /\ decided \in [Calls -> {"none"} \cup Decisions]
      /\ pc' = pc /\ count' = count /\ current' = current /\ stopped' = stopped
      /\ gated' = gated /\ ran' = ran
  BY DEF IInv, TypeOK, Decide
<1>1. queue' = [queue EXCEPT ![c] = d] /\ decided' = [decided EXCEPT ![c] = d]
  BY DEF Decide
<1>2. /\ queue'[c] = d /\ decided'[c] = d
      /\ \A e \in Calls : e # c => queue'[e] = queue[e] /\ decided'[e] = decided[e]
  BY <1>0, <1>1
<1>3. TypeOK'
  <2>1. queue' \in [Calls -> {"none", "pending"} \cup Decisions]
    BY <1>0, <1>1
  <2>2. decided' \in [Calls -> {"none"} \cup Decisions]
    BY <1>0, <1>1
  <2> QED
    BY <1>0, <2>1, <2>2 DEF IInv, TypeOK
<1>4. decided[c] = "none" /\ c \in gated
  BY <1>0, <1>1 DEF IInv, Decide
<1>5. GatedCallApproved'
  <2> SUFFICES ASSUME NEW e \in ran \cap gated PROVE decided'[e] = "approved"
    BY <1>0 DEF GatedCallApproved
  <2>1. e \in Calls /\ decided[e] = "approved"
    BY DEF IInv, TypeOK, GatedCallApproved
  <2> QED
    BY <2>1, <1>2, <1>4
<1>6. DecisionIsFinal'
  BY <1>2 DEF IInv, DecisionIsFinal
<1>7. \A w \in Waiters : CallOf(w) \in Calls /\ CallOf(w)' = CallOf(w)
  BY <1>0, CallIsCall DEF CallOf
<1>8. WaitsForRequest'
  BY <1>2, <1>7, <1>0 DEF IInv, WaitsForRequest, Decisions
<1>9. ToolNotRepeated'
  BY <1>0 DEF IInv, ToolNotRepeated, CallOf
<1>10. \A e \in Calls : /\ queue'[e] # "none" \/ decided'[e] # "none" => e \in gated'
                        /\ queue'[e] = "pending" => decided'[e] = "none"
  BY <1>2, <1>4, <1>0 DEF IInv, Decisions
<1>11. \A w \in Waiters : pc'[w] = "tool" /\ CallOf(w)' \in gated' => decided'[CallOf(w)'] = "approved"
  BY <1>2, <1>4, <1>7, <1>0 DEF IInv
<1> QED
  BY <1>0, <1>3, <1>5, <1>6, <1>8, <1>9, <1>10, <1>11 DEF IInv

\* A context that is done changes nothing the invariant speaks of; a crash
\* ends everybody, and can only take requests away.
LEMMA StopAndCrashSteps ==
  ASSUME IInv, (\E w \in Waiters : Stop(w)) \/ Crash \/ UNCHANGED evars
  PROVE  IInv'
<1> USE EngineAssumption
<1>1. CASE \E w \in Waiters : Stop(w)
  <2>1. /\ stopped' \subseteq Waiters
        /\ UNCHANGED <<pc, count, current, gated, ran, queue, decided>>
    BY <1>1 DEF Stop, IInv, TypeOK, queueVars
  <2>2. TypeOK'
    BY <2>1 DEF IInv, TypeOK
  <2> QED
    BY <2>1, <2>2
    DEF IInv, GatedCallApproved, DecisionIsFinal, WaitsForRequest, ToolNotRepeated, CallOf
<1>2. CASE Crash
  <2>1. /\ \A w \in Waiters : pc'[w] = "ended"
        /\ \A c \in Calls : queue'[c] = queue[c] \/ queue'[c] = "none"
        /\ count' = count /\ current' = current /\ stopped' = stopped /\ gated' = gated
        /\ ran' = ran /\ decided' = decided
    BY <1>2 DEF Crash
  <2>2. TypeOK'
    <3>1. pc' \in [Waiters -> {"start", "loop", "plan", "check", "wait", "sleep", "tool", "ended"}]
      BY <1>2 DEF Crash
    <3>2. queue' \in [Calls -> {"none", "pending"} \cup Decisions]
      BY <1>2 DEF Crash, IInv, TypeOK
    <3> QED
      BY <2>1, <3>1, <3>2 DEF IInv, TypeOK
  <2>3. GatedCallApproved' /\ DecisionIsFinal'
    BY <2>1 DEF IInv, GatedCallApproved, DecisionIsFinal, Decisions
  <2>4. WaitsForRequest' /\ ToolNotRepeated'
    BY <2>1 DEF WaitsForRequest, ToolNotRepeated, Waiters
  <2>5. \A c \in Calls : /\ queue'[c] # "none" \/ decided'[c] # "none" => c \in gated'
                         /\ queue'[c] = "pending" => decided'[c] = "none"
    BY <2>1 DEF IInv
  <2>6. \A r \in Runs : pc'[r] = "ended"
    BY <2>1 DEF Waiters
  <2>7. \A w \in Waiters, k \in 0..MaxSteps :
          <<w, k>> \in gated \/ <<w, k>> \in ran => k < count[w] \/ k = count[w]
    BY SMTT(20) DEF IInv
  <2> QED
    BY <2>1, <2>2, <2>3, <2>4, <2>5, <2>6, <2>7 DEF IInv
<1>3. CASE UNCHANGED evars
  <2>1. UNCHANGED <<pc, count, current, stopped, gated, ran, queue, decided>>
    BY <1>3 DEF evars
  <2>2. TypeOK'
    BY <2>1 DEF IInv, TypeOK
  <2> QED
    BY <2>1, <2>2
    DEF IInv, GatedCallApproved, DecisionIsFinal, WaitsForRequest, ToolNotRepeated, CallOf
<1> QED
  BY <1>1, <1>2, <1>3

\* Every step keeps the invariant.
LEMMA EngineNext == IInv /\ [Next]_evars => IInv'
<1> SUFFICES ASSUME IInv, [Next]_evars PROVE IInv'
  OBVIOUS
<1>1. CASE \E r \in Runs : EngineStep(r)
  BY <1>1, LoopSteps, CheckPolicyStep, AwaitApprovalStep, CallToolStep DEF EngineStep
<1>2. CASE \E n \in ApprovalNodes : NodeStep(n)
  BY <1>2, AskNodeStep, PollNodeStep, SleepSteps DEF NodeStep
<1>3. CASE \E c \in Calls, d \in Decisions : Decide(c, d)
  BY <1>3, DecideStep
<1>4. CASE (\E w \in Waiters : Stop(w)) \/ Crash \/ Quiescent \/ UNCHANGED evars
  BY <1>4, StopAndCrashSteps DEF Quiescent
<1> QED
  BY <1>1, <1>2, <1>3, <1>4 DEF Next

-----------------------------------------------------------------------------
\* The engine, the approval nodes and the queue keep IInv whatever the
\* planner, the policy, the tools and the people who decide do.
THEOREM EngineInvariant == Spec => []IInv
BY EngineInit, EngineNext, PTL DEF Spec

\* Every variable keeps its type: no run counts past EngineConfig.MaxSteps.
THEOREM EngineTypeOK == Spec => []TypeOK
<1>1. IInv => TypeOK
  BY DEF IInv
<1> QED
  BY <1>1, EngineInvariant, PTL

\* PolicyExecutor makes a call that needs approval, and executeApprovalNode
\* completes, only after a pending request was approved.
THEOREM GatedCallsApproved == Spec => []GatedCallApproved
<1>1. IInv => GatedCallApproved
  BY DEF IInv
<1> QED
  BY <1>1, EngineInvariant, PTL

\* Approve and Deny never change a decision that was taken.
THEOREM DecisionsAreFinal == Spec => []DecisionIsFinal
<1>1. IInv => DecisionIsFinal
  BY DEF IInv
<1> QED
  BY <1>1, EngineInvariant, PTL

\* queueApprovalCallback and executeApprovalNode never wait for a request that
\* is not in the queue.
THEOREM WaitersHaveRequests == Spec => []WaitsForRequest
<1>1. IInv => WaitsForRequest
  BY DEF IInv
<1> QED
  BY <1>1, EngineInvariant, PTL

\* Engine.Run never makes the tool call of one step twice.
THEOREM ToolsNotRepeated == Spec => []ToolNotRepeated
<1>1. IInv => ToolNotRepeated
  BY DEF IInv
<1> QED
  BY <1>1, EngineInvariant, PTL
=============================================================================

----------------------------- MODULE AgentEngine -----------------------------
(***************************************************************************)
(* The agent loop with its policy and approval gate: Engine.Run and        *)
(* ExecuteStep (pkg/runtime), PolicyExecutor (pkg/tool), the approval      *)
(* queue (pkg/policy) with the two that wait on it, the callback of a tool *)
(* call and an approval node of a workflow, the people who decide through  *)
(* the HTTP API, and a crash of the process.                               *)
(*                                                                         *)
(* A request id is fresh (a UUID).  A step of a run makes at most one      *)
(* request, so the pair of run and step number stands for it.  What the    *)
(* planner, the policy and a tool answer is a choice.                      *)
(***************************************************************************)
EXTENDS Naturals, FiniteSets

CONSTANTS Runs,           \* runs of the engine
          ApprovalNodes,  \* approval nodes of workflows
          MaxSteps,       \* EngineConfig.MaxSteps
          Autonomy,       \* EngineConfig.Autonomy, which nothing reads
          Durable,        \* the runs and nodes whose queue is the SQLite one
          QueueFaults,    \* may a call of the SQLite queue fail?
          MayCrash        \* may the process die?

ASSUME EngineAssumption ==
  /\ MaxSteps \in Nat /\ Autonomy \in 0..4
  /\ Durable \subseteq Runs \cup ApprovalNodes
  /\ MayCrash \in BOOLEAN /\ QueueFaults \in BOOLEAN
  /\ Runs \cap ApprovalNodes = {}

VARIABLES
  pc,        \* pc[w]: where the run or the approval node w is
  count,     \* count[r]: StepCount
  current,   \* current[r]: the engine state, or the status of the node
  stopped,   \* the runs and nodes whose context is done
  gated,     \* calls the policy wants approved
  ran,       \* tool calls executed
  queue,     \* queue[c]: Status of the request for call c
  decided    \* decided[c]: the first decision that found c pending

evars == <<pc, count, current, stopped, gated, ran, queue, decided>>

Waiters == Runs \cup ApprovalNodes
Calls   == Waiters \X (0..MaxSteps)

\* The call w is making, or would make next.
CallOf(w) == <<w, count[w]>>

Decisions == {"approved", "denied"}

TypeOK ==
  /\ pc \in [Waiters -> {"start", "loop", "plan", "check", "wait", "sleep", "tool", "ended"}]
  /\ count \in [Waiters -> 0..MaxSteps]
  /\ current \in [Waiters -> {"init", "planning", "observing", "completed", "failed", "interrupted"}]
  /\ stopped \subseteq Waiters /\ gated \subseteq Calls /\ ran \subseteq Calls
  /\ queue \in [Calls -> {"none", "pending"} \cup Decisions]
  /\ decided \in [Calls -> {"none"} \cup Decisions]

Init ==
  /\ pc = [w \in Waiters |-> "start"]
  /\ count = [w \in Waiters |-> 0]
  /\ current = [w \in Waiters |-> "init"]
  /\ stopped = {} /\ gated = {} /\ ran = {}
  /\ queue = [c \in Calls |-> "none"]
  /\ decided = [c \in Calls |-> "none"]

queueVars == <<queue, decided>>

\* w returns in state s.
End(w, s) == /\ pc' = [pc EXCEPT ![w] = "ended"]
             /\ current' = [current EXCEPT ![w] = s]

-----------------------------------------------------------------------------
(* The approval queue.                                                     *)

\* A call of w's queue may answer, and may fail: the SQLite queue fails once
\* w's context is done, the memory queue does not look at it.
QueueAnswers(w) == w \in Durable => w \notin stopped
QueueFails(w)   == w \in Durable /\ (QueueFaults \/ w \in stopped)

Enqueue(c) == queue' = [queue EXCEPT ![c] = "pending"]

\* Approve and Deny, through the API.  On a request that is not pending they
\* change nothing.
Decide(c, d) ==
  /\ queue[c] = "pending"
  /\ queue' = [queue EXCEPT ![c] = d]
  /\ decided' = [decided EXCEPT ![c] = d]
  /\ UNCHANGED <<pc, count, current, stopped, gated, ran>>

-----------------------------------------------------------------------------
(* The engine.                                                             *)

StartRun(r) ==
  /\ pc[r] = "start"
  /\ pc' = [pc EXCEPT ![r] = "loop"]
  /\ current' = [current EXCEPT ![r] = "planning"]
  /\ UNCHANGED <<count, stopped, gated, ran, queueVars>>

\* The head of the loop: no steps left, context done, or one more step.
LoopHead(r) ==
  /\ pc[r] = "loop"
  /\ \/ count[r] >= MaxSteps /\ End(r, "completed")
     \/ count[r] < MaxSteps /\ r \in stopped /\ End(r, "interrupted")
     \/ /\ count[r] < MaxSteps /\ r \notin stopped
        /\ pc' = [pc EXCEPT ![r] = "plan"]
        /\ UNCHANGED current
  /\ UNCHANGED <<count, stopped, gated, ran, queueVars>>

\* The planner answers: an error, completion, a type the engine does not know
\* (a failed step without an error), or a tool call.
Plan(r) ==
  /\ pc[r] = "plan"
  /\ \/ End(r, "failed") /\ UNCHANGED count
     \/ \E s \in {"completed", "failed"} : End(r, s) /\ count' = [count EXCEPT ![r] = @ + 1]
     \/ pc' = [pc EXCEPT ![r] = "check"] /\ UNCHANGED <<current, count>>
  /\ UNCHANGED <<stopped, gated, ran, queueVars>>

\* PolicyExecutor: denied, allowed, or to be approved; the request may not
\* reach a SQLite queue.
CheckPolicy(r) ==
  /\ pc[r] = "check"
  /\ \/ End(r, "failed") /\ UNCHANGED <<gated, queue>>
     \/ pc' = [pc EXCEPT ![r] = "tool"] /\ UNCHANGED <<current, gated, queue>>
     \/ /\ gated' = gated \cup {CallOf(r)}
        /\ \/ /\ QueueAnswers(r)
              /\ Enqueue(CallOf(r))
              /\ pc' = [pc EXCEPT ![r] = "wait"]
              /\ UNCHANGED current
           \/ QueueFails(r) /\ End(r, "failed") /\ UNCHANGED queue
  /\ UNCHANGED <<count, stopped, ran, decided>>

\* Mutant: a request that is no longer pending counts as approved.
AwaitApprovalLoosely(r) ==
  /\ pc[r] = "wait"
  /\ \/ (r \in stopped \/ QueueFails(r)) /\ End(r, "failed")
     \/ queue[CallOf(r)] # "pending" /\ pc' = [pc EXCEPT ![r] = "tool"] /\ UNCHANGED current
  /\ UNCHANGED <<count, stopped, gated, ran, queueVars>>

\* Mutant: the callback does not watch its context.
AwaitApprovalUnstoppable(r) ==
  /\ pc[r] = "wait"
  /\ \/ queue[CallOf(r)] = "approved" /\ pc' = [pc EXCEPT ![r] = "tool"] /\ UNCHANGED current
     \/ queue[CallOf(r)] = "denied" /\ End(r, "failed")
  /\ UNCHANGED <<count, stopped, gated, ran, queueVars>>

\* queueApprovalCallback: the context is done, or a poll finds a decision.
\* The select may take the tick although the context is done; the SQLite
\* queue then fails the read, the memory queue does not.
AwaitApproval(r) ==
  /\ pc[r] = "wait"
  /\ \/ (r \in stopped \/ QueueFails(r)) /\ End(r, "failed")
     \/ /\ QueueAnswers(r)
        /\ \/ queue[CallOf(r)] = "approved" /\ pc' = [pc EXCEPT ![r] = "tool"] /\ UNCHANGED current
           \/ queue[CallOf(r)] = "denied" /\ End(r, "failed")
  /\ UNCHANGED <<count, stopped, gated, ran, queueVars>>

\* The tool fails, or its result is recorded; an unknown tool is a result too.
CallTool(r) ==
  /\ pc[r] = "tool"
  /\ ran' = ran \cup {CallOf(r)}
  /\ \/ End(r, "failed") /\ UNCHANGED count
     \/ /\ pc' = [pc EXCEPT ![r] = "loop"]
        /\ current' = [current EXCEPT ![r] = "observing"]
        /\ count' = [count EXCEPT ![r] = @ + 1]
  /\ UNCHANGED <<stopped, gated, queueVars>>

EngineStep(r) == StartRun(r) \/ LoopHead(r) \/ Plan(r) \/ CheckPolicy(r)
                 \/ AwaitApproval(r) \/ CallTool(r)

-----------------------------------------------------------------------------
(* Approval nodes.                                                         *)

\* executeApprovalNode enqueues.
AskNode(n) ==
  /\ pc[n] = "start"
  /\ gated' = gated \cup {CallOf(n)}
  /\ \/ /\ QueueAnswers(n)
        /\ Enqueue(CallOf(n))
        /\ pc' = [pc EXCEPT ![n] = "wait"]
        /\ UNCHANGED current
     \/ QueueFails(n) /\ End(n, "failed") /\ UNCHANGED queue
  /\ UNCHANGED <<count, stopped, ran, decided>>

\* Mutant: the node goes on polling unless the request is approved.
PollNodeApprovedOnly(n) ==
  /\ pc[n] = "wait"
  /\ \/ /\ QueueAnswers(n)
        /\ \/ queue[CallOf(n)] = "approved" /\ End(n, "completed") /\ ran' = ran \cup {CallOf(n)}
           \/ /\ queue[CallOf(n)] # "approved"
              /\ pc' = [pc EXCEPT ![n] = "sleep"]
              /\ UNCHANGED <<current, ran>>
     \/ QueueFails(n) /\ End(n, "failed") /\ UNCHANGED ran
  /\ UNCHANGED <<count, stopped, gated, queueVars>>

\* It polls; a request that is pending sends it to sleep.
PollNode(n) ==
  /\ pc[n] = "wait"
  /\ \/ /\ QueueAnswers(n)
        /\ \/ queue[CallOf(n)] = "approved" /\ End(n, "completed") /\ ran' = ran \cup {CallOf(n)}
           \/ queue[CallOf(n)] = "denied" /\ End(n, "failed") /\ UNCHANGED ran
           \/ /\ queue[CallOf(n)] = "pending"
              /\ pc' = [pc EXCEPT ![n] = "sleep"]
              /\ UNCHANGED <<current, ran>>
     \/ QueueFails(n) /\ End(n, "failed") /\ UNCHANGED ran
  /\ UNCHANGED <<count, stopped, gated, queueVars>>

\* The tick: the node polls again, or finds that the request has expired,
\* whatever was decided since the last poll.
WakeNode(n) ==
  /\ pc[n] = "sleep"
  /\ \/ pc' = [pc EXCEPT ![n] = "wait"] /\ UNCHANGED current
     \/ End(n, "failed")
  /\ UNCHANGED <<count, stopped, gated, ran, queueVars>>

\* The context of the sleeping node is done.
StopNode(n) ==
  /\ pc[n] = "sleep" /\ n \in stopped
  /\ End(n, "failed")
  /\ UNCHANGED <<count, stopped, gated, ran, queueVars>>

NodeStep(n) == AskNode(n) \/ PollNode(n) \/ WakeNode(n) \/ StopNode(n)

-----------------------------------------------------------------------------
(* The environment.                                                        *)

\* A timeout or a cancellation.
Stop(w) ==
  /\ pc[w] # "ended" /\ w \notin stopped
  /\ stopped' = stopped \cup {w}
  /\ UNCHANGED <<pc, count, current, gated, ran, queueVars>>

\* The process dies: nobody waits any more, and a memory queue is lost.
Crash ==
  /\ MayCrash /\ \E w \in Waiters : pc[w] # "ended"
  /\ pc' = [w \in Waiters |-> "ended"]
  /\ queue' = [c \in Calls |-> IF c[1] \in Durable THEN queue[c] ELSE "none"]
  /\ UNCHANGED <<count, current, stopped, gated, ran, decided>>

\* Everybody has ended; nobody decides on what is left in the queue.
Quiescent == (\A w \in Waiters : pc[w] = "ended") /\ UNCHANGED evars

Next == \/ \E r \in Runs : EngineStep(r)
        \/ \E n \in ApprovalNodes : NodeStep(n)
        \/ \E w \in Waiters : Stop(w)
        \/ \E c \in Calls, d \in Decisions : Decide(c, d)
        \/ Crash
        \/ Quiescent

Spec == Init /\ [][Next]_evars

\* A run that waits has something to find at its next poll.
Answered(r) == pc[r] = "wait" => r \in stopped \/ queue[CallOf(r)] \in Decisions

\* Goroutines are scheduled, tickers fire, the planner and the tools return.
\* A select with two ready cases takes either at random, so a done context is
\* noticed.  Nobody need decide, and the queue need not fail: a wait for a
\* pending request may last forever.
FairSpec == /\ Spec
            /\ \A r \in Runs : WF_evars(EngineStep(r) /\ Answered(r))
            /\ \A n \in ApprovalNodes : WF_evars(NodeStep(n)) /\ SF_evars(StopNode(n))

-----------------------------------------------------------------------------
(* Properties.                                                             *)

\* A call that the policy wants approved is made only after somebody approved
\* it while it was pending, and nobody had denied it; nor does an approval
\* node complete otherwise.  Crashes, timeouts and late or repeated decisions
\* make no difference.
GatedCallApproved == \A c \in ran \cap gated : decided[c] = "approved"

\* The first decision on a request is final: the queue never shows another.
DecisionIsFinal == \A c \in Calls : queue[c] \in Decisions => decided[c] = queue[c]

\* A run or a node only waits for a request that the queue holds: it cannot
\* wait for a decision that nobody could take.
WaitsForRequest ==
  \A w \in Waiters : pc[w] \in {"wait", "sleep"} => queue[CallOf(w)] # "none"

\* No step makes its tool call twice, and nothing follows a tool that failed.
ToolNotRepeated == \A r \in Runs : pc[r] # "ended" => CallOf(r) \notin ran

\* The inductive invariant.  Besides the four above: a run between the head of
\* its loop and its tool has a step left; requests and decisions belong to
\* gated calls; a pending request has no decision; a call is gated, and made,
\* only in the step it belongs to; a gated call about to be made has been
\* approved.
IInv ==
  /\ TypeOK /\ GatedCallApproved /\ DecisionIsFinal /\ WaitsForRequest /\ ToolNotRepeated
  /\ \A r \in Runs : pc[r] \in {"plan", "check", "wait", "tool"} => count[r] < MaxSteps
  /\ \A r \in Runs : pc[r] # "sleep"
  /\ \A c \in Calls : queue[c] # "none" \/ decided[c] # "none" => c \in gated
  /\ \A c \in Calls : queue[c] = "pending" => decided[c] = "none"
  /\ \A w \in Waiters, k \in 0..MaxSteps :
       /\ <<w, k>> \in gated =>
            \/ k < count[w]
            \/ k = count[w] /\ pc[w] \in {"wait", "sleep", "tool", "ended"}
       /\ <<w, k>> \in ran => k < count[w] \/ (k = count[w] /\ pc[w] = "ended")
  /\ \A w \in Waiters : pc[w] = "tool" /\ CallOf(w) \in gated => decided[CallOf(w)] = "approved"

\* Once a request is decided, who polls for it goes on, or ends.
DecisionReachesWaiter ==
  \A w \in Waiters : (pc[w] \in {"wait", "sleep"} /\ queue[CallOf(w)] \in Decisions)
                       ~> pc[w] \notin {"wait", "sleep"}

\* A run or a node whose context is done ends, also while it waits for a
\* decision that never comes.
StoppedEnds == \A w \in Waiters : (w \in stopped) ~> (pc[w] = "ended")

\* At autonomy level 0 every tool call requires approval.
ManualAsksFirst == Autonomy = 0 => \A c \in ran : decided[c] = "approved"
=============================================================================

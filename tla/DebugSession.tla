----------------------------- MODULE DebugSession -----------------------------
(***************************************************************************)
(* The workflow debugger: pkg/workflow/debug.go with the debug routes of   *)
(* pkg/api/workflow.go.  An execution walks over its levels and nodes and  *)
(* may stop at each; requests pause it, let it go on or step.  The         *)
(* channels hold one token each; a send to a full channel is dropped.      *)
(* pauseChan is written and never read, and is left out.                   *)
(***************************************************************************)
EXTENDS Naturals, Sequences

CONSTANTS DbgPoints,    \* the stops of an execution, in order: levels and nodes
          DbgLevels,    \* those that are levels
          DbgCallers,   \* concurrent requests
          MaxDbgOps     \* bound on the requests

VARIABLES session,      \* "none", "open", or "gone": not in the manager any more
          breakpoints,  \* node -> "none", "always" or "conditional"
          paused, resumeChan, stepChan,
          dbgCall,      \* what each request still has to do
          dbgPc, dbgPos,
          stepHistory,  \* the stops entered
          executed,     \* the nodes executed
          dbgOps

dbgVars == <<session, breakpoints, paused, resumeChan, stepChan, dbgCall, dbgPc, dbgPos,
             stepHistory, executed, dbgOps>>
walkVars == <<dbgPc, dbgPos, stepHistory, executed>>

Range1(s) == {s[i] : i \in DOMAIN s}
DbgNodes == Range1(DbgPoints) \ DbgLevels

DbgInit ==
  /\ session = "none" /\ breakpoints = [n \in DbgNodes |-> "none"]
  /\ paused = FALSE /\ resumeChan = FALSE /\ stepChan = FALSE
  /\ dbgCall = [c \in DbgCallers |-> "idle"]
  /\ dbgPc = "idle" /\ dbgPos = 0 /\ stepHistory = <<>> /\ executed = <<>> /\ dbgOps = 0

-----------------------------------------------------------------------------
(* The requests; each but the first two answers 404 without the session    *)

Request == session = "open" /\ dbgOps < MaxDbgOps /\ dbgOps' = dbgOps + 1

\* A second start replaces the session an execution runs under.
StartDebug ==
  /\ session # "gone" /\ session' = IF session = "none" THEN "open" ELSE "gone"
  /\ UNCHANGED <<breakpoints, paused, resumeChan, stepChan, dbgCall, dbgOps, walkVars>>

StopDebug ==
  /\ session = "open" /\ session' = "gone"
  /\ UNCHANGED <<breakpoints, paused, resumeChan, stepChan, dbgCall, dbgOps, walkVars>>

AddBreakpoint(n, condition) ==
  /\ Request /\ breakpoints' = [breakpoints EXCEPT ![n] = condition]
  /\ UNCHANGED <<session, paused, resumeChan, stepChan, dbgCall, walkVars>>

RemoveBreakpoint(n) ==
  /\ Request /\ breakpoints' = [breakpoints EXCEPT ![n] = "none"]
  /\ UNCHANGED <<session, paused, resumeChan, stepChan, dbgCall, walkVars>>

PauseDebug ==
  /\ Request /\ paused' = TRUE
  /\ UNCHANGED <<session, breakpoints, resumeChan, stepChan, dbgCall, walkVars>>

\* Resume clears the flag ...
ResumeDebug(c) ==
  /\ dbgCall[c] = "idle" /\ Request
  /\ paused' = FALSE /\ dbgCall' = [dbgCall EXCEPT ![c] = "send"]
  /\ UNCHANGED <<session, breakpoints, resumeChan, stepChan, walkVars>>

\* Mutant: the token is sent only to a session that still is paused.
ResumeSendIfPaused(c) ==
  /\ dbgCall[c] = "send"
  /\ resumeChan' = (resumeChan \/ paused) /\ dbgCall' = [dbgCall EXCEPT ![c] = "idle"]
  /\ UNCHANGED <<session, breakpoints, paused, stepChan, dbgOps, walkVars>>

\* ... and then sends its token.
ResumeSend(c) ==
  /\ dbgCall[c] = "send"
  /\ resumeChan' = TRUE /\ dbgCall' = [dbgCall EXCEPT ![c] = "idle"]
  /\ UNCHANGED <<session, breakpoints, paused, stepChan, dbgOps, walkVars>>

StepOver ==
  /\ Request /\ stepChan' = TRUE
  /\ UNCHANGED <<session, breakpoints, paused, resumeChan, dbgCall, walkVars>>

-----------------------------------------------------------------------------
(* ExecuteDAGWithDebug                                                     *)

Here == DbgPoints[dbgPos]
Arrive(i) == IF i > Len(DbgPoints) THEN "done" ELSE IF DbgPoints[i] \in DbgLevels THEN "enter" ELSE "check"

DbgExecute ==
  /\ session # "none" /\ dbgPc = "idle"
  /\ dbgPos' = 1 /\ dbgPc' = Arrive(1)
  /\ UNCHANGED <<session, breakpoints, paused, resumeChan, stepChan, dbgCall, stepHistory, executed, dbgOps>>

\* ShouldPause: a condition holds, does not, or ends the execution by its error.
ShouldPause(value) ==
  /\ dbgPc = "check"
  /\ dbgPc' = CASE breakpoints[Here] = "none" -> "enter"
                [] breakpoints[Here] = "always" -> "pause"
                [] OTHER -> value
  /\ UNCHANGED <<session, breakpoints, paused, resumeChan, stepChan, dbgCall, dbgPos, stepHistory,
                 executed, dbgOps>>

\* Pause at a breakpoint, and after a step.
PauseHere ==
  /\ dbgPc \in {"pause", "stepped"}
  /\ paused' = TRUE /\ dbgPc' = IF dbgPc = "pause" THEN "enter" ELSE "run"
  /\ UNCHANGED <<session, breakpoints, resumeChan, stepChan, dbgCall, dbgPos, stepHistory, executed, dbgOps>>

\* WaitIfPaused, up to its select.
WaitIfPaused ==
  /\ dbgPc = "enter"
  /\ stepHistory' = Append(stepHistory, Here)
  /\ dbgPc' = IF paused THEN "wait" ELSE "run"
  /\ UNCHANGED <<session, breakpoints, paused, resumeChan, stepChan, dbgCall, dbgPos, executed, dbgOps>>

\* The three cases of the select.
TakeResume ==
  /\ dbgPc = "wait" /\ resumeChan /\ resumeChan' = FALSE /\ dbgPc' = "run"
  /\ UNCHANGED <<session, breakpoints, paused, stepChan, dbgCall, dbgPos, stepHistory, executed, dbgOps>>

TakeStep ==
  /\ dbgPc = "wait" /\ stepChan /\ stepChan' = FALSE /\ dbgPc' = "stepped"
  /\ UNCHANGED <<session, breakpoints, paused, resumeChan, dbgCall, dbgPos, stepHistory, executed, dbgOps>>

DbgCancelled ==
  /\ dbgPc = "wait" /\ dbgPc' = "failed"
  /\ UNCHANGED <<session, breakpoints, paused, resumeChan, stepChan, dbgCall, dbgPos, stepHistory,
                 executed, dbgOps>>

\* The node's result, or on to the nodes of the level.
RunPoint ==
  /\ dbgPc = "run"
  /\ executed' = IF Here \in DbgLevels THEN executed ELSE Append(executed, Here)
  /\ dbgPos' = dbgPos + 1 /\ dbgPc' = Arrive(dbgPos + 1)
  /\ UNCHANGED <<session, breakpoints, paused, resumeChan, stepChan, dbgCall, stepHistory, dbgOps>>

DbgNext ==
  \/ StartDebug \/ StopDebug \/ PauseDebug \/ StepOver
  \/ \E n \in DbgNodes : RemoveBreakpoint(n) \/ \E b \in {"always", "conditional"} : AddBreakpoint(n, b)
  \/ \E c \in DbgCallers : ResumeDebug(c) \/ ResumeSend(c)
  \/ DbgExecute \/ PauseHere \/ WaitIfPaused \/ TakeResume \/ TakeStep \/ DbgCancelled \/ RunPoint
  \/ \E value \in {"pause", "enter", "failed"} : ShouldPause(value)

-----------------------------------------------------------------------------
\* No Resume is lost: an execution that waits although the flag is cleared has a
\* token to take, or a request that is about to send one.  And whatever was
\* paused, stepped or resumed, the nodes were executed in the order of the
\* levels, none twice, none without having been entered.
ResumeNotLost ==
  /\ dbgPc = "wait" /\ ~paused => resumeChan \/ \E c \in DbgCallers : dbgCall[c] = "send"
  /\ stepHistory = SubSeq(DbgPoints, 1, Len(stepHistory))
  /\ executed = SelectSeq(SubSeq(DbgPoints, 1, IF dbgPos = 0 THEN 0 ELSE dbgPos - 1),
                          LAMBDA p : p \notin DbgLevels)
=============================================================================

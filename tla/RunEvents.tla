------------------------------ MODULE RunEvents ------------------------------
(***************************************************************************)
(* What the consumers of a run's events may rely on: the order in which   *)
(* the runner publishes them.  One "init", then at most MaxRetries retry   *)
(* notices (type "reasoning"), then at most one terminal event, and       *)
(* nothing after it.  The SSE stream handler closes a stream on the first  *)
(* terminal event it reads, so it depends on this order.                   *)
(*                                                                         *)
(* Runner.tla implements this specification; EventHub.tla takes it as its  *)
(* publisher.                                                              *)
(***************************************************************************)
EXTENDS Naturals, Sequences, FiniteSets

CONSTANTS Runs,         \* run identifiers
          MaxRetries    \* largest max_retries of a request

VARIABLE log            \* log[r]: the types of the events published for r

EventTypes == {"init", "reasoning", "completed", "error", "interrupted"}

\* The event types on which handleStream returns.
TerminalEvents == {"completed", "error", "interrupted"}

Ended(s) == s # <<>> /\ s[Len(s)] \in TerminalEvents

\* The event types that may follow the sequence s of events of one run.
MayFollow(s, e) ==
    \/ s = <<>> /\ e = "init"
    \/ s # <<>> /\ ~Ended(s) /\ e = "reasoning" /\ Len(s) <= MaxRetries
    \/ s # <<>> /\ ~Ended(s) /\ e \in TerminalEvents

EventsInit == log = [r \in Runs |-> <<>>]

Emit(r, e) == /\ MayFollow(log[r], e)
              /\ log' = [log EXCEPT ![r] = Append(@, e)]

EventsNext == \E r \in Runs, e \in EventTypes : Emit(r, e)

EventsSpec == EventsInit /\ [][EventsNext]_log
=============================================================================

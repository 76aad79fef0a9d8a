------------------------------ MODULE Delegation ------------------------------
(***************************************************************************)
(* Delegation to other agents, pkg/runtime/delegation.go.  A result is     *)
(* stored under an identifier made of a name and the time in whole         *)
(* seconds; an asynchronous delegation makes one for its caller, with the  *)
(* agent's name behind "async-", and another one, later, for the inner     *)
(* run.  The number comes last, so equal identifiers have equal names and  *)
(* equal seconds; but "async-x" may itself be the name of an agent.        *)
(***************************************************************************)
EXTENDS Naturals

CONSTANTS Delegations,   \* calls, each made once
          AgentOf,       \* the agent each one names
          AsyncName,     \* agent |-> its name behind "async-"
          MaxSeconds     \* bound on the clock

ASSUME AsyncNamesDiffer ==
  \A d, e \in Delegations :
    AsyncName[AgentOf[d]] = AsyncName[AgentOf[e]] => AgentOf[d] = AgentOf[e]
ASSUME DelegationNames == "nobody" \notin Delegations /\ "not found" \notin Delegations

VARIABLES second,        \* time.Now().Unix()
          dlg,           \* each call: where it is and the identifiers it made
          results,       \* AgentDelegator.results
          given          \* what GetDelegationResult gave for the identifier of each call

delegVars == <<second, dlg, results, given>>

NoId == <<>>
NoEnd == [state |-> "none", err |-> FALSE]
Answer(of, end) == [of |-> of, state |-> end.state, err |-> end.err]
NotAsked == Answer("nobody", NoEnd)
NoneYet == [pc |-> "idle", async |-> FALSE, id |-> NoId, inner |-> NoId, end |-> NoEnd]
Updated(f, k, v) == [x \in DOMAIN f \cup {k} |-> IF x = k THEN v ELSE f[x]]

DelegInit ==
  /\ second = 0 /\ dlg = [d \in Delegations |-> NoneYet]
  /\ results = [i \in {} |-> NoneYet] /\ given = [d \in Delegations |-> NotAsked]

SecondPasses ==
  /\ second < MaxSeconds /\ second' = second + 1
  /\ UNCHANGED <<dlg, results, given>>

\* DelegateToAgent, up to the run of the child engine; the goroutine of an
\* asynchronous call starts it whenever it is scheduled.
DelegateToAgent(d) ==
  /\ dlg[d].pc \in {"idle", "scheduled"}
  /\ dlg' = [dlg EXCEPT ![d].pc = "running", ![d].inner = <<AgentOf[d], second>>,
                        ![d].id = IF dlg[d].async THEN @ ELSE <<AgentOf[d], second>>]
  /\ UNCHANGED <<second, results, given>>

DelegateToAgentAsync(d) ==
  /\ dlg[d].pc = "idle"
  /\ dlg' = [dlg EXCEPT ![d].pc = "scheduled", ![d].async = TRUE,
                        ![d].id = <<AsyncName[AgentOf[d]], second>>]
  /\ UNCHANGED <<second, results, given>>

\* What childEngine.Run returns; an action of an unknown type fails without an error.
Ends == {[state |-> "completed", err |-> FALSE], [state |-> "failed", err |-> FALSE],
         [state |-> "failed", err |-> TRUE], [state |-> "interrupted", err |-> TRUE]}

\* Mutant: an error too is stored under the inner identifier.
StoreUnderInner(d, end) == dlg[d].inner

\* Where the result of a call goes: under the identifier of the inner run, or, an
\* error of an asynchronous call, under the one its caller has.
StoreUnder(d, end) == IF end.err THEN dlg[d].id ELSE dlg[d].inner

ChildEnds(d, end) ==
  /\ dlg[d].pc = "running"
  /\ dlg' = [dlg EXCEPT ![d].pc = "ended", ![d].end = end]
  /\ results' = IF end.err /\ ~dlg[d].async THEN results
                ELSE Updated(results, StoreUnder(d, end), Answer(d, end))
  /\ UNCHANGED <<second, given>>

\* GetDelegationResult for the identifier a call returned.
GetDelegationResult(d) ==
  /\ dlg[d].id # NoId /\ given[d] = NotAsked
  /\ given' = [given EXCEPT ![d] = IF dlg[d].id \in DOMAIN results
                                   THEN results[dlg[d].id] ELSE Answer("not found", NoEnd)]
  /\ UNCHANGED <<second, dlg, results>>

\* CancelDelegation marks a stored result that is still planning or executing;
\* a stored result is an ended run, so it finds none such.
CancelDelegation(d) ==
  /\ dlg[d].id \in DOMAIN results
  /\ LET r == results[dlg[d].id] IN
     results' = IF r.state \in {"planning", "executing"}
                THEN Updated(results, dlg[d].id, [r EXCEPT !.state = "interrupted"]) ELSE results
  /\ UNCHANGED <<second, dlg, given>>

DelegNext ==
  \/ SecondPasses
  \/ \E d \in Delegations :
       \/ DelegateToAgent(d) \/ DelegateToAgentAsync(d) \/ GetDelegationResult(d) \/ CancelDelegation(d)
       \/ \E end \in Ends : ChildEnds(d, end)

-----------------------------------------------------------------------------
\* What GetDelegationResult finds under the identifier of a call is the outcome of a call
\* that made the same identifier, unchanged by CancelDelegation.  It is of the same agent,
\* unless one of the two agents is named like the other one behind "async-".  An error is
\* one of an asynchronous call, and a synchronous caller finds it only if its agent is
\* named like that call's behind "async-".
ResultBelongs ==
  \A d \in Delegations : given[d].of \in Delegations =>
    LET r == given[d]
        k == r.of
    IN  /\ r = Answer(k, dlg[k].end) /\ dlg[d].id \in {dlg[k].id, dlg[k].inner}
        /\ \/ AgentOf[k] = AgentOf[d]
           \/ AgentOf[k] = AsyncName[AgentOf[d]] \/ AgentOf[d] = AsyncName[AgentOf[k]]
        /\ r.err => dlg[k].async /\ (dlg[d].async \/ AgentOf[d] = AsyncName[AgentOf[k]])
=============================================================================

--------------------------- MODULE DelegationProofs ---------------------------
(***************************************************************************)
(* ResultBelongs for any delegations, agents and clock.                    *)
(*                                                                         *)
(* A result is stored once its call has ended, and an ended call changes   *)
(* no more.  An error is stored under a name behind "async-", the outcome  *)
(* of a run that ended without one under the agent's own name; what a      *)
(* caller finds was stored under the name in its own identifier.           *)
(***************************************************************************)
EXTENDS Delegation, TLAPS

DelegSpec == DelegInit /\ [][DelegNext]_delegVars

Pcs == {"idle", "scheduled", "running", "ended"}
NameOf(d, async) == IF async THEN AsyncName[AgentOf[d]] ELSE AgentOf[d]
MadeIds == {<<NameOf(d, async), t>> : async \in BOOLEAN, d \in Delegations, t \in Nat}
Idents == MadeIds \cup {NoId}
Outcomes == Ends \cup {NoEnd}
Calls == [pc : Pcs, async : BOOLEAN, id : Idents, inner : Idents, end : Outcomes]

\* An identifier with a name.
Made(i, name) == i # NoId /\ i[1] = name

\* What a call has made so far.
CallSound(d, x) ==
  /\ x.pc = "idle" => x.id = NoId /\ ~ x.async
  /\ x.pc = "scheduled" => x.async
  /\ x.async => Made(x.id, NameOf(d, TRUE))
  /\ ~ x.async /\ x.pc # "idle" => x.id = x.inner
  /\ x.pc \in {"running", "ended"} => Made(x.inner, NameOf(d, FALSE))
  /\ x.pc = "ended" => x.end \in Ends

\* What is stored, or was given, under an identifier: the outcome of a call that has
\* ended and made that identifier.
Of(i, r, calls) ==
  /\ r.of \in Delegations /\ calls[r.of].pc = "ended"
  /\ r = Answer(r.of, calls[r.of].end)
  /\ i \in {calls[r.of].id, calls[r.of].inner}
  /\ r.err => calls[r.of].async
  /\ Made(i, NameOf(r.of, r.err))

DelegIInv ==
  /\ second \in Nat
  /\ dlg \in [Delegations -> Calls]
  /\ \A d \in Delegations : CallSound(d, dlg[d])
  /\ \A i \in DOMAIN results : Of(i, results[i], dlg)
  /\ given = [d \in Delegations |-> given[d]]
  /\ \A d \in Delegations :
       given[d].of \in Delegations => dlg[d].id # NoId /\ Of(dlg[d].id, given[d], dlg)

\* An identifier made now.
LEMMA MadeNow ==
  ASSUME NEW d \in Delegations, NEW async \in BOOLEAN, second \in Nat
  PROVE  <<NameOf(d, async), second>> \in Idents /\ Made(<<NameOf(d, async), second>>, NameOf(d, async))
BY DEF Idents, MadeIds, Made, NoId

\* A run that has ended is neither planning nor executing.
LEMMA EndStates ==
  ASSUME NEW e \in Ends
  PROVE  e.err \in BOOLEAN /\ e.state \notin {"planning", "executing"}
<1>1. e.state \notin {"planning", "executing"}
  BY DEF Ends
<1>2. CASE e = [state |-> "completed", err |-> FALSE]
  BY <1>1, <1>2
<1>3. CASE e = [state |-> "failed", err |-> FALSE]
  BY <1>1, <1>3
<1>4. CASE e = [state |-> "failed", err |-> TRUE]
  BY <1>1, <1>4
<1>5. CASE e = [state |-> "interrupted", err |-> TRUE]
  BY <1>1, <1>5
<1> QED
  BY <1>2, <1>3, <1>4, <1>5 DEF Ends

\* Nothing is delegated, stored or asked for at first.
LEMMA DelegStart == DelegInit => DelegIInv
<1> SUFFICES ASSUME DelegInit PROVE DelegIInv
  OBVIOUS
<1>1. NoneYet \in Calls
  BY DEF NoneYet, Calls, Pcs, Outcomes, Idents
<1>2. \A d \in Delegations : CallSound(d, NoneYet)
  BY DEF CallSound, NoneYet
<1>3. NotAsked.of = "nobody"
  BY DEF NotAsked, Answer
<1> QED
  BY <1>1, <1>2, <1>3, DelegationNames DEF DelegInit, DelegIInv

\* A step of one call that had not ended: nothing stored or given is about it, and what
\* was given to it stays under the identifier it has.
LEMMA CallMoves ==
  ASSUME DelegIInv, NEW d \in Delegations, dlg[d].pc # "ended", NEW x \in Calls,
         dlg' = [dlg EXCEPT ![d] = x], CallSound(d, x), dlg[d].id # NoId => x.id = dlg[d].id,
         UNCHANGED <<second, given>>,
         \A i \in DOMAIN results' :
           \/ i \in DOMAIN results /\ results'[i] = results[i]
           \/ Of(i, results'[i], dlg')
  PROVE  DelegIInv'
<1>1. /\ dlg' \in [Delegations -> Calls] /\ dlg'[d] = x
      /\ \A e \in Delegations \ {d} : dlg'[e] = dlg[e]
  BY DEF DelegIInv
<1>2. \A e \in Delegations : CallSound(e, dlg'[e])
  BY <1>1 DEF DelegIInv
<1>3. ASSUME NEW i, NEW r, Of(i, r, dlg) PROVE Of(i, r, dlg')
  <2>1. r.of \in Delegations \ {d}
    BY <1>3 DEF Of
  <2> QED
    BY <1>1, <1>3, <2>1 DEF Of
<1>4. \A i \in DOMAIN results' : Of(i, results'[i], dlg')
  BY <1>3 DEF DelegIInv
<1>5. ASSUME NEW e \in Delegations, given'[e].of \in Delegations
      PROVE  dlg'[e].id # NoId /\ Of(dlg'[e].id, given'[e], dlg')
  <2>1. dlg[e].id # NoId /\ Of(dlg[e].id, given[e], dlg)
    BY <1>5 DEF DelegIInv
  <2>2. dlg'[e].id = dlg[e].id
    BY <1>1, <2>1
  <2> QED
    BY <1>3, <2>1, <2>2
<1> QED
  BY <1>1, <1>2, <1>4, <1>5 DEF DelegIInv

\* Starting a call, or the inner run of an asynchronous one.
LEMMA DelegateKeeps ==
  ASSUME DelegIInv, NEW d \in Delegations, DelegateToAgent(d) \/ DelegateToAgentAsync(d)
  PROVE  DelegIInv'
<1>0. /\ dlg \in [Delegations -> Calls] /\ dlg[d] \in Calls /\ CallSound(d, dlg[d])
      /\ second \in Nat
  BY DEF DelegIInv
<1>1. CASE DelegateToAgent(d)
  <2> DEFINE now == <<AgentOf[d], second>>
             made == IF dlg[d].async THEN dlg[d].id ELSE now
             x == [pc |-> "running", async |-> dlg[d].async, id |-> made, inner |-> now,
                   end |-> dlg[d].end]
  <2>1. /\ dlg[d].pc \in {"idle", "scheduled"} /\ UNCHANGED <<second, results, given>>
        /\ dlg' = [dlg EXCEPT ![d] = [dlg[d] EXCEPT !.pc = "running", !.inner = now, !.id = made]]
    BY <1>1 DEF DelegateToAgent
  <2>2. now \in Idents /\ Made(now, NameOf(d, FALSE))
    <3>1. now = <<NameOf(d, FALSE), second>>
      BY DEF NameOf
    <3> QED
      BY <1>0, <3>1, MadeNow
  <2> HIDE DEF now
  <2>3. made \in Idents
    BY <1>0, <2>2 DEF Calls
  <2>4. dlg' = [dlg EXCEPT ![d] = x]
    <3> HIDE DEF made
    <3>1. dlg'[d] = [dlg[d] EXCEPT !.pc = "running", !.inner = now, !.id = made]
      BY <1>0, <2>1
    <3>2. dlg'[d] = x
      <4> DEFINE c == dlg[d]
                 y == dlg'[d]
      <4>1. c \in Calls /\ y = [c EXCEPT !.pc = "running", !.inner = now, !.id = made]
        BY <1>0, <3>1
      <4> HIDE DEF c, y
      <4>2. y = [pc |-> "running", async |-> c.async, id |-> made, inner |-> now, end |-> c.end]
        BY <4>1 DEF Calls
      <4> QED
        BY <4>2 DEF c, y
    <3> HIDE DEF x
    <3> QED
      BY <1>0, <2>1, <3>1, <3>2
  <2>5. x \in Calls
    <3> HIDE DEF made
    <3> QED
      BY <1>0, <2>2, <2>3 DEF Calls, Pcs
  <2>6. CallSound(d, x) /\ (dlg[d].id # NoId => x.id = dlg[d].id)
    BY <1>0, <2>1, <2>2 DEF CallSound
  <2> HIDE DEF x
  <2> QED
    BY <2>1, <2>4, <2>5, <2>6, CallMoves
<1>2. CASE DelegateToAgentAsync(d)
  <2> DEFINE now == <<AsyncName[AgentOf[d]], second>>
             x == [pc |-> "scheduled", async |-> TRUE, id |-> now, inner |-> dlg[d].inner,
                   end |-> dlg[d].end]
  <2>1. /\ dlg[d].pc = "idle" /\ UNCHANGED <<second, results, given>>
        /\ dlg' = [dlg EXCEPT ![d] = [dlg[d] EXCEPT !.pc = "scheduled", !.async = TRUE, !.id = now]]
    BY <1>2 DEF DelegateToAgentAsync
  <2>2. now \in Idents /\ Made(now, NameOf(d, TRUE))
    <3>1. now = <<NameOf(d, TRUE), second>>
      BY DEF NameOf
    <3> QED
      BY <1>0, <3>1, MadeNow
  <2> HIDE DEF now
  <2>3. dlg' = [dlg EXCEPT ![d] = x]
    <3>1. dlg'[d] = [dlg[d] EXCEPT !.pc = "scheduled", !.async = TRUE, !.id = now]
      BY <1>0, <2>1
    <3>2. dlg'[d] = x
      <4> DEFINE c == dlg[d]
                 y == dlg'[d]
      <4>1. c \in Calls /\ y = [c EXCEPT !.pc = "scheduled", !.async = TRUE, !.id = now]
        BY <1>0, <3>1
      <4> HIDE DEF c, y
      <4>2. y = [pc |-> "scheduled", async |-> TRUE, id |-> now, inner |-> c.inner, end |-> c.end]
        BY <4>1 DEF Calls
      <4> QED
        BY <4>2 DEF c, y
    <3> HIDE DEF x
    <3> QED
      BY <1>0, <2>1, <3>1, <3>2
  <2>4. x \in Calls
    BY <1>0, <2>2 DEF Calls, Pcs
  <2>5. CallSound(d, x) /\ (dlg[d].id # NoId => x.id = dlg[d].id)
    BY <1>0, <2>1, <2>2 DEF CallSound
  <2> HIDE DEF x
  <2> QED
    BY <2>1, <2>3, <2>4, <2>5, CallMoves
<1> QED
  BY <1>1, <1>2

\* The end of the child's run: an error is stored only for an asynchronous caller, under
\* the caller's identifier, anything else under the inner one.
LEMMA EndKeeps ==
  ASSUME DelegIInv, NEW d \in Delegations, NEW end \in Ends, ChildEnds(d, end)
  PROVE  DelegIInv'
<1> DEFINE x == [pc |-> "ended", async |-> dlg[d].async, id |-> dlg[d].id,
                 inner |-> dlg[d].inner, end |-> end]
           under == StoreUnder(d, end)
<1>0. /\ dlg \in [Delegations -> Calls] /\ dlg[d] \in Calls /\ CallSound(d, dlg[d])
  BY DEF DelegIInv
<1>1. /\ dlg[d].pc = "running" /\ UNCHANGED <<second, given>>
      /\ dlg' = [dlg EXCEPT ![d] = [dlg[d] EXCEPT !.pc = "ended", !.end = end]]
      /\ results' = IF end.err /\ ~dlg[d].async THEN results
                    ELSE Updated(results, under, Answer(d, end))
  BY DEF ChildEnds
<1>2. dlg' = [dlg EXCEPT ![d] = x]
  <2>1. dlg'[d] = [dlg[d] EXCEPT !.pc = "ended", !.end = end]
    BY <1>0, <1>1
  <2>2. dlg'[d] = x
    <3> DEFINE c == dlg[d]
               y == dlg'[d]
    <3>1. c \in Calls /\ y = [c EXCEPT !.pc = "ended", !.end = end]
      BY <1>0, <2>1
    <3> HIDE DEF c, y
    <3>2. y = [pc |-> "ended", async |-> c.async, id |-> c.id, inner |-> c.inner, end |-> end]
      BY <3>1 DEF Calls
    <3> QED
      BY <3>2 DEF c, y
  <2> HIDE DEF x
  <2> QED
    BY <1>0, <1>1, <2>1, <2>2
<1>3. x \in Calls
  BY <1>0 DEF Calls, Pcs, Outcomes
<1>4. /\ CallSound(d, x) /\ x.id = dlg[d].id /\ x.inner = dlg[d].inner /\ x.pc = "ended"
      /\ x.end = end /\ x.async = dlg[d].async
  BY <1>0, <1>1 DEF CallSound
<1> HIDE DEF x
<1>5. dlg'[d] = x
  BY <1>0, <1>2
<1>6. ~ (end.err /\ ~dlg[d].async) => Of(under, Answer(d, end), dlg')
  <2> SUFFICES ASSUME ~ (end.err /\ ~dlg[d].async) PROVE Of(under, Answer(d, end), dlg')
    OBVIOUS
  <2>1. Answer(d, end).of = d /\ Answer(d, end).err = end.err
    BY DEF Answer
  <2>2. Made(under, NameOf(d, end.err))
    BY <1>0, <1>1 DEF StoreUnder, CallSound, NameOf
  <2>3. under \in {x.id, x.inner}
    BY <1>4 DEF StoreUnder
  <2> QED
    BY <1>4, <1>5, <2>1, <2>2, <2>3 DEF Of
<1>7. \A i \in DOMAIN results' :
        \/ i \in DOMAIN results /\ results'[i] = results[i]
        \/ Of(i, results'[i], dlg')
  <2>1. CASE end.err /\ ~dlg[d].async
    BY <1>1, <2>1
  <2>2. CASE ~ (end.err /\ ~dlg[d].async)
    <3>1. results' = [i \in DOMAIN results \cup {under} |->
                        IF i = under THEN Answer(d, end) ELSE results[i]]
      BY <1>1, <2>2 DEF Updated
    <3> HIDE DEF under
    <3> QED
      BY <1>6, <2>2, <3>1
  <2> QED
    BY <2>1, <2>2
<1>8. dlg[d].pc # "ended"
  BY <1>1
<1> QED
  BY <1>1, <1>2, <1>3, <1>4, <1>7, <1>8, CallMoves

\* A stored result is of an ended run, so CancelDelegation finds nothing to interrupt.
LEMMA CancelKeeps ==
  ASSUME DelegIInv, NEW d \in Delegations, CancelDelegation(d)
  PROVE  UNCHANGED delegVars
<1> DEFINE r == results[dlg[d].id]
<1>1. Of(dlg[d].id, r, dlg)
  BY DEF CancelDelegation, DelegIInv
<1>2. dlg[r.of].end \in Ends /\ r = Answer(r.of, dlg[r.of].end)
  BY <1>1 DEF Of, DelegIInv, CallSound
<1>3. r.state \notin {"planning", "executing"}
  <2> DEFINE e == dlg[r.of].end
  <2>1. e.state \notin {"planning", "executing"}
    BY <1>2, EndStates
  <2>2. r.state = e.state
    <3> DEFINE o == r.of
    <3>1. r = [of |-> o, state |-> e.state, err |-> e.err]
      BY <1>2 DEF Answer
    <3> HIDE DEF r, e, o
    <3> QED
      BY <3>1
  <2> HIDE DEF r, e
  <2> QED
    BY <2>1, <2>2
<1> QED
  BY <1>3 DEF CancelDelegation, delegVars

\* GetDelegationResult gives what is stored under the identifier.
LEMMA GetKeeps ==
  ASSUME DelegIInv, NEW d \in Delegations, GetDelegationResult(d)
  PROVE  DelegIInv'
<1>1. /\ dlg[d].id # NoId /\ UNCHANGED <<second, dlg, results>>
      /\ given' = [given EXCEPT ![d] = IF dlg[d].id \in DOMAIN results
                                       THEN results[dlg[d].id] ELSE Answer("not found", NoEnd)]
  BY DEF GetDelegationResult
<1>2. /\ given' = [e \in Delegations |-> given'[e]]
      /\ given'[d] = IF dlg[d].id \in DOMAIN results
                     THEN results[dlg[d].id] ELSE Answer("not found", NoEnd)
      /\ \A e \in Delegations \ {d} : given'[e] = given[e]
  BY <1>1 DEF DelegIInv
<1>3. Answer("not found", NoEnd).of \notin Delegations
  BY DelegationNames DEF Answer
<1>4. given'[d].of \in Delegations => Of(dlg[d].id, given'[d], dlg)
  BY <1>2, <1>3 DEF DelegIInv
<1> QED
  BY <1>1, <1>2, <1>4 DEF DelegIInv

\* ResultBelongs for all delegations and agents: what GetDelegationResult gives is the
\* outcome of a call that made the same identifier, to the same agent or to one whose name
\* differs by "async-", and an error only of an asynchronous call.
THEOREM ResultsBelong == DelegSpec => []ResultBelongs
<1>1. DelegIInv /\ [DelegNext]_delegVars => DelegIInv'
  <2> SUFFICES ASSUME DelegIInv, [DelegNext]_delegVars PROVE DelegIInv'
    OBVIOUS
  <2>1. CASE UNCHANGED delegVars
    BY <2>1 DEF delegVars, DelegIInv
  <2>2. CASE SecondPasses
    BY <2>2 DEF SecondPasses, DelegIInv
  <2>3. ASSUME NEW d \in Delegations, DelegateToAgent(d) \/ DelegateToAgentAsync(d)
        PROVE  DelegIInv'
    BY <2>3, DelegateKeeps
  <2>4. ASSUME NEW d \in Delegations, GetDelegationResult(d)
        PROVE  DelegIInv'
    BY <2>4, GetKeeps
  <2>5. ASSUME NEW d \in Delegations, CancelDelegation(d)
        PROVE  DelegIInv'
    BY <2>1, <2>5, CancelKeeps
  <2>6. ASSUME NEW d \in Delegations, NEW end \in Ends, ChildEnds(d, end)
        PROVE  DelegIInv'
    BY <2>6, EndKeeps
  <2> QED
    BY <2>1, <2>2, <2>3, <2>4, <2>5, <2>6 DEF DelegNext
<1>2. DelegIInv => ResultBelongs
  <2> SUFFICES ASSUME DelegIInv, NEW d \in Delegations, given[d].of \in Delegations
               PROVE  LET r == given[d]
                          k == r.of
                      IN  /\ r = Answer(k, dlg[k].end) /\ dlg[d].id \in {dlg[k].id, dlg[k].inner}
                          /\ \/ AgentOf[k] = AgentOf[d]
                             \/ AgentOf[k] = AsyncName[AgentOf[d]]
                             \/ AgentOf[d] = AsyncName[AgentOf[k]]
                          /\ r.err => /\ dlg[k].async
                                      /\ dlg[d].async \/ AgentOf[d] = AsyncName[AgentOf[k]]
    BY DEF ResultBelongs
  <2> DEFINE r == given[d]
             k == r.of
  <2>1. Of(dlg[d].id, r, dlg) /\ dlg[d].id # NoId
    BY DEF DelegIInv
  <2>2. dlg[d] \in Calls /\ CallSound(d, dlg[d])
    BY DEF DelegIInv
  <2>3. Made(dlg[d].id, NameOf(d, dlg[d].async))
    BY <2>1, <2>2 DEF CallSound, Calls, Pcs, NameOf
  <2>4. Made(dlg[d].id, NameOf(k, r.err)) /\ k \in Delegations
    BY <2>1 DEF Of
  <2>5. r.err \in BOOLEAN /\ dlg[d].async \in BOOLEAN
    <3>1. dlg[r.of].end \in Ends /\ r = Answer(r.of, dlg[r.of].end)
      BY <2>1 DEF Of, DelegIInv, CallSound
    <3> QED
      BY <2>2, <3>1, EndStates DEF Answer, Calls
  <2>6. NameOf(d, dlg[d].async) = NameOf(k, r.err)
    BY <2>3, <2>4 DEF Made
  <2>7. \/ AgentOf[k] = AgentOf[d]
        \/ AgentOf[k] = AsyncName[AgentOf[d]] \/ AgentOf[d] = AsyncName[AgentOf[k]]
    BY <2>4, <2>5, <2>6, AsyncNamesDiffer DEF NameOf
  <2>8. r.err => dlg[d].async \/ AgentOf[d] = AsyncName[AgentOf[k]]
    BY <2>5, <2>6 DEF NameOf
  <2> QED
    BY <2>1, <2>7, <2>8 DEF Of
<1> QED
  BY <1>1, <1>2, DelegStart, PTL DEF DelegSpec
=============================================================================

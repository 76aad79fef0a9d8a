------------------------- MODULE RunnerWorkerProofs -------------------------
(***************************************************************************)
(* The steps of one worker on the run it executes keep the inductive       *)
(* invariant IInv of Runner.  First what a step leaves alone (SameRun,     *)
(* SameWorker and their frame lemmas), then one lemma per action.          *)
(***************************************************************************)
EXTENDS Runner, TLAPS

\* What dequeuing does to a sequence.
LEMMA TailFacts ==
  ASSUME NEW S, NEW s \in Seq(S), s # <<>>
  PROVE  /\ Head(s) \in S /\ Head(s) = s[1] /\ 1 \in DOMAIN s
         /\ Tail(s) \in Seq(S) /\ Len(Tail(s)) = Len(s) - 1
         /\ \A i \in DOMAIN Tail(s) :
              i \in Nat /\ i # 0 /\ i + 1 \in DOMAIN s /\ Tail(s)[i] = s[i + 1]
OBVIOUS

\* What enqueuing and publishing do to a sequence.
LEMMA AppendFacts ==
  ASSUME NEW S, NEW s \in Seq(S), NEW e \in S
  PROVE  /\ Append(s, e) \in Seq(S) /\ Append(s, e) # <<>>
         /\ Len(s) \in Nat /\ Len(Append(s, e)) = Len(s) + 1
         /\ DOMAIN s = 1..Len(s) /\ DOMAIN Append(s, e) = 1..(Len(s) + 1)
         /\ \A i \in DOMAIN s : Append(s, e)[i] = s[i]
         /\ Append(s, e)[Len(s) + 1] = e
OBVIOUS

\* What an invariant may say of run q and of worker v is as before.
SameRun(q) == /\ published'[q] = published[q]
              /\ stored'[q] = stored[q]
              /\ row'[q] = row[q]
              /\ deadLetters'[q] = deadLetters[q]
              /\ callbacks'[q] = callbacks[q]
              /\ ingress'[q] = ingress[q]
              /\ retries'[q] = retries[q]

SameWorker(v) == /\ wpc'[v] = wpc[v]
                 /\ wrun'[v] = wrun[v]
                 /\ attempt'[v] = attempt[v]
                 /\ verdict'[v] = verdict[v]
                 /\ v \in persistDone => v \in persistDone'

\* A run that nothing touches stays fresh.
LEMMA FreshFrame ==
  ASSUME NEW q \in Runs, SameRun(q), Fresh(q) PROVE Fresh(q)'
BY DEF SameRun, Fresh

\* What a run shows to the outside is kept by steps that do not touch it.
LEMMA RunFrame ==
  ASSUME NEW q \in Runs, SameRun(q), RunInv(q) PROVE RunInv(q)'
<1>1. EventsInOrder(q)'
  BY DEF SameRun, RunInv, EventsInOrder
<1>2. BuriedRunFailed(q)'
  BY DEF SameRun, RunInv, BuriedRunFailed, LastEvent
<1>3. CalledBackOnce(q)'
  BY DEF SameRun, RunInv, CalledBackOnce, LastEvent
<1>4. StoredMatchesRow(q)'
  BY DEF SameRun, RunInv, StoredMatchesRow
<1> QED
  BY <1>1, <1>2, <1>3, <1>4 DEF RunInv

\* A worker that does not move, with a run that nothing touches, keeps its
\* part of the invariant.
LEMMA WorkerFrame ==
  ASSUME NEW v \in Workers, WorkerInv(v), SameWorker(v),
         wrun[v] # NoRun => SameRun(wrun[v])
  PROVE  WorkerInv(v)'
<1>1. CASE wrun[v] = NoRun
  BY <1>1 DEF WorkerInv, SameWorker
<1>2. CASE wrun[v] # NoRun
  BY <1>2 DEF WorkerInv, SameWorker, SameRun, Fresh, Started, Announced, LastEvent
<1> QED
  BY <1>1, <1>2

\* A step of worker w on its run r that keeps the queue and the handlers.
LEMMA WorkerStepKeepsIInv ==
  ASSUME IInv, NEW w \in Workers, NEW r \in Runs, wrun[w] = r,
         UNCHANGED <<ingress, retries, queue>>,
         wrun'[w] \in {r, NoRun},
         \A v \in Workers : v # w => SameWorker(v),
         \A q \in Runs : q # r => SameRun(q),
         TypeOK', WorkerInv(w)', RunInv(r)'
  PROVE  IInv'
<1> USE RunnerAssumption
<1>0. WorkerInv(w) /\ OnePlace /\ queue \in Seq(Runs) /\ r # NoRun
  BY DEF IInv, TypeOK
<1>1. /\ ingress[r] = "accepted"
      /\ \A i \in DOMAIN queue : queue[i] \in Runs /\ queue[i] # r /\ queue[i] # NoRun
  <2>1. ingress[r] = "accepted"
    BY <1>0 DEF WorkerInv
  <2>2. ASSUME NEW i \in DOMAIN queue
        PROVE  queue[i] \in Runs /\ queue[i] # r /\ queue[i] # NoRun
    BY <1>0 DEF OnePlace
  <2> QED
    BY <2>1, <2>2
<1>2. ASSUME NEW v \in Workers, v # w PROVE wrun'[v] = wrun[v] /\ wrun[v] # r
  BY <1>2 DEF IInv, OnePlace, SameWorker
<1>3. OnePlace'
  <2>1. (\A v, x \in Workers : wrun[v] = wrun[x] /\ wrun[v] # NoRun => v = x)'
    BY <1>0, <1>2 DEF OnePlace
  <2>2. (\A i \in DOMAIN queue, v \in Workers : wrun[v] # queue[i])'
    BY <1>0, <1>1, <1>2 DEF OnePlace
  <2> QED
    BY <1>0, <2>1, <2>2 DEF OnePlace
<1>4. (\A q \in Runs : ingress[q] \in BeforeQueue => Fresh(q))'
  BY <1>1, FreshFrame DEF IInv, BeforeQueue
<1>5. (\A i \in DOMAIN queue : ingress[queue[i]] = "accepted" /\ Fresh(queue[i]))'
  BY <1>1, FreshFrame DEF IInv
<1>6. ASSUME NEW v \in Workers PROVE WorkerInv(v)'
  <2>1. CASE v # w
    <3>1. wrun[v] # NoRun => SameRun(wrun[v])
      BY <2>1, <1>2 DEF IInv, TypeOK
    <3> QED
      BY <2>1, <3>1, WorkerFrame DEF IInv
  <2> QED
    BY <2>1
<1>7. \A q \in Runs : RunInv(q)'
  BY RunFrame DEF IInv
<1> QED
  BY <1>3, <1>4, <1>5, <1>6, <1>7 DEF IInv

\* A worker that is not idle executes a run.
LEMMA BusyWorker ==
  ASSUME IInv, NEW w \in Workers, wpc[w] # "idle"
  PROVE  /\ wrun[w] \in Runs /\ WorkerInv(w) /\ RunInv(wrun[w])
         /\ published[wrun[w]] \in Seq(EventTypes)
<1> USE RunnerAssumption
<1>1. WorkerInv(w) /\ wrun[w] \in Runs \cup {NoRun}
  BY DEF IInv, TypeOK
<1>2. wrun[w] \in Runs
  BY <1>1 DEF WorkerInv
<1> QED
  BY <1>1, <1>2 DEF IInv, TypeOK

\* Registering the cancel function moves the worker and nothing else.
LEMMA SetRunCancelStep ==
  ASSUME IInv, NEW w \in Workers, SetRunCancel(w) PROVE IInv'
<1> USE RunnerAssumption
<1>0. TypeOK
  BY DEF IInv
<1> DEFINE r == wrun[w]
<1>1. r \in Runs /\ WorkerInv(w) /\ RunInv(r) /\ wrun' = wrun
  BY BusyWorker DEF SetRunCancel, Goto
<1>2. UNCHANGED <<ingress, retries, queue>> /\ \A q \in Runs : SameRun(q)
  BY DEF SetRunCancel, SameRun, ingressVars, storeVars, outVars
<1>3. \A v \in Workers : v # w => SameWorker(v)
  BY <1>0 DEF SetRunCancel, Goto, SameWorker, TypeOK
<1>4. TypeOK'
  BY <1>0, <1>1 DEF SetRunCancel, Goto, TypeOK, WorkerInv, PCs, Errors, Verdicts, ingressVars, storeVars, outVars
<1>5. WorkerInv(w)'
  BY <1>0, <1>1, <1>2 DEF SetRunCancel, Goto, TypeOK, WorkerInv, SameRun, Fresh, Started, LastEvent, Verdicts
<1>6. RunInv(r)'
  BY <1>1, <1>2, RunFrame
<1> HIDE DEF r
<1> QED
  BY <1>1, <1>2, <1>3, <1>4, <1>5, <1>6, WorkerStepKeepsIInv DEF r

\* An attempt that succeeds decides "completed".
LEMMA AttemptSucceedsStep ==
  ASSUME IInv, NEW w \in Workers, AttemptSucceeds(w) PROVE IInv'
<1> USE RunnerAssumption
<1>0. TypeOK
  BY DEF IInv
<1> DEFINE r == wrun[w]
<1>1. r \in Runs /\ WorkerInv(w) /\ RunInv(r) /\ wrun' = wrun
  BY BusyWorker DEF AttemptSucceeds, Goto
<1>2. UNCHANGED <<ingress, retries, queue>> /\ \A q \in Runs : SameRun(q)
  BY DEF AttemptSucceeds, SameRun, ingressVars, storeVars, outVars
<1>3. \A v \in Workers : v # w => SameWorker(v)
  BY <1>0 DEF AttemptSucceeds, Goto, SameWorker, TypeOK
<1>4. TypeOK'
  BY <1>0, <1>1 DEF AttemptSucceeds, Goto, TypeOK, WorkerInv, PCs, Errors, Verdicts, ingressVars, storeVars, outVars
<1>5. WorkerInv(w)'
  BY <1>0, <1>1, <1>2 DEF AttemptSucceeds, Goto, TypeOK, WorkerInv, SameRun, Fresh, Started, LastEvent, Verdicts
<1>6. RunInv(r)'
  BY <1>1, <1>2, RunFrame
<1> HIDE DEF r
<1> QED
  BY <1>1, <1>2, <1>3, <1>4, <1>5, <1>6, WorkerStepKeepsIInv DEF r

\* An attempt that fails for good leaves its error.
LEMMA AttemptFailsStep ==
  ASSUME IInv, NEW w \in Workers, AttemptFails(w) PROVE IInv'
<1> USE RunnerAssumption
<1>0. TypeOK
  BY DEF IInv
<1> DEFINE r == wrun[w]
<1>1. r \in Runs /\ WorkerInv(w) /\ RunInv(r) /\ wrun' = wrun
  BY BusyWorker DEF AttemptFails, Goto
<1>2. UNCHANGED <<ingress, retries, queue>> /\ \A q \in Runs : SameRun(q)
  BY DEF AttemptFails, SameRun, ingressVars, storeVars, outVars
<1>3. \A v \in Workers : v # w => SameWorker(v)
  BY <1>0 DEF AttemptFails, Goto, SameWorker, TypeOK
<1>4. TypeOK'
  BY <1>0, <1>1, SMTT(20) DEF AttemptFails, Goto, TypeOK, WorkerInv, PCs, Errors, Verdicts, ingressVars, storeVars, outVars
<1>5. WorkerInv(w)'
  BY <1>0, <1>1, <1>2, SMTT(30) DEF AttemptFails, Goto, TypeOK, WorkerInv, SameRun, Fresh, Started, LastEvent, Verdicts
<1>6. RunInv(r)'
  BY <1>1, <1>2, RunFrame
<1> HIDE DEF r
<1> QED
  BY <1>1, <1>2, <1>3, <1>4, <1>5, <1>6, WorkerStepKeepsIInv DEF r

\* After the backoff the next attempt is within the limit.
LEMMA BackoffElapsesStep ==
  ASSUME IInv, NEW w \in Workers, BackoffElapses(w) PROVE IInv'
<1> USE RunnerAssumption
<1>0. TypeOK
  BY DEF IInv
<1> DEFINE r == wrun[w]
<1>1. r \in Runs /\ WorkerInv(w) /\ RunInv(r) /\ wrun' = wrun
  BY BusyWorker DEF BackoffElapses, Goto
<1>2. UNCHANGED <<ingress, retries, queue>> /\ \A q \in Runs : SameRun(q)
  BY DEF BackoffElapses, SameRun, ingressVars, storeVars, outVars
<1>3. \A v \in Workers : v # w => SameWorker(v)
  BY <1>0 DEF BackoffElapses, Goto, SameWorker, TypeOK
<1>4. TypeOK'
  BY <1>0, <1>1, SMTT(20) DEF BackoffElapses, Goto, TypeOK, WorkerInv, PCs, Errors, Verdicts, ingressVars, storeVars, outVars
<1>5. WorkerInv(w)'
  BY <1>0, <1>1, <1>2, SMTT(30) DEF BackoffElapses, Goto, TypeOK, WorkerInv, SameRun, Fresh, Started, LastEvent, Verdicts
<1>6. RunInv(r)'
  BY <1>1, <1>2, RunFrame
<1> HIDE DEF r
<1> QED
  BY <1>1, <1>2, <1>3, <1>4, <1>5, <1>6, WorkerStepKeepsIInv DEF r

\* A cancelled backoff ends the attempts.
LEMMA BackoffAbortsStep ==
  ASSUME IInv, NEW w \in Workers, BackoffAborts(w) PROVE IInv'
<1> USE RunnerAssumption
<1>0. TypeOK
  BY DEF IInv
<1> DEFINE r == wrun[w]
<1>1. r \in Runs /\ WorkerInv(w) /\ RunInv(r) /\ wrun' = wrun
  BY BusyWorker, SMTT(20) DEF BackoffAborts, Goto
<1>2. UNCHANGED <<ingress, retries, queue>> /\ \A q \in Runs : SameRun(q)
  BY DEF BackoffAborts, SameRun, ingressVars, storeVars, outVars
<1>3. \A v \in Workers : v # w => SameWorker(v)
  BY <1>0 DEF BackoffAborts, Goto, SameWorker, TypeOK
<1>4. TypeOK'
  BY <1>0, <1>1, SMTT(20) DEF BackoffAborts, Goto, TypeOK, WorkerInv, PCs, Errors, Verdicts, ingressVars, storeVars, outVars
<1>5. WorkerInv(w)'
  BY <1>0, <1>1, <1>2, SMTT(30) DEF BackoffAborts, Goto, TypeOK, WorkerInv, SameRun, Fresh, Started, LastEvent, Verdicts
<1>6. RunInv(r)'
  BY <1>1, <1>2, RunFrame
<1> HIDE DEF r
<1> QED
  BY <1>1, <1>2, <1>3, <1>4, <1>5, <1>6, WorkerStepKeepsIInv DEF r

\* The verdict is one of the terminal states.
LEMMA DecideStep ==
  ASSUME IInv, NEW w \in Workers, Decide(w) PROVE IInv'
<1> USE RunnerAssumption
<1>0. TypeOK
  BY DEF IInv
<1> DEFINE r == wrun[w]
<1>1. r \in Runs /\ WorkerInv(w) /\ RunInv(r) /\ wrun' = wrun
  BY BusyWorker DEF Decide, Goto
<1>2. UNCHANGED <<ingress, retries, queue>> /\ \A q \in Runs : SameRun(q)
  BY DEF Decide, SameRun, ingressVars, storeVars, outVars
<1>3. \A v \in Workers : v # w => SameWorker(v)
  BY <1>0 DEF Decide, Goto, SameWorker, TypeOK
<1>4. TypeOK'
  BY <1>0, <1>1, SMTT(20) DEF Decide, Goto, TypeOK, WorkerInv, PCs, Errors, Verdicts, ingressVars, storeVars, outVars
<1>5. WorkerInv(w)'
  BY <1>0, <1>1, <1>2, SMTT(30) DEF Decide, Goto, TypeOK, WorkerInv, SameRun, Fresh, Started, LastEvent, Verdicts
<1>6. RunInv(r)'
  BY <1>1, <1>2, RunFrame
<1> HIDE DEF r
<1> QED
  BY <1>1, <1>2, <1>3, <1>4, <1>5, <1>6, WorkerStepKeepsIInv DEF r

\* The row of a fresh run becomes "running", or stays.
LEMMA SaveRunningStep ==
  ASSUME IInv, NEW w \in Workers, SaveRunning(w) PROVE IInv'
<1> USE RunnerAssumption
<1>0. TypeOK
  BY DEF IInv
<1>1. PICK r \in Runs : r = wrun[w] /\ WorkerInv(w) /\ RunInv(r) /\ published[r] \in Seq(EventTypes)
  BY BusyWorker DEF SaveRunning, Goto
<1>2. UNCHANGED <<ingress, retries, queue>> /\ \A q \in Runs : q # r => SameRun(q)
  BY <1>0, <1>1 DEF SaveRunning, SameRun, TrySaveRun, SaveRun, TypeOK, ingressVars, outVars
<1>3. \A v \in Workers : v # w => SameWorker(v)
  BY <1>0 DEF SaveRunning, Goto, SameWorker, TypeOK
<1>4. TypeOK'
  <2>0. row' = row \/ row' = [row EXCEPT ![r] = "running"]
    BY <1>1 DEF SaveRunning, TrySaveRun, SaveRun
  <2>1. row' \in [Runs -> RowStates]
    BY <1>0, <2>0, Zenon DEF TypeOK, RowStates
  <2>2. wpc' \in [Workers -> PCs]
    BY <1>0 DEF SaveRunning, Goto, TypeOK, PCs
  <2> QED
    BY <1>0, <2>1, <2>2, Zenon DEF SaveRunning, TypeOK, ingressVars, storeVars, outVars
<1>5. WorkerInv(w)'
  BY <1>0, <1>1, <1>2 DEF SaveRunning, Goto, TrySaveRun, SaveRun, TypeOK, WorkerInv, Fresh, Verdicts, outVars
<1>6. RunInv(r)'
  BY <1>0, <1>1, <1>2
  DEF SaveRunning, Goto, TrySaveRun, SaveRun, TypeOK, WorkerInv, RunInv, EventsInOrder, BuriedRunFailed, CalledBackOnce, StoredMatchesRow,
      Fresh, TerminalEvent, TerminalEvents, Verdicts, outVars
<1>7. wrun'[w] \in {r, NoRun}
  BY <1>0, <1>1 DEF SaveRunning, TypeOK
<1> QED
  BY <1>1, <1>2, <1>3, <1>4, <1>5, <1>6, <1>7, WorkerStepKeepsIInv

\* "init" is the first event of the run.
LEMMA EmitInitStep ==
  ASSUME IInv, NEW w \in Workers, EmitInit(w) PROVE IInv'
<1> USE RunnerAssumption
<1>0. TypeOK
  BY DEF IInv
<1>1. PICK r \in Runs : r = wrun[w] /\ WorkerInv(w) /\ RunInv(r) /\ published[r] \in Seq(EventTypes)
  BY BusyWorker DEF EmitInit, Goto
<1>2. UNCHANGED <<ingress, retries, queue>> /\ \A q \in Runs : q # r => SameRun(q)
  BY <1>0, <1>1, Zenon DEF EmitInit, SameRun, EmitEvent, TypeOK, ingressVars
<1>3. \A v \in Workers : v # w => SameWorker(v)
  BY <1>0 DEF EmitInit, Goto, SameWorker, TypeOK
<1>4. TypeOK'
  <2>1. "init" \in EventTypes
    BY DEF EventTypes
  <2>2. published' \in [Runs -> Seq(EventTypes)]
    BY <1>0, <1>1, <2>1, AppendFacts DEF EmitInit, EmitEvent, TypeOK
  <2>0. stored' = stored \/ stored' = [stored EXCEPT ![r] = @ \cup {"init"}]
    BY <1>1 DEF EmitInit, EmitEvent
  <2>3. stored' \in [Runs -> SUBSET EventTypes]
    <3>1. stored \in [Runs -> SUBSET EventTypes]
      BY <1>0 DEF TypeOK
    <3>2. stored[r] \cup {"init"} \in SUBSET EventTypes
      BY <2>1, <3>1
    <3> QED
      BY <2>0, <3>1, <3>2
  <2>4. wpc' \in [Workers -> PCs] /\ attempt' \in [Workers -> 0..(MaxRetries + 1)]
    BY <1>0, <1>1, SMTT(20) DEF EmitInit, Goto, TypeOK, WorkerInv, PCs
  <2> QED
    BY <1>0, <2>2, <2>3, <2>4, Zenon DEF EmitInit, TypeOK, ingressVars, storeVars, outVars
<1>5. WorkerInv(w)'
  <2>1. /\ wpc'[w] = "attempt" /\ wrun'[w] = r /\ attempt'[w] = 1 /\ r # NoRun
        /\ Fresh(r) /\ ingress'[r] = "accepted" /\ retries'[r] \in Nat
    BY <1>0, <1>1, <1>2 DEF EmitInit, Goto, WorkerInv, TypeOK
  <2>2. published'[r] = <<"init">> /\ Len(published'[r]) = 1
    BY <1>0, <1>1, <2>1 DEF EmitInit, EmitEvent, Fresh, TypeOK
  <2>3. stored' = stored \/ stored' = [stored EXCEPT ![r] = @ \cup {"init"}]
    BY <1>1 DEF EmitInit, EmitEvent
  <2>4. stored'[r] \cap TerminalEvents = {}
    BY <1>0, <2>1, <2>3, Zenon DEF Fresh, TerminalEvents, TypeOK
  <2>5. Started(r)' /\ row'[r] \notin Verdicts
    BY <2>1, <2>2, <2>4 DEF EmitInit, Fresh, Started, LastEvent, TerminalEvents
  <2> QED
    BY <2>1, <2>2, <2>5, SMTT(30) DEF WorkerInv
<1>6. RunInv(r)'
  BY <1>0, <1>1, <1>2
  DEF EmitInit, Goto, EmitEvent, TypeOK, WorkerInv, RunInv, EventsInOrder, BuriedRunFailed, CalledBackOnce, StoredMatchesRow,
      Fresh, TerminalEvent, TerminalEvents, Verdicts
<1>7. wrun'[w] \in {r, NoRun}
  BY <1>0, <1>1 DEF EmitInit, TypeOK
<1> QED
  BY <1>1, <1>2, <1>3, <1>4, <1>5, <1>6, <1>7, WorkerStepKeepsIInv

\* A retry notice follows "init" or another notice, and one attempt is left.
LEMMA AttemptRetriesStep ==
  ASSUME IInv, NEW w \in Workers, AttemptRetries(w) PROVE IInv'
<1> USE RunnerAssumption
<1>0. TypeOK
  BY DEF IInv
<1>1. PICK r \in Runs : r = wrun[w] /\ WorkerInv(w) /\ RunInv(r) /\ published[r] \in Seq(EventTypes)
  BY BusyWorker DEF AttemptRetries, Goto
<1>2. UNCHANGED <<ingress, retries, queue>> /\ \A q \in Runs : q # r => SameRun(q)
  BY <1>0, <1>1, Zenon DEF AttemptRetries, SameRun, EmitEvent, TypeOK, ingressVars
<1>3. \A v \in Workers : v # w => SameWorker(v)
  BY <1>0 DEF AttemptRetries, Goto, SameWorker, TypeOK
<1>4. TypeOK'
  <2>1. "reasoning" \in EventTypes
    BY DEF EventTypes
  <2>2. published' \in [Runs -> Seq(EventTypes)]
    BY <1>0, <1>1, <2>1, AppendFacts DEF AttemptRetries, EmitEvent, TypeOK
  <2>0. stored' = stored \/ stored' = [stored EXCEPT ![r] = @ \cup {"reasoning"}]
    BY <1>1 DEF AttemptRetries, EmitEvent
  <2>3. stored' \in [Runs -> SUBSET EventTypes]
    <3>1. stored \in [Runs -> SUBSET EventTypes]
      BY <1>0 DEF TypeOK
    <3>2. stored[r] \cup {"reasoning"} \in SUBSET EventTypes
      BY <2>1, <3>1
    <3> QED
      BY <2>0, <3>1, <3>2
  <2>4. wpc' \in [Workers -> PCs] /\ finalErr' \in [Workers -> Errors]
    BY <1>0, <1>1, SMTT(20) DEF AttemptRetries, Goto, TypeOK, WorkerInv, PCs, Errors
  <2> QED
    BY <1>0, <2>2, <2>3, <2>4, Zenon DEF AttemptRetries, TypeOK, ingressVars, storeVars, outVars
<1>5. WorkerInv(w)'
  <2>1. /\ wpc'[w] = "backoff" /\ wrun'[w] = r /\ attempt'[w] = attempt[w] /\ r # NoRun
        /\ Started(r) /\ ingress'[r] = "accepted" /\ retries'[r] = retries[r]
        /\ attempt[w] \in 1..retries[r] /\ retries[r] \in Nat
        /\ Len(published[r]) = attempt[w] /\ row'[r] \notin Verdicts
    BY <1>0, <1>1, <1>2 DEF AttemptRetries, Goto, WorkerInv, TypeOK
  <2>2. published'[r] = Append(published[r], "reasoning")
    BY <1>0, <1>1 DEF AttemptRetries, EmitEvent, TypeOK
  <2>3. stored' = stored \/ stored' = [stored EXCEPT ![r] = @ \cup {"reasoning"}]
    BY <1>1 DEF AttemptRetries, EmitEvent
  <2>4. stored'[r] \cap TerminalEvents = {}
    BY <1>0, <2>1, <2>3, Zenon DEF Started, TerminalEvents, TypeOK
  <2>5. Started(r)' /\ Len(published'[r]) = attempt[w] + 1
    BY <1>1, <2>1, <2>2, <2>4 DEF AttemptRetries, Started, LastEvent, TerminalEvents
  <2> QED
    BY <2>1, <2>5, SMTT(30) DEF WorkerInv
<1>6. RunInv(r)'
  BY <1>0, <1>1, <1>2
  DEF AttemptRetries, Goto, EmitEvent, TypeOK, WorkerInv, RunInv, EventsInOrder, BuriedRunFailed, CalledBackOnce, StoredMatchesRow,
      Started, LastEvent, TerminalEvent, TerminalEvents, Verdicts
<1>7. wrun'[w] \in {r, NoRun}
  BY <1>0, <1>1 DEF AttemptRetries, TypeOK
<1> QED
  BY <1>1, <1>2, <1>3, <1>4, <1>5, <1>6, <1>7, WorkerStepKeepsIInv

\* The row takes the verdict, unless the store or the persist context fails.
LEMMA SettleStep ==
  ASSUME IInv, NEW w \in Workers, Settle(w) PROVE IInv'
<1> USE RunnerAssumption
<1>0. TypeOK
  BY DEF IInv
<1>1. PICK r \in Runs : r = wrun[w] /\ WorkerInv(w) /\ RunInv(r) /\ published[r] \in Seq(EventTypes)
  BY BusyWorker DEF Settle, Goto
<1>2. UNCHANGED <<ingress, retries, queue>> /\ \A q \in Runs : q # r => SameRun(q)
  BY <1>0, <1>1, SMTT(20) DEF Settle, SameRun, TrySaveRun, SaveRun, TypeOK, ingressVars, outVars
<1>3. \A v \in Workers : v # w => SameWorker(v)
  BY <1>0 DEF Settle, Goto, SameWorker, TypeOK
<1>4. TypeOK'
  <2>0. row' = row \/ row' = [row EXCEPT ![r] = verdict[w]]
    BY <1>1 DEF Settle, TrySaveRun, SaveRun
  <2>1. row' \in [Runs -> RowStates]
    <3>1. row \in [Runs -> RowStates] /\ verdict[w] \in RowStates
      BY <1>0, <1>1 DEF Settle, Goto, WorkerInv, TypeOK, RowStates
    <3> QED
      BY <2>0, <3>1
  <2>2. wpc' \in [Workers -> PCs]
    BY <1>0 DEF Settle, Goto, TypeOK, PCs
  <2> QED
    BY <1>0, <2>1, <2>2, Zenon DEF Settle, TypeOK, ingressVars, storeVars, outVars
<1>5. WorkerInv(w)'
  BY <1>0, <1>1, <1>2 DEF Settle, Goto, TrySaveRun, SaveRun, TypeOK, WorkerInv, Started, LastEvent, Verdicts, outVars
<1>6. RunInv(r)'
  BY <1>0, <1>1, <1>2
  DEF Settle, Goto, TrySaveRun, SaveRun, TypeOK, WorkerInv, RunInv, EventsInOrder, BuriedRunFailed, CalledBackOnce, StoredMatchesRow,
      Started, LastEvent, TerminalEvent, TerminalEvents, Verdicts, outVars
<1>7. wrun'[w] \in {r, NoRun}
  BY <1>0, <1>1 DEF Settle, TypeOK
<1> QED
  BY <1>1, <1>2, <1>3, <1>4, <1>5, <1>6, <1>7, WorkerStepKeepsIInv

\* The terminal event is the first one, and the last event.
LEMMA AnnounceStep ==
  ASSUME IInv, NEW w \in Workers, Announce(w) PROVE IInv'
<1> USE RunnerAssumption
<1>0. TypeOK
  BY DEF IInv
<1>1. PICK r \in Runs : r = wrun[w] /\ WorkerInv(w) /\ RunInv(r) /\ published[r] \in Seq(EventTypes)
  BY BusyWorker DEF Announce, Goto
<1>2. UNCHANGED <<ingress, retries, queue>> /\ \A q \in Runs : q # r => SameRun(q)
  BY <1>0, <1>1 DEF Announce, SameRun, EmitEvent, TypeOK, ingressVars
<1>3. \A v \in Workers : v # w => SameWorker(v)
  BY <1>0 DEF Announce, Goto, SameWorker, TypeOK
<1>4. TypeOK'
  <2>1. TerminalEvent(verdict[w]) \in EventTypes
    <3>1. verdict[w] \in Verdicts
      BY <1>1, Zenon DEF Announce, Goto, WorkerInv
    <3> QED
      BY <3>1 DEF TerminalEvent, Verdicts, EventTypes
  <2>2. published' \in [Runs -> Seq(EventTypes)]
    BY <1>0, <1>1, <2>1, AppendFacts DEF Announce, EmitEvent, TypeOK
  <2>0. stored' = stored \/ stored' = [stored EXCEPT ![r] = @ \cup {TerminalEvent(verdict[w])}]
    BY <1>1 DEF Announce, EmitEvent
  <2>3. stored' \in [Runs -> SUBSET EventTypes]
    <3>1. stored \in [Runs -> SUBSET EventTypes]
      BY <1>0 DEF TypeOK
    <3>2. stored[r] \cup {TerminalEvent(verdict[w])} \in SUBSET EventTypes
      BY <2>1, <3>1
    <3> QED
      BY <2>0, <3>1, <3>2
  <2>4. wpc' \in [Workers -> PCs]
    BY <1>0, <1>1 DEF Announce, Goto, TypeOK, WorkerInv, PCs
  <2> QED
    BY <1>0, <2>2, <2>3, <2>4, Zenon DEF Announce, TypeOK, ingressVars, storeVars, outVars
<1>5. /\ wpc[w] = "announce" /\ wpc'[w] \in {"bury", "finish"}
      /\ wpc'[w] = "bury" => verdict[w] = "failed"
      /\ wrun'[w] = r /\ verdict'[w] = verdict[w]
      /\ UNCHANGED <<row, deadLetters, callbacks, ingress>>
      /\ published'[r] = Append(published[r], TerminalEvent(verdict[w]))
  BY <1>0, <1>1, <1>2 DEF Announce, Goto, EmitEvent, TypeOK
<1>6. /\ r # NoRun /\ ingress[r] = "accepted" /\ Started(r) /\ verdict[w] \in Verdicts
      /\ IF row[r] \in Verdicts THEN row[r] = verdict[w] ELSE StoreFaults \/ w \in persistDone
  BY <1>1, <1>5 DEF WorkerInv
<1>7. /\ published'[r] # <<>> /\ LastEvent(r)' = TerminalEvent(verdict[w])
      /\ Len(published[r]) \in Nat /\ Len(published'[r]) = Len(published[r]) + 1
      /\ DOMAIN published[r] = 1..Len(published[r])
      /\ DOMAIN published'[r] = 1..(Len(published[r]) + 1)
      /\ \A i \in DOMAIN published[r] : published'[r][i] = published[r][i]
      /\ published'[r][Len(published'[r])] = TerminalEvent(verdict[w])
  BY <1>1, <1>5 DEF LastEvent
<1>8. TerminalEvent(verdict[w]) \in TerminalEvents
  BY <1>6 DEF TerminalEvent, TerminalEvents, Verdicts
<1>9. WorkerInv(w)'
  <2>1. Announced(r, verdict[w])'
    BY <1>5, <1>6, <1>7 DEF Announced, Started
  <2> QED
    BY <1>5, <1>6, <2>1, SMTT(20) DEF WorkerInv, Started
<1>10. RunInv(r)'
  <2>1. EventsInOrder(r)'
    <3>1. published[r] # <<>> /\ EventsInOrder(r) /\ published[r][Len(published[r])] \notin TerminalEvents
      BY <1>1, <1>6 DEF RunInv, Started, LastEvent
    <3>2. Len(published[r]) # 0
      BY <1>1, <3>1
    <3>3. "init" \notin TerminalEvents
      BY DEF TerminalEvents
    <3> QED
      BY <1>7, <1>8, <3>1, <3>2, <3>3 DEF EventsInOrder
  <2>2. BuriedRunFailed(r)'
    BY <1>5, <1>6 DEF BuriedRunFailed, Started
  <2>3. CalledBackOnce(r)'
    BY <1>5, <1>6 DEF CalledBackOnce, Started
  <2>4. StoredMatchesRow(r)'
    <3>1. SUFFICES ASSUME ~StoreFaults, NEW v \in Verdicts, TerminalEvent(v) \in stored'[r]
                   PROVE  row[r] = v
      BY <1>5 DEF StoredMatchesRow
    <3>2. TerminalEvent(v) \in TerminalEvents
      BY DEF TerminalEvent, TerminalEvents, Verdicts
    <3>3. TerminalEvent(v) \notin stored[r]
      BY <3>2, <1>6 DEF Started
    <3>4. /\ stored' = [stored EXCEPT ![r] = @ \cup {TerminalEvent(verdict[w])}]
          /\ w \notin persistDone
      BY <3>1, <3>3, <1>1 DEF Announce, EmitEvent
    <3>5. TerminalEvent(v) = TerminalEvent(verdict[w])
      BY <3>1, <3>3, <3>4, <1>0 DEF TypeOK
    <3>6. v = verdict[w]
      BY <3>5, <1>6 DEF TerminalEvent, Verdicts
    <3> QED
      BY <3>1, <3>4, <3>6, <1>6
  <2> QED
    BY <2>1, <2>2, <2>3, <2>4, SMTT(20) DEF RunInv
<1> QED
  BY <1>1, <1>2, <1>3, <1>4, <1>5, <1>9, <1>10, WorkerStepKeepsIInv, SMTT(20)

\* The dead letter is the first one of a run that failed.
LEMMA PersistDeadLetterStep ==
  ASSUME IInv, NEW w \in Workers, PersistDeadLetter(w) PROVE IInv'
<1> USE RunnerAssumption
<1>0. TypeOK
  BY DEF IInv
<1>1. PICK r \in Runs : r = wrun[w] /\ WorkerInv(w) /\ RunInv(r) /\ published[r] \in Seq(EventTypes)
  BY BusyWorker DEF PersistDeadLetter, Goto
<1>2. UNCHANGED <<ingress, retries, queue>> /\ \A q \in Runs : q # r => SameRun(q)
  BY <1>0, <1>1 DEF PersistDeadLetter, SameRun, TypeOK, ingressVars, outVars
<1>3. \A v \in Workers : v # w => SameWorker(v)
  BY <1>0 DEF PersistDeadLetter, Goto, SameWorker, TypeOK
<1>4. TypeOK'
  <2>1. deadLetters' \in [Runs -> Nat]
    <3>1. /\ deadLetters \in [Runs -> Nat] /\ deadLetters[r] + 1 \in Nat
          /\ deadLetters' = deadLetters \/ deadLetters' = [deadLetters EXCEPT ![r] = @ + 1]
      BY <1>0, <1>1, SMTT(20) DEF PersistDeadLetter, TypeOK
    <3> QED
      BY <3>1
  <2>2. wpc' \in [Workers -> PCs]
    BY <1>0 DEF PersistDeadLetter, Goto, TypeOK, PCs
  <2> QED
    BY <1>0, <2>1, <2>2, Zenon DEF PersistDeadLetter, TypeOK, ingressVars, outVars
<1>5. WorkerInv(w)'
  BY <1>0, <1>1, <1>2, SMTT(20) DEF PersistDeadLetter, Goto, TypeOK, WorkerInv, Announced, LastEvent, TerminalEvent, Verdicts, outVars
<1>6. RunInv(r)'
  BY <1>0, <1>1, <1>2
  DEF PersistDeadLetter, Goto, TypeOK, WorkerInv, RunInv, EventsInOrder, BuriedRunFailed, CalledBackOnce, StoredMatchesRow,
      Announced, LastEvent, TerminalEvent, TerminalEvents, Verdicts, outVars
<1>7. wrun'[w] \in {r, NoRun}
  BY <1>0, <1>1 DEF PersistDeadLetter, TypeOK
<1> QED
  BY <1>1, <1>2, <1>3, <1>4, <1>5, <1>6, <1>7, WorkerStepKeepsIInv

\* The callback is the first one, and the worker is idle again.
LEMMA FinishStep ==
  ASSUME IInv, NEW w \in Workers, Finish(w) PROVE IInv'
<1> USE RunnerAssumption
<1>0. TypeOK
  BY DEF IInv
<1>1. PICK r \in Runs : r = wrun[w] /\ WorkerInv(w) /\ RunInv(r) /\ published[r] \in Seq(EventTypes)
  BY BusyWorker DEF Finish, Goto
<1>2. UNCHANGED <<ingress, retries, queue>> /\ \A q \in Runs : q # r => SameRun(q)
  BY <1>0, <1>1 DEF Finish, SameRun, TypeOK, ingressVars, storeVars
<1>3. \A v \in Workers : v # w => SameWorker(v)
  BY <1>0 DEF Finish, Goto, SameWorker, TypeOK
<1>4. TypeOK'
  <2>1. wpc' \in [Workers -> PCs] /\ finalErr' \in [Workers -> Errors]
    BY <1>0 DEF Finish, Goto, TypeOK, PCs, Errors
  <2>2. wrun' \in [Workers -> Runs \cup {NoRun}] /\ verdict' \in [Workers -> Verdicts \cup {"none"}]
    BY <1>0 DEF Finish, TypeOK
  <2>3. attempt' \in [Workers -> 0..(MaxRetries + 1)]
    BY <1>0 DEF Finish, TypeOK
  <2>4. callbacks' \in [Runs -> Nat]
    BY <1>0, <1>1 DEF Finish, TypeOK
  <2>5. runs' \subseteq Runs /\ ctxDone' \subseteq Workers /\ persistDone' \subseteq Workers
    BY <1>0 DEF Finish, TypeOK
  <2> QED
    BY <1>0, <2>1, <2>2, <2>3, <2>4, <2>5, Zenon DEF Finish, TypeOK, ingressVars, storeVars
<1>5. WorkerInv(w)'
  BY <1>0, <1>1, <1>2 DEF Finish, Goto, TypeOK, WorkerInv, Announced, LastEvent, Verdicts, storeVars
<1>6. RunInv(r)'
  BY <1>0, <1>1, <1>2
  DEF Finish, Goto, TypeOK, WorkerInv, RunInv, EventsInOrder, BuriedRunFailed, CalledBackOnce, StoredMatchesRow,
      Announced, LastEvent, TerminalEvent, TerminalEvents, Verdicts, storeVars
<1>7. wrun'[w] \in {r, NoRun}
  BY <1>0, <1>1 DEF Finish, TypeOK
<1> QED
  BY <1>1, <1>2, <1>3, <1>4, <1>5, <1>6, <1>7, WorkerStepKeepsIInv
=============================================================================

---------------------------- MODULE RunnerProofs ----------------------------
(***************************************************************************)
(* Proofs about Runner.tla, for any set of runs and workers, any queue     *)
(* size, any bound on retries and crashes, with and without store errors   *)
(* and slow runs.                                                          *)
(*                                                                         *)
(* IInv is inductive: a step of a handler or a worker changes what belongs *)
(* to one run, the run is in one place only (OnePlace), and so nothing     *)
(* another worker relies on moves.  SameRun and SameWorker say what stays; *)
(* WorkerStepKeepsIInv does that argument once for all steps of a worker.  *)
(***************************************************************************)
EXTENDS RunnerWorkerProofs

\* The head of the queue moves to one worker.
LEMMA DequeueStep ==
  ASSUME IInv, NEW w \in Workers, Dequeue(w) PROVE IInv'
<1> USE RunnerAssumption
<1>a. TypeOK /\ OnePlace
  BY DEF IInv
<1>0. queue \in Seq(Runs) /\ queue # <<>> /\ queue' = Tail(queue)
  BY <1>a DEF TypeOK, Dequeue
<1>1. PICK r \in Runs : r = Head(queue)
  BY <1>0, TailFacts
<1>2. /\ wrun' = [wrun EXCEPT ![w] = r] /\ wpc' = [wpc EXCEPT ![w] = "dequeued"]
      /\ UNCHANGED <<ingress, withCallback, retries, runs, attempt, ctxDone,
                     persistDone, finalErr, verdict, row, stored, deadLetters,
                     published, callbacks, crashes>>
  BY <1>1 DEF Dequeue, Goto, ingressVars, storeVars, outVars
<1>3. /\ r = queue[1] /\ 1 \in DOMAIN queue
      /\ queue' \in Seq(Runs) /\ Len(queue') = Len(queue) - 1 /\ Len(queue) \in Nat
      /\ \A i \in DOMAIN queue' :
           i \in Nat /\ i # 0 /\ i + 1 \in DOMAIN queue /\ queue'[i] = queue[i + 1]
  BY <1>0, <1>1, TailFacts
<1>4. ingress[r] = "accepted" /\ Fresh(r) /\ r # NoRun
  BY <1>3 DEF IInv
<1>5. \A q \in Runs : SameRun(q)
  BY <1>2 DEF SameRun
<1>6. TypeOK'
  <2>1. queue' \in Seq(Runs) /\ Len(queue') <= QueueSize
    <3>1. Len(queue) <= QueueSize /\ QueueSize \in Nat
      BY <1>a DEF TypeOK
    <3> QED
      BY <1>3, <3>1
  <2>2. wpc' \in [Workers -> PCs] /\ wrun' \in [Workers -> Runs \cup {NoRun}]
    BY <1>a, <1>2 DEF TypeOK, PCs
  <2> QED
    BY <1>a, <1>2, <2>1, <2>2, Zenon DEF TypeOK
<1>7. OnePlace'
  <2>1. (\A i, j \in DOMAIN queue : queue[i] = queue[j] => i = j)'
    BY <1>a, <1>3 DEF OnePlace
  <2>a. wrun'[w] = r /\ \A v \in Workers : v # w => wrun'[v] = wrun[v]
    BY <1>a, <1>2 DEF TypeOK
  <2>b. \A v \in Workers : wrun[v] # r
    BY <1>a, <1>3 DEF OnePlace
  <2>2. (\A v, x \in Workers : wrun[v] = wrun[x] /\ wrun[v] # NoRun => v = x)'
    BY <1>a, <2>a, <2>b DEF OnePlace
  <2>3. ASSUME NEW i \in DOMAIN queue', NEW v \in Workers PROVE wrun'[v] # queue'[i]
    <3>1. CASE v = w
      <4>1. i \in Nat /\ i # 0 /\ i + 1 \in DOMAIN queue /\ queue'[i] = queue[i + 1]
        BY <1>3
      <4>2. i + 1 # 1
        BY <4>1
      <4>3. queue[i + 1] # r
        BY <1>a, <4>1, <4>2, <1>3 DEF OnePlace
      <4> QED
        BY <3>1, <2>a, <4>1, <4>3
    <3>2. CASE v # w
      BY <1>a, <3>2, <2>a, <1>3 DEF OnePlace
    <3> QED
      BY <3>1, <3>2
  <2> QED
    BY <2>1, <2>2, <2>3 DEF OnePlace
<1>8. (\A q \in Runs : ingress[q] \in BeforeQueue => Fresh(q))'
  BY <1>2, <1>5, FreshFrame DEF IInv
<1>9. (\A i \in DOMAIN queue : ingress[queue[i]] = "accepted" /\ Fresh(queue[i]))'
  <2>1. ASSUME NEW i \in DOMAIN queue' PROVE ingress'[queue'[i]] = "accepted" /\ Fresh(queue[i + 1])
                                             /\ queue'[i] = queue[i + 1]
    BY <1>2, <1>3 DEF IInv
  <2> QED
    BY <1>2, <2>1, Zenon DEF Fresh
<1>10. ASSUME NEW v \in Workers PROVE WorkerInv(v)'
  <2>1. CASE v = w
    <3>1. wpc'[w] = "dequeued" /\ wrun'[w] = r
      BY <1>a, <1>2 DEF TypeOK
    <3>2. ingress'[r] = "accepted" /\ Fresh(r)'
      BY <1>2, <1>4, Zenon DEF Fresh
    <3> QED
      BY <2>1, <1>4, <3>1, <3>2 DEF WorkerInv, Fresh
  <2>2. CASE v # w
    <3>1. SameWorker(v) /\ (wrun[v] # NoRun => SameRun(wrun[v]))
      BY <1>a, <2>2, <1>2, <1>5 DEF SameWorker, TypeOK
    <3> QED
      BY <3>1, WorkerFrame DEF IInv
  <2> QED
    BY <2>1, <2>2
<1>11. \A q \in Runs : RunInv(q)'
  BY <1>5, RunFrame, Zenon DEF IInv
<1> QED
  BY <1>6, <1>7, <1>8, <1>9, <1>10, <1>11 DEF IInv

\* A step that touches no queue, no run and, of the workers, at most contexts.
LEMMA ContextStepKeepsIInv ==
  ASSUME IInv, TypeOK', UNCHANGED <<queue, wrun, ingress>>,
         \A v \in Workers : SameWorker(v), \A q \in Runs : SameRun(q)
  PROVE  IInv'
<1>1. OnePlace'
  BY DEF IInv, OnePlace
<1>2. (\A q \in Runs : ingress[q] \in BeforeQueue => Fresh(q))'
  BY FreshFrame DEF IInv
<1>3. (\A i \in DOMAIN queue : ingress[queue[i]] = "accepted" /\ Fresh(queue[i]))'
  <2>1. \A i \in DOMAIN queue : queue[i] \in Runs
    BY DEF IInv, TypeOK
  <2> QED
    BY <2>1, FreshFrame DEF IInv
<1>4. \A v \in Workers : WorkerInv(v)'
  <2>1. ASSUME NEW v \in Workers PROVE wrun[v] # NoRun => SameRun(wrun[v])
    BY DEF IInv, TypeOK
  <2> QED
    BY <2>1, WorkerFrame DEF IInv
<1>5. \A q \in Runs : RunInv(q)'
  BY RunFrame DEF IInv
<1> QED
  BY <1>1, <1>2, <1>3, <1>4, <1>5 DEF IInv

\* handleCancelRun touches contexts only.
LEMMA CancelRunStep ==
  ASSUME IInv, NEW r \in Runs, CancelRun(r) PROVE IInv'
<1>1. \A v \in Workers : SameWorker(v)
  BY DEF CancelRun, SameWorker
<1>2. UNCHANGED <<queue, wrun, ingress>> /\ \A q \in Runs : SameRun(q)
  BY DEF CancelRun, SameRun, ingressVars, storeVars, outVars
<1>3. TypeOK'
  BY DEF CancelRun, Executing, IInv, TypeOK, ingressVars, storeVars, outVars
<1> QED
  BY <1>1, <1>2, <1>3, ContextStepKeepsIInv

\* So does the timeout of the persist context.
LEMMA PersistTimeoutStep ==
  ASSUME IInv, NEW w \in Workers, PersistTimeout(w) PROVE IInv'
<1>1. \A v \in Workers : SameWorker(v)
  BY DEF PersistTimeout, SameWorker
<1>2. UNCHANGED <<queue, wrun, ingress>> /\ \A q \in Runs : SameRun(q)
  BY DEF PersistTimeout, SameRun, ingressVars, storeVars, outVars
<1>3. TypeOK'
  BY DEF PersistTimeout, IInv, TypeOK, ingressVars, storeVars, outVars
<1> QED
  BY <1>1, <1>2, <1>3, ContextStepKeepsIInv

\* A step that changes nothing keeps the invariant.
LEMMA StutterStep ==
  ASSUME IInv, UNCHANGED vars PROVE IInv'
<1>1. \A v \in Workers : SameWorker(v)
  BY DEF SameWorker, vars, workerVars
<1>2. UNCHANGED <<queue, wrun, ingress>> /\ \A q \in Runs : SameRun(q)
  BY DEF SameRun, vars, workerVars, ingressVars, storeVars, outVars
<1>3. TypeOK'
  BY DEF IInv, TypeOK, vars, workerVars, ingressVars, storeVars, outVars
<1> QED
  BY <1>1, <1>2, <1>3, ContextStepKeepsIInv

\* A step of the handler that submits r: r is in no queue and no worker has
\* it; afterwards it is appended to the queue, or nobody has it yet.
LEMMA HandlerStepKeepsIInv ==
  ASSUME IInv, NEW r \in Runs, ingress[r] \in BeforeQueue,
         \A v \in Workers : SameWorker(v),
         \A q \in Runs : q # r => SameRun(q),
         \/ queue' = queue
         \/ queue' = Append(queue, r) /\ ingress'[r] = "accepted" /\ Fresh(r)',
         ingress'[r] \in BeforeQueue => Fresh(r)',
         TypeOK', RunInv(r)'
  PROVE  IInv'
<1> USE RunnerAssumption
<1>1. queue \in Seq(Runs) /\ wrun' \in [Workers -> Runs \cup {NoRun}]
      /\ wrun \in [Workers -> Runs \cup {NoRun}] /\ r # NoRun
  BY SMTT(20) DEF IInv, TypeOK
<1>2. \A v \in Workers : wrun'[v] = wrun[v] /\ wrun[v] # r
  <2>1. ASSUME NEW v \in Workers, wrun[v] = r PROVE FALSE
    <3>1. WorkerInv(v)
      BY DEF IInv
    <3> QED
      BY <2>1, <3>1, <1>1 DEF WorkerInv, BeforeQueue
  <2> QED
    BY <2>1 DEF SameWorker
<1>3. \A i \in DOMAIN queue : queue[i] \in Runs /\ queue[i] # r
  <2>1. ASSUME NEW i \in DOMAIN queue PROVE queue[i] # r
    BY DEF IInv, BeforeQueue
  <2> QED
    BY <2>1, <1>1
<1>4. \A i \in DOMAIN queue' : \/ i \in DOMAIN queue /\ queue'[i] = queue[i]
                               \/ /\ queue'[i] = r /\ i = Len(queue) + 1
                                  /\ ingress'[r] = "accepted" /\ Fresh(r)'
  <2>1. CASE queue' = queue
    BY <2>1
  <2>2. CASE queue' = Append(queue, r) /\ ingress'[r] = "accepted" /\ Fresh(r)'
    BY <2>2, <1>1, AppendFacts
  <2> QED
    BY <2>1, <2>2
<1>5. OnePlace'
  <2>1. (\A i, j \in DOMAIN queue : queue[i] = queue[j] => i = j)'
    BY <1>3, <1>4 DEF IInv, OnePlace
  <2>2. (\A v, x \in Workers : wrun[v] = wrun[x] /\ wrun[v] # NoRun => v = x)'
    BY <1>2 DEF IInv, OnePlace
  <2>3. (\A i \in DOMAIN queue, v \in Workers : wrun[v] # queue[i])'
    BY <1>2, <1>4 DEF IInv, OnePlace
  <2> QED
    BY <2>1, <2>2, <2>3 DEF OnePlace
<1>6. (\A q \in Runs : ingress[q] \in BeforeQueue => Fresh(q))'
  <2>1. ASSUME NEW q \in Runs, q # r, ingress'[q] \in BeforeQueue PROVE Fresh(q)'
    <3>1. SameRun(q) /\ Fresh(q)
      BY <2>1 DEF IInv, SameRun
    <3> QED
      BY <3>1, FreshFrame
  <2> QED
    BY <2>1
<1>7. (\A i \in DOMAIN queue : ingress[queue[i]] = "accepted" /\ Fresh(queue[i]))'
  <2>1. ASSUME NEW q \in Runs, q # r, Fresh(q) PROVE Fresh(q)' /\ ingress'[q] = ingress[q]
    BY <2>1, FreshFrame DEF SameRun
  <2>2. ASSUME NEW i \in DOMAIN queue', i \in DOMAIN queue, queue'[i] = queue[i]
        PROVE  (ingress[queue[i]] = "accepted" /\ Fresh(queue[i]))'
    <3>1. PICK q \in Runs : q = queue[i] /\ q # r /\ Fresh(q) /\ ingress[q] = "accepted"
      BY <2>2, <1>3 DEF IInv
    <3>2. Fresh(q)' /\ ingress'[q] = "accepted" /\ queue'[i] = q
      BY <2>1, <2>2, <3>1
    <3> QED
      BY <3>2 DEF Fresh
  <2>3. ASSUME NEW i \in DOMAIN queue', queue'[i] = r, ingress'[r] = "accepted", Fresh(r)'
        PROVE  (ingress[queue[i]] = "accepted" /\ Fresh(queue[i]))'
    BY <2>3 DEF Fresh
  <2> QED
    BY <1>4, <2>2, <2>3
<1>8. \A v \in Workers : WorkerInv(v)'
  <2>1. ASSUME NEW v \in Workers PROVE wrun[v] # NoRun => SameRun(wrun[v])
    BY <1>1, <1>2
  <2> QED
    BY <2>1, WorkerFrame DEF IInv
<1>9. \A q \in Runs : RunInv(q)'
  BY RunFrame DEF IInv
<1> QED
  BY <1>5, <1>6, <1>7, <1>8, <1>9 DEF IInv

\* A run of which nothing was published or buried satisfies RunInv, whatever
\* its row.
LEMMA SilentRun ==
  ASSUME NEW r \in Runs, published'[r] = <<>>, stored'[r] \cap TerminalEvents = {},
         deadLetters'[r] = 0, callbacks'[r] \in {0, 1},
         callbacks'[r] = 0 \/ ingress'[r] # "accepted"
  PROVE  RunInv(r)'
<1>1. EventsInOrder(r)'
  BY DEF EventsInOrder
<1>2. BuriedRunFailed(r)' /\ CalledBackOnce(r)'
  BY DEF BuriedRunFailed, CalledBackOnce
<1>3. StoredMatchesRow(r)'
  BY DEF StoredMatchesRow, TerminalEvent, Verdicts, TerminalEvents
<1> QED
  BY <1>1, <1>2, <1>3 DEF RunInv

\* A handler saves the row of a run it has not submitted.
LEMMA SavePendingStep ==
  ASSUME IInv, NEW r \in Runs, NEW cb \in SUBSET Runs, NEW n \in 0..MaxRetries,
         SavePending(r, cb, n)
  PROVE  IInv'
<1>1. /\ ingress[r] = "new" /\ Fresh(r)
      /\ UNCHANGED <<queue, runs, workerVars, stored, deadLetters, outVars, crashes>>
      /\ retries' = [retries EXCEPT ![r] = n]
      /\ withCallback' = withCallback \cup cb
  BY DEF SavePending, IInv, BeforeQueue
<1>2. \/ row' = [row EXCEPT ![r] = "pending"] /\ ingress' = [ingress EXCEPT ![r] = "saved"]
      \/ row' = row /\ ingress' = [ingress EXCEPT ![r] = "closed"]
  BY DEF SavePending, SaveRun
<1>3. TypeOK'
  <2>1. ingress' \in [Runs -> IngressStates] /\ row' \in [Runs -> RowStates]
    BY <1>2, Zenon DEF IInv, TypeOK, IngressStates, RowStates
  <2>2. retries' \in [Runs -> 0..MaxRetries] /\ withCallback' \subseteq Runs
    BY <1>1 DEF IInv, TypeOK
  <2> QED
    BY <1>1, <2>1, <2>2 DEF IInv, TypeOK, workerVars, outVars
<1>4. \A q \in Runs : q # r => SameRun(q)
  BY <1>1, <1>2 DEF SameRun, outVars, IInv, TypeOK
<1>5. Fresh(r)'
  BY <1>1, <1>2 DEF Fresh, outVars, IInv, TypeOK, Verdicts
<1>6. RunInv(r)'
  BY <1>5, SilentRun DEF Fresh
<1>7. \A v \in Workers : SameWorker(v)
  BY <1>1 DEF SameWorker, workerVars
<1>8. ingress[r] \in BeforeQueue /\ queue' = queue
  BY <1>1 DEF BeforeQueue
<1> QED
  BY <1>3, <1>4, <1>5, <1>6, <1>7, <1>8, HandlerStepKeepsIInv

\* A submitted run enters the queue fresh, or does not enter it.
LEMMA SubmitStep ==
  ASSUME IInv, NEW r \in Runs, SubmitSaved(r) \/ SubmitUnsaved(r) PROVE IInv'
<1>1. /\ ingress[r] \in BeforeQueue
      /\ UNCHANGED <<withCallback, retries, runs, workerVars, storeVars, outVars, crashes>>
      /\ \/ Enqueue(r) /\ ingress' = [ingress EXCEPT ![r] = "accepted"]
         \/ queue' = queue /\ \E s \in {"fallback", "rejected", "closed"} :
                                 ingress' = [ingress EXCEPT ![r] = s]
  BY DEF SubmitSaved, SubmitUnsaved, Refused, BeforeQueue
<1>2. TypeOK'
  <2>1. ingress' \in [Runs -> IngressStates]
    BY <1>1, Zenon DEF IInv, TypeOK, IngressStates
  <2>2. queue' \in Seq(Runs) /\ Len(queue') <= QueueSize
    <3>1. queue \in Seq(Runs) /\ Len(queue) <= QueueSize /\ QueueSize \in Nat
      BY RunnerAssumption DEF IInv, TypeOK
    <3>2. CASE Enqueue(r)
      <4>1. Len(queue) < QueueSize /\ queue' = Append(queue, r)
        BY <3>2 DEF Enqueue
      <4> QED
        BY <3>1, <4>1, AppendFacts
    <3>3. CASE queue' = queue
      BY <3>1, <3>3
    <3> QED
      BY <1>1, <3>2, <3>3, SMTT(20)
  <2> QED
    BY <1>1, <2>1, <2>2, SMTT(20) DEF IInv, TypeOK, workerVars, storeVars, outVars
<1>3. \A q \in Runs : q # r => SameRun(q)
  BY <1>1 DEF SameRun, storeVars, outVars, IInv, TypeOK
<1>4. Fresh(r)'
  BY <1>1, Zenon DEF Fresh, storeVars, outVars, IInv
<1>5. RunInv(r)'
  BY <1>4, SilentRun DEF Fresh
<1>6. \A v \in Workers : SameWorker(v)
  BY <1>1 DEF SameWorker, workerVars
<1>7. \/ queue' = queue
      \/ queue' = Append(queue, r) /\ ingress'[r] = "accepted" /\ Fresh(r)'
  <2>1. CASE Enqueue(r) /\ ingress' = [ingress EXCEPT ![r] = "accepted"]
    <3>1. ingress'[r] = "accepted"
      BY <2>1, SMTT(20) DEF IInv, TypeOK
    <3> QED
      BY <1>4, <2>1, <3>1 DEF Enqueue
  <2> QED
    BY <1>1, <2>1
<1> QED
  BY <1>1, <1>2, <1>3, <1>4, <1>5, <1>6, <1>7, HandlerStepKeepsIInv

\* The two ways a handler closes a run that the queue refused.
LEMMA RefusedStep ==
  ASSUME IInv, NEW r \in Runs, RejectRun(r) \/ FallbackRun(r) PROVE IInv'
<1>1. /\ ingress[r] \in BeforeQueue /\ Fresh(r)
      /\ UNCHANGED <<withCallback, retries, queue, runs, workerVars, stored,
                     deadLetters, published, crashes>>
      /\ ingress' = [ingress EXCEPT ![r] = "closed"]
      /\ callbacks' = callbacks \/ callbacks' = [callbacks EXCEPT ![r] = @ + 1]
  BY Zenon DEF RejectRun, FallbackRun, BeforeQueue, IInv, outVars
<1>2. row' = row \/ \E s \in Verdicts : row' = [row EXCEPT ![r] = s]
  BY DEF RejectRun, FallbackRun, TrySaveRun, SaveRun, Verdicts
<1>3. TypeOK'
  <2>0. ingress' \in [Runs -> IngressStates]
    BY <1>1 DEF IInv, TypeOK, IngressStates
  <2>1. row' \in [Runs -> RowStates]
    BY <1>2, Zenon DEF IInv, TypeOK, RowStates
  <2>2. callbacks' \in [Runs -> Nat]
    BY <1>1, SMTT(20) DEF IInv, TypeOK
  <2> QED
    BY <1>1, <2>0, <2>1, <2>2, Zenon DEF IInv, TypeOK, workerVars
<1>4. \A q \in Runs : q # r => SameRun(q)
  <2>1. \A q \in Runs : q # r => row'[q] = row[q] /\ ingress'[q] = ingress[q]
    BY <1>1, <1>2, Zenon DEF IInv, TypeOK
  <2>2. \A q \in Runs : q # r => callbacks'[q] = callbacks[q]
    BY <1>1 DEF IInv, TypeOK
  <2> QED
    BY <1>1, <2>1, <2>2 DEF SameRun
<1>5. /\ published'[r] = <<>> /\ stored'[r] \cap TerminalEvents = {}
      /\ deadLetters'[r] = 0 /\ ingress'[r] = "closed"
  BY <1>1 DEF Fresh, IInv, TypeOK
<1>6. callbacks'[r] \in {0, 1}
  BY <1>1 DEF Fresh, IInv, TypeOK
<1>7. RunInv(r)'
  BY <1>5, <1>6, SilentRun
<1>8. \A v \in Workers : SameWorker(v)
  BY <1>1, Zenon DEF SameWorker, workerVars
<1> QED
  BY <1>1, <1>3, <1>4, <1>5, <1>7, <1>8, HandlerStepKeepsIInv DEF BeforeQueue

\* A crash leaves what the store and the outside know.
LEMMA CrashStep ==
  ASSUME IInv, Crash PROVE IInv'
<1> USE RunnerAssumption
<1>1. /\ queue' = <<>> /\ wpc' = [w \in Workers |-> "idle"]
      /\ wrun' = [w \in Workers |-> NoRun]
      /\ UNCHANGED <<withCallback, retries, storeVars, outVars>>
  BY DEF Crash
<1>2. ingress' = [r \in Runs |-> IF ingress[r] \in {"saved", "rejected", "fallback"}
                                 THEN "closed" ELSE ingress[r]]
  BY DEF Crash
<1>3. TypeOK'
  <2>1. ingress' \in [Runs -> IngressStates]
    BY <1>2 DEF IInv, TypeOK, IngressStates
  <2>2. /\ wpc' \in [Workers -> PCs] /\ wrun' \in [Workers -> Runs \cup {NoRun}]
        /\ attempt' \in [Workers -> 0..(MaxRetries + 1)]
        /\ finalErr' \in [Workers -> Errors]
        /\ verdict' \in [Workers -> Verdicts \cup {"none"}]
        /\ ctxDone' = {} /\ persistDone' = {}
    BY SMTT(20) DEF Crash, PCs, Errors
  <2>3. crashes' \in 0..MaxCrashes /\ runs' = {}
    BY SMTT(30) DEF Crash, IInv, TypeOK
  <2>4. queue' \in Seq(Runs) /\ Len(queue') <= QueueSize
    BY <1>1
  <2> QED
    BY <1>1, <2>1, <2>2, <2>3, <2>4, SMTT(20) DEF IInv, TypeOK, storeVars, outVars
<1>4. OnePlace'
  BY <1>1 DEF OnePlace
<1>5. \A q \in Runs : ingress'[q] \in BeforeQueue => Fresh(q)'
  BY <1>1, <1>2 DEF IInv, BeforeQueue, Fresh, storeVars, outVars
<1>6. \A w \in Workers : WorkerInv(w)'
  BY <1>1 DEF WorkerInv
<1>7. ASSUME NEW q \in Runs PROVE RunInv(q)'
  <2>1. RunInv(q) /\ UNCHANGED <<storeVars, outVars>>
    BY <1>1 DEF IInv
  <2>2. ingress'[q] = "accepted" => ingress[q] = "accepted"
    BY <1>2
  <2>3. EventsInOrder(q)' /\ StoredMatchesRow(q)'
    BY <2>1 DEF RunInv, EventsInOrder, StoredMatchesRow, storeVars, outVars
  <2>4. BuriedRunFailed(q)'
    BY <2>1 DEF RunInv, BuriedRunFailed, LastEvent, storeVars, outVars
  <2>5. CalledBackOnce(q)'
    BY <2>1, <2>2 DEF RunInv, CalledBackOnce, LastEvent, outVars
  <2> QED
    BY <2>3, <2>4, <2>5 DEF RunInv
<1> QED
  BY <1>1, <1>3, <1>4, <1>5, <1>6, <1>7, SMTT(30) DEF IInv

\* Initially every run is fresh and every worker idle.
LEMMA InitIInv == Init => IInv
<1> SUFFICES ASSUME Init PROVE IInv
  OBVIOUS
<1> USE RunnerAssumption
<1>1. TypeOK
  BY DEF Init, TypeOK, IngressStates, PCs, Errors, RowStates
<1>2. OnePlace
  BY DEF Init, OnePlace
<1>3. \A r \in Runs : Fresh(r)
  BY DEF Init, Fresh, Verdicts
<1>4. \A w \in Workers : WorkerInv(w)
  BY DEF Init, WorkerInv
<1>5. ASSUME NEW r \in Runs PROVE RunInv(r)
  <2>1. EventsInOrder(r)
    BY DEF Init, EventsInOrder
  <2>2. BuriedRunFailed(r) /\ CalledBackOnce(r)
    BY DEF Init, BuriedRunFailed, CalledBackOnce
  <2>3. StoredMatchesRow(r)
    BY DEF Init, StoredMatchesRow
  <2> QED
    BY <2>1, <2>2, <2>3 DEF RunInv
<1> QED
  BY <1>1, <1>2, <1>3, <1>4, <1>5 DEF IInv, Init

\* IInv is inductive.
LEMMA NextKeepsIInv == IInv /\ [Next]_vars => IInv'
<1> SUFFICES ASSUME IInv, [Next]_vars PROVE IInv'
  OBVIOUS
<1>1. ASSUME NEW r \in Runs, CreateRun(r) PROVE IInv'
  BY <1>1, SavePendingStep DEF CreateRun
<1>2. ASSUME NEW r \in Runs, ReplayDeadLetter(r) PROVE IInv'
  <2>1. PICK d \in Runs : \E n \in {retries[d]} \cup 0..MaxRetries : SavePending(r, {}, n)
    BY <1>2 DEF ReplayDeadLetter
  <2>2. retries[d] \in 0..MaxRetries
    BY DEF IInv, TypeOK
  <2> QED
    BY <2>1, <2>2, SavePendingStep
<1>3. ASSUME NEW r \in Runs, WebhookRun(r) PROVE IInv'
  BY <1>3, SavePendingStep, RunnerAssumption DEF WebhookRun
<1>4. ASSUME NEW r \in Runs, SubmitUnsaved(r) \/ HandlerStep(r) PROVE IInv'
  BY <1>4, SubmitStep, RefusedStep DEF HandlerStep
<1>5. ASSUME NEW r \in Runs, CancelRun(r) PROVE IInv'
  BY <1>5, CancelRunStep
<1>6. ASSUME NEW w \in Workers, WorkerStep(w) PROVE IInv'
  BY <1>6, DequeueStep, SetRunCancelStep, SaveRunningStep, EmitInitStep,
     AttemptSucceedsStep, AttemptRetriesStep, AttemptFailsStep, BackoffElapsesStep,
     BackoffAbortsStep, DecideStep, SettleStep, AnnounceStep, PersistDeadLetterStep,
     FinishStep DEF WorkerStep
<1>7. ASSUME NEW w \in Workers, PersistTimeout(w) PROVE IInv'
  BY <1>7, PersistTimeoutStep
<1>8. CASE Crash
  BY <1>8, CrashStep
<1>9. CASE UNCHANGED vars
  BY <1>9, StutterStep
<1> QED
  BY <1>1, <1>2, <1>3, <1>4, <1>5, <1>6, <1>7, <1>8, <1>9 DEF Next, Quiescent

\* The inductive invariant holds in every reachable state of the run pipeline.
THEOREM RunnerInvariant == Spec => []IInv
<1>1. Init => IInv
  BY InitIInv
<1>2. IInv /\ [Next]_vars => IInv'
  BY NextKeepsIInv
<1> QED
  BY <1>1, <1>2, PTL DEF Spec

\* The type invariant of the run pipeline, for any numbers of runs and workers.
THEOREM RunnerTypeOK == Spec => []TypeOK
<1>1. IInv => TypeOK
  BY DEF IInv
<1> QED
  BY <1>1, RunnerInvariant, PTL

\* Runner.worker never executes a run that another worker executes or that
\* still waits in the queue.
THEOREM RunInOnePlace == Spec => []OnePlace
<1>1. IInv => OnePlace
  BY DEF IInv
<1> QED
  BY <1>1, RunnerInvariant, PTL

\* emitEvent publishes a run's events in the order handleStream relies on.
THEOREM RunEventOrder == Spec => []EventOrder
<1>1. IInv => EventOrder
  BY DEF IInv, RunInv, EventOrder
<1> QED
  BY <1>1, RunnerInvariant, PTL

\* persistDeadLetter buries a run once, and only one that execute announced as
\* failed.
THEOREM DeadLetterOfFailedRun == Spec => []DeadLetterMeansFailed
<1>1. IInv => DeadLetterMeansFailed
  BY DEF IInv, RunInv, DeadLetterMeansFailed
<1> QED
  BY <1>1, RunnerInvariant, PTL

\* The callback of a webhook run is made at most once, by the worker or by the
\* fallback, and by the worker only after the terminal event.
THEOREM CallbackAtMostOnce == Spec => []CallbackOnce
<1>1. IInv => CallbackOnce
  BY DEF IInv, RunInv, CallbackOnce
<1> QED
  BY <1>1, RunnerInvariant, PTL

\* Without store errors a stored terminal event agrees with the row execute
\* saved, however slow the run and wherever the process dies.
THEOREM StoredEventAgrees == Spec => []StoredEventMatchesRow
<1>1. IInv => StoredEventMatchesRow
  BY DEF IInv, RunInv, StoredEventMatchesRow
<1> QED
  BY <1>1, RunnerInvariant, PTL

\* The worker steps that save the row are the only ones that change it, and
\* those that emit an event the only ones that publish.
LEMMA QuietWorkerStep ==
  ASSUME NEW w \in Workers, WorkerStep(w)
  PROVE  /\ row' = row \/ SaveRunning(w) \/ Settle(w)
         /\ published' = published \/ EmitInit(w) \/ AttemptRetries(w) \/ Announce(w)
<1>1. CASE Dequeue(w) \/ SetRunCancel(w) \/ AttemptSucceeds(w) \/ AttemptFails(w)
  BY <1>1 DEF Dequeue, SetRunCancel, AttemptSucceeds, AttemptFails, storeVars, outVars
<1>2. CASE BackoffElapses(w) \/ BackoffAborts(w) \/ Decide(w) \/ PersistDeadLetter(w) \/ Finish(w)
  BY <1>2 DEF BackoffElapses, BackoffAborts, Decide, PersistDeadLetter, Finish, storeVars, outVars
<1>3. CASE SaveRunning(w) \/ Settle(w)
  BY <1>3, Zenon DEF SaveRunning, Settle, outVars
<1>4. CASE EmitInit(w) \/ AttemptRetries(w) \/ Announce(w)
  BY <1>4 DEF EmitInit, AttemptRetries, Announce
<1> QED
  BY <1>1, <1>2, <1>3, <1>4 DEF WorkerStep

\* A step that is no worker's publishes nothing, and changes the row of a run
\* that is not in the queue yet, if any.
LEMMA QuietHandlerStep ==
  ASSUME NEW r \in Runs,
         \/ CreateRun(r) \/ ReplayDeadLetter(r) \/ WebhookRun(r)
         \/ SubmitUnsaved(r) \/ HandlerStep(r) \/ CancelRun(r)
  PROVE  /\ published' = published
         /\ \/ row' = row
            \/ ingress[r] \in BeforeQueue /\ \E s : row' = [row EXCEPT ![r] = s]
<1>1. ASSUME NEW cb, NEW n, SavePending(r, cb, n)
      PROVE  /\ published' = published
             /\ \/ row' = row
                \/ ingress[r] \in BeforeQueue /\ \E s : row' = [row EXCEPT ![r] = s]
  BY <1>1, SMTT(20) DEF SavePending, SaveRun, BeforeQueue, outVars
<1>2. CASE CreateRun(r) \/ ReplayDeadLetter(r) \/ WebhookRun(r)
  BY <1>1, <1>2 DEF CreateRun, ReplayDeadLetter, WebhookRun
<1>3. CASE SubmitUnsaved(r) \/ SubmitSaved(r) \/ CancelRun(r)
  BY <1>3 DEF SubmitUnsaved, SubmitSaved, CancelRun, storeVars, outVars
<1>4. CASE RejectRun(r) \/ FallbackRun(r)
  BY <1>4 DEF RejectRun, FallbackRun, TrySaveRun, SaveRun, BeforeQueue, outVars
<1> QED
  BY <1>2, <1>3, <1>4 DEF HandlerStep

\* No save of a handler or a worker overwrites a terminal row.
THEOREM TerminalRowStays == Spec => TerminalRowIsFinal
<1> DEFINE Kept == \A r \in Runs : row[r] \in Verdicts => row'[r] = row[r]
<1>1. ASSUME IInv, [Next]_vars PROVE [Kept]_vars
  <2>1. ASSUME NEW r \in Runs,
               \/ CreateRun(r) \/ ReplayDeadLetter(r) \/ WebhookRun(r)
               \/ SubmitUnsaved(r) \/ HandlerStep(r) \/ CancelRun(r)
        PROVE  Kept
    <3>1. ingress[r] \in BeforeQueue => row[r] \notin Verdicts
      BY <1>1, Zenon DEF IInv, Fresh
    <3> QED
      BY <1>1, <2>1, <3>1, QuietHandlerStep DEF IInv, TypeOK
  <2>2. ASSUME NEW w \in Workers, WorkerStep(w) PROVE Kept
    <3>1. CASE row' = row
      BY <3>1
    <3>2. CASE SaveRunning(w) \/ Settle(w)
      <4>1. wpc[w] \in {"starting", "settle"}
        BY <3>2, Zenon DEF SaveRunning, Settle, Goto
      <4>2. row' = row \/ \E s : row' = [row EXCEPT ![wrun[w]] = s]
        BY <3>2 DEF SaveRunning, Settle, TrySaveRun, SaveRun
      <4>3. row[wrun[w]] \notin Verdicts
        BY <1>1, <4>1 DEF IInv, WorkerInv, Fresh
      <4> QED
        BY <1>1, <4>2, <4>3 DEF IInv, TypeOK
    <3> QED
      BY <2>2, <3>1, <3>2, QuietWorkerStep
  <2>3. ASSUME NEW w \in Workers, PersistTimeout(w) PROVE Kept
    BY <2>3, SMTT(20) DEF PersistTimeout, storeVars
  <2>4. CASE Crash
    BY <2>4 DEF Crash, storeVars
  <2> QED
    BY <1>1, <2>1, <2>2, <2>3, <2>4, Zenon DEF Next, Quiescent
<1> QED
  BY <1>1, RunnerInvariant, PTL DEF Spec, TerminalRowIsFinal

\* The events the workers publish for a run follow RunEvents, the order the
\* stream handler relies on: the run pipeline implements that specification.
THEOREM RunnerImplementsRunEvents == Spec => ImplementsRunEvents
<1> USE RunnerAssumption
<1>1. Init => Events!EventsInit
  BY DEF Init, Events!EventsInit
<1>2. ASSUME IInv, [Next]_vars PROVE [Events!EventsNext]_published
  <2>0. ASSUME NEW w \in Workers, NEW e \in EventTypes, wpc[w] # "idle",
               published' = [published EXCEPT ![wrun[w]] = Append(@, e)],
               Events!MayFollow(published[wrun[w]], e)
        PROVE  Events!EventsNext
    <3>1. PICK r \in Runs : r = wrun[w]
      BY <1>2, <2>0, BusyWorker
    <3>2. Events!Emit(r, e) /\ e \in Events!EventTypes
      BY <2>0, <3>1 DEF Events!Emit, Events!EventTypes, EventTypes
    <3> QED
      BY <3>2 DEF Events!EventsNext
  <2>1. ASSUME NEW w \in Workers, EmitInit(w) PROVE Events!EventsNext
    <3>1. WorkerInv(w) /\ wpc[w] = "announcing"
      BY <1>2, <2>1, Zenon DEF EmitInit, Goto, IInv
    <3>2. published[wrun[w]] = <<>>
      BY <3>1 DEF WorkerInv, Fresh
    <3> QED
      BY <2>0, <2>1, <3>1, <3>2, Zenon DEF EmitInit, EmitEvent, Events!MayFollow, EventTypes
  <2>2. ASSUME NEW w \in Workers, AttemptRetries(w) PROVE Events!EventsNext
    <3>1. wpc[w] = "attempt" /\ attempt[w] < retries[wrun[w]] + 1
      BY <2>2, Zenon DEF AttemptRetries, Goto
    <3>2. /\ wrun[w] \in Runs /\ Started(wrun[w])
          /\ Len(published[wrun[w]]) = attempt[w] /\ attempt[w] \in 1..(retries[wrun[w]] + 1)
      BY <1>2, <3>1, BusyWorker DEF WorkerInv
    <3>3. retries[wrun[w]] \in 0..MaxRetries
      BY <1>2, <3>2, Zenon DEF IInv, TypeOK
    <3>4. Len(published[wrun[w]]) <= MaxRetries
      BY <3>1, <3>2, <3>3
    <3>5. Events!MayFollow(published[wrun[w]], "reasoning")
      BY <3>2, <3>4 DEF Started, LastEvent, Events!MayFollow, Events!Ended,
                        Events!TerminalEvents, TerminalEvents
    <3> QED
      BY <2>0, <2>2, <3>1, <3>5, Zenon DEF AttemptRetries, EmitEvent, EventTypes
  <2>3. ASSUME NEW w \in Workers, Announce(w) PROVE Events!EventsNext
    <3>1. wpc[w] = "announce" /\ WorkerInv(w)
      BY <1>2, <2>3 DEF Announce, Goto, IInv
    <3>2. Started(wrun[w]) /\ verdict[w] \in Verdicts
      BY <3>1 DEF WorkerInv
    <3>3. TerminalEvent(verdict[w]) \in TerminalEvents
      BY <3>2 DEF Verdicts, TerminalEvent, TerminalEvents
    <3>4. Events!MayFollow(published[wrun[w]], TerminalEvent(verdict[w]))
      BY <3>2, <3>3 DEF Started, LastEvent, Events!MayFollow, Events!Ended,
                        Events!TerminalEvents, TerminalEvents
    <3>5. TerminalEvent(verdict[w]) \in EventTypes
      BY <3>3 DEF EventTypes, TerminalEvents
    <3> QED
      BY <2>0, <2>3, <3>1, <3>4, <3>5, Zenon DEF Announce, EmitEvent
  <2>4. ASSUME NEW w \in Workers, WorkerStep(w) PROVE Events!EventsNext \/ published' = published
    BY <2>1, <2>2, <2>3, <2>4, QuietWorkerStep
  <2>5. ASSUME NEW w \in Workers, PersistTimeout(w) PROVE published' = published
    BY <2>5 DEF PersistTimeout, outVars
  <2>6. CASE Crash
    BY <2>6 DEF Crash, outVars
  <2>7. CASE UNCHANGED vars
    BY <2>7 DEF vars, outVars
  <2> QED
    BY <1>2, <2>4, <2>5, <2>6, <2>7, QuietHandlerStep DEF Next, Quiescent
<1> QED
  BY <1>1, <1>2, RunnerInvariant, PTL DEF Spec, ImplementsRunEvents, Events!EventsSpec

=============================================================================

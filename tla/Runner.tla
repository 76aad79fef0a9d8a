------------------------------- MODULE Runner -------------------------------
(***************************************************************************)
(* The run pipeline of the orchestration server: the five ways a run is    *)
(* submitted (API, dead-letter replay, webhook, event trigger, schedule),  *)
(* the bounded in-memory queue, the workers that execute runs with retries *)
(* and backoff, cancellation, the run rows, stored events and dead letters *)
(* of the SQLite store, and a crash of the process.                        *)
(*                                                                         *)
(* A run's agent, goal and payload are left out: no step depends on them.  *)
(* Time is left out: a timer that may have fired is a choice.              *)
(***************************************************************************)
EXTENDS Naturals, Sequences, FiniteSets

CONSTANTS Runs,          \* run identifiers (uuid.New(): never reused)
          Workers,       \* the goroutines started by Runner.Start
          NoRun,         \* wrun of a worker that executes nothing
          QueueSize,     \* capacity of the memory queue's channel
          MaxRetries,    \* bound on max_retries
          MaxCrashes,    \* bound on process crashes
          StoreFaults,   \* may a store call fail (I/O error, busy for 4 tries)?
          SlowRuns       \* may a run outlive the 2 s of its persist context?

ASSUME RunnerAssumption == /\ NoRun \notin Runs
                           /\ QueueSize \in Nat \ {0}
                           /\ MaxRetries \in Nat
                           /\ MaxCrashes \in Nat
                           /\ StoreFaults \in BOOLEAN
                           /\ SlowRuns \in BOOLEAN

VARIABLES
  (* the submitting side *)
  ingress,      \* ingress[r]: progress of the handler that submits r
  withCallback, \* the runs whose request has a CallbackFn (webhook runs)
  retries,      \* retries[r]: RunRequest.MaxRetries
  (* Runner and Server *)
  queue,        \* memoryQueue.ch
  runs,         \* the keys of Server.runs (cancel functions)
  wpc,          \* wpc[w]: where worker w is in Runner.worker / Runner.execute
  wrun,         \* wrun[w]: the run it executes
  attempt,      \* attempt[w]: the loop variable of execute
  ctxDone,      \* the workers whose runCtx is cancelled
  persistDone,  \* the workers whose persistCtx has timed out
  finalErr,     \* finalErr[w]: kind of the last error
  verdict,      \* verdict[w]: meta.State once decided
  (* the store *)
  row,          \* row[r]: state column of the run's row
  stored,       \* stored[r]: types of the run's rows in events
  deadLetters,  \* deadLetters[r]: number of the run's rows in dead_letters
  (* what the outside has seen *)
  published,    \* published[r]: types of the events given to EventHub.Publish
  callbacks,    \* callbacks[r]: how often RunRequest.CallbackFn was called
  crashes       \* how often the process has died

ingressVars == <<ingress, withCallback, retries>>
workerVars  == <<wpc, wrun, attempt, ctxDone, persistDone, finalErr, verdict>>
storeVars   == <<row, stored, deadLetters>>
outVars     == <<published, callbacks>>
vars == <<ingressVars, queue, runs, workerVars, storeVars, outVars, crashes>>

Verdicts == {"completed", "failed", "interrupted"}
RowStates == {"absent", "pending", "running"} \cup Verdicts
EventTypes == {"init", "reasoning", "completed", "error", "interrupted"}
TerminalEvents == {"completed", "error", "interrupted"}
IngressStates == {"new", "saved", "rejected", "fallback", "accepted", "closed"}
PCs == {"idle", "dequeued", "starting", "announcing", "attempt", "backoff",
        "verdict", "settle", "announce", "bury", "finish"}
Errors == {"none", "exec", "canceled", "deadline"}

\* The event execute publishes last, from the state it saved.
TerminalEvent(v) == IF v = "failed" THEN "error" ELSE v

\* The workers that execute r.
Executing(r) == {w \in Workers : wrun[w] = r}

TypeOK ==
  /\ ingress \in [Runs -> IngressStates]
  /\ withCallback \subseteq Runs
  /\ retries \in [Runs -> 0..MaxRetries]
  /\ queue \in Seq(Runs) /\ Len(queue) <= QueueSize
  /\ runs \subseteq Runs
  /\ wpc \in [Workers -> PCs]
  /\ wrun \in [Workers -> Runs \cup {NoRun}]
  /\ attempt \in [Workers -> 0..(MaxRetries + 1)]
  /\ ctxDone \subseteq Workers
  /\ persistDone \subseteq Workers
  /\ finalErr \in [Workers -> Errors]
  /\ verdict \in [Workers -> Verdicts \cup {"none"}]
  /\ row \in [Runs -> RowStates]
  /\ stored \in [Runs -> SUBSET EventTypes]
  /\ deadLetters \in [Runs -> Nat]
  /\ published \in [Runs -> Seq(EventTypes)]
  /\ callbacks \in [Runs -> Nat]
  /\ crashes \in 0..MaxCrashes

Init ==
  /\ ingress = [r \in Runs |-> "new"]
  /\ withCallback = {}
  /\ retries = [r \in Runs |-> 0]
  /\ queue = <<>>
  /\ runs = {}
  /\ wpc = [w \in Workers |-> "idle"]
  /\ wrun = [w \in Workers |-> NoRun]
  /\ attempt = [w \in Workers |-> 0]
  /\ ctxDone = {}
  /\ persistDone = {}
  /\ finalErr = [w \in Workers |-> "none"]
  /\ verdict = [w \in Workers |-> "none"]
  /\ row = [r \in Runs |-> "absent"]
  /\ stored = [r \in Runs |-> {}]
  /\ deadLetters = [r \in Runs |-> 0]
  /\ published = [r \in Runs |-> <<>>]
  /\ callbacks = [r \in Runs |-> 0]
  /\ crashes = 0

-----------------------------------------------------------------------------
(* Store calls.  A call whose context is done fails; any call may fail     *)
(* when StoreFaults; otherwise withStoreRetry gets it through.             *)

SaveRun(r, s) == row' = [row EXCEPT ![r] = s]

TrySaveRun(r, s, live) ==
  \/ live /\ SaveRun(r, s)
  \/ (~live \/ StoreFaults) /\ UNCHANGED row

\* emitEvent: publish to the hub, then store with the caller's context.
EmitEvent(r, e, live) ==
  /\ published' = [published EXCEPT ![r] = Append(@, e)]
  /\ \/ live /\ stored' = [stored EXCEPT ![r] = @ \cup {e}]
     \/ (~live \/ StoreFaults) /\ UNCHANGED stored

-----------------------------------------------------------------------------
(* The submitting handlers.                                                *)

\* A handler that stores the run as "pending" before it submits it.
SavePending(r, cb, n) ==
  /\ ingress[r] = "new"
  /\ withCallback' = withCallback \cup cb
  /\ retries' = [retries EXCEPT ![r] = n]
  /\ \/ SaveRun(r, "pending") /\ ingress' = [ingress EXCEPT ![r] = "saved"]
     \/ StoreFaults /\ UNCHANGED row
        /\ ingress' = [ingress EXCEPT ![r] = "closed"]
  /\ UNCHANGED <<queue, runs, workerVars, stored, deadLetters, outVars, crashes>>

\* handleCreateRun, to the end of its SaveRun.  A failure is a 500.
CreateRun(r) == \E n \in 0..MaxRetries : SavePending(r, {}, n)

\* handleReplayDeadLetter: a new run from the latest dead letter of run d,
\* with the dead letter's max_retries unless the request overrides it.
ReplayDeadLetter(r) ==
  \E d \in Runs : /\ deadLetters[d] > 0
                  /\ \E n \in {retries[d]} \cup 0..MaxRetries :
                        SavePending(r, {}, n)

\* executeWebhookRun, started after HandleWebhook has answered 202: a run
\* whose row cannot be saved is gone.
WebhookRun(r) == SavePending(r, {r}, 0)

\* memoryQueue.Enqueue: never blocks, refuses when the channel is full.
Enqueue(r) == Len(queue) < QueueSize /\ queue' = Append(queue, r)

Refused == Len(queue) = QueueSize /\ UNCHANGED queue

\* Mutant: executeWebhookRun does not return after a successful Submit.
SubmitSavedFallsThrough(r) ==
  /\ ingress[r] = "saved"
  /\ Enqueue(r) \/ Refused
  /\ ingress' = [ingress EXCEPT ![r] = IF r \in withCallback THEN "fallback" ELSE "accepted"]
  /\ UNCHANGED <<withCallback, retries, runs, workerVars, storeVars, outVars, crashes>>

\* Runner.Submit by a handler that saved the row.  A refused webhook run is
\* executed by its own goroutine; a refused API run is marked failed.
SubmitSaved(r) ==
  /\ ingress[r] = "saved"
  /\ \/ Enqueue(r) /\ ingress' = [ingress EXCEPT ![r] = "accepted"]
     \/ Refused /\ ingress' = [ingress EXCEPT ![r] =
                      IF r \in withCallback THEN "fallback" ELSE "rejected"]
  /\ UNCHANGED <<withCallback, retries, runs, workerVars, storeVars, outVars, crashes>>

\* The error branch of handleCreateRun and handleReplayDeadLetter (503).
RejectRun(r) ==
  /\ ingress[r] = "rejected"
  /\ TrySaveRun(r, "failed", TRUE)
  /\ ingress' = [ingress EXCEPT ![r] = "closed"]
  /\ UNCHANGED <<withCallback, retries, queue, runs, workerVars, stored, deadLetters,
                 outVars, crashes>>

\* The fallback of executeWebhookRun: execute, save the outcome, call back.
\* No cancel function, no events, no dead letter.
FallbackRun(r) ==
  /\ ingress[r] = "fallback"
  /\ \E s \in {"completed", "failed"} : TrySaveRun(r, s, TRUE)
  /\ callbacks' = [callbacks EXCEPT ![r] = @ + 1]
  /\ ingress' = [ingress EXCEPT ![r] = "closed"]
  /\ UNCHANGED <<withCallback, retries, queue, runs, workerVars, stored, deadLetters,
                 published, crashes>>

\* The trigger bus handler of Server.Run and the scheduler's runFn: submit
\* without a row; the error of a full queue is dropped.
SubmitUnsaved(r) ==
  /\ ingress[r] = "new"
  /\ \/ Enqueue(r) /\ ingress' = [ingress EXCEPT ![r] = "accepted"]
     \/ Refused /\ ingress' = [ingress EXCEPT ![r] = "closed"]
  /\ UNCHANGED <<withCallback, retries, runs, workerVars, storeVars, outVars,
                 crashes>>

\* handleCancelRun: only a run with a registered cancel function is reached.
CancelRun(r) ==
  /\ r \in runs
  /\ ctxDone' = ctxDone \cup Executing(r)
  /\ UNCHANGED <<ingressVars, queue, runs, wpc, wrun, attempt, persistDone,
                 finalErr, verdict, storeVars, outVars, crashes>>

-----------------------------------------------------------------------------
(* Runner.worker and Runner.execute.                                       *)

Goto(w, from, to) == wpc[w] = from /\ wpc' = [wpc EXCEPT ![w] = to]

\* Mutant: the request is read but stays in the queue.
DequeuePeeks(w) ==
  /\ Goto(w, "idle", "dequeued")
  /\ queue # <<>>
  /\ wrun' = [wrun EXCEPT ![w] = Head(queue)]
  /\ UNCHANGED <<ingressVars, queue, runs, attempt, ctxDone, persistDone, finalErr,
                 verdict, storeVars, outVars, crashes>>

\* memoryQueue.Dequeue
Dequeue(w) ==
  /\ Goto(w, "idle", "dequeued")
  /\ queue # <<>>
  /\ wrun' = [wrun EXCEPT ![w] = Head(queue)]
  /\ queue' = Tail(queue)
  /\ UNCHANGED <<ingressVars, runs, attempt, ctxDone, persistDone, finalErr,
                 verdict, storeVars, outVars, crashes>>

\* The contexts are created and setRunCancel registers the cancel function.
SetRunCancel(w) ==
  /\ Goto(w, "dequeued", "starting")
  /\ runs' = runs \cup {wrun[w]}
  /\ UNCHANGED <<ingressVars, queue, wrun, attempt, ctxDone, persistDone,
                 finalErr, verdict, storeVars, outVars, crashes>>

\* The row becomes "running", unless the run was cancelled already.
SaveRunning(w) ==
  /\ Goto(w, "starting", "announcing")
  /\ TrySaveRun(wrun[w], "running", w \notin ctxDone)
  /\ UNCHANGED <<ingressVars, queue, runs, wrun, attempt, ctxDone, persistDone,
                 finalErr, verdict, stored, deadLetters, outVars, crashes>>

EmitInit(w) ==
  /\ Goto(w, "announcing", "attempt")
  /\ EmitEvent(wrun[w], "init", w \notin ctxDone)
  /\ attempt' = [attempt EXCEPT ![w] = 1]
  /\ UNCHANGED <<ingressVars, queue, runs, wrun, ctxDone, persistDone,
                 finalErr, verdict, row, deadLetters, callbacks, crashes>>

\* ExecuteStep returns without an error; it may do so after a cancellation.
AttemptSucceeds(w) ==
  /\ Goto(w, "attempt", "settle")
  /\ verdict' = [verdict EXCEPT ![w] = "completed"]
  /\ UNCHANGED <<ingressVars, queue, runs, wrun, attempt, ctxDone, persistDone,
                 finalErr, storeVars, outVars, crashes>>

\* Mutant: a retry after the last attempt.
AttemptRetriesOnceMore(w) ==
  /\ Goto(w, "attempt", "backoff")
  /\ attempt[w] <= retries[wrun[w]] + 1
  /\ finalErr' = [finalErr EXCEPT ![w] = "exec"]
  /\ EmitEvent(wrun[w], "reasoning", w \notin ctxDone)
  /\ UNCHANGED <<ingressVars, queue, runs, wrun, attempt, ctxDone, persistDone,
                 verdict, row, deadLetters, callbacks, crashes>>

\* ExecuteStep fails with an error that is not a context error, and another
\* attempt is left: the retry is announced and the backoff timer started.
AttemptRetries(w) ==
  /\ Goto(w, "attempt", "backoff")
  /\ attempt[w] < retries[wrun[w]] + 1
  /\ finalErr' = [finalErr EXCEPT ![w] = "exec"]
  /\ EmitEvent(wrun[w], "reasoning", w \notin ctxDone)
  /\ UNCHANGED <<ingressVars, queue, runs, wrun, attempt, ctxDone, persistDone,
                 verdict, row, deadLetters, callbacks, crashes>>

\* ExecuteStep fails for good: the last attempt, or a context error, which is
\* never retried.  context.Canceled takes a cancellation; a deadline may be
\* the request's timeout or one of the executor's own.
AttemptFails(w) ==
  /\ Goto(w, "attempt", "verdict")
  /\ \E err \in {"exec", "canceled", "deadline"} :
        /\ err = "exec" => attempt[w] = retries[wrun[w]] + 1
        /\ err = "canceled" => w \in ctxDone
        /\ finalErr' = [finalErr EXCEPT ![w] = err]
  /\ UNCHANGED <<ingressVars, queue, runs, wrun, attempt, ctxDone, persistDone,
                 verdict, storeVars, outVars, crashes>>

\* The two cases of the backoff select; when both are ready Go picks either.
BackoffElapses(w) ==
  /\ Goto(w, "backoff", "attempt")
  /\ attempt' = [attempt EXCEPT ![w] = @ + 1]
  /\ UNCHANGED <<ingressVars, queue, runs, wrun, ctxDone, persistDone,
                 finalErr, verdict, storeVars, outVars, crashes>>

BackoffAborts(w) ==
  /\ Goto(w, "backoff", "verdict")
  /\ w \in ctxDone
  /\ finalErr' = [finalErr EXCEPT ![w] = "canceled"]
  /\ UNCHANGED <<ingressVars, queue, runs, wrun, attempt, ctxDone, persistDone,
                 verdict, storeVars, outVars, crashes>>

\* Mutant: the state of the run context is not consulted.
DecideByError(w) ==
  /\ Goto(w, "verdict", "settle")
  /\ verdict' = [verdict EXCEPT ![w] =
        IF finalErr[w] \in {"canceled", "deadline"} THEN "interrupted" ELSE "failed"]
  /\ UNCHANGED <<ingressVars, queue, runs, wrun, attempt, ctxDone, persistDone,
                 finalErr, storeVars, outVars, crashes>>

\* failed, or interrupted when the run context is done or the error is a
\* context error.
Decide(w) ==
  /\ Goto(w, "verdict", "settle")
  /\ verdict' = [verdict EXCEPT ![w] =
        IF w \in ctxDone \/ finalErr[w] \in {"canceled", "deadline"}
        THEN "interrupted" ELSE "failed"]
  /\ UNCHANGED <<ingressVars, queue, runs, wrun, attempt, ctxDone, persistDone,
                 finalErr, storeVars, outVars, crashes>>

\* Mutant: the final state is saved with the run context.
SettleWithRunCtx(w) ==
  /\ Goto(w, "settle", "announce")
  /\ TrySaveRun(wrun[w], verdict[w], w \notin ctxDone)
  /\ UNCHANGED <<ingressVars, queue, runs, wrun, attempt, ctxDone, persistDone,
                 finalErr, verdict, stored, deadLetters, outVars, crashes>>

\* The final state is saved with the persist context, not the run context.
Settle(w) ==
  /\ Goto(w, "settle", "announce")
  /\ TrySaveRun(wrun[w], verdict[w], w \notin persistDone)
  /\ UNCHANGED <<ingressVars, queue, runs, wrun, attempt, ctxDone, persistDone,
                 finalErr, verdict, stored, deadLetters, outVars, crashes>>

\* Mutant: every run that did not complete is dead-lettered.
AnnounceBuriesInterrupted(w) ==
  /\ Goto(w, "announce", IF verdict[w] # "completed" THEN "bury" ELSE "finish")
  /\ EmitEvent(wrun[w], TerminalEvent(verdict[w]), w \notin persistDone)
  /\ UNCHANGED <<ingressVars, queue, runs, wrun, attempt, ctxDone, persistDone,
                 finalErr, verdict, row, deadLetters, callbacks, crashes>>

Announce(w) ==
  /\ Goto(w, "announce", IF verdict[w] = "failed" THEN "bury" ELSE "finish")
  /\ EmitEvent(wrun[w], TerminalEvent(verdict[w]), w \notin persistDone)
  /\ UNCHANGED <<ingressVars, queue, runs, wrun, attempt, ctxDone, persistDone,
                 finalErr, verdict, row, deadLetters, callbacks, crashes>>

PersistDeadLetter(w) ==
  /\ Goto(w, "bury", "finish")
  /\ \/ /\ w \notin persistDone
        /\ deadLetters' = [deadLetters EXCEPT ![wrun[w]] = @ + 1]
     \/ (w \in persistDone \/ StoreFaults) /\ UNCHANGED deadLetters
  /\ UNCHANGED <<ingressVars, queue, runs, wrun, attempt, ctxDone, persistDone,
                 finalErr, verdict, row, stored, outVars, crashes>>

\* CallbackFn (set for webhook runs only), then the deferred calls: the
\* contexts are released and clearRunCancel removes the cancel function.
Finish(w) ==
  /\ Goto(w, "finish", "idle")
  /\ callbacks' = [callbacks EXCEPT ![wrun[w]] =
                      IF wrun[w] \in withCallback THEN @ + 1 ELSE @]
  /\ runs' = runs \ {wrun[w]}
  /\ wrun' = [wrun EXCEPT ![w] = NoRun]
  /\ attempt' = [attempt EXCEPT ![w] = 0]
  /\ ctxDone' = ctxDone \ {w}
  /\ persistDone' = persistDone \ {w}
  /\ finalErr' = [finalErr EXCEPT ![w] = "none"]
  /\ verdict' = [verdict EXCEPT ![w] = "none"]
  /\ UNCHANGED <<ingressVars, queue, storeVars, published, crashes>>

\* The 2 s of the persist context, counted from the start of the execution.
PersistTimeout(w) ==
  /\ SlowRuns
  /\ wpc[w] \notin {"idle", "dequeued"} /\ w \notin persistDone
  /\ persistDone' = persistDone \cup {w}
  /\ UNCHANGED <<ingressVars, queue, runs, wpc, wrun, attempt, ctxDone,
                 finalErr, verdict, storeVars, outVars, crashes>>

\* The process dies and is started again: the queue, the executions and the
\* handlers in flight are gone, the store stays.  Nothing re-enqueues runs.
Crash ==
  /\ crashes < MaxCrashes
  /\ crashes' = crashes + 1
  /\ queue' = <<>>
  /\ runs' = {}
  /\ ingress' = [r \in Runs |-> IF ingress[r] \in {"saved", "rejected", "fallback"}
                                THEN "closed" ELSE ingress[r]]
  /\ wpc' = [w \in Workers |-> "idle"]
  /\ wrun' = [w \in Workers |-> NoRun]
  /\ attempt' = [w \in Workers |-> 0]
  /\ ctxDone' = {}
  /\ persistDone' = {}
  /\ finalErr' = [w \in Workers |-> "none"]
  /\ verdict' = [w \in Workers |-> "none"]
  /\ UNCHANGED <<withCallback, retries, storeVars, outVars>>

\* Every run of the model has been submitted and worked off.
Quiescent ==
  /\ \A r \in Runs : ingress[r] \in {"accepted", "closed"}
  /\ queue = <<>>
  /\ \A w \in Workers : wpc[w] = "idle"
  /\ UNCHANGED vars

HandlerStep(r) == SubmitSaved(r) \/ RejectRun(r) \/ FallbackRun(r)

WorkerStep(w) ==
  \/ Dequeue(w) \/ SetRunCancel(w) \/ SaveRunning(w) \/ EmitInit(w)
  \/ AttemptSucceeds(w) \/ AttemptRetries(w) \/ AttemptFails(w)
  \/ BackoffElapses(w) \/ BackoffAborts(w) \/ Decide(w) \/ Settle(w)
  \/ Announce(w) \/ PersistDeadLetter(w) \/ Finish(w)

Next ==
  \/ \E r \in Runs : \/ CreateRun(r) \/ ReplayDeadLetter(r) \/ WebhookRun(r)
                     \/ SubmitUnsaved(r) \/ HandlerStep(r) \/ CancelRun(r)
  \/ \E w \in Workers : WorkerStep(w) \/ PersistTimeout(w)
  \/ Crash
  \/ Quiescent

Spec == Init /\ [][Next]_vars

\* Goroutines are scheduled, and an attempt ends: ExecuteStep is bounded by
\* the request's timeout or by the agent engine's own.  Submissions,
\* cancellations, timeouts and crashes are the environment's choice.
Fairness == /\ \A r \in Runs : WF_vars(HandlerStep(r))
            /\ \A w \in Workers : WF_vars(WorkerStep(w))

FairSpec == Spec /\ Fairness

-----------------------------------------------------------------------------
(* Properties.                                                             *)

\* An accepted run waits at most once in the queue or is executed by exactly
\* one worker, never both: the channel hands every request to one worker and
\* nothing requeues it, so a run is never executed twice at a time.
OnePlace ==
  /\ \A i, j \in DOMAIN queue : queue[i] = queue[j] => i = j
  /\ \A v, w \in Workers : wrun[v] = wrun[w] /\ wrun[v] # NoRun => v = w
  /\ \A i \in DOMAIN queue, w \in Workers : wrun[w] # queue[i]

\* What emitEvent publishes for a run is one "init", retry notices, and at
\* most one terminal event, which is the last: the order handleStream needs.
EventsInOrder(r) ==
  \A i \in DOMAIN published[r] :
     /\ published[r][i] = "init" <=> i = 1
     /\ published[r][i] \in TerminalEvents => i = Len(published[r])

EventOrder == \A r \in Runs : EventsInOrder(r)

LastEvent(r) == published[r][Len(published[r])]

\* A run's dead letter is unique, and it exists only for a run that really
\* failed: its terminal event is "error" and its row is neither "completed"
\* nor "interrupted" (a cancelled or timed-out run is not dead-lettered).
BuriedRunFailed(r) ==
  deadLetters[r] > 0 => /\ deadLetters[r] = 1
                        /\ published[r] # <<>> /\ LastEvent(r) = "error"
                        /\ row[r] \notin {"completed", "interrupted"}

DeadLetterMeansFailed == \A r \in Runs : BuriedRunFailed(r)

\* A terminal event in the stored history agrees with the run's row: execute
\* saves the row first, with a context that does not come back to life.  Store
\* errors aside (the row's save may fail alone).
StoredMatchesRow(r) ==
  ~StoreFaults => \A v \in Verdicts : TerminalEvent(v) \in stored[r] => row[r] = v

StoredEventMatchesRow == \A r \in Runs : StoredMatchesRow(r)

\* A run is called back at most once, and a queued one only after its terminal
\* event was published.
CalledBackOnce(r) ==
  /\ callbacks[r] <= 1
  /\ callbacks[r] = 1 /\ ingress[r] = "accepted" =>
        published[r] # <<>> /\ LastEvent(r) \in TerminalEvents

CallbackOnce == \A r \in Runs : CalledBackOnce(r)

\* Once a row is completed, failed or interrupted no later save changes it:
\* "pending" is saved before the run is submitted, "failed" by a handler only
\* when the submission was refused.
TerminalRowIsFinal ==
  [][\A r \in Runs : row[r] \in Verdicts => row'[r] = row[r]]_vars

\* The published events follow the order RunEvents promises to consumers.
Events == INSTANCE RunEvents WITH log <- published
ImplementsRunEvents == Events!EventsSpec

\* The last event published for r is one of es.
EndsAs(r, es) == published[r] # <<>> /\ LastEvent(r) \in es

\* Unless the process dies, every queued run comes to an end: it is announced
\* and, store errors and an expired persist context aside, it is in the row.
QueuedRunSettles ==
  \A r \in Runs :
    (\E i \in DOMAIN queue : queue[i] = r)
       ~> /\ EndsAs(r, TerminalEvents)
          /\ StoreFaults \/ SlowRuns \/ row[r] \in Verdicts

\* A run cancelled while it is being attempted or is in backoff ends as
\* interrupted, or completed if the attempt wins the race; never as failed.
CancelTakesEffect ==
  \A r \in Runs :
    (\E w \in Executing(r) : w \in ctxDone /\ wpc[w] \in {"attempt", "backoff"})
       ~> EndsAs(r, {"interrupted", "completed"})

\* What the architecture document says of terminal failures: once execute has
\* announced the failure of a run and returned, the dead letter is there.
FailureIsDeadLettered ==
  \A r \in Runs :
    /\ published[r] # <<>> /\ LastEvent(r) = "error"
    /\ Executing(r) = {}
    /\ crashes = 0
    => deadLetters[r] = 1

-----------------------------------------------------------------------------
(* The inductive invariant behind the theorems of RunnerProofs.tla: what    *)
(* a run looks like from outside at every point of its way through the     *)
(* handler, the queue and a worker.                                        *)

\* Nothing has been published, decided, buried or called back for r.
Fresh(r) == /\ published[r] = <<>>
            /\ stored[r] \cap TerminalEvents = {}
            /\ row[r] \notin Verdicts
            /\ deadLetters[r] = 0
            /\ callbacks[r] = 0

\* "init" has been published and no terminal event has.
Started(r) == /\ published[r] # <<>> /\ LastEvent(r) \notin TerminalEvents
              /\ stored[r] \cap TerminalEvents = {}
              /\ deadLetters[r] = 0
              /\ callbacks[r] = 0

\* The terminal event for verdict v has been published.
Announced(r, v) == /\ published[r] # <<>> /\ LastEvent(r) = TerminalEvent(v)
                   /\ row[r] \in Verdicts => row[r] = v
                   /\ callbacks[r] = 0

WorkerInv(w) ==
  LET r == wrun[w] IN
  /\ wpc[w] = "idle" <=> r = NoRun
  /\ wpc[w] # "idle" => ingress[r] = "accepted"
  /\ wpc[w] \in {"dequeued", "starting", "announcing"} => Fresh(r)
  /\ wpc[w] \in {"attempt", "backoff", "verdict", "settle", "announce"} => Started(r)
  /\ wpc[w] \in {"attempt", "backoff", "verdict", "settle"} => row[r] \notin Verdicts
  /\ wpc[w] \in {"attempt", "backoff"} => attempt[w] \in 1..(retries[r] + 1)
  /\ wpc[w] = "attempt" => Len(published[r]) = attempt[w]
  /\ wpc[w] = "backoff" => /\ attempt[w] <= retries[r]
                           /\ Len(published[r]) = attempt[w] + 1
  /\ wpc[w] \in {"settle", "announce", "bury", "finish"} => verdict[w] \in Verdicts
  /\ wpc[w] = "announce" =>
       IF row[r] \in Verdicts THEN row[r] = verdict[w]
                             ELSE StoreFaults \/ w \in persistDone
  /\ wpc[w] \in {"bury", "finish"} => Announced(r, verdict[w])
  /\ wpc[w] = "bury" => verdict[w] = "failed" /\ deadLetters[r] = 0

\* The runs whose handler has not submitted them.
BeforeQueue == {"new", "saved", "rejected", "fallback"}

RunInv(r) == /\ EventsInOrder(r)
             /\ BuriedRunFailed(r)
             /\ CalledBackOnce(r)
             /\ StoredMatchesRow(r)

IInv ==
  /\ TypeOK
  /\ OnePlace
  /\ \A r \in Runs : ingress[r] \in BeforeQueue => Fresh(r)
  /\ \A i \in DOMAIN queue : ingress[queue[i]] = "accepted" /\ Fresh(queue[i])
  /\ \A w \in Workers : WorkerInv(w)
  /\ \A r \in Runs : RunInv(r)
=============================================================================

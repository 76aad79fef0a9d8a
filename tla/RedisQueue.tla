------------------------------ MODULE RedisQueue ------------------------------
(***************************************************************************)
(* The Redis backend of the run queue, pkg/orchestrate/queue_redis.go,     *)
(* under the worker loop of Runner.  The list outlives the server process; *)
(* a popped item does not.  BRPOP gives up after redisDequeueTimeout, and  *)
(* the worker loop leaves on every Dequeue that brings no item.  A command *)
(* may have run on the server although its answer is an error, and the     *)
(* client repeats one whose answer was lost.                               *)
(***************************************************************************)
EXTENDS Naturals, Sequences, FiniteSets

CONSTANTS RqRuns,        \* submitted runs
          RqWorkers,     \* Runner's goroutines
          RqGarbled,     \* runs whose item json.Unmarshal refuses
          RqWebhooks,    \* runs of webhooks, which their handler executes when refused
          MaxRqFaults,   \* bound on commands that do not answer as they ran
          MaxRestarts    \* bound on restarts of the server

VARIABLES rqAsked,     \* runs given to Submit, in order
          rqRefused,   \* those whose Submit returned an error
          rqCopies,    \* how often the item of a run was pushed
          rqList,      \* the Redis list, oldest first
          rqPc,        \* "blpop", "execute" or "exited"
          rqRun,       \* the run a worker executes
          rqDirect,    \* runs their webhook handler executes
          rqTaken,     \* runs whose execution began, in order
          rqGone,      \* how often an item was popped and not executed
          rqDone,      \* runs one execution of which returned
          rqFaults, rqRestarts

rqVars == <<rqAsked, rqRefused, rqCopies, rqList, rqPc, rqRun, rqDirect, rqTaken, rqGone,
            rqDone, rqFaults, rqRestarts>>
rqSubmits == <<rqAsked, rqRefused, rqCopies>>

Nothing == "nothing"
RqSet(s) == {s[i] : i \in DOMAIN s}
RqCount(s, r) == Cardinality({i \in DOMAIN s : s[i] = r})

RqInit ==
  /\ rqAsked = <<>> /\ rqRefused = {} /\ rqList = <<>> /\ rqTaken = <<>>
  /\ rqDirect = {} /\ rqDone = {} /\ rqFaults = 0 /\ rqRestarts = 0
  /\ rqCopies = [r \in RqRuns |-> 0] /\ rqGone = [r \in RqRuns |-> 0]
  /\ rqPc = [w \in RqWorkers |-> "blpop"] /\ rqRun = [w \in RqWorkers |-> Nothing]

\* A command ran as it answered, or a fault of the connection is used up.
RqAnswers(faithful) ==
  /\ faithful \/ rqFaults < MaxRqFaults
  /\ rqFaults' = IF faithful THEN rqFaults ELSE rqFaults + 1

\* Enqueue: LPUSH.  It runs twice when the client repeats it, and Submit may give back
\* an error of a push that ran; the handler of a webhook then executes the run itself,
\* the others save its row as failed.
RqEnqueue(r, copies, ok) ==
  /\ r \notin RqSet(rqAsked) /\ (ok => copies > 0)
  /\ RqAnswers(ok /\ copies = 1)
  /\ rqAsked' = Append(rqAsked, r)
  /\ rqCopies' = [rqCopies EXCEPT ![r] = copies]
  /\ rqList' = rqList \o [i \in 1..copies |-> r]
  /\ rqRefused' = IF ok THEN rqRefused ELSE rqRefused \cup {r}
  /\ IF ~ ok /\ r \in RqWebhooks
     THEN rqDirect' = rqDirect \cup {r} /\ rqTaken' = Append(rqTaken, r)
     ELSE UNCHANGED <<rqDirect, rqTaken>>
  /\ UNCHANGED <<rqPc, rqRun, rqGone, rqDone, rqRestarts>>

\* Mutant: the item is read without being removed.
RqDequeuePeek(w) ==
  /\ rqPc[w] = "blpop" /\ rqList # <<>> /\ Head(rqList) \notin RqGarbled
  /\ Len(rqTaken) < 3
  /\ rqTaken' = Append(rqTaken, Head(rqList))
  /\ rqPc' = [rqPc EXCEPT ![w] = "execute"]
  /\ rqRun' = [rqRun EXCEPT ![w] = Head(rqList)]
  /\ UNCHANGED <<rqSubmits, rqList, rqDirect, rqGone, rqDone, rqFaults, rqRestarts>>

\* Dequeue that brings an item: BRPOP removes it, then it is decoded.
RqDequeue(w) ==
  /\ rqPc[w] = "blpop" /\ rqList # <<>> /\ Head(rqList) \notin RqGarbled
  /\ rqList' = Tail(rqList)
  /\ rqTaken' = Append(rqTaken, Head(rqList))
  /\ rqPc' = [rqPc EXCEPT ![w] = "execute"]
  /\ rqRun' = [rqRun EXCEPT ![w] = Head(rqList)]
  /\ UNCHANGED <<rqSubmits, rqDirect, rqGone, rqDone, rqFaults, rqRestarts>>

\* An item that cannot be decoded is gone, and the worker with it.
RqUndecodable(w) ==
  /\ rqPc[w] = "blpop" /\ rqList # <<>> /\ Head(rqList) \in RqGarbled
  /\ rqList' = Tail(rqList) /\ rqPc' = [rqPc EXCEPT ![w] = "exited"]
  /\ rqGone' = [rqGone EXCEPT ![Head(rqList)] = @ + 1]
  /\ UNCHANGED <<rqSubmits, rqRun, rqDirect, rqTaken, rqDone, rqFaults, rqRestarts>>

\* BRPOP fails, before or after the server has popped an item for it, and worker returns.
RqDequeueFails(w, popped) ==
  /\ rqPc[w] = "blpop" /\ (popped => rqList # <<>>)
  /\ RqAnswers(FALSE)
  /\ rqPc' = [rqPc EXCEPT ![w] = "exited"]
  /\ IF popped
     THEN rqList' = Tail(rqList) /\ rqGone' = [rqGone EXCEPT ![Head(rqList)] = @ + 1]
     ELSE UNCHANGED <<rqList, rqGone>>
  /\ UNCHANGED <<rqSubmits, rqRun, rqDirect, rqTaken, rqDone, rqRestarts>>

\* redis.Nil after redisDequeueTimeout: ok = FALSE, and worker returns.
RqIdle(w) ==
  /\ rqPc[w] = "blpop" /\ rqList = <<>>
  /\ rqPc' = [rqPc EXCEPT ![w] = "exited"]
  /\ UNCHANGED <<rqSubmits, rqList, rqRun, rqDirect, rqTaken, rqGone, rqDone, rqFaults, rqRestarts>>

\* Runner.execute returns; the loop goes on.
RqFinish(w) ==
  /\ rqPc[w] = "execute"
  /\ rqDone' = rqDone \cup {rqRun[w]}
  /\ rqPc' = [rqPc EXCEPT ![w] = "blpop"] /\ rqRun' = [rqRun EXCEPT ![w] = Nothing]
  /\ UNCHANGED <<rqSubmits, rqList, rqDirect, rqTaken, rqGone, rqFaults, rqRestarts>>

\* executeWebhookRun is through with a run it executes itself.
RqDirectFinish(r) ==
  /\ r \in rqDirect
  /\ rqDirect' = rqDirect \ {r} /\ rqDone' = rqDone \cup {r}
  /\ UNCHANGED <<rqSubmits, rqList, rqPc, rqRun, rqTaken, rqGone, rqFaults, rqRestarts>>

\* The server dies and is started again: Runner.Start makes new workers.
RqRestart ==
  /\ rqRestarts < MaxRestarts /\ rqRestarts' = rqRestarts + 1
  /\ rqPc' = [w \in RqWorkers |-> "blpop"] /\ rqRun' = [w \in RqWorkers |-> Nothing]
  /\ rqDirect' = {}
  /\ UNCHANGED <<rqSubmits, rqList, rqTaken, rqGone, rqDone, rqFaults>>

RqNext ==
  \/ \E r \in RqRuns : \/ \E copies \in 0..2, ok \in BOOLEAN : RqEnqueue(r, copies, ok)
                        \/ RqDirectFinish(r)
  \/ \E w \in RqWorkers : \/ RqDequeue(w) \/ RqUndecodable(w) \/ RqIdle(w) \/ RqFinish(w)
                           \/ \E popped \in BOOLEAN : RqDequeueFails(w, popped)
  \/ RqRestart

-----------------------------------------------------------------------------
\* Across workers, restarts and lost answers, every push of a run is in the list, was
\* executed once, or was popped and lost, and nothing else is executed but what a webhook's
\* handler executes after a refusal: a run is executed twice only when its push ran twice,
\* or ran and was refused (Enqueue, Dequeue and executeWebhookRun: nothing puts an item
\* back).  Runs pushed once and accepted are taken in the order of submission.  And an
\* execution that has not returned is under way unless the process was restarted.
TakenOnce ==
  /\ \A r \in RqRuns :
       RqCount(rqTaken, r) + RqCount(rqList, r) + rqGone[r]
         = rqCopies[r] + Cardinality({r} \cap rqRefused \cap RqWebhooks)
  /\ LET plain(r) == rqCopies[r] = 1 /\ r \notin rqRefused
         taken(r) == plain(r) /\ r \in RqSet(rqTaken)
     IN  SelectSeq(rqAsked, taken) = SelectSeq(rqTaken, plain)
  /\ \A r \in RqSet(rqTaken) \ rqDone :
       rqRestarts > 0 \/ r \in rqDirect \/ \E w \in RqWorkers : rqRun[w] = r
=============================================================================

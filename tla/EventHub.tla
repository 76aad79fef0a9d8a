------------------------------ MODULE EventHub ------------------------------
(***************************************************************************)
(* The event hub and the SSE stream handlers that read from it.  The       *)
(* publisher is the run pipeline, of which only the order of a run's       *)
(* events matters here (RunEvents).  An event is its position in the log   *)
(* of its run.                                                             *)
(*                                                                         *)
(* Publish holds the hub's read lock and sends to every channel without    *)
(* blocking; Subscribe and Unsubscribe hold the write lock.  The channels  *)
(* are independent of each other, so one step per call loses nothing.      *)
(***************************************************************************)
EXTENDS RunEvents

CONSTANTS Streams,       \* requests to /v1/runs/{id}/stream
          BufferSize,    \* EventHub.bufferSize
          MayCloseAll    \* is UnsubscribeAll called?

ASSUME EventHubAssumption == /\ BufferSize \in Nat \ {0}
                             /\ MaxRetries \in Nat
                             /\ MayCloseAll \in BOOLEAN

VARIABLES subs,     \* subs[r]: the streams with a channel in h.subscribers[r]
          spc,      \* spc[c]: where stream c is in handleStream
          srun,     \* srun[c]: its run
          since,    \* since[c]: number of events published before it subscribed
          chan,     \* chan[c]: its buffered channel
          closed,   \* the streams whose channel is closed
          got       \* got[c]: the events sent to its client

hubVars == <<subs, spc, srun, since, chan, closed, got>>
hvars == <<log, hubVars>>

StreamPCs == {"new", "loop", "leaving", "gone"}

HubTypeOK ==
  /\ log \in [Runs -> Seq(EventTypes)]
  /\ subs \in [Runs -> SUBSET Streams]
  /\ spc \in [Streams -> StreamPCs]
  /\ srun \in [Streams -> Runs]
  /\ since \in [Streams -> Nat]
  /\ chan \in [Streams -> Seq(Nat)] /\ \A c \in Streams : Len(chan[c]) <= BufferSize
  /\ closed \subseteq Streams
  /\ got \in [Streams -> Seq(Nat)]

HubInit ==
  /\ EventsInit
  /\ subs = [r \in Runs |-> {}]
  /\ spc = [c \in Streams |-> "new"]
  /\ srun \in [Streams -> Runs]
  /\ since = [c \in Streams |-> 0]
  /\ chan = [c \in Streams |-> <<>>]
  /\ closed = {}
  /\ got = [c \in Streams |-> <<>>]

\* Mutants: the last slot of the buffer is not used; the terminal event is not sent.
PublishKeepsASlot(r, e) ==
  /\ Emit(r, e)
  /\ chan' = [c \in Streams |-> IF c \in subs[r] /\ Len(chan[c]) + 1 < BufferSize
                                THEN Append(chan[c], Len(log'[r])) ELSE chan[c]]
  /\ UNCHANGED <<subs, spc, srun, since, closed, got>>

PublishSkipsTerminal(r, e) ==
  /\ Emit(r, e)
  /\ chan' = [c \in Streams |->
                IF c \in subs[r] /\ e \notin TerminalEvents /\ Len(chan[c]) < BufferSize
                THEN Append(chan[c], Len(log'[r])) ELSE chan[c]]
  /\ UNCHANGED <<subs, spc, srun, since, closed, got>>

\* A full channel misses the event.
Publish(r, e) ==
  /\ Emit(r, e)
  /\ chan' = [c \in Streams |-> IF c \in subs[r] /\ Len(chan[c]) < BufferSize
                                THEN Append(chan[c], Len(log'[r])) ELSE chan[c]]
  /\ UNCHANGED <<subs, spc, srun, since, closed, got>>

Subscribe(c) ==
  /\ spc[c] = "new"
  /\ spc' = [spc EXCEPT ![c] = "loop"]
  /\ subs' = [subs EXCEPT ![srun[c]] = @ \cup {c}]
  /\ since' = [since EXCEPT ![c] = Len(log[srun[c]])]
  /\ UNCHANGED <<log, srun, chan, closed, got>>

\* Mutant: the newest event is read first.
ReadEventNewest(c) ==
  /\ spc[c] = "loop" /\ chan[c] # <<>>
  /\ chan' = [chan EXCEPT ![c] = SubSeq(@, 1, Len(@) - 1)]
  /\ got' = [got EXCEPT ![c] = Append(@, chan[c][Len(chan[c])])]
  /\ spc' = [spc EXCEPT ![c] = IF log[srun[c]][chan[c][Len(chan[c])]] \in TerminalEvents
                               THEN "leaving" ELSE "loop"]
  /\ UNCHANGED <<log, subs, srun, since, closed>>

\* An event is read and sent; handleStream returns on a terminal one.
ReadEvent(c) ==
  /\ spc[c] = "loop" /\ chan[c] # <<>>
  /\ chan' = [chan EXCEPT ![c] = Tail(@)]
  /\ got' = [got EXCEPT ![c] = Append(@, Head(chan[c]))]
  /\ spc' = [spc EXCEPT ![c] = IF log[srun[c]][Head(chan[c])] \in TerminalEvents
                               THEN "leaving" ELSE "loop"]
  /\ UNCHANGED <<log, subs, srun, since, closed>>

\* handleStream returns: the channel is closed and drained, or the client left.
ReadClosed(c) ==
  /\ spc[c] = "loop" /\ chan[c] = <<>> /\ c \in closed
  /\ spc' = [spc EXCEPT ![c] = "leaving"]
  /\ UNCHANGED <<log, subs, srun, since, chan, closed, got>>

Disconnect(c) ==
  /\ spc[c] = "loop"
  /\ spc' = [spc EXCEPT ![c] = "leaving"]
  /\ UNCHANGED <<log, subs, srun, since, chan, closed, got>>

\* The deferred Unsubscribe: a channel that UnsubscribeAll removed is not
\* found and not closed again.
Unsubscribe(c) ==
  /\ spc[c] = "leaving"
  /\ spc' = [spc EXCEPT ![c] = "gone"]
  /\ subs' = [subs EXCEPT ![srun[c]] = @ \ {c}]
  /\ closed' = IF c \in subs[srun[c]] THEN closed \cup {c} ELSE closed
  /\ UNCHANGED <<log, srun, since, chan, got>>

UnsubscribeAll(r) ==
  /\ MayCloseAll /\ subs[r] # {}
  /\ closed' = closed \cup subs[r]
  /\ subs' = [subs EXCEPT ![r] = {}]
  /\ UNCHANGED <<log, spc, srun, since, chan, got>>

\* Every run has ended and every stream is gone.
HubQuiescent ==
  /\ \A r \in Runs : Ended(log[r])
  /\ \A c \in Streams : spc[c] = "gone"
  /\ UNCHANGED hvars

StreamStep(c) == ReadEvent(c) \/ ReadClosed(c) \/ Unsubscribe(c)

HubNext ==
  \/ \E r \in Runs, e \in EventTypes : Publish(r, e)
  \/ \E c \in Streams : Subscribe(c) \/ StreamStep(c) \/ Disconnect(c)
  \/ \E r \in Runs : UnsubscribeAll(r)
  \/ HubQuiescent

HubSpec == HubInit /\ [][HubNext]_hvars

\* A stream's goroutine is scheduled.  Publishing, subscribing and leaving
\* are up to the run and the clients.
HubFairSpec == HubSpec /\ \A c \in Streams : WF_hvars(StreamStep(c))

-----------------------------------------------------------------------------
(* Properties.                                                             *)

\* Publish never sends on a closed channel and Unsubscribe never closes one
\* twice (either panics in Go), UnsubscribeAll included: a channel in the map
\* is open, belongs to a stream of that run that has subscribed and has not
\* unsubscribed.
OpenWhileSubscribed ==
  \A r \in Runs : \A c \in subs[r] :
     c \notin closed /\ srun[c] = r /\ spc[c] \in {"loop", "leaving"}

\* Whatever the buffer drops, a client gets the events of its run in the order
\* they were published, none twice and none from before it subscribed.
InOrder ==
  \A c \in Streams :
    LET s == got[c] \o chan[c] IN
    /\ \A i, j \in DOMAIN s : i < j => s[i] < s[j]
    /\ \A i \in DOMAIN s : since[c] < s[i] /\ s[i] <= Len(log[srun[c]])

\* The buffer of c has room for everything its run may still have published
\* when c subscribed.
Roomy(c) == since[c] + BufferSize >= MaxRetries + 2

\* A buffer that holds the rest of a run (of init, the retries and a terminal
\* event) never drops one: what a subscribed stream has sent and has buffered is
\* exactly what Publish was given since it subscribed.
NothingLost ==
  \A r \in Runs : \A c \in subs[r] : Roomy(c) =>
    /\ since[c] + Len(got[c]) + Len(chan[c]) = Len(log[r])
    /\ \A i \in DOMAIN got[c] : got[c][i] = since[c] + i
    /\ \A i \in DOMAIN chan[c] : chan[c][i] = since[c] + Len(got[c]) + i

\* What a client of the stream gets (eventhub.go, stream.go): the events of its run in
\* order, and all of them where the buffer has room.
StreamFaithful == InOrder /\ NothingLost

\* With such a buffer, a stream that subscribed before the terminal event of its
\* run ends after it, whatever the other streams and runs do.
StreamEnds ==
  \A c \in Streams :
    (/\ spc[c] = "loop" /\ Roomy(c)
     /\ Ended(log[srun[c]]) /\ since[c] < Len(log[srun[c]])) ~> spc[c] = "gone"

-----------------------------------------------------------------------------
(* The inductive invariant behind the theorems of EventHubProofs.tla.      *)

\* A run publishes at most MaxRetries + 2 events.
LogBounded ==
  \A r \in Runs : /\ Len(log[r]) <= MaxRetries + 2
                  /\ ~Ended(log[r]) => Len(log[r]) <= MaxRetries + 1

\* A stream subscribes in the past of its run, and has nothing before it does.
SinceBounded ==
  \A c \in Streams : /\ since[c] <= Len(log[srun[c]])
                     /\ spc[c] = "new" => /\ chan[c] = <<>> /\ got[c] = <<>>
                                          /\ c \notin closed

HubIInv == HubTypeOK /\ LogBounded /\ SinceBounded /\ OpenWhileSubscribed /\ NothingLost
=============================================================================

--------------------------- MODULE EventHubProofs ---------------------------
(***************************************************************************)
(* Proofs about EventHub.tla, for any runs, streams, retries and buffer    *)
(* size, with and without UnsubscribeAll.                                  *)
(*                                                                         *)
(* HubIInv is inductive.  NothingLost needs the length of a run's log:     *)
(* RunEvents allows MaxRetries + 2 events, a stream's channel holds no     *)
(* more than what its run has published, so there is room for the next.    *)
(***************************************************************************)
EXTENDS EventHub, TLAPS

\* Facts about sequences that the steps below use.
LEMMA AppendSeq ==
  ASSUME NEW S, NEW s \in Seq(S), NEW e \in S
  PROVE  /\ Append(s, e) \in Seq(S) /\ Append(s, e) # <<>>
         /\ Len(s) \in Nat /\ Len(Append(s, e)) = Len(s) + 1
         /\ DOMAIN s = 1..Len(s) /\ DOMAIN Append(s, e) = 1..(Len(s) + 1)
         /\ \A i \in DOMAIN s : Append(s, e)[i] = s[i]
         /\ Append(s, e)[Len(s) + 1] = e
OBVIOUS

\* What reading an event leaves of a channel.
LEMMA TailSeq ==
  ASSUME NEW S, NEW s \in Seq(S), s # <<>>
  PROVE  /\ Head(s) \in S /\ Head(s) = s[1] /\ 1 \in DOMAIN s
         /\ Tail(s) \in Seq(S) /\ Len(s) \in Nat /\ Len(s) > 0
         /\ Len(Tail(s)) = Len(s) - 1
         /\ \A i \in DOMAIN Tail(s) : i \in Nat /\ i + 1 \in DOMAIN s /\ Tail(s)[i] = s[i + 1]
OBVIOUS

\* What NothingLost says of one stream.
Whole(c, r) == /\ since[c] + Len(got[c]) + Len(chan[c]) = Len(log[r])
               /\ \A i \in DOMAIN got[c] : got[c][i] = since[c] + i
               /\ \A i \in DOMAIN chan[c] : chan[c][i] = since[c] + Len(got[c]) + i

\* Publishing to a run: its log stays within bounds, and every subscribed
\* channel has room.
LEMMA PublishKeeps ==
  ASSUME HubIInv, NEW r \in Runs, NEW e \in EventTypes, Publish(r, e)
  PROVE  HubIInv'
<1> USE EventHubAssumption
<1>1. /\ log \in [Runs -> Seq(EventTypes)] /\ log' = [log EXCEPT ![r] = Append(@, e)]
      /\ MayFollow(log[r], e)
  BY DEF HubIInv, HubTypeOK, Publish, Emit
<1>2. /\ log'[r] = Append(log[r], e) /\ log[r] \in Seq(EventTypes)
      /\ \A q \in Runs : q # r => log'[q] = log[q]
  BY <1>1
<1>3. /\ Len(log[r]) \in Nat /\ Len(log'[r]) = Len(log[r]) + 1 /\ log'[r] # <<>>
      /\ log'[r][Len(log'[r])] = e
  BY <1>2, AppendSeq
<1>4. Len(log[r]) <= MaxRetries + 1
  BY <1>1, <1>3 DEF HubIInv, LogBounded, MayFollow, Ended
<1>5. LogBounded'
  <2>1. Len(log'[r]) <= MaxRetries + 2
    BY <1>3, <1>4
  <2>2. ASSUME ~Ended(log'[r]) PROVE Len(log'[r]) <= MaxRetries + 1
    <3>1. e \notin TerminalEvents
      BY <2>2, <1>3 DEF Ended
    <3>2. CASE log[r] = <<>>
      BY <3>2, <1>3
    <3>3. CASE Len(log[r]) <= MaxRetries
      BY <3>3, <1>3
    <3> QED
      BY <1>1, <3>1, <3>2, <3>3 DEF MayFollow
  <2>3. \A q \in Runs : q # r => /\ Len(log'[q]) <= MaxRetries + 2
                                 /\ ~Ended(log'[q]) => Len(log'[q]) <= MaxRetries + 1
    BY <1>2 DEF HubIInv, LogBounded
  <2> QED
    BY <2>1, <2>2, <2>3 DEF LogBounded
<1>6. /\ UNCHANGED <<subs, spc, srun, since, closed, got>>
      /\ chan' = [c \in Streams |-> IF c \in subs[r] /\ Len(chan[c]) < BufferSize
                                    THEN Append(chan[c], Len(log'[r])) ELSE chan[c]]
  BY DEF Publish
<1>7. \A c \in Streams : chan[c] \in Seq(Nat) /\ Len(chan[c]) \in Nat /\ Len(chan[c]) <= BufferSize
  BY DEF HubIInv, HubTypeOK
<1>8. HubTypeOK'
  <2>1. log' \in [Runs -> Seq(EventTypes)]
    BY <1>1, <1>2, AppendSeq
  <2>2. ASSUME NEW c \in Streams PROVE chan'[c] \in Seq(Nat) /\ Len(chan'[c]) <= BufferSize
    <3>1. CASE c \in subs[r] /\ Len(chan[c]) < BufferSize
      <4>1. chan'[c] = Append(chan[c], Len(log'[r]))
        BY <3>1, <1>6
      <4> QED
        BY <3>1, <4>1, <1>3, <1>7, AppendSeq
    <3>2. CASE ~(c \in subs[r] /\ Len(chan[c]) < BufferSize)
      BY <3>2, <1>6, <1>7
    <3> QED
      BY <3>1, <3>2
  <2>3. chan' \in [Streams -> Seq(Nat)]
    BY <2>2, <1>6
  <2> QED
    BY <1>6, <2>1, <2>2, <2>3 DEF HubIInv, HubTypeOK
<1>9. OpenWhileSubscribed'
  BY <1>6 DEF HubIInv, OpenWhileSubscribed
<1>10. SinceBounded'
  <2>1. ASSUME NEW c \in Streams PROVE since[c] <= Len(log'[srun[c]])
    <3>1. srun[c] \in Runs /\ since[c] \in Nat /\ since[c] <= Len(log[srun[c]])
      BY DEF HubIInv, HubTypeOK, SinceBounded
    <3> QED
      BY <3>1, <1>2, <1>3
  <2>2. ASSUME NEW c \in Streams, spc[c] = "new" PROVE chan'[c] = chan[c]
    BY <2>2, <1>6 DEF HubIInv, OpenWhileSubscribed
  <2> QED
    BY <1>6, <2>1, <2>2 DEF HubIInv, SinceBounded
<1>11. ASSUME NEW q \in Runs, NEW c \in subs[q], Roomy(c)
       PROVE  Whole(c, q)'
  <2>1. /\ c \in Streams /\ srun[c] = q /\ Whole(c, q)
        /\ got[c] \in Seq(Nat) /\ Len(got[c]) \in Nat /\ since[c] \in Nat
    BY <1>11 DEF HubIInv, HubTypeOK, OpenWhileSubscribed, NothingLost, Whole
  <2>2. CASE q # r
    <3>1. c \notin subs[r]
      BY <2>1, <2>2 DEF HubIInv, OpenWhileSubscribed
    <3>2. chan'[c] = chan[c] /\ log'[q] = log[q]
      BY <2>1, <2>2, <3>1, <1>2, <1>6
    <3> QED
      BY <2>1, <3>2, <1>6 DEF Whole
  <2>3. CASE q = r
    <3>0. /\ since[c] + Len(got[c]) + Len(chan[c]) = Len(log[r])
          /\ Len(got[c]) \in Nat /\ Len(chan[c]) \in Nat /\ Len(log[r]) \in Nat
          /\ since[c] \in Nat
      BY <2>1, <2>3, <1>3, <1>7 DEF Whole
    <3>1. Len(chan[c]) < BufferSize
      BY <3>0, <1>4, <1>11 DEF Roomy
    <3>2. chan'[c] = Append(chan[c], Len(log'[r]))
      BY <2>1, <2>3, <3>1, <1>6, <1>11
    <3>3. /\ Len(chan'[c]) = Len(chan[c]) + 1 /\ DOMAIN chan'[c] = 1..(Len(chan[c]) + 1)
          /\ DOMAIN chan[c] = 1..Len(chan[c])
          /\ \A i \in DOMAIN chan[c] : chan'[c][i] = chan[c][i]
          /\ chan'[c][Len(chan[c]) + 1] = Len(log[r]) + 1
      BY <2>1, <3>2, <1>3, <1>7, AppendSeq, SMTT(20)
    <3>4. since[c] + Len(got[c]) + Len(chan'[c]) = Len(log'[r])
      <4>1. PICK a \in Nat, g \in Nat, n \in Nat, l \in Nat :
               a = since[c] /\ g = Len(got[c]) /\ n = Len(chan[c]) /\ l = Len(log[r])
        BY <3>0
      <4>2. a + g + n = l /\ Len(chan'[c]) = n + 1 /\ Len(log'[r]) = l + 1
        BY <3>0, <3>3, <1>3, <4>1
      <4>3. a + g + (n + 1) = l + 1
        BY <4>2
      <4> QED
        BY <4>1, <4>2, <4>3
    <3>5. ASSUME NEW i \in DOMAIN chan'[c] PROVE chan'[c][i] = since[c] + Len(got[c]) + i
      <4>1. CASE i \in DOMAIN chan[c]
        BY <4>1, <2>1, <3>3 DEF Whole
      <4>2. CASE i = Len(chan[c]) + 1
        <5>1. PICK a \in Nat, g \in Nat, n \in Nat, l \in Nat :
                 a = since[c] /\ g = Len(got[c]) /\ n = Len(chan[c]) /\ l = Len(log[r])
          BY <3>0, SMTT(20)
        <5>2. a + g + n = l /\ chan'[c][i] = l + 1 /\ i = n + 1
          BY <3>0, <3>3, <4>2, <5>1
        <5>3. l + 1 = a + g + (n + 1)
          BY <5>2
        <5> QED
          BY <5>1, <5>2, <5>3
      <4> QED
        BY <3>3, <4>1, <4>2, <2>1, <1>7
    <3> QED
      BY <2>1, <2>3, <3>4, <3>5, <1>6, SMTT(20) DEF Whole
  <2> QED
    BY <2>2, <2>3
<1>12. NothingLost'
  BY <1>6, <1>11 DEF NothingLost, Whole, Roomy
<1> QED
  BY <1>5, <1>8, <1>9, <1>10, <1>12 DEF HubIInv

\* A new subscriber starts at the end of the log with an empty channel.
LEMMA SubscribeKeeps ==
  ASSUME HubIInv, NEW c \in Streams, Subscribe(c)
  PROVE  HubIInv'
<1>1. PICK r \in Runs : r = srun[c]
  BY DEF HubIInv, HubTypeOK
<1>2. /\ spc[c] = "new" /\ spc' = [spc EXCEPT ![c] = "loop"]
      /\ subs' = [subs EXCEPT ![r] = @ \cup {c}]
      /\ since' = [since EXCEPT ![c] = Len(log[r])]
      /\ UNCHANGED <<log, srun, chan, closed, got>>
  BY <1>1 DEF Subscribe
<1>3. Len(log[r]) \in Nat
  BY DEF HubIInv, HubTypeOK
<1>4. chan[c] = <<>> /\ got[c] = <<>> /\ c \notin closed
  BY <1>2 DEF HubIInv, SinceBounded
<1>5. /\ subs'[r] = subs[r] \cup {c} /\ \A q \in Runs : q # r => subs'[q] = subs[q]
      /\ since'[c] = Len(log[r]) /\ \A d \in Streams : d # c => since'[d] = since[d]
      /\ spc'[c] = "loop" /\ \A d \in Streams : d # c => spc'[d] = spc[d]
  BY <1>2 DEF HubIInv, HubTypeOK
<1>6. HubTypeOK'
  <2>1. subs' \in [Runs -> SUBSET Streams]
    <3>1. subs \in [Runs -> SUBSET Streams]
      BY DEF HubIInv, HubTypeOK
    <3>2. subs[r] \cup {c} \in SUBSET Streams
      BY <3>1
    <3> QED
      BY <1>2, <3>1, <3>2
  <2>2. since' \in [Streams -> Nat] /\ spc' \in [Streams -> StreamPCs]
    BY <1>2, <1>3 DEF HubIInv, HubTypeOK, StreamPCs
  <2> QED
    BY <1>2, <2>1, <2>2 DEF HubIInv, HubTypeOK
<1>7. LogBounded'
  BY <1>2 DEF HubIInv, LogBounded
<1>8. SinceBounded'
  BY <1>1, <1>2, <1>3, <1>5 DEF HubIInv, SinceBounded
<1>9. OpenWhileSubscribed'
  <2>1. ASSUME NEW q \in Runs, NEW d \in subs'[q]
        PROVE  d \notin closed /\ srun[d] = q /\ spc'[d] \in {"loop", "leaving"}
    <3>1. CASE d \in subs[q]
      BY <3>1, <1>2, <1>5 DEF HubIInv, HubTypeOK, OpenWhileSubscribed
    <3>2. CASE d \notin subs[q]
      BY <2>1, <3>2, <1>1, <1>4, <1>5
    <3> QED
      BY <3>1, <3>2
  <2> QED
    BY <1>2, <2>1 DEF OpenWhileSubscribed
<1>10. ASSUME NEW q \in Runs, NEW d \in subs'[q], Roomy(d)'
       PROVE  Whole(d, q)'
  <2>1. CASE d = c
    <3>1. q = r
      BY <2>1, <1>10, <1>5, <1>2 DEF HubIInv, HubTypeOK, OpenWhileSubscribed
    <3> QED
      BY <2>1, <3>1, <1>2, <1>3, <1>4, <1>5 DEF Whole
  <2>2. CASE d # c
    <3>0. d \in subs[q]
      BY <2>2, <1>5, <1>10
    <3>1. d \in subs[q] /\ d \in Streams
      BY <3>0 DEF HubIInv, HubTypeOK
    <3>2. Whole(d, q)
      BY <2>2, <3>1, <1>5, <1>10 DEF HubIInv, NothingLost, Whole, Roomy
    <3> QED
      BY <2>2, <3>1, <3>2, <1>2, <1>5 DEF Whole
  <2> QED
    BY <2>1, <2>2
<1>11. NothingLost'
  BY <1>10 DEF NothingLost, Whole
<1> QED
  BY <1>6, <1>7, <1>8, <1>9, <1>11 DEF HubIInv

\* Reading an event moves it from the channel to the client.
LEMMA ReadEventKeeps ==
  ASSUME HubIInv, NEW c \in Streams, ReadEvent(c)
  PROVE  HubIInv'
<1>1. /\ spc[c] = "loop" /\ chan[c] # <<>>
      /\ chan' = [chan EXCEPT ![c] = Tail(@)]
      /\ got' = [got EXCEPT ![c] = Append(@, Head(chan[c]))]
      /\ spc' = [spc EXCEPT ![c] = "leaving"] \/ spc' = [spc EXCEPT ![c] = "loop"]
      /\ UNCHANGED <<log, subs, srun, since, closed>>
  BY DEF ReadEvent
<1>2. chan[c] \in Seq(Nat) /\ got[c] \in Seq(Nat) /\ Len(chan[c]) <= BufferSize
  BY DEF HubIInv, HubTypeOK
<1>3. /\ Head(chan[c]) \in Nat /\ Head(chan[c]) = chan[c][1] /\ 1 \in DOMAIN chan[c]
      /\ Tail(chan[c]) \in Seq(Nat) /\ Len(chan[c]) \in Nat
      /\ Len(Tail(chan[c])) = Len(chan[c]) - 1
      /\ \A i \in DOMAIN Tail(chan[c]) : /\ i \in Nat /\ i + 1 \in DOMAIN chan[c]
                                        /\ Tail(chan[c])[i] = chan[c][i + 1]
  BY <1>1, <1>2, TailSeq
<1>4. LET g == Append(got[c], Head(chan[c])) IN
      /\ g \in Seq(Nat) /\ Len(got[c]) \in Nat /\ Len(g) = Len(got[c]) + 1
      /\ DOMAIN got[c] = 1..Len(got[c]) /\ DOMAIN g = 1..(Len(got[c]) + 1)
      /\ \A i \in DOMAIN got[c] : g[i] = got[c][i]
      /\ g[Len(got[c]) + 1] = Head(chan[c])
  BY <1>2, <1>3, AppendSeq
<1>5. /\ chan'[c] = Tail(chan[c]) /\ got'[c] = Append(got[c], Head(chan[c]))
      /\ \A d \in Streams : d # c => chan'[d] = chan[d] /\ got'[d] = got[d] /\ spc'[d] = spc[d]
      /\ spc'[c] \in {"loop", "leaving"}
  BY <1>1 DEF HubIInv, HubTypeOK
<1>6. HubTypeOK'
  <2>1. chan' \in [Streams -> Seq(Nat)] /\ got' \in [Streams -> Seq(Nat)]
    BY <1>1, <1>3, <1>4 DEF HubIInv, HubTypeOK
  <2>2. \A d \in Streams : Len(chan'[d]) <= BufferSize
    <3>1. Len(chan'[c]) <= BufferSize
      BY <1>2, <1>3, <1>5, EventHubAssumption
    <3> QED
      BY <3>1, <1>5 DEF HubIInv, HubTypeOK
  <2>3. spc' \in [Streams -> StreamPCs]
    BY <1>1 DEF HubIInv, HubTypeOK, StreamPCs
  <2> QED
    BY <1>1, <2>1, <2>2, <2>3 DEF HubIInv, HubTypeOK
<1>7. LogBounded' /\ OpenWhileSubscribed'
  BY <1>1, <1>5 DEF HubIInv, HubTypeOK, LogBounded, OpenWhileSubscribed
<1>8. SinceBounded'
  BY <1>1, <1>5 DEF HubIInv, SinceBounded
<1>9. ASSUME NEW q \in Runs, NEW d \in subs[q], Roomy(d)
      PROVE  Whole(d, q)'
  <2>1. d \in Streams /\ Whole(d, q) /\ since[d] \in Nat
    BY <1>9 DEF HubIInv, HubTypeOK, NothingLost, Whole
  <2>2. CASE d # c
    BY <2>1, <2>2, <1>1, <1>5 DEF Whole
  <2>3. CASE d = c
    <3>1. since'[c] + Len(got'[c]) + Len(chan'[c]) = Len(log'[q])
      <4>1. since[c] + Len(got[c]) + Len(chan[c]) = Len(log[q])
        BY <2>1, <2>3 DEF Whole
      <4>2. Len(got'[c]) = Len(got[c]) + 1 /\ Len(chan'[c]) = Len(chan[c]) - 1
        BY <1>3, <1>4, <1>5
      <4>3. Len(log[q]) \in Nat /\ Len(got[c]) \in Nat /\ Len(chan[c]) \in Nat
        BY <1>3, <1>4 DEF HubIInv, HubTypeOK
      <4>4. since'[c] = since[c] /\ log'[q] = log[q] /\ since[c] \in Nat
        BY <2>1, <2>3, <1>1
      <4>5. PICK a \in Nat, g \in Nat, n \in Nat, l \in Nat :
               a = since[c] /\ g = Len(got[c]) /\ n = Len(chan[c]) /\ l = Len(log[q])
        BY <4>3, <4>4
      <4>6. a + g + n = l
        BY <4>1, <4>5
      <4>7. a + (g + 1) + (n - 1) = l
        BY <4>6
      <4> QED
        BY <4>2, <4>4, <4>5, <4>7
    <3>2. ASSUME NEW i \in DOMAIN got'[c] PROVE got'[c][i] = since[c] + i
      <4>1. chan[c][1] = since[c] + Len(got[c]) + 1
        BY <2>1, <2>3, <1>3 DEF Whole
      <4>2. CASE i \in DOMAIN got[c]
        BY <4>2, <2>1, <2>3, <1>4, <1>5 DEF Whole
      <4>3. CASE i = Len(got[c]) + 1
        <5>1. got'[c][i] = since[c] + Len(got[c]) + 1
          BY <4>1, <4>3, <1>3, <1>4, <1>5
        <5> QED
          BY <5>1, <4>3, <2>1, <2>3, <1>4
      <4> QED
        BY <4>2, <4>3, <1>4, <1>5
    <3>3. ASSUME NEW i \in DOMAIN chan'[c] PROVE chan'[c][i] = since[c] + Len(got'[c]) + i
      <4>1. i \in Nat /\ i + 1 \in DOMAIN chan[c] /\ chan'[c][i] = chan[c][i + 1]
        BY <1>3, <1>5
      <4>2. chan[c][i + 1] = since[c] + Len(got[c]) + (i + 1)
        BY <4>1, <2>1, <2>3 DEF Whole
      <4>3. Len(got'[c]) = Len(got[c]) + 1 /\ Len(got[c]) \in Nat
        BY <1>4, <1>5
      <4>4. since[c] \in Nat
        BY <2>1, <2>3
      <4>5. PICK a \in Nat, g \in Nat, n \in Nat : a = since[c] /\ g = Len(got[c]) /\ n = i
        BY <4>1, <4>3, <4>4
      <4>6. a + g + (n + 1) = a + (g + 1) + n
        OBVIOUS
      <4> QED
        BY <4>1, <4>2, <4>3, <4>5, <4>6
    <3> QED
      BY <2>3, <3>1, <3>2, <3>3, <1>1 DEF Whole
  <2> QED
    BY <2>2, <2>3
<1>10. NothingLost'
  BY <1>1, <1>9 DEF NothingLost, Whole, Roomy
<1> QED
  BY <1>6, <1>7, <1>8, <1>10 DEF HubIInv

\* The steps that neither publish nor read: a stream leaves the map or the
\* loop, and of those in the map nothing changes.
LEMMA LeavingKeeps ==
  ASSUME HubIInv, UNCHANGED <<log, srun, since, chan, got>>,
         spc' \in [Streams -> StreamPCs], subs' \in [Runs -> SUBSET Streams],
         closed' \subseteq Streams,
         \A r \in Runs : \A c \in subs'[r] :
            c \in subs[r] /\ c \notin closed' /\ spc'[c] \in {"loop", "leaving"},
         \A c \in Streams : spc'[c] = "new" => spc[c] = "new" /\ c \notin closed'
  PROVE  HubIInv'
<1>1. HubTypeOK'
  BY DEF HubIInv, HubTypeOK
<1>2. LogBounded' /\ SinceBounded'
  BY DEF HubIInv, LogBounded, SinceBounded
<1>3. OpenWhileSubscribed'
  BY DEF HubIInv, OpenWhileSubscribed
<1>4. NothingLost'
  BY DEF HubIInv, NothingLost, Roomy
<1> QED
  BY <1>1, <1>2, <1>3, <1>4 DEF HubIInv

\* Initially nobody is subscribed.
LEMMA HubInitIInv == HubInit => HubIInv
<1> SUFFICES ASSUME HubInit PROVE HubIInv
  OBVIOUS
<1> USE EventHubAssumption
<1>1. HubTypeOK
  BY DEF HubInit, HubTypeOK, EventsInit, StreamPCs
<1>2. LogBounded
  BY DEF HubInit, LogBounded, EventsInit
<1>3. SinceBounded
  BY DEF HubInit, SinceBounded, EventsInit
<1>4. OpenWhileSubscribed /\ NothingLost
  BY DEF HubInit, OpenWhileSubscribed, NothingLost
<1> QED
  BY <1>1, <1>2, <1>3, <1>4 DEF HubIInv

\* Every step of the hub and of a stream keeps the invariant.
LEMMA HubNextIInv == HubIInv /\ [HubNext]_hvars => HubIInv'
<1> SUFFICES ASSUME HubIInv, [HubNext]_hvars PROVE HubIInv'
  OBVIOUS
<1> USE DEF StreamPCs
<1>0. /\ spc \in [Streams -> StreamPCs] /\ subs \in [Runs -> SUBSET Streams]
      /\ closed \subseteq Streams /\ srun \in [Streams -> Runs]
      /\ OpenWhileSubscribed /\ SinceBounded
  BY DEF HubIInv, HubTypeOK
<1>1. ASSUME NEW c \in Streams, ReadClosed(c) \/ Disconnect(c) PROVE HubIInv'
  <2>1. /\ spc' = [spc EXCEPT ![c] = "leaving"] /\ spc[c] = "loop"
        /\ UNCHANGED <<log, subs, srun, since, chan, closed, got>>
    BY <1>1 DEF ReadClosed, Disconnect
  <2> QED
    BY <1>0, <2>1, LeavingKeeps DEF OpenWhileSubscribed, SinceBounded
<1>2. ASSUME NEW c \in Streams, Unsubscribe(c) PROVE HubIInv'
  <2>1. /\ spc' = [spc EXCEPT ![c] = "gone"] /\ spc[c] = "leaving"
        /\ subs' = [subs EXCEPT ![srun[c]] = @ \ {c}]
        /\ closed' = closed \cup {c} \/ closed' = closed
        /\ UNCHANGED <<log, srun, since, chan, got>>
    BY <1>2 DEF Unsubscribe
  <2>2. PICK r \in Runs : r = srun[c]
    BY <1>0
  <2>3. subs'[r] = subs[r] \ {c} /\ \A q \in Runs : q # r => subs'[q] = subs[q]
    BY <1>0, <2>1, <2>2
  <2>4. subs' \in [Runs -> SUBSET Streams]
    <3>1. subs[r] \ {c} \in SUBSET Streams
      BY <1>0
    <3> QED
      BY <1>0, <2>1, <2>2, <3>1
  <2>5. ASSUME NEW q \in Runs, NEW d \in subs'[q]
        PROVE  d \in subs[q] /\ d # c /\ d \in Streams
    BY <2>2, <2>3, <1>0 DEF OpenWhileSubscribed
  <2>6. \A q \in Runs : \A d \in subs'[q] :
           d \in subs[q] /\ d \notin closed' /\ spc'[d] \in {"loop", "leaving"}
    BY <2>1, <2>5, <1>0 DEF OpenWhileSubscribed
  <2>7. spc' \in [Streams -> StreamPCs] /\ closed' \subseteq Streams
    BY <1>0, <2>1
  <2>8. \A d \in Streams : spc'[d] = "new" => spc[d] = "new" /\ d \notin closed'
    BY <1>0, <2>1 DEF SinceBounded
  <2> QED
    BY <2>1, <2>4, <2>6, <2>7, <2>8, LeavingKeeps
<1>3. ASSUME NEW r \in Runs, UnsubscribeAll(r) PROVE HubIInv'
  <2>1. /\ closed' = closed \cup subs[r] /\ subs' = [subs EXCEPT ![r] = {}]
        /\ UNCHANGED <<log, spc, srun, since, chan, got>>
    BY <1>3 DEF UnsubscribeAll
  <2>2. subs'[r] = {} /\ \A q \in Runs : q # r => subs'[q] = subs[q]
    BY <1>0, <2>1
  <2>3. subs' \in [Runs -> SUBSET Streams] /\ closed' \subseteq Streams
    BY <1>0, <2>1
  <2>4. \A q \in Runs : \A d \in subs'[q] :
           d \in subs[q] /\ d \notin closed' /\ spc'[d] \in {"loop", "leaving"}
    BY <2>1, <2>2, <1>0 DEF OpenWhileSubscribed
  <2>5. \A d \in Streams : spc'[d] = "new" => spc[d] = "new" /\ d \notin closed'
    BY <1>0, <2>1 DEF SinceBounded, OpenWhileSubscribed
  <2> QED
    BY <1>0, <2>1, <2>3, <2>4, <2>5, LeavingKeeps
<1>4. CASE UNCHANGED hvars
  <2>1. UNCHANGED <<log, subs, spc, srun, since, chan, closed, got>>
    BY <1>4 DEF hvars, hubVars
  <2> QED
    BY <2>1, <1>0, LeavingKeeps DEF OpenWhileSubscribed, SinceBounded
<1> QED
  BY <1>1, <1>2, <1>3, <1>4, PublishKeeps, SubscribeKeeps, ReadEventKeeps
     DEF HubNext, StreamStep, HubQuiescent

\* The inductive invariant holds in every reachable state of the hub.
THEOREM HubInvariant == HubSpec => []HubIInv
  BY HubInitIInv, HubNextIInv, PTL DEF HubSpec

\* Publish never sends on a closed channel and no channel is closed twice, for
\* any number of streams and whoever calls UnsubscribeAll.
THEOREM NoClosedChannelUsed == HubSpec => []OpenWhileSubscribed
<1>1. HubIInv => OpenWhileSubscribed
  BY DEF HubIInv
<1> QED
  BY <1>1, HubInvariant, PTL

\* Publish drops nothing of a stream whose buffer has room for the rest of its
\* run; MaxRetries + 2 events is room for any.
THEOREM NothingLostWithRoom == HubSpec => []NothingLost
<1>1. HubIInv => NothingLost
  BY DEF HubIInv
<1> QED
  BY <1>1, HubInvariant, PTL

\* An event that is read goes from the front of the channel to the end of what was sent:
\* the two together stay the same.
LEMMA MoveOne ==
  ASSUME NEW g \in Seq(Nat), NEW h \in Seq(Nat), h # <<>>
  PROVE  Append(g, Head(h)) \o Tail(h) = g \o h
<1>1. /\ Append(g, Head(h)) \o Tail(h) \in Seq(Nat) /\ g \o h \in Seq(Nat)
      /\ Len(Append(g, Head(h)) \o Tail(h)) = Len(g \o h)
  OBVIOUS
<1>2. \A i \in 1..Len(g \o h) : (Append(g, Head(h)) \o Tail(h))[i] = (g \o h)[i]
  OBVIOUS
<1> DEFINE a == Append(g, Head(h)) \o Tail(h)
           b == g \o h
<1>3. a \in Seq(Nat) /\ b \in Seq(Nat) /\ Len(a) = Len(b) /\ \A i \in 1..Len(b) : a[i] = b[i]
  BY <1>1, <1>2
<1> HIDE DEF a, b
<1>4. a = b
  <2>1. a = [i \in 1..Len(a) |-> a[i]] /\ b = [i \in 1..Len(b) |-> b[i]]
    BY <1>3
  <2> QED
    BY <1>3, <2>1
<1> QED
  BY <1>4, SMTT(20) DEF a, b

\* An event that is published goes to the end of the channel.
LEMMA AddOne ==
  ASSUME NEW g \in Seq(Nat), NEW h \in Seq(Nat), NEW e \in Nat
  PROVE  g \o Append(h, e) = Append(g \o h, e)
<1>1. /\ g \o Append(h, e) \in Seq(Nat) /\ Append(g \o h, e) \in Seq(Nat)
      /\ Len(g \o Append(h, e)) = Len(Append(g \o h, e))
  OBVIOUS
<1>2. \A i \in 1..Len(Append(g \o h, e)) : (g \o Append(h, e))[i] = Append(g \o h, e)[i]
  OBVIOUS
<1> QED
  BY <1>1, <1>2

\* What InOrder says of a sequence of events of a run.
Ordered(s, from, to) ==
  /\ \A i, j \in DOMAIN s : i < j => s[i] < s[j]
  /\ \A i \in DOMAIN s : from < s[i] /\ s[i] <= to

\* A newer event may be appended, and the run may go on.
LEMMA OrderedGrows ==
  ASSUME NEW s \in Seq(Nat), NEW from \in Nat, NEW to \in Nat, Ordered(s, from, to)
  PROVE  /\ Ordered(s, from, to + 1)
         /\ from <= to => Ordered(Append(s, to + 1), from, to + 1)
<1>1. \A i \in DOMAIN s : s[i] \in Nat
  OBVIOUS
<1>2. Ordered(s, from, to + 1)
  BY <1>1 DEF Ordered
<1>3. ASSUME from <= to PROVE Ordered(Append(s, to + 1), from, to + 1)
  <2>1. /\ DOMAIN s = 1..Len(s) /\ DOMAIN Append(s, to + 1) = 1..(Len(s) + 1) /\ Len(s) \in Nat
        /\ \A i \in DOMAIN s : Append(s, to + 1)[i] = s[i]
        /\ Append(s, to + 1)[Len(s) + 1] = to + 1
    BY AppendSeq
  <2> DEFINE t == Append(s, to + 1)
  <2>2. \A i \in DOMAIN t : \/ i \in DOMAIN s /\ t[i] = s[i]
                            \/ i = Len(s) + 1 /\ t[i] = to + 1
    BY <2>1
  <2>3. DOMAIN t = 1..(Len(s) + 1)
    BY <2>1
  <2> HIDE DEF t
  <2>4. ASSUME NEW i \in DOMAIN t, NEW j \in DOMAIN t, i < j PROVE t[i] < t[j]
    <3>1. i \in DOMAIN s /\ t[i] = s[i] /\ s[i] \in Nat /\ s[i] <= to
      BY <1>1, <2>1, <2>2, <2>3, <2>4 DEF Ordered
    <3>2. CASE j \in DOMAIN s /\ t[j] = s[j]
      BY <2>4, <3>1, <3>2 DEF Ordered
    <3>3. CASE t[j] = to + 1
      BY <3>1, <3>3
    <3> QED
      BY <2>2, <3>2, <3>3
  <2>5. ASSUME NEW i \in DOMAIN t PROVE from < t[i] /\ t[i] <= to + 1
    <3>1. CASE i \in DOMAIN s /\ t[i] = s[i]
      BY <1>1, <3>1 DEF Ordered
    <3>2. CASE t[i] = to + 1
      BY <1>3, <3>2
    <3> QED
      BY <2>2, <3>1, <3>2
  <2>6. Ordered(t, from, to + 1)
    BY <2>4, <2>5 DEF Ordered
  <2> QED
    BY <2>6 DEF t
<1> QED
  BY <1>2, <1>3

\* No step of the hub or of a stream puts an event out of order.
LEMMA InOrderNext ==
  ASSUME HubIInv, InOrder, [HubNext]_hvars
  PROVE  InOrder'
<1> USE DEF Ordered
<1>0. /\ \A c \in Streams : /\ got[c] \in Seq(Nat) /\ chan[c] \in Seq(Nat) /\ since[c] \in Nat
                            /\ srun[c] \in Runs /\ Len(log[srun[c]]) \in Nat
                            /\ since[c] <= Len(log[srun[c]])
      /\ got \in [Streams -> Seq(Nat)] /\ chan \in [Streams -> Seq(Nat)]
      /\ since \in [Streams -> Nat] /\ log \in [Runs -> Seq(EventTypes)]
  BY DEF HubIInv, HubTypeOK, SinceBounded
<1>1. \A c \in Streams : Ordered(got[c] \o chan[c], since[c], Len(log[srun[c]]))
  BY DEF InOrder
<1> SUFFICES ASSUME NEW c \in Streams
             PROVE  Ordered(got'[c] \o chan'[c], since'[c], Len(log'[srun'[c]]))
  BY DEF InOrder
<1> HIDE DEF Ordered
<1>2. ASSUME UNCHANGED <<log, srun, since>>, got'[c] \o chan'[c] = got[c] \o chan[c]
      PROVE  Ordered(got'[c] \o chan'[c], since'[c], Len(log'[srun'[c]]))
  BY <1>1, <1>2
<1>3. ASSUME NEW r \in Runs, NEW e \in EventTypes, Publish(r, e)
      PROVE  Ordered(got'[c] \o chan'[c], since'[c], Len(log'[srun'[c]]))
  <2>1. /\ UNCHANGED <<srun, since, got>>
        /\ chan'[c] = IF c \in subs[r] /\ Len(chan[c]) < BufferSize
                      THEN Append(chan[c], Len(log'[r])) ELSE chan[c]
        /\ log' = [log EXCEPT ![r] = Append(log[r], e)]
    BY <1>3 DEF Publish, Emit
  <2>2. CASE srun[c] # r
    <3>1. c \notin subs[r]
      BY <2>2 DEF HubIInv, OpenWhileSubscribed
    <3>2. log'[srun[c]] = log[srun[c]] /\ chan'[c] = chan[c]
      BY <1>0, <2>1, <2>2, <3>1
    <3> QED
      BY <1>1, <2>1, <3>2
  <2>3. CASE srun[c] = r
    <3>1. Len(log'[r]) = Len(log[r]) + 1 /\ Len(log[r]) \in Nat
      BY <1>0, <2>1, AppendSeq
    <3>2. /\ got[c] \o chan[c] \in Seq(Nat)
          /\ got[c] \o Append(chan[c], Len(log'[r])) = Append(got[c] \o chan[c], Len(log[r]) + 1)
      <4> DEFINE g == got[c]
                 h == chan[c]
                 e1 == Len(log[r]) + 1
      <4>1. g \in Seq(Nat) /\ h \in Seq(Nat) /\ e1 \in Nat /\ Len(log'[r]) = e1
        BY <1>0, <3>1
      <4> HIDE DEF g, h, e1
      <4>2. g \o h \in Seq(Nat)
        BY <4>1
      <4>3. g \o Append(h, e1) = Append(g \o h, e1)
        BY <4>1, AddOne
      <4>4. g \o Append(h, Len(log'[r])) = Append(g \o h, e1)
        BY <4>1, <4>3
      <4> QED
        BY <4>2, <4>4 DEF g, h, e1
    <3>3. /\ Ordered(got[c] \o chan[c], since[c], Len(log[r]) + 1)
          /\ Ordered(Append(got[c] \o chan[c], Len(log[r]) + 1), since[c], Len(log[r]) + 1)
      BY <1>0, <1>1, <2>3, <3>2, OrderedGrows
    <3> QED
      BY <2>1, <2>3, <3>1, <3>2, <3>3
  <2> QED
    BY <2>2, <2>3
<1>4. ASSUME NEW d \in Streams, Subscribe(d)
      PROVE  Ordered(got'[c] \o chan'[c], since'[c], Len(log'[srun'[c]]))
  <2>1. CASE c = d
    <3>1. got'[c] = <<>> /\ chan'[c] = <<>>
      BY <1>4, <2>1 DEF Subscribe, HubIInv, SinceBounded
    <3>2. DOMAIN (got'[c] \o chan'[c]) = {}
      BY <3>1
    <3> QED
      BY <3>2 DEF Ordered
  <2>2. CASE c # d
    BY <1>0, <1>1, <1>4, <2>2 DEF Subscribe
  <2> QED
    BY <2>1, <2>2
<1>5. ASSUME NEW d \in Streams, ReadEvent(d)
      PROVE  Ordered(got'[c] \o chan'[c], since'[c], Len(log'[srun'[c]]))
  <2>1. /\ UNCHANGED <<log, srun, since>> /\ chan[d] # <<>>
        /\ chan' = [chan EXCEPT ![d] = Tail(chan[d])]
        /\ got' = [got EXCEPT ![d] = Append(got[d], Head(chan[d]))]
    BY <1>5 DEF ReadEvent
  <2>2. CASE c = d
    <3>1. got'[c] = Append(got[c], Head(chan[c])) /\ chan'[c] = Tail(chan[c])
      BY <1>0, <2>1, <2>2
    <3> QED
      BY <1>0, <1>2, <2>1, <2>2, <3>1, MoveOne, SMTT(20)
  <2>3. CASE c # d
    BY <1>0, <1>2, <2>1, <2>3
  <2> QED
    BY <2>2, <2>3
<1>6. ASSUME NEW d \in Streams, ReadClosed(d) \/ Unsubscribe(d) \/ Disconnect(d)
      PROVE  Ordered(got'[c] \o chan'[c], since'[c], Len(log'[srun'[c]]))
  BY <1>2, <1>6 DEF ReadClosed, Unsubscribe, Disconnect
<1>7. ASSUME NEW r \in Runs, UnsubscribeAll(r)
      PROVE  Ordered(got'[c] \o chan'[c], since'[c], Len(log'[srun'[c]]))
  BY <1>2, <1>7 DEF UnsubscribeAll
<1>8. CASE HubQuiescent \/ UNCHANGED hvars
  BY <1>2, <1>8 DEF HubQuiescent, hvars, hubVars
<1> QED
  BY <1>3, <1>4, <1>5, <1>6, <1>7, <1>8 DEF HubNext, StreamStep

\* A client of handleStream gets the events of its run in order, and all of them where
\* the hub's buffer has room for the rest of the run: for any streams, runs, retries and
\* buffer size.
THEOREM StreamsFaithful == HubSpec => []StreamFaithful
<1>1. HubInit => InOrder
  <2> SUFFICES ASSUME HubInit, NEW c \in Streams PROVE DOMAIN (got[c] \o chan[c]) = {}
    BY DEF InOrder
  <2>1. got[c] = <<>> /\ chan[c] = <<>>
    BY DEF HubInit
  <2> QED
    BY <2>1
<1>2. HubIInv /\ InOrder /\ [HubNext]_hvars => InOrder'
  BY InOrderNext
<1>3. HubIInv /\ InOrder => StreamFaithful
  BY DEF HubIInv, StreamFaithful
<1> QED
  BY <1>1, <1>2, <1>3, HubInvariant, PTL DEF HubSpec
=============================================================================

----------------------------- MODULE RateLimiter -----------------------------
(***************************************************************************)
(* The rate limiter of the server, pkg/orchestrate/ratelimit.go, for one   *)
(* key: the in-memory token bucket and the sliding window kept in Redis.   *)
(* A request stamps its time first and reaches the bucket or the script    *)
(* later; the limit may be 0 (requests_per_minute is not validated).       *)
(***************************************************************************)
EXTENDS Integers, FiniteSets

CONSTANTS Clients,     \* concurrent requests
          Limits,      \* values of requests_per_minute
          RateWindow,  \* the window, in ticks; the limits other than 0 divide it
          MaxTime      \* bound on the clock

ASSUME LimitsAssumption == \A n \in Limits \ {0} : RateWindow % n = 0

VARIABLES useRedis,   \* NoLimiter before NewRateLimiter
          limit,
          now,        \* time
          bucket,     \* the key's bucket, NoBucket when there is none
          mapLocked,  \* localStore.mu is held by a request that panicked
          zset,       \* the key's sorted set in Redis
          expireAt,   \* when Redis drops it
          client,     \* where each request is
          admitted    \* admitted[t]: requests let through at time t (Redis: 1 if any)

rlVars == <<useRedis, limit, now, bucket, mapLocked, zset, expireAt, client, admitted>>

NoBucket == [tokens |-> -1, last |-> -1]
NoLimiter == "none"
IdleClient == [pc |-> "idle", stamp |-> 0]

RateInit ==
  /\ useRedis = NoLimiter /\ limit = 0
  /\ now = 0 /\ bucket = NoBucket /\ mapLocked = FALSE /\ zset = {} /\ expireAt = 0
  /\ client = [c \in Clients |-> IdleClient]
  /\ admitted = [t \in 0..MaxTime |-> 0]

NewRateLimiter(redis, n) ==
  /\ useRedis = NoLimiter /\ useRedis' = redis /\ limit' = n
  /\ UNCHANGED <<now, bucket, mapLocked, zset, expireAt, client, admitted>>

TimePasses ==
  /\ useRedis # NoLimiter /\ now < MaxTime /\ now' = now + 1
  /\ UNCHANGED <<useRedis, limit, bucket, mapLocked, zset, expireAt, client, admitted>>

\* The first half of allowLocal, under localStore.mu: find or make the bucket.
\* A limit of 0 divides by zero with the mutex held.
LookUp(c) ==
  /\ useRedis = "no" /\ client[c].pc = "idle" /\ ~mapLocked
  /\ IF bucket = NoBucket /\ limit = 0
     THEN /\ mapLocked' = TRUE /\ client' = [client EXCEPT ![c].pc = "panicked"]
          /\ UNCHANGED bucket
     ELSE /\ bucket' = IF bucket = NoBucket THEN [tokens |-> limit, last |-> now] ELSE bucket
          /\ client' = [client EXCEPT ![c].pc = "bucket"]
          /\ UNCHANGED mapLocked
  /\ UNCHANGED <<useRedis, limit, now, zset, expireAt, admitted>>

\* Whole refill intervals since the last refill; the fraction is dropped.
Refilled ==
  LET add == (now - bucket.last) \div (RateWindow \div limit)
      sum == bucket.tokens + add
  IN  IF add > 0 THEN [tokens |-> IF sum < limit THEN sum ELSE limit, last |-> now] ELSE bucket

\* The second half, under the bucket's mutex.
TakeToken(c) ==
  /\ client[c].pc = "bucket" /\ bucket # NoBucket
  /\ LET ok == Refilled.tokens > 0 IN
     /\ bucket' = [Refilled EXCEPT !.tokens = IF ok THEN @ - 1 ELSE @]
     /\ admitted' = IF ok THEN [admitted EXCEPT ![now] = @ + 1] ELSE admitted
  /\ client' = [client EXCEPT ![c] = IdleClient]
  /\ UNCHANGED <<useRedis, limit, now, mapLocked, zset, expireAt>>

\* allowRedis: the time is taken here, the script runs when Redis gets to it.
Stamp(c) ==
  /\ useRedis = "yes" /\ client[c].pc = "idle"
  /\ client' = [client EXCEPT ![c] = [pc |-> "script", stamp |-> now]]
  /\ UNCHANGED <<useRedis, limit, now, bucket, mapLocked, zset, expireAt, admitted>>

\* Mutant: a member is dropped one instant early.
LiveShort(t) == IF now >= expireAt THEN {} ELSE {s \in zset : s > t - RateWindow + 1}

Live(t) == IF now >= expireAt THEN {} ELSE {s \in zset : s > t - RateWindow}

\* The Lua script; a member is a time, so equal times are one member.
\* admitted marks the instants whose script let a request through undelayed.
Script(c) ==
  LET t == client[c].stamp
      ok == Cardinality(Live(t)) < limit
  IN  /\ client[c].pc = "script"
      /\ zset' = IF ok THEN Live(t) \cup {t} ELSE Live(t)
      /\ expireAt' = IF ok THEN now + RateWindow ELSE expireAt
      /\ admitted' = IF ok /\ t = now THEN [admitted EXCEPT ![now] = 1] ELSE admitted
      /\ client' = [client EXCEPT ![c] = IdleClient]
      /\ UNCHANGED <<useRedis, limit, now, bucket, mapLocked>>

\* Redis fails: the middleware answers 500.
ScriptError(c) ==
  /\ client[c].pc = "script" /\ client' = [client EXCEPT ![c] = IdleClient]
  /\ UNCHANGED <<useRedis, limit, now, bucket, mapLocked, zset, expireAt, admitted>>

RateNext ==
  \/ \E redis \in {"yes", "no"}, n \in Limits : NewRateLimiter(redis, n)
  \/ TimePasses
  \/ \E c \in Clients : LookUp(c) \/ TakeToken(c) \/ Stamp(c) \/ Script(c) \/ ScriptError(c)

-----------------------------------------------------------------------------
\* What was let through in the window that ends at t.
LetThrough(t) ==
  LET window == {s \in 0..MaxTime : t - RateWindow < s /\ s <= t}
      Sum[S \in SUBSET window] ==
        IF S = {} THEN 0
        ELSE LET s == CHOOSE s \in S : TRUE IN admitted[s] + Sum[S \ {s}]
  IN  Sum[window]

\* In every window of a minute the bucket lets at most twice its limit through
\* (a full bucket and what flows in meanwhile), and the script lets requests
\* through at no more than limit instants, counting those it ran without delay.
\* Only a limit of 0, the one value that lets nothing through, costs the map its
\* mutex and every later request its answer.
WindowRespected ==
  /\ mapLocked => limit = 0
  /\ \A t \in 0..now : LetThrough(t) <= IF useRedis = "yes" THEN limit ELSE 2 * limit
=============================================================================

-------------------------- MODULE ModelPerformance --------------------------
(***************************************************************************)
(* The model performance collector and store (pkg/mlops).  Record appends a *)
(* sample to a bounded buffer and flushes it when it is full; a flush       *)
(* empties the buffer, then inserts one snapshot per provider and model, in *)
(* the order of a map, and gives up at the first insert that fails.  The    *)
(* store compares the latest snapshot with the oldest of the last week.     *)
(***************************************************************************)
EXTENDS Integers, FiniteSets, Sequences, SequencesExt, FiniteSetsExt

CONSTANTS Models,        \* "provider:model" keys
          Latencies, Capacity, MaxSamples, MaxDays, BaselineDays

VARIABLES samples, snapshots, day, recorded, samplesLost, insertFailed

perfVars == <<samples, snapshots, day, recorded, samplesLost, insertFailed>>

PerfInit ==
  /\ samples = <<>> /\ snapshots = <<>> /\ day = 0
  /\ recorded = 0 /\ samplesLost = 0 /\ insertFailed = FALSE

Sample(k, latency, success) == [model |-> k, latency |-> latency, success |-> success]

\* Mutant: the index is rounded down.
PercentileFloor(sorted, p) ==
  LET idx == (Len(sorted) * p) \div 100 - 1 IN sorted[(IF idx < 0 THEN 0 ELSE idx) + 1]

\* The nearest rank: the element at ceil(n p / 100), from one.
Percentile(sorted, p) ==
  LET idx == (Len(sorted) * p + 99) \div 100 - 1 IN sorted[(IF idx < 0 THEN 0 ELSE idx) + 1]

\* The snapshot of one group of samples.
Snapshot(list, k) ==
  LET own == SelectSeq(list, LAMBDA s : s.model = k)
      lat == SortSeq([i \in DOMAIN own |-> own[i].latency], <)
  IN [model |-> k, n |-> Len(own),
      p50 |-> Percentile(lat, 50), p95 |-> Percentile(lat, 95), p99 |-> Percentile(lat, 99),
      errors |-> Cardinality({i \in DOMAIN own : ~own[i].success}), at |-> day,
      lats |-> lat]

KeysOf(list) == {list[i].model : i \in DOMAIN list}

\* flushLockedWithContext: the snapshots of the keys before the first failing one.
Flushed(list, order, ok) == [i \in 1..ok |-> Snapshot(list, order[i])]

FlushTo(list, order, ok) ==
  /\ samples' = <<>>
  /\ snapshots' = snapshots \o Flushed(list, order, ok)
  /\ insertFailed' = (insertFailed \/ ok < Len(order))
  /\ samplesLost' = samplesLost
       + Len(SelectSeq(list, LAMBDA s : s.model \notin {order[i] : i \in 1..ok}))

\* Record; the flush of a full buffer ignores its error.
Record(s) ==
  /\ recorded < MaxSamples /\ recorded' = recorded + 1 /\ UNCHANGED day
  /\ LET list == Append(samples, s) IN
     IF Len(list) < Capacity
     THEN samples' = list /\ UNCHANGED <<snapshots, samplesLost, insertFailed>>
     ELSE \E order \in SetToSeqs(KeysOf(list)) : \E ok \in 0..Len(order) : FlushTo(list, order, ok)

FlushSamples ==
  /\ samples # <<>> /\ UNCHANGED <<day, recorded>>
  /\ \E order \in SetToSeqs(KeysOf(samples)) : \E ok \in 0..Len(order) : FlushTo(samples, order, ok)

DayPasses ==
  /\ day < MaxDays /\ day' = day + 1
  /\ UNCHANGED <<samples, snapshots, recorded, samplesLost, insertFailed>>

\* Snapshots of a model, the latest first: rows of one instant in either order.
Latest(k) == {i \in DOMAIN snapshots :
                snapshots[i].model = k
                /\ \A j \in DOMAIN snapshots : snapshots[j].model = k => snapshots[j].at <= snapshots[i].at}
GetBaselineSnapshot(k) ==
  {i \in DOMAIN snapshots :
     /\ snapshots[i].model = k /\ snapshots[i].at >= day - BaselineDays
     /\ \A j \in DOMAIN snapshots :
          (snapshots[j].model = k /\ snapshots[j].at >= day - BaselineDays)
             => snapshots[i].at <= snapshots[j].at}

\* latency p99 more than half above the baseline, or five points more errors.
Drifted(cur, base) ==
  \/ base.p99 > 0 /\ 2 * cur.p99 > 3 * base.p99
  \/ 100 * (cur.errors * base.n - base.errors * cur.n) > 5 * cur.n * base.n

\* The answers DetectDrift may give.
DetectDrift(k) ==
  IF Latest(k) = {} THEN {"no data"}
  ELSE IF GetBaselineSnapshot(k) = {} THEN {"no baseline"}
  ELSE {IF Drifted(snapshots[i], snapshots[j]) THEN "drifted" ELSE "ok" :
          i \in Latest(k), j \in GetBaselineSnapshot(k)}

PerfNext ==
  \/ \E k \in Models, l \in Latencies, b \in BOOLEAN : Record(Sample(k, l, b))
  \/ FlushSamples \/ DayPasses

-----------------------------------------------------------------------------
\* Every recorded sample is in the buffer or counted by exactly one snapshot; only a
\* failed insert loses samples, and then the groups behind it with its own.  The
\* buffer stays below its capacity.  A percentile is the least latency that at
\* least p percent of the group's samples do not exceed, and a model with one
\* snapshot of the last week never drifts.
SamplesAccounted ==
  /\ recorded = Len(samples) + samplesLost
                + MapThenSumSet(LAMBDA i : snapshots[i].n, DOMAIN snapshots)
  /\ Len(samples) < Capacity /\ (samplesLost > 0 => insertFailed)
  /\ \A i \in DOMAIN snapshots : \A q \in {<<50, snapshots[i].p50>>, <<95, snapshots[i].p95>>,
                                         <<99, snapshots[i].p99>>} :
       LET Share(v) == 100 * Cardinality({j \in DOMAIN snapshots[i].lats : snapshots[i].lats[j] <= v})
       IN Share(q[2]) >= q[1] * snapshots[i].n /\ Share(q[2] - 1) < q[1] * snapshots[i].n
  /\ \A k \in Models :
       Cardinality({i \in DOMAIN snapshots : snapshots[i].model = k}) = 1 =>
         DetectDrift(k) \subseteq {"ok", "no baseline"}
=============================================================================

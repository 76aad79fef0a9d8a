------------------------------ MODULE Autoscaler ------------------------------
(***************************************************************************)
(* The auto-scaler (pkg/autoscaling/scaler.go): one loop copies the enabled *)
(* policies and evaluates them one after the other; meanwhile policies are  *)
(* added, replaced and removed, and others change the replicas of the       *)
(* service the policies are about.  A policy is an object: the loop holds   *)
(* pointers, and adding a policy under an id in use replaces the pointer.   *)
(* A metric is taken as a percentage of its threshold.                      *)
(***************************************************************************)
EXTENDS Integers, Sequences, Folds

CONSTANTS ScalePolicies,     \* records [id, min, max, up, down, cooldown, enabled, weights]
          MetricLevels,      \* percentages a metric may have; -1: it cannot be read
          ReplicaCounts,     \* what others set the replicas to
          MaxScaleTime, MaxPolicyObjects, MaxScaleOps

VARIABLES scaleMap,          \* AutoScaler.policies: id |-> object
          scaleObjs,         \* object |-> [policy, last]
          replicas,          \* of the service
          toCheck, check,    \* the copied list and the evaluation under way
          scaleTime, scaleOps,
          lastScale, scaleLog   \* history: the last Scale that took effect, and when each
                                \* object's last successful one was

scaleVars == <<scaleMap, scaleObjs, replicas, toCheck, check, scaleTime, scaleOps, lastScale,
               scaleLog>>

Never == -100
NoCheck == [obj |-> 0, from |-> 0, load |-> "none", to |-> 0, gap |-> 0]

ScalerInit ==
  /\ scaleMap = <<>> /\ scaleObjs = <<>> /\ replicas = 3 /\ toCheck = {} /\ check = NoCheck
  /\ scaleTime = 0 /\ scaleOps = 0 /\ lastScale = NoCheck /\ scaleLog = <<>>

ScaleTick ==
  /\ scaleTime < MaxScaleTime /\ scaleObjs # <<>> /\ scaleTime' = scaleTime + 1
  /\ UNCHANGED <<scaleMap, scaleObjs, replicas, toCheck, check, scaleOps, lastScale, scaleLog>>

AddPolicy(p) ==
  /\ Len(scaleObjs) < MaxPolicyObjects
  /\ scaleObjs' = Append(scaleObjs, [policy |-> p, last |-> Never])
  /\ scaleMap' = [i \in DOMAIN scaleMap \cup {p.id} |->
                    IF i = p.id THEN Len(scaleObjs) + 1 ELSE scaleMap[i]]
  /\ scaleLog' = Append(scaleLog, Never)
  /\ UNCHANGED <<replicas, toCheck, check, scaleTime, scaleOps, lastScale>>

RemovePolicy(id) ==
  /\ scaleOps < MaxScaleOps /\ scaleOps' = scaleOps + 1 /\ id \in DOMAIN scaleMap
  /\ scaleMap' = [i \in DOMAIN scaleMap \ {id} |-> scaleMap[i]]
  /\ UNCHANGED <<scaleObjs, replicas, toCheck, check, scaleTime, lastScale, scaleLog>>

\* Somebody else scales the service.
OthersScale(n) ==
  /\ scaleOps < MaxScaleOps /\ scaleOps' = scaleOps + 1 /\ scaleObjs # <<>> /\ replicas' = n
  /\ UNCHANGED <<scaleMap, scaleObjs, toCheck, check, scaleTime, lastScale, scaleLog>>

\* checkAndScale on a tick of the loop; a tick missed while a check runs is dropped.
CheckAndScale ==
  /\ toCheck = {} /\ check = NoCheck
  /\ toCheck' = {scaleMap[i] : i \in {j \in DOMAIN scaleMap : scaleObjs[scaleMap[j]].policy.enabled}}
  /\ toCheck' # {}
  /\ UNCHANGED <<scaleMap, scaleObjs, replicas, check, scaleTime, scaleOps, lastScale, scaleLog>>

CoolingDown(o) == scaleTime - scaleObjs[o].last < scaleObjs[o].policy.cooldown

\* The metrics that can be read, weighted: the score is total / weight.
Total(p, levels) ==
  MapThenFoldSet(LAMBDA x, y : x + y, 0, LAMBDA i : levels[i] * p.weights[i],
                 LAMBDA s : CHOOSE i \in s : TRUE, {i \in DOMAIN levels : levels[i] # -1})
Weight(p, levels) ==
  MapThenFoldSet(LAMBDA x, y : x + y, 0, LAMBDA i : p.weights[i],
                 LAMBDA s : CHOOSE i \in s : TRUE, {i \in DOMAIN levels : levels[i] # -1})

calculateScaleIncrement(n, total, weight) ==
  CASE total > 200 * weight -> IF n \div 2 > 2 THEN n \div 2 ELSE 2
    [] total > 150 * weight -> IF n \div 4 > 1 THEN n \div 4 ELSE 1
    [] OTHER                -> 1

\* Scaling up stops at the maximum, scaling down at the minimum; neither looks at the
\* other bound, and a score between the thresholds changes nothing.
Desired(p, n, total, weight) ==
  CASE total > p.up * weight   -> LET d == n + calculateScaleIncrement(n, total, weight)
                                  IN  IF d > p.max THEN p.max ELSE d
    [] total < p.down * weight -> IF n - 1 < p.min THEN p.min ELSE n - 1
    [] OTHER                   -> n

\* evaluatePolicy up to the call of Scale; the replicas and the metrics are read here.
\* Without a readable metric, or without a change to make, the evaluation is over.
EvaluatePolicy(o, levels) ==
  /\ check = NoCheck /\ o \in toCheck /\ toCheck' = toCheck \ {o}
  /\ LET p == scaleObjs[o].policy
         total == Total(p, levels)
         weight == Weight(p, levels)
         to == Desired(p, replicas, total, weight)
     IN  check' = IF CoolingDown(o) \/ weight = 0 \/ to = replicas THEN NoCheck
                  ELSE [obj |-> o, from |-> replicas, to |-> to, gap |-> 0,
                        load |-> CASE total > p.up * weight   -> "over"
                                   [] total < p.down * weight -> "under"
                                   [] OTHER                   -> "within"]
  /\ UNCHANGED <<scaleMap, scaleObjs, replicas, scaleTime, scaleOps, lastScale, scaleLog>>

\* Mutant: the time is not kept when the policy scales down.
ScaledAtUps(o) ==
  IF check.to < check.from THEN scaleObjs ELSE [scaleObjs EXCEPT ![o].last = scaleTime]
ScaledAt(o) == [scaleObjs EXCEPT ![o].last = scaleTime]

\* Scale, which may take effect and still return an error, and, when it succeeded, the
\* time of the policy's last scaling.
Scale(applied, ok) ==
  /\ check # NoCheck /\ check' = NoCheck /\ (ok => applied)
  /\ LET o == check.obj
     IN  /\ replicas' = IF applied THEN check.to ELSE replicas
         /\ lastScale' = IF applied THEN [check EXCEPT !.gap = scaleTime - scaleLog[o]] ELSE lastScale
         /\ scaleObjs' = IF ok THEN ScaledAt(o) ELSE scaleObjs
         /\ scaleLog' = IF ok THEN [scaleLog EXCEPT ![o] = scaleTime] ELSE scaleLog
  /\ IF applied = ok THEN UNCHANGED scaleOps
     ELSE scaleOps < MaxScaleOps /\ scaleOps' = scaleOps + 1
  /\ UNCHANGED <<scaleMap, toCheck, scaleTime>>

ScalerNext ==
  \/ ScaleTick \/ CheckAndScale
  \/ \E p \in ScalePolicies : AddPolicy(p)
  \/ \E id \in DOMAIN scaleMap : RemovePolicy(id)
  \/ \E n \in ReplicaCounts : OthersScale(n)
  \/ \E o \in toCheck : \E levels \in [DOMAIN scaleObjs[o].policy.weights -> MetricLevels] :
       EvaluatePolicy(o, levels)
  \/ \E applied, ok \in BOOLEAN : Scale(applied, ok)

-----------------------------------------------------------------------------
\* evaluatePolicy (scaler.go): once a policy object has scaled with success it does not
\* scale again within its cooldown, however the checks fall and whichever other objects
\* are added under its id or removed meanwhile; from a count inside its bounds it goes to
\* a count inside its bounds, and in the direction its load asked for.  (An object that
\* replaces one under its id starts without a cooldown, and so does a call of Scale that
\* took effect and reported an error: the code paces neither.)
ScalingPaced ==
  lastScale # NoCheck =>
    LET p == scaleObjs[lastScale.obj].policy
        inside(n) == p.min <= n /\ n <= p.max
    IN  /\ lastScale.gap >= p.cooldown
        /\ inside(lastScale.from) =>
             /\ inside(lastScale.to)
             /\ lastScale.to > lastScale.from => lastScale.load = "over"
             /\ lastScale.to < lastScale.from => lastScale.load = "under"
=============================================================================

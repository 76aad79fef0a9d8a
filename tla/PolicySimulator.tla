---------------------------- MODULE PolicySimulator ----------------------------
(***************************************************************************)
(* "unagnt policy simulate" and "unagnt policy test": a stored version of a *)
(* policy is judged against the actions of a run, or against the cases of a *)
(* test file (pkg/policy/simulator.go, test_runner.go).  Other processes    *)
(* save and delete versions meanwhile; every case of a test reads the       *)
(* version again.                                                           *)
(***************************************************************************)
EXTENDS Integers, Sequences, SequencesExt, FiniteSets, FiniteSetsExt

CONSTANTS Documents,     \* content |-> [json, rules], what a stored content parses to
          SimVersions,
          SimTools,      \* tools of recorded actions; "bad" is a row that does not scan
          Suites,        \* test files: sequences of [tool, allowed, denied, reason, min, max]
          MaxSimEdits, MaxSimEvents

VARIABLES simStore,      \* version |-> its content, "none" when there is no such row
          simActive,     \* the active version, "none" before the first
          simEvents,     \* the run's tool_execution rows, by timestamp
          simCmd,        \* the command that runs
          simEdits

simulatorVars == <<simStore, simActive, simEvents, simCmd, simEdits>>

NoSim == [pc |-> "idle"]

SimInit ==
  /\ simStore = [v \in SimVersions |-> "none"] /\ simActive = "none"
  /\ simEvents = <<>> /\ simCmd = NoSim /\ simEdits = 0

\* policy apply; a version that exists is refused.
SimSave(v, x, activate) ==
  /\ simEdits < MaxSimEdits /\ simEdits' = simEdits + 1 /\ simStore[v] = "none"
  /\ simStore' = [simStore EXCEPT ![v] = x]
  /\ simActive' = IF activate THEN v ELSE simActive
  /\ UNCHANGED <<simEvents, simCmd>>

\* DeleteVersion keeps the active version.
SimDelete(v) ==
  /\ simEdits < MaxSimEdits /\ simEdits' = simEdits + 1 /\ simStore[v] # "none" /\ v # simActive
  /\ simStore' = [simStore EXCEPT ![v] = "none"]
  /\ UNCHANGED <<simActive, simEvents, simCmd>>

SimActivate(v) ==
  /\ simEdits < MaxSimEdits /\ simEdits' = simEdits + 1 /\ simStore[v] # "none"
  /\ simActive' = v /\ UNCHANGED <<simStore, simEvents, simCmd>>

RunRecords(t) ==
  /\ Len(simEvents) < MaxSimEvents /\ simEvents' = Append(simEvents, t)
  /\ UNCHANGED <<simStore, simActive, simCmd, simEdits>>

-----------------------------------------------------------------------------
(* The simulator                                                           *)

Matching(s, P(_)) == Cardinality({i \in DOMAIN s : P(s[i])})
matchesRule(rule, tool) == rule.tool \in {"", "*", tool}
Allowing == [allowed |-> TRUE, reason |-> "", risk |-> 0, alert |-> FALSE]
Judgement(rule) ==
  [allowed |-> rule.effect # "deny",
   reason |-> IF rule.effect = "deny" THEN rule.reason ELSE "",
   risk |-> IF rule.effect = "deny" THEN rule.risk ELSE 0,
   alert |-> rule.alert]

\* Mutant: the loop goes on after the rule that matches.
evaluateActionLast(rules, tool) ==
  LET hits == {i \in DOMAIN rules : matchesRule(rules[i], tool)}
  IN  IF hits = {} THEN Allowing ELSE Judgement(rules[Max(hits)])
evaluateAction(rules, tool) ==
  LET hits == {i \in DOMAIN rules : matchesRule(rules[i], tool)}
  IN  IF hits = {} THEN Allowing ELSE Judgement(rules[Min(hits)])

\* calculateSummary; rates are kept as their numerators.
calculateSummary(details) ==
  [reasons |-> [r \in {d.reason : d \in Range(details)} \ {""} |->
                  Matching(details, LAMBDA d : ~ d.allowed /\ d.reason = r)],
   risk |-> FoldSeq(LAMBDA d, n : n + d.risk, 0, details)]

ParsePolicy(x) == Documents[x].json
Readable(v) == simStore[v] # "none" /\ ParsePolicy(simStore[v])

\* The row is read once; everything after that works on the copy.
Simulate(v, tools) ==
  LET details == [i \in DOMAIN tools |-> evaluateAction(Documents[simStore[v]].rules, tools[i])]
  IN  [details |-> details, total |-> Len(tools),
       allowed |-> Matching(details, LAMBDA d : d.allowed),
       denied |-> Matching(details, LAMBDA d : ~ d.allowed),
       alerts |-> Matching(details, LAMBDA d : d.alert),
       summary |-> calculateSummary(details)]

\* loadActionsFromRun: what the run has recorded so far, without unreadable rows.
loadActionsFromRun == SelectSeq(simEvents, LAMBDA t : t # "bad")

SimulateBegin(v) ==
  /\ simCmd.pc = "idle" /\ simCmd' = [pc |-> "simulate", ver |-> v, tools |-> loadActionsFromRun]
  /\ UNCHANGED <<simStore, simActive, simEvents, simEdits>>

SimulateRun ==
  /\ simCmd.pc = "simulate"
  /\ simCmd' = IF Readable(simCmd.ver)
               THEN [pc |-> "simulated", content |-> simStore[simCmd.ver], tools |-> simCmd.tools,
                     result |-> Simulate(simCmd.ver, simCmd.tools)]
               ELSE NoSim
  /\ UNCHANGED <<simStore, simActive, simEvents, simEdits>>

-----------------------------------------------------------------------------
(* The test runner                                                         *)

Flag(wanted, is) == wanted = "" \/ wanted = (IF is THEN "yes" ELSE "no")

\* checkExpectations: every expectation that is given, a missing bound is -1.
checkExpectations(e, d) ==
  /\ Flag(e.allowed, d.allowed) /\ Flag(e.denied, ~ d.allowed)
  /\ e.reason = "" \/ d.reason = e.reason
  /\ Flag(e.alert, d.alert)
  /\ e.min = -1 \/ d.risk >= e.min
  /\ e.max = -1 \/ d.risk <= e.max

SimTestBegin(suite) ==
  /\ simCmd.pc = "idle" /\ simActive # "none"
  /\ simCmd' = [pc |-> "test", ver |-> simActive, suite |-> suite, marks |-> <<>>, seen |-> {}]
  /\ UNCHANGED <<simStore, simActive, simEvents, simEdits>>

runTestCase(case) ==
  IF ~ Readable(simCmd.ver) THEN "failed"
  ELSE IF checkExpectations(case, Simulate(simCmd.ver, <<case.tool>>).details[1]) THEN "passed"
  ELSE "failed"

SimTestCase ==
  /\ simCmd.pc = "test" /\ Len(simCmd.marks) < Len(simCmd.suite)
  /\ simCmd' = [simCmd EXCEPT !.marks = Append(@, runTestCase(simCmd.suite[Len(@) + 1])),
                              !.seen = @ \cup {simStore[simCmd.ver]}]
  /\ UNCHANGED <<simStore, simActive, simEvents, simEdits>>

\* RunTest counts the marks; the command fails when a case did.
SimTestEnd ==
  /\ simCmd.pc = "test" /\ Len(simCmd.marks) = Len(simCmd.suite)
  /\ simCmd' = [pc |-> "tested", suite |-> simCmd.suite, marks |-> simCmd.marks,
                seen |-> simCmd.seen,
                ok |-> Matching(simCmd.marks, LAMBDA m : m = "failed") = 0]
  /\ UNCHANGED <<simStore, simActive, simEvents, simEdits>>

SimShown ==
  /\ simCmd.pc \in {"simulated", "tested"} /\ simCmd' = NoSim
  /\ UNCHANGED <<simStore, simActive, simEvents, simEdits>>

SimNext ==
  \/ \E v \in SimVersions, x \in DOMAIN Documents, a \in BOOLEAN : SimSave(v, x, a)
  \/ \E v \in SimVersions : SimDelete(v) \/ SimActivate(v) \/ SimulateBegin(v)
  \/ \E t \in SimTools : RunRecords(t)
  \/ \E s \in Suites : SimTestBegin(s)
  \/ SimulateRun \/ SimTestCase \/ SimTestEnd \/ SimShown

-----------------------------------------------------------------------------
\* A rule decides a tool when it matches and no rule before it does.
Decides(rules, i, tool) ==
  matchesRule(rules[i], tool) /\ \A j \in 1..i - 1 : ~ matchesRule(rules[j], tool)

\* "policy simulate" and "policy test" judge by the first rule that matches
\* (simulator.go evaluateAction): an action is denied exactly when that rule denies; the
\* counts and the reasons account for every action; and a test that passes saw, for
\* each case, a stored content of its version that meets what the case says of denial.
SimulationAccounts ==
  /\ simCmd.pc = "simulated" =>
       LET r == simCmd.result  rules == Documents[simCmd.content].rules
       IN  /\ r.allowed + r.denied = Len(simCmd.tools)
           /\ \A k \in DOMAIN simCmd.tools :
                ~ r.details[k].allowed <=>
                  \E i \in DOMAIN rules : /\ Decides(rules, i, simCmd.tools[k])
                                          /\ rules[i].effect = "deny"
           /\ MapThenSumSet(LAMBDA s : r.summary.reasons[s], DOMAIN r.summary.reasons)
                = Matching(r.details, LAMBDA d : ~ d.allowed /\ d.reason # "")
  /\ simCmd.pc = "tested" /\ simCmd.ok =>
       \A k \in DOMAIN simCmd.suite : \E x \in simCmd.seen \ {"none"} :
         LET rules == Documents[x].rules  case == simCmd.suite[k]
             denied == \E i \in DOMAIN rules : Decides(rules, i, case.tool) /\ rules[i].effect = "deny"
         IN  Flag(case.allowed, ~ denied) /\ Flag(case.denied, denied)
=============================================================================

----------------------------- MODULE RiskEngine -----------------------------
(***************************************************************************)
(* The risk engine, its store, its analyzer and the compliance reports      *)
(* (pkg/risk), and the assess command of the CLI.  Callers assess an action *)
(* and save the assessment in two calls; a report reads the statistics of   *)
(* its period, then the riskiest actions, then saves itself, each in a call *)
(* of its own to the database.  Scores and thresholds are in hundredths,    *)
(* weights in tenths; a score is the fraction num / den of hundredths.      *)
(***************************************************************************)
EXTENDS Naturals, Sequences, FiniteSets, FiniteSetsExt, TLC

CONSTANTS RiskConfigs,   \* [enabled, nilWeights, weights, low, medium, high, approval, deny]
          RiskContexts,  \* [tool, perms, env, recent, pii]: ActionContext
          RiskCallers,
          TopLimit,      \* how many risky actions a report looks at: 10 in the code
          DayLength, MaxInstant, MaxAssessments, MaxRiskReports

ASSUME DayAssumption == DayLength \in Nat \ {0}

VARIABLES riskConfig,    \* the engine's config once NewRiskEngine has filled it in
          riskHeld,      \* caller |-> the assessment it has not saved yet
          riskRows,      \* risk_assessments, oldest first
          riskDraft,     \* the report being generated, after its statistics query
          riskReports,   \* compliance_reports, oldest first
          riskShown,     \* what the CLI command printed last
          riskExport,    \* what the last export returned
          riskClock

riskVars == <<riskConfig, riskHeld, riskRows, riskDraft, riskReports, riskShown,
              riskExport, riskClock>>

RiskCategories == {"security", "privacy", "cost", "reversible", "impact", "compliance"}
NoAssessment == [decision |-> "none"]
NoDraft == [kind |-> "none"]
NoConfig == [enabled |-> FALSE, weights |-> <<>>]

\* The entry of a score table, or the score of a tool the table does not have.
Entry(table, key, default) == IF key \in DOMAIN table THEN table[key] ELSE default
Capped(score) == Min({score, 100})

assessSecurity(c) ==
  LET tools == [delete_file |-> 80, execute_command |-> 95, http_request |-> 40,
                write_file |-> 50, read_file |-> 20]
      boosts == [exec |-> 30, fs_delete |-> 25, fs_write |-> 15, net_external |-> 10]
  IN  Capped(Entry(tools, c.tool, 30)
             + MapThenSumSet(LAMBDA p : Entry(boosts, p, 0), c.perms)
             + Entry([production |-> 30, staging |-> 10], c.env, 0))

assessPrivacy(c) ==
  Capped(Entry([read_file |-> 40, http_request |-> 50, database |-> 60], c.tool, 0)
         + IF c.pii THEN 30 ELSE 0)

\* Both surcharges apply to more than 50 recent actions.
assessCost(c) ==
  Capped(Entry([http_request |-> 30, model_call |-> 40, database |-> 20], c.tool, 0)
         + (IF c.recent > 10 THEN 20 ELSE 0) + (IF c.recent > 50 THEN 30 ELSE 0))

assessReversibility(c) ==
  Entry([delete_file |-> 100, execute_command |-> 90, http_request |-> 70,
         send_email |-> 100], c.tool, 20)

assessImpact(c) ==
  Capped(Entry([production |-> 90, staging |-> 50, dev |-> 10], c.env, 0)
         + Entry([delete_file |-> 40, execute_command |-> 50, database |-> 40,
                  write_file |-> 30], c.tool, 0))

assessCompliance(c) ==
  Capped(Entry([read_file |-> 30, write_file |-> 40, database |-> 50,
                http_request |-> 40], c.tool, 0)
         + IF c.env = "production" THEN 20 ELSE 0)

DefaultWeights == [security |-> 15, privacy |-> 12, cost |-> 3, reversible |-> 10,
                   impact |-> 13, compliance |-> 11, reliability |-> 4]

DefaultRiskConfig ==
  [enabled |-> TRUE, weights |-> DefaultWeights, low |-> 30, medium |-> 60,
   high |-> 85, approval |-> 80, deny |-> 95]

\* A zero threshold, and a nil weight map, means "not given"; a given map of
\* weights is kept as it is, and a category it lacks weighs nothing.
Filled(c) ==
  LET given(v, default) == IF v = 0 THEN default ELSE v
  IN  [enabled |-> c.enabled,
       weights |-> IF c.nilWeights THEN DefaultWeights ELSE c.weights,
       low |-> given(c.low, 30), medium |-> given(c.medium, 60),
       high |-> given(c.high, 85), approval |-> given(c.approval, 80),
       deny |-> given(c.deny, 95)]

Reaches(score, threshold) == score.num >= threshold * score.den

scoreToLevel(config, score) ==
  CASE ~ Reaches(score, config.low)    -> "low"
    [] ~ Reaches(score, config.medium) -> "medium"
    [] ~ Reaches(score, config.high)   -> "high"
    [] OTHER                           -> "critical"

\* Mutant: reviews are asked for above the threshold only where the level is critical.
makeDecisionLate(config, score, level) ==
  CASE Reaches(score, config.deny)                               -> "deny"
    [] level \in {"medium", "high"}                              -> "allow_with_log"
    [] Reaches(score, config.approval) /\ level # "critical"     -> "require_review"
    [] OTHER                                                     -> "allow"

makeDecision(config, score, level) ==
  CASE Reaches(score, config.deny)     -> "deny"
    [] Reaches(score, config.approval) -> "require_review"
    [] level \in {"medium", "high"}    -> "allow_with_log"
    [] OTHER                           -> "allow"

calculateConfidence(c, factors) ==
  Capped(70 + (IF Cardinality(factors) > 5 THEN 10 ELSE 0)
         + (IF c.env = "production" THEN 10 ELSE 0))

\* Assess with the engine's config: the weighted mean of the six factors.  The mean
\* of no weight at all is not a number and becomes one half.
Assess(config, c, now) ==
  LET breakdown == [security |-> assessSecurity(c), privacy |-> assessPrivacy(c),
                    cost |-> assessCost(c), reversible |-> assessReversibility(c),
                    impact |-> assessImpact(c), compliance |-> assessCompliance(c)]
      weight(k) == Entry(config.weights, k, 0)
      total  == MapThenSumSet(weight, RiskCategories)
      score  == IF total = 0 THEN [num |-> 50, den |-> 1]
                ELSE [num |-> MapThenSumSet(LAMBDA k : breakdown[k] * weight(k), RiskCategories),
                      den |-> total]
      level  == scoreToLevel(config, score)
  IN  IF config.enabled
      THEN [ctx |-> c, score |-> score, level |-> level, at |-> now,
            decision |-> makeDecision(config, score, level), breakdown |-> breakdown,
            confidence |-> calculateConfidence(c, RiskCategories)]
      ELSE [ctx |-> c, score |-> [num |-> 0, den |-> 1], level |-> "low", at |-> now,
            decision |-> "allow", breakdown |-> <<>>, confidence |-> 0]

RiskInit ==
  /\ riskConfig = NoConfig /\ riskHeld = [a \in RiskCallers |-> NoAssessment]
  /\ riskRows = <<>> /\ riskDraft = NoDraft /\ riskReports = <<>>
  /\ riskShown = NoAssessment /\ riskExport = NoDraft /\ riskClock = 0

NewRiskEngine(config) ==
  /\ riskConfig = NoConfig /\ riskConfig' = Filled(config)
  /\ UNCHANGED <<riskHeld, riskRows, riskDraft, riskReports, riskShown, riskExport, riskClock>>

RiskTick ==
  /\ riskConfig # NoConfig /\ riskClock < MaxInstant /\ riskClock' = riskClock + 1
  /\ UNCHANGED <<riskConfig, riskHeld, riskRows, riskDraft, riskReports, riskShown, riskExport>>

AssessFor(a, c) ==
  /\ riskConfig # NoConfig /\ riskHeld[a] = NoAssessment
  /\ Len(riskRows) + Cardinality({b \in RiskCallers : riskHeld[b] # NoAssessment})
       < MaxAssessments
  /\ riskHeld' = [riskHeld EXCEPT ![a] = Assess(riskConfig, c, riskClock)]
  /\ UNCHANGED <<riskConfig, riskRows, riskDraft, riskReports, riskShown, riskExport, riskClock>>

\* Save: the id is the clock in nanoseconds, so a second save of the same instant may
\* meet the key of the first and fail.
SaveAssessment(a) ==
  /\ riskHeld[a] # NoAssessment
  /\ riskHeld' = [riskHeld EXCEPT ![a] = NoAssessment]
  /\ LET row == [saved |-> riskClock] @@ riskHeld[a]
     IN  \/ riskRows' = Append(riskRows, row)
         \/ /\ \E i \in 1..Len(riskRows) : riskRows[i].saved = riskClock
            /\ riskRows' = riskRows
  /\ UNCHANGED <<riskConfig, riskDraft, riskReports, riskShown, riskExport, riskClock>>

\* assess: the default engine, five recent actions, no input; the six scores are
\* printed as bars of twenty cells.
createBar(score) == (score * 20) \div 100
printRiskAssessment(a) ==
  [ctx |-> a.ctx, level |-> a.level, decision |-> a.decision,
   bars |-> [k \in RiskCategories |-> createBar(a.breakdown[k])]]

RiskAssessCmd(c) ==
  /\ c.recent = 5 /\ ~ c.pii /\ riskConfig # NoConfig /\ riskShown = NoAssessment
  /\ LET shown == Assess(DefaultRiskConfig, c, riskClock)
     IN  riskShown' = printRiskAssessment(shown)
  /\ UNCHANGED <<riskConfig, riskHeld, riskRows, riskDraft, riskReports, riskExport, riskClock>>
RiskRowIds == 1..Len(riskRows)
CountDecision(rows, d) == Cardinality({i \in rows : riskRows[i].decision = d})
CountLevel(rows, l) == Cardinality({i \in rows : riskRows[i].level = l})
ScoreOf(rows) == MapThenSumSet(LAMBDA i : riskRows[i].score.num, rows)

\* Mutant: the period excludes its last instant.
RowsOfHalfOpen(from, to) == {i \in RiskRowIds : from <= riskRows[i].at /\ riskRows[i].at < to}
\* WHERE timestamp BETWEEN ? AND ?: both ends belong to the period.
RowsOf(from, to) == {i \in RiskRowIds : from <= riskRows[i].at /\ riskRows[i].at <= to}

\* GetStats over the rows it could read and decode.  The sums by tool, like the ones by
\* environment and by category, are divided by the number of all assessments, not by that
\* of the tool.
RiskStats(rows) ==
      [total |-> Cardinality(rows), sum |-> ScoreOf(rows),
       high |-> CountLevel(rows, "high") + CountLevel(rows, "critical"),
       critical |-> CountLevel(rows, "critical"),
       denied |-> CountDecision(rows, "deny"),
       approvals |-> CountDecision(rows, "require_review"),
       compliant |-> CountDecision(rows, "allow") + CountDecision(rows, "allow_with_log"),
       byTool |-> [t \in {riskRows[i].ctx.tool : i \in rows} |->
                     ScoreOf({i \in rows : riskRows[i].ctx.tool = t})]]

\* The sets of at most limit rows of at least 70 hundredths that no other such row
\* outranks: equal scores come back in any order.
RiskiestActions(limit) ==
  LET risky == {i \in RiskRowIds : Reaches(riskRows[i].score, 70)}
  IN  {top \in SUBSET risky :
         /\ Cardinality(top) = Min({limit, Cardinality(risky)})
         /\ \A i \in top, j \in risky \ top : riskRows[j].score.num <= riskRows[i].score.num}

\* What analyzeFindings counts, and the examples it keeps.
analyzeFindings(top) ==
  [critical |-> CountLevel(top, "critical"), high |-> CountLevel(top, "high"),
   examples |-> Min({3, CountLevel(top, "critical")})]
NoFindings == [critical |-> 0, high |-> 0, examples |-> 0]

\* A period without assessments has compliance rate zero.
generateRecommendations(s) ==
  LET den == IF s.total = 0 THEN 1
             ELSE riskRows[CHOOSE i \in RiskRowIds : TRUE].score.den
      found == (IF s.compliant * 10 < s.total * 8 \/ s.total = 0 THEN {"below 80%"} ELSE {})
               \cup (IF s.sum > 60 * den * s.total THEN {"average elevated"} ELSE {})
               \cup (IF s.denied > s.total \div 10 THEN {"high denial rate"} ELSE {})
               \cup (IF s.critical > 0 THEN {"critical issues"} ELSE {})
  IN  IF found = {} THEN {"within ranges"} ELSE found

\* The period of each kind of report; a custom one is any interval.
ReportPeriod(kind, start) ==
  [from |-> start, to |-> start + (IF kind = "weekly" THEN 7 ELSE 1) * DayLength]

\* generateReport up to its statistics query, which passes over rows it cannot scan or
\* decode and takes a result set that is cut short for a whole one.
GenerateRiskReport(kind, start) ==
  /\ riskConfig # NoConfig /\ riskDraft = NoDraft /\ Len(riskReports) < MaxRiskReports
  /\ LET p == ReportPeriod(kind, start)
         rows == RowsOf(p.from, p.to)
     IN  \E lost \in SUBSET rows :
           riskDraft' = [kind |-> kind, period |-> p, read |-> Len(riskRows), made |-> riskClock,
                         lost |-> Cardinality(lost)] @@ RiskStats(rows \ lost)
  /\ UNCHANGED <<riskConfig, riskHeld, riskRows, riskReports, riskShown, riskExport, riskClock>>

saveReport(report, saved) ==
  riskReports' = IF saved THEN Append(riskReports, report) ELSE riskReports

\* The rest of it: the riskiest actions of all time, the findings about them, the
\* recommendations (only when there are findings to make), and the insert.  A failed
\* query of the riskiest actions is ignored and so are rows it loses; a failed insert
\* loses the report.
FinishReport(saved) ==
  /\ riskDraft # NoDraft /\ riskDraft' = NoDraft
  /\ \E top \in RiskiestActions(TopLimit) : \E got \in SUBSET top :
       LET some == got # {}
           report == [findings |-> IF some THEN analyzeFindings(got) ELSE NoFindings,
                      advice |-> IF some THEN generateRecommendations(riskDraft) ELSE {}]
       IN  saveReport(report @@ riskDraft, saved)
  /\ UNCHANGED <<riskConfig, riskHeld, riskRows, riskShown, riskExport, riskClock>>

\* ListReports: the newest reports of a kind ("" for every kind), at most limit.
ListReports(kind, limit) ==
  LET fits == {i \in 1..Len(riskReports) : kind \in {"", riskReports[i].kind}}
  IN  {i \in fits : Cardinality({j \in fits : j > i}) < limit}

\* Every column is read back; the CSV row and the CEF line carry some of them.
GetReport(i) == riskReports[i]
exportReportCSV(r) == [kind |-> "csv", total |-> r.total, high |-> r.high, denied |-> r.denied]
exportReportCEF(r) == [kind |-> "cef", total |-> r.total, made |-> r.made]

\* PDF and unknown formats are refused.
ExportReport(i, format) ==
  /\ riskExport = NoDraft
  /\ riskExport' =
       CASE format = "json" -> [kind |-> "json", report |-> GetReport(i)]
         [] format = "csv"  -> exportReportCSV(GetReport(i))
         [] format = "cef"  -> exportReportCEF(GetReport(i))
         [] OTHER           -> [kind |-> "refused"]
  /\ UNCHANGED <<riskConfig, riskHeld, riskRows, riskDraft, riskReports, riskShown, riskClock>>

RiskNext ==
  \/ \E c \in RiskConfigs : NewRiskEngine(c)
  \/ RiskTick
  \/ \E a \in RiskCallers, c \in RiskContexts : AssessFor(a, c)
  \/ \E a \in RiskCallers : SaveAssessment(a)
  \/ \E c \in RiskContexts : RiskAssessCmd(c)
  \/ \E kind \in {"daily", "weekly"}, d \in 0..(MaxInstant \div DayLength) :
       GenerateRiskReport(kind, d * DayLength)
  \/ \E saved \in BOOLEAN : FinishReport(saved)
  \/ \E i \in ListReports("daily", 1), f \in {"json", "csv", "cef", "pdf"} : ExportReport(i, f)

-----------------------------------------------------------------------------
DecisionRank == [allow |-> 0, allow_with_log |-> 1, require_review |-> 2, deny |-> 3]
EnvRank == [dev |-> 1, staging |-> 2, production |-> 3]

\* The second action is the same call made with at least the permissions, in an
\* environment at least as sensitive, after at least as many actions.
NoSafer(c, d) ==
  /\ c.tool = d.tool /\ c.perms \subseteq d.perms /\ c.recent <= d.recent
  /\ (c.pii => d.pii) /\ Entry(EnvRank, c.env, 0) <= Entry(EnvRank, d.env, 0)

\* Assess, scoreToLevel and makeDecision (engine.go) together: of two assessments one
\* engine stored, the action that is no safer got the milder decision only where the
\* config puts the approval threshold above the one of critical actions, and then only by
\* being critical and allowed; and the assess command, which always uses the
\* default config, decides like an engine whose config left everything to them.
DecisionsMonotone ==
  /\ \A i, j \in RiskRowIds : NoSafer(riskRows[i].ctx, riskRows[j].ctx) =>
       \/ DecisionRank[riskRows[i].decision] <= DecisionRank[riskRows[j].decision]
       \/ /\ riskConfig.high < riskConfig.approval
          /\ riskRows[j].level = "critical" /\ riskRows[j].decision = "allow"
  /\ riskShown # NoAssessment /\ riskConfig = DefaultRiskConfig =>
       \A i \in RiskRowIds : riskRows[i].ctx = riskShown.ctx =>
         /\ riskRows[i].decision = riskShown.decision
         /\ riskRows[i].level = riskShown.level

\* generateReport and GetStats (compliance.go, analytics.go): a saved report counts
\* each assessment that was stored when its statistics were read and that was made in
\* its period, both ends included, under exactly one decision, but for rows that could not
\* be read.  A finding counts stored assessments of
\* its level, though not only those of the period; and "within ranges" is advised only
\* on its own.
ReportsAccount ==
  \A k \in 1..Len(riskReports) : LET r == riskReports[k] IN
    /\ r.total = r.denied + r.approvals + r.compliant
    /\ r.total + r.lost = Cardinality({i \in 1..r.read : r.period.from <= riskRows[i].at
                                                         /\ riskRows[i].at <= r.period.to})
    /\ r.findings.critical <= CountLevel(RiskRowIds, "critical")
    /\ r.findings.high <= CountLevel(RiskRowIds, "high")
    /\ "within ranges" \in r.advice => r.advice = {"within ranges"} /\ r.denied * 10 <= r.total

\* Decisions and reports of the risk engine: the less safe action is treated more mildly
\* only by thresholds in the wrong order, and a report counts every assessment of its
\* period that it could read once.
RiskConsistent == DecisionsMonotone /\ ReportsAccount
=============================================================================

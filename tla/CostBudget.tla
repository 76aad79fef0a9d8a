----------------------------- MODULE CostBudget -----------------------------
(***************************************************************************)
(* The cost tracker (pkg/cost), the budget guard, and the reports of the    *)
(* analytics API and of the costs command.  Calls add to accumulators in    *)
(* memory; flushLoop swaps the accumulators out under the lock and writes   *)
(* them in one transaction afterwards; a caller that found the total under  *)
(* the limit and above the threshold takes the guard's lock to fire the     *)
(* alert.  A cost is a natural number of price units, time is in hours.     *)
(***************************************************************************)
EXTENDS Naturals, FiniteSets, FiniteSetsExt

CONSTANTS CostKeys,     \* [agent, tenant, user, model, wf]: one accumulator each
          Prices,       \* model |-> price; a model without one is not priced
          Checkers,     \* callers of CheckAndAlert, on one guard
          BudgetLimit,
          RangeHours,   \* how far each named range of a request reaches back
          MaxSpend, MaxHours

ASSUME PricesAssumption == \A m \in DOMAIN Prices : Prices[m] \in Nat \ {0}

VARIABLES costSchema,   \* columns of cost_entries: of the CLI's own schema, or of migration 015
          accum, batch, \* currentCosts, and what a flush holds between the lock and the commit
          costRows,     \* stored cost by key and hour
          costLoop, hour, checking, alerted,
          costReport,   \* GET /v1/analytics/costs between and after its two queries
          spent, spentLate, costLost, alerts, dbFault   \* history; spentLate: since the last swap

costVars == <<costSchema, accum, batch, costRows, costLoop, hour, checking, alerted,
              costReport, spent, spentLate, costLost, alerts, dbFault>>

Hours == 0..MaxHours
NoCost == [k \in CostKeys |-> [cost |-> 0, at |-> 0]]
SumCost(m) == MapThenSumSet(LAMBDA k : m[k].cost, CostKeys)
NoCostReport == [pc |-> "none", tenant |-> "", from |-> 0, to |-> 0, total |-> 0, agents |-> 0,
                 flushed |-> FALSE]

CostInit ==
  /\ costSchema = "none" /\ accum = NoCost /\ batch = NoCost
  /\ costRows = [k \in CostKeys |-> [h \in Hours |-> 0]]
  /\ costLoop = "ticking" /\ hour = 0
  /\ checking = [c \in Checkers |-> "idle"] /\ alerted = FALSE
  /\ costReport = NoCostReport /\ spent = 0 /\ spentLate = 0 /\ costLost = 0 /\ alerts = 0 /\ dbFault = FALSE

\* The table: made by costEntriesSchema of the CLI (which has no workflow columns),
\* or by the migrations.
OpenCostDB(schema) ==
  /\ costSchema = "none" /\ costSchema' = schema
  /\ UNCHANGED <<accum, batch, costRows, costLoop, hour, checking, alerted,
                 costReport, spent, spentLate, costLost, alerts, dbFault>>

HourPasses ==
  /\ hour < MaxHours /\ hour' = hour + 1
  /\ UNCHANGED <<costSchema, accum, batch, costRows, costLoop, checking, alerted,
                 costReport, spent, spentLate, costLost, alerts, dbFault>>

\* No pricing found: the call returns the error and counts nothing.
CalculateCost(model, tokens) == tokens * Prices[model]

TrackLLMCall(k, tokens) ==
  /\ costSchema # "none" /\ spent < MaxSpend
  /\ k.model \in DOMAIN Prices
  /\ LET cost == CalculateCost(k.model, tokens) IN
     /\ accum' = [accum EXCEPT ![k] = [cost |-> @.cost + cost, at |-> hour]]
     /\ spent' = spent + cost
     /\ spentLate' = IF costLoop \in {"last", "ended"} THEN spentLate + cost ELSE spentLate
  /\ UNCHANGED <<costSchema, batch, costRows, costLoop, hour, checking, alerted,
                 costReport, costLost, alerts, dbFault>>

\* Mutant: the accumulators are copied but not replaced.
FlushSwapKept(last) ==
  /\ costLoop \in (IF last THEN {"stopping"} ELSE {"ticking", "stopping"})
  /\ SumCost(batch) = 0 /\ (last \/ SumCost(accum) > 0)
  /\ batch' = accum /\ costLoop' = IF last THEN "last" ELSE costLoop
  /\ UNCHANGED <<costSchema, accum, costRows, hour, checking, alerted,
                 costReport, spent, spentLate, costLost, alerts, dbFault>>

\* flush under the lock: take every accumulator, leave an empty map.  The last flush is
\* the one flushLoop makes after Stop; a tick that is due may still come before it.
FlushSwap(last) ==
  /\ costLoop \in (IF last THEN {"stopping"} ELSE {"ticking", "stopping"})
  /\ SumCost(batch) = 0 /\ (last \/ SumCost(accum) > 0)
  /\ batch' = accum /\ accum' = NoCost /\ costLoop' = IF last THEN "last" ELSE costLoop
  /\ UNCHANGED <<costSchema, costRows, hour, checking, alerted,
                 costReport, spent, spentLate, costLost, alerts, dbFault>>

\* The rest of flush: no row is written when Begin, Prepare or Commit fails
\* (Prepare always does without the workflow columns), a row is skipped when its
\* insert fails (the identifier is the time: two rows of one instant clash).
\* Nothing puts the batch back.
FlushWrite(written) ==
  /\ SumCost(batch) > 0
  /\ costSchema = "cli" => written = {}
  /\ costRows' = [k \in CostKeys |-> IF k \in written
                    THEN [costRows[k] EXCEPT ![batch[k].at] = @ + batch[k].cost]
                    ELSE costRows[k]]
  /\ costLost' = costLost + MapThenSumSet(LAMBDA k : batch[k].cost, CostKeys \ written)
  /\ dbFault' = (dbFault \/ (costSchema = "full"
                             /\ \E k \in CostKeys \ written : batch[k].cost > 0))
  /\ batch' = NoCost
  /\ costReport' = [costReport EXCEPT !.flushed = @ \/ (costReport.pc = "total" /\ written # {})]
  /\ UNCHANGED <<costSchema, accum, costLoop, hour, checking, alerted, spent, spentLate, alerts>>

\* Stop closes stopChan.
StopTracker ==
  /\ costLoop = "ticking" /\ costLoop' = "stopping"
  /\ UNCHANGED <<costSchema, accum, batch, costRows, hour, checking, alerted,
                 costReport, spent, spentLate, costLost, alerts, dbFault>>

\* flushLoop returns once its last flush has; what is tracked later is never flushed.
FlushLoopEnds ==
  /\ costLoop = "last" /\ SumCost(batch) = 0
  /\ costLoop' = "ended"
  /\ UNCHANGED <<costSchema, accum, batch, costRows, hour, checking, alerted,
                 costReport, spent, spentLate, costLost, alerts, dbFault>>

(***************************************************************************)
(* Reports: sums over the rows of a window that ends now.                   *)
(***************************************************************************)
CostWithin(keys, from, to) ==
  MapThenSumSet(LAMBDA k : MapThenSumSet(LAMBDA h : costRows[k][h], from..to), keys)
CostOf(keys, from) == CostWithin(keys, from, hour)
OfTenant(t) == {k \in CostKeys : k.tenant = t}
GroupBy(keys, Field(_), from) ==
  [g \in {Field(k) : k \in keys} |-> CostOf({k \in keys : Field(k) = g}, from)]
ReportSum(report) == MapThenSumSet(LAMBDA g : report[g], DOMAIN report)

GetTotalCost(t, from) == CostOf(IF t = "" THEN CostKeys ELSE OfTenant(t), from)
AgentsWithin(t, from, to) ==
  [a \in {k.agent : k \in OfTenant(t)} |->
     CostWithin({k \in OfTenant(t) : k.agent = a}, from, to)]
GetCostsByAgent(t, from) == AgentsWithin(t, from, hour)
GetCostsByTenant(from) == GroupBy(CostKeys, LAMBDA k : k.tenant, from)
GetCostsByUser(t, from) == GroupBy(OfTenant(t), LAMBDA k : k.user, from)

\* Mutant: the calls outside any workflow have no group.
GetCostsByWorkflowNamed(t, from) ==
  GroupBy({k \in OfTenant(t) : k.wf # ""}, LAMBDA k : k.wf, from)
GetCostsByWorkflow(t, from) ==
  GroupBy(OfTenant(t), LAMBDA k : IF k.wf = "" THEN "(no workflow)" ELSE k.wf, from)

\* The entries with the filters of the request; an empty one filters nothing.
GetCostBreakdown(t, wf, model) ==
  {k \in OfTenant(t) : /\ wf # "" => k.wf = wf
                       /\ model # "" => k.model = model}

\* The command's own queries drop the tenant condition for an empty tenant.
CliKeys(t) == IF t = "" THEN CostKeys ELSE OfTenant(t)
PrintTotalCost(t, from) == CostOf(CliKeys(t), from)
PrintCostsByAgent(t, from) == GroupBy(CliKeys(t), LAMBDA k : k.agent, from)
PrintCostsByTenant(from) == GroupBy(CostKeys, LAMBDA k : k.tenant, from)
PrintCostsByUser(t, from) == GroupBy(CliKeys(t), LAMBDA k : k.user, from)

Back(hours) == IF hour < hours THEN 0 ELSE hour - hours

\* Both parse the range the same way: a name they do not know is a day.
ParseTimeRange(r) == Back(IF r \in DOMAIN RangeHours THEN RangeHours[r] ELSE RangeHours["24h"])
ParseDateRange(r) == Back(IF r \in DOMAIN RangeHours THEN RangeHours[r] ELSE RangeHours["24h"])

\* GET /v1/analytics/costs: the query for the total, and the one for the agents of the
\* same window.
ApiCostsTotal(t, r) ==
  /\ costSchema = "full" /\ costReport.pc = "none"
  /\ LET from == ParseTimeRange(r) IN
     costReport' = [NoCostReport EXCEPT !.pc = "total", !.tenant = t, !.from = from, !.to = hour,
                                        !.total = GetTotalCost(t, from)]
  /\ UNCHANGED <<costSchema, accum, batch, costRows, costLoop, hour, checking, alerted,
                 spent, spentLate, costLost, alerts, dbFault>>

ApiCostsAgents ==
  /\ costReport.pc = "total"
  /\ LET c == costReport IN
     costReport' = [NoCostReport EXCEPT !.pc = "sent", !.total = c.total, !.flushed = c.flushed,
                      !.agents = ReportSum(AgentsWithin(c.tenant, c.from, c.to))]
  /\ UNCHANGED <<costSchema, accum, batch, costRows, costLoop, hour, checking, alerted,
                 spent, spentLate, costLost, alerts, dbFault>>

\* The other handlers under it, and the costs command.
ApiCostsByAgent(t, r) == GetCostsByAgent(t, ParseTimeRange(r))
ApiCostsByTenant(r) == GetCostsByTenant(ParseTimeRange(r))
ApiCostsByWorkflow(t, r) == GetCostsByWorkflow(t, ParseTimeRange(r))
ApiCostBreakdown(t, wf, model, r) ==
  CostOf(GetCostBreakdown(t, wf, model), ParseTimeRange(r))
CostsCmd(by, t, r) ==
  LET from == ParseDateRange(r) IN
  CASE by = "agent"  -> PrintCostsByAgent(t, from)
    [] by = "tenant" -> PrintCostsByTenant(from)
    [] by = "user"   -> PrintCostsByUser(t, from)
    [] OTHER         -> [total |-> PrintTotalCost(t, from)]

(***************************************************************************)
(* BudgetGuard                                                              *)
(***************************************************************************)
PeriodStart == Back(RangeHours["24h"])
OverLimit == GetTotalCost("", PeriodStart) >= BudgetLimit
OverThreshold == 5 * GetTotalCost("", PeriodStart) >= 4 * BudgetLimit

\* CheckAndAlert up to the lock: over the limit it only says so.
CheckAndAlert(c) ==
  /\ costSchema # "none" /\ checking[c] = "idle"
  /\ checking' = [checking EXCEPT ![c] = IF OverLimit THEN "over"
                                         ELSE IF ~alerted /\ OverThreshold THEN "locking"
                                         ELSE "under"]
  /\ UNCHANGED <<costSchema, accum, batch, costRows, costLoop, hour, alerted,
                 costReport, spent, spentLate, costLost, alerts, dbFault>>

AlertLocked(c) ==
  /\ checking[c] = "locking" /\ alerted' = TRUE
  /\ alerts' = IF alerted THEN alerts ELSE alerts + 1
  /\ checking' = [checking EXCEPT ![c] = "under"]
  /\ UNCHANGED <<costSchema, accum, batch, costRows, costLoop, hour, costReport, spent, spentLate, costLost, dbFault>>

CallAgain(c) ==
  /\ checking[c] \in {"over", "under"} /\ checking' = [checking EXCEPT ![c] = "idle"]
  /\ UNCHANGED <<costSchema, accum, batch, costRows, costLoop, hour, alerted,
                 costReport, spent, spentLate, costLost, alerts, dbFault>>

CostNext ==
  \/ \E s \in {"cli", "full"} : OpenCostDB(s)
  \/ HourPasses \/ StopTracker \/ FlushLoopEnds \/ ApiCostsAgents
  \/ \E last \in BOOLEAN : FlushSwap(last)
  \/ \E t \in {k.tenant : k \in CostKeys} \ {""}, r \in DOMAIN RangeHours : ApiCostsTotal(t, r)
  \/ \E k \in CostKeys, n \in {1, 2} : TrackLLMCall(k, n)
  \/ \E written \in SUBSET {k \in CostKeys : batch[k].cost > 0} : FlushWrite(written)
  \/ \E c \in Checkers : CheckAndAlert(c) \/ AlertLocked(c) \/ CallAgain(c)

-----------------------------------------------------------------------------
\* Whatever the calls spend is at every moment in exactly one place: in an
\* accumulator, in the batch a flush holds, or in the table, however calls and
\* flushes interleave; cost is lost only by a database failure or because the
\* table is the one of the CLI, and the loop leaves in an accumulator for good exactly
\* what was tracked after its last flush began.  Two callers that pass the threshold together fire
\* one alert (CheckAndAlert reads the flag again under the lock).
SpendAccounted ==
  /\ spent = SumCost(accum) + SumCost(batch) + costLost + CostOf(CostKeys, 0)
  /\ costLost > 0 => dbFault \/ costSchema = "cli"
  /\ costLoop \in {"last", "ended"} => SumCost(accum) = spentLate
  /\ alerts <= 1

\* The reports of one window agree: read at one time, the groups of a tenant add up to its
\* total whichever way they are cut, the tenants add up to the total of all, and the
\* command prints what the API returns.  The agents of GET /v1/analytics/costs, a second
\* query, add up to its total, or to more when a flush came in between, never to less.
\* (The rows do not depend on that request: reading them before it loses no case.)
ReportsAgree ==
  /\ costReport.pc = "sent" =>
       /\ costReport.total <= costReport.agents
       /\ costReport.total # costReport.agents => costReport.flushed
  /\ (costSchema = "full" /\ costReport.pc = "none") => \A r \in DOMAIN RangeHours \cup {""} :
       /\ \A t \in {k.tenant : k \in CostKeys} \ {""} :
            LET total == GetTotalCost(t, ParseTimeRange(r)) IN
            /\ \A report \in {ApiCostsByAgent(t, r), GetCostsByUser(t, ParseTimeRange(r)),
                              ApiCostsByWorkflow(t, r)}
                             \cup {CostsCmd(by, t, r) : by \in {"agent", "user", "total"}} :
                 ReportSum(report) = total
            /\ ApiCostBreakdown(t, "", "", r) = total
            /\ \A k \in OfTenant(t) : k.wf # "" =>
                 ApiCostBreakdown(t, k.wf, "", r) = ApiCostsByWorkflow(t, r)[k.wf]
       /\ ReportSum(ApiCostsByTenant(r)) = GetTotalCost("", ParseTimeRange(r))
       /\ ReportSum(CostsCmd("tenant", "", r)) = ReportSum(CostsCmd("agent", "", r))

\* Costs are neither lost nor told twice: every spent amount is in one place and every
\* report of one window adds up to the same total.
CostsAccounted == SpendAccounted /\ ReportsAgree
=============================================================================

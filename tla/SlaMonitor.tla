----------------------------- MODULE SlaMonitor -----------------------------
(***************************************************************************)
(* The SLA monitor (pkg/monitoring/sla.go).  RecordRequest and RecordUptime *)
(* add to counters under the lock; flush collects the counters' pointers    *)
(* under the lock and inserts one row per service after releasing it, so    *)
(* what a row holds is what the counters say when the row is written.  The  *)
(* counters are never cleared.  GenerateReport reads the two tables in two  *)
(* queries.  Latencies are left out: no property tells them apart.          *)
(***************************************************************************)
EXTENDS Naturals, FiniteSets, FiniteSetsExt

CONSTANTS Services,       \* "tenant:service" keys
          SlaTargets,     \* [uptime |-> 0..100, errors |-> 0..100], in percent
          MaxRecords, MaxFlushes, MaxReports

VARIABLES metrics,        \* service |-> counters; total = 0 and no time: no entry yet
          targets,        \* services that have a target |-> it
          slaRows,        \* service |-> rows of sla_metrics (success = 1 each)
          uptimeRows,     \* service |-> sums over uptime_records
          flushing,       \* services whose row the running flush still has to write
          slaLoop, flushes,
          report          \* the report under way or the last one made

slaVars == <<metrics, targets, slaRows, uptimeRows, flushing, slaLoop, flushes, report>>

NoMetrics == [total |-> 0, success |-> 0, failed |-> 0, up |-> 0, down |-> 0]
NoReport == [pc |-> "none", service |-> "none", total |-> 0, failed |-> 0, up |-> 0, down |-> 0,
             violations |-> {}, judged |-> FALSE, n |-> 0]
Recorded(s) == metrics[s].total + metrics[s].up + metrics[s].down

SlaInit ==
  /\ metrics = [s \in Services |-> NoMetrics]
  /\ targets = [s \in {} |-> 0]
  /\ slaRows = [s \in Services |-> [success |-> 0, failed |-> 0]]
  /\ uptimeRows = [s \in Services |-> [up |-> 0, down |-> 0]]
  /\ flushing = {} /\ slaLoop = "ticking" /\ flushes = 0 /\ report = NoReport

SetTarget(s, t) ==
  /\ targets' = [x \in DOMAIN targets \cup {s} |-> IF x = s THEN t ELSE targets[x]]
  /\ UNCHANGED <<metrics, slaRows, uptimeRows, flushing, slaLoop, flushes, report>>

RecordRequest(s, success) ==
  /\ Recorded(s) < MaxRecords
  /\ metrics' = [metrics EXCEPT ![s].total = @ + 1,
                                ![s].success = IF success THEN @ + 1 ELSE @,
                                ![s].failed = IF success THEN @ ELSE @ + 1]
  /\ UNCHANGED <<targets, slaRows, uptimeRows, flushing, slaLoop, flushes, report>>

RecordUptime(s, available) ==
  /\ Recorded(s) < MaxRecords
  /\ metrics' = [metrics EXCEPT ![s].up = IF available THEN @ + 1 ELSE @,
                                ![s].down = IF available THEN @ ELSE @ + 1]
  /\ UNCHANGED <<targets, slaRows, uptimeRows, flushing, slaLoop, flushes, report>>

\* flush under the lock: the services that have an entry.
FlushBegin ==
  /\ slaLoop \in {"ticking", "stopping"} /\ flushing = {} /\ flushes < MaxFlushes
  /\ flushing' = {s \in Services : Recorded(s) > 0}
  /\ flushes' = flushes + 1
  /\ slaLoop' = IF slaLoop = "stopping" THEN "ended" ELSE slaLoop
  /\ UNCHANGED <<metrics, targets, slaRows, uptimeRows, report>>

\* One row for all the requests counted so far, and it says success.
RequestRow(s) ==
  IF metrics[s].total = 0 THEN slaRows[s] ELSE [slaRows[s] EXCEPT !.success = @ + 1]

\* The rows of one service; an insert that fails is ignored.
FlushMetrics(s, reqOK, upOK) ==
  /\ s \in flushing /\ flushing' = flushing \ {s}
  /\ slaRows' = IF reqOK THEN [slaRows EXCEPT ![s] = RequestRow(s)] ELSE slaRows
  /\ uptimeRows' = IF upOK THEN [uptimeRows EXCEPT ![s] = [up |-> @.up + metrics[s].up,
                                                          down |-> @.down + metrics[s].down]]
                   ELSE uptimeRows
  /\ UNCHANGED <<metrics, targets, slaLoop, flushes, report>>

StopMonitor ==
  /\ slaLoop = "ticking" /\ slaLoop' = "stopping"
  /\ UNCHANGED <<metrics, targets, slaRows, uptimeRows, flushing, flushes, report>>

\* GenerateReport, first query: the sums of no row are NULL, which Scan refuses, so a
\* service without request rows has no report.
ReportRequests(s) ==
  /\ report.pc # "uptime" /\ report.n < MaxReports
  /\ report' = IF slaRows[s].success + slaRows[s].failed = 0
               THEN [NoReport EXCEPT !.pc = "error", !.service = s, !.n = report.n + 1]
               ELSE [NoReport EXCEPT !.pc = "uptime", !.service = s, !.n = report.n + 1,
                                     !.total = slaRows[s].success + slaRows[s].failed,
                                     !.failed = slaRows[s].failed]
  /\ UNCHANGED <<metrics, targets, slaRows, uptimeRows, flushing, slaLoop, flushes>>

\* GET /v1/analytics/sla/report, for any service, and the check every five minutes,
\* for the services that have a target.
GenerateSLAReport(s) == ReportRequests(s)
CheckAllSLAs(s) == slaLoop = "ticking" /\ s \in DOMAIN targets /\ ReportRequests(s)

\* Mutant: a service without uptime data is taken for one that was never up.
CheckViolationsNoData(s, total, failed, up, down) ==
  IF s \notin DOMAIN targets THEN {}
  ELSE {v \in {"uptime", "error rate"} :
          \/ v = "uptime" /\ (up + down = 0 \/ up * 100 < targets[s].uptime * (up + down))
          \/ v = "error rate" /\ failed * 100 > targets[s].errors * total}

\* checkViolations: strictly below the uptime target, strictly above the error target.
CheckViolations(s, total, failed, up, down) ==
  IF s \notin DOMAIN targets THEN {}
  ELSE {v \in {"uptime", "error rate"} :
          \/ /\ v = "uptime"
             /\ IF up + down = 0 THEN 100 < targets[s].uptime
                ELSE up * 100 < targets[s].uptime * (up + down)
          \/ v = "error rate" /\ failed * 100 > targets[s].errors * total}

GenerateReport ==
  /\ report.pc = "uptime"
  /\ LET s == report.service  u == uptimeRows[s] IN
     report' = [report EXCEPT !.pc = "done", !.up = u.up, !.down = u.down,
                  !.judged = s \in DOMAIN targets,
                  !.violations = CheckViolations(s, report.total, report.failed, u.up, u.down)]
  /\ UNCHANGED <<metrics, targets, slaRows, uptimeRows, flushing, slaLoop, flushes>>

SlaNext ==
  \/ FlushBegin \/ StopMonitor \/ GenerateReport
  \/ \E s \in Services :
       \/ \E t \in SlaTargets : SetTarget(s, t)
       \/ \E b \in BOOLEAN : RecordRequest(s, b) \/ RecordUptime(s, b)
       \/ \E a, b \in BOOLEAN : FlushMetrics(s, a, b)
       \/ GenerateSLAReport(s) \/ CheckAllSLAs(s)

-----------------------------------------------------------------------------
\* A report follows from what was recorded, however recording, flushing and reporting
\* interleave and whichever inserts fail.  Only a service with requests has one, and it
\* counts no more rows than flushes; a flush writes all uptime and downtime so far again,
\* so the sums stay within the flushes times what was recorded.  A service that was never
\* down is never told to be below its uptime target, and one that was never up is, once
\* a row says so.
ReportFromRows ==
  report.pc = "done" =>
    LET m == metrics[report.service] IN
    /\ m.total > 0 /\ report.total \in 1..flushes
    /\ report.up <= flushes * m.up /\ report.down <= flushes * m.down
    /\ m.down = 0 => "uptime" \notin report.violations
    /\ (report.judged /\ m.up = 0 /\ report.down > 0 /\ \A t \in SlaTargets : t.uptime > 0)
         => "uptime" \in report.violations
=============================================================================

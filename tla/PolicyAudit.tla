----------------------------- MODULE PolicyAudit -----------------------------
(***************************************************************************)
(* The audit log of policy decisions, pkg/policy/audit.go, written by runs *)
(* and read by "unagnt policy audit query, stats, export" and by the       *)
(* handlers of pkg/api/analytics.go.                                       *)
(***************************************************************************)
EXTENDS Integers, FiniteSets, FiniteSetsExt, Sequences

CONSTANTS AuditWriters,   \* agents that log decisions, one at a time each
          AuditPage,      \* the limit of a listing
          AuditDecisions, \* of "allow", "deny" and "alert"
          DenyReasons,    \* the reasons a denial may give, the empty one included
          ReasonLimit,    \* the LIMIT of the deny reasons
          AuditFormats,   \* of "json", "csv" and "cef"
          AuditRanges,    \* lengths of a time range
          MaxAuditClock   \* bound on the decisions taken

VARIABLES auditClock,  \* time
          auditLog,    \* policy_audit
          pending,     \* what each writer has stamped and not inserted yet
          stats,       \* the statistics command
          listing      \* the last listing or export that was answered

auditVars == <<auditClock, auditLog, pending, stats, listing>>

NoEntry == [at |-> 0, agent |-> "", decision |-> "none", reason |-> ""]
NoStats == [pc |-> "idle", end |-> 0, denied |-> 0, top |-> <<>>, first |-> <<>>, late |-> 0]
AnyOf == [agent |-> "", decision |-> "", start |-> 0, end |-> 0, limit |-> 0]
NoListing == [limit |-> 0, lines |-> <<>>, of |-> {}]

AuditInit ==
  /\ auditClock = 1 /\ auditLog = {} /\ stats = NoStats /\ listing = NoListing
  /\ pending = [w \in AuditWriters |-> NoEntry]

\* A listing is answered at once; the next step finds it sent.
Answered == listing' = NoListing

\* Log takes its time, then runs its INSERT.
AuditStamp(w, d, why) ==
  /\ auditClock < MaxAuditClock /\ pending[w] = NoEntry
  /\ pending' = [pending EXCEPT ![w] =
                   [at |-> auditClock, agent |-> w, decision |-> d, reason |-> why]]
  /\ auditClock' = auditClock + 1
  /\ Answered /\ UNCHANGED <<auditLog, stats>>

\* The INSERT, or its error.
AuditInsert(w, ok) ==
  /\ pending[w] # NoEntry
  /\ auditLog' = IF ok THEN auditLog \cup {pending[w]} ELSE auditLog
  /\ pending' = [pending EXCEPT ![w] = NoEntry]
  /\ Answered /\ UNCHANGED <<auditClock, stats>>

-----------------------------------------------------------------------------
(* GetStats                                                                *)

Denied(end) == {e \in auditLog : e.decision = "deny" /\ e.at < end}

\* GROUP BY deny_reason.  Log stores a missing reason as the empty string, which
\* IS NOT NULL lets through, so every denial is in some group.
PerReason(denied) ==
  [r \in {e.reason : e \in denied} |-> Cardinality({e \in denied : e.reason = r})]

\* Mutant: the rarest reasons.
TopReasonsRarest(counts) ==
  {R \in SUBSET DOMAIN counts :
     /\ Cardinality(R) = Min({ReasonLimit, Cardinality(DOMAIN counts)})
     /\ \A r \in R, s \in DOMAIN counts \ R : counts[r] <= counts[s]}

\* ORDER BY count DESC LIMIT: among equals any may be left out.
TopReasons(counts) ==
  {R \in SUBSET DOMAIN counts :
     /\ Cardinality(R) = Min({ReasonLimit, Cardinality(DOMAIN counts)})
     /\ \A r \in R, s \in DOMAIN counts \ R : counts[r] >= counts[s]}

\* The first query of GetStats; it fails on an empty window, whose SUMs are NULL.
StatsCounts ==
  /\ stats.pc = "idle" /\ \E e \in auditLog : e.at < auditClock
  /\ stats' = [pc |-> "counts", end |-> auditClock,
               denied |-> Cardinality(Denied(auditClock)), top |-> <<>>,
               first |-> PerReason(Denied(auditClock)),
               late |-> Cardinality({w \in AuditWriters : pending[w] # NoEntry})]
  /\ Answered /\ UNCHANGED <<auditClock, auditLog, pending>>

\* Mutant: the second query has no window.
StatsReasonsAll ==
  /\ stats.pc = "counts"
  /\ LET counts == PerReason({e \in auditLog : e.decision = "deny"}) IN
     \E R \in TopReasons(counts) :
       stats' = [stats EXCEPT !.pc = "shown", !.top = [r \in R |-> counts[r]]]
  /\ Answered /\ UNCHANGED <<auditClock, auditLog, pending>>

\* The second query, over the same window.
StatsReasons ==
  /\ stats.pc = "counts"
  /\ LET counts == PerReason(Denied(stats.end)) IN
     \E R \in TopReasons(counts) :
       stats' = [stats EXCEPT !.pc = "shown", !.top = [r \in R |-> counts[r]]]
  /\ Answered /\ UNCHANGED <<auditClock, auditLog, pending>>

StatsEnd ==
  /\ stats.pc = "shown" /\ stats' = NoStats
  /\ Answered /\ UNCHANGED <<auditClock, auditLog, pending>>

-----------------------------------------------------------------------------
(* Query and Export                                                        *)

\* The WHERE clause: a filter that has its zero value is left out.
Matches(e, f) ==
  /\ f.agent = "" \/ e.agent = f.agent
  /\ f.decision = "" \/ e.decision = f.decision
  /\ f.start = 0 \/ e.at >= f.start
  /\ f.end = 0 \/ e.at <= f.end

\* The newest rows first, up to the limit.
AuditQuery(f) ==
  LET hits == {e \in auditLog : Matches(e, f)}
      n == Cardinality(hits)
      page == IF f.limit = 0 \/ n < f.limit THEN n ELSE f.limit
  IN  [i \in 1..page |-> CHOOSE e \in hits : Cardinality({o \in hits : o.at > e.at}) = i - 1]

\* exportCEF: the severity stands for the decision.
exportCEF(rows_) ==
  [i \in DOMAIN rows_ |-> [at |-> rows_[i].at, agent |-> rows_[i].agent,
                           severity |-> CASE rows_[i].decision = "deny" -> 7
                                          [] rows_[i].decision = "alert" -> 6
                                          [] OTHER -> 3]]
exportCSV(rows_) ==
  [i \in DOMAIN rows_ |-> [at |-> rows_[i].at, agent |-> rows_[i].agent,
                           decision |-> rows_[i].decision]]

\* An unknown format is an error, found after the query.
AuditExport(f, format) ==
  CASE format = "csv" -> exportCSV(AuditQuery(f))
    [] format = "cef" -> exportCEF(AuditQuery(f))
    [] OTHER -> AuditQuery(f)

\* parseTimeRange: from r ago up to now.
Since(r) == IF auditClock > r THEN auditClock - r ELSE 1

AuditAnswer(f, lines) ==
  /\ listing = NoListing
  /\ listing' = [limit |-> f.limit, lines |-> lines,
                 of |-> {e.at : e \in {o \in auditLog : Matches(o, f)}}]
  /\ UNCHANGED <<auditClock, auditLog, pending, stats>>

\* Unlimited times, one decision and one agent or all of them.
QueryCmd(a, d) ==
  LET f == [AnyOf EXCEPT !.agent = a, !.decision = d, !.limit = AuditPage]
  IN  AuditAnswer(f, AuditQuery(f))

GetPolicyDenials(r) ==
  LET f == [AnyOf EXCEPT !.decision = "deny", !.start = Since(r), !.end = auditClock,
                         !.limit = AuditPage]
  IN  AuditAnswer(f, AuditQuery(f))

ExportAuditLogs(a, d, r, format) ==
  LET f == [agent |-> a, decision |-> d, start |-> Since(r), end |-> auditClock,
            limit |-> AuditPage]
  IN  AuditAnswer(f, AuditExport(f, format))

\* The command has no limit.
ExportCmd(r, format) ==
  LET f == [AnyOf EXCEPT !.start = Since(r), !.end = auditClock]
  IN  AuditAnswer(f, AuditExport(f, format))

AuditNext ==
  \/ \E w \in AuditWriters, d \in AuditDecisions, why \in DenyReasons :
       (d = "deny" \/ why = "") /\ AuditStamp(w, d, why)
  \/ \E w \in AuditWriters, ok \in BOOLEAN : AuditInsert(w, ok)
  \/ StatsCounts \/ StatsReasons \/ StatsEnd
  \/ \E a \in AuditWriters \cup {""}, d \in {"", "deny"} : QueryCmd(a, d)
  \/ \E r \in AuditRanges : GetPolicyDenials(r)
  \/ \E r \in AuditRanges, k \in AuditFormats :
       \/ \E a \in AuditWriters \cup {""}, d \in {"", "deny"} : ExportAuditLogs(a, d, r, k)
       \/ ExportCmd(r, k)

-----------------------------------------------------------------------------
\* "policy audit stats" (GetStats, audit.go) runs two queries.  The reasons it lists add up
\* to more denials than it counts only by decisions stamped inside the window and still
\* being inserted when the first query ran, and to fewer only when the limit on the reasons
\* is used up; no reason is left out that already had more denials at the first query than
\* a listed one has.  A listing or
\* an export names no row twice, newest first, and leaves out a matching row only when
\* the limit is used up by newer ones.
StatsAccount ==
  /\ stats.pc = "shown" =>
       LET listed == MapThenSumSet(LAMBDA r : stats.top[r], DOMAIN stats.top) IN
       /\ listed <= stats.denied + stats.late
       /\ listed < stats.denied => Cardinality(DOMAIN stats.top) = ReasonLimit
       /\ \A s \in DOMAIN stats.top, r \in DOMAIN stats.first \ DOMAIN stats.top :
            stats.first[r] <= stats.top[s]
  /\ LET shown == {listing.lines[i].at : i \in DOMAIN listing.lines}
     IN  /\ \A i, j \in DOMAIN listing.lines : i < j => listing.lines[i].at > listing.lines[j].at
         /\ shown \subseteq listing.of
         /\ \A t \in listing.of \ shown :
              /\ listing.limit > 0 /\ Len(listing.lines) = listing.limit
              /\ \A s \in shown : t < s
=============================================================================

----------------------------- MODULE MCServices -----------------------------
\* The services a run relies on, each on a small instance: what plays a run back and
\* records it, policy versions and their simulation and audit, the Redis queue, the
\* rate limiter, the dead-letter pruner, sequential workflows, the context of a step,
\* debugging, delegation, collaboration, sessions and
\* risk assessment.  They share no state in the
\* program, so the first state picks the one whose steps are explored.
EXTENDS RunReplay, PolicyVersions, PolicySimulator, PolicyAudit, RedisQueue, RateLimiter, DeadLetterPruner, StepWorkflow, ContextAssembly, KnowledgeBase, DebugSession, Delegation, Collaboration, Sessions, RiskEngine, TLC

ArchiveNames == [l \in {1, 2, 3} |-> IF l = 1 THEN "run-1" ELSE "unknown"]

Recording(m, t, e, v, c, p) ==
  [enabled |-> TRUE, models |-> m, tools |-> t, effects |-> e, env |-> v, compress |-> c, pii |-> p]
RecordingConfigsMC ==
  {Recording(TRUE, TRUE, TRUE, TRUE, TRUE, TRUE), Recording(TRUE, TRUE, FALSE, FALSE, FALSE, FALSE),
   Recording(FALSE, TRUE, TRUE, FALSE, TRUE, FALSE), Recording(TRUE, FALSE, TRUE, TRUE, FALSE, FALSE),
   [Recording(TRUE, TRUE, TRUE, FALSE, FALSE, FALSE) EXCEPT !.enabled = FALSE]}

Rule(tool, effect, reason, alert, risk) ==
  [tool |-> tool, effect |-> effect, reason |-> reason, alert |-> alert, risk |-> risk]
DocumentsMC ==
  [deny |-> [json |-> TRUE, rules |-> <<Rule("t", "allow", "", TRUE, 0), Rule("*", "deny", "no", FALSE, 2)>>],
   open |-> [json |-> TRUE, rules |-> <<Rule("u", "deny", "", FALSE, 1), Rule("", "allow", "", FALSE, 0)>>],
   yaml |-> [json |-> FALSE, rules |-> <<>>]]
Case(tool, allowed, denied, reason, alert, min, max) ==
  [tool |-> tool, allowed |-> allowed, denied |-> denied, reason |-> reason, alert |-> alert,
   min |-> min, max |-> max]
SuitesMC == {<<Case("t", "yes", "", "", "yes", -1, 0), Case("u", "", "yes", "no", "", 1, -1)>>,
             <<Case("t", "yes", "no", "", "", -1, -1), Case("u", "no", "", "", "no", -1, -1)>>}

Provider(t, p, e) == [type |-> t, priority |-> p, enabled |-> e]
Budget(p, w, m, o, k) ==
  [policy |-> p, workflow |-> w, memory |-> m, tool_output |-> o, knowledge |-> k]
ContextConfig(ps, max, b, par, mgr, emb) ==
  [providers |-> ps, max |-> max, budget |-> b, parallel |-> par, manager |-> mgr,
   engine |-> mgr, embeddings |-> emb]
FiveProviders ==
  <<Provider("policy", 1, TRUE), Provider("workflow", 2, TRUE), Provider("memory", 5, TRUE),
    Provider("memory", 3, TRUE), Provider("tool_output", 4, TRUE), Provider("knowledge", 4, TRUE)>>
ContextConfigsMC ==
  {ContextConfig(FiveProviders, m, Budget(3, 5, 3, 4, 2), par, TRUE, TRUE) :
     m \in {8, 14}, par \in BOOLEAN}
    \cup {ContextConfig(FiveProviders, 10, Budget(1, 0, 5, 1, 0), TRUE, FALSE, FALSE),
          ContextConfig(FiveProviders, 20, Budget(9, 9, 9, 9, 9), TRUE, TRUE, FALSE)}
StepInputsMC ==
  {[goal |-> TRUE, history |-> 2, step |-> 1, agent |-> TRUE, working |-> TRUE, hits |-> 2, chunks |-> 1],
   [goal |-> FALSE, history |-> 0, step |-> 0, agent |-> FALSE, working |-> TRUE, hits |-> 1, chunks |-> 1]}

KbPathsMC == [d1 |-> <<"d1/a", "d1/b">>, d2 |-> <<"d2/a">>]
BaseNameMC == [p \in {"d1/a", "d1/b", "d2/a"} |-> IF p = "d1/b" THEN "b" ELSE "a"]
KbTextsMC == {<<>>, <<3, 5, 2, 4>>, <<9, 3>>}

DbgPointsMC == <<"L0", "n1", "L1", "n2">>
AgentOfMC == [d \in {"d1", "d2", "d3"} |-> IF d = "d3" THEN "async-a" ELSE "a"]
AsyncNameMC == [a \in {"a", "async-a"} |-> IF a = "a" THEN "async-a" ELSE "async-async-a"]
BeginsMC == {<<"a", "a">>, <<"ab", "ab">>, <<"a", "ab">>}

RiskConfigOf(on, isNil, weights, low, approval) ==
  [enabled |-> on, nilWeights |-> isNil, weights |-> weights, low |-> low, medium |-> 0,
   high |-> 0, approval |-> approval, deny |-> 0]
RiskConfigsMC ==
  {RiskConfigOf(TRUE, TRUE, <<>>, 0, 0), RiskConfigOf(FALSE, TRUE, <<>>, 0, 0),
   RiskConfigOf(TRUE, FALSE, <<>>, 20, 0),
   RiskConfigOf(TRUE, FALSE, [security |-> 10, privacy |-> 2], 0, 70),
   RiskConfigOf(TRUE, FALSE, [security |-> 10, privacy |-> 2], 0, 90)}
RiskContextOf(tool, perms, env, recent, pii) ==
  [tool |-> tool, perms |-> perms, env |-> env, recent |-> recent, pii |-> pii]
RiskContextsMC ==
  {RiskContextOf("execute_command", {}, "dev", 5, FALSE),
   RiskContextOf("execute_command", {"exec"}, "production", 60, TRUE),
   RiskContextOf("http_request", {"exec", "net_external"}, "production", 60, TRUE)}

\* With the default weights and thresholds no action at all is denied: the weighted score
\* stays below the deny threshold for every tool, permission set, environment and history
\* (Assess, engine.go).
ASSUME DefaultsNeverDeny ==
  \A tool \in {"delete_file", "execute_command", "http_request", "write_file", "read_file",
               "database", "model_call", "send_email", "other"},
     perms \in SUBSET {"exec", "fs_delete", "fs_write", "net_external"},
     e \in {"production", "staging", "dev", "other"}, recent \in {5, 11, 51}, pii \in BOOLEAN :
       Assess(DefaultRiskConfig, RiskContextOf(tool, perms, e, recent, pii), 0).decision # "deny"

\* What a run left behind can be trusted (pkg/replay, cmd/unagnt/replay.go): a replay
\* shows the run's own calls, a fed-back history drives an engine through them, and a
\* recording holds what was recorded while it was current and nothing later.
RecordsTrustworthy == ReplayFaithful /\ FeedAligned /\ RecordingIntact

\* What a step's prompt is made of (pkg/context): fragments stay within their
\* budgets in the order of priority, and the chunks of a document cover it whole.
ContextFaithful == ContextBounded /\ KnowledgeWhole

VARIABLE focus

Init ==
  /\ focus \in {"replay", "recorder", "versions", "simulator", "audit", "redis", "rate", "pruner", "steps", "context", "knowledge", "debug", "delegation", "collaboration", "sessions", "risk"}
  /\ ReplayInit
  /\ RecorderInit
  /\ PolicyInit
  /\ SimInit
  /\ AuditInit
  /\ RqInit
  /\ RateInit
  /\ PrunerInit
  /\ SwInit
  /\ ContextInit
  /\ KnowledgeInit
  /\ DbgInit
  /\ DelegInit
  /\ CollabInit
  /\ SessionInit
  /\ RiskInit

OnlyReplay ==
  UNCHANGED <<recorderVars, polVars, simulatorVars, auditVars, rqVars, rlVars, dlVars, swVars, contextVars, knowledgeVars, dbgVars, delegVars, collabVars, sessionVars, riskVars, focus>>
OnlyRecorder ==
  UNCHANGED <<replayVars, polVars, simulatorVars, auditVars, rqVars, rlVars, dlVars, swVars, contextVars, knowledgeVars, dbgVars, delegVars, collabVars, sessionVars, riskVars, focus>>
OnlyVersions ==
  UNCHANGED <<replayVars, recorderVars, simulatorVars, auditVars, rqVars, rlVars, dlVars, swVars, contextVars, knowledgeVars, dbgVars, delegVars, collabVars, sessionVars, riskVars, focus>>
OnlySimulator ==
  UNCHANGED <<replayVars, recorderVars, polVars, auditVars, rqVars, rlVars, dlVars, swVars, contextVars, knowledgeVars, dbgVars, delegVars, collabVars, sessionVars, riskVars, focus>>
OnlyAudit ==
  UNCHANGED <<replayVars, recorderVars, polVars, simulatorVars, rqVars, rlVars, dlVars, swVars, contextVars, knowledgeVars, dbgVars, delegVars, collabVars, sessionVars, riskVars, focus>>
OnlyRedis ==
  UNCHANGED <<replayVars, recorderVars, polVars, simulatorVars, auditVars, rlVars, dlVars, swVars, contextVars, knowledgeVars, dbgVars, delegVars, collabVars, sessionVars, riskVars, focus>>
OnlyRate ==
  UNCHANGED <<replayVars, recorderVars, polVars, simulatorVars, auditVars, rqVars, dlVars, swVars, contextVars, knowledgeVars, dbgVars, delegVars, collabVars, sessionVars, riskVars, focus>>
OnlyPruner ==
  UNCHANGED <<replayVars, recorderVars, polVars, simulatorVars, auditVars, rqVars, rlVars, swVars, contextVars, knowledgeVars, dbgVars, delegVars, collabVars, sessionVars, riskVars, focus>>
OnlySteps ==
  UNCHANGED <<replayVars, recorderVars, polVars, simulatorVars, auditVars, rqVars, rlVars, dlVars, contextVars, knowledgeVars, dbgVars, delegVars, collabVars, sessionVars, riskVars, focus>>
OnlyContext ==
  UNCHANGED <<replayVars, recorderVars, polVars, simulatorVars, auditVars, rqVars, rlVars, dlVars, swVars, knowledgeVars, dbgVars, delegVars, collabVars, sessionVars, riskVars, focus>>
OnlyKnowledge ==
  UNCHANGED <<replayVars, recorderVars, polVars, simulatorVars, auditVars, rqVars, rlVars, dlVars, swVars, contextVars, dbgVars, delegVars, collabVars, sessionVars, riskVars, focus>>
OnlyDebug ==
  UNCHANGED <<replayVars, recorderVars, polVars, simulatorVars, auditVars, rqVars, rlVars, dlVars, swVars, contextVars, knowledgeVars, delegVars, collabVars, sessionVars, riskVars, focus>>
OnlyDelegation ==
  UNCHANGED <<replayVars, recorderVars, polVars, simulatorVars, auditVars, rqVars, rlVars, dlVars, swVars, contextVars, knowledgeVars, dbgVars, collabVars, sessionVars, riskVars, focus>>
OnlyCollaboration ==
  UNCHANGED <<replayVars, recorderVars, polVars, simulatorVars, auditVars, rqVars, rlVars, dlVars, swVars, contextVars, knowledgeVars, dbgVars, delegVars, sessionVars, riskVars, focus>>
OnlySessions ==
  UNCHANGED <<replayVars, recorderVars, polVars, simulatorVars, auditVars, rqVars, rlVars, dlVars, swVars, contextVars, knowledgeVars, dbgVars, delegVars, collabVars, riskVars, focus>>
OnlyRisk ==
  UNCHANGED <<replayVars, recorderVars, polVars, simulatorVars, auditVars, rqVars, rlVars, dlVars, swVars, contextVars, knowledgeVars, dbgVars, delegVars, collabVars, sessionVars, focus>>

Next ==
  \/ focus = "replay" /\ ReplayNext /\ OnlyReplay
  \/ focus = "recorder" /\ RecorderNext /\ OnlyRecorder
  \/ focus = "versions" /\ PolicyNext /\ OnlyVersions
  \/ focus = "simulator" /\ SimNext /\ OnlySimulator
  \/ focus = "audit" /\ AuditNext /\ OnlyAudit
  \/ focus = "redis" /\ RqNext /\ OnlyRedis
  \/ focus = "rate" /\ RateNext /\ OnlyRate
  \/ focus = "pruner" /\ PrunerNext /\ OnlyPruner
  \/ focus = "steps" /\ SwNext /\ OnlySteps
  \/ focus = "context" /\ ContextNext /\ OnlyContext
  \/ focus = "knowledge" /\ KnowledgeNext /\ OnlyKnowledge
  \/ focus = "debug" /\ DbgNext /\ OnlyDebug
  \/ focus = "delegation" /\ DelegNext /\ OnlyDelegation
  \/ focus = "collaboration" /\ CollabNext /\ OnlyCollaboration
  \/ focus = "sessions" /\ SessionNext /\ OnlySessions
  \/ focus = "risk" /\ RiskNext /\ OnlyRisk
=============================================================================

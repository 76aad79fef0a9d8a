--------------------------- MODULE MCControlPlane ---------------------------
\* The control plane, each part on a small instance: costs, service levels and model
\* performance, the plugin registry, watcher and host, the workflow command with its
\* graph, the template market, the two Kubernetes operators, backups,
\* read replicas, edge sync and the autoscaler.  They share no state in the program, so
\* the first state picks the one whose steps are explored.
EXTENDS CostBudget, SlaMonitor, ModelPerformance, PluginRegistry, PluginWatcher, PluginHost, WorkflowCLI, TemplateMarket, WorkflowOperator, ClusterOperator, BackupManager, Autoscaler, EdgeSync, TLC

CostKey(a, t, u, m, w) == [agent |-> a, tenant |-> t, user |-> u, model |-> m, wf |-> w]
CostKeysMC ==
  {CostKey("a1", "t1", "u1", "m1", ""), CostKey("a2", "t1", "u1", "m1", "w1"),
   CostKey("a1", "", "u1", "m1", "w1"), CostKey("a1", "t1", "u1", "mx", "")}
PricesMC == [m \in {"m1"} |-> 2]
RangeHoursMC == [r \in {"1h", "24h"} |-> IF r = "1h" THEN 0 ELSE 1]

SlaTargetsMC == {[uptime |-> 99, errors |-> 1]}

Upload(id, name, version, complete, permissions, bytes) ==
  [id |-> id, name |-> name, version |-> version, complete |-> complete,
   permissions |-> permissions, checksum |-> TRUE, bytes |-> bytes]
UploadsMC ==
  {Upload("a", "n", "1", TRUE, {"network"}, TRUE), Upload("a", "n", "2", TRUE, {}, FALSE),
   Upload("b", "n", "1", TRUE, {}, TRUE), Upload("b", "m", "2", FALSE, {"secrets"}, TRUE)}

WalkOrderMC == <<"a/f1", "f2">>

Manifest(name, type, binary, described, garbled, key) ==
  [name |-> name, version |-> "1", type |-> type, binary |-> binary, present |-> binary,
   described |-> described, garbled |-> garbled, key |-> key]
ManifestsMC ==
  {Manifest("n", "wasm", TRUE, TRUE, FALSE, "n@1"), Manifest("g", "goplugin", TRUE, FALSE, FALSE, "g@1"),
   Manifest("n", "WASM", TRUE, TRUE, FALSE, "n@1"), Manifest("n", "python", FALSE, TRUE, FALSE, "n@1"),
   Manifest("x", "wasm", TRUE, TRUE, TRUE, "n@1")}

FileStep(name, deps) == [name |-> name, deps |-> deps]
FileDeps == UNION {[1 .. k -> 1 .. 3] : k \in 0 .. 2}
WorkflowFilesMC ==
  {<<>>, <<FileStep(0, <<1>>)>>, <<FileStep(1, <<>>), FileStep(1, <<>>)>>}
    \cup {<<FileStep(1, a), FileStep(2, b)>> : a, b \in FileDeps}
    \cup {<<FileStep(3, a), FileStep(0, <<>>), FileStep(1, b), FileStep(2, c)>> :
            a, b \in FileDeps, c \in {<<>>, <<1>>, <<3>>, <<1, 3>>}}

Parameter(r, d) == [name |-> "p", type |-> "string", required |-> r, default |-> d]
TemplateFile(name, version, params) ==
  [name |-> name, version |-> version, params |-> params, workflow |-> TRUE]
TemplateFilesMC ==
  {TemplateFile("t", "1", <<Parameter(TRUE, TRUE)>>), TemplateFile("t", "2", <<Parameter(TRUE, FALSE)>>),
   TemplateFile("u", "", <<Parameter(FALSE, TRUE), Parameter(FALSE, FALSE)>>)}

StepListsMC == {<<>>, <<[type |-> "", agent |-> "a"], [type |-> "approval", agent |-> ""]>>}

PolicyRule(id, condition, action) == [id |-> id, condition |-> condition, action |-> action]
RuleListsMC ==
  {<<>>, <<PolicyRule("r", "c", "deny")>>, <<PolicyRule("r", "c", "deny"), PolicyRule("s", "", "allow")>>}

ReplicasMC == <<[name |-> "r1", region |-> "eu", priority |-> 1],
                [name |-> "r2", region |-> "us", priority |-> 2]>>

ScalePoliciesMC ==
  LET base == [id |-> "p", min |-> 2, max |-> 6, up |-> 80, down |-> 30, cooldown |-> 2,
               enabled |-> TRUE, weights |-> <<1, 3>>]
  IN  {base, [base EXCEPT !.id = "q", !.max = 4, !.cooldown = 1, !.weights = <<1>>],
       [base EXCEPT !.enabled = FALSE]}
MetricLevelsMC == {-1, 20, 210}

HomeOfMC == [r \in {"r1", "r2"} |-> IF r = "r1" THEN "e1" ELSE "server"]

\* Monitoring tells what was recorded (pkg/monitoring, pkg/mlops): a report only sums its rows
\* and every latency sample is counted by exactly one snapshot.
MonitoringAccounts == ReportFromRows /\ SamplesAccounted

\* The plugins served are the plugins on disk (pkg/registry, pkg/tool): the watcher
\* holds the last state of every file it was told of, the host serves open modules only, and validation
\* counts each manifest once.
PluginsServed == WatcherCaughtUp /\ HostServesOpen /\ ValidationAccounts

\* Copies are what they are taken for (pkg/backup, pkg/sync): a backup on record was
\* accepted by the storage, a read follows one refresh of the replicas' health, and a
\* push and a pull bring an edge node's rows in step with the server's.
CopiesReliable == BackupsRecorded /\ ReadsOneRefresh /\ SyncAgrees

VARIABLE focus

Init ==
  /\ focus \in {"cost", "sla", "performance", "registry", "watcher", "host", "cli", "market", "operator", "cluster", "backup", "router", "scaler", "sync"}
  /\ CostInit
  /\ SlaInit
  /\ PerfInit
  /\ RegInit
  /\ WatchInit
  /\ HostInit
  /\ CliInit
  /\ MarketInit
  /\ OperatorInit
  /\ ClusterInit
  /\ BackupInit
  /\ RouterInit
  /\ ScalerInit
  /\ SyncInit
  /\ focus # "backup" => storage = "keeps"
  /\ focus # "sync" => bundleLimit \in {n \in BundleLimits : \A m \in BundleLimits : n <= m}

OnlyCost ==
  UNCHANGED <<slaVars, perfVars, regVars, watchVars, hostVars, cliVars, marketVars, operatorVars, clusterVars, backupVars, routerVars, scaleVars, syncVars, focus>>
OnlySla ==
  UNCHANGED <<costVars, perfVars, regVars, watchVars, hostVars, cliVars, marketVars, operatorVars, clusterVars, backupVars, routerVars, scaleVars, syncVars, focus>>
OnlyPerformance ==
  UNCHANGED <<costVars, slaVars, regVars, watchVars, hostVars, cliVars, marketVars, operatorVars, clusterVars, backupVars, routerVars, scaleVars, syncVars, focus>>
OnlyRegistry ==
  UNCHANGED <<costVars, slaVars, perfVars, watchVars, hostVars, cliVars, marketVars, operatorVars, clusterVars, backupVars, routerVars, scaleVars, syncVars, focus>>
OnlyWatcher ==
  UNCHANGED <<costVars, slaVars, perfVars, regVars, hostVars, cliVars, marketVars, operatorVars, clusterVars, backupVars, routerVars, scaleVars, syncVars, focus>>
OnlyHost ==
  UNCHANGED <<costVars, slaVars, perfVars, regVars, watchVars, cliVars, marketVars, operatorVars, clusterVars, backupVars, routerVars, scaleVars, syncVars, focus>>
OnlyCli ==
  UNCHANGED <<costVars, slaVars, perfVars, regVars, watchVars, hostVars, marketVars, operatorVars, clusterVars, backupVars, routerVars, scaleVars, syncVars, focus>>
OnlyMarket ==
  UNCHANGED <<costVars, slaVars, perfVars, regVars, watchVars, hostVars, cliVars, operatorVars, clusterVars, backupVars, routerVars, scaleVars, syncVars, focus>>
OnlyOperator ==
  UNCHANGED <<costVars, slaVars, perfVars, regVars, watchVars, hostVars, cliVars, marketVars, clusterVars, backupVars, routerVars, scaleVars, syncVars, focus>>
OnlyCluster ==
  UNCHANGED <<costVars, slaVars, perfVars, regVars, watchVars, hostVars, cliVars, marketVars, operatorVars, backupVars, routerVars, scaleVars, syncVars, focus>>
OnlyBackup ==
  UNCHANGED <<costVars, slaVars, perfVars, regVars, watchVars, hostVars, cliVars, marketVars, operatorVars, clusterVars, routerVars, scaleVars, syncVars, focus>>
OnlyRouter ==
  UNCHANGED <<costVars, slaVars, perfVars, regVars, watchVars, hostVars, cliVars, marketVars, operatorVars, clusterVars, backupVars, scaleVars, syncVars, focus>>
OnlyScaler ==
  UNCHANGED <<costVars, slaVars, perfVars, regVars, watchVars, hostVars, cliVars, marketVars, operatorVars, clusterVars, backupVars, routerVars, syncVars, focus>>
OnlySync ==
  UNCHANGED <<costVars, slaVars, perfVars, regVars, watchVars, hostVars, cliVars, marketVars, operatorVars, clusterVars, backupVars, routerVars, scaleVars, focus>>

Next ==
  \/ focus = "cost" /\ CostNext /\ OnlyCost
  \/ focus = "sla" /\ SlaNext /\ OnlySla
  \/ focus = "performance" /\ PerfNext /\ OnlyPerformance
  \/ focus = "registry" /\ RegNext /\ OnlyRegistry
  \/ focus = "watcher" /\ WatchNext /\ OnlyWatcher
  \/ focus = "host" /\ HostNext /\ OnlyHost
  \/ focus = "cli" /\ CliNext /\ OnlyCli
  \/ focus = "market" /\ MarketNext /\ OnlyMarket
  \/ focus = "operator" /\ OperatorNext /\ OnlyOperator
  \/ focus = "cluster" /\ ClusterNext /\ OnlyCluster
  \/ focus = "backup" /\ BackupNext /\ OnlyBackup
  \/ focus = "router" /\ RouterNext /\ OnlyRouter
  \/ focus = "scaler" /\ ScalerNext /\ OnlyScaler
  \/ focus = "sync" /\ SyncNext /\ OnlySync
=============================================================================

INIT Init
NEXT Next
CHECK_DEADLOCK FALSE
CONSTANTS
  CostKeys <- CostKeysMC
  Prices <- PricesMC
  RangeHours <- RangeHoursMC
  Checkers = {"c1", "c2"}
  BudgetLimit = 5
  MaxSpend = 3
  MaxHours = 1
  Services = {"t:a"}
  SlaTargets <- SlaTargetsMC
  MaxRecords = 3
  MaxFlushes = 3
  MaxReports = 1
  Models = {"p:a", "p:b"}
  Latencies = {1, 2}
  Capacity = 2
  MaxSamples = 3
  MaxDays = 1
  BaselineDays = 0
  PluginIds = {"a", "b"}
  Uploads <- UploadsMC
  Publishers = {"p1", "p2"}
  Reviewers = {"r1", "r2"}
  MaxPermissions = 5
  MaxReviews = 2
  MaxPublished = 2
  MaxStops = 1
  PluginFiles = {"a/f1", "f2"}
  Nested = {"a/f1"}
  WalkOrder <- WalkOrderMC
  MaxChanges = 4
  ManifestFiles = 2
  Manifests <- ManifestsMC
  PluginKeys = {"n@1", "g@1"}
  MaxHostOps = 5
  N = 4
  MaxEdges = 3
  WorkflowFiles <- WorkflowFilesMC
  TemplateFiles <- TemplateFilesMC
  Installers = {"i1", "i2"}
  VersionNames = {"1", "2"}
  MaxTemplates = 2
  MaxRatings = 2
  MaxInstalls = 1
  MaxVersions = 2
  StepLists <- StepListsMC
  Schedules = {"", "tick", "bad"}
  OperatorFaults = TRUE
  MaxOperatorEdits = 1
  MaxOperatorTicks = 2
  MaxPodFailures = 1
  MaxReconciles = 3
  AgentLabels = {"x", "y"}
  AgentReplicas = {2}
  RuleLists <- RuleListsMC
  MaxAgentEdits = 1
  MaxPolicyEdits = 1
  MaxClusterLoops = 2
  BackupTypes = {"full"}
  BackupJobs = {"j1", "j2"}
  Retention = 1
  MaxBackupTime = 3
  MaxBackups = 3
  Replicas <- ReplicasMC
  MaxOutages = 3
  ScalePolicies <- ScalePoliciesMC
  MetricLevels <- MetricLevelsMC
  ReplicaCounts = {1, 7}
  MaxScaleTime = 2
  MaxPolicyObjects = 2
  MaxScaleOps = 1
  EdgeNodes = {"e1", "e2"}
  SyncRuns = {"r1", "r2"}
  HomeOf <- HomeOfMC
  BundleLimits = {1, 2}
  MaxRunWrites = 2
  MaxSyncFaults = 1
INVARIANTS
  CostsAccounted
  MonitoringAccounts
  RegistryConsistent
  PluginsServed
  PlanFollowsFile
  MarketAccounts
  CopiesReliable
  ScalingPaced
PROPERTIES
  PhaseFollowsJob
  ReconciledInOrder

INIT Init
NEXT Next
CHECK_DEADLOCK FALSE
CONSTANTS
  Tools = {"t1", "t2"}
  Outputs = {"a", "b"}
  MaxSteps = 2
  RecordingConfigs <- RecordingConfigsMC
  Effects = {"write"}
  MaxRecordings = 2
  MaxRecorded = 2
  PolicyCallers = {"p", "q"}
  PolicyVersionIds = {"1", "2"}
  PolicyContents = {"x"}
  MaxPolicyOps = 5
  Documents <- DocumentsMC
  Suites <- SuitesMC
  SimVersions = {"1", "2"}
  SimTools = {"t", "u", "bad"}
  MaxSimEdits = 3
  MaxSimEvents = 3
  AuditWriters = {"w1", "w2"}
  AuditPage = 1
  DenyReasons = {"", "no"}
  ReasonLimit = 1
  AuditDecisions = {"allow", "deny"}
  AuditRanges = {2}
  AuditFormats = {"csv", "cef"}
  MaxAuditClock = 4
  RqRuns = {"r1", "r2", "r3"}
  RqWorkers = {"w1", "w2"}
  RqGarbled = {"r3"}
  RqWebhooks = {"r1"}
  MaxRqFaults = 2
  MaxRestarts = 1
  Clients = {"c1", "c2"}
  Limits = {0, 2}
  RateWindow = 4
  MaxTime = 7
  Letters = {1, 2, 3}
  ArchiveName <- ArchiveNames
  Retention = 1
  PruneBatch = 2
  MaxPruneTime = 4
  OutputKeys = {"x", "y", "none"}
  NoKey = "none"
  MaxStepCount = 3
  ContextConfigs <- ContextConfigsMC
  StepInputs <- StepInputsMC
  PromptChars = 8
  LineChars = 6
  ToolWindow = 2
  MaxAssemblies = 2
  KbPaths <- KbPathsMC
  BaseName <- BaseNameMC
  KbTexts <- KbTextsMC
  ChunkSize = 2
  ChunkOverlap = 1
  MaxKbOps = 4
  DbgPoints <- DbgPointsMC
  DbgLevels = {"L0", "L1"}
  DbgCallers = {"c1", "c2"}
  MaxDbgOps = 4
  Delegations = {"d1", "d2", "d3"}
  AgentOf <- AgentOfMC
  AsyncName <- AsyncNameMC
  MaxSeconds = 1
  AgentIds = {"a", "ab"}
  Begins <- BeginsMC
  Skilled = {"ab"}
  Callers = {"c1", "c2"}
  ChannelCap = 1
  MaxMessages = 2
  MaxTurns = 4
  SessionUsers = {"u", "v"}
  SessionDurations = {1, 2}
  Requests = {"r1", "r2"}
  MaxSessionTime = 2
  MaxSessions = 2
  RiskConfigs <- RiskConfigsMC
  RiskContexts <- RiskContextsMC
  RiskCallers = {"a", "b"}
  TopLimit = 1
  DayLength = 1
  MaxInstant = 1
  MaxAssessments = 2
  MaxRiskReports = 1
INVARIANTS
  RecordsTrustworthy
  OneActiveVersion
  SimulationAccounts
  StatsAccount
  TakenOnce
  WindowRespected
  ArchiveKept
  StepResultsExact
  ContextFaithful
  ResumeNotLost
  ResultBelongs
  MessagesAccounted
  SessionsHonest
  RiskConsistent

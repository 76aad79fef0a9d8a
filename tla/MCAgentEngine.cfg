SPECIFICATION FairSpec
CONSTANTS
  Runs = {r1}
  ApprovalNodes = {n1, n2}
  MaxSteps = 2
  Autonomy = 2
  Durable = {r1, n1}
  QueueFaults = TRUE
  MayCrash = TRUE
INVARIANT GatedCallApproved
PROPERTIES DecisionReachesWaiter StoppedEnds

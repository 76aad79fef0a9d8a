SPECIFICATION Spec
CONSTANTS
  Runs = {r1}
  ApprovalNodes = {n1}
  MaxSteps = 1
  Autonomy = 0
  Durable = {}
  QueueFaults = FALSE
  MayCrash = FALSE
INVARIANTS ManualAsksFirst

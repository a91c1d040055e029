SPECIFICATION Spec
CONSTANTS
  Modes = {"pilot", "bridge"}
  RawPlans <- MCPlans
  K = 2
  Lifetimes <- MCLifetimes
  PlanLifetimes <- MCPlanLifetimes
  Second = 4
  Guard = 2
  Late = 1
  Owlt = 1
  Drain = 8
  Lead = 1
  Dt = 4
  MaxPackets = 2
  CaptureEnd = 26
CHECK_DEADLOCK FALSE
INVARIANTS NoRetransmitRide ClosedFormClose
PROPERTIES PredictionSound PredictionComplete Ends

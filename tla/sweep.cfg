SPECIFICATION SweepSpec
CONSTANTS
  Plans <- SweepPlans
  Workloads <- SweepLists
  Policies <- SweepPolicies
  Admissions = {"default"}
  SkipOvers = {TRUE}
  Rates = {0, 8}
  Overrides <- SweepOverrides
  Orders <- SweepOrders
  Capacities = {3}
  MaxSize = 6
  MaxRounds = 36
INVARIANTS QueueExact HeadsServed TablesComplete EmergencyIsolated EmergencyNoWorse
PROPERTIES SweepEnds

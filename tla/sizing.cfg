SPECIFICATION SizingSpec
CONSTANTS
  Plans = {}
  Workloads = {}
  Policies = {}
  Admissions = {}
  SkipOvers = {}
  Capacities = {1}
  MaxSize = 4
  MaxRounds = 20
  Profiles <- SizingProfiles
  Gaps = {3, 4}
  Ttl <- SizingTtl
  Grid = 2
  Iterations = 7
CHECK_DEADLOCK FALSE
INVARIANTS SizedRight LossesExplained

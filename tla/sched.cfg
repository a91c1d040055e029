SPECIFICATION FairSpec
CONSTANTS
  Plans <- OrderedPlans
  Workloads <- OrderedLists
  Policies <- Policy
  Admissions = {"on", "off"}
  SkipOvers = {TRUE, FALSE}
  Capacities = {3}
  MaxSize = 6
  MaxRounds = 36
INVARIANTS WithinBudget GreedyInOrder FatesMatchDeadlines UrgentKeepRoom
PROPERTIES EvictionPays DecidedOnce

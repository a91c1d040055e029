SPECIFICATION Spec
CONSTANTS
  u1 = u1
  u2 = u2
  UE = {u1, u2}
  Sender = u1
  Traces <- LiveTraces
  Brokers <- LiveBrokers
  Scenarios <- LiveScenarios
  Marks <- LiveMarks
  BaseSrcPort = 6000
  QueueCap = 1
  RunDirSet = {TRUE}
  Seconds = {0}
  Late = 1
  MaxClock = 11
  MaxStarts = 1
  MaxFaults = 0
  MaxPackets = 1
CHECK_DEADLOCK FALSE
INVARIANTS LabelsKept ChannelFollows OfferedAsPlanned

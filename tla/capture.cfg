SPECIFICATION Spec
CONSTANTS
  u1 = u1
  u2 = u2
  UE = {u1, u2}
  Sender = u1
  Traces <- FlatTraces
  Brokers <- FlatBrokers
  Scenarios <- ShortScenarios
  Marks <- LiveMarks
  BaseSrcPort = 6000
  QueueCap = 2
  RunDirSet = {TRUE, FALSE}
  Seconds = {0, 1}
  Late = 0
  MaxClock = 0
  MaxStarts = 2
  MaxFaults = 1
  MaxPackets = 3
CHECK_DEADLOCK FALSE
INVARIANTS CaptureOrder TraceLoss TwinTraces
PROPERTIES EveryPacketJudged

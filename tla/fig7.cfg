SPECIFICATION CappedSpec
CONSTANTS
  Span = 3
  SizeRange <- CappedSizes
  MediaStreams = 2
  Segment = 2
  DefaultTtl <- CappedTtl
  BufferLimit = 4
  Checkpoints <- CappedCheckpoints
CHECK_DEADLOCK FALSE
INVARIANTS FillSeries

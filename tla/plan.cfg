SPECIFICATION WalkSpec
CONSTANTS
  Givens <- MCGivens
  Times <- MCTimes
INVARIANTS RefusedIffOverlap AnswersRight
PROPERTIES WalksAll

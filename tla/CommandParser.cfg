SPECIFICATION FairSpec
CONSTANTS
  get = get
  odd = odd
  Sessions <- Mixed
  Bad <- Wrongs
  BufSize = 56
  Margin = 4
  Window = 26
  CleanCuts = TRUE
INVARIANTS TypeOK ParsedAsSent RoomLeft MoveDoesNotOverlap
PROPERTY AllExecuted
\* the peer may stop sending
CHECK_DEADLOCK FALSE

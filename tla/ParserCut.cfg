SPECIFICATION Spec
CONSTANTS
  get = get
  odd = odd
  Sessions <- Mixed
  Bad <- Wrongs
  BufSize = 56
  Margin = 4
  Window = 26
  CleanCuts = FALSE
INVARIANT ParsedAsSent
\* the peer may stop sending
CHECK_DEADLOCK FALSE

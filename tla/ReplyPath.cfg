SPECIFICATION PairsSpec
CONSTANTS
  a = a
  b = b
  m = m
  Clients = {a, b, m}
  Scripts <- Sends
  MaxScript = 3
  Readers = {a, b, m}
  MgetKeys = 2
  Filler = 2
  SockBuf = 1
INVARIANTS TypeOK RepliesIntact CommandsAccounted
PROPERTY Answered
\* the peers may stop sending
CHECK_DEADLOCK FALSE

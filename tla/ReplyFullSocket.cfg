SPECIFICATION BuseSpec
CONSTANTS
  a = a
  Clients = {a}
  Scripts <- Gets
  MaxScript = 2
  Readers = {a}
  MgetKeys = 2
  Filler = 2
  SockBuf = 3
INVARIANT RepliesIntact
\* the peers may stop sending
CHECK_DEADLOCK FALSE

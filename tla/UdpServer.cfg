SPECIFICATION FairSpec
CONSTANTS
  p = p
  q = q
  None = None
  Items = {1, 2, 3, 4}
  Size = 2
  Peers = {p, q}
  Datagrams <- Traffic
  MaxArrivals = 4
  SockBuf = 1
  Buffers = 1
INVARIANTS TypeOK QueueInv RequestsAsReceived AnswersReachSender
PROPERTIES ImplementsFifo ReceivedIsAnswered
\* the program may end
CHECK_DEADLOCK FALSE

SPECIFICATION FairSpec
CONSTANTS
  Reqs = {r1, r2, r3}
  NoReq = NoReq
  Clients = {c1}
  Readers = {c1}
  Workers = {w1, w2}
  Commands = {"set", "mget"}
  MaxBatch = 3
  Tags <- SmallPools
  QueueSize = 1
INVARIANTS TypeOK TagsAccounted OneOwner WritesStayOff
PROPERTIES DmaWaitEnds Drains

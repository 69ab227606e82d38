SPECIFICATION Spec
CONSTANTS
  Reqs = {r1, r2, r3}
  NoReq = NoReq
  Clients = {c1}
  Readers = {c1}
  Workers = {w1, w2}
  Commands = {"get", "del"}
  MaxBatch = 1
  Tags <- SmallPools
  QueueSize = 1
INVARIANT TagsAccounted

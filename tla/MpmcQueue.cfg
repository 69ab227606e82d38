SPECIFICATION Spec
CONSTANTS
  Producers = {p1, p2}
  Consumers = {c1, c2}
  Items = {x, y}
  None = None
  Size = 2
  RelaxedLoads = TRUE
  MaxTicket = 4
SYMMETRY Threads
INVARIANTS TypeOK MutualExclusion QuiescentSlots Inv
PROPERTY ImplementsFifo

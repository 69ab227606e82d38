SPECIFICATION IsEmptySpec
CONSTANTS
  Producers = {p1}
  Consumers = {c1}
  Items = {x, y}
  None = None
  Size = 2
  RelaxedLoads = FALSE
  MaxTicket = 4
INVARIANT QuiescentSlots

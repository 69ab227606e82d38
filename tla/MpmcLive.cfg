SPECIFICATION FairSpec
CONSTANTS
  Producers = {p1, p2}
  Consumers = {c1, c2}
  Items = {x}
  None = None
  Size = 2
  RelaxedLoads = FALSE
  MaxTicket = 3
PROPERTY EveryTicketIsServed

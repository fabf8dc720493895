SPECIFICATION Spec
CONSTANTS
  h1 = h1
  h2 = h2
  w1 = w1
  w2 = w2
  c1 = c1
  c2 = c2
  r1 = r1
  r2 = r2
  blank = blank
  None = None
  Blank = blank
  Handlers <- MCHandlers
  Workers <- MCWorkers
  ClientIds <- MCClientIds
  RequestIds <- MCRequestIds
  Ops <- TicketOps
  TOTAL_TICKETS = 2
  SeededTickets = 1
  MaxRequests = 2
  MaxFaults = 1
  SharedIds = FALSE
INVARIANTS
  TypeOK
  ResultsTrue
  NoLostWakeup
  EventsHaveWaiters
  PublisherExclusive
PROPERTIES
  AckedWhenDone
  PromiseKept
SYMMETRY MCSymmetry

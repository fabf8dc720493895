SPECIFICATION Spec
CONSTANTS
  h1 = h1
  h2 = h2
  w1 = w1
  w2 = w2
  c1 = c1
  c2 = c2
  r1 = r1
  r2 = r2
  blank = blank
  None = None
  Blank = blank
  Handlers <- MCHandlers
  Workers <- OneWorker
  ClientIds <- MCClientIds
  RequestIds <- MCRequestIds
  Ops <- SeatOps
  TOTAL_TICKETS = 1
  SeededTickets = 1
  MaxRequests = 3
  MaxFaults = 2
  SharedIds = FALSE
INVARIANTS
  NotReadyMeansDown

SPECIFICATION SeedingSpec
CONSTANTS
  t1 = t1
  c1 = c1
  c2 = c2
  r1 = r1
  r2 = r2
  blank = blank
  None = None
  Blank = blank
  Threads <- MCThreads
  ClientIds <- MCClientIds
  RequestIds <- MCRequestIds
  Ops <- MCOps
  TOTAL_TICKETS = 2
  SeededTickets = 2
  MaxFaults = 1
  BatchSize = 1
  ScanCount = 1
  MaxSeedings = 1
INVARIANTS
  FreshStockExact
  OldSalesForgotten
  SeatsSeeded
  NothingFromNothing
VIEW NoAnswers

SPECIFICATION Spec
CONSTANTS
  t1 = t1
  t2 = t2
  c1 = c1
  c2 = c2
  r1 = r1
  r2 = r2
  r3 = r3
  blank = blank
  None = None
  Blank = blank
  Threads <- MCThreads
  ClientIds <- MCClientIds
  RequestIds <- MCRequestIds
  Ops <- UnnumberedOps
  TOTAL_TICKETS = 3
  SeededTickets = 1
  MaxFaults = 0
INVARIANTS
  OneVerdict

SPECIFICATION Spec
CONSTANTS
  a1 = a1
  a2 = a2
  c1 = c1
  c2 = c2
  r1 = r1
  r2 = r2
  r3 = r3
  None = None
  Blank = Blank
  Comment = Comment
  Garbage = Garbage
  Replicas <- MCReplicas
  ClientIds <- MCClientIds
  RequestIds <- MCRequestIds
  Ops <- MCOps
  Files <- MCFiles
  Calls <- MCCalls
  TOTAL_TICKETS = 2
  SeededTickets = 2
  NEXT_TRIES = 2
  MAX_FAILS = 1
  CONCURRENCY = 2
  MaxFaults = 2
INVARIANTS
  TypeOK
  RepliesTrue
  RefusedMeansUnsold
  SalesAccounted
  VerifiedMeansSold
PROPERTIES
  PromiseKept
CONSTRAINT MCBound
SYMMETRY MCSymmetry

SPECIFICATION Spec
CONSTANTS
  p1 = p1
  p2 = p2
  p3 = p3
  p4 = p4
  p5 = p5
  p6 = p6
  p7 = p7
  NoPid = NoPid
  Pids <- MCPids
  MaxWorkers = 3
  MaxDeaths = 2
  WAITS = 10
INVARIANTS
  CountsExact
  NeverTooFew
SYMMETRY PidSymmetry

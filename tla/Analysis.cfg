SPECIFICATION Spec
CONSTANTS
  None = None
  Slots <- MCSlots
  Runs <- MCRuns
  Earlier <- MCEarlier
  Samples <- MCSamples
  MaxRuns = 2
INVARIANTS
  TypeOK
  RowOfOneRun
  ThroughputMeasured
  RecommendationsAgree
  ComparisonsTrue
  Percentiles

SPECIFICATION FairPipelineSpec
CONSTANTS
  r1 = r1
  r2 = r2
  c1 = c1
  c2 = c2
  r3 = r3
  c3 = c3
  None = None
  P = 3
  review <- MCReview
  cleanup <- MCCleanup
  Deployers = {r1, r2, r3}
  Cleaners = {c1, c2, c3}
  N = 1
  Protected = {}
  Faults = {"kill"}
INVARIANTS
  FailureHasCause
  ReviewStaysUp
PROPERTY EveryPipelineEnds

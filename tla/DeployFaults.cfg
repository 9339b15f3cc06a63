SPECIFICATION Spec
CONSTANTS
  d1 = d1
  d2 = d2
  c1 = c1
  None = None
  Deployers = {d1, d2}
  Cleaners = {c1}
  N = 2
  Protected = {2}
  Faults = {"api", "local", "hook", "helm", "raise", "kill"}
SYMMETRY Symmetry
INVARIANTS
  DependenciesFirst
  LoneSuccessIsConsistent
  SecretsAreNeverStale
  LoneCleanupLeavesNothing
  LockStopsJobs
  CleanupFreesLocks
PROPERTY ImplementsRollout

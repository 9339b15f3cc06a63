SPECIFICATION Spec
CONSTANTS
  N = 2
  Faults = {"body", "plugin", "interrupt"}
INVARIANTS
  TypeOK
  SpansNest
  SpansTell
  AnnouncedMeansDeployed

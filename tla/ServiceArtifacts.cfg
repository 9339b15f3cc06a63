SPECIFICATION Spec
CONSTANTS
  None = None
  Pipelines = {"p1", "p2"}
  Services = {"mysql", "postgresql"}
  Apps = {"web", "api"}
  Grants <- MCGrants
  EnvVar <- MCEnvVar
  MaxRuns = 4
INVARIANTS
  TypeOK
  AccessUnlessKept
  PartsFit

SPECIFICATION Spec
CONSTANTS
  None = None
  Pipelines = {"p1"}
  Services = {"mysql", "postgresql"}
  Apps = {"web", "api"}
  Grants <- MCGrants
  EnvVar <- MCEnvVar
  MaxRuns = 2
INVARIANT UriIsOfItsService

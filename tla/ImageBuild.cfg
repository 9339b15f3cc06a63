SPECIFICATION Spec
CHECK_DEADLOCK FALSE
CONSTANTS
  None = None
  Builds = {"p1", "p2"}
  Pipelines = {"p1", "p2"}
  Assignments <- AnyPipeline
  Repo <- OneRepo
  Commits <- MCCommits
  Dockerfiles <- MCDockerfiles
  TestStage = "dev"
  TagSettings <- MCTagSettings
  Faults = TRUE
INVARIANTS
  TypeOK
  ShaTagsAreTrue
  SuccessMeansPushed
  LoneBuildOwnsItsTags
  TestedIsTheCommit

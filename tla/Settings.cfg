SPECIFICATION Spec
CONSTANTS
  Unset = Unset
  Image = "image"
  Bases <- MCBases
  Safe <- MCSafe
  TrackArgs = {"", "REVIEW"}
INVARIANTS
  TestsGetTheBuild
  CleanupFollowsDeploy
  ClusterIsOfTheTrack
CHECK_DEADLOCK FALSE

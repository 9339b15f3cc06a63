SPECIFICATION Spec
CHECK_DEADLOCK FALSE
CONSTANTS
  Char <- MCChar
  Safe <- MCSafe
  Digest <- MCDigest
  Slugs <- MCSlugs
  Tracks <- MCTracks
  Names <- MCNames
  Services <- MCServices
  Hosts <- MCHosts
  MaxDependencies = 2
INVARIANTS
  TypeOK
  ReleasesFit
  ServicesAreFound
  HostsFit
  NamesDiffer

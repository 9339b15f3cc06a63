SPECIFICATION Spec
CHECK_DEADLOCK FALSE
CONSTANTS
  None = None
  N = 2
  Keys = {"CERT"}
  Files = {"CERT"}
  FileKeys = {"cert", "CERT"}
  Upper <- MCUpper
  MaxWrites = 1
INVARIANTS
  TypeOK
  FilesAnnounced
  StrongestSourceWins
  FilesAreCurrent

SPECIFICATION Spec
CHECK_DEADLOCK FALSE
CONSTANTS
  None = None
  N = 1
  Keys = {"CERT"}
  Files = {"CERT"}
  FileKeys = {"cert", "CERT"}
  Upper <- MCUpper
  MaxWrites = 0
INVARIANT FileKeysBecomeFiles

SPECIFICATION FairSpec
CONSTANTS
  MaxStarts = 2
  Containers = {x}
  MaxLines = 1
  TailLines = 1
  Faults = {"helm", "raise"}
PROPERTY NoGarbage

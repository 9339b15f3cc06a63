SPECIFICATION FairSpec
CONSTANTS
  MaxStarts = 3
  Containers = {x, y}
  MaxLines = 2
  TailLines = 1
  Faults = {"hook", "helm", "raise", "spawn", "exit"}
INVARIANTS
  OneKubectl
  NoKubectlAfterStop
  LogInOrder
  ReportIsFinal
PROPERTIES
  StopReturns
  KubectlIsReplaced

SPECIFICATION Spec
CONSTANTS
  l1 = l1
  l2 = l2
  Labels <- MCLabels
  Commands = {c1, c2}
  MaxActs = 3
  MaxCalls = 3
CHECK_DEADLOCK FALSE
PROPERTIES
  CallsComeBack
  SwitchedOffIsOff
  RemovedIsNotInstalled

SPECIFICATION Spec
CONSTANTS
  Setups = {s1, s2}
  KeepLast = 2
  MaxPoints = 3
  MaxGone = 1
  MaxMoves = 2
  MaxFaults = 1
SYMMETRY SetupSymmetry
INVARIANTS
  ProvenMeansRan
  PlaceSurvivesRelaunch
PROPERTIES
  PressGoesBack
CHECK_DEADLOCK FALSE

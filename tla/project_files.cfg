SPECIFICATION Spec
CONSTANTS
  Names = {n1, n2}
  Outside = {}
  Found = n1
  AddisonTexts = {a1, a2}
  PersonTexts = {p1}
  KeepLast = 1
  MaxFiles = 3
  MaxRows = 2
  MaxActs = 2
  MaxRestarts = 1
  MaxFaults = 1
CHECK_DEADLOCK FALSE
INVARIANTS
  RevertablePromise
  RedoIsNewest
PROPERTIES
  KeepsOffOtherFiles
  RevertGivesWhatTheDiffShows

SPECIFICATION Spec
CONSTANTS
  t1 = t1
  t2 = t2
  bad = bad
  ServerNames = {"docs"}
  Unusable = {bad}
  Answers <- MCAnswers
  Native <- MCNative
  OpenOnly <- MCOpenOnly
  LiveOnly <- MCLiveOnly
  MaxTools = 2
  MaxPages = 2
  MaxServers = 2
  FileTools <- MCFileTools
  WebTools <- MCWebTools
  Turns <- MCTurns
  Files <- MCFiles
  MaxSteps = 3
  MaxRuns = 1
  MaxActs = 7
  MaxFaults = 1
CHECK_DEADLOCK FALSE
INVARIANTS
  ToolsBelongToServers
  EveryRoutineCanStart
PROPERTIES
  NothingIsDroppedSilently
  ReplayFollowsThePlan
  FileTextIsTold
  StopEndsTheRun

SPECIFICATION SessionSpec
CONSTANTS
  Tools = {web}
  MaxAttempts = 2
  MaxAsks = 1
  MaxJobs = 2
  MaxPipe = 2
  MaxLost = 1
INVARIANTS
  GrantWasAllowed
  PendingIsTheOpenCard
PROPERTIES
  OpenCardIsShown
  ArmingGrantIsItsOwn
  StopReleasesTheWorker
CHECK_DEADLOCK FALSE

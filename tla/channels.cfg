SPECIFICATION Spec
CONSTANTS
  Channels = {c1}
  Phones = {p1, p2}
  MaxAttempts = 2
  MaxNotes = 1
  MaxLoops = 2
  MaxMessages = 2
  MaxWindows = 1
  MaxActs = 4
CHECK_DEADLOCK FALSE
INVARIANTS
  OneUnstoppedLoop
  AckedWasHanded
  OneCodeOnePairing
PROPERTIES
  MessageIsTaken

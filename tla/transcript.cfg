SPECIFICATION Spec
CONSTANTS
  KeepRecentTurns = 1
  MaxToolCalls = 2
  MaxRounds = 1
  MaxConversations = 3
  MaxIds = 6
INVARIANTS
  CallsArePaired
  IdsFollowMessages
  MemoryIsOnDisk

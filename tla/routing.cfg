SPECIFICATION Spec
CONSTANTS
  anthropic = anthropic
  own = own
  a1 = a1
  c1 = c1
  c2 = c2
  l1 = l1
  Clouds = {anthropic, own}
  Home = anthropic
  Builtin <- MCBuiltin
  Lists <- MCLists
  Locals <- MCLocals
  Rank <- MCRank
  Free = {c1}
  CustomLists <- MCCustomLists
  MaxRounds = 2
  MaxCalls = 1
  MaxActs = 3
CHECK_DEADLOCK FALSE
INVARIANTS
  LocalTurnsStayLocal
  RelayOnlyWithoutAKey
  OneVoice
PROPERTIES
  SubstitutionIsTold
  TurnEnds

SPECIFICATION GateSpec
CONSTANTS
  Tools = {read, write, command, arm}
  Destructive = {write, command, arm}
  ArmingTools = {arm}
  PathTools = {write}
  DevOnly = {command, arm}
  RemoteTools = {read}
  WidgetTool = command
INVARIANTS
  ApprovalsDieWithThePosture
PROPERTIES
  SavedSpecsNeverRideOnTrust
  NotNowHoldsForTheTurn

SPECIFICATION MCSpec
CONSTANTS
  pro = pro
  fan = fan
  gone = gone
  Modules = {pro, fan, gone}
  LastAddress = 4
  Priority <- MCPriority
  NoModule = NoModule
  MaxDisturbances = 1
PROPERTIES AssignmentEnds
CHECK_DEADLOCK FALSE

SPECIFICATION MCSpec
CONSTANTS
  pro = pro
  fan = fan
  gone = gone
  Modules = {pro, fan, gone}
  LastAddress = 4
  Priority <- MCPriority
  NoModule = NoModule
  MaxDisturbances = 1
INVARIANTS TypeOK
PROPERTIES AbsentKeepTheirAddress AllServed
CHECK_DEADLOCK FALSE

SPECIFICATION Safety
CONSTANTS
  Outputs = {1, 2}
  Weller = {2}
  RuleTarget = 1
  Powers = {1, 2}
  MaxMisses = 2
  Updates = TRUE
INVARIANTS
  TypeOK
  ActiveIsSelected
  FanFollowsDecision
PROPERTIES
  StartsAtDesiredPower
  NoCutWhileWanted
  RuleKeepsFan

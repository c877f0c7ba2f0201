SPECIFICATION Spec
CONSTANTS
  Outputs = {1, 2}
  Weller = {2}
  RuleTarget = 0
  Powers = {1}
  MaxMisses = 2
  Updates = TRUE
PROPERTIES
  FanSettles

SPECIFICATION Safety
CONSTANTS
  Outputs = {1, 2}
  Weller = {2}
  RuleTarget = 1
  Powers = {1}
  MaxMisses = 2
  Updates = FALSE
PROPERTIES
  RuleOwnsFinalOff

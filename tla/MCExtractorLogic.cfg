SPECIFICATION Spec
CONSTANTS
  Half = 4
  MaxDelay = 3
  MaxLag = 1
  Masks = {0, 1}
  Levels = {0, 3}
  Flows = {0, 455}
  Delays = {0, 1, 3}
  AfterrunPowers = {50, 400}
  PowerLimits = {300, 500}
INVARIANTS
  TypeOK
  DemandFollowsInputs
  PowerFollowsSettings
  DeadlineInReach
PROPERTIES
  RunToAfterrunKeepsEnable
  ImplementsPromise

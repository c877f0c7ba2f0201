SPECIFICATION Spec
CONSTANTS
  Loop = Loop
  Web = Web
  Wired = {w1}
  Displays = {d1}
  Updatable = {d1}
  w1 = w1
  d1 = d1
  SeqMod = 4
  MaxAge = 1
  MaxFrames = 2
  FinalPolls = 1
  MaxMisses = 1
INVARIANTS
  TypeOK
  TargetIsQuiet
  InTimeIsAccepted
  NeverWaitsForItself
PROPERTIES
  AnswersAreOwn
  UpdateKeepsOnline
  RequestsReturn

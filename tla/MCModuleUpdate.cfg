SPECIFICATION BrowserSpec
CONSTANTS
  a = a
  b = b
  c = c
  Factory = Factory
  Files <- ThreeFiles
  Size <- Sizes
  Attempts <- FewAttempts
  Block = 2
  Capacity = 2
INVARIANTS
  TypeOK
  FlashFollowsUpload
  NothingSentAfterSession
PROPERTIES
  SuccessMeansInstalled
  UpdateEnds

SPECIFICATION Spec
CONSTANTS
  Clients = {c1, c2, c3}
  Nobody = Nobody
  Length = 2
  CriticalQuota = 3
  NormalQuota = 1
INVARIANTS
  TypeOK
  PointersAreLive
  OffIsPrompt
PROPERTIES
  ImplementsCalls

SPECIFICATION Spec
CONSTANTS
  Modes <- BothModes
  Cables <- AllCables
  Nonces <- SevenNonces
  MaxCounter = 2
  MaxPackets = 3
  MaxFaults <- Faults
INVARIANTS
  TypeOK
  NoReplay
PROPERTIES
  Served

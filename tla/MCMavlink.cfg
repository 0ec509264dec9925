SPECIFICATION FairSpec
CONSTANTS
  Checksum <- crcCalculate
  Drones <- Limits
  TrimZeros = TRUE
  MaxFrames = 5
  Place <- Circle
  FirstTick = 28
  LastTick = 32
  Cuts <- AnySize
  BadLengths <- Misread
INVARIANTS
  FramesRoundTrip
  DamageIsDetected
  CrcIsStandard
  ReplaysInOrder
PROPERTY
  ReplayEnds
CHECK_DEADLOCK FALSE

SPECIFICATION Spec
CONSTANTS
  Workers = {w1, w2}
  PerSecond = 1
  Burst = 1
  Second = 2
  MaxClock = 3
  MaxCalls = 7
SYMMETRY Symmetry
INVARIANTS
  TypeOK
  AdmissionBound
  WindowBound
  DebtIsPaid
  NoisyAtMostOncePerSecond
CHECK_DEADLOCK FALSE

CONSTANTS
  p1 = p1
  p2 = p2
  Procs = {p1, p2}
  Nobody = Nobody
  Drivers <- MCDrivers
  Attempts = 1
  HostCts = TRUE
  MaxSignals <- MCMaxSignals
SPECIFICATION Spec
INVARIANTS
  Exclusive
  LeftAsFound
  NoiseIsHarmless
PROPERTIES
  WaitIsBounded

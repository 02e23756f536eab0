CONSTANTS
  MaxLabels = 1
  MaxBands = 2
  MaxNops = 1
  MaxTroubles = 2
  Stubborn = FALSE
SPECIFICATION Spec
INVARIANTS
  TypeOK
  NeverDrainsStopped
  AtMostTwoHurriedFeeds
  GivenBack
PROPERTIES
  SignalEnds
  FaultReported

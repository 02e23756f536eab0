CONSTANTS
  Speeds <- MCSpeeds
  HostRates = {9600, 19200, 38400, 57600}
  HostCts = TRUE
  Models <- MCModels
  MaxBauds = {0, 38400}
  NSlices = 1
  MAXNOPS = 1
  MaxLabels = 1
  MaxBands = 1
  MaxTroubles = 1
SPECIFICATION Spec
INVARIANTS
  TypeOK
  FindsPrinter
  Understood
  RightModel
  LeavesDefault
  ResetAgrees
PROPERTIES
  SignalEnds

CONSTANTS
  INT = INT
  TERM = TERM
  ABRT = ABRT
  Sigs <- MCSigs
  Outside <- MCOutside
  MaxMatches = 2
SPECIFICATION Spec
INVARIANTS
  ReportsTheSignal
  QuietWhenHandled
  MisuseNeedsMainClose
  HeldAtEnd
PROPERTIES
  EventuallyEnds

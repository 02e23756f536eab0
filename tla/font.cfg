CONSTANTS
  NGlyphs = 2
  NameMax = 3
  Imported <- MCImported
  Installed <- MCInstalled
  Places = 2
  MaxShortWrites = 1
  Junk = {0, 1}
  NULL = NULL
SPECIFICATION Spec
INVARIANTS
  TypeOK
  LoadedIsSaved
  NothingLeaks
  WholeIsFound

CONSTANTS
  NSlices = 5
  MaxNops = 2
  MaxBands = 2
  Late = 2
SPECIFICATION Spec
INVARIANTS
  TypeOK
  InStep
  ForceWorksWhenSilent
  TofTruthful
  EjectsStoppedLabel


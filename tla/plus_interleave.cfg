CONSTANTS
  H = 2
  NBands = 4
  NSlices = 4
  Labels = 1
  Images <- MCImages
SPECIFICATION Spec
INVARIANT FinalPairComplete

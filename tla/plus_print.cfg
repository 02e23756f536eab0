CONSTANTS
  H = 2
  NBands = 4
  NSlices = 4
  Labels = 2
  Images <- MCImages
SPECIFICATION Spec
INVARIANTS
  ExactInk
PROPERTIES
  RefinesLabel

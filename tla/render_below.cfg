CONSTANTS
  Glyphs <- MCGlyphs
  FontAscent = 2
  FontDescent = 2
  Height = 11
  Width = 5
  Files <- MCFiles
  BUFSIZ = 4
  NumCopies = 2
  UIntValues = 1000000
SPECIFICATION Spec
PROPERTY BelowIsDrawn

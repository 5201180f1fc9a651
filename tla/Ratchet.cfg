SPECIFICATION Spec
CONSTANTS
  A = A
  B = B
  Symbol <- MCSymbol
  Module = {}
  File <- MCFile
  FileOf <- MCFileOf
  Rule = {1}
  FileScope = {1}
  Shape = {s1, s2}
  NoShape = NoShape
  Gone = Gone
  NoFile = NoFile
  NoKey = NoKey
  MaxFound = 2
  MaxEdits = 1
INVARIANTS
  MovesAreFree
  DebtNeverGrows
  FastReportsSubset

SPECIFICATION PyFairSpec
CONSTANTS
  A = A
  B = B
  C = C
  bodyA = bodyA
  bodyB = bodyB
  moduleB = moduleB
  x = x
  y = y
  none = none
  NoParam = none
  MaxWatched = 2
  MaxGone = 1
  Splice <- MCSplice
  File <- MCFile
  Place <- MCPlace
  Warning <- MCWarning
  At <- MCAt
  Names <- MCNames
  Rel <- MCRel
  Body <- MCBody
  Watched <- MCWatched
  WatchesAll <- MCAll
  Callee <- MCCallee
  Param <- MCParam
  Batches <- MCBatches
  Raises <- MCRaises
  Checker <- LocalCheckers
CHECK_DEADLOCK FALSE
INVARIANTS
  SilenceVerifiesNothing
  VerdictsReproduced
PROPERTIES
  ImplementsVetoed
  PyReturns

SPECIFICATION Spec
CONSTANTS
  A = A
  B = B
  Splice <- MCSplice
  File <- MCFile
  Place <- MCPlace
  Warning <- MCWarning
  At <- MCAt
  Rel <- MCRel
  Body <- MCBody
  Watched <- MCWatched
  WatchesAll <- MCAll
  Batches <- MCBatches
  Checker <- MCCheckers
  Raises <- MCRaises
  Line <- MCLine
  Takes <- MCTakes
  Touches <- MCTouches
  Parses <- MCParses
CHECK_DEADLOCK FALSE
INVARIANTS
  IndependentDiffIsClean
  SitesAreSettled

SPECIFICATION FairSpec
CONSTANTS
  A = A
  B = B
  Splice <- Five
  File <- Files
  Place <- FivePlaces
  Warning <- FiveWarning
  At <- FiveAt
  Rel <- FiveRel
  Body <- FiveBody
  Watched <- FiveWatched
  WatchesAll <- FiveAll
  Checker <- FiveCheckers
  Raises <- FiveRaises
  Batches <- FiveBatches
CHECK_DEADLOCK FALSE
INVARIANTS
  TypeOK
  NoContamination
  GuiltyAccounted
  TestedOnce
  LoopCost
PROPERTIES
  ImplementsIsolated
  Resolves

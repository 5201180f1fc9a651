SPECIFICATION FairSpecV
CONSTANTS
  A = A
  B = B
  C = C
  D = D
  NoRoot = NoRoot
  Torn = Torn
  Splice <- MCSplice
  File <- MCFile
  Rel <- MCRel
  Root <- MCRoot
  RootOf <- MCRootOf
  Reads <- MCReads
  Batches <- MCBatches
  MaxCalls = 5
  Checker <- MCChecker
  Proposals <- MCProposals
  Old <- MCClean
CHECK_DEADLOCK FALSE
INVARIANTS
  ChecksSeeTheWorld
  AnswersAreWhole
  VerifiedAreClean
PROPERTIES
  CallIsTheLoop
  VerifyReturns

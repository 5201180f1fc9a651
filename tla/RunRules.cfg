CONSTANTS
  Memo <- PyMemo
  Needs <- PyNeeds
  Forks <- PyForks
  JobNeeds <- PyJobNeeds
  Job <- PyJob
  Passes <- PyPasses
  Warmed <- PyWarmed
  Rule <- PyRule
  Asks <- PyAsks
  Owners <- PyOwners
  Depth <- PyDepth
  w1 = w1
  w2 = w2
  main = main
  Worker <- MCWorker
  Main <- MCMain
  Idle = "idle"
SPECIFICATION FairSpec
INVARIANTS NeverReenters OwnersRunAlone
PROPERTIES CheckerSteadyInGroup Finishes

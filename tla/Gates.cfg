SPECIFICATION Spec
CONSTANTS
  a = a
  b = b
  c = c
  clean = clean
  worse = worse
  worst = worst
  torn = torn
  File <- MCFile
  LangOf <- MCLangOf
  Root = {a, b, c}
  AtTop = TRUE
  Ignored = {b}
  Text <- MCText
  Gone = Gone
  Broken = {torn}
  Id = {1, 2, 3}
  Raises <- MCRaises
  Readings <- MCReadings
  Configs <- MCConfigs
  MaxSteps = 3
INVARIANTS
  FastWithinFull
  BranchIsCovered
  BlocksWhatIsAdded
  DiffIsGated
CHECK_DEADLOCK FALSE

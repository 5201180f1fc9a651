SPECIFICATION Spec
CONSTANTS
  a = a
  b = b
  c = c
  clean = clean
  worse = worse
  worst = worst
  torn = torn
  File <- MCFile
  LangOf <- MCLangOf
  Root = {a, b}
  AtTop = FALSE
  Ignored = {b}
  Text <- MCText
  Gone = Gone
  Broken = {torn}
  Id = {1, 2, 3}
  Raises <- MCRaises
  Readings <- MCReadings
  Configs <- MCConfigs
  MaxSteps = 3
INVARIANT DiffIsGated
CHECK_DEADLOCK FALSE

CONSTANTS
  r1 = r1
  r2 = r2
  a1 = a1
  a2 = a2
  None = None
  Root <- MCRoot
  Audit <- MCAudit
  Stale = 2
  MaxSweep = 1
SPECIFICATION FairSpec
PROPERTIES KeptWhileUsed ForgottenGoes

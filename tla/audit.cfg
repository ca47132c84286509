SPECIFICATION FairQuestionsSpec
CONSTANTS
  Threads = {t1, t2}
  None = None
  CaseIds = {"c1", "c2"}
  Contents <- MCContents
  MaxRecords = 3
  MaxErrors = 2
  MaxRestarts = 1
INVARIANTS
  AlwaysIntact
  ReturnedIsKept
  TamperingDetected
  CitationsHold
PROPERTIES
  AppendOnly
  AppendsEnd

SPECIFICATION FairServiceSpec
CONSTANTS
  Cases = {"c1", "c2"}
  Customers = {"asha"}
  CaseInfos <- MCServed
  LLMAnswers = {}
  Cells = {}
  OutageTimes = {}
  OutageTTL = 6
  Threads = 1
  MaxCrashes = 1
  MaxRestarts = 1
  PursueFloor = 20
  HalvesAbove = {}
  HalvesBelow = {}
  QuietStart = 21
  QuietEnd = 9
  MaxAttempts = 3
  MaxContactsPerWeek = 4
  MinGap = 24
  NeverRetryCodes <- MCNeverRetryCodes
  DailyBudget = 2
  MaxRepresentments = 3
  PreDebitNotice = 24
INVARIANTS
  BudgetPerProcess
  AckedIsClosed
  StreamInOrder
  ShownOnce
PROPERTIES
  OptOutOutlivesCases
  TakenInIsClosed

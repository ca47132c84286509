SPECIFICATION BatchSpec
CONSTANTS
  Cases = {1, 2}
  Customers = {1, 2}
  CaseInfos <- MCScenarios
  LLMAnswers = {}
  Cells = {}
  OutageTimes = {}
  OutageTTL = 6
  Threads = 1
  MaxCrashes = 0
  PursueFloor = 20
  HalvesAbove = {}
  HalvesBelow = {}
  QuietStart = 21
  QuietEnd = 9
  MaxAttempts = 3
  MaxContactsPerWeek = 4
  MinGap = 24
  NeverRetryCodes <- MCNeverRetryCodes
  DailyBudget = 500
  MaxRepresentments = 3
  PreDebitNotice = 24
INVARIANTS
  IncrementIsHonest
  CreditIsForTheArm

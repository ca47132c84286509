SPECIFICATION FairSpec
CONSTANTS
  Cases = {c1}
  Customers = {"asha"}
  CaseInfos <- MCWirings
  LLMAnswers <- MCLLMAnswers
  Cells = {"upi_hdfc"}
  OutageTimes = {12, 34}
  OutageTTL = 6
  Threads = 1
  MaxCrashes = 0
  PursueFloor = 20
  HalvesAbove <- DoublesAbove
  HalvesBelow <- DoublesBelow
  QuietStart = 21
  QuietEnd = 9
  MaxAttempts = 3
  MaxContactsPerWeek = 4
  MinGap = 24
  NeverRetryCodes <- MCNeverRetryCodes
  DailyBudget = 500
  MaxRepresentments = 3
  PreDebitNotice = 24
INVARIANTS
  VerdictJustified
  WorkedIffWorthIt
  BarredCasesUntouched
PROPERTIES
  HandlerReturns

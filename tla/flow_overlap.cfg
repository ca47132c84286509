SPECIFICATION OverlapSpec
CONSTANTS
  Cases = {c1, c2}
  Customers = {"asha"}
  CaseInfos <- OverlapInfos
  LLMAnswers = {}
  Cells = {}
  OutageTimes = {}
  OutageTTL = 6
  Threads = 2
  MaxCrashes = 1
  PursueFloor = 20
  HalvesAbove = {}
  HalvesBelow = {}
  QuietStart = 21
  QuietEnd = 9
  MaxAttempts = 2
  MaxContactsPerWeek = 4
  MinGap = 24
  NeverRetryCodes <- MCNeverRetryCodes
  DailyBudget = 500
  MaxRepresentments = 3
  PreDebitNotice = 24
SYMMETRY MCSymmetry
CONSTRAINT OverlapBound
INVARIANTS
  StagesKept
  GateNotBypassed
  NoticeKept
PROPERTIES
  FollowsLifecycle

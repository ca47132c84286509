SPECIFICATION Spec
CONSTANTS
  Cases = {c1, c2}
  Customers = {"asha"}
  CaseInfos <- MCOneCustomer
  LLMAnswers = {}
  Cells = {}
  OutageTimes = {}
  OutageTTL = 6
  Threads = 1
  MaxCrashes = 0
  PursueFloor = 20
  HalvesAbove = {}
  HalvesBelow = {}
  QuietStart = 21
  QuietEnd = 9
  MaxAttempts = 3
  MaxContactsPerWeek = 4
  MinGap = 24
  NeverRetryCodes <- MCNeverRetryCodes
  DailyBudget = 500
  MaxRepresentments = 3
  PreDebitNotice = 24
SYMMETRY MCSymmetry
INVARIANTS
  TypeOK
  ContactsSpaced
  WeeklyCapKept
  QuietHoursKept
PROPERTIES
  DeclineHonoured

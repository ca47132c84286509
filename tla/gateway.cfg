SPECIFICATION FairSpec
CONSTANTS
  Payments = {"pay1", "pay2"}
  Others = {"sub1"}
  None = None
  Events <- MCEvents
  PageSize = 2
  MaxRaised = 1
  MaxRestarts = 1
INVARIANTS
  IntakeKept
PROPERTIES
  WorksLikeAQueue
  FailedIsWorked

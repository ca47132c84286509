SPECIFICATION Spec
CONSTANT MaxTurns = 6
INVARIANTS
  NothingAfterOptOut
  SaidIsClean
  OutcomeIsHeard
  DraftsLintClean

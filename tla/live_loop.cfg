SPECIFICATION Spec
CONSTANTS
  MaxRetries = 1
  Threshold = 2
  Cooldown = 3
  MaxTravel = 1
  Never = Never
  PollInterval = 2
  Timeout = 3
  MaxRuns = 4
  MaxStart = 5
  MaxTime = 40
INVARIANTS
  VerdictFits
  EndsInTime
PROPERTIES
  ServerLeftAlone

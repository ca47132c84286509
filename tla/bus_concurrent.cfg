SPECIFICATION Spec
CONSTANTS
  Consumers = {k1, k2}
  MaxEntries = 2
  MaxFailures = 0
CHECK_DEADLOCK FALSE
INVARIANTS
  AckedWereHandled

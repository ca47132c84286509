SPECIFICATION Spec
CONSTANTS
  Unit = 100000
  FastAlpha = 15
  BaselineAlpha = 2
  Warmup = 20
  DropThreshold = 25000
  MinConsecutive = 5
  Amounts = {500}
  MaxEvents = 55
  MaxTurns = 3
CHECK_DEADLOCK FALSE
INVARIANTS
  ReportedOnce
  OutageReported
PROPERTIES
  OneAlertPerIncident

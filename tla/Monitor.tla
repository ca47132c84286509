-------------------------------- MODULE Monitor --------------------------------
(***************************************************************************)
(* detection/monitor.py: SuccessRateMonitor on one cell; the others are    *)
(* separate entries of its dictionary.  A rate is an integer out of Unit   *)
(* (the code has floats), an alpha a percentage.  Traffic is any sequence  *)
(* of outcomes that changes between success and failure a few times.       *)
(***************************************************************************)
EXTENDS Integers

CONSTANTS
  Unit,             \* the rate 1.0
  FastAlpha,        \* fast_alpha, in percent
  BaselineAlpha,    \* baseline_alpha, in percent
  Warmup,           \* warmup
  DropThreshold,    \* drop_threshold, out of Unit
  MinConsecutive,   \* min_consecutive
  Amounts,          \* amounts of the payments observed
  MaxEvents,        \* bound on the payments observed
  MaxTurns          \* bound on the changes between success and failure

ASSUME MonitorAssumption ==
  /\ Unit \in Nat \ {0} /\ FastAlpha \in 0..100 /\ BaselineAlpha \in 0..100
  /\ Warmup \in Nat /\ DropThreshold \in Nat /\ MinConsecutive \in Nat
  /\ Amounts \subseteq Nat /\ MaxEvents \in Nat /\ MaxTurns \in Nat

VARIABLES
  fast, baseline, events, streak, latched, failed,     \* _CellState
  alerts,         \* history: alerts raised
  reported,       \* history: failed_inr_in_breach of all of them
  lost,           \* history: amounts of all the payments that failed
  recovered,      \* history: near the baseline again since the last alert
  last,           \* history: the last outcome
  row,            \* history: how many such outcomes in a row since the warm-up
  from,           \* history: the baseline before them
  turns           \* changes of outcome so far

cell == <<fast, baseline, events, streak, latched, failed>>
vars == <<cell, alerts, reported, lost, recovered, last, row, from, turns>>

Value(success) == IF success THEN Unit ELSE 0

Toward(rate, success, alpha) == rate + (alpha * (Value(success) - rate)) \div 100

\* Mutated form of Baseline: both averages move at the same pace.
BaselineFast(success) == Toward(baseline, success, FastAlpha)

Baseline(success) == Toward(baseline, success, BaselineAlpha)

Breaching(rate) == rate < baseline - DropThreshold

\* Mutated form of Near: any rate that is no breach any more will do.
NearWithoutHysteresis(rate, base) == rate >= base - DropThreshold

Near(rate, base) == 2 * rate >= 2 * base - DropThreshold

Init ==
  /\ fast = Unit /\ baseline = Unit /\ events = 0 /\ streak = 0
  /\ latched = FALSE /\ failed = 0
  /\ alerts = 0 /\ reported = 0 /\ lost = 0 /\ recovered = FALSE
  /\ last = TRUE /\ row = 0 /\ from = Unit /\ turns = 0

\* The warm-up only learns the baseline.
WarmUp(success) ==
  /\ events < Warmup
  /\ baseline' = Baseline(success)
  /\ UNCHANGED <<streak, latched, failed>>

Raises == ~latched /\ streak + 1 >= MinConsecutive

\* The baseline is frozen; the alert is raised once the streak is long enough.
Breach(success, amount) ==
  /\ events >= Warmup /\ Breaching(fast')
  /\ streak' = streak + 1
  /\ failed' = IF success THEN failed ELSE failed + amount
  /\ latched' = (latched \/ Raises)
  /\ UNCHANGED baseline

\* Mutated form of NoBreach: the alert is released, its amount is kept.
NoBreachKeepingAmount(success) ==
  /\ events >= Warmup /\ ~Breaching(fast')
  /\ baseline' = Baseline(success)
  /\ streak' = 0
  /\ latched' = (latched /\ ~Near(fast', baseline'))
  /\ UNCHANGED failed

NoBreach(success) ==
  /\ events >= Warmup /\ ~Breaching(fast')
  /\ baseline' = Baseline(success)
  /\ streak' = 0
  /\ IF Near(fast', baseline')
     THEN latched' = FALSE /\ failed' = 0
     ELSE UNCHANGED <<latched, failed>>

\* What the histories keep of an observation.
Note(success, amount) ==
  LET alert == latched' /\ ~latched
  IN /\ alerts' = IF alert THEN alerts + 1 ELSE alerts
     /\ reported' = IF alert THEN reported + failed' ELSE reported
     /\ lost' = IF success THEN lost ELSE lost + amount
     /\ recovered' = (~alert /\ (recovered \/ 2 * fast' >= 2 * baseline' - DropThreshold))
     /\ last' = success
     /\ row' = IF events < Warmup THEN 0 ELSE IF success = last THEN row + 1 ELSE 1
     /\ from' = IF events < Warmup \/ (success = last /\ row > 0) THEN from ELSE baseline

\* SuccessRateMonitor.observe.
Observe(success, amount) ==
  /\ events < MaxEvents
  /\ turns' = IF success = last THEN turns ELSE turns + 1
  /\ turns' <= MaxTurns
  /\ events' = events + 1
  /\ fast' = Toward(fast, success, FastAlpha)
  /\ WarmUp(success) \/ Breach(success, amount) \/ NoBreach(success)
  /\ Note(success, amount)

Next == \E success \in BOOLEAN, amount \in Amounts : Observe(success, amount)

Spec == Init /\ [][Next]_vars

-----------------------------------------------------------------------------
\* The type of every variable: both averages stay rates.
TypeOK ==
  /\ fast \in 0..Unit /\ baseline \in 0..Unit
  /\ events \in 0..MaxEvents /\ streak \in Nat /\ latched \in BOOLEAN
  /\ failed \in Nat /\ alerts \in Nat /\ reported \in Nat /\ lost \in Nat
  /\ recovered \in BOOLEAN /\ last \in BOOLEAN
  /\ row \in Nat /\ from \in 0..Unit /\ turns \in Nat

\* "An alert is latched per incident": between two alerts the rate has come
\* back to within half the threshold of the baseline, however it went up and
\* down in between.
OneAlertPerIncident == [][alerts' > alerts /\ alerts > 0 => recovered]_vars

\* The alerts together report no rupee twice, and none that was not lost.
ReportedOnce == reported <= lost

\* An outage does not drag its own reference down: on a cell whose payments
\* mostly succeeded (six in ten), thirteen failures in a row have raised the
\* alert, at whatever rate the cell stood before and after whatever warm-up.
OutageReported ==
  row >= 13 /\ ~last /\ 10 * from >= 6 * Unit => latched
=============================================================================

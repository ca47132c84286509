----------------------------- MODULE MonitorProofs -----------------------------
(***************************************************************************)
(* What holds of the degradation monitor for every choice of its           *)
(* parameters and for traffic of any length: the averages stay rates, an   *)
(* incident is alerted once, and its amounts are reported once.  And with  *)
(* parameters like the defaults: an outage is reported.                    *)
(***************************************************************************)
EXTENDS Monitor, TLAPS

\* What has been reported and what a coming alert would report were lost; a
\* cell that is armed again after an alert has recovered.
Inv ==
  /\ TypeOK
  /\ latched => reported <= lost
  /\ ~latched => reported + failed <= lost
  /\ ~latched /\ alerts > 0 => recovered

\* A moving average of rates is a rate.
LEMMA TowardStays ==
  ASSUME NEW rate \in 0..Unit, NEW success \in BOOLEAN, NEW alpha \in 0..100
  PROVE  Toward(rate, success, alpha) \in 0..Unit
<1> DEFINE gap == Value(success) - rate
<1>1. Unit \in Nat BY MonitorAssumption
<1>2. gap \in Int /\ -rate <= gap /\ gap <= Unit - rate
  BY <1>1 DEF Value
<1>3. alpha * gap \in Int /\ -(100 * rate) <= alpha * gap /\ alpha * gap <= 100 * (Unit - rate)
  <2> SUFFICES ASSUME NEW g \in Int, -rate <= g, g <= Unit - rate
               PROVE  alpha * g \in Int /\ -(100 * rate) <= alpha * g
                      /\ alpha * g <= 100 * (Unit - rate)
    BY <1>2
  <2>1. CASE g >= 0
    <3>1. 0 <= alpha * g /\ alpha * g <= 100 * g BY <2>1
    <3> QED BY <3>1, <1>1
  <2>2. CASE g < 0
    <3>1. alpha * g <= 0 /\ 100 * g <= alpha * g BY <2>2
    <3> QED BY <3>1, <1>1
  <2> QED BY <2>1, <2>2
<1> HIDE DEF gap
<1>4. (alpha * gap) \div 100 \in Int /\ -rate <= (alpha * gap) \div 100
      /\ (alpha * gap) \div 100 <= Unit - rate
  <2> SUFFICES ASSUME NEW x \in Int, -(100 * rate) <= x, x <= 100 * (Unit - rate)
               PROVE  x \div 100 \in Int /\ -rate <= x \div 100 /\ x \div 100 <= Unit - rate
    BY <1>3
  <2> QED BY <1>1
<1> QED BY <1>1, <1>4 DEF Toward, gap

\* The invariant holds of a cell nothing was observed on.
LEMMA InitInv == Init => Inv
<1> SUFFICES ASSUME Init PROVE Inv
  OBVIOUS
<1>1. Unit \in Nat /\ MaxEvents \in Nat BY MonitorAssumption
<1>2. fast \in 0..Unit /\ baseline \in 0..Unit /\ from \in 0..Unit /\ events \in 0..MaxEvents
  BY <1>1 DEF Init
<1>3. /\ alerts = 0 /\ reported = 0 /\ lost = 0 /\ failed = 0
      /\ streak = 0 /\ row = 0 /\ turns = 0
  BY DEF Init
<1>4. latched \in BOOLEAN /\ ~latched /\ recovered \in BOOLEAN /\ last \in BOOLEAN
  BY Zenon DEF Init
<1>5. TypeOK BY <1>2, <1>3, <1>4 DEF TypeOK
<1>6. reported + failed <= lost /\ ~(alerts > 0) BY <1>3
<1> QED BY <1>4, <1>5, <1>6 DEF Inv

\* An observation preserves it, in the warm-up, in a breach and out of one.
LEMMA ObserveInv ==
  ASSUME Inv, NEW success \in BOOLEAN, NEW amount \in Amounts, Observe(success, amount)
  PROVE  Inv'
<1> USE MonitorAssumption
<1>1. amount \in Nat OBVIOUS
<1>2. fast' \in 0..Unit BY TowardStays DEF Observe, Inv, TypeOK
<1>3. Baseline(success) \in 0..Unit BY TowardStays DEF Baseline, Inv, TypeOK
<1>4. /\ events' \in 0..MaxEvents /\ turns' \in Nat /\ alerts' \in Nat
      /\ lost' \in Nat /\ last' \in BOOLEAN /\ row' \in Nat
      /\ lost' >= lost /\ lost' = IF success THEN lost ELSE lost + amount
  BY <1>1 DEF Observe, Note, Inv, TypeOK
<1>5. from' \in 0..Unit BY DEF Observe, Note, Inv, TypeOK
<1>6. recovered' \in BOOLEAN BY DEF Observe, Note
<1>7. CASE WarmUp(success)
  <2>1. baseline' \in 0..Unit /\ latched' = latched /\ failed' = failed /\ streak' = streak
    BY <1>3, <1>7 DEF WarmUp
  <2>2. alerts' = alerts /\ reported' = reported
    BY <2>1 DEF Observe, Note
  <2>3. ~latched' /\ alerts' > 0 => recovered'
    BY <2>1, <2>2 DEF Observe, Note, Inv
  <2> QED BY <1>2, <1>4, <1>5, <1>6, <2>1, <2>2, <2>3 DEF Inv, TypeOK
<1>8. CASE Breach(success, amount)
  <2>1. baseline' = baseline /\ streak' \in Nat /\ latched' \in BOOLEAN /\ (latched => latched')
    BY <1>8 DEF Breach, Inv, TypeOK
  <2>2. failed' \in Nat /\ failed' = IF success THEN failed ELSE failed + amount
    BY <1>1, <1>8 DEF Breach, Inv, TypeOK
  <2>3. reported' = IF latched' /\ ~latched THEN reported + failed' ELSE reported
    BY DEF Observe, Note
  <2>4. /\ reported' \in Nat
        /\ latched' => reported' <= lost'
        /\ ~latched' => reported' + failed' <= lost'
    <3>1. CASE latched
      BY <3>1, <1>1, <1>4, <2>1, <2>2, <2>3 DEF Inv, TypeOK
    <3>2. CASE ~latched
      BY <3>2, <1>1, <1>4, <2>1, <2>2, <2>3 DEF Inv, TypeOK
    <3> QED BY <3>1, <3>2
  <2>5. ~latched' /\ alerts' > 0 => recovered'
    BY <2>1 DEF Observe, Note, Inv
  <2> QED BY <1>2, <1>4, <1>5, <1>6, <2>1, <2>2, <2>4, <2>5 DEF Inv, TypeOK
<1>9. CASE NoBreach(success)
  <2>1. baseline' \in 0..Unit /\ streak' \in Nat
    BY <1>3, <1>9 DEF NoBreach
  <2>2. CASE Near(fast', baseline')
    <3>1. ~latched' /\ failed' = 0 BY <1>9, <2>2 DEF NoBreach
    <3>2. reported' = reported BY <3>1 DEF Observe, Note
    <3>3. recovered' BY <2>2, <3>1 DEF Observe, Note, Near
    <3>4. reported <= lost BY DEF Inv, TypeOK
    <3>5. latched' \in BOOLEAN BY <1>9, <2>2 DEF NoBreach
    <3> QED BY <1>2, <1>4, <1>5, <1>6, <2>1, <3>1, <3>2, <3>3, <3>4, <3>5 DEF Inv, TypeOK
  <2>3. CASE ~Near(fast', baseline')
    <3>1. latched' = latched /\ failed' = failed BY <1>9, <2>3 DEF NoBreach
    <3>2. reported' = reported /\ alerts' = alerts BY <3>1 DEF Observe, Note
    <3>3. ~latched' /\ alerts' > 0 => recovered' BY <3>1, <3>2 DEF Observe, Note, Inv
    <3> QED BY <1>2, <1>4, <1>5, <1>6, <2>1, <3>1, <3>2, <3>3 DEF Inv, TypeOK
  <2> QED BY <2>2, <2>3
<1> QED BY <1>7, <1>8, <1>9 DEF Observe

\* The invariant holds of every behaviour.
LEMMA AlwaysInv == Spec => []Inv
<1>1. Inv /\ [Next]_vars => Inv'
  <2> SUFFICES ASSUME Inv, [Next]_vars PROVE Inv'
    OBVIOUS
  <2>1. CASE Next BY <2>1, ObserveInv DEF Next
  <2>2. CASE UNCHANGED vars BY <2>2 DEF vars, cell, Inv, TypeOK
  <2> QED BY <2>1, <2>2
<1> QED BY <1>1, InitInv, PTL DEF Spec

\* Whatever the alphas, the thresholds, the amounts and the traffic: the alerts
\* of a cell together report no more than its payments lost, and both averages
\* stay between none and all.
THEOREM NothingReportedTwice == Spec => [](TypeOK /\ ReportedOnce)
<1>1. Inv => TypeOK /\ ReportedOnce BY DEF Inv, TypeOK, ReportedOnce
<1> QED BY <1>1, AlwaysInv, PTL

\* ... and a second alert is raised only after the rate has been back near the
\* baseline.
THEOREM AlertsAreLatched == Spec => OneAlertPerIncident
<1>1. Inv /\ [Next]_vars => [alerts' > alerts /\ alerts > 0 => recovered]_vars
  <2> SUFFICES ASSUME Inv, Next PROVE alerts' > alerts /\ alerts > 0 => recovered
    OBVIOUS
  <2>1. PICK success \in BOOLEAN, amount \in Amounts : Observe(success, amount)
    BY DEF Next
  <2>2. alerts' > alerts => ~latched
    BY <2>1 DEF Observe, Note, Inv, TypeOK
  <2> QED BY <2>2 DEF Inv
<1> QED BY <1>1, AlwaysInv, PTL DEF Spec, OneAlertPerIncident

(***************************************************************************)
(* An outage is noticed.  The fast average falls by 15 percent at each     *)
(* failure and the baseline by 2 percent at most, so that the ninth        *)
(* failure in a row is a breach, as is every one after it.                 *)
(***************************************************************************)

Myriad == 10000

\* The defaults of SuccessRateMonitor, or more sensitive ones, and a rate in
\* fine enough steps.
AsSensitiveAsShipped ==
  /\ FastAlpha >= 15 /\ BaselineAlpha <= 2
  /\ 4 * DropThreshold <= Unit /\ MinConsecutive <= 5
  /\ Unit >= Myriad

\* In ten-thousandths: what the fast average is at most after so many failures
\* in a row, and the baseline at least, from a baseline of six in ten.
Highest == <<8500, 7225, 6142, 5221, 4438, 3773, 3208, 2727, 2318>>
Lowest == <<5879, 5760, 5643, 5529, 5417, 5307, 5199, 5094>>

Failing == ~last /\ row > 0 /\ 10 * from >= 6 * Unit

\* What is known in a row of failures after the warm-up; the baseline is frozen
\* from the ninth on.
Falling ==
  /\ \A n \in 1..9 : row >= n => Myriad * fast <= Highest[n] * Unit
  /\ \A n \in 1..8 : row = n => Myriad * baseline >= Lowest[n] * Unit
  /\ row >= 8 => Myriad * baseline >= Lowest[8] * Unit
  /\ row >= 9 => latched \/ streak >= row - 8

\* A streak that is long enough has raised the alert.
StreakLatches == latched \/ streak = 0 \/ streak < MinConsecutive

OutageInv == StreakLatches /\ (Failing => Falling)

LEMMA TablesFall ==
  /\ \A n \in 1..9 : Highest[n] \in Nat
  /\ \A n \in 1..8 : Lowest[n] \in Nat
  /\ \A n \in 1..8 : 85 * Highest[n] <= 100 * Highest[n + 1]
  /\ \A n \in 1..7 : 98 * Lowest[n] >= 100 * (Lowest[n + 1] + 1) /\ Lowest[n] >= Lowest[n + 1]
<1>1. 1..9 = {1, 2, 3, 4, 5, 6, 7, 8, 9} /\ 1..8 = {1, 2, 3, 4, 5, 6, 7, 8}
      /\ 1..7 = {1, 2, 3, 4, 5, 6, 7}
  OBVIOUS
<1>2. /\ Highest[1] = 8500 /\ Highest[2] = 7225 /\ Highest[3] = 6142 /\ Highest[4] = 5221
      /\ Highest[5] = 4438 /\ Highest[6] = 3773 /\ Highest[7] = 3208 /\ Highest[8] = 2727
      /\ Highest[9] = 2318
  BY DEF Highest
<1>3. /\ Lowest[1] = 5879 /\ Lowest[2] = 5760 /\ Lowest[3] = 5643 /\ Lowest[4] = 5529
      /\ Lowest[5] = 5417 /\ Lowest[6] = 5307 /\ Lowest[7] = 5199 /\ Lowest[8] = 5094
  BY DEF Lowest
<1>. QED
  BY <1>1, <1>2, <1>3

\* A failure moves an average down by its alpha, but for the rounding.
LEMMA FailureMoves ==
  ASSUME NEW rate \in 0..Unit, NEW alpha \in 0..100
  PROVE  /\ alpha >= 15 => 100 * Toward(rate, FALSE, alpha) <= 85 * rate
         /\ alpha <= 2 => 100 * Toward(rate, FALSE, alpha) >= 98 * rate - 99
<1>1. Unit \in Nat
  BY MonitorAssumption
<1>. DEFINE loss == alpha * rate
<1>2. loss \in Nat
  BY <1>1
<1>3. alpha >= 15 => loss >= 15 * rate
  BY <1>1
<1>4. alpha <= 2 => loss <= 2 * rate
  BY <1>1
<1>5. alpha * (0 - rate) = 0 - loss
  BY <1>1
<1>. HIDE DEF loss
<1>6. Toward(rate, FALSE, alpha) = rate + (0 - loss) \div 100
  BY <1>5 DEF Toward, Value
<1>7. /\ (0 - loss) \div 100 \in Int
      /\ 100 * ((0 - loss) \div 100) <= 0 - loss
      /\ 100 * ((0 - loss) \div 100) >= 0 - loss - 99
  BY <1>2
<1>. DEFINE moved == (0 - loss) \div 100
<1>8. moved \in Int /\ 100 * moved <= 0 - loss /\ 100 * moved >= 0 - loss - 99
  BY <1>7
<1>. DEFINE after == Toward(rate, FALSE, alpha)
<1>9. after = rate + moved
  BY <1>6
<1>. HIDE DEF moved, after
<1>10. rate \in Int /\ 100 * after = 100 * rate + 100 * moved
  BY <1>1, <1>8, <1>9
<1>11. ASSUME alpha >= 15
       PROVE  100 * after <= 85 * rate
  <2>1. 100 * moved <= 0 - 15 * rate
    BY <1>2, <1>3, <1>8, <1>10, <1>11
  <2>. QED
    BY <2>1, <1>8, <1>10
<1>12. ASSUME alpha <= 2
       PROVE  100 * after >= 98 * rate - 99
  <2>1. 100 * moved >= 0 - 2 * rate - 99
    BY <1>2, <1>4, <1>8, <1>10, <1>12
  <2>. QED
    BY <2>1, <1>8, <1>10
<1>. QED
  BY <1>11, <1>12 DEF after

\* How a failure after the warm-up moves the cell.
LEMMA FailureObserved ==
  ASSUME AsSensitiveAsShipped, Inv, NEW amount \in Amounts, Observe(FALSE, amount), row' > 0
  PROVE  /\ 100 * fast' <= 85 * fast
         /\ Breach(FALSE, amount) \/ NoBreach(FALSE)
         /\ baseline' = baseline \/ 100 * baseline' >= 98 * baseline - 99
         /\ last' = FALSE
         /\ \/ row' = 1 /\ from' = baseline
            \/ ~last /\ row > 0 /\ row' = row + 1 /\ from' = from
<1>. USE MonitorAssumption
<1>1. fast \in 0..Unit /\ baseline \in 0..Unit /\ row \in Nat /\ last \in BOOLEAN
  BY DEF Inv, TypeOK
<1>2. 100 * fast' <= 85 * fast
  <2>1. fast' = Toward(fast, FALSE, FastAlpha)
    BY Zenon DEF Observe
  <2>2. FastAlpha \in 0..100 /\ FastAlpha >= 15
    BY DEF AsSensitiveAsShipped
  <2>3. 100 * Toward(fast, FALSE, FastAlpha) <= 85 * fast
    BY <1>1, <2>2, FailureMoves, Zenon
  <2>. QED
    BY <2>1, <2>3, Zenon
<1>3. events >= Warmup
  BY DEF Observe, Note, Inv, TypeOK
<1>4. Breach(FALSE, amount) \/ NoBreach(FALSE)
  <2>1. ~(events < Warmup)
    BY <1>3 DEF Inv, TypeOK
  <2>. QED
    BY <2>1, Zenon DEF Observe, WarmUp
<1>5. baseline' = baseline \/ 100 * baseline' >= 98 * baseline - 99
  <2>1. baseline' = baseline \/ baseline' = Toward(baseline, FALSE, BaselineAlpha)
    BY <1>4, Zenon DEF Breach, NoBreach, Baseline
  <2>2. BaselineAlpha \in 0..100 /\ BaselineAlpha <= 2
    BY DEF AsSensitiveAsShipped
  <2>3. 100 * Toward(baseline, FALSE, BaselineAlpha) >= 98 * baseline - 99
    BY <1>1, <2>2, FailureMoves, Zenon
  <2>. QED
    BY <2>1, <2>3, Zenon
<1>6. ~(events < Warmup)
  BY <1>3 DEF Inv, TypeOK
<1>7. /\ last' = FALSE
      /\ row' = IF FALSE = last THEN row + 1 ELSE 1
      /\ from' = IF FALSE = last /\ row > 0 THEN from ELSE baseline
  BY <1>6, Zenon DEF Observe, Note
<1>8. ASSUME FALSE = last, row > 0
      PROVE  ~last /\ row > 0 /\ row' = row + 1 /\ from' = from
  <2>1. ~last
    BY <1>8
  <2>2. row' = row + 1 /\ from' = from
    BY <1>7, <1>8, Zenon
  <2>. QED
    BY <1>8, <2>1, <2>2, Zenon
<1>9. ASSUME ~(FALSE = last /\ row > 0)
      PROVE  row' = 1 /\ from' = baseline
  <2>1. from' = baseline
    BY <1>7, <1>9
  <2>2. row' = 1
    <3>1. CASE FALSE = last
      <4>1. row = 0 /\ row' = row + 1
        BY <1>1, <1>7, <1>9, <3>1
      <4>. QED
        BY <4>1
    <3>2. CASE ~(FALSE = last)
      BY <1>7, <3>2
    <3>. QED
      BY <3>1, <3>2
  <2>. QED
    BY <2>1, <2>2, Zenon
<1>. QED
  BY <1>2, <1>4, <1>5, <1>7, <1>8, <1>9

LEMMA Scaled ==
  ASSUME NEW k \in Nat, NEW l \in Nat, NEW a \in Nat, NEW b \in Nat, NEW u \in Nat,
         k * a <= l * b
  PROVE  k * (a * u) <= l * (b * u)
<1>1. (k * a) * u <= (l * b) * u
  <2>. DEFINE x == k * a
              y == l * b
  <2>1. x \in Nat /\ y \in Nat /\ x <= y
    OBVIOUS
  <2>. HIDE DEF x, y
  <2>. QED
    BY <2>1
<1>2. (k * a) * u = k * (a * u) /\ (l * b) * u = l * (b * u)
  OBVIOUS
<1>. QED
  BY <1>1, <1>2

\* The arithmetic of one failure.
LEMMA FirstFall ==
  ASSUME NEW f \in Int, NEW g \in Int, NEW u \in Int, 100 * g <= 85 * f, f <= u
  PROVE  Myriad * g <= Highest[1] * u
  BY DEF Myriad, Highest

LEMMA NextFall ==
  ASSUME NEW f \in Int, NEW g \in Int, NEW x \in Int, NEW y \in Int,
         100 * g <= 85 * f, Myriad * f <= x, 85 * x <= 100 * y
  PROVE  Myriad * g <= y
  BY DEF Myriad

LEMMA FirstDrift ==
  ASSUME NEW b \in Int, NEW c \in Int, NEW u \in Int, u >= Myriad,
         c = b \/ 100 * c >= 98 * b - 99, 10 * b >= 6 * u
  PROVE  Myriad * c >= Lowest[1] * u
  BY DEF Myriad, Lowest

LEMMA NextDrift ==
  ASSUME NEW b \in Int, NEW c \in Int, NEW u \in Int, NEW x \in Int, NEW y \in Int,
         u >= Myriad, c = b \/ 100 * c >= 98 * b - 99,
         Myriad * b >= x, y <= x, 100 * (y + u) <= 98 * x
  PROVE  Myriad * c >= y
  BY DEF Myriad

LEMMA FarApart ==
  ASSUME NEW b \in Int, NEW g \in Int, NEW d \in Int, NEW u \in Int, u >= Myriad,
         Myriad * g <= Highest[9] * u, Myriad * b >= Lowest[8] * u, 4 * d <= u
  PROVE  g < b - d
  BY DEF Myriad, Highest, Lowest

\* One failure more keeps the averages apart as the tables say.
LEMMA FailureFalls ==
  ASSUME AsSensitiveAsShipped, Inv, OutageInv,
         NEW amount \in Amounts, Observe(FALSE, amount), Failing'
  PROVE  Falling'
<1>. USE MonitorAssumption
<1>1. /\ fast \in 0..Unit /\ baseline \in 0..Unit /\ fast' \in 0..Unit /\ baseline' \in 0..Unit
      /\ row \in Nat /\ row' \in Nat /\ streak \in Nat /\ Unit \in Nat
  BY ObserveInv DEF Inv, TypeOK
<1>2. /\ fast \in Int /\ fast' \in Int /\ baseline \in Int /\ baseline' \in Int
      /\ Unit \in Int /\ DropThreshold \in Int /\ Unit >= Myriad /\ fast <= Unit
  BY <1>1 DEF AsSensitiveAsShipped
<1>3. row' > 0 /\ 10 * from' >= 6 * Unit
  BY DEF Failing
<1>4. 100 * fast' <= 85 * fast
  BY <1>3, FailureObserved
<1>5. Breach(FALSE, amount) \/ NoBreach(FALSE)
  BY <1>3, FailureObserved
<1>6. baseline' = baseline \/ 100 * baseline' >= 98 * baseline - 99
  BY <1>3, FailureObserved
<1>7. \/ row' = 1 /\ from' = baseline
      \/ ~last /\ row > 0 /\ row' = row + 1 /\ from' = from
  BY <1>3, FailureObserved
<1>8. /\ \A n \in 1..9 : Highest[n] * Unit \in Nat
      /\ \A n \in 1..8 : Lowest[n] * Unit \in Nat
  BY <1>1, TablesFall
<1>9. CASE row' = 1 /\ from' = baseline
  <2>1. Myriad * fast' <= Highest[1] * Unit
    BY <1>2, <1>4, FirstFall
  <2>2. Myriad * baseline' >= Lowest[1] * Unit
    <3>1. 10 * baseline >= 6 * Unit
      BY <1>3, <1>9
    <3>. QED
      BY <1>2, <1>6, <3>1, FirstDrift
  <2>4. \A n \in 1..9 : row' >= n => Myriad * fast' <= Highest[n] * Unit
    BY <1>9, <2>1
  <2>5. \A n \in 1..8 : row' = n => Myriad * baseline' >= Lowest[n] * Unit
    BY <1>9, <2>2
  <2>6. ~(row' >= 8) /\ ~(row' >= 9)
    BY <1>9
  <2>. QED
    BY <2>4, <2>5, <2>6 DEF Falling
<1>10. CASE ~last /\ row > 0 /\ row' = row + 1 /\ from' = from
  <2>1. Falling
    BY <1>3, <1>10 DEF OutageInv, Failing
  <2>2. ASSUME NEW n \in 1..9, row' >= n
        PROVE  Myriad * fast' <= Highest[n] * Unit
    <3>1. CASE n = 1
      <4>1. Myriad * fast' <= Highest[1] * Unit
        BY <1>2, <1>4, FirstFall
      <4>. QED
        BY <3>1, <4>1
    <3>2. CASE n > 1
      <4>1. PICK m \in 1..8 : n = m + 1
        <5>1. n - 1 \in 1..8 /\ n = (n - 1) + 1
          BY <3>2
        <5>. QED
          BY <5>1
      <4>2. m \in 1..9 /\ row >= m
        BY <1>1, <1>10, <2>2, <4>1
      <4>3. Myriad * fast <= Highest[m] * Unit
        BY <2>1, <4>2 DEF Falling
      <4>4. 85 * (Highest[m] * Unit) <= 100 * (Highest[n] * Unit)
        BY <1>1, <4>1, <4>2, TablesFall, Scaled
      <4>5. Highest[m] * Unit \in Nat /\ Highest[n] * Unit \in Nat
        BY <1>8, <4>2
      <4>6. ASSUME NEW x \in Int, NEW y \in Int, Myriad * fast <= x, 85 * x <= 100 * y
            PROVE  Myriad * fast' <= y
        BY <1>2, <1>4, <4>6, NextFall
      <4>7. /\ Highest[m] * Unit \in Int /\ Highest[n] * Unit \in Int
            /\ Myriad * fast <= Highest[m] * Unit
            /\ 85 * (Highest[m] * Unit) <= 100 * (Highest[n] * Unit)
        BY <4>3, <4>4, <4>5
      <4>. QED
        BY <1>2, <1>4, <4>6, <4>7
    <3>. QED
      BY <3>1, <3>2
  <2>3. ASSUME NEW n \in 1..8, row' = n
        PROVE  Myriad * baseline' >= Lowest[n] * Unit
    <3>1. PICK m \in 1..7 : n = m + 1
      <4>1. n - 1 \in 1..7 /\ n = (n - 1) + 1
        BY <1>1, <1>10, <2>3
      <4>. QED
        BY <4>1
    <3>2. row = m /\ m \in 1..8
      BY <1>1, <1>10, <2>3, <3>1
    <3>3. Myriad * baseline >= Lowest[m] * Unit
      BY <2>1, <3>2 DEF Falling
    <3>4. /\ 98 * Lowest[m] >= 100 * (Lowest[n] + 1) /\ Lowest[m] >= Lowest[n]
          /\ Lowest[m] \in Nat /\ Lowest[n] \in Nat
      BY <3>1, <3>2, TablesFall
    <3>5. 1 * (Lowest[n] * Unit) <= 1 * (Lowest[m] * Unit)
      BY <1>1, <3>4, Scaled
    <3>6. 100 * ((Lowest[n] + 1) * Unit) <= 98 * (Lowest[m] * Unit)
      <4>1. Lowest[n] + 1 \in Nat /\ 100 * (Lowest[n] + 1) <= 98 * Lowest[m]
        BY <3>4
      <4>. QED
        BY <1>1, <3>4, <4>1, Scaled
    <3>7. (Lowest[n] + 1) * Unit = Lowest[n] * Unit + Unit
      BY <1>1, <3>4
    <3>8. Lowest[m] * Unit \in Nat /\ Lowest[n] * Unit \in Nat
      BY <1>8, <3>2
    <3>. QED
      <4>. DEFINE x == Lowest[m] * Unit
                  y == Lowest[n] * Unit
      <4>1. /\ x \in Int /\ y \in Int /\ Myriad * baseline >= x
            /\ y <= x /\ 100 * (y + Unit) <= 98 * x
        BY <3>3, <3>5, <3>6, <3>7, <3>8
      <4>. HIDE DEF x
      <4>2. ASSUME NEW z \in Int, z = y
            PROVE  Myriad * baseline' >= z
        BY <1>2, <1>6, <4>1, <4>2, NextDrift
      <4>. QED
        BY <4>1, <4>2
  <2>4. ASSUME row' >= 9
        PROVE  Breach(FALSE, amount)
    <3>1. Myriad * fast' <= Highest[9] * Unit
      <4>1. 9 \in 1..9
        OBVIOUS
      <4>. QED
        BY <2>2, <2>4, <4>1
    <3>2. Myriad * baseline >= Lowest[8] * Unit
      <4>1. row >= 8
        BY <1>1, <1>10, <2>4
      <4>. QED
        BY <2>1, <4>1 DEF Falling
    <3>3. 4 * DropThreshold <= Unit
      BY DEF AsSensitiveAsShipped
    <3>4. Breaching(fast')
      BY <1>2, <3>1, <3>2, <3>3, FarApart DEF Breaching
    <3>. QED
      BY <1>5, <3>4 DEF NoBreach
  <2>5. ASSUME row' >= 8
        PROVE  Myriad * baseline' >= Lowest[8] * Unit
    <3>1. CASE row' = 8
      BY <2>3, <3>1
    <3>2. CASE row' >= 9
      <4>1. baseline' = baseline /\ row >= 8
        BY <1>1, <1>10, <2>4, <3>2 DEF Breach
      <4>. QED
        BY <2>1, <4>1 DEF Falling
    <3>. QED
      BY <1>1, <2>5, <3>1, <3>2
  <2>6. ASSUME row' >= 9
        PROVE  latched' \/ streak' >= row' - 8
    <3>1. streak' = streak + 1 /\ (latched => latched')
      BY <2>4, <2>6 DEF Breach
    <3>2. CASE row = 8
      BY <1>1, <1>10, <3>1, <3>2
    <3>3. CASE row >= 9
      <4>1. latched \/ streak >= row - 8
        BY <2>1, <3>3 DEF Falling
      <4>. QED
        BY <1>1, <1>10, <3>1, <4>1
    <3>. QED
      BY <1>1, <1>10, <2>6, <3>2, <3>3
  <2>. QED
    BY <2>2, <2>3, <2>5, <2>6 DEF Falling
<1>. QED
  BY <1>9, <1>10, <1>7

LEMMA OutageInvStep ==
  ASSUME AsSensitiveAsShipped, Inv, OutageInv, [Next]_vars
  PROVE  OutageInv'
<1>1. CASE UNCHANGED vars
  BY <1>1 DEF vars, cell, OutageInv, StreakLatches, Failing, Falling
<1>2. ASSUME NEW success \in BOOLEAN, NEW amount \in Amounts, Observe(success, amount)
      PROVE  OutageInv'
  <2>1. StreakLatches'
    <3>1. CASE WarmUp(success)
      BY <3>1 DEF WarmUp, OutageInv, StreakLatches
    <3>2. CASE Breach(success, amount)
      <4>1. streak' = streak + 1 /\ latched' = (latched \/ Raises) /\ streak + 1 \in Int
            /\ MinConsecutive \in Int
        BY <3>2, MonitorAssumption DEF Breach, Inv, TypeOK
      <4>2. Raises \/ latched \/ streak + 1 < MinConsecutive
        BY <4>1 DEF Raises
      <4>. QED
        BY <4>1, <4>2 DEF StreakLatches
    <3>3. CASE NoBreach(success)
      BY <3>3 DEF NoBreach, StreakLatches
    <3>. QED
      BY <1>2, <3>1, <3>2, <3>3 DEF Observe
  <2>2. ASSUME Failing'
        PROVE  Falling'
    <3>1. last' = success /\ ~last'
      BY <1>2, <2>2 DEF Observe, Note, Failing
    <3>2. Observe(FALSE, amount)
      <4>1. success = FALSE
        BY <3>1
      <4>. QED
        BY <1>2, <4>1
    <3>. QED
      BY <2>2, <3>2, FailureFalls
  <2>. QED
    BY <2>1, <2>2 DEF OutageInv
<1>. QED
  BY <1>1, <1>2 DEF Next

\* With the settings the monitor is shipped with, or more sensitive ones, and
\* whatever the warm-up and the traffic: thirteen failures in a row on a cell
\* that mostly worked have raised the alert.
THEOREM OutageAlwaysReported ==
  ASSUME AsSensitiveAsShipped
  PROVE  Spec => []OutageReported
<1>1. Init => OutageInv
  BY DEF Init, OutageInv, StreakLatches, Failing
<1>2. Inv /\ OutageInv /\ [Next]_vars => OutageInv'
  BY OutageInvStep
<1>3. Inv /\ OutageInv => OutageReported
  <2>. SUFFICES ASSUME Inv, OutageInv, row >= 13, ~last, 10 * from >= 6 * Unit
                PROVE  latched
    BY DEF OutageReported
  <2>1. row \in Nat /\ streak \in Nat
    BY DEF Inv, TypeOK
  <2>2. latched \/ streak >= 5
    BY <2>1 DEF OutageInv, Failing, Falling
  <2>. QED
    BY <2>1, <2>2, MonitorAssumption DEF OutageInv, StreakLatches, AsSensitiveAsShipped
<1>. QED
  BY <1>1, <1>2, <1>3, AlwaysInv, PTL DEF Spec
=============================================================================

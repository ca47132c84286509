------------------------------ MODULE Compliance ------------------------------
(***************************************************************************)
(* policy/compliance.py: the deterministic rules every proposed action is  *)
(* held to, with the limits of policy/compliance.yaml as constants.  Time  *)
(* is in whole hours of the policy's time zone: hour h of day d is         *)
(* 24 * d + h.  Of a Decision only `allowed` is kept: the names of the     *)
(* failed checks and the requires_approval stamp are written to the audit  *)
(* record and steer nothing.                                               *)
(***************************************************************************)
EXTENDS Domain

CONSTANTS
  QuietStart, QuietEnd,     \* quiet_hours, hours of the day
  MaxAttempts,              \* max_attempts_per_case
  MaxContactsPerWeek,       \* max_contacts_per_customer_per_week
  MinGap,                   \* min_gap_between_contacts_hours
  NeverRetryCodes,          \* payments.never_retry_codes
  DailyBudget,              \* daily_action_budget
  MaxRepresentments,        \* mandate_retry.max_representments
  PreDebitNotice            \* require_pre_debit_notification_hours

ASSUME PolicyAssumption ==
  /\ QuietStart \in 0..23 /\ QuietEnd \in 0..23
  /\ MaxAttempts \in Nat /\ MaxContactsPerWeek \in Nat
  /\ MinGap \in Nat \ {0}
  /\ DailyBudget \in Nat
  /\ MaxRepresentments \in Nat /\ PreDebitNotice \in Nat

Day(t) == t \div 24
HourOfDay(t) == t % 24

Week == 7 * 24

\* Mutated form of InQuietHours: the window is read as not spanning midnight.
InQuietHoursSameDay(now) ==
  QuietStart <= HourOfDay(now) /\ HourOfDay(now) < QuietEnd

\* The quiet window may span midnight (21:00 -> 09:00).
InQuietHours(now) ==
  IF QuietStart > QuietEnd
  THEN HourOfDay(now) >= QuietStart \/ HourOfDay(now) < QuietEnd
  ELSE HourOfDay(now) \in QuietStart..(QuietEnd - 1)

\* The positions of hist, a list of contact times, that the weekly cap counts.
ThisWeek(hist, now) == {i \in DOMAIN hist : hist[i] >= now - Week}

\* Mutated form of WeekHasRoom: the comparison with the cap is off by one.
WeekHasRoomOffByOne(hist, now) ==
  Cardinality(ThisWeek(hist, now)) <= MaxContactsPerWeek

WeekHasRoom(hist, now) == Cardinality(ThisWeek(hist, now)) < MaxContactsPerWeek

\* Mutated form of GapKept: only the oldest contact is compared.
OldestGapKept(hist, now) == hist # <<>> => now - hist[1] >= MinGap

GapKept(hist, now) == \A i \in DOMAIN hist : now - hist[i] >= MinGap

\* RBI e-mandate rule: a debit needs a contact that has aged PreDebitNotice.
NoticeGiven(hist, now) == \E i \in DOMAIN hist : now - hist[i] >= PreDebitNotice

\* Mutated form of MandateKept: any contact is notice enough.
MandateKeptAnyNotice(type, hist, now, retries) ==
  type = "subscription_failure" => retries < MaxRepresentments /\ hist # <<>>

\* E-mandate rules hold for recurring (subscription) charges only.
MandateKept(type, hist, now, retries) ==
  type = "subscription_failure" =>
    retries < MaxRepresentments /\ NoticeGiven(hist, now)

ContactKept(hist, now) ==
  ~InQuietHours(now) /\ WeekHasRoom(hist, now) /\ GapKept(hist, now)

\* Mutated form of AttemptsLeft: the cap is off by one.
AttemptsLeftOffByOne(attempts) == attempts <= MaxAttempts

AttemptsLeft(attempts) == attempts < MaxAttempts

\* Mutated form of BudgetLeft: the cap is off by one.
BudgetLeftOffByOne(actionsToday) == actionsToday <= DailyBudget

BudgetLeft(actionsToday) == actionsToday < DailyBudget

\* ComplianceEngine.check: case holds the case's type and error code.
Allowed(action, case, attempts, hist, now, kill, actionsToday, retries) ==
  /\ ~kill
  /\ action.kind # "escalate" =>
       /\ BudgetLeft(actionsToday)
       /\ AttemptsLeft(attempts)
       /\ action.kind = "retry" =>
            /\ case.code \notin NeverRetryCodes
            /\ MandateKept(case.type, hist, now, retries)
       /\ IsContact(action) => ContactKept(hist, now)
=============================================================================

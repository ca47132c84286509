---------------------------- MODULE SequentialProofs ----------------------------
(***************************************************************************)
(* The rules that span the cases of a customer, for a flow that handles    *)
(* one case at a time, and for the service, whose one worker sees to that: *)
(* any number of cases and customers, any limits, any redeliveries.        *)
(***************************************************************************)
EXTENDS RecoveryFlowProofs, Service

\* No two cases are in the hands of a thread.
OneAtATime == \A c, d \in Running : c = d

\* The contact history a case has read is still the customer's.
HistoryCurrent ==
  \A c \in Cases : run[c].pc \in {"gate", "act", "respond"} =>
    run[c].hist = contacts[info[c].customer]

\* What the gate allowed, it would allow again when the action is executed.
GateHolds == \A c \in Cases : run[c].pc = "act" => Gate(c)

(***************************************************************************)
(* One case at a time.                                                     *)
(***************************************************************************)
\* With one thread, no case is taken up before the last one is closed.
LEMMA OneAtATimeKept ==
  ASSUME Threads = 1, Inv, OneAtATime, NEW c \in Cases, Step(c)
  PROVE  OneAtATime'
<1>1. IsFiniteSet(Running)
  BY FlowAssumption, FS_Subset DEF Running
<1>2. ASSUME Start(c)  PROVE Running = {}
  <2>1. Cardinality(Running) < 1 /\ Cardinality(Running) \in Nat
    BY <1>1, <1>2, FS_CardinalityType DEF Start
  <2>. QED
    BY <1>1, <2>1, FS_EmptySet
<1>3. \A d \in Running : d = c
  BY <1>2, StepWrites DEF OneAtATime
<1>4. \A d \in Cases : d # c => run'[d].pc \in {"new", "done"}
  BY <1>3, StepWrites DEF Running
<1>. QED
  BY <1>4 DEF OneAtATime, Running

\* When one case is handled at a time, a case takes a step only while the
\* others rest.
LEMMA OthersRest ==
  ASSUME Inv, OneAtATime, OneAtATime', NEW c \in Cases, Step(c)
  PROVE  \A d \in Cases : d # c => run[d].pc \in {"new", "done"} /\ run'[d] = run[d]
<1>1. ASSUME NEW d \in Cases, d # c, Start(c)
      PROVE  run[d].pc \in {"new", "done"}
  <2>1. run'[c].pc \in {"plan", "finish"} /\ run'[d] = run[d]
    BY <1>1, NextPc, StepWrites
  <2>2. c \in Running'
    BY <2>1 DEF Running
  <2>3. d \notin Running'
    BY <1>1, <2>2 DEF OneAtATime
  <2>. QED
    BY <2>1, <2>3 DEF Running
<1>2. ASSUME NEW d \in Cases, d # c, ~Start(c)
      PROVE  run[d].pc \in {"new", "done"}
  BY <1>2, StepWrites DEF OneAtATime, Running
<1>. QED
  BY <1>1, <1>2, StepWrites

LEMMA HistoryKept ==
  ASSUME Inv, OneAtATime, OneAtATime', HistoryCurrent, NEW c \in Cases, Step(c)
  PROVE  HistoryCurrent'
<1>1. SUFFICES ASSUME run'[c].pc \in {"gate", "act", "respond"}
               PROVE  run'[c].hist = contacts'[info[c].customer]
  BY OthersRest, StepWrites DEF HistoryCurrent
<1>2. run[c] \in RunState /\ info[c].customer \in Customers
  BY CaseFacts DEF CaseInv
<1>3. CASE Start(c) \/ Plan(c) \/ Exhaust(c) \/ Finish(c) \/ Crash(c)
  BY <1>1, <1>3, NextPc
<1>4. CASE Prepare(c)
  BY <1>2, <1>4 DEF Prepare, ContactHistory, Becomes, RunState, Inv, TypeOK, shared
<1>5. CASE Defer(c)
  BY <1>2, <1>5
  DEF Defer, StepsLeft, NextStep, Becomes, RunState, Inv, TypeOK, HistoryCurrent, shared
<1>6. CASE Decide(c)
  BY <1>1, <1>2, <1>6
  DEF Decide, StepsLeft, AfterDecision, Closing, NextStep, Becomes, RunState, Inv, TypeOK,
      HistoryCurrent, shared
<1>7. CASE ActFails(c)
  BY <1>2, <1>7
  DEF ActFails, NextStep, Becomes, RunState, Inv, TypeOK, HistoryCurrent, shared
<1>8. CASE Execute(c)
  BY <1>2, <1>8 DEF Execute, Becomes, RunState, Inv, TypeOK, HistoryCurrent
<1>9. CASE HearBack(c)
  BY <1>1, <1>2, <1>9
  DEF HearBack, AfterReply, Closing, NextStep, Becomes, RunState, Inv, TypeOK,
      HistoryCurrent
<1>. QED
  BY <1>3, <1>4, <1>5, <1>6, <1>7, <1>8, <1>9 DEF Step, Handle

LEMMA GateKept ==
  ASSUME Inv, OneAtATime, OneAtATime', NEW c \in Cases, Step(c)
  PROVE  GateHolds'
<1>1. SUFFICES ASSUME run'[c].pc = "act"
               PROVE  Gate(c)'
  BY OthersRest DEF GateHolds
<1>2. run[c] \in RunState
  BY CaseFacts DEF CaseInv
<1>3. Decide(c)
  BY <1>1, NextPc DEF Step, Handle
<1>4. Gate(c) /\ run'[c] = [run[c] EXCEPT !.pc = "act"]
  BY <1>1, <1>2, <1>3
  DEF Decide, AfterDecision, Closing, NextStep, Becomes, RunState, Inv, TypeOK
<1>5. /\ run'[c].attempts = run[c].attempts /\ run'[c].hist = run[c].hist
      /\ run'[c].now = run[c].now /\ run'[c].executed = run[c].executed
      /\ run'[c].last = run[c].last /\ run'[c].step = run[c].step
      /\ run'[c].playbook = run[c].playbook
  BY <1>2, <1>4 DEF RunState
<1>6. info' = info /\ budget' = budget
  BY <1>3 DEF Decide, shared
<1>7. NextAction(c)' = NextAction(c)
  BY <1>5, <1>6 DEF NextAction
<1>8. Retries(run[c])' = Retries(run[c]) /\ Spent(Day(run[c].now))' = Spent(Day(run[c].now))
  BY <1>5, <1>6 DEF Retries, Spent, On
<1>. QED
  BY <1>4, <1>5, <1>6, <1>7, <1>8 DEF Gate

(***************************************************************************)
(* What an executed action adds to the shared stores.                      *)
(***************************************************************************)

\* A contact that the rules allow is made at hour t.
Contacted(u, t) ==
  /\ contacts' = [contacts EXCEPT ![u] = Append(@, t)]
  /\ ContactKept(contacts[u], t)

LEMMA OnlyAllowedContacts ==
  ASSUME Inv, HistoryCurrent, GateHolds, NEW c \in Cases, Step(c)
  PROVE  contacts' = contacts \/ \E u \in Customers : \E t \in Nat : Contacted(u, t)
<1>1. CASE Execute(c)
  <2>1. /\ CaseInv(run[c]) /\ run[c].pc = "act" /\ info[c] \in CaseInfo
        /\ info[c].customer \in Customers /\ run[c].now \in Nat
        /\ run[c].step <= Len(Playbook[run[c].playbook])
    BY <1>1, CaseFacts DEF Execute, CaseInv, Stage
  <2>2. NextAction(c).kind # "escalate"
    BY <2>1, NextActionTyped DEF FlowActions
  <2>3. Gate(c) /\ run[c].hist = contacts[info[c].customer]
    BY <2>1 DEF GateHolds, HistoryCurrent
  <2>4. CASE IsContact(NextAction(c))
    <3>1. ContactKept(contacts[info[c].customer], run[c].now)
      BY <2>2, <2>3, <2>4 DEF Gate, Allowed
    <3>2. contacts' = [contacts EXCEPT ![info[c].customer]
                                   = contacts[info[c].customer] \o <<run[c].now>>]
      BY <1>1, <2>4 DEF Execute
    <3>3. contacts[info[c].customer] \o <<run[c].now>>
            = Append(contacts[info[c].customer], run[c].now)
      BY <2>1 DEF Inv, TypeOK
    <3>. QED
      BY <2>1, <3>1, <3>2, <3>3 DEF Contacted
  <2>5. CASE ~IsContact(NextAction(c))
    <3>1. contacts' = [contacts EXCEPT ![info[c].customer]
                                   = contacts[info[c].customer] \o <<>>]
      BY <1>1, <2>5 DEF Execute
    <3>2. contacts[info[c].customer] \o <<>> = contacts[info[c].customer]
      BY <2>1 DEF Inv, TypeOK
    <3>. QED
      BY <3>1, <3>2 DEF Inv, TypeOK
  <2>. QED
    BY <2>4, <2>5
<1>2. ASSUME ~Execute(c)  PROVE contacts' = contacts
  BY <1>2 DEF Step, Handle, Start, Plan, Prepare, Defer, Decide, ActFails, HearBack,
              Exhaust, Finish, Crash, shared
<1>. QED
  BY <1>1, <1>2

LEMMA SpacedKept ==
  ASSUME Inv, ContactsSpaced, NEW u \in Customers, NEW t \in Nat, Contacted(u, t)
  PROVE  ContactsSpaced'
<1>1. SUFFICES ASSUME NEW v \in Customers, NEW i \in DOMAIN contacts'[v],
                      NEW j \in DOMAIN contacts'[v], i < j
               PROVE  contacts'[v][j] - contacts'[v][i] >= MinGap
  BY DEF ContactsSpaced
<1>2. contacts \in [Customers -> Seq(Nat)]
  BY DEF Inv, TypeOK
<1>3. CASE v # u
  BY <1>1, <1>2, <1>3 DEF Contacted, ContactsSpaced
<1>4. CASE v = u
  <2>. DEFINE log == contacts[u]
  <2>1. contacts'[v] = Append(log, t) /\ log \in Seq(Nat)
    BY <1>2, <1>4 DEF Contacted
  <2>2. GapKept(log, t) /\ \A k, l \in DOMAIN log : k < l => log[l] - log[k] >= MinGap
    BY DEF Contacted, ContactKept, ContactsSpaced
  <2>. HIDE DEF log
  <2>3. i \in 1..Len(log) /\ j \in 1..(Len(log) + 1)
    BY <1>1, <2>1
  <2>4. CASE j = Len(log) + 1
    BY <2>1, <2>2, <2>3, <2>4 DEF GapKept
  <2>5. CASE j # Len(log) + 1
    BY <1>1, <2>1, <2>2, <2>3, <2>5
  <2>. QED
    BY <2>4, <2>5
<1>. QED
  BY <1>3, <1>4

LEMMA QuietKept ==
  ASSUME Inv, QuietHoursKept, NEW u \in Customers, NEW t \in Nat, Contacted(u, t)
  PROVE  QuietHoursKept'
<1>1. SUFFICES ASSUME NEW v \in Customers, NEW i \in DOMAIN contacts'[v]
               PROVE  (HourOfDay(contacts'[v][i]) - QuietStart) % 24
                        >= (QuietEnd - QuietStart) % 24
  BY DEF QuietHoursKept
<1>2. contacts \in [Customers -> Seq(Nat)] /\ ~InQuietHours(t)
  BY DEF Inv, TypeOK, Contacted, ContactKept
<1>3. \/ i \in DOMAIN contacts[v] /\ contacts'[v][i] = contacts[v][i]
      \/ contacts'[v][i] = t
  BY <1>1, <1>2 DEF Contacted
<1>4. CASE contacts'[v][i] = t
  BY <1>2, <1>4, QuietWindow
<1>5. CASE i \in DOMAIN contacts[v] /\ contacts'[v][i] = contacts[v][i]
  BY <1>5 DEF QuietHoursKept
<1>. QED
  BY <1>3, <1>4, <1>5

LEMMA WeeklyKept ==
  ASSUME Inv, WeeklyCapKept, NEW u \in Customers, NEW t \in Nat, Contacted(u, t)
  PROVE  WeeklyCapKept'
<1>1. SUFFICES ASSUME NEW v \in Customers, NEW i \in DOMAIN contacts'[v]
               PROVE  Cardinality({j \in 1..i : contacts'[v][j] >= contacts'[v][i] - Week})
                        <= MaxContactsPerWeek
  BY DEF WeeklyCapKept
<1>2. contacts \in [Customers -> Seq(Nat)]
  BY DEF Inv, TypeOK
<1>3. CASE v # u \/ i \in DOMAIN contacts[v]
  <2>1. i \in DOMAIN contacts[v]
        /\ \A j \in 1..i : contacts'[v][j] = contacts[v][j]
    BY <1>1, <1>2, <1>3 DEF Contacted
  <2>2. i \in 1..i
    BY <1>2, <2>1
  <2>3. {j \in 1..i : contacts'[v][j] >= contacts'[v][i] - Week}
          = {j \in 1..i : contacts[v][j] >= contacts[v][i] - Week}
    <3>. DEFINE later == contacts'[v]
                log == contacts[v]
    <3>1. \A j \in 1..i : later[j] = log[j]
      BY <2>1
    <3>. HIDE DEF later, log, Week
    <3>2. {j \in 1..i : later[j] >= later[i] - Week} = {j \in 1..i : log[j] >= log[i] - Week}
      BY <2>2, <3>1
    <3>. QED
      BY <3>2 DEF later, log
  <2>. QED
    BY <2>1, <2>3 DEF WeeklyCapKept
<1>4. CASE v = u /\ i \notin DOMAIN contacts[v]
  <2>. DEFINE log == contacts[u]
              recent == ThisWeek(log, t)
  <2>1. contacts'[v] = Append(log, t) /\ log \in Seq(Nat)
    BY <1>2, <1>4 DEF Contacted
  <2>2. i = Len(log) + 1 /\ contacts'[v][i] = t
    BY <1>1, <1>4, <2>1
  <2>3. {j \in 1..i : contacts'[v][j] >= contacts'[v][i] - Week} = recent \cup {i}
    <3>1. \A j \in 1..Len(log) : contacts'[v][j] = log[j]
      BY <2>1
    <3>2. /\ Len(log) \in Nat /\ DOMAIN log = 1..Len(log)
          /\ Week \in Nat /\ t \in Nat /\ t >= t - Week
      BY <2>1 DEF Week
    <3>3. ThisWeek(log, t) = {j \in 1..Len(log) : log[j] >= t - Week}
      BY <3>2 DEF ThisWeek
    <3>. HIDE DEF log, Week
    <3>4. 1..i = 1..Len(log) \cup {i} /\ i \notin 1..Len(log)
      BY <2>2, <3>2
    <3>. QED
      BY <2>2, <3>1, <3>2, <3>3, <3>4
  <2>4. recent \subseteq 1..Len(log) /\ i \notin recent
    BY <2>1, <2>2 DEF ThisWeek
  <2>5. IsFiniteSet(recent)
    <3>1. Len(log) \in Nat
      BY <2>1
    <3>2. IsFiniteSet(1..Len(log))
      BY <3>1, FS_Interval
    <3>. HIDE DEF recent, log
    <3>. QED
      BY <2>4, <3>2, FS_Subset
  <2>6. Cardinality(recent \cup {i}) = Cardinality(recent) + 1
        /\ Cardinality(recent) \in Nat
    BY <2>4, <2>5, FS_AddElement, FS_CardinalityType
  <2>7. Cardinality(recent) < MaxContactsPerWeek
    BY DEF Contacted, ContactKept, WeekHasRoom
  <2>8. Cardinality(recent \cup {i}) <= MaxContactsPerWeek
    <3>1. MaxContactsPerWeek \in Nat
      BY PolicyAssumption
    <3>. HIDE DEF recent
    <3>. QED
      BY <2>6, <2>7, <3>1
  <2>. HIDE DEF recent
  <2>. QED
    BY <2>3, <2>8, Zenon
<1>. QED
  BY <1>3, <1>4

\* No day's count of the budget is over the limit.
SpentKept == \A d \in DOMAIN budget : budget[d] <= DailyBudget

\* On no day have more actions been carried out than the budget has counted, with
\* n more that it has forgotten.
Counted(n) == \A d \in DOMAIN acted : acted[d] <= n + Spent(d)

\* Only Execute counts, and it counts both alike.
LEMMA CountsMove ==
  ASSUME Inv, NEW c \in Cases, Step(c)
  PROVE  \/ budget' = budget /\ acted' = acted
         \/ /\ Execute(c) /\ Day(run[c].now) \in Nat
            /\ budget' = Tallied(budget, Day(run[c].now))
            /\ acted' = Tallied(acted, Day(run[c].now))
<1>1. CASE Execute(c)
  <2>1. run[c].now \in Nat
    BY CaseFacts
  <2>2. Day(run[c].now) \in Nat
    BY <2>1 DEF Day
  <2>. QED
    BY <1>1, <2>2 DEF Execute
<1>2. ASSUME ~Execute(c)  PROVE budget' = budget /\ acted' = acted
  BY <1>2 DEF Step, Handle, Start, Plan, Prepare, Defer, Decide, ActFails, HearBack,
              Exhaust, Finish, Crash, shared
<1>. QED
  BY <1>1, <1>2

LEMMA BudgetStep ==
  ASSUME Inv, GateHolds, SpentKept, NEW c \in Cases, Step(c)
  PROVE  SpentKept'
<1>1. CASE Execute(c) /\ budget' = Tallied(budget, Day(run[c].now))
  <2>1. /\ CaseInv(run[c]) /\ run[c].pc = "act" /\ info[c] \in CaseInfo
        /\ run[c].now \in Nat /\ run[c].step <= Len(Playbook[run[c].playbook])
    BY <1>1, CaseFacts DEF Execute, CaseInv, Stage
  <2>2. NextAction(c).kind # "escalate" /\ Gate(c)
    BY <2>1, NextActionTyped DEF FlowActions, GateHolds
  <2>3. Spent(Day(run[c].now)) < DailyBudget
    BY <2>2 DEF Gate, Allowed, BudgetLeft
  <2>4. On(budget, Day(run[c].now)) \in Nat
    BY DEF On, Inv, TypeOK
  <2>. QED
    BY <1>1, <2>3, <2>4, PolicyAssumption DEF SpentKept, Tallied, Spent
<1>2. CASE budget' = budget
  BY <1>2 DEF SpentKept
<1>. QED
  BY <1>1, <1>2, CountsMove

LEMMA CountedStep ==
  ASSUME Inv, NEW c \in Cases, Step(c), NEW n \in Nat, Counted(n)
  PROVE  \A d \in DOMAIN acted' : acted'[d] <= n + Spent(d)'
<1>. DEFINE day == Day(run[c].now)
<1>1. CASE budget' = budget /\ acted' = acted
  BY <1>1 DEF Counted, Spent, On
<1>2. CASE /\ day \in Nat
           /\ budget' = Tallied(budget, day) /\ acted' = Tallied(acted, day)
  <2>1. /\ \A d : On(budget, d) \in Nat /\ On(acted, d) \in Nat
        /\ \A d : On(acted, d) <= n + On(budget, d)
    BY DEF On, Inv, TypeOK, Counted, Spent
  <2>. HIDE DEF day
  <2>2. \A d : On(budget', d) = IF d = day THEN On(budget, day) + 1 ELSE On(budget, d)
    BY <1>2 DEF Tallied, On
  <2>3. \A d \in DOMAIN acted' :
          acted'[d] = IF d = day THEN On(acted, day) + 1 ELSE On(acted, d)
    BY <1>2 DEF Tallied, On
  <2>4. \A d \in DOMAIN acted' : acted'[d] <= n + On(budget', d)
    BY <2>1, <2>2, <2>3
  <2>. QED
    BY <2>4 DEF Spent, On
<1>. QED
  BY <1>1, <1>2, CountsMove

\* Counts that agree keep the actions of a day within the budget.
LEMMA CountedIsKept ==
  ASSUME Inv, SpentKept, NEW n \in Nat, Counted(n), NEW d \in DOMAIN acted
  PROVE  acted[d] \in Nat /\ acted[d] <= n + DailyBudget
<1>1. acted[d] \in Nat /\ acted[d] <= n + On(budget, d)
  BY DEF Counted, Spent, Inv, TypeOK
<1>2. On(budget, d) \in Nat /\ On(budget, d) <= DailyBudget /\ DailyBudget \in Nat
  BY PolicyAssumption DEF On, SpentKept, Inv, TypeOK
<1>. QED
  BY <1>1, <1>2

(***************************************************************************)
(* The inductive invariant of the sequential flow.                         *)
(***************************************************************************)
SeqInv ==
  /\ Inv /\ OneAtATime /\ HistoryCurrent /\ GateHolds
  /\ ContactsSpaced /\ WeeklyCapKept /\ QuietHoursKept /\ SpentKept

LEMMA SeqInit == Init => SeqInv
<1>. SUFFICES ASSUME Init PROVE SeqInv
  OBVIOUS
<1>1. Inv
  BY InvInit
<1>2. \A c \in Cases : run[c].pc = "new"
  BY DEF Init, Fresh
<1>3. OneAtATime /\ HistoryCurrent /\ GateHolds
  BY <1>2 DEF OneAtATime, Running, HistoryCurrent, GateHolds
<1>4. ContactsSpaced /\ WeeklyCapKept /\ QuietHoursKept
  <2>1. \A u \in Customers : DOMAIN contacts[u] = {}
    BY DEF Init
  <2>. QED
    BY <2>1 DEF ContactsSpaced, WeeklyCapKept, QuietHoursKept
<1>5. SpentKept
  BY DEF Init, SpentKept
<1>. QED
  BY <1>1, <1>3, <1>4, <1>5 DEF SeqInv

\* A step of a case that leaves one case at a time leaves the limits kept.
LEMMA SeqStepOfCase ==
  ASSUME SeqInv, OneAtATime', NEW c \in Cases, Step(c)
  PROVE  SeqInv'
<1>. USE DEF SeqInv
<1>1. Inv'
  BY StepKeeps
<1>2. HistoryCurrent' /\ GateHolds' /\ SpentKept'
  BY HistoryKept, GateKept, BudgetStep
<1>3. ContactsSpaced' /\ WeeklyCapKept' /\ QuietHoursKept'
  <2>1. CASE contacts' = contacts
    BY <2>1 DEF ContactsSpaced, WeeklyCapKept, QuietHoursKept
  <2>2. ASSUME NEW u \in Customers, NEW t \in Nat, Contacted(u, t)
        PROVE  ContactsSpaced' /\ WeeklyCapKept' /\ QuietHoursKept'
    BY <2>2, SpacedKept, WeeklyKept, QuietKept
  <2>. QED
    BY <2>1, <2>2, OnlyAllowedContacts
<1>. QED
  BY <1>1, <1>2, <1>3

LEMMA SeqStep ==
  ASSUME Threads = 1
  PROVE  SeqInv /\ [Next]_vars => SeqInv'
<1>. SUFFICES ASSUME SeqInv, [Next]_vars PROVE SeqInv'
  OBVIOUS
<1>. USE DEF SeqInv
<1>1. Inv'
  BY InvStep
<1>2. ASSUME NEW c \in Cases, Step(c)
      PROVE  SeqInv'
  BY <1>2, OneAtATimeKept, SeqStepOfCase
<1>3. CASE UNCHANGED <<info, run, contacts, budget>>
  <2>1. OneAtATime' /\ HistoryCurrent'
    BY <1>3 DEF OneAtATime, Running, HistoryCurrent
  <2>2. GateHolds'
    BY <1>3 DEF GateHolds, Gate, NextAction, Retries, Spent, On
  <2>3. ContactsSpaced' /\ WeeklyCapKept' /\ QuietHoursKept' /\ SpentKept'
    BY <1>3 DEF ContactsSpaced, WeeklyCapKept, QuietHoursKept, SpentKept
  <2>. QED
    BY <1>1, <2>1, <2>2, <2>3
<1>. QED
  BY <1>2, <1>3 DEF Next, Step, MarkOutage, ClearOutage, AllDone, vars, shared

\* While one case is handled at a time, the contacts of every customer stay
\* apart and under the weekly cap across all cases and redeliveries, none
\* falls in the quiet hours, and no day exceeds the action budget.
THEOREM SequentialLimits ==
  ASSUME Threads = 1
  PROVE  Spec => [](ContactsSpaced /\ WeeklyCapKept /\ QuietHoursKept /\ BudgetKept)
<1>1. Init => Counted(0)
  BY DEF Init, Counted
<1>2. SeqInv /\ Counted(0) /\ [Next]_vars => Counted(0)'
  <2>. SUFFICES ASSUME SeqInv, Counted(0), [Next]_vars PROVE Counted(0)'
    OBVIOUS
  <2>1. ASSUME NEW c \in Cases, Step(c)  PROVE Counted(0)'
    BY <2>1, CountedStep DEF SeqInv, Counted
  <2>2. CASE UNCHANGED <<budget, acted>>
    BY <2>2 DEF Counted, Spent, On
  <2>. QED
    BY <2>1, <2>2 DEF Next, Step, MarkOutage, ClearOutage, AllDone, vars, shared
<1>3. SeqInv /\ Counted(0) => ContactsSpaced /\ WeeklyCapKept /\ QuietHoursKept /\ BudgetKept
  <2>. SUFFICES ASSUME SeqInv, Counted(0), NEW d \in DOMAIN acted
                PROVE  acted[d] <= DailyBudget
    BY DEF SeqInv, BudgetKept
  <2>. QED
    BY CountedIsKept, PolicyAssumption DEF SeqInv
<1>. QED
  BY <1>1, <1>2, <1>3, SeqInit, SeqStep, PTL DEF Spec

(***************************************************************************)
(* An opt-out, from the answer to the store and from there to every case.  *)
(***************************************************************************)

\* Nothing is under way for a customer whose opt-out is stored.
StoredRespected ==
  \A c \in Cases : info[c].customer \in optOuts => run[c].pc \in {"new", "finish", "done"}

\* An opt-out that was heard is stored, or is the answer in hand.
HeardOrStored ==
  \A u \in declined :
    \/ u \in optOuts
    \/ \E c \in Cases : /\ info[c].customer = u
                        /\ run[c].pc = "respond" /\ run[c].last = "opt_out"

OptOutInv == Inv /\ OneAtATime /\ StoredRespected /\ HeardOrStored

\* Nobody acts for a customer who has opted out.
LEMMA NoActAfterDecline ==
  ASSUME OptOutInv, NEW c \in Cases, Execute(c)
  PROVE  info[c].customer \notin declined
<1>1. run[c].pc = "act" /\ c \in Running
  BY DEF Execute, Running
<1>2. info[c].customer \notin optOuts
  BY <1>1 DEF OptOutInv, StoredRespected
<1>3. ASSUME NEW d \in Cases, run[d].pc = "respond"  PROVE FALSE
  <2>1. d \in Running
    BY <1>3 DEF Running
  <2>. QED
    BY <1>1, <1>3, <2>1 DEF OptOutInv, OneAtATime
<1>. QED
  BY <1>2, <1>3 DEF OptOutInv, HeardOrStored

LEMMA StoredKept ==
  ASSUME Inv, OneAtATime, OneAtATime', StoredRespected, NEW c \in Cases, Step(c)
  PROVE  StoredRespected'
<1>1. /\ info' = info /\ Inv /\ OneAtATime /\ run[c] \in RunState
      /\ \A d \in Cases : d # c => run[d].pc \in {"new", "done"} /\ run'[d] = run[d]
  BY OthersRest, StepWrites, CaseFacts DEF CaseInv
<1>2. SUFFICES ASSUME info[c].customer \in optOuts'
               PROVE  run'[c].pc \in {"new", "finish", "done"}
  BY <1>1 DEF StoredRespected
<1>3. CASE HearBack(c)
  <2>1. run[c].last = "opt_out"
    BY <1>2, <1>3 DEF HearBack, StoredRespected
  <2>2. run' = [run EXCEPT ![c] = Closing(run[c], "abandoned")]
    BY <1>3, <2>1 DEF HearBack, AfterReply, Becomes
  <2>3. Closing(run[c], "abandoned").pc = "finish"
    BY <1>1 DEF Closing, RunState
  <2>. QED
    BY <1>1, <2>2, <2>3 DEF Inv, TypeOK
<1>4. CASE ~HearBack(c)
  <2>1. optOuts' = optOuts
    BY <1>4 DEF Step, Handle, Start, Plan, Prepare, Defer, Decide, ActFails, Execute,
                Exhaust, Finish, Crash, shared
  <2>2. run[c].pc \in {"new", "finish", "done"} /\ info[c].customer \in optOuts
    BY <1>2, <2>1 DEF StoredRespected
  <2>3. CASE Start(c)
    <3>1. run' = [run EXCEPT ![c] = Closing(run[c], "abandoned")]
      BY <2>2, <2>3 DEF Start, HasOptedOut, Becomes
    <3>2. Closing(run[c], "abandoned").pc = "finish"
      BY <1>1 DEF Closing, RunState
    <3>. QED
      BY <1>1, <3>1, <3>2 DEF Inv, TypeOK
  <2>4. CASE Finish(c) \/ Crash(c)
    BY <1>1, <2>4, NextPc
  <2>. QED
    BY <1>4, <2>2, <2>3, <2>4 DEF Step, Handle, Plan, Prepare, Defer, Decide, ActFails,
                                  Execute, Exhaust, StepsLeft
<1>. QED
  BY <1>3, <1>4

LEMMA HeardKept ==
  ASSUME Threads = 1, MaxCrashes = 0, OptOutInv, NEW c \in Cases, Step(c)
  PROVE  HeardOrStored'
<1>1. /\ info' = info /\ Inv /\ run[c] \in RunState /\ run' \in [Cases -> RunState]
      /\ \A d \in Cases : d # c => run'[d] = run[d]
  BY StepWrites, CaseFacts DEF OptOutInv, CaseInv
<1>2. ~Crash(c)
  BY DEF Crash, OptOutInv, Inv, TypeOK
<1>3. CASE Execute(c)
  <2>1. run[c].pc = "act" /\ optOuts' = optOuts
    BY <1>3 DEF Execute
  <2>2. run'[c].pc = "respond" /\ run'[c].last = Reply(c)
    BY <1>1, <1>3 DEF Execute, Becomes, Inv, TypeOK, RunState
  <2>3. \/ declined' = declined
        \/ declined' = declined \cup {info[c].customer} /\ run'[c].last = "opt_out"
    <3>1. declined' = IF Reply(c) = "opt_out" THEN declined \cup {info[c].customer}
                      ELSE declined
      BY <1>3 DEF Execute
    <3>. QED
      BY <2>2, <3>1
  <2>. QED
    BY <1>1, <2>1, <2>2, <2>3 DEF OptOutInv, HeardOrStored
<1>4. CASE HearBack(c)
  <2>1. /\ declined' = declined /\ optOuts \subseteq optOuts'
        /\ run[c].last = "opt_out" => info[c].customer \in optOuts'
    BY <1>4 DEF HearBack
  <2>2. ASSUME NEW u \in declined, u \notin optOuts'
        PROVE  \E d \in Cases : /\ info'[d].customer = u
                               /\ run'[d].pc = "respond" /\ run'[d].last = "opt_out"
    <3>1. PICK d \in Cases : /\ info[d].customer = u
                             /\ run[d].pc = "respond" /\ run[d].last = "opt_out"
      BY <2>1, <2>2 DEF OptOutInv, HeardOrStored
    <3>2. d # c
      BY <2>1, <2>2, <3>1
    <3>3. run'[d] = run[d] /\ info'[d] = info[d]
      BY <1>1, <3>2
    <3>. QED
      BY <3>1, <3>3
  <2>. QED
    BY <2>1, <2>2 DEF HeardOrStored
<1>5. CASE ~Execute(c) /\ ~HearBack(c)
  <2>1. run[c].pc # "respond" /\ declined' = declined /\ optOuts' = optOuts
    BY <1>2, <1>5 DEF Step, Handle, Start, Plan, Prepare, Defer, Decide, ActFails,
                      Exhaust, Finish, shared, StepsLeft
  <2>. QED
    BY <1>1, <2>1 DEF OptOutInv, HeardOrStored
<1>. QED
  BY <1>3, <1>4, <1>5

LEMMA OptOutStep ==
  ASSUME Threads = 1, MaxCrashes = 0
  PROVE  OptOutInv /\ [Next]_vars =>
           OptOutInv' /\ \A u \in declined : contacts'[u] = contacts[u]
<1>. SUFFICES ASSUME OptOutInv, [Next]_vars
              PROVE  OptOutInv' /\ \A u \in declined : contacts'[u] = contacts[u]
  OBVIOUS
<1>1. Inv'
  BY InvStep DEF OptOutInv
<1>2. ASSUME NEW c \in Cases, Step(c)
      PROVE  OptOutInv' /\ \A u \in declined : contacts'[u] = contacts[u]
  <2>1. OptOutInv'
    BY <1>1, <1>2, OneAtATimeKept, StoredKept, HeardKept DEF OptOutInv
  <2>2. CASE Execute(c)
    <3>1. \A u \in Customers : u # info[c].customer => contacts'[u] = contacts[u]
      BY <2>2 DEF Execute, OptOutInv, Inv, TypeOK
    <3>2. declined \subseteq Customers
      BY DEF OptOutInv, Inv, TypeOK
    <3>. QED
      BY <2>1, <2>2, <3>1, <3>2, NoActAfterDecline
  <2>3. CASE ~Execute(c)
    <3>1. contacts' = contacts
      BY <1>2, <2>3 DEF Step, Handle, Start, Plan, Prepare, Defer, Decide, ActFails, HearBack,
                        Exhaust, Finish, Crash, shared
    <3>. QED
      BY <2>1, <3>1
  <2>. QED
    BY <2>2, <2>3
<1>3. CASE UNCHANGED <<info, run, contacts, optOuts, declined>>
  BY <1>1, <1>3 DEF OptOutInv, OneAtATime, Running, StoredRespected, HeardOrStored
<1>. QED
  BY <1>2, <1>3 DEF Next, Step, MarkOutage, ClearOutage, AllDone, vars, shared

LEMMA OptOutInit == Init => OptOutInv
<1>. SUFFICES ASSUME Init PROVE OptOutInv
  OBVIOUS
<1>1. \A c \in Cases : run[c].pc = "new"
  BY DEF Init, Fresh
<1>2. optOuts = {} /\ declined = {}
  BY DEF Init
<1>. QED
  BY <1>1, <1>2, InvInit DEF OptOutInv, OneAtATime, Running, StoredRespected, HeardOrStored

\* While one case is handled at a time and no handler breaks down between the
\* answer and its consequences: whichever of a customer's cases hears OPT_OUT,
\* none of them, now or later, contacts the customer again.
THEOREM DeclineEndsContacts ==
  ASSUME Threads = 1, MaxCrashes = 0
  PROVE  Spec => DeclineHonoured
<1>1. OptOutInv /\ [Next]_vars => OptOutInv'
  BY OptOutStep
<1>2. OptOutInv /\ [Next]_vars => [\A u \in declined : contacts'[u] = contacts[u]]_vars
  BY OptOutStep
<1>. QED
  BY <1>1, <1>2, OptOutInit, PTL DEF Spec, DeclineHonoured

(***************************************************************************)
(* The service: the flow as the handler of the bus.                        *)
(***************************************************************************)
Labels == {"idle", "claim", "read", "append", "load", "advance", "work", "take", "entry",
           "handling", "ack"}

At == pc[Worker]

BusTyped ==
  /\ published \in Nat /\ cursor \in Nat
  /\ pending \in Seq(Nat) /\ acked \in Seq(Nat) /\ handled \in Seq(Nat)
  /\ pc \in [{Worker} -> Labels]
  /\ seen \in [{Worker} -> Nat] /\ index \in [{Worker} -> Nat]

\* Entries are acknowledged in their order, the pending ones are the next, and
\* the cursor has passed them all, or is about to.
InOrder ==
  /\ \A i \in 1..Len(acked) : acked[i] = i - 1
  /\ \A i \in 1..Len(pending) : pending[i] = Len(acked) + i - 1
  /\ Len(acked) + Len(pending) = IF At \in {"load", "advance"} THEN cursor + 1 ELSE cursor
  /\ Len(acked) + Len(pending) <= published

\* With one thread, the cursor is still what the thread has seen of it.
ReadsFresh ==
  /\ At \in {"read", "append"} => cursor < published
  /\ At \in {"append", "advance"} => seen[Worker] = cursor

\* The handler has the head of the pending list, and between its return and the
\* acknowledgement it is ahead by that one.
HandlesHead ==
  /\ At \in {"take", "entry", "handling", "ack"} => pending # <<>>
  /\ At \in {"entry", "handling", "ack"} => Entry = Len(acked)
  /\ \A i \in 1..Len(handled) : handled[i] = i - 1
  /\ Len(handled) = Len(acked) + IF At = "ack" THEN 1 ELSE 0

BusInv == BusTyped /\ InOrder /\ ReadsFresh /\ HandlesHead

LEMMA BusInit == Bus!Init => BusInv
BY DEF Bus!Init, BusInv, BusTyped, InOrder, ReadsFresh, HandlesHead, At, Labels

\* A step that leaves the lists alone.
LEMMA BusMoves ==
  ASSUME BusInv, NEW label \in Labels, Bus!Goto(Worker, label),
         UNCHANGED <<published, cursor, pending, seen, index, handled, acked>>,
         At \notin {"load", "advance", "ack"},
         label \in {"idle", "claim", "read", "work", "take", "handling"},
         label = "read" => cursor < published,
         label = "take" => pending # <<>>,
         label = "handling" => At = "entry"
  PROVE  BusInv'
<1>1. pc' \in [{Worker} -> Labels] /\ At' = label
  BY DEF BusInv, BusTyped, Bus!Goto, At
<1>. QED
  BY <1>1 DEF BusInv, BusTyped, InOrder, ReadsFresh, HandlesHead, Entry, At

\* The steps of consume() between two handlers.
Draw ==
  \/ Bus!Call(Worker) \/ Bus!Claiming(Worker) \/ Bus!Claimed(Worker) \/ Bus!Look(Worker)
  \/ Bus!Take(Worker) \/ Bus!GetEntry(Worker) \/ Bus!Ack(Worker)

\* The entry at hand is on the stream.
LEMMA EntryExists ==
  ASSUME BusInv, At = "entry"
  PROVE  index[Worker] < published
<1>1. /\ Len(acked) \in Nat /\ Len(pending) \in Nat /\ published \in Nat
      /\ pending # <<>> /\ index[Worker] = Len(acked)
      /\ Len(acked) + Len(pending) <= published
  BY DEF BusInv, BusTyped, InOrder, HandlesHead, Entry
<1>2. Len(pending) > 0
  BY <1>1 DEF BusInv, BusTyped
<1>. QED
  BY <1>1, <1>2

LEMMA FetchKeepsBus ==
  ASSUME BusInv, Draw
  PROVE  BusInv'
<1>. USE DEF Labels
<1>1. CASE Bus!Call(Worker) \/ Bus!Claim(Worker) \/ Bus!Claimed(Worker) \/ Bus!Look(Worker)
  BY <1>1, BusMoves DEF Bus!Call, Bus!Claim, Bus!Claimed, Bus!Look, At
<1>2. CASE Bus!AddPending(Worker)
  <2>1. /\ At = "append" /\ pc' = [pc EXCEPT ![Worker] = "load"]
        /\ cursor < published /\ pending' = Append(pending, cursor)
        /\ UNCHANGED <<published, cursor, seen, index, handled, acked>>
    BY <1>2 DEF Bus!AddPending, Bus!Goto, At, BusInv, ReadsFresh
  <2>2. pc' \in [{Worker} -> Labels] /\ At' = "load"
    BY <2>1 DEF BusInv, BusTyped, At
  <2>3. /\ pending' \in Seq(Nat) /\ Len(pending') = Len(pending) + 1
        /\ \A i \in 1..Len(pending) : pending'[i] = pending[i]
        /\ pending'[Len(pending) + 1] = cursor
    BY <2>1 DEF BusInv, BusTyped
  <2>4. Len(acked) + Len(pending) = cursor
    BY <2>1 DEF BusInv, InOrder
  <2>5. Len(acked) \in Nat /\ Len(pending) \in Nat /\ cursor \in Nat /\ published \in Nat
    BY DEF BusInv, BusTyped
  <2>6. \A i \in 1..Len(pending') : pending'[i] = Len(acked') + i - 1
    <3>. SUFFICES ASSUME NEW i \in 1..Len(pending')
                  PROVE  pending'[i] = Len(acked') + i - 1
      OBVIOUS
    <3>1. CASE i = Len(pending) + 1
      BY <2>1, <2>3, <2>4, <2>5, <3>1
    <3>2. CASE i # Len(pending) + 1
      <4>1. i \in 1..Len(pending)
        BY <2>3, <2>5, <3>2
      <4>. QED
        BY <2>1, <2>3, <4>1 DEF BusInv, InOrder
    <3>. QED
      BY <3>1, <3>2
  <2>7. Len(acked') + Len(pending') = cursor' + 1 /\ cursor' + 1 <= published'
    BY <2>1, <2>3, <2>4, <2>5
  <2>8. InOrder'
    BY <2>1, <2>2, <2>6, <2>7 DEF BusInv, InOrder
  <2>. QED
    BY <2>1, <2>2, <2>3, <2>8 DEF BusInv, BusTyped, ReadsFresh, HandlesHead
<1>3. CASE Bus!Advance(Worker)
  <2>1. /\ At = "advance" /\ pc' = [pc EXCEPT ![Worker] = "claim"]
        /\ cursor' = cursor + 1
        /\ UNCHANGED <<published, pending, seen, index, handled, acked>>
    BY <1>3 DEF Bus!Advance, Bus!Goto, At, BusInv, ReadsFresh
  <2>2. pc' \in [{Worker} -> Labels] /\ At' = "claim"
    BY <2>1 DEF BusInv, BusTyped, At
  <2>. QED
    BY <2>1, <2>2 DEF BusInv, BusTyped, InOrder, ReadsFresh, HandlesHead
<1>4. CASE Bus!Take(Worker)
  <2>1. pending # <<>> /\ At = "take"
    BY <1>4 DEF Bus!Take, BusInv, HandlesHead, At
  <2>2. /\ pc' = [pc EXCEPT ![Worker] = "entry"]
        /\ index' = [index EXCEPT ![Worker] = Head(pending)]
        /\ UNCHANGED <<published, cursor, pending, seen, handled, acked>>
    BY <1>4, <2>1 DEF Bus!Take, Bus!Goto, Bus!FirstPending
  <2>3. Head(pending) = Len(acked) /\ Len(acked) \in Nat
    <3>1. pending \in Seq(Nat) /\ Len(acked) \in Nat
      BY DEF BusInv, BusTyped
    <3>2. 1 \in 1..Len(pending) /\ Head(pending) = pending[1]
      BY <2>1, <3>1
    <3>3. pending[1] = Len(acked) + 1 - 1
      BY <3>2 DEF BusInv, InOrder
    <3>. QED
      BY <3>1, <3>2, <3>3
  <2>4. pc' \in [{Worker} -> Labels] /\ At' = "entry"
    BY <2>2 DEF BusInv, BusTyped, At
  <2>5. index' \in [{Worker} -> Nat] /\ Entry' = Len(acked)
    BY <2>2, <2>3 DEF BusInv, BusTyped, Entry
  <2>. QED
    BY <2>1, <2>2, <2>4, <2>5 DEF BusInv, BusTyped, InOrder, ReadsFresh, HandlesHead
<1>5. CASE Bus!Ack(Worker)
  <2>1. pending # <<>> /\ At = "ack"
    BY <1>5 DEF Bus!Ack, BusInv, HandlesHead, At
  <2>2. /\ pc' = [pc EXCEPT ![Worker] = "work"]
        /\ pending' = Tail(pending) /\ acked' = Append(acked, Head(pending))
        /\ UNCHANGED <<published, cursor, seen, index, handled>>
    BY <1>5, <2>1 DEF Bus!Ack, Bus!Goto
  <2>3. pc' \in [{Worker} -> Labels] /\ At' = "work"
    BY <2>2 DEF BusInv, BusTyped, At
  <2>4. /\ Len(acked) \in Nat /\ Len(pending) \in Nat /\ Len(pending) > 0
        /\ Head(pending) = Len(acked)
    <3>1. pending \in Seq(Nat) /\ Len(acked) \in Nat
      BY DEF BusInv, BusTyped
    <3>2. Len(pending) \in Nat /\ Len(pending) > 0 /\ Head(pending) = pending[1]
      BY <2>1, <3>1
    <3>3. pending[1] = Len(acked) + 1 - 1
      BY <3>2 DEF BusInv, InOrder
    <3>. QED
      BY <3>1, <3>2, <3>3
  <2>5. /\ acked' \in Seq(Nat) /\ Len(acked') = Len(acked) + 1
        /\ \A i \in 1..Len(acked') : acked'[i] = i - 1
    BY <2>2, <2>4 DEF BusInv, BusTyped, InOrder
  <2>6. /\ pending' \in Seq(Nat) /\ Len(pending') = Len(pending) - 1
        /\ \A i \in 1..Len(pending') : pending'[i] = pending[i + 1]
    BY <2>1, <2>2 DEF BusInv, BusTyped
  <2>7. \A i \in 1..Len(pending') : pending'[i] = Len(acked') + i - 1
    <3>. SUFFICES ASSUME NEW i \in 1..Len(pending')
                  PROVE  pending'[i] = Len(acked') + i - 1
      OBVIOUS
    <3>1. i + 1 \in 1..Len(pending)
      BY <2>4, <2>6
    <3>2. pending[i + 1] = Len(acked) + (i + 1) - 1
      BY <3>1 DEF BusInv, InOrder
    <3>. QED
      BY <2>4, <2>5, <2>6, <3>1, <3>2
  <2>8. Len(acked') + Len(pending') = Len(acked) + Len(pending)
    BY <2>4, <2>5, <2>6
  <2>9. InOrder'
    BY <2>1, <2>2, <2>3, <2>5, <2>7, <2>8 DEF BusInv, InOrder
  <2>10. HandlesHead'
    BY <2>1, <2>2, <2>3, <2>4, <2>5 DEF BusInv, BusTyped, HandlesHead
  <2>. QED
    BY <2>2, <2>3, <2>5, <2>6, <2>9, <2>10 DEF BusInv, BusTyped, ReadsFresh
<1>6. CASE Bus!ReadCursor(Worker)
  <2>1. /\ seen' = [seen EXCEPT ![Worker] = cursor]
        /\ UNCHANGED <<published, cursor, pending, index, handled, acked>>
        /\ \/ At = "read" /\ pc' = [pc EXCEPT ![Worker] = "append"]
           \/ At = "load" /\ pc' = [pc EXCEPT ![Worker] = "advance"]
    BY <1>6 DEF Bus!ReadCursor, Bus!Goto, At
  <2>2. /\ pc' \in [{Worker} -> Labels] /\ seen' \in [{Worker} -> Nat]
        /\ \/ At = "read" /\ At' = "append"
           \/ At = "load" /\ At' = "advance"
        /\ seen'[Worker] = cursor
    BY <2>1 DEF BusInv, BusTyped, At
  <2>. QED
    BY <2>1, <2>2 DEF BusInv, BusTyped, InOrder, ReadsFresh, HandlesHead
<1>7. CASE Bus!GetEntry(Worker)
  <2>1. At = "entry" /\ index[Worker] < published
    BY <1>7, EntryExists DEF Bus!GetEntry, At
  <2>2. /\ Bus!Goto(Worker, "handling")
        /\ UNCHANGED <<published, cursor, pending, seen, index, handled, acked>>
    BY <1>7, <2>1 DEF Bus!GetEntry
  <2>. QED
    BY <2>1, <2>2, BusMoves
<1>. QED
  BY <1>1, <1>2, <1>3, <1>4, <1>5, <1>6, <1>7 DEF Draw, Bus!Claiming

LEMMA ReportKeepsBus ==
  ASSUME BusInv, Bus!Return(Worker)
  PROVE  BusInv'
BY BusMoves DEF Bus!Return, At, Labels

LEMMA RaisingKeepsBus ==
  ASSUME BusInv, Bus!HandlerRaises(Worker)
  PROVE  BusInv'
BY BusMoves DEF Bus!HandlerRaises, At, Labels

LEMMA PublishKeepsBus ==
  ASSUME BusInv, Bus!Publish
  PROVE  BusInv'
BY DEF Bus!Publish, BusInv, BusTyped, InOrder, ReadsFresh, HandlesHead, At, Entry

LEMMA ReturningKeepsBus ==
  ASSUME BusInv, Bus!HandlerReturns(Worker)
  PROVE  BusInv'
<1>1. /\ At = "handling" /\ pc' = [pc EXCEPT ![Worker] = "ack"]
      /\ handled' = Append(handled, Entry)
      /\ UNCHANGED <<published, cursor, pending, seen, index, acked>>
  BY DEF Bus!HandlerReturns, Bus!Goto, At, Entry
<1>2. pc' \in [{Worker} -> Labels] /\ At' = "ack"
  BY <1>1 DEF BusInv, BusTyped, At, Labels
<1>3. Entry' = Len(acked) /\ Entry = Len(acked) /\ Len(handled) = Len(acked)
      /\ Len(acked) \in Nat
  BY <1>1 DEF BusInv, BusTyped, HandlesHead, Entry
<1>4. /\ handled' \in Seq(Nat) /\ Len(handled') = Len(acked) + 1
      /\ \A i \in 1..Len(handled') : handled'[i] = i - 1
  BY <1>1, <1>3 DEF BusInv, BusTyped, HandlesHead
<1>. QED
  BY <1>1, <1>2, <1>3, <1>4 DEF BusInv, BusTyped, InOrder, ReadsFresh, HandlesHead

(***************************************************************************)
(* The cases behind the entries.                                           *)
(***************************************************************************)
\* The gateway has taken each case in once.
StreamTyped ==
  /\ stream \in Seq(Cases) /\ Len(stream) = published
  /\ \A i, j \in 1..Len(stream) : stream[i] = stream[j] => i = j

\* Only the case in hand is under way.
InHandOnly == \A c \in Running : InHand(c)

\* A closed case has its OUTCOME as the last record.
ClosedOnRecord ==
  \A c \in Cases : run[c].pc = "done" =>
    /\ trail[c] # <<>>
    /\ trail[c][Len(trail[c])] = Record("OUTCOME", 0, run[c].state)

\* What a handler has returned from is closed.
HandledDone == \A i \in 1..Len(handled) : run[stream[i]].pc = "done"

\* The results, those of earlier calls first: entries that were handled, each
\* once and in order, and all of them unless a handler has raised.
ResultsInv ==
  /\ batch \in Seq(Nat) /\ results \in Seq(Nat)
  /\ \A i \in 1..Len(results) : results[i] < Len(acked)
  /\ \A i \in 1..Len(batch) : batch[i] < Len(handled)
  /\ \A i, j \in 1..Len(results) : i < j => results[i] < results[j]
  /\ \A i, j \in 1..Len(batch) : i < j => batch[i] < batch[j]
  /\ \A i \in 1..Len(results), j \in 1..Len(batch) : results[i] < batch[j]
  /\ At = "idle" => batch = <<>>
  /\ crashes = 0 => Len(results) + Len(batch) = Len(handled)

CasesInv == StreamTyped /\ InHandOnly /\ ClosedOnRecord /\ HandledDone

\* Every case id has the one handler.
OwnIds == \A c \in Cases : info[c].id = c

ServiceInv == Inv /\ BusInv /\ CasesInv /\ ResultsInv /\ OwnIds /\ restarts \in Nat

LEMMA ServiceInvInit == ServiceInit => ServiceInv
<1>. SUFFICES ASSUME ServiceInit PROVE ServiceInv
  OBVIOUS
<1>1. Inv /\ BusInv
  BY InvInit, BusInit DEF ServiceInit
<1>2. \A c \in Cases : run[c].pc = "new"
  BY DEF ServiceInit, Init, Fresh
<1>3. /\ stream = <<>> /\ batch = <<>> /\ results = <<>> /\ handled = <<>>
      /\ published = 0 /\ restarts = 0
  BY DEF ServiceInit, Bus!Init
<1>4. CasesInv
  BY <1>2, <1>3 DEF CasesInv, StreamTyped, InHandOnly, Running, ClosedOnRecord, HandledDone
<1>5. ResultsInv
  BY <1>3 DEF ResultsInv
<1>. QED
  BY <1>1, <1>3, <1>4, <1>5 DEF ServiceInv, ServiceInit, OwnIds

\* The facts about the lengths that the steps rest on.
LEMMA Lengths ==
  ASSUME ServiceInv
  PROVE  /\ Len(stream) \in Nat /\ Len(acked) \in Nat /\ Len(handled) \in Nat
         /\ Len(acked) <= Len(handled) /\ Len(handled) <= Len(stream)
         /\ At = "handling" => /\ Len(handled) = Len(acked) /\ Entry = Len(acked)
                               /\ Entry + 1 \in 1..Len(stream)
<1>1. /\ Len(acked) \in Nat /\ Len(handled) \in Nat /\ Len(pending) \in Nat
      /\ Len(stream) \in Nat /\ Len(stream) = published
      /\ Len(acked) + Len(pending) <= published
      /\ pending # <<>> => Len(pending) >= 1
  BY DEF ServiceInv, BusInv, BusTyped, InOrder, CasesInv, StreamTyped
<1>2. /\ At \in {"take", "handling", "ack"} => pending # <<>>
      /\ At \in {"handling", "ack"} => Entry = Len(acked)
      /\ Len(handled) = Len(acked) + IF At = "ack" THEN 1 ELSE 0
  BY DEF ServiceInv, BusInv, HandlesHead
<1>. QED
  BY <1>1, <1>2

LEMMA StepsAudit ==
  ASSUME Inv, NEW c \in Cases, info[c].id = c, Step(c)
  PROVE  \A d \in Cases : d # c => trail'[d] = trail[d]
BY DEF Inv, TypeOK, Step, Handle, Start, Plan, Prepare, Defer, Decide, ActFails, Execute,
       HearBack, Exhaust, Finish, Crash, Audits

\* Only the last step of run_case closes a case, and it writes the OUTCOME.
LEMMA ClosedKept ==
  ASSUME Inv, ClosedOnRecord, NEW c \in Cases, info[c].id = c, Step(c)
  PROVE  ClosedOnRecord'
<1>1. /\ \A d \in Cases : d # c => run'[d] = run[d] /\ trail'[d] = trail[d]
      /\ run[c] \in RunState /\ run \in [Cases -> RunState]
      /\ trail \in [Cases -> Seq(AuditRecord)]
  BY StepWrites, StepsAudit DEF Inv, TypeOK
<1>2. ASSUME run'[c].pc = "done"
      PROVE  /\ trail'[c] # <<>>
             /\ trail'[c][Len(trail'[c])] = Record("OUTCOME", 0, run'[c].state)
  <2>1. Finish(c)
    BY <1>2, NextPc DEF Step, Handle
  <2>2. /\ run'[c].state = run[c].verdict
        /\ trail'[c] = trail[c] \o <<Record("OUTCOME", 0, run[c].verdict)>>
    BY <1>1, <2>1 DEF Finish, Becomes, Audits, RunState
  <2>. QED
    BY <1>1, <2>2
<1>. QED
  BY <1>1, <1>2 DEF ClosedOnRecord

\* The case in hand takes a step, or breaks down.
LEMMA StepKeepsCases ==
  ASSUME ServiceInv, NEW c \in Cases, InHand(c), Step(c),
         UNCHANGED <<stream, published, handled, index>>,
         pc' = pc \/ run'[c].pc = "new"
  PROVE  CasesInv'
<1>1. /\ \A d \in Cases : d # c => run'[d] = run[d]
      /\ run[c].pc # "done"
  BY StepWrites DEF ServiceInv, Start, Running
<1>2. StreamTyped'
  BY DEF ServiceInv, CasesInv, StreamTyped
<1>3. InHandOnly'
  <2>. SUFFICES ASSUME NEW d \in Cases, run'[d].pc \notin {"new", "done"}
                PROVE  InHand(d)'
    BY DEF InHandOnly, Running
  <2>1. CASE d = c
    BY <2>1 DEF InHand, Entry
  <2>2. CASE d # c
    <3>1. InHand(d)
      BY <1>1, <2>2 DEF ServiceInv, CasesInv, InHandOnly, Running
    <3>. QED
      BY <2>2, <3>1 DEF InHand
  <2>. QED
    BY <2>1, <2>2
<1>4. ClosedOnRecord'
  BY ClosedKept DEF ServiceInv, CasesInv, OwnIds
<1>5. HandledDone'
  <2>. SUFFICES ASSUME NEW i \in 1..Len(handled)
                PROVE  run'[stream[i]].pc = "done"
    BY DEF HandledDone
  <2>1. stream[i] \in Cases /\ run[stream[i]].pc = "done"
    BY Lengths DEF ServiceInv, CasesInv, StreamTyped, HandledDone
  <2>. QED
    BY <1>1, <2>1
<1>. QED
  BY <1>2, <1>3, <1>4, <1>5 DEF CasesInv

\* A case is taken in.
LEMMA TakeInKeeps ==
  ASSUME ServiceInv, NEW c \in Cases, TakeIn(c)
  PROVE  CasesInv' /\ ResultsInv'
<1>1. /\ stream' = Append(stream, c) /\ published' = published + 1
      /\ UNCHANGED <<info, run, trail, crashes, pc, index, handled, acked, batch, results>>
  BY DEF TakeIn, Bus!Publish, vars
<1>2. /\ \A i \in 1..Len(stream) : stream'[i] = stream[i] /\ stream[i] # c
      /\ stream'[Len(stream) + 1] = c /\ Len(stream') = Len(stream) + 1
      /\ stream' \in Seq(Cases) /\ Len(stream) \in Nat
  BY <1>1 DEF TakeIn, OnStream, ServiceInv, CasesInv, StreamTyped
<1>3. StreamTyped'
  <2>1. \A i, j \in 1..Len(stream') : stream'[i] = stream'[j] => i = j
    <3>. SUFFICES ASSUME NEW i \in 1..(Len(stream) + 1), NEW j \in 1..(Len(stream) + 1),
                         stream'[i] = stream'[j]
                  PROVE  i = j
      BY <1>2
    <3>1. /\ i # Len(stream) + 1 => i \in 1..Len(stream)
          /\ j # Len(stream) + 1 => j \in 1..Len(stream)
      BY <1>2
    <3>. QED
      BY <1>2, <3>1 DEF ServiceInv, CasesInv, StreamTyped
  <2>2. Len(stream') = published'
    BY <1>1, <1>2 DEF ServiceInv, CasesInv, StreamTyped
  <2>. QED
    BY <1>2, <2>1, <2>2 DEF StreamTyped
<1>4. InHandOnly'
  <2>. SUFFICES ASSUME NEW d \in Cases, run[d].pc \notin {"new", "done"}
                PROVE  InHand(d)'
    BY <1>1 DEF InHandOnly, Running
  <2>1. InHand(d)
    BY DEF ServiceInv, CasesInv, InHandOnly, Running
  <2>2. Entry + 1 \in 1..Len(stream)
    BY <2>1, Lengths DEF InHand, At
  <2>3. Entry' = Entry
    BY <1>1 DEF Entry
  <2>. QED
    BY <1>1, <1>2, <2>1, <2>2, <2>3 DEF InHand
<1>5. ClosedOnRecord'
  BY <1>1 DEF ServiceInv, CasesInv, ClosedOnRecord
<1>6. HandledDone'
  BY <1>1, <1>2, Lengths DEF ServiceInv, CasesInv, HandledDone
<1>7. ResultsInv'
  BY <1>1 DEF ServiceInv, ResultsInv, At
<1>. QED
  BY <1>3, <1>4, <1>5, <1>6, <1>7 DEF CasesInv

\* While no handler runs, no case is under way.
LEMMA NoneInHand ==
  ASSUME ServiceInv, At # "handling"
  PROVE  Running = {}
BY DEF ServiceInv, CasesInv, InHandOnly, InHand, At

\* consume() goes on, with no case in hand before or after, or with the one it
\* has just taken.
LEMMA IdleKeepsCases ==
  ASSUME ServiceInv, At # "handling", handled' = handled,
         UNCHANGED <<info, run, trail, stream, published>>
  PROVE  CasesInv'
<1>1. Running' = {}
  BY NoneInHand DEF Running
<1>. QED
  BY <1>1 DEF ServiceInv, CasesInv, StreamTyped, InHandOnly, ClosedOnRecord, HandledDone

\* Entries leave the pending list only, and the call goes on.
LEMMA ResultsStay ==
  ASSUME ServiceInv, UNCHANGED <<batch, results, handled, crashes>>,
         Len(acked') \in Nat, Len(acked') >= Len(acked),
         At' = "idle" => batch = <<>>
  PROVE  ResultsInv'
<1>1. \A i \in 1..Len(results) : results[i] \in Nat
  BY DEF ServiceInv, ResultsInv
<1>2. Len(acked) \in Nat
  BY Lengths
<1>3. \A i \in 1..Len(results) : results[i] < Len(acked')
  BY <1>1, <1>2 DEF ServiceInv, ResultsInv
<1>. QED
  BY <1>3 DEF ServiceInv, ResultsInv

LEMMA FetchKeeps ==
  ASSUME ServiceInv, Fetch
  PROVE  CasesInv' /\ ResultsInv'
<1>1. /\ UNCHANGED <<info, run, trail, crashes, stream, batch, results>>
      /\ At # "handling" /\ handled' = handled /\ published' = published
  BY DEF Fetch, vars, At, Bus!Call, Bus!Claiming, Bus!Claim, Bus!ReadCursor, Bus!AddPending,
         Bus!Advance, Bus!Claimed, Bus!Look, Bus!Take, Bus!GetEntry, Bus!Ack
<1>2. Len(acked') \in Nat /\ Len(acked') >= Len(acked)
  <2>1. acked \in Seq(Nat)
    BY DEF ServiceInv, BusInv, BusTyped
  <2>2. acked' = acked \/ \E e \in Nat : acked' = Append(acked, e)
    <3>1. CASE Bus!Ack(Worker)
      <4>1. pending # <<>> => Head(pending) \in Nat
        BY DEF ServiceInv, BusInv, BusTyped
      <4>. QED
        BY <3>1, <4>1 DEF Bus!Ack
    <3>. QED
      BY <3>1 DEF Fetch, Bus!Call, Bus!Claiming, Bus!Claim, Bus!ReadCursor, Bus!AddPending,
                  Bus!Advance, Bus!Claimed, Bus!Look, Bus!Take, Bus!GetEntry
  <2>. QED
    BY <2>1, <2>2
<1>3. At' # "idle"
  <2>1. pc \in [{Worker} -> Labels]
    BY DEF ServiceInv, BusInv, BusTyped
  <2>2. \E label \in Labels \ {"idle"} : Bus!Goto(Worker, label)
    <3>1. CASE Bus!GetEntry(Worker)
      BY <3>1, EntryExists DEF ServiceInv, At, Bus!GetEntry, Labels
    <3>2. CASE Bus!Take(Worker) \/ Bus!Ack(Worker)
      BY <3>2 DEF ServiceInv, BusInv, HandlesHead, At, Bus!Take, Bus!Ack, Labels
    <3>. QED
      BY <3>1, <3>2 DEF Fetch, Bus!Call, Bus!Claiming, Bus!Claim, Bus!ReadCursor,
                        Bus!AddPending, Bus!Advance, Bus!Claimed, Bus!Look, Labels
  <2>. QED
    BY <2>1, <2>2 DEF Bus!Goto, At
<1>. QED
  BY <1>1, <1>2, <1>3, IdleKeepsCases, ResultsStay

\* The call returns: its results follow those of the earlier ones.
LEMMA ReportKeeps ==
  ASSUME ServiceInv, Report
  PROVE  CasesInv' /\ ResultsInv'
<1>1. /\ UNCHANGED <<info, run, trail, crashes, stream, published, handled, acked>>
      /\ At = "work" /\ results' = results \o batch /\ batch' = <<>>
  BY DEF Report, vars, At, Bus!Return
<1>2. CasesInv'
  BY <1>1, IdleKeepsCases
<1>3. /\ batch \in Seq(Nat) /\ results \in Seq(Nat)
      /\ Len(handled) = Len(acked) /\ Len(acked) \in Nat
  BY <1>1, Lengths DEF ServiceInv, ResultsInv, BusInv, HandlesHead
<1>4. /\ results' \in Seq(Nat) /\ Len(results') = Len(results) + Len(batch)
      /\ \A i \in 1..Len(results) : results'[i] = results[i]
      /\ \A i \in 1..Len(results') : i \notin 1..Len(results) =>
           i - Len(results) \in 1..Len(batch) /\ results'[i] = batch[i - Len(results)]
  BY <1>1, <1>3
<1>5. \A i \in 1..Len(results') : results'[i] < Len(acked)
  BY <1>3, <1>4 DEF ServiceInv, ResultsInv
<1>6. \A i, j \in 1..Len(results') : i < j => results'[i] < results'[j]
  <2>. SUFFICES ASSUME NEW i \in 1..Len(results'), NEW j \in 1..Len(results'), i < j
                PROVE  results'[i] < results'[j]
    OBVIOUS
  <2>1. CASE j \in 1..Len(results)
    <3>1. i \in 1..Len(results)
      BY <2>1
    <3>. QED
      BY <1>4, <2>1, <3>1 DEF ServiceInv, ResultsInv
  <2>2. CASE i \in 1..Len(results) /\ j \notin 1..Len(results)
    BY <1>4, <2>2 DEF ServiceInv, ResultsInv
  <2>3. CASE i \notin 1..Len(results) /\ j \notin 1..Len(results)
    <3>1. /\ i - Len(results) \in 1..Len(batch) /\ j - Len(results) \in 1..Len(batch)
          /\ i - Len(results) < j - Len(results)
      BY <1>3, <1>4, <2>3
    <3>2. batch[i - Len(results)] < batch[j - Len(results)]
      BY <3>1 DEF ServiceInv, ResultsInv
    <3>. QED
      BY <1>4, <2>3, <3>2
  <2>. QED
    BY <2>1, <2>2, <2>3
<1>7. ResultsInv'
  <2>1. batch' \in Seq(Nat) /\ Len(batch') = 0
    BY <1>1
  <2>2. crashes' = 0 => Len(results') + Len(batch') = Len(handled')
    BY <1>1, <1>3, <1>4, <2>1 DEF ServiceInv, ResultsInv
  <2>. QED
    BY <1>1, <1>4, <1>5, <1>6, <2>1, <2>2 DEF ResultsInv
<1>. QED
  BY <1>2, <1>7

\* The handler returns: its entry is the next one, and its case is closed.
LEMMA RunReturnsKeeps ==
  ASSUME ServiceInv, NEW c \in Cases, RunReturns(c)
  PROVE  CasesInv' /\ ResultsInv'
<1>1. /\ UNCHANGED <<info, run, trail, crashes, stream, published, acked, results>>
      /\ At = "handling" /\ stream[Entry + 1] = c /\ run[c].pc = "done"
      /\ handled' = Append(handled, Entry) /\ batch' = Append(batch, Entry)
  BY DEF RunReturns, InHand, vars, At, Entry, Bus!HandlerReturns
<1>2. /\ Entry = Len(handled) /\ Entry = Len(acked) /\ Entry \in Nat
      /\ handled \in Seq(Nat) /\ batch \in Seq(Nat) /\ results \in Seq(Nat)
      /\ pc \in [{Worker} -> Labels]
  BY <1>1, Lengths DEF ServiceInv, BusInv, BusTyped, ResultsInv
<1>3. /\ Len(handled') = Len(handled) + 1 /\ Len(batch) \in Nat
      /\ batch' \in Seq(Nat) /\ Len(batch') = Len(batch) + 1
      /\ \A i \in 1..Len(batch) : batch'[i] = batch[i]
      /\ batch'[Len(batch) + 1] = Entry
  <2>1. ASSUME NEW e \in Nat, NEW s \in Seq(Nat)
        PROVE  /\ Append(s, e) \in Seq(Nat) /\ Len(Append(s, e)) = Len(s) + 1
               /\ Len(s) \in Nat
               /\ \A i \in 1..Len(s) : Append(s, e)[i] = s[i]
               /\ Append(s, e)[Len(s) + 1] = e
    OBVIOUS
  <2>2. /\ handled' = Append(handled, Entry) /\ batch' = Append(batch, Entry)
        /\ Entry \in Nat /\ handled \in Seq(Nat) /\ batch \in Seq(Nat)
    BY <1>1, <1>2
  <2>3. Len(handled') = Len(handled) + 1
    BY <2>1, <2>2, Zenon
  <2>4. /\ batch' \in Seq(Nat) /\ Len(batch') = Len(batch) + 1
        /\ Len(batch) \in Nat /\ batch'[Len(batch) + 1] = Entry
    BY <2>1, <2>2, Zenon
  <2>5. \A i \in 1..Len(batch) : batch'[i] = batch[i]
    BY <2>1, <2>2, Zenon
  <2>. QED
    BY <2>3, <2>4, <2>5, Zenon
<1>4. Running' = {}
  <2>. SUFFICES ASSUME NEW d \in Running PROVE FALSE
    BY <1>1 DEF Running
  <2>1. d = c
    BY <1>1 DEF ServiceInv, CasesInv, InHandOnly, InHand
  <2>. QED
    BY <1>1, <2>1 DEF Running
<1>5. HandledDone'
  <2>. SUFFICES ASSUME NEW i \in 1..(Len(handled) + 1)
                PROVE  run[stream[i]].pc = "done"
    BY <1>1, <1>3 DEF HandledDone
  <2>1. CASE i = Len(handled) + 1
    BY <1>1, <1>2, <2>1
  <2>2. CASE i # Len(handled) + 1
    <3>1. i \in 1..Len(handled)
      BY <1>2, <2>2
    <3>. QED
      BY <3>1 DEF ServiceInv, CasesInv, HandledDone
  <2>. QED
    BY <2>1, <2>2
<1>6. CasesInv'
  BY <1>1, <1>4, <1>5
  DEF ServiceInv, CasesInv, StreamTyped, InHandOnly, ClosedOnRecord
<1>7. \A i \in 1..Len(batch) : batch[i] < Entry
  BY <1>2 DEF ServiceInv, ResultsInv
<1>8. \A i \in 1..Len(results) : results[i] < Entry
  BY <1>2 DEF ServiceInv, ResultsInv
<1>9. \A i \in 1..Len(batch') : batch'[i] < Len(handled')
  <2>. SUFFICES ASSUME NEW i \in 1..(Len(batch) + 1)
                PROVE  batch'[i] < Len(handled) + 1
    BY <1>3
  <2>1. CASE i = Len(batch) + 1
    BY <1>2, <1>3, <2>1
  <2>2. CASE i # Len(batch) + 1
    <3>1. i \in 1..Len(batch) /\ batch[i] \in Nat
      BY <1>2, <1>3, <2>2
    <3>. QED
      BY <1>2, <1>3, <1>7, <3>1
  <2>. QED
    BY <2>1, <2>2
<1>10. \A i, j \in 1..Len(batch') : i < j => batch'[i] < batch'[j]
  <2>. SUFFICES ASSUME NEW i \in 1..Len(batch'), NEW j \in 1..Len(batch'), i < j
                PROVE  batch'[i] < batch'[j]
    OBVIOUS
  <2>1. i \in 1..Len(batch) /\ (j \in 1..Len(batch) \/ j = Len(batch) + 1)
    BY <1>3
  <2>. QED
    BY <1>3, <1>7, <2>1 DEF ServiceInv, ResultsInv
<1>11. \A i \in 1..Len(results), j \in 1..Len(batch') : results[i] < batch'[j]
  <2>. SUFFICES ASSUME NEW i \in 1..Len(results), NEW j \in 1..Len(batch')
                PROVE  results[i] < batch'[j]
    OBVIOUS
  <2>1. j \in 1..Len(batch) \/ j = Len(batch) + 1
    BY <1>2, <1>3
  <2>. QED
    BY <1>3, <1>8, <2>1 DEF ServiceInv, ResultsInv
<1>12. At' = "ack"
  BY <1>2 DEF RunReturns, Bus!HandlerReturns, Bus!Goto, At
<1>13. crashes' = 0 => Len(results') + Len(batch') = Len(handled')
  <2>1. crashes = 0 => Len(results) + Len(batch) = Len(handled)
    BY DEF ServiceInv, ResultsInv
  <2>2. Len(results) \in Nat /\ Len(batch) \in Nat /\ crashes' = crashes
        /\ results' = results
    BY <1>1, <1>2
  <2>. QED
    BY <1>3, <2>1, <2>2
<1>14. ResultsInv'
  BY <1>1, <1>3, <1>9, <1>10, <1>11, <1>12, <1>13 DEF ServiceInv, ResultsInv
<1>. QED
  BY <1>6, <1>14

\* The case in hand goes on: the bus and the results are left alone.
LEMMA WorkKeeps ==
  ASSUME ServiceInv, NEW c \in Cases, Work(c)
  PROVE  ServiceInv'
<1>1. /\ InHand(c) /\ Step(c) /\ pc' = pc
      /\ UNCHANGED <<stream, published, cursor, pending, seen, index, handled, acked,
                     batch, results, restarts>>
  BY DEF Work, Step, busVars
<1>2. crashes' = crashes
  BY DEF Work, Handle, Start, Plan, Prepare, Defer, Decide, ActFails, Execute, HearBack,
         Exhaust, Finish
<1>3. Inv' /\ CasesInv'
  BY <1>1, StepKeeps, StepKeepsCases DEF ServiceInv
<1>4. BusInv'
  BY <1>1 DEF ServiceInv, BusInv, BusTyped, InOrder, ReadsFresh, HandlesHead, At, Entry
<1>5. ResultsInv'
  BY <1>1, <1>2 DEF ServiceInv, ResultsInv, At
<1>6. OwnIds'
  BY <1>1, StepWrites DEF ServiceInv, OwnIds
<1>. QED
  BY <1>1, <1>3, <1>4, <1>5, <1>6 DEF ServiceInv

\* The handler raises: the case starts anew, the entry stays pending.
LEMMA RunRaisesKeeps ==
  ASSUME ServiceInv, NEW c \in Cases, RunRaises(c)
  PROVE  ServiceInv'
<1>1. /\ InHand(c) /\ Crash(c) /\ Step(c) /\ batch' = <<>>
      /\ UNCHANGED <<stream, published, index, handled, acked, results, restarts>>
  BY DEF RunRaises, Step, Bus!HandlerRaises
<1>2. run'[c].pc = "new" /\ crashes' = crashes + 1 /\ crashes \in Nat
  BY <1>1, NextPc DEF Crash, ServiceInv, Inv, TypeOK
<1>3. Inv' /\ CasesInv'
  BY <1>1, <1>2, StepKeeps, StepKeepsCases DEF ServiceInv
<1>4. BusInv'
  BY RaisingKeepsBus DEF ServiceInv, RunRaises
<1>5. ResultsInv'
  <2>1. batch' \in Seq(Nat) /\ Len(batch') = 0 /\ crashes' # 0
    BY <1>1, <1>2
  <2>. QED
    BY <1>1, <2>1 DEF ServiceInv, ResultsInv
<1>6. OwnIds'
  BY <1>1, StepWrites DEF ServiceInv, OwnIds
<1>. QED
  BY <1>1, <1>3, <1>4, <1>5, <1>6 DEF ServiceInv

\* A new process: the stores are empty, and what the audit trail holds stays.
LEMMA RestartKeeps ==
  ASSUME ServiceInv, Restart
  PROVE  ServiceInv'
<1>1. \A c \in Cases : /\ run'[c] = Fresh(info[c]) /\ run'[c].pc = "new"
                       /\ CaseInv(run'[c])
  BY FreshCase, CaseFacts DEF Restart, Fresh, ServiceInv
<1>2. Inv'
  <2>1. TypeOK'
    BY <1>1 DEF ServiceInv, Inv, TypeOK, Restart, CaseInv
  <2>. QED
    BY <1>1, <2>1 DEF Inv, StagesKept, CaseInv
<1>3. /\ pc' = [k \in {Worker} |-> "idle"]
      /\ seen' = [k \in {Worker} |-> 0] /\ index' = [k \in {Worker} |-> 0]
      /\ published' = 0 /\ cursor' = 0 /\ pending' = <<>> /\ handled' = <<>>
      /\ acked' = <<>> /\ stream' = <<>> /\ batch' = <<>> /\ results' = <<>>
      /\ restarts' = restarts + 1
  BY DEF Restart
<1>4. BusInv'
  BY <1>3 DEF BusInv, BusTyped, InOrder, ReadsFresh, HandlesHead, At, Labels
<1>5. CasesInv'
  BY <1>1, <1>3 DEF CasesInv, StreamTyped, InHandOnly, Running, ClosedOnRecord, HandledDone
<1>6. ResultsInv'
  BY <1>3 DEF ResultsInv
<1>7. OwnIds'
  BY DEF Restart, ServiceInv, OwnIds
<1>. QED
  BY <1>2, <1>3, <1>4, <1>5, <1>6, <1>7 DEF ServiceInv

LEMMA ServiceInvStep == ServiceInv /\ [ServiceNext]_svars => ServiceInv'
<1>. SUFFICES ASSUME ServiceInv, [ServiceNext]_svars PROVE ServiceInv'
  OBVIOUS
<1>1. ASSUME UNCHANGED vars  PROVE Inv' /\ OwnIds'
  BY <1>1 DEF ServiceInv, Inv, TypeOK, StagesKept, OwnIds, vars, shared
<1>2. ASSUME NEW c \in Cases, TakeIn(c)  PROVE ServiceInv'
  BY <1>1, <1>2, TakeInKeeps, PublishKeepsBus DEF ServiceInv, TakeIn
<1>3. CASE Fetch
  BY <1>1, <1>3, FetchKeeps, FetchKeepsBus DEF ServiceInv, Fetch, Draw
<1>4. CASE Report
  BY <1>1, <1>4, ReportKeeps, ReportKeepsBus DEF ServiceInv, Report
<1>5. ASSUME NEW c \in Cases, RunReturns(c)  PROVE ServiceInv'
  BY <1>1, <1>5, RunReturnsKeeps, ReturningKeepsBus DEF ServiceInv, RunReturns
<1>6. CASE UNCHANGED svars
  BY <1>1, <1>6
  DEF svars, vars, shared, busVars, ServiceInv, BusInv, BusTyped, InOrder, ReadsFresh,
      HandlesHead, At, Entry, CasesInv, StreamTyped, InHandOnly, InHand, Running, ClosedOnRecord,
      HandledDone, ResultsInv
<1>. QED
  BY <1>2, <1>3, <1>4, <1>5, <1>6, WorkKeeps, RunRaisesKeeps, RestartKeeps
  DEF ServiceNext, Process

(***************************************************************************)
(* What the service promises.                                              *)
(***************************************************************************)
\* What was acknowledged, then what is pending, is the stream as far as claimed.
LEMMA BusInOrder ==
  ASSUME BusInv
  PROVE  StreamInOrder
<1>. DEFINE n == Len(acked) + Len(pending)
<1>1. /\ acked \in Seq(Nat) /\ pending \in Seq(Nat) /\ handled \in Seq(Nat)
      /\ n \in {cursor, cursor + 1}
  BY DEF BusInv, BusTyped, InOrder
<1>2. acked \o pending = [i \in 1..n |-> i - 1]
  <2>1. /\ acked \o pending \in Seq(Nat) /\ Len(acked \o pending) = n
        /\ DOMAIN (acked \o pending) = 1..n
    BY <1>1
  <2>2. \A i \in 1..n : (acked \o pending)[i] = i - 1
    <3>. SUFFICES ASSUME NEW i \in 1..n PROVE (acked \o pending)[i] = i - 1
      OBVIOUS
    <3>1. CASE i \in 1..Len(acked)
      BY <1>1, <3>1 DEF BusInv, InOrder
    <3>2. CASE i \notin 1..Len(acked)
      <4>1. /\ i - Len(acked) \in 1..Len(pending)
            /\ (acked \o pending)[i] = pending[i - Len(acked)]
            /\ Len(acked) \in Nat
        BY <1>1, <3>2
      <4>2. pending[i - Len(acked)] = Len(acked) + (i - Len(acked)) - 1
        BY <4>1 DEF BusInv, InOrder
      <4>. QED
        BY <4>1, <4>2
    <3>. QED
      BY <3>1, <3>2
  <2>3. ASSUME NEW s \in Seq(Nat), NEW m, Len(s) = m, \A i \in 1..m : s[i] = i - 1
        PROVE  s = [i \in 1..m |-> i - 1]
    BY <2>3
  <2>. HIDE DEF n
  <2>. QED
    BY <2>1, <2>2, <2>3, Zenon
<1>3. handled = [i \in 1..Len(handled) |-> i - 1]
  BY <1>1 DEF BusInv, HandlesHead
<1>. HIDE DEF n
<1>. QED
  BY <1>1, <1>2, <1>3 DEF StreamInOrder, Bus!NothingSkipped, Bus!HandledInOrderOnce

\* However often handlers raise and processes restart: nothing on the stream is
\* skipped, doubled or overtaken, and handlers return in the order of the intake.
THEOREM StreamAlwaysInOrder == ServiceSpec => []StreamInOrder
<1>1. ServiceInv => StreamInOrder
  BY BusInOrder DEF ServiceInv
<1>. QED
  BY <1>1, ServiceInvInit, ServiceInvStep, PTL DEF ServiceSpec

LEMMA BusAcksHandled ==
  ASSUME BusInv
  PROVE  Bus!AckedWereHandled
<1>1. Len(acked) \in Nat /\ Len(handled) \in Nat /\ Len(acked) <= Len(handled)
  BY DEF BusInv, BusTyped, HandlesHead
<1>2. /\ \A i \in 1..Len(acked) : acked[i] = i - 1
      /\ \A i \in 1..Len(handled) : handled[i] = i - 1
      /\ DOMAIN acked = 1..Len(acked) /\ DOMAIN handled = 1..Len(handled)
  BY DEF BusInv, BusTyped, InOrder, HandlesHead
<1>3. ASSUME NEW i \in DOMAIN acked
      PROVE  \E j \in DOMAIN handled : handled[j] = acked[i]
  <2>1. i \in 1..Len(acked) /\ i \in 1..Len(handled)
    BY <1>1, <1>2
  <2>. QED
    BY <1>2, <2>1
<1>. QED
  BY <1>3 DEF Bus!AckedWereHandled, Bus!SeqRange

\* The bus by itself, with any handler and one thread that drains it: what is
\* acknowledged has been handled, nothing is skipped, doubled or overtaken.  That
\* the first of these fails in the run bus_concurrent takes a second thread.
THEOREM OneThreadIsSafe == Bus!Spec => [](Bus!AckedWereHandled /\ StreamInOrder)
<1>1. BusInv /\ [Bus!Next]_Bus!vars => BusInv'
  <2>. SUFFICES ASSUME BusInv, [Bus!Next]_Bus!vars PROVE BusInv'
    OBVIOUS
  <2>1. CASE UNCHANGED Bus!vars
    BY <2>1 DEF Bus!vars, BusInv, BusTyped, InOrder, ReadsFresh, HandlesHead, At, Entry
  <2>2. CASE Bus!Publish
    BY <2>2, PublishKeepsBus
  <2>3. CASE Bus!Call(Worker) \/ Bus!Consume(Worker)
    <3>1. \/ Draw \/ Bus!Return(Worker)
          \/ Bus!HandlerReturns(Worker) \/ Bus!HandlerRaises(Worker)
      BY <2>3 DEF Bus!Consume, Draw
    <3>2. CASE Draw
      BY <3>2, FetchKeepsBus
    <3>3. CASE Bus!Return(Worker)
      BY <3>3, ReportKeepsBus
    <3>4. CASE Bus!HandlerReturns(Worker)
      BY <3>4, ReturningKeepsBus
    <3>5. CASE Bus!HandlerRaises(Worker)
      BY <3>5, RaisingKeepsBus
    <3>. QED
      BY <3>1, <3>2, <3>3, <3>4, <3>5
  <2>. QED
    BY <2>1, <2>2, <2>3 DEF Bus!Next
<1>2. BusInv => Bus!AckedWereHandled /\ StreamInOrder
  BY BusInOrder, BusAcksHandled
<1>. QED
  BY <1>1, <1>2, BusInit, PTL DEF Bus!Spec

\* The queue of WorkQueue, which is the bus that Gateway works with: the stream,
\* and of it as many as a handler has returned from.
Served == INSTANCE WorkQueue
  WITH Items <- Cases, queue <- stream, done <- Len(handled)

\* Claiming, failing, acknowledging and the steps of the cases do not show.
LEMMA ServedSteps ==
  ASSUME ServiceInv, [ServiceNext]_svars
  PROVE  [Served!Next]_<<stream, Len(handled)>>
<1>1. ASSUME NEW c \in Cases, TakeIn(c)
      PROVE  Served!TakeIn
  <2>1. \A i \in DOMAIN stream : stream[i] # c
    BY <1>1 DEF TakeIn, OnStream
  <2>2. stream' = Append(stream, c) /\ handled' = handled
    BY <1>1 DEF TakeIn, Bus!Publish
  <2>. QED
    BY <2>1, <2>2 DEF Served!TakeIn
<1>2. ASSUME NEW c \in Cases, RunReturns(c)
      PROVE  Served!Work
  <2>1. /\ Len(handled) \in Nat /\ Len(stream) \in Nat
        /\ Len(handled) = Len(acked) /\ Entry = Len(acked) /\ Entry + 1 \in 1..Len(stream)
    BY <1>2, Lengths DEF RunReturns, InHand, At
  <2>2. stream' = stream /\ handled' = Append(handled, Entry)
    BY <1>2 DEF RunReturns, Bus!HandlerReturns, Entry
  <2>3. Len(handled') = Len(handled) + 1
    BY <2>2 DEF ServiceInv, BusInv, BusTyped
  <2>. QED
    BY <2>1, <2>2, <2>3 DEF Served!Work
<1>3. ASSUME Restart
      PROVE  Served!Forget
  BY <1>3 DEF Restart, Served!Forget
<1>4. ASSUME \/ Fetch \/ Report \/ UNCHANGED svars
             \/ \E c \in Cases : Work(c) \/ RunRaises(c)
      PROVE  UNCHANGED <<stream, handled>>
  BY <1>4 DEF Fetch, Report, svars, busVars, Work, RunRaises, Bus!HandlerRaises, Bus!Call,
              Bus!Claiming, Bus!Claim, Bus!ReadCursor, Bus!AddPending, Bus!Advance,
              Bus!Claimed, Bus!Look, Bus!Take, Bus!GetEntry, Bus!Ack, Bus!Return
<1>. QED
  BY <1>1, <1>2, <1>3, <1>4 DEF ServiceNext, Process, Served!Next

\* Statement by statement, with redeliveries, broken handlers and restarts, the
\* service implements the queue that the gateway takes its bus for: cases are
\* worked from the front of the intake, each once, done when run_case returns.
THEOREM ServiceIsAQueue == ServiceSpec => Served!Spec
<1>1. ServiceInit => Served!Init
  BY DEF ServiceInit, Bus!Init, Served!Init
<1>. QED
  BY <1>1, ServiceInvInit, ServiceInvStep, ServedSteps, PTL DEF ServiceSpec, Served!Spec

\* Whatever was raised, redelivered or closed by an earlier process: what is
\* acknowledged is closed, and the last record of its trail says how.
THEOREM AckedAlwaysClosed == ServiceSpec => []AckedIsClosed
<1>1. ServiceInv => AckedIsClosed
  <2>. SUFFICES ASSUME ServiceInv, NEW i \in DOMAIN acked
                PROVE  /\ run[stream[acked[i] + 1]].pc = "done"
                       /\ trail[stream[acked[i] + 1]] # <<>>
                       /\ trail[stream[acked[i] + 1]][Len(trail[stream[acked[i] + 1]])]
                            = Record("OUTCOME", 0, run[stream[acked[i] + 1]].state)
    BY DEF AckedIsClosed
  <2>1. /\ i \in 1..Len(acked) /\ acked[i] = i - 1
        /\ i \in 1..Len(handled) /\ i \in 1..Len(stream)
    <3>1. acked \in Seq(Nat) /\ \A k \in 1..Len(acked) : acked[k] = k - 1
      BY DEF ServiceInv, BusInv, BusTyped, InOrder
    <3>. QED
      BY <3>1, Lengths
  <2>2. acked[i] + 1 = i
    BY <2>1
  <2>3. stream[i] \in Cases /\ run[stream[i]].pc = "done"
    BY <2>1 DEF ServiceInv, CasesInv, StreamTyped, HandledDone
  <2>. QED
    BY <2>2, <2>3 DEF ServiceInv, CasesInv, ClosedOnRecord
<1>. QED
  BY <1>1, ServiceInvInit, ServiceInvStep, PTL DEF ServiceSpec

\* No redelivery doubles a result on the dashboard, no restart shows an open
\* case, and without an exception nothing is missing once a call has returned.
THEOREM AlwaysShownOnce == ServiceSpec => []ShownOnce
<1>1. ServiceInv => ShownOnce
  <2>. SUFFICES ASSUME ServiceInv PROVE ShownOnce
    OBVIOUS
  <2>1. /\ acked \in Seq(Nat) /\ results \in Seq(Nat)
        /\ \A i \in 1..Len(results) : results[i] < Len(acked) /\ results[i] \in Nat
        /\ \A i, j \in 1..Len(results) : i < j => results[i] < results[j]
    BY DEF ServiceInv, BusInv, BusTyped, ResultsInv
  <2>2. ASSUME NEW i \in DOMAIN results
        PROVE  \E j \in DOMAIN acked : acked[j] = results[i]
    <3>1. results[i] + 1 \in 1..Len(acked)
      BY <2>1
    <3>2. PICK k \in 1..Len(acked) : k = results[i] + 1
      BY <3>1
    <3>3. acked[k] = k - 1
      BY DEF ServiceInv, BusInv, InOrder
    <3>. QED
      BY <2>1, <3>2, <3>3
  <2>3. ASSUME NEW i \in DOMAIN results, NEW j \in 1..(i - 1)
        PROVE  results[j] < results[i]
    BY <2>1
  <2>4. ASSUME crashes = 0, At = "idle"
        PROVE  Len(results) = Len(acked)
    <3>1. batch = <<>> /\ Len(results) + Len(batch) = Len(handled) /\ Len(results) \in Nat
      BY <2>1, <2>4 DEF ServiceInv, ResultsInv
    <3>2. Len(handled) = Len(acked) + 0 /\ Len(acked) \in Nat
      BY <2>1, <2>4 DEF ServiceInv, BusInv, HandlesHead
    <3>. QED
      BY <3>1, <3>2
  <2>. QED
    BY <2>2, <2>3, <2>4 DEF ShownOnce, At
<1>. QED
  BY <1>1, ServiceInvInit, ServiceInvStep, PTL DEF ServiceSpec

\* One worker: no two cases are under way.
LEMMA InHandIsOne == ServiceInv => OneAtATime
BY DEF ServiceInv, CasesInv, InHandOnly, InHand, OneAtATime, Running

\* What the processes before this one may have carried out on a day.
Earlier == restarts * DailyBudget

\* With the limits, and with the opt-outs that are stored.
ServiceRules == ServiceInv /\ SeqInv /\ StoredRespected /\ Counted(Earlier)

LEMMA EarlierTyped ==
  ASSUME NEW n \in Nat
  PROVE  /\ n * DailyBudget \in Nat
         /\ (n + 1) * DailyBudget = n * DailyBudget + DailyBudget
BY PolicyAssumption

LEMMA ServiceRulesInit == ServiceInit => ServiceRules
<1>. SUFFICES ASSUME ServiceInit PROVE ServiceRules
  OBVIOUS
<1>1. optOuts = {} /\ Counted(Earlier)
  BY DEF ServiceInit, Init, Counted
<1>. QED
  BY <1>1, ServiceInvInit, SeqInit DEF ServiceRules, ServiceInit, StoredRespected

LEMMA ServiceRulesStep == ServiceRules /\ [ServiceNext]_svars => ServiceRules'
<1>. SUFFICES ASSUME ServiceRules, [ServiceNext]_svars PROVE ServiceRules'
  OBVIOUS
<1>1. ServiceInv' /\ OneAtATime'
  <2>1. ServiceInv'
    BY ServiceInvStep DEF ServiceRules
  <2>2. ServiceInv' => OneAtATime'
    BY InHandIsOne, PTL
  <2>. QED
    BY <2>1, <2>2
<1>2. ASSUME NEW c \in Cases, Step(c), restarts' = restarts
      PROVE  SeqInv' /\ StoredRespected' /\ Counted(Earlier)'
  <2>1. SeqInv' /\ StoredRespected'
    BY <1>1, <1>2, SeqStepOfCase, StoredKept DEF ServiceRules, SeqInv
  <2>2. Earlier \in Nat /\ Earlier' = Earlier
    BY <1>2, EarlierTyped DEF Earlier, ServiceRules, ServiceInv
  <2>3. \A d \in DOMAIN acted' : acted'[d] <= Earlier + Spent(d)'
    BY <1>2, <2>2, CountedStep DEF ServiceRules, SeqInv
  <2>. QED
    BY <2>1, <2>2, <2>3 DEF Counted
<1>3. CASE UNCHANGED vars /\ restarts' = restarts
  <2>1. UNCHANGED <<info, run, contacts, budget, optOuts, acted, restarts>>
    BY <1>3 DEF vars, shared
  <2>2. HistoryCurrent' /\ StoredRespected'
    BY <2>1 DEF ServiceRules, SeqInv, HistoryCurrent, StoredRespected
  <2>3. GateHolds'
    BY <2>1 DEF ServiceRules, SeqInv, GateHolds, Gate, NextAction, Retries, Spent, On
  <2>4. ContactsSpaced' /\ WeeklyCapKept' /\ QuietHoursKept' /\ SpentKept'
    BY <2>1 DEF ServiceRules, SeqInv, ContactsSpaced, WeeklyCapKept, QuietHoursKept, SpentKept
  <2>5. Counted(Earlier)'
    BY <2>1 DEF ServiceRules, Counted, Earlier, Spent, On
  <2>. QED
    BY <1>1, <2>2, <2>3, <2>4, <2>5 DEF ServiceInv, SeqInv, ServiceRules
<1>4. CASE Restart
  <2>1. /\ \A c \in Cases : run'[c].pc = "new"
        /\ contacts' = [u \in Customers |-> <<>>] /\ optOuts' = {} /\ budget' = <<>>
        /\ acted' = acted /\ restarts' = restarts + 1
    BY <1>4 DEF Restart, Fresh
  <2>2. HistoryCurrent' /\ GateHolds' /\ StoredRespected'
    BY <2>1 DEF HistoryCurrent, GateHolds, StoredRespected
  <2>3. \A u \in Customers : DOMAIN contacts'[u] = {}
    BY <2>1
  <2>4. ContactsSpaced' /\ WeeklyCapKept' /\ QuietHoursKept'
    BY <2>3 DEF ContactsSpaced, WeeklyCapKept, QuietHoursKept
  <2>5. SpentKept'
    BY <2>1 DEF SpentKept
  <2>6. Counted(Earlier)'
    <3>1. /\ Earlier \in Nat /\ Earlier' = Earlier + DailyBudget /\ DailyBudget \in Nat
      BY <2>1, EarlierTyped, PolicyAssumption DEF Earlier, ServiceRules, ServiceInv
    <3>2. \A d \in DOMAIN acted : acted[d] \in Nat /\ acted[d] <= Earlier + DailyBudget
      BY <3>1, CountedIsKept DEF ServiceRules, SeqInv
    <3>3. \A d : Spent(d)' = 0
      BY <2>1 DEF Spent, On
    <3>. QED
      BY <2>1, <3>1, <3>2, <3>3 DEF Counted
  <2>. QED
    BY <1>1, <2>2, <2>4, <2>5, <2>6 DEF ServiceInv, SeqInv, ServiceRules
<1>5. \/ (UNCHANGED vars \/ \E c \in Cases : Step(c)) /\ restarts' = restarts
      \/ Restart
  BY DEF ServiceNext, Process, TakeIn, Fetch, Report, Work, RunReturns, RunRaises, svars, Step
<1>. QED
  BY <1>1, <1>2, <1>3, <1>4, <1>5 DEF ServiceRules

\* The service drains its bus with one worker, so that every case starts from
\* the stores as the last one left them: its contacts keep the gap, the weekly
\* cap and the quiet hours, whatever is raised and redelivered.  Of the action
\* budget, each process carries out no more than one: over all of them a day
\* takes the budget once for each process there has been.
THEOREM ServiceKeepsLimits ==
  ServiceSpec => [](ContactsSpaced /\ WeeklyCapKept /\ QuietHoursKept /\ BudgetPerProcess)
<1>1. ServiceRules =>
        ContactsSpaced /\ WeeklyCapKept /\ QuietHoursKept /\ BudgetPerProcess
  <2>. SUFFICES ASSUME ServiceRules, NEW d \in DOMAIN acted
                PROVE  acted[d] <= (restarts + 1) * DailyBudget
    BY DEF ServiceRules, SeqInv, BudgetPerProcess
  <2>1. Earlier \in Nat /\ (restarts + 1) * DailyBudget = Earlier + DailyBudget
    BY EarlierTyped DEF Earlier, ServiceRules, ServiceInv
  <2>2. acted[d] <= Earlier + DailyBudget
    BY <2>1, CountedIsKept DEF ServiceRules, SeqInv
  <2>. QED
    BY <2>1, <2>2
<1>. QED
  BY <1>1, ServiceRulesInit, ServiceRulesStep, PTL DEF ServiceSpec

\* A stored opt-out keeps every case of the customer, redelivered ones included,
\* from contacting them, until the process ends.
THEOREM StoredOptOutHolds == ServiceSpec => OptOutOutlivesCases
<1>1. ServiceRules /\ [ServiceNext]_svars
        => [restarts' = restarts => \A u \in optOuts : contacts'[u] = contacts[u]]_svars
  <2>. SUFFICES ASSUME ServiceRules, ServiceNext, restarts' = restarts, NEW u \in optOuts
                PROVE  contacts'[u] = contacts[u]
    OBVIOUS
  <2>1. ASSUME NEW c \in Cases, Execute(c)
        PROVE  contacts'[u] = contacts[u]
    <3>1. info[c].customer # u /\ u \in Customers /\ contacts \in [Customers -> Seq(Nat)]
      BY <2>1 DEF Execute, ServiceRules, SeqInv, StoredRespected, Inv, TypeOK
    <3>. QED
      BY <2>1, <3>1 DEF Execute
  <2>2. ASSUME NEW c \in Cases, Step(c), ~Execute(c)
        PROVE  contacts' = contacts
    BY <2>2 DEF Step, Handle, Start, Plan, Prepare, Defer, Decide, ActFails, HearBack,
                Exhaust, Finish, Crash, shared
  <2>3. ~Restart
    BY DEF Restart, ServiceRules, ServiceInv
  <2>4. \/ UNCHANGED vars \/ \E c \in Cases : Step(c)
    BY <2>3 DEF ServiceNext, Process, TakeIn, Fetch, Report, Work, RunReturns, RunRaises, Step
  <2>. QED
    BY <2>1, <2>2, <2>4 DEF vars, shared
<1>. QED
  BY <1>1, ServiceRulesInit, ServiceRulesStep, PTL DEF ServiceSpec, OptOutOutlivesCases
=============================================================================

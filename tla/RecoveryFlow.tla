----------------------------- MODULE RecoveryFlow -----------------------------
(***************************************************************************)
(* workflows/flow.py, run_case: the bounded recovery flow, with the stores *)
(* every case shares: the Customer-360 store (memory/customer360.py), the  *)
(* daily action budget (policy/compliance.py), the outage registry         *)
(* (detection/outages.py) and the audit chain.                             *)
(*                                                                         *)
(* At most Threads cases are handled at a time: one when a single consumer *)
(* drains the bus, more when requests to /admin/process overlap, each in a *)
(* thread of the server's pool.  A step of a case is the code between two  *)
(* points where another case can read or write a shared store.  Each case  *)
(* lives on its own simulated clock, which starts at its detection.        *)
(*                                                                         *)
(* An exception that escapes run_case (an audit append that fails, say)    *)
(* leaves the case pending on the bus; what was written to the shared      *)
(* stores stays, and the case is handled again as a fresh Case object.     *)
(*                                                                         *)
(* A member of Cases is a Case object, the payload as one handler parsed   *)
(* it.  Two calls of consume() that overlap can take the same entry of the *)
(* bus: then two objects have one case id, and the audit records of both   *)
(* are the trail of that id.                                               *)
(***************************************************************************)
EXTENDS Compliance, Planning, PersonaHarness

CONSTANTS
  Cases,          \* Case objects; a case id is named by one of its objects
  Customers,      \* customer ids
  CaseInfos,      \* the cases, personas and wirings a run draws from
  LLMAnswers,     \* the answers the diagnosis model may give
  Cells,          \* (method, issuer) monitoring cells
  OutageTimes,    \* when the degradation monitor may mark a cell
  OutageTTL,      \* OutageRegistry.ttl_hours
  Threads,        \* how many cases are handled at a time
  MaxCrashes      \* bound on the handlers that break down

CaseInfo ==
  [id : Cases, type : CaseTypes, customer : Customers, amount : Nat,
   code : STRING, at : Nat, cell : Cells \cup {None}, persona : Personas,
   preferred : Channels \cup {None},
   channel : Channels \cup {None},            \* what channel_chooser returns
   llm : BOOLEAN, dryRun : BOOLEAN, kill : BOOLEAN, executor : BOOLEAN]

ASSUME FlowAssumption ==
  /\ CaseInfos \subseteq CaseInfo
  /\ OutageTimes \subseteq Nat /\ OutageTTL \in Nat
  /\ IsFiniteSet(Cases)
  /\ Threads \in Nat \ {0} /\ MaxCrashes \in Nat

VARIABLES
  info,           \* the scenario and the wiring of each case
  run,            \* the locals of run_case and the Case object
  trail,          \* the audit records of each case id
  contacts,       \* Customer360._contacts
  optOuts,        \* Customer360._opt_outs
  affinity,       \* Customer360._affinity
  budget,         \* ActionBudget._by_day
  marked,         \* OutageRegistry._marked_at
  crashes,        \* handlers that have broken down
  declined,       \* history: the customers who have answered OPT_OUT
  acted           \* history: the actions carried out on each day

shared == <<contacts, optOuts, affinity, budget, declined, acted>>
vars == <<info, run, trail, shared, marked, crashes>>

EscalateFloor == 10000

\* `plan` before the PLAN stage.
NoPlan == [p |-> 0, playbook |-> None]

Fresh(i) ==
  [pc |-> "new", state |-> "detected", attempts |-> 0, plan |-> NoPlan, playbook |-> None,
   step |-> 1, now |-> i.at, hist |-> <<>>, last |-> None,
   lastChannel |-> None, failed |-> FALSE, executed |-> <<>>, verdict |-> None]

Running == {c \in Cases : run[c].pc \notin {"new", "done"}}

Becomes(c, r) == run' = [run EXCEPT ![c] = r]

Audits(c, records) == trail' = [trail EXCEPT ![info[c].id] = @ \o records]

Record(stage, step, note) == [stage |-> stage, step |-> step, note |-> note]

Closing(r, verdict) == [r EXCEPT !.pc = "finish", !.verdict = verdict]

\* `now += timedelta(hours=24)` and on to the next step of the playbook.
NextStep(r) == [r EXCEPT !.pc = "gate", !.step = @ + 1, !.now = @ + 24]

On(counts, day) == IF day \in DOMAIN counts THEN counts[day] ELSE 0

Tallied(counts, day) ==
  [d \in DOMAIN counts \cup {day} |->
     IF d = day THEN On(counts, day) + 1 ELSE counts[d]]

Spent(day) == On(budget, day)

Retries(r) == Cardinality({i \in DOMAIN r.executed : r.executed[i].kind = "retry"})

\* The planned step, replaced by the follow-up of a promise, on the channel
\* the chooser picked.
NextAction(c) ==
  LET r == run[c]
      planned == IF r.last = "promise_to_pay" THEN P2PFollowUp
                 ELSE Playbook[r.playbook][r.step]
  IN IF info[c].channel # None /\ planned.kind = "message"
     THEN Message(info[c].channel) ELSE planned

InOutage(cell, now) == cell \in DOMAIN marked /\ now - marked[cell] < OutageTTL

Deferred(c) ==
  /\ NextAction(c).kind = "retry"
  /\ info[c].cell # None
  /\ InOutage(info[c].cell, run[c].now)

Init ==
  /\ info \in [Cases -> CaseInfos]
  /\ \A c \in Cases : info[info[c].id] = info[c]
  /\ run = [c \in Cases |-> Fresh(info[c])]
  /\ trail = [c \in Cases |-> <<>>]
  /\ contacts = [u \in Customers |-> <<>>]
  /\ optOuts = {}
  /\ affinity = [u \in Customers |-> None]
  /\ budget = <<>>
  /\ marked = <<>>
  /\ crashes = 0
  /\ declined = {}
  /\ acted = <<>>

\* Mutated form of HasOptedOut: the store is not consulted.
HasOptedOutUnchecked(c) == FALSE

HasOptedOut(c) == info[c].customer \in optOuts

\* DETECT: score the case, honour an earlier opt-out.
Start(c) ==
  /\ run[c].pc = "new"
  /\ Cardinality(Running) < Threads
  /\ Becomes(c, IF Pursued(info[c]) /\ ~HasOptedOut(c)
                THEN [run[c] EXCEPT !.pc = "plan"]
                ELSE Closing(run[c], "abandoned"))
  /\ Audits(c, <<Record("DETECT", 0, None)>>)
  /\ UNCHANGED <<info, shared, marked, crashes>>

Plans(i) == IF i.llm THEN {Diagnosis(i, a) : a \in LLMAnswers} ELSE {RulePlan(i)}

\* DIAGNOSE and PLAN: choose a playbook, then the EV gate.
Plan(c) ==
  /\ run[c].pc = "plan"
  /\ \E plan \in Plans(info[c]) :
       LET r == [run[c] EXCEPT !.plan = plan]
       IN Becomes(c, CASE LosesMoney(info[c], plan) -> Closing(r, "abandoned")
                       [] ~LosesMoney(info[c], plan) /\ plan.playbook \notin PlaybookNames ->
                            Closing(r, "escalated")
                       [] OTHER -> [r EXCEPT !.pc = "prepare", !.state = "diagnosed",
                                             !.playbook = plan.playbook])
  /\ Audits(c, IF info[c].llm
               THEN <<Record("DIAGNOSE", 0, None), Record("PLAN", 0, None)>>
               ELSE IF Candidates(info[c]) # <<>>
                    THEN <<Record("PLAN", 0, None)>> ELSE <<>>)
  /\ UNCHANGED <<info, shared, marked, crashes>>

ContactHistory(c) == contacts[info[c].customer]

\* Mutated form of Prepare: the transition to PLANNED is forgotten.
PrepareUnplanned(c) ==
  /\ run[c].pc = "prepare"
  /\ Becomes(c, [run[c] EXCEPT !.pc = "gate", !.hist = ContactHistory(c)])
  /\ UNCHANGED <<info, trail, shared, marked, crashes>>

\* PLANNED: the contact history is read once, here.
Prepare(c) ==
  /\ run[c].pc = "prepare"
  /\ Becomes(c, [run[c] EXCEPT !.pc = "gate", !.state = "planned",
                               !.hist = ContactHistory(c)])
  /\ UNCHANGED <<info, trail, shared, marked, crashes>>

StepsLeft(c) == run[c].pc = "gate" /\ run[c].step <= Len(Playbook[run[c].playbook])

\* Mutated form of Defer: wait for the mark to go, on a clock that stands still.
DeferBusyWaiting(c) ==
  StepsLeft(c) /\ Deferred(c) /\ UNCHANGED vars

\* A retry into a down issuer is put off to the next step.
Defer(c) ==
  /\ StepsLeft(c) /\ Deferred(c)
  /\ Becomes(c, NextStep(run[c]))
  /\ Audits(c, <<Record("DEFERRED", run[c].step, None)>>)
  /\ UNCHANGED <<info, shared, marked, crashes>>

Gate(c) ==
  Allowed(NextAction(c), info[c], run[c].attempts, run[c].hist, run[c].now,
          info[c].kill, Spent(Day(run[c].now)), Retries(run[c]))

\* A blocked step is skipped, unless by the kill switch; a dry run skips the
\* allowed ones too.
AfterDecision(c) ==
  CASE Gate(c) /\ ~info[c].dryRun -> [run[c] EXCEPT !.pc = "act"]
    [] info[c].kill -> Closing(run[c], "escalated")
    [] OTHER -> NextStep(run[c])

\* DECIDE: the action gate.
Decide(c) ==
  /\ StepsLeft(c) /\ ~Deferred(c)
  /\ Becomes(c, AfterDecision(c))
  /\ Audits(c, <<Record("DECIDE", run[c].step, IF Gate(c) THEN "allowed" ELSE "blocked")>>)
  /\ UNCHANGED <<info, shared, marked, crashes>>

\* Mutated form of ActFails: the action is tried again at once, as decided.
ActFailsTryAgain(c) ==
  /\ run[c].pc = "act"
  /\ info[c].executor
  /\ Becomes(c, [run[c] EXCEPT !.failed = TRUE])
  /\ Audits(c, <<Record("ACT_FAILED", run[c].step, None)>>)
  /\ UNCHANGED <<info, shared, marked, crashes>>

\* TransientActuatorError: audit, back off, on to the next step.
ActFails(c) ==
  /\ run[c].pc = "act"
  /\ info[c].executor
  /\ Becomes(c, [NextStep(run[c]) EXCEPT !.failed = TRUE])
  /\ Audits(c, <<Record("ACT_FAILED", run[c].step, None)>>)
  /\ UNCHANGED <<info, shared, marked, crashes>>

Reply(c) == Respond(info[c].persona, NextAction(c), run[c].step, info[c].preferred)

\* The action is carried out and counted; the customer answers.
Execute(c) ==
  LET r == run[c]
      action == NextAction(c)
      customer == info[c].customer
      touch == IF IsContact(action) THEN <<r.now>> ELSE <<>>
  IN /\ r.pc = "act"
     /\ Becomes(c, [r EXCEPT !.pc = "respond", !.state = "intervening",
                             !.attempts = @ + 1, !.hist = @ \o touch,
                             !.executed = Append(@, [kind |-> action.kind,
                                                     channel |-> action.channel,
                                                     at |-> r.now]),
                             !.last = Reply(c),
                             !.lastChannel = IF IsContact(action) THEN action.channel
                                             ELSE @])
     /\ budget' = Tallied(budget, Day(r.now))
     /\ acted' = Tallied(acted, Day(r.now))
     /\ contacts' = [contacts EXCEPT ![customer] = @ \o touch]
     /\ declined' = IF Reply(c) = "opt_out" THEN declined \cup {customer} ELSE declined
     /\ UNCHANGED <<info, trail, optOuts, affinity, marked, crashes>>

AfterReply(r) ==
  CASE r.last = "paid" -> Closing(r, "recovered")
    [] r.last = "opt_out" -> Closing(r, "abandoned")
    [] OTHER -> [NextStep(r) EXCEPT !.state = "waiting"]

\* ACT, and what the answer leads to.
HearBack(c) ==
  LET r == run[c]
      customer == info[c].customer
  IN /\ r.pc = "respond"
     /\ Becomes(c, AfterReply(r))
     /\ Audits(c, <<Record("ACT", r.step, r.last)>> \o
                  IF r.last = "promise_to_pay"
                  THEN <<Record("PROMISE_TO_PAY", r.step, None)>> ELSE <<>>)
     /\ optOuts' = IF r.last = "opt_out" THEN optOuts \cup {customer} ELSE optOuts
     /\ affinity' = IF r.last = "paid" /\ r.lastChannel # None
                    THEN [affinity EXCEPT ![customer] = r.lastChannel]
                    ELSE affinity
     /\ UNCHANGED <<info, contacts, budget, declined, acted, marked, crashes>>

\* Mutated form of Unresolved: whether anything was executed is not looked at.
UnresolvedAbandoned(c) ==
  IF ~info[c].dryRun /\ info[c].amount >= EscalateFloor THEN "escalated" ELSE "abandoned"

\* Mutated form of Unresolved: no terminal state is named.
UnresolvedUnnamed(c) == None

Unresolved(c) ==
  IF ~info[c].dryRun /\ (run[c].executed = <<>> \/ info[c].amount >= EscalateFloor)
  THEN "escalated" ELSE "abandoned"

\* The playbook has run out.
Exhaust(c) ==
  /\ run[c].pc = "gate" /\ ~StepsLeft(c)
  /\ Becomes(c, Closing(run[c], Unresolved(c)))
  /\ UNCHANGED <<info, trail, shared, marked, crashes>>

\* Mutated form of Finish: a recovered case is closed without its record.
FinishUnaudited(c) ==
  /\ run[c].pc = "finish"
  /\ Becomes(c, [run[c] EXCEPT !.pc = "done", !.state = run[c].verdict])
  /\ Audits(c, IF run[c].verdict = "recovered" THEN <<>>
               ELSE <<Record("OUTCOME", 0, run[c].verdict)>>)
  /\ UNCHANGED <<info, shared, marked, crashes>>

\* _finish: the terminal transition and the OUTCOME record.
Finish(c) ==
  /\ run[c].pc = "finish"
  /\ Becomes(c, [run[c] EXCEPT !.pc = "done", !.state = run[c].verdict])
  /\ Audits(c, <<Record("OUTCOME", 0, run[c].verdict)>>)
  /\ UNCHANGED <<info, shared, marked, crashes>>

\* An exception escapes run_case; the bus will deliver the case again.
Crash(c) ==
  /\ c \in Running
  /\ crashes < MaxCrashes
  /\ crashes' = crashes + 1
  /\ Becomes(c, Fresh(info[c]))
  /\ UNCHANGED <<info, trail, shared, marked>>

\* OutageRegistry.mark and clear, driven by the degradation monitor.
MarkOutage(cell) ==
  /\ \E t \in OutageTimes :
       marked' = [l \in DOMAIN marked \cup {cell} |-> IF l = cell THEN t ELSE marked[l]]
  /\ UNCHANGED <<info, run, trail, shared, crashes>>

ClearOutage(cell) ==
  /\ marked' = [l \in DOMAIN marked \ {cell} |-> marked[l]]
  /\ UNCHANGED <<info, run, trail, shared, crashes>>

AllDone == (\A c \in Cases : run[c].pc = "done") /\ UNCHANGED vars

\* What the thread that handles a case does next.
Handle(c) ==
  \/ Plan(c) \/ Prepare(c) \/ Defer(c) \/ Decide(c) \/ ActFails(c) \/ Execute(c)
  \/ HearBack(c) \/ Exhaust(c) \/ Finish(c)

Next ==
  \/ \E c \in Cases : Start(c) \/ Handle(c) \/ Crash(c)
  \/ \E cell \in Cells : MarkOutage(cell) \/ ClearOutage(cell)
  \/ AllDone

Spec == Init /\ [][Next]_vars

\* A running handler is never suspended for good: run_case waits for nothing.
\* Nobody has to call /admin/process, so Start is not fair.
FairSpec == Spec /\ \A c \in Cases : WF_vars(Handle(c))

-----------------------------------------------------------------------------
AllPlans == {NoPlan} \cup UNION {Plans(i) : i \in CaseInfos}

RunState ==
  [pc : {"new", "plan", "prepare", "gate", "act", "respond", "finish", "done"},
   state : CaseStates, attempts : Nat, plan : AllPlans,
   playbook : PlaybookNames \cup {None},
   step : Nat, now : Nat, hist : Seq(Nat), last : Replies \cup {None},
   lastChannel : Channels \cup {None}, failed : BOOLEAN,
   executed : Seq([kind : ActionKinds, channel : Channels \cup {None}, at : Nat]),
   verdict : TerminalStates \cup {None}]

AuditStages == {"DETECT", "DIAGNOSE", "PLAN", "DEFERRED", "DECIDE", "ACT_FAILED",
                "ACT", "PROMISE_TO_PAY", "OUTCOME"}

AuditRecord ==
  [stage : AuditStages, step : Nat,
   note : {None, "allowed", "blocked"} \cup Replies \cup TerminalStates]

\* The type of every variable.
TypeOK ==
  /\ info \in [Cases -> CaseInfos]
  /\ run \in [Cases -> RunState]
  /\ trail \in [Cases -> Seq(AuditRecord)]
  /\ contacts \in [Customers -> Seq(Nat)]
  /\ optOuts \subseteq Customers /\ declined \subseteq Customers
  /\ affinity \in [Customers -> Channels \cup {None}]
  /\ \A counts \in {budget, acted} :
       DOMAIN counts \subseteq Nat /\ counts \in [DOMAIN counts -> Nat]
  /\ DOMAIN marked \subseteq Cells /\ marked \in [DOMAIN marked -> OutageTimes]
  /\ crashes \in 0..MaxCrashes

\* What is known of a case at each point of run_case.
Stage(r) ==
  /\ r.step >= 1
  /\ r.pc \in {"new", "plan"} => r.state = "detected" /\ r.attempts = 0
  /\ r.pc = "prepare" => r.state = "diagnosed"
  /\ r.pc \in {"gate", "act"} => r.state \in {"planned", "waiting"}
  /\ r.pc = "act" => AttemptsLeft(r.attempts)
  /\ r.pc = "respond" => r.state = "intervening" /\ r.last \in Replies
  /\ r.pc \in {"prepare", "gate", "act", "respond"} => r.playbook \in PlaybookNames
  /\ r.pc \in {"act", "respond"} => r.step <= Len(Playbook[r.playbook])
  /\ r.pc = "finish" => /\ r.state \in OpenStates
                        /\ r.verdict \in TerminalStates
                        /\ r.verdict = "recovered" => r.state = "intervening"
  /\ r.pc = "done" <=> r.state \in TerminalStates

\* Wherever its handler is in run_case, a case is in the lifecycle state that
\* makes every transition still ahead of it a legal one: IllegalTransition is
\* never raised, and a promise, a skipped or a failed step leaves no case
\* behind in INTERVENING.
StagesKept == \A c \in Cases : Stage(run[c])

(* Rules that span the cases of a customer. *)

\* Two contacts of one customer, whichever cases made them, are at least
\* min_gap_between_contacts_hours apart, in the order they were made, although
\* the clocks of the cases overlap and a later case may live on earlier hours.
ContactsSpaced ==
  \A u \in Customers : \A i, j \in DOMAIN contacts[u] :
    i < j => contacts[u][j] - contacts[u][i] >= MinGap

\* At each contact, the customer's contacts of the seven days before it, that
\* one included, are within max_contacts_per_customer_per_week.
WeeklyCapKept ==
  \A u \in Customers : \A i \in DOMAIN contacts[u] :
    Cardinality({j \in 1..i : contacts[u][j] >= contacts[u][i] - Week})
      <= MaxContactsPerWeek

\* No customer is contacted within the quiet hours, whatever hour of the day
\* the case was detected at: counted round the clock from QuietStart, every
\* contact comes after QuietEnd.
QuietHoursKept ==
  \A u \in Customers : \A i \in DOMAIN contacts[u] :
    (HourOfDay(contacts[u][i]) - QuietStart) % 24 >= (QuietEnd - QuietStart) % 24

\* The actions carried out on one day, those of all the cases and handlers
\* together, are within daily_action_budget.
BudgetKept == \A d \in DOMAIN acted : acted[d] <= DailyBudget

\* Once a customer has answered OPT_OUT in one case, no case contacts the
\* customer again.
DeclineHonoured == [][\A u \in declined : contacts'[u] = contacts[u]]_vars

(* Rules of a single case. *)

\* A subscription charge is retried only when the customer's record holds a
\* contact at least require_pre_debit_notification_hours older.
NoticeKept ==
  \A c \in Cases : \A i \in DOMAIN run[c].executed :
    LET act == run[c].executed[i]
        log == contacts[info[c].customer]
    IN act.kind = "retry" /\ info[c].type = "subscription_failure" =>
         \E k \in DOMAIN log : act.at - log[k] >= PreDebitNotice

\* How often the first n records of a trail say that a step was tried, and how
\* often that it was allowed.
Attempts(records, step, n) ==
  Cardinality({i \in 1..n :
    records[i].stage \in {"ACT", "ACT_FAILED"} /\ records[i].step = step})

Permissions(records, step, n) ==
  Cardinality({i \in 1..n : records[i] = Record("DECIDE", step, "allowed")})

\* No two handlers are given the case.
HandledAlone(id) == \A c \in Cases : info[c].id = id => c = id

\* Up to any point of a case's trail, a step has not been tried more often than
\* a DECIDE allowed it, with the handlers of other cases and of the same case
\* in between: no path, not the one after a failure or a promise, goes round
\* the gate.  The trail of a case that no second handler was given says it
\* record by record: right before each ACT and ACT_FAILED stands the DECIDE
\* that allowed that step.
GateNotBypassed ==
  \A id \in Cases : \A n \in DOMAIN trail[id] :
    LET e == trail[id][n]
    IN e.stage \in {"ACT", "ACT_FAILED"} =>
         /\ Attempts(trail[id], e.step, n) <= Permissions(trail[id], e.step, n)
         /\ HandledAlone(id) =>
              n > 1 /\ trail[id][n - 1] = Record("DECIDE", e.step, "allowed")

\* Nothing was there to work on: before the plan, the score is below the
\* pursuit floor or the customer has opted out; with it, it loses money.
NotWorthWorking(c) ==
  IF run[c].plan = NoPlan THEN ~Pursued(info[c]) \/ HasOptedOut(c)
  ELSE LosesMoney(info[c], run[c].plan)

\* The verdict is what the case deserves: recovered exactly when the latest
\* answer was a payment, so that none is made up and none is followed by another
\* action.  A human gets no case that was tried and is worth less than the
\* escalation floor, and none that was declined.  A case is dropped when the
\* customer declined; if it was tried without success, when it is worth less
\* than the floor; and if it was never tried, in a dry run or because there was
\* nothing to work on: what every gate, outage or failure kept from being
\* tried, and a playbook the flow does not have, are never dropped.
VerdictJustified ==
  \A c \in Cases : run[c].pc = "done" =>
    LET r == run[c]
        tried == r.executed # <<>>
        high == info[c].amount >= EscalateFloor
    IN /\ r.state = "recovered" <=> r.last = "paid"
       /\ r.state = "escalated" => (tried => high) /\ r.last # "opt_out"
       /\ r.state = "abandoned" =>
            \/ r.last = "opt_out"
            \/ IF tried THEN ~high ELSE info[c].dryRun \/ NotWorthWorking(c)

\* A dry run, a case under the kill switch and a hard failure execute no action,
\* whatever playbook the diagnosis model would recommend for it, and if they
\* are closed, it is as abandoned or escalated.
BarredCasesUntouched ==
  \A c \in Cases : info[c].dryRun \/ info[c].kill \/ info[c].code \in HardCodes =>
    /\ run[c].executed = <<>>
    /\ run[c].state \in TerminalStates => run[c].state \in {"abandoned", "escalated"}

\* What the steps of a playbook cost, and what an option is worth, in paise.
StepsCost(playbook) ==
  LET steps == Playbook[playbook]
      touches == Cardinality({i \in DOMAIN steps : IsContact(steps[i])})
  IN touches * (ContactCost + AnnoyanceCost) + (Len(steps) - touches) * RetryCost

Worth(c, option) == option.p * info[c].amount - 100 * StepsCost(option.playbook)

\* Without a diagnosis, a case is worked when it is worth it: with an option of
\* its ranking that is expected to bring in more than the steps the flow then
\* runs cost, and that no other option beats by more than the rounding to a
\* rupee; a case that is pursued and not worked has no option worth a rupee,
\* unless its customer has opted out.
\* Three tables kept by hand have to agree on that, and the gate prices the
\* ranking's option with the scorer's odds.
WorkedIffWorthIt ==
  \A c \in Cases : ~info[c].llm /\ run[c].pc \notin {"new", "plan"} =>
    LET options == {Candidates(info[c])[i] : i \in DOMAIN Candidates(info[c])}
    IN IF run[c].playbook # None
       THEN \E option \in options :
              /\ option.playbook = run[c].playbook
              /\ Worth(c, option) > 0
              /\ \A other \in options : Worth(c, other) - Worth(c, option) <= 100
       ELSE Pursued(info[c]) /\ ~HasOptedOut(c) => \A option \in options : Worth(c, option) <= 50

\* Every case follows the lifecycle of CaseLifecycle.
Lifecycle == INSTANCE CaseLifecycle
  WITH state <- [c \in Cases |-> run[c].state],
       attempts <- [c \in Cases |-> run[c].attempts]

FollowsLifecycle == Lifecycle!Spec

\* Once a handler has taken up a case, it returns or breaks down: the flow has
\* no way to stall or to go round for ever.
HandlerReturns ==
  \A c \in Cases : run[c].pc \notin {"new", "done"} ~> run[c].pc \in {"new", "done"}
=============================================================================

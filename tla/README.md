# RevRecover in TLA+

A verification project for RevRecover, the agent that recovers failed payments:
webhooks become cases, a bounded flow works each case through gated actions,
and an audit chain records every step. This directory holds TLA+ modules
translated from the code under `src/revrecover/`, the TLC configurations that
check them on small instances, and proofs checked by TLAPS.

`PROJECT.json` maps every definition to the lines it stands for and lists the
runs, the mutants that show each property can fail, the hazards, the findings
and the theorems.

## Inventory

Paths are under `src/revrecover/`.

| component | state | operations | interacts with | what makes it correct |
|---|---|---|---|---|
| case domain model, `domain/models.py` | lifecycle state, attempts, history | `transition`, `record_attempt` | mutated by the flow only | legal transitions only, terminal states absorb, attempts only while open |
| recovery flow, `workflows/flow.py` | locals of `run_case`: simulated clock, contact history, last answer, retries | score, opt-out check, diagnose, plan, EV gate, then per step: defer, decide, act, hear back; finish | all stores below, synchronously | every action passes the gate; always ends, with one OUTCOME record; recovered only when paid |
| compliance engine, `policy/compliance.py` | none (limits from `policy/compliance.yaml`) | `check` | called by the flow before each action | quiet hours, gap, weekly cap, attempts, mandate rules, budget |
| action budget, `policy/compliance.py` | actions per day | `record`, `count` (locked one by one) | shared by all cases | no day above the budget |
| Customer-360, `memory/customer360.py` | contacts, opt-outs, channel affinity | `record_*`, `contacts_for`, `has_opted_out` | shared by all cases of a customer | an opt-out is final; caps hold across cases |
| outage registry, `detection/outages.py` | marked cells with a time | `mark`, `clear`, `active` | read by the flow, written by the monitor | a retry is put off, not lost for ever |
| scorer, EV ranking, diagnostician, `detection/scorer.py`, `policy/ev.py`, `diagnosis/` | none | pure | tables that repeat each other | tables agree; the model's answer can neither break nor widen what the rules allow |
| persona harness, `evaluation/harness.py` | none | `respond` | stands for the customer | deterministic answers |
| event bus, `gateway/bus.py` | streams; per group a cursor and a pending list | `publish`, `consume` | webhook publishes, `/admin/process` consumes | at least once, in order, acknowledged after the handler |
| gateway, `gateway/app.py`, `events.py`, `poller.py` | event ledger | webhook, poller sweep, `/admin/process` | Razorpay, bus | each payment taken in exactly once |
| recovery service, `gateway/pipeline.py` | results; owner of bus, stores and budget | `enqueue`, `process_pending` | bus, flow, stores | what is acknowledged is closed; every accepted case is closed; results are shown once |
| audit chain, `audit/chain.py`, `storage/sqlite.py` | hash-linked records | `append`, `verify` | written by the flow | what is recorded cannot be changed unseen |
| Razorpay client, `actuators/razorpay_client.py` | breaker | `_request` with retries | HTTP | bounded retries, the breaker opens and closes |
| live loop, `actuators/live_loop.py` | one case | poll until paid or deadline | client | one outcome |
| degradation monitor, `detection/monitor.py` | moving averages, streak, latch per cell | `observe` | nothing connects it to the outage registry | one alert per incident, no outage missed, no rupee reported twice |
| voice agent, drafter, `comms/` | transcript | bounded dialogue, screening, lint | LLM | turn cap, nothing after an opt-out, nothing unscreened |
| batch evaluation and channel bandit, `evaluation/batch.py`, `learning/bandit.py` | posterior per segment and arm | run a batch, credit an arm, report | flow | the increment is honest, credit goes to the arm that was used |
| ledger questions, `audit/ask.py` | none | `ask` | reads the audit file, LLM | an answer cites records that exist |
| sweep, tuning, demos, dashboards, command lines | none | drivers and rendering | batch, flow, audit | not state machines |

**Hard behaviours.** `/admin/process` is a synchronous endpoint, so overlapping
requests run in the server's thread pool: two threads may be in
`InMemoryBus.consume` and in `run_case` at the same time. The bus has no lock,
the Customer-360 store has none, and the budget locks each call but not a check
with the increment that belongs to it. An exception that leaves `run_case` (an
audit append on a full disk, for example) keeps what was already written to the
stores and has the bus deliver the case again, as a new `Case` object. Every
case lives on a simulated clock of its own that starts at its detection and
advances a day per step, so the times of two cases of one customer interleave
in any order. Steps may be skipped, deferred, failed or replaced by a promise's
follow-up, and each such path shifts all the later ones. Bus, ledger, stores and
results live in memory, the audit trail in a file: a restart keeps the one and
forgets the others. Another process may read that file at any moment.

## Modules

* `Domain` - the enumerations, the transition table and the playbooks: the data
  of `domain/models.py`, `policy/compliance.py` and `workflows/flow.py`.
* `Compliance` - `ComplianceEngine.check` as `Allowed`, with the policy's limits
  as constants. Time is in whole hours of the policy's time zone.
* `Planning` - scorer, EV ranking and validation of the diagnosis, as operators.
  Probabilities are whole percentages. `round` is Python's, to the even integer
  from an exact half; where the float product of a half falls beside it, the
  constants `HalvesAbove` and `HalvesBelow` say so (at 110 rupees of an overdue
  invoice this decides whether the case is worked).
* `PersonaHarness` - `respond`.
* `RecoveryFlow` - `run_case` with all its shared stores. A member of `Cases` is one
  `Case` object, as a handler parses it from the bus; `info[c].id` is its case id, which
  two objects share when two threads have taken the same entry (`bus.py:46-48`). Their
  audit records are then one trail. `run[c]` holds the locals and the object; `pc` says
  where the handler is:
  `new -> plan -> prepare -> gate -> act -> respond -> (gate | finish) -> done`.
  A step is the code between two points where another case can touch a store
  that both share: `Start` (score, DETECT, opt-out check), `Plan` (diagnosis,
  ranking, EV gate), `Prepare` (contact history), `Defer`, `Decide`, `ActFails`,
  `Execute` (attempt, budget, contact, answer), `HearBack` (ACT record, opt-out,
  affinity, next state), `Exhaust`, `Finish`; `Crash` is an exception that
  leaves `run_case`; `MarkOutage` and `ClearOutage` are the registry's.
* `CaseLifecycle` - what a case promises whatever the flow does: `Move` along the
  transition table, `Attempt`, `Redeliver`. `RecoveryFlow` implements it
  (`FollowsLifecycle`), with a case's state and attempts as the refinement
  mapping; `Execute` maps to an attempt that takes the transition to
  INTERVENING with it.
* `EventBus` - `consume` for any number of threads, each read and each write of the
  cursor and of the pending list a step of its own: `cursor += 1` is two, and the
  cursor that is tested, appended and incremented may be three different ones.
* `Gateway` - how failed payments become work: `Deliver`, `Parse`, `HookTakesIn` are
  the webhook endpoint from one effect to the next, `Sweep`, `Examine`,
  `PollTakesIn` the poller's thread, `Process` the worker, `Restart` a new process.
  `ParseRaises`, `HookIntakeRaises` and `PollIntakeRaises` are exceptions between
  registering and taking in; `ExamineRaises` is a payment in the page that cannot be
  parsed (`poller.py:31`) and ends the sweep. The endpoint is a coroutine that never waits once it
  has the body, so one delivery is in hand at a time; the poller runs beside it.
  An entry is handled in one step here; `EventBus` has the statements.
* `WorkQueue` - what `Gateway` implements (`WorksLikeAQueue`): a queue without
  duplicates, worked from the front, which a restart empties. The refinement
  mapping is the stream and the number of its entries that are done.
* `MCGateway` - the events that the run draws from.
* `AuditChain` - `SqliteAuditChain` with the record and digest of `audit/chain.py`:
  `Call`, `Acquire`, `Count`, `LastHash`, `Insert`, `Commit` are the statements of
  `append`, `InsertRaises` and `CommitRaises` their errors (the row stays in the
  open transaction, or the transaction is rolled back), `Restart` a new process
  on the file. `rows` is what the connection sees, `disk` what is committed.
  A digest is the previous digest with the body appended: the one thing used of
  SHA-256 is that different inputs have different digests. `Fits` and
  `FirstBroken` are `verify`.
* `RazorpayClient` - `_request` for one caller: sent, handled, arrived, with pauses
  between attempts and the breaker around them. An answer of 200 counts as a success
  for the breaker before its body is parsed; a body that is no JSON, or lacks a field,
  is the answer `garbled`, on which `run` raises.
* `LiveLoop` - extends the client with `run` and with the server's payment link,
  which the customer may pay at any time. Time is in ticks of the first backoff.
* `Service` - the flow as the handler of the bus: `TakeIn` is the intake, `Fetch`
  the statements of `consume` around the handler, `Work` a step of `run_case` for
  the case in hand, `RunReturns` and `RunRaises` how the handler ends, `Report` the
  end of `process_pending`, `Restart` a new process: trail and history stay,
  everything else starts empty.
* `Monitor` - `observe` on one cell: `WarmUp`, `Breach`, `NoBreach`, with histories of
  what was alerted, reported and lost.
* `Comms` - `Speak`, `Hear`, `HangUp` are the turns of `VoiceRecoveryAgent.call`, `Classify` what a reply
  means, `AgentLine` the screening of a proposed line; `Draft` and `Lint` are the
  drafter. The model may say anything, a non-text included.
* `Batch` - extends `RecoveryFlow` with the loop of `run_batch_full`: `Choose` picks
  and binds an arm, `RunCase` runs the case, `Learn` credits the arm; `Generated` is
  what `generate_scenarios` may draw, and the figures are the report's.
* `LedgerQuestions` - extends `AuditChain` with a reader: `Ask` reads what is
  committed, `Answer` comes when the file has gone on.
* `MCRecoveryFlow`, `MCService`, `MCBatch`, `MCAudit` - the cases, personas, wirings and
  records that the runs draw from.
* `RecoveryFlowProofs` - the theorems about the flow for any number of threads;
  `SequentialProofs` those for one thread, and those about `Service`;
  `GatewayProofs`, `AuditChainProofs` (with `LedgerQuestions`), `LiveLoopProofs` (with the
  client), `MonitorProofs`, `CommsProofs` and `BatchProofs` those of the other components.

`RecoveryFlow` extends `Compliance`, `Planning` and `PersonaHarness`, which
extend `Domain`; it INSTANCEs `CaseLifecycle`. `Service` extends `RecoveryFlow` and
INSTANCEs `EventBus` with a single consumer (cases of the service come over the bus,
without a cell or a chooser: `OverTheBus`); `Batch` extends `RecoveryFlow`. `Gateway`
INSTANCEs `WorkQueue`; `LiveLoop` extends `RazorpayClient`; `LedgerQuestions` extends
`AuditChain`.

**Abstractions.** Audit payloads, reasons, failure classes and wording are left
out; of a decision only `allowed` is kept, since `requires_approval` (the
50,000-rupee threshold) is only stamped on the record: `run_case` approves it
itself. The Customer-360 store is always there, as in the service;
`max_auto_retries` of the policy file is read nowhere in the code and has no
counterpart. Minutes are dropped: contacts fall on whole hours.
The diagnosis model may answer anything, drawn from `LLMAnswers`. An executor,
where one is wired, may fail at any step. `HearBack` joins the ACT and the
PROMISE_TO_PAY records with the stores they lead to. The monitor's rates are integers out of `Unit` with a
rounding down at each step, where the code has floats; the properties leave room
for that. A text of `Comms` is a record of what the code looks for in it: threat
pattern, opt-out, sender, length, names. In a reply the markers are a set: what the
code tests for, not their words. The answer that `ask` falls back to lists the whole timeline, which is
modelled as citing all of its records. The bandit may pick any arm.

## Runs

The limits are those of `policy/compliance.yaml` unless the run says otherwise.

| run | instance | shows |
|---|---|---|
| `flow_one_customer` | two cases, one customer, one at a time; each playbook, three personas, detection at 12:00, at the last hour before the quiet ones and the first of them, at their last and the first after them, and five days later | gap, weekly cap and quiet hours hold across cases; an opt-out is final |
| `flow_overlap` | two handlers side by side, of two cases or of one case taken off the bus twice; executors that may fail, one breakdown; two attempts per case | what holds of each case under any interleaving: legal transitions, no try without a DECIDE that allowed it, pre-debit notices, the lifecycle refined |
| `flow_wirings` | one case: every wiring on five cases of all personas, any diagnosis, outages that come and go; every type and code at 18 amounts | the verdict is justified, and none is dropped that only failures, gates or an outage kept untried; a case is worked when it is worth it; barred cases untouched; every handler returns |
| `service` | two cases, one customer, one exception and one restart anywhere, two actions a day | what is acknowledged is closed and on the trail; nothing skipped, doubled or overtaken; results shown once; redeliveries keep to the day's budget, counted across the restart, which brings it back once; stored opt-outs survive redeliveries; all that is taken in is closed in the end |
| `gateway` | two payments and a subscription, one payment announced with an event id, the subscription without; one exception, of the endpoint or of a sweep, and one restart, anywhere | ledger and bus agree, and what was answered reached the bus (`IntakeKept`); each case queued at most once per process; a payment that failed is worked in the end |
| `audit` | two threads, records of two cases, three rows, two errors, one restart, a reader with a connection of its own | the chain always verifies, also within an open transaction; what was returned stays; the file only grows; edits and deletions are found at their place; no error keeps the lock; what an answer cites exists |
| `live_loop` | four runs over one client, one retry, a breaker that opens after two failures, answers that take a tick each way, some of them garbled | the verdict fits the link; runs end in time; the breaker leaves the server alone after the second failure and again after a probe that fails |
| `monitor` | the defaults of the code, rates out of 100,000, 55 payments whose outcome turns up to three times | one alert per incident; thirteen failures in a row are reported; no rupee reported twice |
| `comms` | calls of six turns and any drafts; plain, threatening and overlong merchant names | nothing after an opt-out; nothing unscreened said; the outcome is what was heard; drafts lint clean |
| `batch` | two cases of every playbook and four personas, with and without bandit; detection at night offered and refused | the increment over doing nothing is honest and the report adds up; the bandit credits what its messages brought |
| `flow_opt_out_race` | two cases side by side | **violated**: a contact after the customer's opt-out |
| `bus_concurrent` | two consumers | **violated**: an entry acknowledged that no handler finished |

**Bounds.** Two cases are the fewest that share a customer, a budget or a day,
and the rules that span cases relate two contacts, so a third case adds
interleavings but no new kind of conflict; what is said of *any* number of cases
is proved, not checked. A case has at most three steps, which is all its
playbook holds, so cases are explored to their end. Detection hours are the four
at the edges of the quiet hours, less than a gap apart and almost a week
apart. In `flow_overlap`, the two handlers of one case take a playbook of two steps, either
with executors that may fail at each, or with a customer who opts out at the first; a
breakdown falls on a handler of the latter kind, or on one that has its case to itself
(`OverlapBound`; the proof of `EveryActGated` has neither limit). Four contacts a week are reached by two cases five days apart.
`flow_overlap` lowers the attempts to two because a case of three steps cannot
exceed the policy's three, and `service` the budget to two because two cases never
exceed 500: a redelivered case and its neighbour want three actions on one day. Breakdowns and
restarts are bounded by `MaxCrashes` and `MaxRestarts`; one of each can fall between
any two steps, and before or after one another. The amounts of `flow_wirings` are
0, the integers around each break-even point of the tables, 300 above them all, and
amounts on either side of the escalation floor; `HalvesAbove` and `HalvesBelow` list
all the float products up to 300 that fall beside a half.
In `gateway`, one exception and one restart can fall between any two steps and on
either path; a second of either would meet no state that the first has not
cleared. In `audit`, two errors make a row that stays in the open transaction and
a later rollback of it; a third row is the first with a row before and after it.
In `live_loop`, a fourth run is the first that can follow a failed probe; `MaxStart`
leaves room for one cooldown, and no run comes near `MaxTime`, where the deadlock
check would fail. The sizes of timeout, interval and cooldown are scaled down;
what the properties say of them is relative. In `monitor`, 20 payments are the
warm-up; within the other 35 an alert is raised, released and raised again, for
which three turns are the fewest. In `comms`, six turns are the code's `max_turns`.
In `batch`, two cases are enough for a credit to go to the wrong case.

Case ids are a symmetry set in the safety runs of the flow; no run with liveness
uses symmetry. Deadlock is checked everywhere but in `monitor`, which stops at its
bound, and in `bus_concurrent`.

**Fairness.** `run_case` waits for nothing: a thread inside it is scheduled
until it returns, so each `Handle(c)` is weakly fair in `FairSpec` of `RecoveryFlow`.
`Start` is not: nobody has to call `/admin/process`. In `FairServiceSpec` the operator
keeps calling, so that `Process` is weakly fair; exceptions are bounded, since a
handler that raises for ever blocks all that is behind it, which is what the
code does. Outages may come and go without any fairness.
In `Gateway`, a delivery, a sweep and the worker go on once begun; that sweeps and
calls of `/admin/process` are begun again and again is assumed of whoever deploys
it: `gateway/__main__.py` starts no poller at all. No event needs to arrive. In
`FairQuestionsSpec`, a thread inside `append` goes on; the reader need not. `live_loop`
assumes nothing: that a run ends is checked as a deadline (`EndsInTime`), and time
passes only while the loop is waiting for it.

## Findings

1. *Opt-out race* (`flow_opt_out_race`). `has_opted_out` is asked once per case
   (`flow.py:118`). The same window makes two overlapping cases contact a
   customer within 24 hours (`flow.py:186` copies the history once): the gap
   rule is checked and proved for one case at a time only.
2. *Acknowledging somebody else's entry* (`bus_concurrent`). `pop(0)` after the
   handler removes what is first by then. Before that, both threads have handled the
   first entry: two `run_case` of one case id write to one trail, DECIDE, DECIDE, ACT,
   ACT, which is why `GateNotBypassed` counts attempts and permissions where a case
   has two handlers, and asks for the DECIDE right before the ACT only where it has one.
   The claiming loop can likewise claim an entry twice, or one that is not there yet,
   whose IndexError meets every call until the next case is taken in.

Also met, with no run of their own:

*Stores.* `count` at `flow.py:222` and `record` at `flow.py:267` are locked one by one,
so that two overlapping cases can both take the last action of a day (`BudgetKept` is
proved for one case at a time, `BudgetPerProcess` checked and proved for the one worker
of the service); the ACT append at `flow.py:285` comes before `record_opt_out` at
`flow.py:300`, so that an append that raises loses an opt-out that was heard
(`DeclineHonoured` is checked without breakdowns, `OptOutOutlivesCases` begins when the
opt-out is stored); a restart forgets every opt-out, although `README.md` of the
repository (132, 168, 223) says that opt-outs are honoured permanently, and the day's
count, so that a day can see one budget per process (`BudgetPerProcess` says so, and
that it sees no more); `case_from_payload` builds a case with no attempts, so that a
redelivered case can act more often than `max_attempts_per_case` in all (its
contacts are still held apart by the stored history, its retries are not); a case detected within the quiet hours has
that hour at every step, so all its contacts are blocked and it is escalated
unworked, although `flow.py:6-7` calls the clock always daytime; the bus payload
drops method and issuer, so cases of the service have no cell and are never
deferred by an outage; when a later handler of a call raises, the results of the
cases before it, closed and acknowledged, are lost to the dashboard
(`pipeline.py:71`).

*Gateway and client.* The event id is registered before the event is parsed, and
the case before it is taken in (`app.py:68-79`): after an exception between them
the repeated delivery is answered as a duplicate. The payment is then left to the
poller, which is why `FailedIsWorked` excepts only a case whose intake itself has
raised; a subscription or an invoice, which the poller cannot see, is lost, and
`IntakeKept` has to except it. A failed payment without amount or id ends every sweep
whose page holds it (`poller.py:31`), and hides what is behind it in the page;
`FailedIsWorked` lets sweeps raise now and then, not always. `app.py:5-6` says that everything but a bad
signature is answered with 200; an event that cannot be parsed is answered
with 500. A payment link whose creation was answered into the void is refused on
the second attempt (its reference exists): `run` raises, and a link that can be
paid is in no audit record; the same goes for a creation whose answer is garbled. A
poll that fails leaves `run` with the case open.

*Audit.* `README.md:258` of the repository says that editing or deleting *any* historical
record breaks verification. Deleting the last one does not: `verify` has no record
of how far the chain went, and `TamperingDetected` excepts it.

*Monitor.* No code wires the monitor to the outage registry. If somebody did, the
mark would expire after its TTL while the alert stays latched, and nothing would
mark the cell again during the same outage.

*Comms.* The screen of the model's line lies outside of the `try` around the model
(`voice.py:129`): a `say` that is no text raises out of the call. The merchant's name
goes unscreened into script and templates; `drafter.py:125` asserts the templates
for "Acme Store" only, and a name that holds a threat pattern ("Courtyard" holds
"court") or is too long fails its own lint.

*Batch.* `IncrementIsHonest` needs the default `pursue_floor` and detection by day:
with a floor of 0.3 or more, which `tuning.py` tries, abandoned checkouts are not
pursued although some of their customers would have paid by themselves, and the
increment can be negative. A payment that a retry brought is credited to the
message arm of the case.

## Proofs

All hold for every value of the constants that satisfies the named assumptions,
which TLC evaluates in the runs:

* `PolicyAssumption`, `PursueFloorAssumption`, `FlowAssumption`, `AuditAssumption`,
  `MonitorAssumption`, `TurnsAssumption`, `LoopAssumption`, `ClientAssumption`: limits,
  sizes and bounds are natural numbers, and the things that runs draw from are
  of their kind.
* `GatewayAssumption`: an event id belongs to one event, as Razorpay gives them out;
  a payment's id is no other id's, since the ids carry their kind as a prefix.
* `ContentsAssumption`: records are about cases.
* `BatchAssumption`: the cases of a batch are numbered, each has a customer of its own,
  and no budget is met, as `run_batch_full` sets them up.
  `ChooserAssumption`: a case may be bound to any arm.

Powers of two (the backoffs of the client) are known to the provers only as the number
of subsets of a set, a fact of the library: the lemmas on `Spent` go that way.

The flow, for any number of cases, customers, threads and breakdowns:

* `StagesAlwaysKept`: `Spec => [](TypeOK /\ StagesKept)`. The inductive invariant
  is `Inv == TypeOK /\ StagesKept`; `StagesKept` ties the place of a handler to
  the lifecycle state of its case, and is inductive because each step of a case
  reads and writes its own record only. There is a lemma per action. All that
  follows rests on `Inv`.
* `LifecycleRefined`: `Spec => FollowsLifecycle`. Each step of the flow
  maps to one of the lifecycle or to a stutter: transitions are legal because
  the stage fixes the state they start in, and an attempt is below the cap
  because the gate that let it through said so.
* `VerdictsJustified` and `BarredStayUntouched`. A verdict is given long after what
  justifies it; the strengthening `Story` says what must be true of the last
  answer and of the executed actions at every place before: no answer without an
  action, an answer that ends the case is never passed over, and a barred case
  gets nowhere near an action. `Grounds` adds what a case was dropped for before it
  was tried: below the floor or opted out, as `Start` found, or a plan that loses
  money. Opt-outs only grow (`OptOutsGrow`), so what `Start` found is still so
  when the case is closed.
* `EveryActGated`, for any number of handlers, of one case id too. A handler that is
  about to act, or has acted and not yet recorded it, holds a permission (`Holders`);
  `Covered` says of every id and step that the attempts of its trail and the
  permissions held for it together are no more than the permissions of the trail. Any
  step of a handler writes at most two records, of four kinds (`Written`), and each kind
  leaves `Covered` true. For an id with one handler, `Trails` says the stronger thing,
  record by record: whoever holds a permission has it as the last record.
* `NoticeAlwaysGiven` and `QuietForAnyThreads`. The gate checks a copy of the contact
  history, which other threads leave behind. These two rules hold all the same:
  contacts are never taken back (`ContactsStay`), so a notice found in the copy is
  in the store (`Remembered`), and stays there.
* `WorkedAsRanked`: `WorkedIffWorthIt` for every amount, attempt and kind of failure.
  The strengthening `Choices` says at every stage what the ranking has chosen from;
  the rest is arithmetic of the three tables and of rounding half to even. The proof
  attempt showed that the property has to except a customer who has opted out:
  their case stops before it is ranked, and the run had no such customer.
* `SequentialLimits`: with `Threads = 1`, gap, weekly cap, quiet hours and budget,
  over all the cases of all customers. None of the four is inductive: the gate
  checks against a *copy* of the history and against a count read earlier. The
  strengthening adds three facts: `OneAtATime` (one case is in the hands of a
  thread), `HistoryCurrent` (its copy equals the store) and `GateHolds` (what the
  gate allowed it would still allow). With two threads `HistoryCurrent` and
  `GateHolds` fail, which is exactly what the findings show. `BudgetKept` is about the
  actions that were carried out, a history, and not about the counter: that the two
  agree is a conjunct of its own (`Counted`).
* `DeclineEndsContacts`: with `Threads = 1` and `MaxCrashes = 0`, an opt-out heard in
  one case ends the contacts of all of the customer's cases. The strengthening:
  an opt-out that was heard is stored or is the answer in hand (`HeardOrStored`),
  and nothing is under way for a customer whose opt-out is stored
  (`StoredRespected`). A second thread breaks the latter, which is the finding;
  a breakdown between the answer and the store breaks the former, and loses the
  opt-out.

* `HandlersAreBounded`, for any number of threads: what of `HandlerReturns` needs no
  fairness. `StepsAhead` reads off the place of a handler how far it has to go, 14 steps
  at most; each step of a case makes it smaller unless the handler breaks down
  (`NearerOrBroken`), and a case is acted on three times at most: an action takes a step of
  the playbook (`Tally`), and the longest has three.

The service, whatever is raised, redelivered and restarted, for any number of
cases:

* `StreamAlwaysInOrder`, `AckedAlwaysClosed`, `AlwaysShownOnce`. The strengthening
  `ServiceInv` has three parts beside `Inv`: where the worker is in `consume` fixes how
  cursor, pending list and acknowledgements lie to each other (`BusInv`; with one thread,
  what it last read of the cursor is still its value, `ReadsFresh`); only the
  case at the head is in hand, what has been handled is done, and what is done has
  its outcome as the last record of its trail (`CasesInv`); results of calls and of
  the present call are handled entries, in order (`ResultsInv`).
* `ServiceKeepsLimits`, `StoredOptOutHolds`. These need no `Threads = 1`: that the one
  worker has one case in hand (`InHandOnly`) gives `OneAtATime`, and the lemmas of
  `SequentialLimits` carry over to the steps of `Work`. `RunRaises` keeps the stores and
  `Restart` empties them, both of which keep `SeqInv` (`ServiceRules`). Of the actions on a
  day, all but one budget for each earlier process are in the counter (`Counted(Earlier)`),
  which gives `BudgetPerProcess`; `BudgetKept` itself ends with the first restart.
* `ServiceIsAQueue`: intake and returned handlers of the service are the `queue` and the `done`
  of `WorkQueue`, statement by statement (`Served`): what `Gateway` takes its bus and worker
  for. A handler that raises does not show, a restart is `Forget`.

The other components:

* `IntakeAlwaysKept`, `GatewayIsAQueue`. `GatewayInv` says beside `IntakeKept` that a case
  on the bus is in the ledger and in no hand, that endpoint and poller never hold
  the same case (`OnBusOnce`: the ledger registers before the intake, which is what
  keeps the two paths apart), and that a registered event id has been answered, is
  in hand, or a delivery of it has raised (`EventsFollowed`). With that each step
  of endpoint, poller, worker and restart is one of the queue's or a stutter.
* `VerdictAlwaysFits`, `AlwaysEndsInTime`, `ServerIsLeftAlone`, for any number of runs over
  one client, any retries, timeouts and thresholds. `LoopInv` bounds the next
  moment by the place: what attempt of the request is on its way (`InTime`), what
  an answer on its way still says of the link (`HeardOfLink`), and that the
  breaker's clock is the last failure's (`BreakerInv`).
* `ChainAlwaysIntact`, `FileAppendOnly`. `AlwaysIntact` is
  not inductive: a record continues the chain only if the count and the hash it
  was built from still hold when it is inserted. The strengthening says that one
  thread is inside the lock (`LockKept`), that what it has read is current
  (`DraftCurrent`), and that the open transaction extends the file
  (`DiskIsPrefix`).
* `TamperingFound`: `TamperingDetected` in every state; it follows from
  `AlwaysIntact` alone, by two lemmas on tables of any length.
* `NothingReportedTwice`, `AlertsAreLatched`: for any alphas, thresholds and traffic.
  What was reported and what a release has yet to clear stay within what was
  lost; and while the latch is open after an alert, the rate has been near its
  baseline.
* `OutageAlwaysReported`: `OutageReported` for any warm-up, amounts and traffic, when the
  settings are the defaults or more sensitive (`AsSensitiveAsShipped`; with a
  `FastAlpha` of 0 no outage is ever seen) and rates have at least 10,000 steps. The strengthening
  follows a streak with two tables, in ten-thousandths: what the fast average is at
  most and the baseline at least after so many failures. From the ninth on the drop
  exceeds the threshold, a breach freezes the baseline, and five breaches raise.
* `OneThreadIsSafe`: the bus by itself, whatever handlers do. With the lemmas on `BusInv` of
  the service, a single consumer acknowledges only what it has handled
  (`AckedWereHandled`), in order. `bus_concurrent` shows that a second one breaks it.
* `CitationsAlwaysHold`: what the analyst was shown is committed, and the file only
  grows, whatever is written, rolled back or restarted before the answer comes.
* `OptOutEndsCall`, `AgentStaysInBounds`, `DraftsClean`: for calls of any length. The
  strengthening: while the call goes on, nobody has opted out.
* `OutcomeAlwaysHeard`: until the call is over, the two take turns and no reply has told
  anything (`StillTalking`).
* `CreditAlwaysForTheArm`, for any batch and any draws of the bandit. The posteriors count
  sets of cases that grow by one with each `Learn`; that needs the cases before the present
  one to be through and those after it not begun (`Position`), and every message
  of a case to have gone out on the arm that was bound to it (`MessagesOnArm`).
* `BatchAddsUp`: when a batch is through, recovered, escalated and abandoned cases are all
  of them, each once, and those that paid are the recovered (`CasesAddUp`, the
  part of `IncrementIsHonest` that counts and that needs no limits).
* `IncrementAlwaysHonest`: all of `IncrementIsHonest`, sums included, for a batch of any size.
  Its hypothesis `ByDayAsShipped` is what the first *Batch* finding asks for: a floor that
  lets the weakest prior pass, 14:00 outside the quiet hours, an attempt and a contact
  allowed at all; the shipped settings satisfy it. The strengthening
  `CureInv` follows a self-cure customer up to the payment: nothing has been tried on
  them, so the gate has no reason to refuse the last step of a playbook, which is a
  contact (`LastIsContact`); and the daily budget is out of reach, since each of the cases
  so far has made three actions at most (`Tally`, `BudgetIdle`). So whoever pays without
  being asked has paid (`SelfCures` is a subset of `PaidCases`), and the rest is sums:
  their lemmas (`SumGrows`, `SumOfUnion`, `SumOfGroups`) go by a least counterexample, since
  the strict subsets of a finite set are well-founded and a fold takes one element away.
* `CurveCoversBatch`: the quarters of the learning curve of a batch of any size
  neither overlap nor leave a case out, batches below four included.

Model-checked only:

* liveness (`HandlerReturns`, `TakenInIsClosed`, `FailedIsWorked`, `AppendsEnd`), which is out
  of the prover's reach (`HandlersAreBounded` is the part of the first that is not);
* what the two violated runs refute (`DeclineHonoured` of overlapping cases,
  `AckedWereHandled` of two consumers): it does not hold. The first is proved for one
  thread (`DeclineEndsContacts`), the second for one consumer (`OneThreadIsSafe`).

## Plan

1. *Done*: the core (`Domain`, `Compliance`, `Planning`, `PersonaHarness`, `CaseLifecycle`,
   `RecoveryFlow`, `EventBus`), `Gateway` and `WorkQueue`, `AuditChain`, `RazorpayClient` and
   `LiveLoop`.
2. *Done*: the composition of bus, flow and stores under exceptions and restarts
   (`Service`), `Monitor`, `Comms`, `Batch` with the bandit, `LedgerQuestions`; every
   property `flow_overlap` checks, and the verdicts, proved. Then every other safety
   property of a passing run: limits and ranking of the flow, service and its
   refinement, gateway and its refinement, live loop, monitor, calls, answers, credit, and
   the sums of a batch.
3. *Left*: the composition of `AuditChain` with `RecoveryFlow`, in which an append that
   raised may still become permanent; an exception that escapes `_request`
   unrecorded, and audit appends of the live loop that raise; a subscription that
   halts twice; windows with more payments than a page holds.
4. *Left to prove*: of the properties of the runs, liveness only. Of the model, that
   `Gateway` and `Service` compose: both are shown to implement `WorkQueue`, but no module
   puts the statements of `Service` in the place of the worker of `Gateway`.

## Not modelled

The sweep, the tuning and the demos repeat `run_batch` or `run_case` and compare or
print the sums. Dashboards and command lines render what audit chain and results
hold (`ShownOnce` is about that content). `SqliteCaseStore` and `fetch_payment` are
used by nothing in the program. Demo intake is a score and one record; secrets
are a lookup of environment variables. Prompts, evidence packs and wording of
model, drafter and analyst are left out, as is the random sampling of the
bandit, whose choice is an input.

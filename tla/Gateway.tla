-------------------------------- MODULE Gateway --------------------------------
(***************************************************************************)
(* How failed payments become work: the webhook endpoint (gateway/app.py), *)
(* the reconciliation poller (gateway/poller.py), the event ledger they    *)
(* share (gateway/events.py), and the bus between them and the recovery    *)
(* handlers (gateway/pipeline.py).  Here an entry is claimed, handled and  *)
(* acknowledged in one step, by one request to /admin/process at a time;   *)
(* module EventBus has the statements of consume(), handlers that raise    *)
(* (which leave the entry where it is) and requests that overlap.          *)
(*                                                                         *)
(* The endpoint is a coroutine with no suspension after the body is read,  *)
(* so one delivery is dealt with at a time; the poller is a thread beside  *)
(* it.  Each may raise halfway: publishing in memory does not, but intake  *)
(* is whatever the application was given.  A restart of the process        *)
(* clears all that is kept in memory.  Razorpay sends an event until it    *)
(* gets an answer, possibly again after that, and some events never; what  *)
(* fails the signature check changes nothing and is left out.              *)
(***************************************************************************)
EXTENDS Integers, Sequences, FiniteSets

CONSTANTS
  Payments,       \* case ids of payments, which the Payments API lists
  Others,         \* case ids known from webhooks only (subscriptions, invoices)
  None,           \* no event id; no case in the event
  Events,         \* records of an event id and the case the event parses to
  PageSize,       \* count in RazorpayClient.list_payments
  MaxRaised,      \* bound on the deliveries and sweeps that raise
  MaxRestarts     \* bound on restarts

CaseIds == Payments \cup Others

ASSUME GatewayAssumption ==
  /\ IsFiniteSet(CaseIds) /\ None \notin CaseIds /\ None \notin Events
  /\ Payments \cap Others = {}
  /\ \A e \in Events : e.case \in CaseIds \cup {None} /\ e.id \notin CaseIds
  /\ \A e, f \in Events : e.id = f.id /\ e.id # None => e = f
  /\ PageSize \in Nat \ {0}
  /\ MaxRaised \in Nat /\ MaxRestarts \in Nat

VARIABLES
  status,         \* the payments at Razorpay
  answered,       \* the events Razorpay has a 2xx answer for
  seen,           \* EventLedger._seen
  hook,           \* where the endpoint is, and with which event
  poll,           \* where the poller is, its case and the rest of its page
  stream,         \* the case ids on the bus
  done,           \* how many of them have been handled and acknowledged
  raised,         \* history: the events of which a delivery has raised
  dropped,        \* history: the cases whose intake has raised
  raises,         \* deliveries and sweeps that have raised
  restarts,       \* restarts so far
  taken,          \* history: the cases ever put on the bus
  worked          \* history: the cases whose handler has ever returned

intakeVars == <<status, answered, seen, hook, poll, raised, dropped, raises>>
vars == <<intakeVars, stream, done, restarts, taken, worked>>

Idle == [at |-> "idle", event |-> None]
Resting == [at |-> "idle", case |-> None, page |-> {}]

Init ==
  /\ status = [p \in Payments |-> "created"]
  /\ answered = {} /\ seen = {}
  /\ hook = Idle /\ poll = Resting
  /\ stream = <<>> /\ done = 0
  /\ raised = {} /\ dropped = {} /\ raises = 0 /\ restarts = 0
  /\ taken = {} /\ worked = {}

\* At Razorpay, a payment fails or is captured, for good.
Settle(p) ==
  /\ status[p] = "created"
  /\ \E s \in {"failed", "captured"} : status' = [status EXCEPT ![p] = s]
  /\ UNCHANGED <<answered, seen, hook, poll, raised, dropped, raises,
                 stream, done, restarts, taken, worked>>

Keep == UNCHANGED <<status, stream, done, restarts, taken, worked>>

\* The event id is registered before anything else is looked at.
Deliver(e) ==
  /\ hook = Idle
  /\ e.case \in Payments => status[e.case] = "failed"
  /\ IF e.id \in seen
     THEN answered' = answered \cup {e} /\ UNCHANGED <<seen, hook>>
     ELSE /\ seen' = IF e.id = None THEN seen ELSE seen \cup {e.id}
          /\ hook' = [at |-> "parse", event |-> e]
          /\ UNCHANGED answered
  /\ UNCHANGED <<poll, raised, dropped, raises>> /\ Keep

\* parse_event, and the ledger's check of the case.
Parse ==
  LET case == hook.event.case
  IN /\ hook.at = "parse"
     /\ IF case = None \/ case \in seen
        THEN hook' = Idle /\ answered' = answered \cup {hook.event} /\ UNCHANGED seen
        ELSE /\ hook' = [hook EXCEPT !.at = "intake"] /\ seen' = seen \cup {case}
             /\ UNCHANGED answered
     /\ UNCHANGED <<poll, raised, dropped, raises>> /\ Keep

\* Mutated form of ParseRaises: the case is in the ledger by then.
ParseRaisesRegistered ==
  /\ hook.at = "parse" /\ raises < MaxRaised
  /\ raises' = raises + 1 /\ raised' = raised \cup {hook.event}
  /\ seen' = seen \cup ({hook.event.case} \ {None})
  /\ hook' = Idle
  /\ UNCHANGED <<answered, poll, dropped>> /\ Keep

\* The body is no JSON or lacks a field: 500, and the event id stays in.
ParseRaises ==
  /\ hook.at = "parse" /\ raises < MaxRaised
  /\ raises' = raises + 1 /\ raised' = raised \cup {hook.event}
  /\ hook' = Idle
  /\ UNCHANGED <<answered, seen, poll, dropped>> /\ Keep

\* RecoveryService.enqueue.
Enqueue(case) ==
  /\ stream' = Append(stream, case)
  /\ UNCHANGED done
  /\ taken' = taken \cup {case}

HookTakesIn ==
  /\ hook.at = "intake"
  /\ Enqueue(hook.event.case)
  /\ answered' = answered \cup {hook.event}
  /\ hook' = Idle
  /\ UNCHANGED <<status, seen, poll, raised, dropped, raises, restarts, worked>>

HookIntakeRaises ==
  /\ hook.at = "intake" /\ raises < MaxRaised
  /\ raises' = raises + 1 /\ raised' = raised \cup {hook.event}
  /\ dropped' = dropped \cup {hook.event.case}
  /\ hook' = Idle
  /\ UNCHANGED <<answered, seen, poll>> /\ Keep

\* list_payments: one page, never the next one; only its failures matter.
Sweep ==
  /\ poll = Resting
  /\ \E page \in SUBSET Payments :
       /\ Cardinality(page) = IF Cardinality(Payments) < PageSize
                              THEN Cardinality(Payments) ELSE PageSize
       /\ poll' = [at |-> "sweep", case |-> None,
                   page |-> {p \in page : status[p] = "failed"}]
  /\ UNCHANGED <<answered, seen, hook, raised, dropped, raises>> /\ Keep

\* Mutated form of Examine: the poller does not ask the ledger.
ExamineUnchecked(p) ==
  /\ poll.at = "sweep" /\ p \in poll.page
  /\ poll' = [at |-> "intake", case |-> p, page |-> poll.page \ {p}]
  /\ seen' = seen \cup {p}
  /\ UNCHANGED <<answered, hook, raised, dropped, raises>> /\ Keep

\* EventLedger.register tests and adds under its lock.
Examine(p) ==
  /\ poll.at = "sweep" /\ p \in poll.page
  /\ poll' = IF p \in seen THEN [poll EXCEPT !.page = @ \ {p}]
             ELSE [at |-> "intake", case |-> p, page |-> poll.page \ {p}]
  /\ seen' = seen \cup {p}
  /\ UNCHANGED <<answered, hook, raised, dropped, raises>> /\ Keep

\* case_from_payment_entity raises on an entity without amount or id: the rest
\* of the page, as far as it is behind it, is left to the next sweep.
ExamineRaises ==
  /\ poll.at = "sweep" /\ raises < MaxRaised
  /\ raises' = raises + 1
  /\ poll' = Resting
  /\ UNCHANGED <<answered, seen, hook, raised, dropped>> /\ Keep

PollTakesIn ==
  /\ poll.at = "intake"
  /\ Enqueue(poll.case)
  /\ poll' = [poll EXCEPT !.at = "sweep", !.case = None]
  /\ UNCHANGED <<status, answered, seen, hook, raised, dropped, raises, restarts, worked>>

\* The rest of the page is left to the next sweep.
PollIntakeRaises ==
  /\ poll.at = "intake" /\ raises < MaxRaised
  /\ raises' = raises + 1
  /\ dropped' = dropped \cup {poll.case}
  /\ poll' = Resting
  /\ UNCHANGED <<answered, seen, hook, raised>> /\ Keep

Swept ==
  /\ poll.at = "sweep" /\ poll.page = {}
  /\ poll' = Resting
  /\ UNCHANGED <<answered, seen, hook, raised, dropped, raises>> /\ Keep

\* A request to /admin/process, as far as one entry goes.
Process ==
  /\ done < Len(stream)
  /\ done' = done + 1
  /\ worked' = worked \cup {stream[done + 1]}
  /\ UNCHANGED <<intakeVars, stream, restarts, taken>>

\* Mutated form of Restart: the ledger is durable, the bus is not.
RestartWithLedger ==
  /\ restarts < MaxRestarts
  /\ restarts' = restarts + 1
  /\ hook' = Idle /\ poll' = Resting
  /\ stream' = <<>> /\ done' = 0
  /\ UNCHANGED <<status, answered, seen, raised, dropped, raises, taken, worked>>

\* The process ends and starts anew.
Restart ==
  /\ restarts < MaxRestarts
  /\ restarts' = restarts + 1
  /\ seen' = {} /\ hook' = Idle /\ poll' = Resting
  /\ stream' = <<>> /\ done' = 0
  /\ UNCHANGED <<status, answered, raised, dropped, raises, taken, worked>>

Hook == Parse \/ ParseRaises \/ HookTakesIn \/ HookIntakeRaises

Poll ==
  \/ \E p \in Payments : Examine(p)
  \/ ExamineRaises \/ PollTakesIn \/ PollIntakeRaises \/ Swept

Next ==
  \/ \E p \in Payments : Settle(p)
  \/ \E e \in Events : Deliver(e)
  \/ Hook \/ Sweep \/ Poll
  \/ Process
  \/ Restart

Spec == Init /\ [][Next]_vars

\* The endpoint, a sweep and consume() go on once they have begun.  That sweeps
\* are begun and /admin/process is called again and again is an assumption on
\* the deployment: nothing in the code schedules either.  Events need not come.
FairSpec ==
  /\ Spec
  /\ WF_vars(Hook) /\ WF_vars(Sweep) /\ WF_vars(Poll) /\ WF_vars(Process)

-----------------------------------------------------------------------------

InHand ==
  {c \in CaseIds : \/ hook.at = "intake" /\ hook.event.case = c
                   \/ poll.at = "intake" /\ poll.case = c}

OnBus == {stream[i] : i \in DOMAIN stream}

\* The ledger and the bus agree, whatever raises and whenever the process is
\* restarted: a case the ledger would turn away is on the bus, or somebody is
\* about to put it there, or its intake has raised; and an event of which
\* Razorpay was told that it arrived, and which the poller would not find, has
\* reached the bus, unless a delivery of it has raised.
IntakeKept ==
  /\ seen \cap CaseIds \subseteq OnBus \cup InHand \cup dropped
  /\ \A e \in answered :
       e.case \in Others => e.case \in taken \cup dropped \/ e \in raised

\* Endpoint, poller, ledger and bus together are a queue without duplicates,
\* worked in order, each case once: "a payment seen on either path is processed
\* exactly once".
Queue == INSTANCE WorkQueue
  WITH Items <- CaseIds, queue <- stream, done <- done

WorksLikeAQueue == Queue!Spec

\* A payment that fails is in the end worked, if not one webhook arrives, and
\* in spite of deliveries, sweeps, handlers and processes that break down now
\* and then, unless its intake was what raised.
FailedIsWorked ==
  \A p \in Payments : status[p] = "failed" ~> p \in worked \cup dropped
=============================================================================

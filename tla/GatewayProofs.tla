----------------------------- MODULE GatewayProofs -----------------------------
(***************************************************************************)
(* The intake of Gateway keeps what it was told of and works like a queue: *)
(* for any payments, subscriptions and events, any size of a page, however *)
(* often deliveries and sweeps raise and the process is restarted.         *)
(***************************************************************************)
EXTENDS Gateway, TLAPS

(***************************************************************************)
(* The inductive invariant.                                                *)
(***************************************************************************)
Hooks ==
  {h \in [at : {"idle", "parse", "intake"}, event : Events \cup {None}] :
     /\ h.at = "idle" => h = Idle
     /\ h.at # "idle" => h.event \in Events
     /\ h.at = "intake" => h.event.case \in CaseIds}

Polls ==
  {q \in [at : {"idle", "sweep", "intake"}, case : Payments \cup {None},
          page : SUBSET Payments] :
     /\ q.at = "idle" => q = Resting
     /\ q.at = "intake" => q.case \in Payments}

Typed ==
  /\ hook \in Hooks /\ poll \in Polls
  /\ stream \in Seq(CaseIds) /\ done \in 0..Len(stream)
  /\ None \notin seen
  /\ answered \subseteq Events

\* A case on the bus was put there, and is known to the ledger as long as both
\* live; a case in somebody's hand is known too, is not on the bus, and is in
\* the hand of one only.
OnBusOnce ==
  /\ OnBus \subseteq taken \cap seen
  /\ InHand \subseteq seen
  /\ InHand \cap OnBus = {}
  /\ hook.at = "intake" /\ poll.at = "intake" => hook.event.case # poll.case

\* An event id in the ledger stands for an event that Razorpay has an answer
\* for, or is about to get one for, or a delivery of which has raised.
EventsFollowed ==
  \A e \in Events : e.id \in seen => hook.event = e \/ e \in answered \/ e \in raised

GatewayInv == Typed /\ OnBusOnce /\ EventsFollowed /\ IntakeKept

-----------------------------------------------------------------------------
LEMMA InitOk == Init => GatewayInv
<1>. SUFFICES ASSUME Init  PROVE GatewayInv
  OBVIOUS
<1>1. Typed
  BY DEF Init, Typed, Hooks, Polls, Idle, Resting
<1>2. InHand = {} /\ OnBus = {}
  BY DEF Init, InHand, OnBus, Idle, Resting
<1>. QED
  BY <1>1, <1>2 DEF Init, GatewayInv, OnBusOnce, EventsFollowed, IntakeKept, Idle, Resting

\* Nothing is in hand but what endpoint and poller are about to put on the bus.
LEMMA HandOf ==
  ASSUME Typed
  PROVE  InHand = (IF hook.at = "intake" THEN {hook.event.case} ELSE {})
                    \cup (IF poll.at = "intake" THEN {poll.case} ELSE {})
BY DEF InHand, Typed, Hooks, Polls, CaseIds

\* What is put on the bus is appended to what is there.
LEMMA Enqueued ==
  ASSUME stream \in Seq(CaseIds), NEW c \in CaseIds, Enqueue(c)
  PROVE  /\ OnBus' = OnBus \cup {c}
         /\ stream' \in Seq(CaseIds) /\ Len(stream') = Len(stream) + 1
<1>1. /\ DOMAIN stream' = DOMAIN stream \cup {Len(stream) + 1}
      /\ stream'[Len(stream) + 1] = c
      /\ \A i \in DOMAIN stream : stream'[i] = stream[i]
      /\ stream' \in Seq(CaseIds) /\ Len(stream') = Len(stream) + 1
  BY DEF Enqueue
<1>. QED
  BY <1>1 DEF OnBus

-----------------------------------------------------------------------------
(* One lemma per action. *)

\* What a step that leaves ledger, bus and hands alone has to see to.
LEMMA SameIntake ==
  ASSUME GatewayInv, Typed', InHand' = InHand, UNCHANGED <<hook, stream, seen, taken>>,
         answered \subseteq answered', raised \subseteq raised', dropped \subseteq dropped',
         \A e \in answered' : e \in answered,
         poll'.at = "intake" => poll' = poll
  PROVE  GatewayInv'
<1>1. OnBus' = OnBus
  BY DEF OnBus
<1>2. OnBusOnce'
  BY <1>1 DEF GatewayInv, OnBusOnce
<1>3. EventsFollowed'
  BY DEF GatewayInv, EventsFollowed
<1>4. IntakeKept'
  BY <1>1 DEF GatewayInv, IntakeKept
<1>. QED
  BY <1>2, <1>3, <1>4 DEF GatewayInv

LEMMA SettleKeeps == ASSUME GatewayInv, NEW p \in Payments, Settle(p)  PROVE GatewayInv'
<1>1. Typed' /\ InHand' = InHand
  BY DEF GatewayInv, Typed, Settle, InHand
<1>. QED
  BY <1>1, SameIntake DEF Settle

LEMMA DeliverKeeps == ASSUME GatewayInv, NEW e \in Events, Deliver(e)  PROVE GatewayInv'
<1>. USE DEF Deliver, Keep
<1>0. e.id \notin CaseIds /\ hook.at = "idle"
  BY GatewayAssumption DEF Idle
<1>1. Typed'
  BY DEF GatewayInv, Typed, Hooks, Polls
<1>2. InHand' = InHand /\ OnBus' = OnBus
  BY <1>0 DEF InHand, OnBus
<1>3. OnBusOnce'
  BY <1>0, <1>2 DEF GatewayInv, OnBusOnce
<1>4. EventsFollowed'
  <2>. SUFFICES ASSUME NEW f \in Events, f.id \in seen'
                PROVE  hook'.event = f \/ f \in answered' \/ f \in raised'
    BY DEF EventsFollowed
  <2>1. CASE f.id \in seen
    BY <2>1, GatewayAssumption DEF GatewayInv, EventsFollowed, Idle
  <2>2. CASE f.id \notin seen
    BY <2>2, GatewayAssumption
  <2>. QED
    BY <2>1, <2>2
<1>5. IntakeKept'
  <2>1. seen' \cap CaseIds = seen \cap CaseIds
    BY <1>0
  <2>2. ASSUME e \in answered', e \notin answered  PROVE e \in raised
    BY <2>2, GatewayAssumption DEF GatewayInv, EventsFollowed, Idle
  <2>. QED
    BY <1>2, <2>1, <2>2 DEF GatewayInv, IntakeKept
<1>. QED
  BY <1>1, <1>3, <1>4, <1>5 DEF GatewayInv

\* Parse finds nothing new: the endpoint answers and rests.
LEMMA TurnedAway ==
  ASSUME GatewayInv, Parse, hook.event.case = None \/ hook.event.case \in seen
  PROVE  GatewayInv'
<1>. DEFINE e == hook.event
<1>0. /\ e \in Events /\ hook.at = "parse" /\ hook' = Idle /\ seen' = seen
      /\ answered' = answered \cup {e}
      /\ UNCHANGED <<poll, raised, dropped, stream, done, taken>>
  BY DEF Parse, Keep, GatewayInv, Typed, Hooks
<1>. HIDE DEF e
<1>1. Typed'
  BY <1>0 DEF GatewayInv, Typed, Hooks, Idle
<1>2. InHand' = InHand /\ OnBus' = OnBus
  BY <1>0 DEF InHand, OnBus, Idle
<1>3. OnBusOnce'
  BY <1>0, <1>2 DEF GatewayInv, OnBusOnce, Idle
<1>4. EventsFollowed'
  BY <1>0 DEF GatewayInv, EventsFollowed, e
<1>5. e.case \in Others => e.case \in taken \cup dropped
  <2>1. e.case \in Others => e.case \in OnBus \cup InHand \cup dropped
    BY GatewayAssumption DEF GatewayInv, IntakeKept, CaseIds, e
  <2>2. e.case \in Others => e.case \notin InHand
    BY <1>0, HandOf, GatewayAssumption DEF GatewayInv, Typed, Polls
  <2>. QED
    BY <2>1, <2>2 DEF GatewayInv, OnBusOnce
<1>6. IntakeKept'
  BY <1>0, <1>2, <1>5 DEF GatewayInv, IntakeKept
<1>. QED
  BY <1>1, <1>3, <1>4, <1>6 DEF GatewayInv

\* Parse finds a case that the ledger does not know.
LEMMA PassedOn ==
  ASSUME GatewayInv, Parse, hook.event.case # None, hook.event.case \notin seen
  PROVE  GatewayInv'
<1>. DEFINE case == hook.event.case
<1>0. /\ hook.event \in Events /\ hook.at = "parse" /\ hook.event.case \in CaseIds
      /\ hook' = [hook EXCEPT !.at = "intake"] /\ seen' = seen \cup {hook.event.case}
      /\ UNCHANGED <<poll, answered, raised, dropped, stream, done, taken>>
  BY GatewayAssumption DEF Parse, Keep, GatewayInv, Typed, Hooks
<1>1. Typed'
  BY <1>0 DEF GatewayInv, Typed, Hooks, Idle
<1>2. InHand' = InHand \cup {hook.event.case} /\ OnBus' = OnBus
  BY <1>0, <1>1, HandOf DEF InHand, OnBus, GatewayInv, Typed, Hooks
<1>3. OnBusOnce'
  BY <1>0, <1>2, HandOf DEF GatewayInv, OnBusOnce, Typed, Hooks
<1>4. EventsFollowed'
  BY <1>0, GatewayAssumption DEF GatewayInv, EventsFollowed, Typed, Hooks
<1>5. IntakeKept'
  BY <1>0, <1>2 DEF GatewayInv, IntakeKept
<1>. QED
  BY <1>1, <1>3, <1>4, <1>5 DEF GatewayInv

LEMMA ParseKeeps == ASSUME GatewayInv, Parse  PROVE GatewayInv'
BY TurnedAway, PassedOn

LEMMA ParseRaisesKeeps == ASSUME GatewayInv, ParseRaises  PROVE GatewayInv'
<1>0. /\ hook.at = "parse" /\ hook' = Idle /\ raised' = raised \cup {hook.event}
      /\ UNCHANGED <<poll, answered, seen, dropped, stream, done, taken>>
  BY DEF ParseRaises, Keep
<1>1. Typed'
  BY <1>0 DEF GatewayInv, Typed, Hooks, Idle
<1>2. InHand' = InHand /\ OnBus' = OnBus
  BY <1>0 DEF InHand, OnBus, Idle
<1>3. OnBusOnce'
  BY <1>0, <1>2 DEF GatewayInv, OnBusOnce, Idle
<1>4. EventsFollowed' /\ IntakeKept'
  BY <1>0, <1>2 DEF GatewayInv, EventsFollowed, IntakeKept
<1>. QED
  BY <1>1, <1>3, <1>4 DEF GatewayInv

LEMMA HookTakesInKeeps == ASSUME GatewayInv, HookTakesIn  PROVE GatewayInv'
<1>0. /\ hook.at = "intake" /\ hook' = Idle /\ answered' = answered \cup {hook.event}
      /\ UNCHANGED <<poll, seen, raised, dropped>>
      /\ Enqueue(hook.event.case) /\ hook.event \in Events /\ hook.event.case \in CaseIds
  BY DEF HookTakesIn, GatewayInv, Typed, Hooks
<1>1. Typed'
  BY <1>0, Enqueued DEF GatewayInv, Typed, Hooks, Polls, Idle, Enqueue
<1>2. /\ OnBus' = OnBus \cup {hook.event.case} /\ taken' = taken \cup {hook.event.case}
      /\ InHand = InHand' \cup {hook.event.case}
      /\ hook.event.case \notin InHand'
  BY <1>0, <1>1, Enqueued, HandOf DEF Enqueue, GatewayInv, Typed, OnBusOnce, InHand, Idle
<1>3. OnBusOnce'
  BY <1>0, <1>2 DEF GatewayInv, OnBusOnce, Idle
<1>4. EventsFollowed'
  BY <1>0 DEF GatewayInv, EventsFollowed
<1>5. IntakeKept'
  BY <1>0, <1>2 DEF GatewayInv, IntakeKept
<1>. QED
  BY <1>1, <1>3, <1>4, <1>5 DEF GatewayInv

LEMMA HookIntakeRaisesKeeps == ASSUME GatewayInv, HookIntakeRaises  PROVE GatewayInv'
<1>0. /\ hook.at = "intake" /\ hook' = Idle /\ raised' = raised \cup {hook.event}
      /\ dropped' = dropped \cup {hook.event.case}
      /\ UNCHANGED <<poll, answered, seen, stream, done, taken>>
  BY DEF HookIntakeRaises, Keep
<1>1. Typed'
  BY <1>0 DEF GatewayInv, Typed, Hooks, Idle
<1>2. InHand \subseteq InHand' \cup {hook.event.case} /\ InHand' \subseteq InHand
      /\ OnBus' = OnBus
  BY <1>0 DEF InHand, OnBus, Idle
<1>3. OnBusOnce'
  BY <1>0, <1>2 DEF GatewayInv, OnBusOnce, Idle
<1>4. EventsFollowed' /\ IntakeKept'
  BY <1>0, <1>2 DEF GatewayInv, EventsFollowed, IntakeKept
<1>. QED
  BY <1>1, <1>3, <1>4 DEF GatewayInv

LEMMA SweepKeeps == ASSUME GatewayInv, Sweep  PROVE GatewayInv'
<1>1. /\ poll = Resting /\ poll'.at = "sweep" /\ poll' \in Polls
      /\ UNCHANGED <<hook, stream, done, seen, taken, answered, raised, dropped>>
  BY DEF Sweep, Keep, Polls
<1>2. Typed' /\ InHand' = InHand
  BY <1>1 DEF GatewayInv, Typed, InHand, Resting
<1>. QED
  BY <1>1, <1>2, SameIntake

LEMMA ExamineKeeps == ASSUME GatewayInv, NEW p \in Payments, Examine(p)  PROVE GatewayInv'
<1>0. /\ poll.at = "sweep" /\ p \in CaseIds /\ p # None
      /\ UNCHANGED <<hook, stream, done, taken, answered, raised, dropped>>
  BY GatewayAssumption DEF Examine, Keep, CaseIds
<1>1. CASE p \in seen
  <2>1. seen' = seen /\ poll' = [poll EXCEPT !.page = @ \ {p}]
    BY <1>1 DEF Examine
  <2>2. Typed'
    BY <1>0, <2>1 DEF GatewayInv, Typed, Polls
  <2>3. poll'.at = "sweep"
    BY <1>0, <2>1 DEF GatewayInv, Typed, Polls
  <2>4. InHand' = InHand
    BY <1>0, <2>3 DEF InHand
  <2>. QED
    BY <1>0, <2>1, <2>2, <2>3, <2>4, SameIntake
<1>2. CASE p \notin seen
  <2>1. /\ seen' = seen \cup {p}
        /\ poll' = [at |-> "intake", case |-> p, page |-> poll.page \ {p}]
    BY <1>2 DEF Examine
  <2>2. Typed'
    BY <1>0, <2>1 DEF GatewayInv, Typed, Polls
  <2>3. InHand' = InHand \cup {p} /\ OnBus' = OnBus
    BY <1>0, <2>1 DEF InHand, OnBus
  <2>4. hook.at = "intake" => hook.event.case # p
    BY <1>2, HandOf DEF GatewayInv, OnBusOnce
  <2>5. OnBusOnce'
    BY <1>0, <1>2, <2>1, <2>3, <2>4 DEF GatewayInv, OnBusOnce
  <2>6. EventsFollowed'
    BY <1>0, <2>1, GatewayAssumption DEF GatewayInv, EventsFollowed
  <2>7. IntakeKept'
    BY <1>0, <2>1, <2>3 DEF GatewayInv, IntakeKept
  <2>. QED
    BY <2>2, <2>5, <2>6, <2>7 DEF GatewayInv
<1>. QED
  BY <1>1, <1>2

LEMMA PollTakesInKeeps == ASSUME GatewayInv, PollTakesIn  PROVE GatewayInv'
<1>0. /\ poll.at = "intake" /\ poll' = [poll EXCEPT !.at = "sweep", !.case = None]
      /\ UNCHANGED <<hook, seen, answered, raised, dropped>>
      /\ Enqueue(poll.case) /\ poll.case \in CaseIds
  BY DEF PollTakesIn, GatewayInv, Typed, Polls, CaseIds
<1>1. Typed' /\ poll'.at = "sweep"
  <2>1. poll' \in Polls /\ poll'.at = "sweep"
    BY <1>0 DEF GatewayInv, Typed, Polls
  <2>. QED
    BY <1>0, <2>1, Enqueued DEF GatewayInv, Typed, Enqueue
<1>2. /\ OnBus' = OnBus \cup {poll.case} /\ taken' = taken \cup {poll.case}
      /\ InHand = InHand' \cup {poll.case}
      /\ poll.case \notin InHand'
  BY <1>0, <1>1, Enqueued, HandOf DEF Enqueue, GatewayInv, Typed, OnBusOnce, InHand
<1>3. OnBusOnce'
  BY <1>0, <1>1, <1>2 DEF GatewayInv, OnBusOnce
<1>4. EventsFollowed' /\ IntakeKept'
  BY <1>0, <1>2 DEF GatewayInv, EventsFollowed, IntakeKept
<1>. QED
  BY <1>1, <1>3, <1>4 DEF GatewayInv

LEMMA PollIntakeRaisesKeeps == ASSUME GatewayInv, PollIntakeRaises  PROVE GatewayInv'
<1>0. /\ poll.at = "intake" /\ poll' = Resting /\ dropped' = dropped \cup {poll.case}
      /\ UNCHANGED <<hook, seen, answered, raised, stream, done, taken>>
  BY DEF PollIntakeRaises, Keep
<1>1. Typed'
  BY <1>0 DEF GatewayInv, Typed, Polls, Resting
<1>2. InHand \subseteq InHand' \cup {poll.case} /\ InHand' \subseteq InHand
      /\ OnBus' = OnBus
  BY <1>0 DEF InHand, OnBus, Resting
<1>3. OnBusOnce' /\ EventsFollowed' /\ IntakeKept'
  BY <1>0, <1>2 DEF GatewayInv, OnBusOnce, EventsFollowed, IntakeKept, Resting
<1>. QED
  BY <1>1, <1>3 DEF GatewayInv

LEMMA SweptKeeps == ASSUME GatewayInv, Swept \/ ExamineRaises  PROVE GatewayInv'
<1>1. /\ poll.at = "sweep" /\ poll' = Resting
      /\ UNCHANGED <<hook, stream, done, seen, taken, answered, raised, dropped>>
  BY DEF Swept, ExamineRaises, Keep
<1>2. Typed' /\ InHand' = InHand /\ poll'.at = "idle"
  BY <1>1 DEF GatewayInv, Typed, Polls, InHand, Resting
<1>. QED
  BY <1>1, <1>2, SameIntake

LEMMA ProcessKeeps == ASSUME GatewayInv, Process  PROVE GatewayInv'
<1>1. Typed' /\ InHand' = InHand
  BY DEF GatewayInv, Typed, Process, intakeVars, InHand
<1>. QED
  BY <1>1, SameIntake DEF Process, intakeVars

LEMMA RestartKeeps == ASSUME GatewayInv, Restart  PROVE GatewayInv'
<1>1. Typed'
  BY DEF GatewayInv, Typed, Restart, Hooks, Polls, Idle, Resting
<1>2. InHand' = {} /\ OnBus' = {}
  BY DEF Restart, InHand, OnBus, Idle, Resting
<1>. QED
  BY <1>1, <1>2
     DEF Restart, GatewayInv, OnBusOnce, EventsFollowed, IntakeKept, Idle, Resting

LEMMA GatewayStep == ASSUME GatewayInv, [Next]_vars  PROVE GatewayInv'
<1>1. CASE UNCHANGED vars
  <2>1. Typed' /\ InHand' = InHand
    BY <1>1 DEF GatewayInv, Typed, vars, intakeVars, InHand
  <2>. QED
    BY <1>1, <2>1, SameIntake DEF vars, intakeVars
<1>2. CASE Hook \/ Poll
  BY <1>2, ParseKeeps, ParseRaisesKeeps, HookTakesInKeeps, HookIntakeRaisesKeeps,
     ExamineKeeps, PollTakesInKeeps, PollIntakeRaisesKeeps, SweptKeeps DEF Hook, Poll
<1>. QED
  BY <1>1, <1>2, SettleKeeps, DeliverKeeps, SweepKeeps, ProcessKeeps, RestartKeeps DEF Next

\* Ledger and bus agree: whatever the endpoint and the poller were told of is
\* on the bus, about to be, or was lost to an exception of the intake, and
\* Razorpay is told "200" for nothing less; for any deliveries, duplicates,
\* sweeps, exceptions and restarts.
THEOREM IntakeAlwaysKept == Spec => []IntakeKept
<1>1. GatewayInv => IntakeKept
  BY DEF GatewayInv
<1>. QED
  BY <1>1, InitOk, GatewayStep, PTL DEF Spec

(***************************************************************************)
(* The refinement.                                                         *)
(***************************************************************************)
\* What is put on the bus was in nobody's hand twice and is not there yet.
LEMMA EnqueueTakesIn ==
  ASSUME Typed, NEW c \in CaseIds, c \notin OnBus, Enqueue(c)
  PROVE  Queue!TakeIn
BY DEF OnBus, Enqueue, Queue!TakeIn

LEMMA StepIsAllowed == ASSUME GatewayInv, [Next]_vars  PROVE [Queue!Next]_<<stream, done>>
<1>1. CASE HookTakesIn
  <2>1. Enqueue(hook.event.case) /\ hook.event.case \in CaseIds \ OnBus
    BY <1>1, HandOf DEF HookTakesIn, GatewayInv, Typed, Hooks, OnBusOnce
  <2>. QED
    BY <2>1, EnqueueTakesIn DEF GatewayInv, Queue!Next
<1>2. CASE PollTakesIn
  <2>1. Enqueue(poll.case) /\ poll.case \in CaseIds \ OnBus
    BY <1>2, HandOf DEF PollTakesIn, GatewayInv, Typed, Polls, OnBusOnce, CaseIds
  <2>. QED
    BY <2>1, EnqueueTakesIn DEF GatewayInv, Queue!Next
<1>3. CASE Process
  BY <1>3 DEF Process, Queue!Next, Queue!Work
<1>4. CASE Restart
  BY <1>4 DEF Restart, Queue!Next, Queue!Forget
<1>5. ASSUME ~HookTakesIn, ~PollTakesIn, ~Process, ~Restart
      PROVE  UNCHANGED <<stream, done>>
  BY <1>5 DEF Next, vars, Hook, Poll, Keep, Settle, Deliver, Parse, ParseRaises,
              HookIntakeRaises, Sweep, Examine, ExamineRaises, PollIntakeRaises, Swept
<1>. QED
  BY <1>1, <1>2, <1>3, <1>4, <1>5

\* Endpoint, poller, ledger and bus implement the queue of WorkQueue: no case
\* is taken in twice while the process lives, whichever paths it comes by and
\* however deliveries and sweeps interleave, and what is taken in is worked in
\* that order, each case once.
THEOREM GatewayIsAQueue == Spec => WorksLikeAQueue
<1>1. Init => Queue!Init
  BY DEF Init, Queue!Init
<1>. QED
  BY <1>1, InitOk, GatewayStep, StepIsAllowed, PTL DEF Spec, WorksLikeAQueue, Queue!Spec
=============================================================================

-------------------------------- MODULE LiveLoop --------------------------------
(***************************************************************************)
(* actuators/live_loop.py over the client: create a payment link, poll it  *)
(* until it is paid or the deadline has passed, close the case.  The loop  *)
(* may be run again with the same client, whose breaker remembers.  The    *)
(* server refuses a reference it has a link for; each run has a reference  *)
(* of its own (it holds the second at which the run began).  A customer    *)
(* may pay a link as long as it exists, whoever still looks at it.         *)
(***************************************************************************)
EXTENDS RazorpayClient, Sequences

CONSTANTS
  PollInterval,   \* poll_interval_s, in ticks
  Timeout,        \* timeout_s, in ticks
  MaxRuns,        \* bound on the runs
  MaxStart,       \* bound on when a run begins
  MaxTime         \* bound on the clock, which no run gets to

ASSUME LoopAssumption ==
  /\ PollInterval \in Nat \ {0} /\ Timeout \in Nat
  /\ MaxRuns \in Nat /\ MaxStart \in Nat /\ MaxTime \in Nat

VARIABLES
  stage,          \* where run() is
  runs,           \* runs begun
  deadline,       \* of the present run
  case,           \* state of its case, "none" before it is built
  trail,          \* stages of its audit records
  linkAt,         \* when the server created its link
  paidAt          \* when the customer paid it

loopVars == <<stage, runs, deadline, case, trail>>
serverVars == <<linkAt, paidAt>>
vars == <<now, clientVars, loopVars, serverVars>>

Init ==
  /\ ClientInit
  /\ stage = "idle" /\ runs = 0 /\ deadline = 0
  /\ case = "none" /\ trail = <<>>
  /\ linkAt = Never /\ paidAt = Never

\* Time passes while something is waited for, and between runs.
Tick ==
  /\ now < MaxTime
  /\ \/ now < until /\ UNCHANGED until
     \/ stage = "idle" /\ now = until /\ now < MaxStart /\ until' = now + 1
  /\ now' = now + 1
  /\ UNCHANGED <<failures, openedAt, req, streak, lastFailed, loopVars, serverVars>>

Pay ==
  /\ linkAt # Never /\ paidAt = Never
  /\ paidAt' = now
  /\ UNCHANGED <<now, clientVars, loopVars, linkAt>>

\* run() begins by asking for the link.
Run ==
  /\ stage = "idle" /\ runs < MaxRuns /\ now <= MaxStart
  /\ stage' = "create" /\ runs' = runs + 1
  /\ deadline' = 0 /\ case' = "none" /\ trail' = <<>>
  /\ linkAt' = Never /\ paidAt' = Never
  /\ UNCHANGED <<now, clientVars>>

\* POST /v1/payment_links: a link, a refusal (there is one for the reference,
\* or the request is not to Razorpay's liking), or a 5xx that changes nothing.
\* A garbled answer is a success whose body is no JSON or lacks a field.
HandleCreate ==
  /\ stage = "create"
  /\ \/ linkAt = Never /\ (\E a \in {"created", "garbled"} : Handled(a)) /\ linkAt' = now
     \/ Handled("refused") /\ UNCHANGED linkAt
     \/ Handled("unavailable") /\ UNCHANGED linkAt
  /\ UNCHANGED <<now, loopVars, paidAt>>

\* GET /v1/payment_links/<id>.
HandleFetch ==
  /\ stage = "fetch"
  /\ \/ Handled(IF paidAt = Never THEN "created" ELSE "paid")
     \/ \E a \in {"garbled", "refused", "unavailable"} : Handled(a)
  /\ UNCHANGED <<now, loopVars, serverVars>>

Client ==
  /\ \/ stage \in {"create", "fetch"} /\ Admit
     \/ ClientStep
  /\ UNCHANGED <<now, loopVars, serverVars>>

Settled == req' = NoRequest /\ UNCHANGED <<until, failures, openedAt, streak, lastFailed>>

\* The exception of the client leaves run(), wherever the case is.
Raises ==
  /\ req.pc = "done" /\ req.answer \in {"garbled", "refused", "failed", "open"}
  /\ Settled
  /\ stage' = "idle"
  /\ UNCHANGED <<now, runs, deadline, case, trail, serverVars>>

\* DETECT and ACT are recorded, and the case goes to INTERVENING.
LinkIssued ==
  /\ stage = "create" /\ req.pc = "done" /\ req.answer = "created"
  /\ Settled
  /\ stage' = "fetch" /\ deadline' = now + Timeout
  /\ case' = "intervening" /\ trail' = <<"DETECT", "ACT">>
  /\ UNCHANGED <<now, runs, serverVars>>

Close(state) ==
  /\ case' = state /\ trail' = Append(trail, "OUTCOME")
  /\ stage' = "idle"
  /\ UNCHANGED <<runs, deadline>>

SeenPaid ==
  /\ stage = "fetch" /\ req.pc = "done" /\ req.answer = "paid"
  /\ Settled /\ Close("recovered")
  /\ UNCHANGED <<now, serverVars>>

\* Mutated form of SeenUnpaid: the loop does not look at the clock.
SeenUnpaidTimeless ==
  /\ stage = "fetch" /\ req.pc = "done" /\ req.answer = "created"
  /\ req' = NoRequest /\ UNCHANGED <<failures, openedAt, streak, lastFailed>>
  /\ stage' = "sleep" /\ until' = now + PollInterval
  /\ UNCHANGED <<now, runs, deadline, case, trail, serverVars>>

\* Mutated form of SeenUnpaid: it gives up when the next poll would be too late.
SeenUnpaidHasty ==
  /\ stage = "fetch" /\ req.pc = "done" /\ req.answer = "created"
  /\ req' = NoRequest /\ UNCHANGED <<failures, openedAt, streak, lastFailed>>
  /\ IF now + PollInterval > deadline
     THEN Close("abandoned") /\ UNCHANGED until
     ELSE /\ stage' = "sleep" /\ until' = now + PollInterval
          /\ UNCHANGED <<runs, deadline, case, trail>>
  /\ UNCHANGED <<now, serverVars>>

SeenUnpaid ==
  /\ stage = "fetch" /\ req.pc = "done" /\ req.answer = "created"
  /\ req' = NoRequest /\ UNCHANGED <<failures, openedAt, streak, lastFailed>>
  /\ IF now >= deadline
     THEN Close("abandoned") /\ UNCHANGED until
     ELSE /\ stage' = "sleep" /\ until' = now + PollInterval
          /\ UNCHANGED <<runs, deadline, case, trail>>
  /\ UNCHANGED <<now, serverVars>>

Wake ==
  /\ stage = "sleep" /\ Waited
  /\ stage' = "fetch"
  /\ UNCHANGED <<now, clientVars, runs, deadline, case, trail, serverVars>>

Loop ==
  \/ HandleCreate \/ HandleFetch \/ Client \/ Raises
  \/ LinkIssued \/ SeenPaid \/ SeenUnpaid \/ Wake

\* No run is left to begin, or the clock has come to its bound.
Rest ==
  /\ \/ stage = "idle" /\ (runs = MaxRuns \/ now >= MaxStart)
     \/ now = MaxTime
  /\ UNCHANGED vars

Next == Tick \/ Pay \/ Run \/ Loop \/ Rest

Spec == Init /\ [][Next]_vars

-----------------------------------------------------------------------------
\* The verdict fits the link: a case is recovered only if its link was paid, and
\* abandoned only if it was not paid before the deadline, less the time that the
\* last answer was on its way; what is paid in that time is not seen.
VerdictFits ==
  /\ case = "recovered" => paidAt # Never
  /\ case = "abandoned" => paidAt = Never \/ paidAt >= deadline - MaxTravel

\* A run does not go on for longer than its timeout, one more sleep and one
\* more request, whatever is slow, lost or refused on the way.  The clock only
\* stands still when the loop has something to do.
EndsInTime ==
  stage \in {"fetch", "sleep"} => now <= deadline + PollInterval + RequestTime
=============================================================================

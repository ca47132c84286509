----------------------------- MODULE RazorpayClient -----------------------------
(***************************************************************************)
(* actuators/razorpay_client.py: _request with its retries and its circuit *)
(* breaker, for one caller.  A request is sent, handled by the server (or  *)
(* not), and its answer arrives (or not); between them the clock ticks.    *)
(* What the server answers is up to the module that uses the client.       *)
(*                                                                         *)
(* A tick is _BACKOFF_BASE_S, the first pause; the jitter is less than a   *)
(* tick and adds one or none.  An exception of httpx that is no            *)
(* TransportError (an endless redirect) is left out.                       *)
(***************************************************************************)
EXTENDS Integers

CONSTANTS
  MaxRetries,     \* max_retries
  Threshold,      \* breaker_threshold
  Cooldown,       \* breaker_cooldown_s, in ticks
  MaxTravel,      \* bound on the ticks to the server, and on those back
  Never           \* no point in time

ASSUME ClientAssumption ==
  /\ MaxRetries \in Nat /\ Threshold \in Nat \ {0}
  /\ Cooldown \in Nat /\ MaxTravel \in Nat /\ Never \notin Int

VARIABLES
  now,            \* the clock
  until,          \* when what is waited for has come
  failures,       \* _consecutive_failures
  openedAt,       \* _opened_at
  req,            \* the request in hand: where it is, the attempt, the answer
  streak,         \* history: requests sent, and failed, in a row
  lastFailed      \* history: when the last of them failed

clientVars == <<until, failures, openedAt, req, streak, lastFailed>>

NoRequest == [pc |-> "none", attempt |-> 0, answer |-> "none"]

ClientInit ==
  /\ now = 0 /\ until = 0
  /\ failures = 0 /\ openedAt = Never
  /\ req = NoRequest
  /\ streak = 0 /\ lastFailed = 0

\* One caller, one wait at a time: all is done when its time has come.
Waited == now = until

WaitFor(ticks) == \E d \in ticks : until' = now + d

Outcome(answer) == req' = [req EXCEPT !.pc = "done", !.answer = answer]

-----------------------------------------------------------------------------
\* _check_breaker; while it is open, CircuitOpenError leaves _request.
Admit ==
  /\ Waited /\ req.pc = "none"
  /\ IF openedAt # Never /\ now - openedAt < Cooldown
     THEN Outcome("open") /\ UNCHANGED <<openedAt, until>>
     ELSE /\ openedAt' = Never
          /\ req' = [req EXCEPT !.pc = "sent"]
          /\ WaitFor(0..MaxTravel)
  /\ UNCHANGED <<failures, streak, lastFailed>>

\* Mutated form of RecordFailure: a probe that fails does not open it again.
RecordFailureOnce ==
  /\ failures' = failures + 1
  /\ openedAt' = IF failures + 1 = Threshold THEN now ELSE openedAt
  /\ streak' = streak + 1 /\ lastFailed' = now

\* _record_outcome, for a failure and for a success.
RecordFailure ==
  /\ failures' = failures + 1
  /\ openedAt' = IF failures + 1 >= Threshold THEN now ELSE openedAt
  /\ streak' = streak + 1 /\ lastFailed' = now

RecordSuccess ==
  /\ failures' = 0 /\ openedAt' = Never
  /\ streak' = 0 /\ UNCHANGED lastFailed

\* Ticks of sleep before an attempt: exponential, with jitter.
Backoff(attempt) == {2 ^ (attempt - 1), 2 ^ (attempt - 1) + 1}

\* A transport error or a 5xx, which only the last attempt makes a failure.
TryAgain ==
  IF req.attempt < MaxRetries
  THEN /\ req' = [pc |-> "pause", attempt |-> req.attempt + 1, answer |-> "none"]
       /\ WaitFor(Backoff(req.attempt + 1))
       /\ UNCHANGED <<failures, openedAt, streak, lastFailed>>
  ELSE Outcome("failed") /\ RecordFailure /\ UNCHANGED until

Resume ==
  /\ Waited /\ req.pc = "pause"
  /\ req' = [req EXCEPT !.pc = "sent"]
  /\ WaitFor(0..MaxTravel)
  /\ UNCHANGED <<failures, openedAt, streak, lastFailed>>

\* The server is not reached, or its answer does not come back.
TransportError ==
  /\ Waited /\ req.pc \in {"sent", "handled"}
  /\ TryAgain

\* The server handles the request.
Handled(answer) ==
  /\ Waited /\ req.pc = "sent"
  /\ req' = [req EXCEPT !.pc = "handled", !.answer = answer]
  /\ WaitFor(0..MaxTravel)
  /\ UNCHANGED <<failures, openedAt, streak, lastFailed>>

\* The answer arrives: 5xx, 4xx, or a success, which is recorded as one before
\* its body is parsed.
Arrive ==
  /\ Waited /\ req.pc = "handled"
  /\ \/ req.answer = "unavailable" /\ TryAgain
     \/ req.answer = "refused" /\ Outcome("refused") /\ RecordFailure /\ UNCHANGED until
     \/ /\ req.answer \notin {"unavailable", "refused"}
        /\ Outcome(req.answer) /\ RecordSuccess /\ UNCHANGED until

ClientStep == Resume \/ TransportError \/ Arrive

-----------------------------------------------------------------------------
\* The longest that a request can take.
RequestTime ==
  (MaxRetries + 1) * 2 * MaxTravel + 2 ^ MaxRetries - 1 + MaxRetries

\* After Threshold requests have failed in a row the server is left alone for
\* the cooldown, and again after every probe that fails: "fails fast without
\* touching the wire until a cooldown elapses (then one half-open probe)".
ServerLeftAlone ==
  [][req.pc = "none" /\ req'.pc = "sent" /\ streak >= Threshold
       => now - lastFailed >= Cooldown]_<<clientVars, now>>
=============================================================================

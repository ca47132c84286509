---------------------------- MODULE PersonaHarness ----------------------------
(***************************************************************************)
(* evaluation/harness.py: how a simulated customer answers one executed    *)
(* action.  The same rule table stands for the customer in the measured    *)
(* batch and in the running service.                                       *)
(***************************************************************************)
EXTENDS Domain

Personas == {"self_cure", "cooperative", "needs_reminder", "salary_cycle",
             "promise_breaker", "disputer", "never_payer"}

Replies == {"paid", "promise_to_pay", "no_response", "opt_out"}

\* A message lands only on the preferred channel, when one is known; a voice
\* call reaches everyone.
Lands(action, preferred) ==
  /\ IsContact(action)
  /\ action.channel \in {None, "voice", preferred} \/ preferred = None

Pays(persona, action, attempt, preferred) ==
  \/ persona \in {"self_cure", "cooperative"}
  \/ persona = "needs_reminder" /\ Lands(action, preferred) /\ attempt >= 2
  \/ persona = "salary_cycle" /\ action.kind = "retry" /\ attempt >= 2
  \/ persona = "promise_breaker" /\ Lands(action, preferred) /\ attempt >= 3

\* respond(): the attempt is the step of the playbook, from 1.
Respond(persona, action, attempt, preferred) ==
  CASE Pays(persona, action, attempt, preferred) -> "paid"
    [] persona = "promise_breaker" /\ Lands(action, preferred) /\ attempt = 1 ->
         "promise_to_pay"
    [] persona = "disputer" /\ IsContact(action) -> "opt_out"
    [] OTHER -> "no_response"
=============================================================================

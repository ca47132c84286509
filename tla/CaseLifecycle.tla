---------------------------- MODULE CaseLifecycle ----------------------------
(***************************************************************************)
(* What domain/models.py and the docstring of workflows/flow.py promise of *)
(* a case, whatever the playbook, the customer and the failures: it moves  *)
(* along the legal transitions only, it makes at most MaxAttempts attempts *)
(* for each time it is handled, money counts as recovered only on the      *)
(* heels of an attempt, and a closed case never changes again.  A case     *)
(* whose handler broke down is handled anew from the beginning.            *)
(***************************************************************************)
EXTENDS Domain

CONSTANTS Cases, MaxAttempts

VARIABLES
  state,        \* Case.state
  attempts      \* Case.attempts

vars == <<state, attempts>>

Closed(c) == state[c] \in TerminalStates

Init ==
  /\ state = [c \in Cases |-> "detected"]
  /\ attempts = [c \in Cases |-> 0]

\* Case.transition to a state that is not an attempt.
Move(c, s) ==
  /\ s \in Legal[state[c]]
  /\ s # "intervening"
  /\ s = "recovered" => state[c] = "intervening"
  /\ state' = [state EXCEPT ![c] = s]
  /\ UNCHANGED attempts

\* Case.transition to INTERVENING, with the Case.record_attempt it announces.
Attempt(c) ==
  /\ "intervening" \in Legal[state[c]]
  /\ attempts[c] < MaxAttempts
  /\ state' = [state EXCEPT ![c] = "intervening"]
  /\ attempts' = [attempts EXCEPT ![c] = @ + 1]

\* The event bus delivers an unfinished case again, as a fresh Case.
Redeliver(c) ==
  /\ ~Closed(c)
  /\ state' = [state EXCEPT ![c] = "detected"]
  /\ attempts' = [attempts EXCEPT ![c] = 0]

Next == \E c \in Cases : Attempt(c) \/ Redeliver(c) \/ \E s \in CaseStates : Move(c, s)

Spec == Init /\ [][Next]_vars
=============================================================================

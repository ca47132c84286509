------------------------------- MODULE Domain -------------------------------
(***************************************************************************)
(* The vocabulary the modules share: the lifecycle of a Case               *)
(* (domain/models.py) and the actions a playbook is made of                *)
(* (policy/compliance.py, workflows/flow.py).  Pure definitions, no state. *)
(***************************************************************************)
EXTENDS Integers, Sequences, FiniteSets

CaseTypes == {"payment_failure", "subscription_failure",
              "overdue_invoice", "checkout_abandoned"}

TerminalStates == {"recovered", "partially_recovered", "escalated", "abandoned"}

OpenStates == {"detected", "diagnosed", "planned", "intervening", "waiting"}

CaseStates == OpenStates \cup TerminalStates

\* The table _LEGAL: the states one call of Case.transition may lead to.  The
\* terminal states have no entry, so every transition out of one is refused.
Legal ==
  [s \in CaseStates |->
     CASE s = "detected"    -> {"diagnosed"} \cup TerminalStates
       [] s = "diagnosed"   -> {"planned"} \cup TerminalStates
       [] s = "planned"     -> {"intervening"} \cup TerminalStates
       [] s = "intervening" -> {"waiting"} \cup TerminalStates
       [] s = "waiting"     -> {"intervening"} \cup TerminalStates
       [] OTHER             -> {}]

ActionKinds == {"retry", "message", "voice_call", "escalate"}

ContactKinds == {"message", "voice_call"}

Channels == {"whatsapp", "sms", "email", "in_app", "voice"}

\* Python's None, for a channel, a cell or a mark that is absent.
None == "none"

Actions == [kind : ActionKinds, channel : Channels \cup {None}]

Retry == [kind |-> "retry", channel |-> None]
Message(ch) == [kind |-> "message", channel |-> ch]
VoiceCall == [kind |-> "voice_call", channel |-> "voice"]

IsContact(a) == a.kind \in ContactKinds

\* The finite step sequences of workflows/flow.py.
Playbook ==
  [dunning           |-> <<Message("whatsapp"), Retry, Message("sms")>>,
   smart_retry       |-> <<Retry, Retry, Message("whatsapp")>>,
   update_method     |-> <<Message("whatsapp"), Message("email"), Message("sms")>>,
   receivables       |-> <<Message("email"), Message("email"), VoiceCall>>,
   checkout_recovery |-> <<Message("whatsapp"), Message("email")>>]

PlaybookNames == DOMAIN Playbook

\* What follows a promise to pay, whatever the playbook had planned.
P2PFollowUp == Message("whatsapp")
=============================================================================

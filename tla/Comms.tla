--------------------------------- MODULE Comms ---------------------------------
(***************************************************************************)
(* What the program says to customers: the voice call (comms/voice.py) and *)
(* the drafted messages (comms/drafter.py).  A language model proposes,    *)
(* the code disposes.  Of a text only what the code looks for is kept: a   *)
(* threat pattern, the merchant's name, an opt-out line, a sender, its     *)
(* length; of a customer's reply, the kinds of markers in it.  The name of *)
(* the merchant comes from the environment and goes into every template.   *)
(***************************************************************************)
EXTENDS Integers, Sequences

CONSTANT MaxTurns         \* max_turns

ASSUME TurnsAssumption == MaxTurns \in Nat

VARIABLES
  merchant,       \* MERCHANT_NAME: plain, or holding a threat pattern, or long
  transcript,     \* the turns of the call
  pc,             \* whose turn it is
  result,         \* VoiceOutcome.result, or why there is none
  sent            \* the drafts handed out

vars == <<merchant, transcript, pc, result, sent>>

Merchants == {"plain", "threatening", "long"}

Markers == {"opt_out", "paid", "promise_to_pay"}

Agent(line) == [speaker |-> "agent", line |-> line, heard |-> {}]

Silence == [source |-> "script", threat |-> FALSE, names |-> FALSE]

Customer(heard) == [speaker |-> "customer", line |-> Silence, heard |-> heard]

Turn == Len(transcript) \div 2

\* _script_line: only the opening names the merchant.
ScriptLine(turn) ==
  [source |-> "script", names |-> turn = 0,
   threat |-> turn = 0 /\ merchant = "threatening"]

ClosingLine == [source |-> "closing", threat |-> FALSE, names |-> FALSE]

\* What the model may answer for a line; "raises" is any exception, from the
\* call to the parsing and the missing key, or that there is no model.
LineAnswers ==
  [kind : {"raises", "number"}, threat : {FALSE}, names : {FALSE}]
    \cup [kind : {"text"}, threat : BOOLEAN, names : BOOLEAN]

\* Mutated form of AgentLine: the merchant is not looked for.
AgentLineUnnamed(turn, a) ==
  IF a.kind = "raises" \/ a.threat THEN ScriptLine(turn)
  ELSE [source |-> "model", threat |-> a.threat, names |-> a.names]

\* _agent_line: the model's line, within the bounds of the script.
AgentLine(turn, a) ==
  IF a.kind = "raises" \/ a.threat \/ (turn = 0 /\ ~a.names) THEN ScriptLine(turn)
  ELSE [source |-> "model", threat |-> a.threat, names |-> a.names]

\* Mutated form of Classify: the good news are looked for first.
ClassifyPaidFirst(heard) ==
  CASE "paid" \in heard -> "paid"
    [] "paid" \notin heard /\ "opt_out" \in heard -> "opt_out"
    [] "paid" \notin heard /\ "opt_out" \notin heard /\ heard # {} -> "promise_to_pay"
    [] OTHER -> "none"

\* _classify: an opt-out beats a payment, a payment a promise.
Classify(heard) ==
  CASE "opt_out" \in heard -> "opt_out"
    [] "opt_out" \notin heard /\ "paid" \in heard -> "paid"
    [] heard = {"promise_to_pay"} -> "promise_to_pay"
    [] OTHER -> "none"

Init ==
  /\ merchant \in Merchants
  /\ transcript = <<>> /\ pc = "agent" /\ result = "none"
  /\ sent = {}

\* Mutated form of Speak: the model may have the last word.
SpeakUncapped(a) ==
  /\ pc = "agent" /\ (Turn < MaxTurns \/ (Turn = MaxTurns /\ a.kind = "text"))
  /\ IF a.kind = "number"
     THEN pc' = "over" /\ result' = "raised" /\ UNCHANGED transcript
     ELSE /\ transcript' = Append(transcript, Agent(AgentLine(Turn, a)))
          /\ pc' = "customer" /\ UNCHANGED result
  /\ UNCHANGED <<merchant, sent>>

\* The agent's turn.  What the model calls a line and is no text passes the
\* parsing, and the threat screen raises outside of the try.
Speak(a) ==
  /\ pc = "agent" /\ Turn < MaxTurns
  /\ IF a.kind = "number"
     THEN pc' = "over" /\ result' = "raised" /\ UNCHANGED transcript
     ELSE /\ transcript' = Append(transcript, Agent(AgentLine(Turn, a)))
          /\ pc' = "customer" /\ UNCHANGED result
  /\ UNCHANGED <<merchant, sent>>

\* The customer's turn, and how the call goes on.
Hear(heard) ==
  /\ pc = "customer"
  /\ transcript' = Append(transcript, Customer(heard)) \o
                   IF Classify(heard) = "opt_out" THEN <<Agent(ClosingLine)>> ELSE <<>>
  /\ result' = Classify(heard)
  /\ pc' = IF Classify(heard) = "none" THEN "agent" ELSE "over"
  /\ UNCHANGED <<merchant, sent>>

HangUp ==
  /\ pc = "agent" /\ Turn = MaxTurns
  /\ result' = "no_resolution" /\ pc' = "over"
  /\ UNCHANGED <<merchant, transcript, sent>>

-----------------------------------------------------------------------------
Texts == [threat : BOOLEAN, optOut : BOOLEAN, sender : BOOLEAN, long : BOOLEAN]

\* Mutated form of Lint: whoever speaks need not say so.
LintAnonymous(t) ==
  {v \in {"threat", "no opt-out", "length"} :
     \/ v = "threat" /\ t.threat
     \/ v = "no opt-out" /\ ~t.optOut
     \/ v = "length" /\ t.long}

\* lint: the violations of a text.
Lint(t) ==
  {v \in {"threat", "no opt-out", "no sender", "length"} :
     \/ v = "threat" /\ t.threat
     \/ v = "no opt-out" /\ ~t.optOut
     \/ v = "no sender" /\ ~t.sender
     \/ v = "length" /\ t.long}

Template ==
  [threat |-> merchant = "threatening", optOut |-> TRUE, sender |-> TRUE,
   long |-> merchant = "long"]

Drafted(text, source) == [text |-> text, source |-> source]

\* MessageDrafter.draft: with no model, or one that raises, the template.
Draft(raises, text) ==
  /\ sent' = sent \cup {IF ~raises /\ Lint(text) = {} THEN Drafted(text, "model")
                        ELSE Drafted(Template, "template")}
  /\ UNCHANGED <<merchant, transcript, pc, result>>

Over == pc = "over" /\ UNCHANGED vars

Next ==
  \/ \E a \in LineAnswers : Speak(a)
  \/ \E heard \in SUBSET Markers : Hear(heard)
  \/ HangUp
  \/ \E raises \in BOOLEAN, text \in Texts : Draft(raises, text)
  \/ Over

Spec == Init /\ [][Next]_vars

-----------------------------------------------------------------------------
\* "Immediate opt-out honoring with a closing apology and nothing after it":
\* whatever else the reply says, a payment included.
NothingAfterOptOut ==
  \A i \in DOMAIN transcript : "opt_out" \in transcript[i].heard =>
    /\ result = "opt_out" /\ pc = "over"
    /\ SubSeq(transcript, i + 1, Len(transcript)) = <<Agent(ClosingLine)>>

\* What the agent says holds no threat, and the first thing it says names the
\* merchant, whatever the model proposes; provided that the merchant's own name
\* holds no threat pattern, which nothing checks.
SaidIsClean ==
  merchant # "threatening" =>
    /\ \A i \in DOMAIN transcript : ~transcript[i].line.threat
    /\ transcript # <<>> => transcript[1].line.names

\* The outcome is what the customer said: the reply that ended the call is the
\* first that held a marker; and a call without any ends after MaxTurns
\* exchanges, which the model cannot extend.
OutcomeIsHeard ==
  LET replies == {i \in DOMAIN transcript : transcript[i].speaker = "customer"}
      telling == {i \in replies : transcript[i].heard # {}}
  IN /\ Len(transcript) <= 2 * MaxTurns + 1
     /\ \A i \in telling : \A j \in replies : j <= i
     /\ result \in Markers => \E i \in telling : result \in transcript[i].heard
     /\ result = "no_resolution" => telling = {} /\ Len(transcript) = 2 * MaxTurns

\* Whatever the model drafts, what is handed out lints clean, under a name of
\* the merchant that does: the template is checked with "Acme Store" only.
DraftsLintClean ==
  merchant = "plain" =>
    \A d \in sent : ~d.text.threat /\ d.text.optOut /\ d.text.sender /\ ~d.text.long
=============================================================================

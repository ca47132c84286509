------------------------------ MODULE CommsProofs ------------------------------
(***************************************************************************)
(* What holds of calls of any length and of any number of drafts, whatever *)
(* the model proposes and the customer says.                               *)
(***************************************************************************)
EXTENDS Comms, SequenceTheorems, TLAPS

Lines == [source : {"script", "model", "closing"}, threat : BOOLEAN, names : BOOLEAN]

Turns == [speaker : {"agent", "customer"}, line : Lines, heard : SUBSET Markers]

\* Where the call is, what it holds.
CallOK ==
  /\ merchant \in Merchants
  /\ transcript \in Seq(Turns)
  /\ pc \in {"agent", "customer", "over"}
  /\ pc = "customer" => transcript # <<>>

\* While the call goes on, nobody has opted out.
Inv ==
  /\ CallOK
  /\ pc # "over" => \A i \in DOMAIN transcript : "opt_out" \notin transcript[i].heard
  /\ NothingAfterOptOut /\ SaidIsClean /\ DraftsLintClean

LEMMA LinesTyped ==
  /\ Silence \in Lines /\ ClosingLine \in Lines
  /\ \A turn \in Int : ScriptLine(turn) \in Lines
  /\ \A turn \in Int, a \in LineAnswers : AgentLine(turn, a) \in Lines
<1>1. Silence \in Lines /\ ClosingLine \in Lines
  BY DEF Silence, ClosingLine, Lines
<1>2. \A turn \in Int : ScriptLine(turn) \in Lines
  BY DEF ScriptLine, Lines
<1>3. ASSUME NEW turn \in Int, NEW a \in LineAnswers PROVE AgentLine(turn, a) \in Lines
  <2>1. a.threat \in BOOLEAN /\ a.names \in BOOLEAN
    BY DEF LineAnswers
  <2> QED BY <1>2, <2>1 DEF AgentLine, Lines
<1> QED BY <1>1, <1>2, <1>3

\* A line of the agent holds no threat, and the opening names the merchant.
LEMMA LinesClean ==
  ASSUME merchant # "threatening", NEW turn \in Int, NEW a \in LineAnswers
  PROVE  /\ ~AgentLine(turn, a).threat
         /\ turn = 0 => AgentLine(turn, a).names
<1>1. ~ScriptLine(turn).threat /\ (turn = 0 => ScriptLine(turn).names)
  BY DEF ScriptLine
<1> QED BY <1>1 DEF AgentLine

LEMMA InitInv == Init => Inv
<1> SUFFICES ASSUME Init PROVE Inv OBVIOUS
<1>1. transcript = <<>> /\ sent = {} /\ pc = "agent" /\ merchant \in Merchants BY DEF Init
<1>2. <<>> \in Seq(Turns) /\ DOMAIN <<>> = {} OBVIOUS
<1> QED BY <1>1, <1>2 DEF Inv, CallOK, NothingAfterOptOut, SaidIsClean, DraftsLintClean

\* The agent's line goes to the end of the transcript.
LEMMA SpeakKeeps ==
  ASSUME Inv, NEW a \in LineAnswers, Speak(a)
  PROVE  Inv'
<1> USE DEF Inv
<1>0. merchant' = merchant /\ sent' = sent BY DEF Speak
<1>1. CASE a.kind = "number"
  <2>1. transcript' = transcript /\ pc' = "over" /\ pc = "agent" BY <1>1 DEF Speak
  <2> QED BY <1>0, <2>1 DEF CallOK, NothingAfterOptOut, SaidIsClean, DraftsLintClean
<1>2. CASE a.kind # "number"
  <2> DEFINE said == Agent(AgentLine(Turn, a))
  <2>1. transcript' = Append(transcript, said) /\ pc' = "customer" /\ pc = "agent"
    BY <1>2 DEF Speak
  <2>2. transcript \in Seq(Turns) /\ Len(transcript) \in Nat BY DEF CallOK
  <2>3. Turn \in Int /\ (transcript = <<>> => Turn = 0) BY <2>2 DEF Turn
  <2>4. said \in Turns /\ said.heard = {}
    BY <2>3, LinesTyped DEF Turns, Agent
  <2>5. said.line = AgentLine(Turn, a) BY DEF Agent
  <2> HIDE DEF said
  <2>6. /\ transcript' \in Seq(Turns) /\ Len(transcript') = Len(transcript) + 1
        /\ DOMAIN transcript = 1..Len(transcript) /\ DOMAIN transcript' = 1..Len(transcript')
        /\ \A i \in 1..Len(transcript) : transcript'[i] = transcript[i]
        /\ transcript'[Len(transcript) + 1] = said
    BY <2>1, <2>2, <2>4
  <2>7. CallOK' BY <1>0, <2>1, <2>6 DEF CallOK
  <2>8. \A i \in DOMAIN transcript' : "opt_out" \notin transcript'[i].heard
    BY <2>1, <2>2, <2>4, <2>6
  <2>9. NothingAfterOptOut' BY <2>8 DEF NothingAfterOptOut
  <2>10. SaidIsClean'
    <3> SUFFICES ASSUME merchant # "threatening"
                 PROVE  /\ \A i \in DOMAIN transcript' : ~transcript'[i].line.threat
                        /\ transcript'[1].line.names
      BY <1>0 DEF SaidIsClean
    <3>1. ~said.line.threat /\ (Turn = 0 => said.line.names)
      BY <2>3, <2>5, LinesClean
    <3>2. transcript = <<>> \/ Len(transcript) >= 1 BY <2>2
    <3> QED BY <2>2, <2>3, <2>6, <3>1, <3>2 DEF SaidIsClean
  <2>11. DraftsLintClean' BY <1>0 DEF DraftsLintClean
  <2> QED BY <2>1, <2>7, <2>8, <2>9, <2>10, <2>11
<1> QED BY <1>1, <1>2

\* The reply goes to the end of the transcript, and the closing line after it.
LEMMA HearKeeps ==
  ASSUME Inv, NEW heard \in SUBSET Markers, Hear(heard)
  PROVE  Inv'
<1> USE DEF Inv
<1> DEFINE n == Len(transcript)
           reply == Customer(heard)
           closing == Agent(ClosingLine)
           opted == Classify(heard) = "opt_out"
<1>1. /\ merchant' = merchant /\ sent' = sent /\ pc = "customer"
      /\ result' = Classify(heard)
      /\ pc' = IF Classify(heard) = "none" THEN "agent" ELSE "over"
      /\ transcript' = Append(transcript, reply) \o (IF opted THEN <<closing>> ELSE <<>>)
  BY DEF Hear
<1>2. transcript \in Seq(Turns) /\ n \in Nat /\ n >= 1 /\ DOMAIN transcript = 1..n
  BY <1>1 DEF CallOK
<1>3. /\ reply \in Turns /\ closing \in Turns /\ closing.heard = {} /\ reply.heard = heard
      /\ ~reply.line.threat /\ ~closing.line.threat
  BY LinesTyped DEF Turns, Customer, Agent, Silence, ClosingLine
<1>4. opted <=> "opt_out" \in heard
  BY DEF Classify
<1>5. /\ \A i \in DOMAIN transcript : "opt_out" \notin transcript[i].heard
      /\ pc' \in {"agent", "over"} /\ (opted => pc' = "over" /\ result' = "opt_out")
  BY <1>1
<1> HIDE DEF reply, closing, opted
<1>6. CASE ~opted
  <2>1. /\ transcript' = Append(transcript, reply)
        /\ transcript' \in Seq(Turns) /\ Len(transcript') = n + 1
        /\ DOMAIN transcript' = 1..(n + 1)
        /\ \A i \in 1..n : transcript'[i] = transcript[i]
        /\ transcript'[n + 1] = reply
    BY <1>1, <1>2, <1>3, <1>6
  <2>2. CallOK' BY <1>1, <1>5, <2>1 DEF CallOK
  <2>3. \A i \in DOMAIN transcript' : "opt_out" \notin transcript'[i].heard
    BY <1>2, <1>3, <1>4, <1>5, <1>6, <2>1
  <2>4. NothingAfterOptOut' BY <2>3 DEF NothingAfterOptOut
  <2>5. SaidIsClean' BY <1>1, <1>2, <1>3, <2>1 DEF SaidIsClean
  <2>6. DraftsLintClean' BY <1>1 DEF DraftsLintClean
  <2> QED BY <2>2, <2>3, <2>4, <2>5, <2>6
<1>7. CASE opted
  <2>1. /\ transcript' = Append(transcript, reply) \o <<closing>>
        /\ transcript' \in Seq(Turns) /\ Len(transcript') = n + 2
        /\ DOMAIN transcript' = 1..(n + 2)
        /\ \A i \in 1..n : transcript'[i] = transcript[i]
        /\ transcript'[n + 1] = reply /\ transcript'[n + 2] = closing
    BY <1>1, <1>2, <1>3, <1>7
  <2>2. CallOK' BY <1>1, <1>5, <2>1 DEF CallOK
  <2>3. SubSeq(transcript', n + 2, n + 2) = <<closing>>
    <3> DEFINE tail == SubSeq(transcript', n + 2, n + 2)
    <3>1. tail \in Seq(Turns) /\ Len(tail) = 1 /\ tail[1] = transcript'[n + 2]
      BY <1>2, <2>1
    <3> DEFINE goal == <<closing>>
    <3>2. goal \in Seq(Turns) /\ Len(goal) = 1 /\ goal[1] = closing
      BY <1>3
    <3>3. \A i \in 1..Len(tail) : tail[i] = goal[i]
      BY <2>1, <3>1, <3>2
    <3> HIDE DEF tail, goal
    <3>4. tail = goal BY <3>1, <3>2, <3>3, SeqEqual
    <3> QED BY <3>4 DEF tail, goal
  <2>4. NothingAfterOptOut'
    <3> SUFFICES ASSUME NEW i \in DOMAIN transcript', "opt_out" \in transcript'[i].heard
                 PROVE  SubSeq(transcript', i + 1, Len(transcript')) = <<closing>>
      BY <1>5, <1>7 DEF NothingAfterOptOut, closing
    <3>1. i = n + 1 BY <1>2, <1>3, <1>5, <2>1
    <3> QED BY <1>2, <2>1, <2>3, <3>1
  <2>5. SaidIsClean' BY <1>1, <1>2, <1>3, <2>1 DEF SaidIsClean
  <2>6. DraftsLintClean' BY <1>1 DEF DraftsLintClean
  <2> QED BY <1>5, <1>7, <2>2, <2>4, <2>5, <2>6
<1> QED BY <1>6, <1>7

\* A draft is either what lints clean or the template.
LEMMA DraftKeeps ==
  ASSUME Inv, NEW raises \in BOOLEAN, NEW text \in Texts, Draft(raises, text)
  PROVE  Inv'
<1> USE DEF Inv
<1>1. UNCHANGED <<merchant, transcript, pc, result>> BY DEF Draft
<1>2. DraftsLintClean'
  <2> SUFFICES ASSUME merchant = "plain", NEW d \in sent'
               PROVE  ~d.text.threat /\ d.text.optOut /\ d.text.sender /\ ~d.text.long
    BY <1>1 DEF DraftsLintClean
  <2>1. CASE d \in sent BY <2>1 DEF DraftsLintClean
  <2>2. CASE d \notin sent
    <3>1. CASE ~raises /\ Lint(text) = {}
      <4>1. d = Drafted(text, "model") BY <2>2, <3>1 DEF Draft
      <4> QED BY <3>1, <4>1 DEF Lint, Drafted
    <3>2. CASE ~(~raises /\ Lint(text) = {})
      <4>1. d = Drafted(Template, "template") BY <2>2, <3>2 DEF Draft
      <4> QED BY <4>1 DEF Template, Drafted
    <3> QED BY <3>1, <3>2
  <2> QED BY <2>1, <2>2
<1> QED BY <1>1, <1>2 DEF CallOK, NothingAfterOptOut, SaidIsClean

LEMMA StepKeeps ==
  ASSUME Inv, [Next]_vars
  PROVE  Inv'
<1>1. ASSUME NEW a \in LineAnswers, Speak(a) PROVE Inv' BY <1>1, SpeakKeeps
<1>2. ASSUME NEW heard \in SUBSET Markers, Hear(heard) PROVE Inv' BY <1>2, HearKeeps
<1>3. CASE HangUp
  BY <1>3 DEF HangUp, Inv, CallOK, NothingAfterOptOut, SaidIsClean, DraftsLintClean
<1>4. ASSUME NEW raises \in BOOLEAN, NEW text \in Texts, Draft(raises, text) PROVE Inv'
  BY <1>4, DraftKeeps
<1>5. CASE UNCHANGED vars
  BY <1>5 DEF vars, Inv, CallOK, NothingAfterOptOut, SaidIsClean, DraftsLintClean
<1> QED BY <1>1, <1>2, <1>3, <1>4, <1>5 DEF Next, Over

LEMMA AlwaysInv == Spec => []Inv
BY InitInv, StepKeeps, PTL DEF Spec

\* Whatever the length of a call and whatever else a reply holds: when it asks
\* to stop, the closing line follows and nothing more.
THEOREM OptOutEndsCall == Spec => []NothingAfterOptOut
<1>1. Inv => NothingAfterOptOut BY DEF Inv
<1> QED BY <1>1, AlwaysInv, PTL

\* Whatever the model proposes: no line holds a threat, and the first one names
\* the merchant, unless the merchant's own name is the threat.
THEOREM AgentStaysInBounds == Spec => []SaidIsClean
<1>1. Inv => SaidIsClean BY DEF Inv
<1> QED BY <1>1, AlwaysInv, PTL

\* Whatever the model drafts, and however often: what is handed out lints clean
\* under a plain merchant name.
THEOREM DraftsClean == Spec => []DraftsLintClean
<1>1. Inv => DraftsLintClean BY DEF Inv
<1> QED BY <1>1, AlwaysInv, PTL

(***************************************************************************)
(* The outcome of a call.                                                  *)
(***************************************************************************)
\* While the call goes on, the two take turns, and no reply has told anything.
StillTalking ==
  /\ pc = "agent" => \E k \in 0..MaxTurns : Len(transcript) = 2 * k
  /\ pc = "customer" => \E k \in 0..MaxTurns : k < MaxTurns /\ Len(transcript) = 2 * k + 1
  /\ pc # "over" => result = "none" /\ \A i \in DOMAIN transcript : transcript[i].heard = {}

TalkInv == StillTalking /\ OutcomeIsHeard

\* A transcript in which nothing is told bears out any result but a marker.
LEMMA NothingTold ==
  ASSUME transcript \in Seq(Turns), result \notin Markers \cup {"no_resolution"},
         Len(transcript) <= 2 * MaxTurns + 1,
         \A i \in DOMAIN transcript : transcript[i].heard = {}
  PROVE  OutcomeIsHeard
BY DEF OutcomeIsHeard

LEMMA TalkInit == Init => TalkInv
<1>. SUFFICES ASSUME Init  PROVE TalkInv
  OBVIOUS
<1>1. transcript = <<>> /\ pc = "agent" /\ result = "none" /\ transcript \in Seq(Turns)
  BY DEF Init
<1>2. OutcomeIsHeard
  BY <1>1, NothingTold, TurnsAssumption DEF Markers
<1>3. 0 \in 0..MaxTurns /\ Len(transcript) = 2 * 0
  BY <1>1, TurnsAssumption
<1>. QED
  BY <1>1, <1>2, <1>3 DEF TalkInv, StillTalking

LEMMA SpeakTalks ==
  ASSUME CallOK, CallOK', TalkInv, NEW a \in LineAnswers, Speak(a)
  PROVE  TalkInv'
<1>1. PICK k \in 0..MaxTurns : Len(transcript) = 2 * k
  BY DEF Speak, TalkInv, StillTalking
<1>2. k < MaxTurns /\ k \in Nat
  BY <1>1, TurnsAssumption DEF Speak, Turn
<1>3. /\ result = "none" /\ pc = "agent"
      /\ \A i \in DOMAIN transcript : transcript[i].heard = {}
  BY DEF Speak, TalkInv, StillTalking
<1>4. transcript \in Seq(Turns) /\ transcript' \in Seq(Turns)
  BY DEF CallOK
<1>5. CASE a.kind = "number"
  <2>1. transcript' = transcript /\ pc' = "over" /\ result' = "raised"
    BY <1>5 DEF Speak
  <2>2. OutcomeIsHeard'
    BY <1>1, <1>2, <1>3, <1>4, <2>1, TurnsAssumption DEF OutcomeIsHeard, Markers
  <2>. QED
    BY <2>1, <2>2 DEF TalkInv, StillTalking
<1>6. CASE a.kind # "number"
  <2>. DEFINE said == Agent(AgentLine(Turn, a))
  <2>1. /\ transcript' = Append(transcript, said) /\ pc' = "customer"
        /\ result' = "none" /\ said.heard = {}
    BY <1>3, <1>6 DEF Speak, Agent
  <2>. HIDE DEF said
  <2>2. Len(transcript') = 2 * k + 1 /\ \A i \in DOMAIN transcript' : transcript'[i].heard = {}
    BY <1>1, <1>3, <1>4, <2>1
  <2>3. OutcomeIsHeard'
    BY <1>2, <1>4, <2>1, <2>2, TurnsAssumption DEF OutcomeIsHeard, Markers
  <2>. QED
    BY <1>2, <2>1, <2>2, <2>3, TurnsAssumption DEF TalkInv, StillTalking
<1>. QED
  BY <1>5, <1>6

\* The reply that tells something is the last, and it ends the call.
LEMMA HearTalks ==
  ASSUME CallOK, CallOK', TalkInv, NEW heard \in SUBSET Markers, Hear(heard)
  PROVE  TalkInv'
<1>. DEFINE n == Len(transcript)
            reply == Customer(heard)
            closing == Agent(ClosingLine)
            opted == Classify(heard) = "opt_out"
            m == Len(transcript')
<1>1. PICK k \in 0..MaxTurns : k < MaxTurns /\ n = 2 * k + 1
  BY DEF Hear, TalkInv, StillTalking
<1>2. /\ result' = Classify(heard)
      /\ pc' = IF Classify(heard) = "none" THEN "agent" ELSE "over"
      /\ transcript' = Append(transcript, reply) \o (IF opted THEN <<closing>> ELSE <<>>)
      /\ \A i \in DOMAIN transcript : transcript[i].heard = {}
  BY DEF Hear, TalkInv, StillTalking
<1>3. /\ transcript \in Seq(Turns) /\ transcript' \in Seq(Turns)
      /\ k \in Nat /\ MaxTurns \in Nat /\ n \in Nat
  BY <1>1, TurnsAssumption DEF CallOK
<1>4. /\ reply.heard = heard /\ reply.speaker = "customer"
      /\ closing.heard = {} /\ closing.speaker = "agent"
      /\ reply \in Turns /\ closing \in Turns
  BY LinesTyped DEF Customer, Agent, Turns
<1>5. /\ Classify(heard) \in Markers \cup {"none"}
      /\ Classify(heard) = "none" => heard = {}
      /\ Classify(heard) \in Markers => Classify(heard) \in heard
  <2>1. heard = {} \/ heard = {"promise_to_pay"} \/ "opt_out" \in heard \/ "paid" \in heard
    BY DEF Markers
  <2>. QED
    BY <2>1 DEF Classify, Markers
<1>. HIDE DEF reply, closing, opted
<1>6. /\ m \in {n + 1, n + 2} /\ (~opted => m = n + 1)
      /\ DOMAIN transcript' = 1..m
      /\ \A i \in 1..n : transcript'[i] = transcript[i]
      /\ transcript'[n + 1] = reply
      /\ m = n + 2 => transcript'[n + 2] = closing
  <2>1. CASE opted
    BY <1>2, <1>3, <1>4, <2>1
  <2>2. CASE ~opted
    BY <1>2, <1>3, <1>4, <2>2
  <2>. QED
    BY <2>1, <2>2
<1>. HIDE DEF n, m
<1>7. \A i \in DOMAIN transcript' : i # n + 1 => transcript'[i].heard = {}
  BY <1>2, <1>3, <1>4, <1>6
<1>8. \A i \in DOMAIN transcript' : i > n + 1 => transcript'[i].speaker = "agent"
  BY <1>3, <1>4, <1>6
<1>9. n + 1 \in DOMAIN transcript'
  BY <1>3, <1>6
<1>10. OutcomeIsHeard'
  <2>. DEFINE replies == {i \in DOMAIN transcript' : transcript'[i].speaker = "customer"}
              telling == {i \in replies : transcript'[i].heard # {}}
  <2>1. telling \subseteq {n + 1} /\ \A j \in replies : j <= n + 1
    BY <1>3, <1>6, <1>7, <1>8
  <2>2. result' \in Markers => n + 1 \in telling /\ result' \in transcript'[n + 1].heard
    BY <1>2, <1>4, <1>5, <1>6, <1>9
  <2>3. m <= 2 * MaxTurns + 1
    BY <1>1, <1>3, <1>6
  <2>4. result' # "no_resolution"
    BY <1>2, <1>5 DEF Markers
  <2>5. \A i \in telling : \A j \in replies : j <= i
    BY <2>1
  <2>6. result' \in Markers => \E i \in telling : result' \in transcript'[i].heard
    BY <2>2
  <2>. QED
    BY <2>3, <2>4, <2>5, <2>6 DEF OutcomeIsHeard, m
<1>11. StillTalking'
  <2>1. CASE Classify(heard) = "none"
    <3>1. pc' = "agent" /\ result' = "none" /\ Len(transcript') = 2 * (k + 1)
      BY <1>1, <1>2, <1>3, <1>6, <2>1 DEF opted, m
    <3>2. \A i \in DOMAIN transcript' : transcript'[i].heard = {}
      BY <1>4, <1>5, <1>6, <1>7, <2>1
    <3>3. k + 1 \in 0..MaxTurns
      BY <1>1, <1>3
    <3>. QED
      BY <3>1, <3>2, <3>3 DEF StillTalking
  <2>2. CASE Classify(heard) # "none"
    BY <1>2, <2>2 DEF StillTalking
  <2>. QED
    BY <2>1, <2>2
<1>. QED
  BY <1>10, <1>11 DEF TalkInv

LEMMA HangUpTalks ==
  ASSUME CallOK, TalkInv, HangUp
  PROVE  TalkInv'
<1>1. PICK k \in 0..MaxTurns : Len(transcript) = 2 * k
  BY DEF HangUp, TalkInv, StillTalking
<1>2. k = MaxTurns /\ k \in Nat
  BY <1>1, TurnsAssumption DEF HangUp, Turn
<1>3. /\ \A i \in DOMAIN transcript : transcript[i].heard = {}
      /\ transcript' = transcript /\ result' = "no_resolution" /\ pc' = "over"
  BY DEF HangUp, TalkInv, StillTalking
<1>. QED
  BY <1>1, <1>2, <1>3 DEF TalkInv, StillTalking, OutcomeIsHeard, Markers

LEMMA TalkStep ==
  ASSUME CallOK, CallOK', TalkInv, [Next]_vars
  PROVE  TalkInv'
<1>1. CASE UNCHANGED <<transcript, pc, result>>
  BY <1>1 DEF TalkInv, StillTalking, OutcomeIsHeard
<1>2. ASSUME ~UNCHANGED <<transcript, pc, result>>
      PROVE  (\E a \in LineAnswers : Speak(a)) \/ (\E h \in SUBSET Markers : Hear(h)) \/ HangUp
  BY <1>2 DEF Next, Draft, Over, vars
<1>. QED
  BY <1>1, <1>2, SpeakTalks, HearTalks, HangUpTalks

\* In calls of any length: the outcome is what the customer said, in the reply
\* that ended the call, and a call that says nothing ends after MaxTurns.
THEOREM OutcomeAlwaysHeard == Spec => []OutcomeIsHeard
<1>1. Inv => CallOK
  BY DEF Inv
<1>2. TalkInv => OutcomeIsHeard
  BY DEF TalkInv
<1>. QED
  BY <1>1, <1>2, TalkInit, TalkStep, AlwaysInv, PTL DEF Spec
=============================================================================

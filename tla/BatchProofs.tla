------------------------------ MODULE BatchProofs ------------------------------
(***************************************************************************)
(* What holds of the batch and its report, for batches of any size.        *)
(***************************************************************************)
EXTENDS Batch, RecoveryFlowProofs

\* However many cases a batch has, fewer than four included: each of them is in
\* one quarter of the learning curve and in no other.
THEOREM CurveCoversBatch ==
  ASSUME NEW n \in Nat, NEW k \in 0..(n - 1)
  PROVE  \E i \in 0..3 : k \in Chunk(n, i) /\ \A j \in 0..3 : k \in Chunk(n, j) => j = i
<1> DEFINE q == IF n \div 4 > 1 THEN n \div 4 ELSE 1
<1>1. q \in Nat /\ q >= 1
  OBVIOUS
<1>2. ASSUME NEW i \in 0..3
      PROVE  k \in Chunk(n, i) <=> i * q <= k /\ (i < 3 => k < (i + 1) * q)
  BY DEF Chunk
<1> HIDE DEF q
<1>3. /\ k \in Chunk(n, 0) <=> k < q
      /\ k \in Chunk(n, 1) <=> q <= k /\ k < 2 * q
      /\ k \in Chunk(n, 2) <=> 2 * q <= k /\ k < 3 * q
      /\ k \in Chunk(n, 3) <=> 3 * q <= k
  <2>1. 0 \in 0..3 /\ 1 \in 0..3 /\ 2 \in 0..3 /\ 3 \in 0..3 OBVIOUS
  <2> QED BY <1>1, <1>2, <2>1
<1>4. 0..3 = {0, 1, 2, 3} OBVIOUS
<1>5. CASE k < q BY <1>1, <1>3, <1>4, <1>5
<1>6. CASE q <= k /\ k < 2 * q BY <1>1, <1>3, <1>4, <1>6
<1>7. CASE 2 * q <= k /\ k < 3 * q BY <1>1, <1>3, <1>4, <1>7
<1>8. CASE 3 * q <= k BY <1>1, <1>3, <1>4, <1>8
<1> QED BY <1>1, <1>5, <1>6, <1>7, <1>8

(***************************************************************************)
(* The evidence of the bandit is that of its own messages.                 *)
(***************************************************************************)
NotBegun(c) == run[c].pc = "new" /\ run[c].executed = <<>>

BatchTyped ==
  /\ Inv
  /\ segment \in [Cases -> Segments] /\ learning \in BOOLEAN
  /\ at \in 1..(N + 1) /\ arm \in Arms \cup {None}
  /\ posterior \in [Segments \X Arms -> [alpha : Nat, beta : Nat]]

\* The cases before the present one are through, those after it not begun, and
\* it does not begin before an arm is chosen for it.
Position ==
  /\ \A c \in Cases : /\ c < at => run[c].pc = "done"
                      /\ c > at => NotBegun(c)
  /\ at \in Cases /\ learning =>
       IF arm = None THEN NotBegun(at) ELSE info[at].channel = arm

\* What goes out as a message goes out on the channel of the case's chooser.
OnChannel(i, acts) ==
  \A k \in DOMAIN acts : acts[k].kind = "message" => acts[k].channel = i.channel

MessagesOnArm == learning => \A c \in Cases : OnChannel(info[c], run[c].executed)

SentOn(s, a, n) ==
  {c \in 1..n : /\ segment[c] = s
                /\ \E k \in Executed(c, {"message"}) : run[c].executed[k].channel = a}

BatchInv == BatchTyped /\ Position /\ MessagesOnArm /\ CreditIsForTheArm

LEMMA BatchFacts ==
  /\ N \in Nat /\ Cases = 1..N
  /\ Arms \subseteq Channels /\ None \notin Arms
<1>1. N \in Nat
  <2>1. IsFiniteSet(Cases)
    BY FlowAssumption, Zenon
  <2>. QED
    BY <2>1, FS_CardinalityType DEF N
<1>. QED
  BY <1>1, BatchAssumption DEF Arms, Channels, None

Counted(s, a) ==
  learning =>
    /\ posterior[<<s, a>>].alpha - 1 = Cardinality(SentOn(s, a, at - 1) \cap PaidCases)
    /\ posterior[<<s, a>>].beta - 1 = Cardinality(SentOn(s, a, at - 1) \ PaidCases)

LEMMA CreditIsCounted ==
  /\ CreditIsForTheArm <=> \A s \in Segments, a \in Arms : Counted(s, a)
  /\ CreditIsForTheArm' <=> \A s \in Segments, a \in Arms : Counted(s, a)'
BY DEF CreditIsForTheArm, Counted, SentOn

LEMMA SentFinite ==
  ASSUME NEW s, NEW a, NEW n \in Nat
  PROVE  /\ IsFiniteSet(SentOn(s, a, n) \cap PaidCases)
         /\ IsFiniteSet(SentOn(s, a, n) \ PaidCases)
<1>1. IsFiniteSet(1..n)
  BY FS_Interval
<1>2. SentOn(s, a, n) \subseteq 1..n
  BY DEF SentOn
<1>. QED
  BY <1>1, <1>2, FS_Subset

\* Nothing is credited before the first case is through.
LEMMA BatchInitInv == BatchInit => BatchInv
<1>. SUFFICES ASSUME BatchInit PROVE BatchInv
  OBVIOUS
<1>. USE BatchFacts
<1>1. Inv
  BY InvInit DEF BatchInit
<1>2. at = 1 /\ arm = None /\ at \in 1..(N + 1)
  BY DEF BatchInit
<1>3. posterior = [x \in Segments \X Arms |-> [alpha |-> 1, beta |-> 1]]
  BY DEF BatchInit
<1>4. BatchTyped
  BY <1>1, <1>2, <1>3 DEF BatchTyped, BatchInit
<1>5. \A c \in Cases : NotBegun(c) /\ run[c].executed = <<>>
  BY DEF BatchInit, Init, Fresh, NotBegun
<1>6. \A c \in Cases : ~(c < at)
  BY <1>2
<1>7. Position
  BY <1>2, <1>5, <1>6 DEF Position
<1>8. MessagesOnArm
  BY <1>5 DEF MessagesOnArm, OnChannel
<1>9. CreditIsForTheArm
  <2>1. ASSUME NEW s \in Segments, NEW a \in Arms
        PROVE  /\ posterior[<<s, a>>].alpha - 1 = 0 /\ posterior[<<s, a>>].beta - 1 = 0
               /\ SentOn(s, a, at - 1) = {}
    <3>1. <<s, a>> \in Segments \X Arms
      OBVIOUS
    <3>2. posterior[<<s, a>>] = [alpha |-> 1, beta |-> 1]
      BY <1>3, <3>1
    <3>3. 1..(at - 1) = {}
      BY <1>2
    <3>. QED
      BY <3>2, <3>3 DEF SentOn
  <2>. QED
    BY <2>1, CreditIsCounted, FS_EmptySet DEF Counted
<1>. QED
  BY <1>4, <1>7, <1>8, <1>9 DEF BatchInv

\* Choosing an arm wires the case that has not begun.
LEMMA ChooseKeepsBatch ==
  ASSUME BatchInv, Choose
  PROVE  BatchInv'
<1>. USE BatchFacts DEF BatchInv
<1>1. at \in Cases /\ learning /\ arm = None /\ NotBegun(at)
  BY DEF Choose, Position, BatchTyped
<1>2. PICK b \in Arms : arm' = b /\ info' = [info EXCEPT ![at].channel = b]
  BY DEF Choose
<1>3. info \in [Cases -> CaseInfos] /\ info[at] \in CaseInfos
  BY <1>1 DEF BatchTyped, Inv, TypeOK
<1>4. info' = [info EXCEPT ![at] = [info[at] EXCEPT !.channel = b]]
  BY <1>2
<1>5. info' \in [Cases -> CaseInfos]
  BY <1>3, <1>4, ChooserAssumption
<1>6. info'[at].channel = b
  <2>1. info[at] \in CaseInfo
    BY <1>3, FlowAssumption
  <2>. QED
    BY <1>1, <1>3, <1>4, <2>1 DEF CaseInfo
<1>7. \A c \in Cases : c # at => info'[c] = info[c]
  BY <1>3, <1>4
<1>8. /\ run' = run /\ at' = at /\ learning' = learning /\ segment' = segment
      /\ posterior' = posterior
  BY DEF Choose
<1>9. Inv'
  BY <1>5 DEF Choose, BatchTyped, Inv, TypeOK, StagesKept, shared
<1>10. BatchTyped'
  BY <1>2, <1>8, <1>9 DEF BatchTyped
<1>11. Position'
  BY <1>1, <1>2, <1>6, <1>8 DEF Position, NotBegun
<1>12. MessagesOnArm'
  BY <1>1, <1>7, <1>8 DEF MessagesOnArm, OnChannel, NotBegun
<1>13. CreditIsForTheArm'
  <2>1. ASSUME NEW s \in Segments, NEW a \in Arms
        PROVE  Counted(s, a)' <=> Counted(s, a)
    BY <1>8 DEF Counted, SentOn, Executed, PaidCases, Paid
  <2>. QED
    BY <2>1, CreditIsCounted
<1>. QED
  BY <1>10, <1>11, <1>12, <1>13

\* A message is executed on the channel that was chosen.
LEMMA ExecutedOnChannel ==
  ASSUME Inv, NEW c \in Cases, Start(c) \/ Handle(c), info[c].channel # None,
         OnChannel(info[c], run[c].executed)
  PROVE  OnChannel(info[c], run'[c].executed)
<1>1. Step(c)
  BY DEF Step
<1>2. CASE ~Execute(c)
  <2>1. run'[c].executed = run[c].executed \/ run'[c].executed = <<>>
    BY <1>1, <1>2, SameActions
  <2>. QED
    BY <2>1 DEF OnChannel
<1>3. CASE Execute(c)
  <2>. DEFINE action == NextAction(c)
              act == [kind |-> action.kind, channel |-> action.channel, at |-> run[c].now]
  <2>1. action.kind = "message" => action.channel = info[c].channel
    BY DEF NextAction, Message
  <2>2. act.kind = "message" => act.channel = info[c].channel
    BY <2>1
  <2>3. run[c] \in RunState /\ run'[c] \in RunState /\ run \in [Cases -> RunState]
    BY <1>1, StepWrites DEF Inv, TypeOK
  <2>4. run'[c].executed = Append(run[c].executed, act)
    BY <1>3, <2>3 DEF Execute, Becomes, RunState
  <2>. HIDE DEF act
  <2>5. \A k \in DOMAIN run'[c].executed :
          \/ run'[c].executed[k] = act
          \/ k \in DOMAIN run[c].executed /\ run'[c].executed[k] = run[c].executed[k]
    <3>. DEFINE Acts == [kind : ActionKinds, channel : Channels \cup {None}, at : Nat]
    <3>1. run[c].executed \in Seq(Acts)
      BY <2>3 DEF RunState
    <3>2. act \in Acts
      <4>1. /\ CaseInv(run[c]) /\ info[c] \in CaseInfo /\ run[c].now \in Nat
            /\ run[c].pc = "act" /\ run[c].step <= Len(Playbook[run[c].playbook])
        BY <1>3, CaseFacts DEF Execute, CaseInv, Stage
      <4>2. action \in Actions
        BY <4>1, NextActionTyped DEF FlowActions
      <4>. QED
        BY <4>1, <4>2 DEF act, Actions
    <3>. HIDE DEF Acts
    <3>. QED
      BY <2>4, <3>1, <3>2
  <2>. QED
    BY <2>2, <2>5 DEF OnChannel
<1>. QED
  BY <1>2, <1>3

\* The case at hand moves on, and no other.
LEMMA RunCaseKeepsBatch ==
  ASSUME BatchInv, RunCase
  PROVE  BatchInv'
<1>. USE BatchFacts DEF BatchInv
<1>1. at \in Cases /\ (learning => arm # None) /\ (Start(at) \/ Handle(at)) /\ Step(at)
  BY DEF RunCase, BatchTyped, Step
<1>2. UNCHANGED <<segment, learning, at, arm, posterior>>
  BY DEF RunCase
<1>3. /\ info' = info /\ run' \in [Cases -> RunState]
      /\ \A d \in Cases : d # at => run'[d] = run[d]
  BY <1>1, StepWrites DEF BatchTyped
<1>4. BatchTyped'
  BY <1>1, <1>2, StepKeeps DEF BatchTyped
<1>5. Position'
  BY <1>1, <1>2, <1>3 DEF Position, NotBegun, BatchTyped
<1>6. MessagesOnArm'
  <2>1. ASSUME learning
        PROVE  OnChannel(info[at], run'[at].executed)
    <3>1. info[at].channel = arm /\ info[at].channel # None
      BY <1>1, <2>1 DEF Position
    <3>2. OnChannel(info[at], run[at].executed)
      BY <1>1, <2>1 DEF MessagesOnArm
    <3>. QED
      BY <1>1, <3>1, <3>2, ExecutedOnChannel DEF BatchTyped
  <2>. QED
    BY <1>2, <1>3, <2>1 DEF MessagesOnArm
<1>7. CreditIsForTheArm'
  <2>1. ASSUME NEW s \in Segments, NEW a \in Arms
        PROVE  /\ (SentOn(s, a, at - 1) \cap PaidCases)' = SentOn(s, a, at - 1) \cap PaidCases
               /\ (SentOn(s, a, at - 1) \ PaidCases)' = SentOn(s, a, at - 1) \ PaidCases
    <3>1. \A c \in 1..(at - 1) : c \in Cases /\ c # at /\ run'[c] = run[c]
      BY <1>1, <1>3
    <3>2. /\ (1..(at - 1))' = 1..(at - 1)
          /\ \A c \in 1..(at - 1) : Executed(c, {"message"})' = Executed(c, {"message"})
      BY <1>2, <3>1 DEF Executed
    <3>3. SentOn(s, a, at - 1)' = SentOn(s, a, at - 1)
      BY <1>2, <3>1, <3>2 DEF SentOn
    <3>4. \A c \in 1..(at - 1) : c \in PaidCases' <=> c \in PaidCases
      BY <3>1 DEF PaidCases, Paid
    <3>5. SentOn(s, a, at - 1) \subseteq 1..(at - 1)
      BY DEF SentOn
    <3>. QED
      BY <3>3, <3>4, <3>5
  <2>. QED
    BY <1>2, <2>1, CreditIsCounted DEF Counted
<1>. QED
  BY <1>4, <1>5, <1>6, <1>7

\* A case that is through is counted once, where its messages went.
LEMMA LearnKeepsBatch ==
  ASSUME BatchInv, Learn
  PROVE  BatchInv'
<1>. USE BatchFacts DEF BatchInv
<1>1. /\ at \in Cases /\ run[at].pc = "done" /\ at' = at + 1 /\ arm' = None
      /\ UNCHANGED <<vars, segment, learning>>
  BY DEF Learn, BatchTyped
<1>2. UNCHANGED <<info, run>> /\ segment' = segment /\ learning' = learning
  BY <1>1 DEF vars
<1>3. learning => arm \in Arms /\ info[at].channel = arm
  BY <1>1 DEF Position, NotBegun, BatchTyped
<1>4. /\ posterior \in [Segments \X Arms -> [alpha : Nat, beta : Nat]]
      /\ segment[at] \in Segments
  BY <1>1 DEF BatchTyped
<1>. DEFINE more == Updated(posterior[<<segment[at], arm>>], Paid(at))
<1>5. posterior' = IF ~Credited(at) THEN posterior
                   ELSE [posterior EXCEPT ![<<segment[at], arm>>] = more]
  BY DEF Learn
<1>6. Credited(at) => <<segment[at], arm>> \in Segments \X Arms
                      /\ more \in [alpha : Nat, beta : Nat]
  <2>1. Credited(at) => <<segment[at], arm>> \in Segments \X Arms
    BY <1>3, <1>4 DEF Credited
  <2>2. ASSUME NEW p \in [alpha : Nat, beta : Nat]
        PROVE  Updated(p, Paid(at)) \in [alpha : Nat, beta : Nat]
    BY DEF Updated
  <2>. QED
    BY <1>4, <2>1, <2>2
<1>7. BatchTyped'
  <2>1. Inv'
    BY <1>1, InvStep DEF BatchTyped
  <2>2. posterior' \in [Segments \X Arms -> [alpha : Nat, beta : Nat]]
    BY <1>4, <1>5, <1>6
  <2>3. at' \in 1..(N + 1)
    BY <1>1
  <2>. QED
    BY <1>1, <1>2, <2>1, <2>2, <2>3 DEF BatchTyped
<1>8. Position'
  <2>1. ASSUME NEW c \in Cases
        PROVE  (c < at' => run'[c].pc = "done") /\ (c > at' => NotBegun(c)')
    BY <1>1, <1>2 DEF Position, NotBegun, BatchTyped
  <2>2. at' \in Cases => NotBegun(at)'
    <3>1. at' \in Cases => at' > at /\ NotBegun(at')
      BY <1>1 DEF Position, BatchTyped
    <3>. QED
      BY <1>2, <3>1 DEF NotBegun
  <2>. QED
    BY <1>1, <2>1, <2>2 DEF Position
<1>9. MessagesOnArm'
  BY <1>2 DEF MessagesOnArm
<1>10. ASSUME NEW s \in Segments, NEW a \in Arms
       PROVE  Counted(s, a)'
  <2>. SUFFICES ASSUME learning
                PROVE  /\ posterior'[<<s, a>>].alpha - 1
                            = Cardinality(SentOn(s, a, at) \cap PaidCases)
                       /\ posterior'[<<s, a>>].beta - 1
                            = Cardinality(SentOn(s, a, at) \ PaidCases)
    <3>1. at' - 1 = at
      BY <1>1
    <3>2. SentOn(s, a, at - 1)' = SentOn(s, a, at)
      BY <1>2, <3>1 DEF SentOn, Executed
    <3>3. PaidCases' = PaidCases
      BY <1>2 DEF PaidCases, Paid
    <3>. QED
      BY <1>2, <3>2, <3>3, Zenon DEF Counted
  <2>. DEFINE before == SentOn(s, a, at - 1)
              here == segment[at] = s /\ \E k \in Executed(at, {"message"}) :
                                           run[at].executed[k].channel = a
  <2>1. /\ posterior[<<s, a>>].alpha - 1 = Cardinality(before \cap PaidCases)
        /\ posterior[<<s, a>>].beta - 1 = Cardinality(before \ PaidCases)
        /\ posterior[<<s, a>>] \in [alpha : Nat, beta : Nat]
    BY <1>4, CreditIsCounted DEF Counted
  <2>2. SentOn(s, a, at) = IF here THEN before \cup {at} ELSE before
    <3>1. 1..at = (1..(at - 1)) \cup {at}
      BY <1>1
    <3>. QED
      BY <3>1 DEF SentOn
  <2>3. at \notin before /\ (Paid(at) <=> at \in PaidCases)
    BY <1>1 DEF SentOn, PaidCases
  <2>4. here <=> Credited(at) /\ s = segment[at] /\ a = arm
    <3>1. \A k \in Executed(at, {"message"}) : run[at].executed[k].channel = arm
      BY <1>1, <1>3 DEF MessagesOnArm, OnChannel, Executed
    <3>. QED
      BY <3>1 DEF Credited
  <2>. HIDE DEF before, here, more
  <2>5. CASE ~here
    <3>1. posterior'[<<s, a>>] = posterior[<<s, a>>]
      <4>1. Credited(at) => <<s, a>> # <<segment[at], arm>>
        BY <2>4, <2>5
      <4>. QED
        BY <1>4, <1>5, <4>1
    <3>. QED
      BY <2>1, <2>2, <2>5, <3>1
  <2>6. CASE here
    <3>1. posterior'[<<s, a>>] = more /\ <<segment[at], arm>> = <<s, a>>
      BY <1>4, <1>5, <1>6, <2>4, <2>6
    <3>2. SentOn(s, a, at) = before \cup {at}
      BY <2>2, <2>6
    <3>3. IsFiniteSet(before \cap PaidCases) /\ IsFiniteSet(before \ PaidCases)
      <4>1. at - 1 \in Nat
        BY <1>1
      <4>. QED
        BY <4>1, SentFinite DEF before
    <3>4. CASE Paid(at)
      <4>1. /\ SentOn(s, a, at) \cap PaidCases = (before \cap PaidCases) \cup {at}
            /\ SentOn(s, a, at) \ PaidCases = before \ PaidCases
            /\ at \notin before \cap PaidCases
        BY <2>3, <3>2, <3>4
      <4>2. Cardinality(SentOn(s, a, at) \cap PaidCases) = Cardinality(before \cap PaidCases) + 1
        BY <3>3, <4>1, FS_AddElement
      <4>3. /\ more.alpha = posterior[<<s, a>>].alpha + 1
            /\ more.beta = posterior[<<s, a>>].beta
        BY <2>1, <3>1, <3>4 DEF more, Updated
      <4>4. posterior[<<s, a>>].alpha \in Nat
        BY <2>1
      <4>5. posterior'[<<s, a>>].alpha - 1 = Cardinality(before \cap PaidCases) + 1
        BY <2>1, <3>1, <4>3, <4>4
      <4>. QED
        BY <2>1, <3>1, <4>1, <4>2, <4>3, <4>5
    <3>5. CASE ~Paid(at)
      <4>1. /\ SentOn(s, a, at) \ PaidCases = (before \ PaidCases) \cup {at}
            /\ SentOn(s, a, at) \cap PaidCases = before \cap PaidCases
            /\ at \notin before \ PaidCases
        BY <2>3, <3>2, <3>5
      <4>2. Cardinality(SentOn(s, a, at) \ PaidCases) = Cardinality(before \ PaidCases) + 1
        BY <3>3, <4>1, FS_AddElement
      <4>3. /\ more.beta = posterior[<<s, a>>].beta + 1
            /\ more.alpha = posterior[<<s, a>>].alpha
        BY <2>1, <3>1, <3>5 DEF more, Updated
      <4>4. posterior[<<s, a>>].beta \in Nat
        BY <2>1
      <4>5. posterior'[<<s, a>>].beta - 1 = Cardinality(before \ PaidCases) + 1
        BY <2>1, <3>1, <4>3, <4>4
      <4>. QED
        BY <2>1, <3>1, <4>1, <4>2, <4>3, <4>5
    <3>. QED
      BY <3>4, <3>5
  <2>. QED
    BY <2>5, <2>6
<1>. QED
  BY <1>7, <1>8, <1>9, <1>10, CreditIsCounted

LEMMA BatchInvStep == BatchInv /\ [BatchNext]_bvars => BatchInv'
<1>. SUFFICES ASSUME BatchInv, [BatchNext]_bvars PROVE BatchInv'
  OBVIOUS
<1>1. CASE UNCHANGED bvars
  <2>1. UNCHANGED <<vars, segment, learning, at, arm, posterior>>
    BY <1>1 DEF bvars
  <2>2. BatchTyped'
    BY <2>1, InvStep DEF BatchInv, BatchTyped
  <2>3. Position' /\ MessagesOnArm'
    BY <2>1 DEF vars, BatchInv, Position, MessagesOnArm, NotBegun
  <2>4. CreditIsForTheArm'
    <3>1. ASSUME NEW s \in Segments, NEW a \in Arms
          PROVE  Counted(s, a)' <=> Counted(s, a)
      BY <2>1 DEF vars, Counted, SentOn, Executed, PaidCases, Paid
    <3>. QED
      BY <3>1, CreditIsCounted DEF BatchInv
  <2>. QED
    BY <2>2, <2>3, <2>4 DEF BatchInv
<1>. QED
  BY <1>1, ChooseKeepsBatch, RunCaseKeepsBatch, LearnKeepsBatch DEF BatchNext, Reported

\* For a batch of any size and whatever the bandit draws: its counts for a
\* segment and an arm are those of the cases of that segment whose messages went
\* out on that arm, each by how it ended.
THEOREM CreditAlwaysForTheArm == BatchSpec => []CreditIsForTheArm
<1>1. BatchInv => CreditIsForTheArm
  BY DEF BatchInv
<1>. QED
  BY <1>1, BatchInitInv, BatchInvStep, PTL DEF BatchSpec

\* Wiring a case with a chooser is no part of its story.
LEMMA StoriesInBatch == BatchInv /\ Stories /\ [BatchNext]_bvars => Stories'
<1>. SUFFICES ASSUME BatchInv, Stories, [BatchNext]_bvars PROVE Stories'
  OBVIOUS
<1>1. Inv
  BY DEF BatchInv, BatchTyped
<1>2. CASE Choose
  <2>1. at \in Cases /\ info \in [Cases -> CaseInfos] /\ run' = run
    BY <1>1, <1>2, BatchFacts DEF Choose, BatchInv, BatchTyped, Inv, TypeOK
  <2>2. PICK a \in Arms : info' = [info EXCEPT ![at] = [info[at] EXCEPT !.channel = a]]
    BY <1>2 DEF Choose
  <2>3. \A c \in Cases : c # at => info'[c] = info[c]
    BY <2>1, <2>2
  <2>4. /\ info'[at].amount = info[at].amount /\ info'[at].code = info[at].code
        /\ info'[at].dryRun = info[at].dryRun /\ info'[at].kill = info[at].kill
    <3>1. info[at] \in CaseInfo
      BY <2>1, FlowAssumption
    <3>. QED
      BY <2>1, <2>2, <3>1 DEF CaseInfo
  <2>5. Story(info'[at], run[at])
    <3>1. Story(info[at], run[at])
      BY <2>1 DEF Stories
    <3>2. Barred(info'[at]) <=> Barred(info[at])
      BY <2>4 DEF Barred
    <3>3. \A v : Deserved(info[at], run[at], v) => Deserved(info'[at], run[at], v)
      BY <2>4 DEF Deserved
    <3>. QED
      BY <2>4, <3>1, <3>2, <3>3 DEF Story
  <2>. QED
    BY <2>1, <2>3, <2>5 DEF Stories
<1>3. CASE RunCase
  <2>1. at \in Cases /\ (Start(at) \/ Handle(at))
    BY <1>3, BatchFacts DEF RunCase, BatchInv, BatchTyped
  <2>2. Next
    BY <2>1 DEF Next
  <2>. QED
    BY <1>1, <2>2, StoriesStep
<1>4. CASE Learn \/ Reported \/ UNCHANGED bvars
  BY <1>4 DEF Learn, Reported, bvars, vars, Stories
<1>. QED
  BY <1>2, <1>3, <1>4 DEF BatchNext

LEMMA ThroughAddsUp ==
  ASSUME BatchInv, Stories, Finished
  PROVE  CasesAddUp
<1>. USE BatchFacts
<1>1. \A c \in Cases : run[c].pc = "done" /\ Deserved(info[c], run[c], run[c].state)
  BY DEF BatchInv, BatchTyped, Position, Finished, Stories, Story
<1>. DEFINE R == EndedAs("recovered")
            E == EndedAs("escalated")
            A == EndedAs("abandoned")
<1>2. PaidCases = R
  BY <1>1 DEF PaidCases, Paid, EndedAs, Deserved
<1>3. R \cap E = {} /\ (R \cup E) \cap A = {} /\ (R \cup E) \cup A = Cases
  BY <1>1 DEF EndedAs, Deserved
<1>4. IsFiniteSet(Cases) /\ Cardinality(Cases) = N
  BY FS_Interval
<1>5. IsFiniteSet(R) /\ IsFiniteSet(E) /\ IsFiniteSet(A) /\ IsFiniteSet(R \cup E)
  BY <1>3, <1>4, FS_Subset
<1>. HIDE DEF R, E, A
<1>6. Cardinality(R \cup E) = Cardinality(R) + Cardinality(E) - Cardinality({})
  BY <1>3, <1>5, FS_Union
<1>7. Cardinality(Cases) = Cardinality(R \cup E) + Cardinality(A) - Cardinality({})
  <2>. DEFINE RE == R \cup E
  <2>1. IsFiniteSet(RE)
    BY <1>5
  <2>. HIDE DEF RE
  <2>2. Cardinality(RE \cup A) = Cardinality(RE) + Cardinality(A) - Cardinality(RE \cap A)
    BY <1>5, <2>1, FS_Union
  <2>. QED
    BY <1>3, <2>2 DEF RE
<1>8. /\ Cardinality(R) \in Nat /\ Cardinality(E) \in Nat /\ Cardinality(A) \in Nat
      /\ Cardinality(R \cup E) \in Nat /\ Cardinality({}) = 0
  BY <1>5, FS_CardinalityType, FS_EmptySet
<1>9. Cardinality(R) + Cardinality(E) + Cardinality(A) = N
  BY <1>4, <1>6, <1>7, <1>8
<1>. QED
  BY <1>2, <1>9 DEF CasesAddUp, R, E, A

\* However large the batch: when it is through, each of its cases is counted as
\* recovered, escalated or abandoned, once, and the paid ones are the recovered.
THEOREM BatchAddsUp == BatchSpec => [](Finished => CasesAddUp)
<1>1. BatchInit => BatchInv /\ Stories
  BY BatchInitInv, StoriesInit DEF BatchInit
<1>2. BatchInv /\ Stories /\ [BatchNext]_bvars => (BatchInv /\ Stories)'
  BY BatchInvStep, StoriesInBatch
<1>3. BatchInv /\ Stories => (Finished => CasesAddUp)
  BY ThroughAddsUp
<1>. QED
  BY <1>1, <1>2, <1>3, PTL DEF BatchSpec

(***************************************************************************)
(* Sums over finite sets, by induction on the set.                         *)
(***************************************************************************)
First(s) == CHOOSE x \in s : TRUE

\* The equation of the fold that sums f: a table over the subsets of S.
Totals(f, S, g) ==
  g = [s \in SUBSET S |-> IF s = {} THEN 0 ELSE f[First(s)] + g[s \ {First(s)}]]

Total(f, S) == CHOOSE g : Totals(f, S, g)

LEMMA SumIsTotal ==
  ASSUME NEW f, NEW S
  PROVE  SumFunctionOnSet(f, S) = Total(f, S)[S]
BY DEF SumFunctionOnSet, FoldFunctionOnSet, MapThenFoldSet, Total, Totals, First

\* Among finite sets there is always a smallest one.
LEMMA SmallestSet ==
  ASSUME NEW S, IsFiniteSet(S), NEW Bad \in SUBSET SUBSET S, Bad # {}
  PROVE  \E s \in Bad : \A t \in SUBSET s : t # s => t \notin Bad
<1>1. IsWellFoundedOn(StrictSubsetOrdering(S), FiniteSubsetsOf(S))
  BY FS_StrictSubsetOrderingWellFounded
<1>2. FiniteSubsetsOf(S) = SUBSET S
  BY FS_FiniteSubsetsOfFinite
<1>3. PICK s \in Bad : \A t \in Bad : <<t, s>> \notin StrictSubsetOrdering(S)
  <2>1. Bad \subseteq FiniteSubsetsOf(S)
    BY <1>2
  <2>. QED
    BY <1>1, <2>1, WFMin
<1>4. \A t \in Bad : t \subseteq s => t = s
  BY <1>3 DEF StrictSubsetOrdering
<1>. QED
  BY <1>4

LEMMA FirstIn == \A s : s # {} => First(s) \in s
BY DEF First

LEMMA TotalsAt ==
  ASSUME NEW f, NEW S, NEW g, Totals(f, S, g), NEW s \in SUBSET S
  PROVE  g[s] = IF s = {} THEN 0 ELSE f[First(s)] + g[s \ {First(s)}]
BY DEF Totals

\* Two tables agree on the sets that both have.
LEMMA TotalsUnique ==
  ASSUME NEW f, NEW S, NEW T, NEW g, NEW h, IsFiniteSet(S),
         Totals(f, S, g), Totals(f, T, h)
  PROVE  \A s \in (SUBSET S) \cap (SUBSET T) : g[s] = h[s]
<1>. DEFINE Bad == {s \in (SUBSET S) \cap (SUBSET T) : g[s] # h[s]}
<1>. SUFFICES ASSUME Bad # {} PROVE FALSE
  OBVIOUS
<1>1. PICK s \in Bad : \A t \in SUBSET s : t # s => t \notin Bad
  <2>1. Bad \in SUBSET SUBSET S
    OBVIOUS
  <2>. HIDE DEF Bad
  <2>. QED
    BY <2>1, SmallestSet
<1>2. s \in SUBSET S /\ s \in SUBSET T /\ g[s] # h[s]
  OBVIOUS
<1>3. s # {}
  <2>1. s = {} => g[s] = 0 /\ h[s] = 0
    BY <1>2, TotalsAt
  <2>. QED
    BY <1>2, <2>1
<1>4. First(s) \in s
  BY <1>3, FirstIn
<1>. DEFINE rest == s \ {First(s)}
<1>5. g[rest] = h[rest]
  <2>1. rest \in SUBSET s /\ rest # s /\ rest \in (SUBSET S) \cap (SUBSET T)
    BY <1>2, <1>4
  <2>2. rest \notin Bad
    BY <1>1, <2>1
  <2>. QED
    BY <2>1, <2>2
<1>6. g[s] = f[First(s)] + g[rest] /\ h[s] = f[First(s)] + h[rest]
  BY <1>2, <1>3, TotalsAt
<1>. QED
  BY <1>2, <1>5, <1>6

LEMMA TotalsExist ==
  ASSUME NEW f, NEW S, IsFiniteSet(S)
  PROVE  Totals(f, S, Total(f, S))
<1>. DEFINE Bad == {s \in SUBSET S : ~Totals(f, s, Total(f, s))}
<1>. SUFFICES ASSUME Bad # {} PROVE FALSE
  OBVIOUS
<1>1. PICK s \in Bad : \A t \in SUBSET s : t # s => t \notin Bad
  <2>1. Bad \in SUBSET SUBSET S
    OBVIOUS
  <2>. HIDE DEF Bad
  <2>. QED
    BY <2>1, SmallestSet
<1>2. s \in SUBSET S /\ ~Totals(f, s, Total(f, s))
  OBVIOUS
<1>3. \A t \in SUBSET s : t # s => Totals(f, t, Total(f, t)) /\ IsFiniteSet(t)
  <2>1. ASSUME NEW t \in SUBSET s, t # s
        PROVE  Totals(f, t, Total(f, t))
    BY <1>1, <1>2, <2>1
  <2>. QED
    BY <1>2, <2>1, FS_Subset
\* A table over the subsets of s, from the tables of its proper subsets.
<1>. DEFINE val[t \in SUBSET s] ==
              IF t = {} THEN 0 ELSE f[First(t)] + Total(f, t \ {First(t)})[t \ {First(t)}]
<1>4. ASSUME NEW t \in SUBSET s, t # s
      PROVE  val[t] = Total(f, t)[t]
  <2>1. Totals(f, t, Total(f, t)) /\ IsFiniteSet(t)
    BY <1>3, <1>4
  <2>2. CASE t = {}
    BY <2>1, <2>2, TotalsAt
  <2>3. CASE t # {}
    <3>. DEFINE rest == t \ {First(t)}
    <3>1. rest \in SUBSET s /\ rest # s /\ rest \in (SUBSET t) \cap (SUBSET rest)
      BY <2>3, FirstIn
    <3>2. Totals(f, rest, Total(f, rest))
      BY <1>3, <3>1
    <3>3. Total(f, t)[t] = f[First(t)] + Total(f, t)[rest]
      BY <2>1, <2>3, TotalsAt
    <3>4. Total(f, t)[rest] = Total(f, rest)[rest]
      BY <2>1, <3>1, <3>2, TotalsUnique
    <3>. QED
      BY <2>3, <3>3, <3>4
  <2>. QED
    BY <2>2, <2>3
<1>5. Totals(f, s, val)
  <2>1. ASSUME NEW t \in SUBSET s, t # {}
        PROVE  val[t] = f[First(t)] + val[t \ {First(t)}]
    <3>1. t \ {First(t)} \in SUBSET s /\ t \ {First(t)} # s
      BY <2>1, FirstIn
    <3>2. val[t \ {First(t)}] = Total(f, t \ {First(t)})[t \ {First(t)}]
      BY <1>4, <3>1
    <3>. QED
      BY <2>1, <3>2
  <2>2. \A t \in SUBSET s : t = {} => val[t] = 0
    OBVIOUS
  <2>3. val = [t \in SUBSET s |-> val[t]]
    OBVIOUS
  <2>. HIDE DEF val
  <2>. QED
    BY <2>1, <2>2, <2>3 DEF Totals
<1>. QED
  BY <1>2, <1>5 DEF Total

LEMMA SumOfNone == ASSUME NEW f  PROVE SumFunctionOnSet(f, {}) = 0
<1>1. IsFiniteSet({})
  BY FS_EmptySet
<1>. QED
  BY <1>1, SumIsTotal, TotalsExist, TotalsAt

LEMMA SumByFirst ==
  ASSUME NEW f, NEW S, IsFiniteSet(S), S # {}
  PROVE  SumFunctionOnSet(f, S) = f[First(S)] + SumFunctionOnSet(f, S \ {First(S)})
<1>. DEFINE rest == S \ {First(S)}
<1>1. IsFiniteSet(rest)
  BY FS_Subset
<1>2. Totals(f, S, Total(f, S)) /\ Totals(f, rest, Total(f, rest))
  BY <1>1, TotalsExist
<1>3. Total(f, S)[S] = f[First(S)] + Total(f, S)[rest]
  BY <1>2, TotalsAt
<1>4. Total(f, S)[rest] = Total(f, rest)[rest]
  BY <1>2, TotalsUnique
<1>. QED
  BY <1>3, <1>4, SumIsTotal

LEMMA SumTyped ==
  ASSUME NEW f, NEW S, IsFiniteSet(S), \A x \in S : f[x] \in Nat
  PROVE  SumFunctionOnSet(f, S) \in Nat
<1>. DEFINE Bad == {s \in SUBSET S : SumFunctionOnSet(f, s) \notin Nat}
<1>. SUFFICES ASSUME Bad # {} PROVE FALSE
  OBVIOUS
<1>1. PICK s \in Bad : \A t \in SUBSET s : t # s => t \notin Bad
  <2>1. Bad \in SUBSET SUBSET S
    OBVIOUS
  <2>. HIDE DEF Bad
  <2>. QED
    BY <2>1, SmallestSet
<1>2. s # {}
  BY SumOfNone
<1>3. SumFunctionOnSet(f, s \ {First(s)}) \in Nat
  <2>1. s \ {First(s)} \in SUBSET s /\ s \ {First(s)} # s /\ s \ {First(s)} \in SUBSET S
    BY <1>2, FirstIn
  <2>. QED
    BY <1>1, <2>1
<1>4. SumFunctionOnSet(f, s) = f[First(s)] + SumFunctionOnSet(f, s \ {First(s)})
  BY <1>2, SumByFirst, FS_Subset
<1>5. f[First(s)] \in Nat
  BY <1>2, FirstIn
<1>. QED
  BY <1>3, <1>4, <1>5

\* It does not matter with which element a sum begins.
LEMMA SumByAny ==
  ASSUME NEW f, NEW S, IsFiniteSet(S), \A x \in S : f[x] \in Nat, NEW y \in S
  PROVE  SumFunctionOnSet(f, S) = f[y] + SumFunctionOnSet(f, S \ {y})
<1>. DEFINE Sums(s) == SumFunctionOnSet(f, s)
            Bad == {s \in SUBSET S : \E z \in s : Sums(s) # f[z] + Sums(s \ {z})}
<1>1. \A s \in SUBSET S : /\ Sums(s) \in Nat
                          /\ s # {} => Sums(s) = f[First(s)] + Sums(s \ {First(s)})
  <2>1. \A s \in SUBSET S : IsFiniteSet(s)
    BY FS_Subset
  <2>. QED
    BY <2>1, SumTyped, SumByFirst
<1>. HIDE DEF Sums
<1>. SUFFICES ASSUME Bad # {} PROVE FALSE
  BY DEF Sums
<1>2. PICK s \in Bad : \A t \in SUBSET s : t # s => t \notin Bad
  <2>1. Bad \in SUBSET SUBSET S
    OBVIOUS
  <2>. HIDE DEF Bad
  <2>. QED
    BY <2>1, SmallestSet
<1>3. PICK z \in s : Sums(s) # f[z] + Sums(s \ {z})
  OBVIOUS
<1>. DEFINE x == First(s)
<1>4. x \in s /\ s \in SUBSET S /\ Sums(s) = f[x] + Sums(s \ {x})
  BY <1>1, <1>3, FirstIn
<1>. HIDE DEF x
<1>5. x # z
  BY <1>3, <1>4
<1>6. \A u, v \in s : u # v => Sums(s \ {u}) = f[v] + Sums((s \ {u}) \ {v})
  <2>. SUFFICES ASSUME NEW u \in s, NEW v \in s, u # v
                PROVE  Sums(s \ {u}) = f[v] + Sums((s \ {u}) \ {v})
    OBVIOUS
  <2>1. s \ {u} \in SUBSET s /\ s \ {u} # s /\ s \ {u} \in SUBSET S /\ v \in s \ {u}
    BY <1>4
  <2>. QED
    BY <1>2, <2>1
<1>7. (s \ {x}) \ {z} = (s \ {z}) \ {x}
  OBVIOUS
<1>8. /\ f[x] \in Nat /\ f[z] \in Nat /\ Sums((s \ {x}) \ {z}) \in Nat
      /\ Sums(s \ {z}) = f[x] + Sums((s \ {x}) \ {z})
      /\ Sums(s \ {x}) = f[z] + Sums((s \ {x}) \ {z})
  <2>1. (s \ {x}) \ {z} \in SUBSET S
    BY <1>4
  <2>2. f[x] \in Nat /\ f[z] \in Nat
    BY <1>3, <1>4
  <2>3. Sums(s \ {x}) = f[z] + Sums((s \ {x}) \ {z})
    BY <1>4, <1>5, <1>6
  <2>4. Sums(s \ {z}) = f[x] + Sums((s \ {z}) \ {x})
    BY <1>4, <1>5, <1>6
  <2>5. Sums(s \ {z}) = f[x] + Sums((s \ {x}) \ {z})
    BY <1>7, <2>4, Zenon
  <2>. QED
    BY <1>1, <2>1, <2>2, <2>3, <2>5
<1>. QED
  BY <1>3, <1>4, <1>8

\* More elements, no smaller a sum.
LEMMA SumGrows ==
  ASSUME NEW f, NEW S, IsFiniteSet(S), \A x \in S : f[x] \in Nat, NEW A \in SUBSET S
  PROVE  SumFunctionOnSet(f, A) <= SumFunctionOnSet(f, S)
<1>. DEFINE Sums(s) == SumFunctionOnSet(f, s)
            Bad == {s \in SUBSET S : A \subseteq s /\ ~(Sums(A) <= Sums(s))}
<1>1. \A s \in SUBSET S : Sums(s) \in Nat /\ \A y \in s : Sums(s) = f[y] + Sums(s \ {y})
  <2>1. \A s \in SUBSET S : IsFiniteSet(s)
    BY FS_Subset
  <2>. QED
    BY <2>1, SumTyped, SumByAny
<1>. HIDE DEF Sums
<1>. SUFFICES ASSUME Bad # {} PROVE FALSE
  BY DEF Sums
<1>2. PICK s \in Bad : \A t \in SUBSET s : t # s => t \notin Bad
  <2>1. Bad \in SUBSET SUBSET S
    OBVIOUS
  <2>. HIDE DEF Bad
  <2>. QED
    BY <2>1, SmallestSet
<1>3. s \in SUBSET S /\ A \subseteq s /\ ~(Sums(A) <= Sums(s))
  OBVIOUS
<1>4. PICK y \in s : y \notin A
  BY <1>1, <1>3
<1>5. s \ {y} \in SUBSET s /\ s \ {y} # s /\ s \ {y} \in SUBSET S /\ A \subseteq s \ {y}
  BY <1>3, <1>4
<1>6. Sums(A) <= Sums(s \ {y})
  BY <1>2, <1>5
<1>7. Sums(s) = f[y] + Sums(s \ {y}) /\ f[y] \in Nat
  BY <1>1, <1>3
<1>. QED
  BY <1>1, <1>3, <1>5, <1>6, <1>7

\* The sum over two sets with nothing in common.
LEMMA SumOfUnion ==
  ASSUME NEW f, NEW S, IsFiniteSet(S), \A x \in S : f[x] \in Nat,
         NEW A \in SUBSET S, NEW B \in SUBSET S, A \cap B = {}
  PROVE  SumFunctionOnSet(f, A \cup B) = SumFunctionOnSet(f, A) + SumFunctionOnSet(f, B)
<1>. DEFINE Sums(s) == SumFunctionOnSet(f, s)
            Bad == {s \in SUBSET A : Sums(s \cup B) # Sums(s) + Sums(B)}
<1>1. \A s \in SUBSET S : Sums(s) \in Nat /\ \A y \in s : Sums(s) = f[y] + Sums(s \ {y})
  <2>1. \A s \in SUBSET S : IsFiniteSet(s)
    BY FS_Subset
  <2>. QED
    BY <2>1, SumTyped, SumByAny
<1>2. Sums({}) = 0
  BY SumOfNone
<1>. HIDE DEF Sums
<1>. SUFFICES ASSUME Bad # {} PROVE FALSE
  BY DEF Sums
<1>3. PICK s \in Bad : \A t \in SUBSET s : t # s => t \notin Bad
  <2>1. Bad \in SUBSET SUBSET A /\ IsFiniteSet(A)
    BY FS_Subset
  <2>. HIDE DEF Bad
  <2>. QED
    BY <2>1, SmallestSet
<1>4. s \in SUBSET A /\ Sums(s \cup B) # Sums(s) + Sums(B)
  OBVIOUS
<1>5. PICK y \in s : TRUE
  <2>1. Sums(B) \in Nat
    BY <1>1
  <2>2. s = {} => s \cup B = B
    OBVIOUS
  <2>3. s = {} => Sums(s \cup B) = Sums(B) /\ Sums(s) = 0
    BY <1>2, <2>2, Zenon
  <2>4. s # {}
    BY <1>4, <2>1, <2>3
  <2>. QED
    BY <2>4
<1>6. s \ {y} \in SUBSET s /\ s \ {y} # s /\ s \ {y} \in SUBSET A
  BY <1>4
<1>7. Sums((s \ {y}) \cup B) = Sums(s \ {y}) + Sums(B)
  BY <1>3, <1>6
<1>8. /\ (s \cup B) \ {y} = (s \ {y}) \cup B /\ y \in s \cup B /\ y \in S
      /\ s \cup B \in SUBSET S /\ s \in SUBSET S /\ s \ {y} \in SUBSET S
  BY <1>4
<1>9. Sums(s \cup B) = f[y] + Sums((s \ {y}) \cup B) /\ Sums(s) = f[y] + Sums(s \ {y})
  BY <1>1, <1>8
<1>10. f[y] \in Nat /\ Sums(s \ {y}) \in Nat /\ Sums(B) \in Nat
  BY <1>1, <1>8
<1>. QED
  BY <1>4, <1>7, <1>9, <1>10

(***************************************************************************)
(* What self-cure customers would have paid anyway is recovered.           *)
(***************************************************************************)

\* The limits a batch needs, as shipped: the pursue floor lets the weakest prior
\* pass, the hour of BATCH_START is no quiet one, and an action and a contact
\* are allowed at all.
ByDayAsShipped ==
  /\ PursueFloor <= 25
  /\ ~InQuietHours(14)
  /\ MaxAttempts >= 1 /\ MaxContactsPerWeek >= 1

\* What is left of Generated once a case may be wired with a chooser.
Drawn(c, i) ==
  /\ i.customer = c /\ i.amount >= 199 /\ HourOfDay(i.at) = 14
  /\ ~i.llm /\ ~i.executor /\ ~i.dryRun /\ ~i.kill /\ i.cell = None
  /\ i.code \in HardCodes => i.persona = "never_payer"
  /\ i.code \in HardCodes \cup DOMAIN CodeCandidates \cup {"OVERDUE", "SESSION_EXPIRED"}
  /\ i.type = "overdue_invoice" <=> i.code = "OVERDUE"
  /\ i.type = "checkout_abandoned" <=> i.code = "SESSION_EXPIRED"

\* Up to its first action, nothing has been tried on the customer, and the last
\* step of the playbook, which is a contact, is still ahead; then he has paid.
Cured(i, r) ==
  /\ r.pc \in {"new", "plan", "prepare", "gate", "act"} =>
       /\ r.last = None /\ r.attempts = 0 /\ r.hist = <<>>
       /\ HourOfDay(r.now) = 14
  /\ r.pc = "plan" => Pursued(i)
  /\ r.pc = "gate" => r.step <= Len(Playbook[r.playbook])
  /\ r.pc \in {"respond", "finish", "done"} => r.last = "paid"

\* He has not opted out, and is not contacted before his case is.
Unbothered(c) ==
  /\ c \notin optOuts
  /\ run[c].pc \in {"new", "plan", "prepare"} => contacts[c] = <<>>

\* What was paid was paid for a playbook.
PaidForPlaybook(r) == r.last = "paid" => r.playbook \in PlaybookNames

MostActions == 3 * (at - 1) + IF at \in Cases THEN run[at].attempts ELSE 0

BudgetIdle == \A d \in DOMAIN budget : budget[d] <= MostActions

SelfCures == {c \in Cases : info[c].persona = "self_cure"}

CureInv ==
  /\ \A c \in Cases : Drawn(c, info[c]) /\ Tally(run[c]) /\ PaidForPlaybook(run[c])
  /\ \A c \in SelfCures : Cured(info[c], run[c]) /\ Unbothered(c)
  /\ BudgetIdle

\* A drawn case that is no hard failure is pursued, and at 199 rupees the EV gate
\* lets every playbook through.
LEMMA AlwaysWorked ==
  ASSUME NEW c, NEW i \in CaseInfo, Drawn(c, i), i.code \notin HardCodes, ByDayAsShipped
  PROVE  /\ Pursued(i)
         /\ RulePlan(i).playbook \in PlaybookNames /\ ~LosesMoney(i, RulePlan(i))
<1>. DEFINE a == i.amount
<1>1. a \in Nat /\ a >= 199 /\ PursueFloor \in 0..100 /\ PursueFloor <= 25 /\ i.type \in CaseTypes
  BY PursueFloorAssumption DEF CaseInfo, Drawn, ByDayAsShipped
<1>2. /\ DOMAIN CaseTypePlaybook = {"overdue_invoice", "checkout_abandoned"}
      /\ DOMAIN CaseTypeCandidates = {"overdue_invoice", "checkout_abandoned"}
  BY DEF CaseTypePlaybook, CaseTypeCandidates
<1>3. /\ DOMAIN SoftPrior = {"INSUFFICIENT_FUNDS", "ISSUER_UNAVAILABLE",
                             "GATEWAY_TIMEOUT", "CARD_EXPIRED"}
      /\ DOMAIN CodeCandidates = {"INSUFFICIENT_FUNDS", "ISSUER_UNAVAILABLE",
                                  "GATEWAY_TIMEOUT", "CARD_EXPIRED"}
  BY DEF SoftPrior, CodeCandidates
<1>4. i.type \notin {"overdue_invoice", "checkout_abandoned"} => i.code \in DOMAIN SoftPrior
  BY <1>3 DEF Drawn
<1>5. Prior(i).p \in Nat /\ Prior(i).p >= 25 /\ Candidates(i) # <<>>
  <2>1. CASE i.type \in {"overdue_invoice", "checkout_abandoned"}
    <3>1. Prior(i) = CaseTypePlaybook[i.type] /\ Candidates(i) = CaseTypeCandidates[i.type]
      BY <1>2, <2>1 DEF Prior, Candidates
    <3>. QED
      BY <2>1, <3>1 DEF CaseTypePlaybook, CaseTypeCandidates
  <2>2. CASE i.type \notin {"overdue_invoice", "checkout_abandoned"}
    <3>1. Prior(i) = SoftPrior[i.code] /\ Candidates(i) = CodeCandidates[i.code]
      BY <1>2, <1>3, <1>4, <2>2 DEF Prior, Candidates
    <3>2. \A code \in DOMAIN SoftPrior : SoftPrior[code].p \in Nat /\ SoftPrior[code].p >= 25
      BY <1>3 DEF SoftPrior
    <3>3. \A code \in DOMAIN CodeCandidates : CodeCandidates[code] # <<>>
      BY <1>3 DEF CodeCandidates
    <3>. QED
      BY <1>3, <1>4, <2>2, <3>1, <3>2, <3>3
  <2>. QED
    BY <2>1, <2>2
<1>6. Pursued(i)
  BY <1>1, <1>5 DEF Pursued
<1>. DEFINE first == Candidates(i)[1]
            ev == ExpectedValue(first.p, a, first.playbook)
<1>7. /\ RulePlan(i).p = first.p /\ RulePlan(i).playbook = first.playbook
      /\ first.playbook \in PlaybookNames /\ ev \in Int
  BY <1>5, <1>6, FirstIsPlanned, FirstIsBest DEF FirstBeatsAll
<1>8. ASSUME NEW p \in Nat, p >= 25, NEW name, NEW cost \in Nat,
             StepsCost(name) = cost, PlaybookCost(name) = cost,
             cost <= 40 \/ (p >= 50 /\ cost <= 60), first = Candidate(p, name)
      PROVE  ev > 0
  <2>1. Near(ExpectedValue(p, a, name), p * a - 100 * cost)
    BY <1>8, Priced
  <2>2. first.p = p /\ first.playbook = name
    BY <1>8 DEF Candidate
  <2>3. p * a >= 25 * a /\ (p >= 50 => p * a >= 50 * a)
    BY <1>1, <1>8
  <2>4. p * a \in Nat /\ p * a - 100 * cost > 50
    BY <1>1, <1>8, <2>3
  <2>. HIDE DEF ev
  <2>5. Near(ev, p * a - 100 * cost)
    BY <2>1, <2>2 DEF ev
  <2>. QED
    BY <2>4, <2>5 DEF Near
<1>9. /\ 25 \in Nat /\ 50 \in Nat /\ 55 \in Nat /\ 68 \in Nat /\ 82 \in Nat /\ 85 \in Nat
      /\ 28 \in Nat /\ 40 \in Nat /\ 44 \in Nat /\ 60 \in Nat
      /\ 25 >= 25 /\ 50 >= 50 /\ 55 >= 50 /\ 68 >= 50 /\ 82 >= 50 /\ 85 >= 50
      /\ 50 >= 25 /\ 55 >= 25 /\ 68 >= 25 /\ 82 >= 25 /\ 85 >= 25
      /\ 28 <= 40 /\ 40 <= 40 /\ 44 <= 60 /\ 60 <= 60
  OBVIOUS
<1>10. \/ first = Candidate(55, "receivables")
       \/ first = Candidate(25, "checkout_recovery")
       \/ first = Candidate(68, "dunning")
       \/ first = Candidate(85, "smart_retry")
       \/ first = Candidate(82, "smart_retry")
       \/ first = Candidate(50, "update_method")
  BY <1>5, <1>6, CandidatesOf
<1>. HIDE DEF first
<1>11. ev > 0
  <2>. HIDE DEF ev
  <2>1. CASE first = Candidate(55, "receivables")
    BY <1>8, <1>9, <2>1, ShapesAgree, Zenon
  <2>2. CASE first = Candidate(25, "checkout_recovery")
    BY <1>8, <1>9, <2>2, ShapesAgree, Zenon
  <2>3. CASE first = Candidate(68, "dunning")
    BY <1>8, <1>9, <2>3, ShapesAgree, Zenon
  <2>4. CASE first = Candidate(85, "smart_retry")
    BY <1>8, <1>9, <2>4, ShapesAgree, Zenon
  <2>5. CASE first = Candidate(82, "smart_retry")
    BY <1>8, <1>9, <2>5, ShapesAgree, Zenon
  <2>6. CASE first = Candidate(50, "update_method")
    BY <1>8, <1>9, <2>6, ShapesAgree, Zenon
  <2>. QED
    BY <1>10, <2>1, <2>2, <2>3, <2>4, <2>5, <2>6
<1>. QED
  BY <1>6, <1>7, <1>11 DEF LosesMoney

LEMMA PaidStays ==
  ASSUME Inv, NEW c \in Cases, Start(c) \/ Handle(c), PaidForPlaybook(run[c])
  PROVE  PaidForPlaybook(run'[c])
<1>1. /\ run \in [Cases -> RunState] /\ run[c] \in RunState /\ Stage(run[c])
  BY CaseFacts DEF Inv, TypeOK, CaseInv
<1>2. ASSUME NEW r, Becomes(c, r)  PROVE run'[c] = r
  BY <1>1, <1>2 DEF Becomes
<1>3. CASE Start(c)
  <2>1. run'[c].last = run[c].last /\ run'[c].playbook = run[c].playbook
    BY <1>1, <1>2, <1>3 DEF Start, Closing, RunState
  <2>. QED
    BY <2>1 DEF PaidForPlaybook
<1>4. CASE Plan(c)
  <2>1. PICK plan \in Plans(info[c]), q \in RunState :
          /\ Planned(q, run[c], plan)
          /\ \/ Becomes(c, Closing(q, "abandoned")) \/ Becomes(c, Closing(q, "escalated"))
             \/ plan.playbook \in PlaybookNames /\ Becomes(c, Worked(q))
    BY <1>4, PlanTaken
  <2>2. /\ run'[c].last = run[c].last
        /\ run'[c].playbook = run[c].playbook \/ run'[c].playbook \in PlaybookNames
    BY <1>2, <2>1 DEF Planned, Worked, Closing, RunState
  <2>. QED
    BY <2>2 DEF PaidForPlaybook
<1>5. CASE Execute(c)
  <2>1. run[c].playbook \in PlaybookNames
    BY <1>1, <1>5 DEF Execute, Stage
  <2>2. run'[c].playbook = run[c].playbook
    BY <1>1, <1>5 DEF Execute, Becomes, RunState
  <2>. QED
    BY <2>1, <2>2 DEF PaidForPlaybook
<1>6. CASE ~Start(c) /\ ~Plan(c) /\ ~Execute(c)
  <2>1. /\ Prepare(c) \/ Defer(c) \/ Decide(c) \/ ActFails(c) \/ HearBack(c) \/ Exhaust(c)
             \/ Finish(c)
        /\ run'[c].playbook = run[c].playbook
    <3>1. ~Crash(c)
      BY <1>6, NextPc DEF Handle
    <3>. QED
      BY <1>6, <3>1, PlaybookStays DEF Step, Handle
  <2>2. run'[c].last = run[c].last
    <3>1. \A v : Closing(run[c], v).last = run[c].last
      BY <1>1 DEF Closing, RunState
    <3>2. \A q \in {NextStep(run[c]), [NextStep(run[c]) EXCEPT !.failed = TRUE],
                    [NextStep(run[c]) EXCEPT !.state = "waiting"]} : q.last = run[c].last
      BY <1>1 DEF NextStep, RunState
    <3>3. Prepare(c) => run'[c].last = run[c].last
      BY <1>1, <1>2 DEF Prepare, RunState
    <3>4. Defer(c) \/ ActFails(c) => run'[c].last = run[c].last
      BY <1>2, <3>2 DEF Defer, ActFails
    <3>5. Decide(c) => run'[c].last = run[c].last
      BY <1>1, <1>2, <3>1, <3>2 DEF Decide, AfterDecision, RunState
    <3>6. HearBack(c) => run'[c].last = run[c].last
      BY <1>2, <3>1, <3>2 DEF HearBack, AfterReply
    <3>7. Exhaust(c) => run'[c].last = run[c].last
      BY <1>2, <3>1 DEF Exhaust
    <3>8. Finish(c) => run'[c].last = run[c].last
      BY <1>1, <1>2 DEF Finish, RunState
    <3>. QED
      BY <2>1, <3>3, <3>4, <3>5, <3>6, <3>7, <3>8
  <2>. QED
    BY <2>1, <2>2 DEF PaidForPlaybook
<1>. QED
  BY <1>3, <1>4, <1>5, <1>6

\* The gate has nothing against a first contact of a customer at 14:00.
LEMMA FirstContactAllowed ==
  ASSUME Inv, NEW c \in Cases, Drawn(c, info[c]), ByDayAsShipped,
         \A d \in Nat : BudgetLeft(Spent(d)),
         run[c].attempts = 0, run[c].hist = <<>>, HourOfDay(run[c].now) = 14,
         IsContact(NextAction(c))
  PROVE  Gate(c)
<1>1. run[c].now \in Nat /\ Day(run[c].now) \in Nat
  BY CaseFacts DEF Day
<1>2. ~InQuietHours(run[c].now)
  <2>1. HourOfDay(14) = 14
    BY DEF HourOfDay
  <2>. QED
    BY <2>1 DEF ByDayAsShipped, InQuietHours
<1>3. WeekHasRoom(<<>>, run[c].now)
  <2>1. ThisWeek(<<>>, run[c].now) = {}
    BY DEF ThisWeek
  <2>2. Cardinality({}) = 0
    BY FS_EmptySet
  <2>. QED
    BY <2>1, <2>2, PolicyAssumption DEF WeekHasRoom, ByDayAsShipped
<1>4. GapKept(<<>>, run[c].now)
  BY DEF GapKept
<1>5. AttemptsLeft(0)
  BY PolicyAssumption DEF AttemptsLeft, ByDayAsShipped
<1>6. NextAction(c).kind # "retry"
  BY DEF IsContact, ContactKinds
<1>7. ~info[c].kill
  BY DEF Drawn
<1>. QED
  BY <1>1, <1>2, <1>3, <1>4, <1>5, <1>6, <1>7 DEF Gate, Allowed, ContactKept

\* Each step of a self-cure customer's case brings it nearer to the payment.
LEMMA CureGoesOn ==
  ASSUME Inv, NEW c \in Cases, Start(c) \/ Handle(c), ByDayAsShipped,
         Drawn(c, info[c]), Tally(run[c]), info[c].persona = "self_cure",
         Cured(info[c], run[c]), Unbothered(c), \A d \in Nat : BudgetLeft(Spent(d))
  PROVE  Cured(info[c], run'[c]) /\ Unbothered(c)'
<1>. DEFINE i == info[c]
            r == run[c]
            Early == {"new", "plan", "prepare", "gate", "act"}
<1>1. /\ run \in [Cases -> RunState] /\ r \in RunState /\ Stage(r) /\ i \in CaseInfo
      /\ r.step \in Nat /\ r.now \in Nat
  BY CaseFacts DEF Inv, TypeOK, CaseInv
<1>2. ASSUME NEW q, Becomes(c, q)  PROVE run'[c] = q
  BY <1>1, <1>2 DEF Becomes
<1>3. i.code \notin HardCodes
  BY DEF Drawn
<1>4. i.customer = c /\ ~i.llm /\ ~i.executor /\ ~i.dryRun /\ ~i.kill /\ i.cell = None
  BY DEF Drawn
<1>5. /\ Pursued(i) /\ RulePlan(i).playbook \in PlaybookNames /\ ~LosesMoney(i, RulePlan(i))
  BY <1>1, <1>3, AlwaysWorked
<1>6. r.pc \in Early => /\ r.last = None /\ r.attempts = 0 /\ r.hist = <<>>
                        /\ HourOfDay(r.now) = 14
  BY DEF Cured
<1>7. ASSUME NEW q, q.pc \in Early, q.last = None, q.attempts = 0, q.hist = <<>>,
             HourOfDay(q.now) = 14, q.pc = "gate" => q.step <= Len(Playbook[q.playbook])
      PROVE  Cured(i, q)
  BY <1>5, <1>7 DEF Cured
<1>8. ASSUME NEW q, q.pc \in {"respond", "finish", "done"}, q.last = "paid"
      PROVE  Cured(i, q)
  BY <1>8 DEF Cured
<1>9. ASSUME UNCHANGED <<contacts, optOuts>>, run'[c].pc \in {"new", "plan", "prepare"} =>
                                                r.pc \in {"new", "plan", "prepare"}
      PROVE  Unbothered(c)'
  BY <1>9 DEF Unbothered
<1>10. CASE Start(c)
  <2>1. r.pc = "new" /\ run'[c] = [r EXCEPT !.pc = "plan"]
    BY <1>2, <1>4, <1>5, <1>10 DEF Start, HasOptedOut, Unbothered
  <2>2. run'[c].pc = "plan" /\ run'[c].last = r.last /\ run'[c].attempts = r.attempts
        /\ run'[c].hist = r.hist /\ run'[c].now = r.now
    BY <1>1, <2>1 DEF RunState
  <2>3. UNCHANGED <<contacts, optOuts>>
    BY <1>10 DEF Start, shared
  <2>4. Cured(info[c], run'[c])
    <3>1. r.last = None /\ r.attempts = 0 /\ r.hist = <<>> /\ HourOfDay(r.now) = 14
      BY <1>6, <2>1
    <3>2. run'[c].pc \in Early /\ run'[c].pc # "gate"
      BY <2>2
    <3>. QED
      BY <1>7, <2>2, <3>1, <3>2
  <2>5. Unbothered(c)'
    BY <1>9, <2>1, <2>3
  <2>. QED
    BY <2>4, <2>5
<1>11. CASE Plan(c)
  <2>1. r.pc = "plan"
    BY <1>11 DEF Plan
  <2>2. PICK plan \in Plans(i), q \in RunState :
          /\ Planned(q, r, plan)
          /\ \/ LosesMoney(i, plan) \/ plan.playbook \notin PlaybookNames
             \/ Becomes(c, Worked(q))
    BY <1>11, PlanTaken
  <2>3. plan = RulePlan(i)
    BY <1>4, <2>2 DEF Plans
  <2>4. Becomes(c, Worked(q))
    BY <1>5, <2>2, <2>3
  <2>5. /\ q.pc = r.pc /\ q.last = r.last /\ q.attempts = r.attempts
        /\ q.hist = r.hist /\ q.now = r.now
    BY <1>1, <2>2 DEF Planned, RunState
  <2>6. run'[c].pc = "prepare" /\ run'[c].last = r.last /\ run'[c].attempts = r.attempts
        /\ run'[c].hist = r.hist /\ run'[c].now = r.now
    BY <1>2, <2>2, <2>4, <2>5 DEF Worked, RunState
  <2>. QED
    BY <1>6, <1>7, <1>9, <1>11, <2>1, <2>6 DEF Plan, shared
<1>12. CASE Prepare(c)
  <2>1. r.pc = "prepare" /\ r.step = 1 /\ contacts[c] = <<>> /\ r.playbook \in PlaybookNames
    BY <1>1, <1>12 DEF Prepare, Tally, Unbothered, Stage
  <2>2. run'[c] = [r EXCEPT !.pc = "gate", !.state = "planned", !.hist = <<>>]
    BY <1>2, <1>4, <1>12, <2>1 DEF Prepare, ContactHistory
  <2>3. run'[c].pc = "gate" /\ run'[c].last = r.last /\ run'[c].attempts = r.attempts
        /\ run'[c].hist = <<>> /\ run'[c].now = r.now /\ run'[c].step = 1
        /\ run'[c].playbook = r.playbook
    BY <1>1, <2>1, <2>2 DEF RunState
  <2>4. 1 <= Len(Playbook[r.playbook])
    BY <2>1, LastIsContact, Zenon
  <2>. QED
    BY <1>6, <1>7, <1>9, <1>12, <2>1, <2>3, <2>4 DEF Prepare, shared
<1>13. CASE Defer(c) \/ ActFails(c)
  BY <1>4, <1>13 DEF Defer, Deferred, ActFails
<1>14. CASE Decide(c)
  <2>. DEFINE steps == Playbook[r.playbook]
  <2>1. /\ r.pc = "gate" /\ r.step <= Len(steps) /\ r.playbook \in PlaybookNames
        /\ Len(steps) \in 1..3 /\ IsContact(steps[Len(steps)])
    BY <1>1, <1>14, LastIsContact DEF Decide, StepsLeft, Stage
  <2>2. ASSUME r.step = Len(steps)  PROVE Gate(c)
    <3>1. r.last # "promise_to_pay"
      BY <1>6, <2>1 DEF None
    <3>2. IsContact(NextAction(c))
      BY <2>1, <2>2, <3>1 DEF NextAction, Message, IsContact, ContactKinds
    <3>. QED
      BY <1>6, <2>1, <3>2, FirstContactAllowed
  <2>3. CASE Gate(c)
    <3>1. run'[c] = [r EXCEPT !.pc = "act"]
      BY <1>2, <1>4, <1>14, <2>3 DEF Decide, AfterDecision
    <3>2. run'[c].pc = "act" /\ run'[c].last = r.last /\ run'[c].attempts = r.attempts
          /\ run'[c].hist = r.hist /\ run'[c].now = r.now
      BY <1>1, <3>1 DEF RunState
    <3>. QED
      BY <1>6, <1>7, <1>9, <1>14, <2>1, <3>2 DEF Decide, shared
  <2>4. CASE ~Gate(c)
    <3>1. run'[c] = NextStep(r)
      BY <1>2, <1>4, <1>14, <2>4 DEF Decide, AfterDecision
    <3>2. run'[c].pc = "gate" /\ run'[c].last = r.last /\ run'[c].attempts = r.attempts
          /\ run'[c].hist = r.hist /\ run'[c].now = r.now + 24
          /\ run'[c].step = r.step + 1 /\ run'[c].playbook = r.playbook
      BY <1>1, <3>1 DEF NextStep, RunState
    <3>3. r.step + 1 <= Len(steps)
      BY <1>1, <2>1, <2>2, <2>4
    <3>4. HourOfDay(run'[c].now) = 14
      BY <1>1, <1>6, <2>1, <3>2 DEF HourOfDay
    <3>. QED
      BY <1>6, <1>7, <1>9, <1>14, <2>1, <3>2, <3>3, <3>4 DEF Decide, shared
  <2>. QED
    BY <2>3, <2>4
<1>15. CASE Execute(c)
  <2>1. Reply(c) = "paid"
    BY DEF Reply, Respond, Pays
  <2>2. run'[c].pc = "respond" /\ run'[c].last = "paid"
    BY <1>1, <1>15, <2>1 DEF Execute, Becomes, RunState
  <2>3. optOuts' = optOuts
    BY <1>15 DEF Execute
  <2>. QED
    BY <1>8, <2>2, <2>3 DEF Unbothered
<1>16. CASE HearBack(c)
  <2>1. r.last = "paid"
    BY <1>16 DEF HearBack, Cured
  <2>2. run'[c] = Closing(r, "recovered")
    BY <1>2, <1>16, <2>1 DEF HearBack, AfterReply
  <2>3. run'[c].pc = "finish" /\ run'[c].last = "paid"
    BY <1>1, <2>1, <2>2 DEF Closing, RunState
  <2>4. UNCHANGED <<contacts, optOuts>>
    BY <1>16, <2>1 DEF HearBack
  <2>. QED
    BY <1>8, <1>9, <2>3, <2>4
<1>17. CASE Exhaust(c)
  BY <1>17 DEF Exhaust, StepsLeft, Cured
<1>18. CASE Finish(c)
  <2>1. r.pc = "finish" /\ run'[c] = [r EXCEPT !.pc = "done", !.state = r.verdict]
    BY <1>2, <1>18 DEF Finish
  <2>2. run'[c].pc = "done" /\ run'[c].last = "paid"
    BY <1>1, <2>1 DEF Cured, RunState
  <2>. QED
    BY <1>8, <1>9, <1>18, <2>2 DEF Finish, shared
<1>. QED
  BY <1>10, <1>11, <1>12, <1>13, <1>14, <1>15, <1>16, <1>17, <1>18 DEF Handle

LEMMA CureInit == BatchInit => CureInv
<1>. SUFFICES ASSUME BatchInit PROVE CureInv
  OBVIOUS
<1>. USE BatchFacts
<1>1. ASSUME NEW c \in Cases
      PROVE  /\ Drawn(c, info[c]) /\ Tally(run[c]) /\ PaidForPlaybook(run[c])
             /\ Cured(info[c], run[c]) /\ Unbothered(c)
  <2>1. Generated(c, info[c], segment[c])
    BY DEF BatchInit
  <2>2. Drawn(c, info[c])
    BY <2>1 DEF Generated, Drawn
  <2>3. run[c] = Fresh(info[c])
    BY DEF BatchInit, Init
  <2>4. /\ run[c].pc = "new" /\ run[c].step = 1 /\ run[c].attempts = 0 /\ run[c].last = None
        /\ run[c].hist = <<>> /\ run[c].now = info[c].at
    BY <2>3 DEF Fresh
  <2>5. c \notin optOuts /\ contacts[c] = <<>>
    BY BatchAssumption DEF BatchInit, Init
  <2>6. Tally(run[c]) /\ PaidForPlaybook(run[c])
    BY <2>4 DEF Tally, PaidForPlaybook, None
  <2>7. Cured(info[c], run[c])
    BY <2>2, <2>4 DEF Cured, Drawn
  <2>. QED
    BY <2>2, <2>5, <2>6, <2>7 DEF Unbothered
<1>2. DOMAIN budget = {}
  BY DEF BatchInit, Init
<1>. QED
  BY <1>1, <1>2 DEF CureInv, SelfCures, BudgetIdle

\* Another customer is left alone by the case at hand.
LEMMA OthersUnbothered ==
  ASSUME BatchTyped, NEW c \in Cases, Start(c) \/ Handle(c), info[c].customer = c,
         NEW d \in Cases, d # c, Unbothered(d)
  PROVE  Unbothered(d)'
<1>1. run'[d] = run[d]
  BY StepWrites DEF Step, BatchTyped
<1>2. optOuts' \subseteq optOuts \cup {c}
  BY DEF Handle, Start, Plan, Prepare, Defer, Decide, ActFails, Execute, HearBack, Exhaust,
         Finish, shared
<1>3. contacts'[d] = contacts[d]
  <2>1. CASE Execute(c)
    BY <2>1, BatchAssumption DEF Execute, BatchTyped, Inv, TypeOK
  <2>2. CASE ~Execute(c)
    BY <2>2, SameActions DEF Step, BatchTyped
  <2>. QED
    BY <2>1, <2>2
<1>. QED
  BY <1>1, <1>2, <1>3 DEF Unbothered

\* The daily budget is out of a batch's reach.
LEMMA BudgetOutOfReach ==
  ASSUME BatchInv, CureInv, at \in Cases
  PROVE  \A d \in Nat : BudgetLeft(Spent(d))
<1>. USE BatchFacts
<1>1. /\ N \in Nat /\ at \in Nat /\ at <= N /\ run[at].attempts \in Nat
      /\ run[at].attempts <= 3 /\ DailyBudget \in Nat /\ DailyBudget > 3 * N
  <2>1. Tally(run[at]) /\ run[at] \in RunState
    BY DEF CureInv, BatchInv, BatchTyped, Inv, TypeOK
  <2>2. run[at].attempts \in Nat /\ run[at].attempts <= 3
    BY <2>1 DEF Tally, RunState
  <2>. QED
    BY <2>2, BatchAssumption, PolicyAssumption
<1>2. MostActions = 3 * (at - 1) + run[at].attempts
  BY DEF MostActions
<1>3. \A d : Spent(d) \in Nat /\ (Spent(d) <= MostActions \/ Spent(d) = 0)
  BY DEF Spent, On, CureInv, BudgetIdle, BatchInv, BatchTyped, Inv, TypeOK
<1>4. MostActions \in Nat /\ MostActions < DailyBudget /\ 0 < DailyBudget
  <2>. HIDE BatchFacts
  <2>1. 1 <= at
    BY BatchFacts
  <2>. QED
    BY <1>1, <1>2, <2>1
<1>5. ASSUME NEW d \in Nat  PROVE Spent(d) < DailyBudget
  <2>1. Spent(d) \in Nat /\ (Spent(d) <= MostActions \/ Spent(d) = 0)
    BY <1>3
  <2>. DEFINE s == Spent(d)
  <2>. HIDE BatchFacts DEF s
  <2>2. s \in Nat /\ (s <= MostActions \/ s = 0)
    BY <2>1 DEF s
  <2>3. s < DailyBudget
    BY <1>1, <1>4, <2>2
  <2>. QED
    BY <2>3 DEF s
<1>. QED
  BY <1>5 DEF BudgetLeft

LEMMA RunCaseCures ==
  ASSUME BatchInv, CureInv, ByDayAsShipped, RunCase
  PROVE  CureInv'
<1>. USE BatchFacts
<1>1. at \in Cases /\ (Start(at) \/ Handle(at)) /\ Step(at) /\ at' = at /\ Inv /\ BatchTyped
  BY DEF RunCase, BatchInv, BatchTyped, Step
<1>2. info' = info /\ \A d \in Cases : d # at => run'[d] = run[d]
  BY <1>1, StepWrites
<1>3. Drawn(at, info[at]) /\ Tally(run[at]) /\ info[at].customer = at
  BY <1>1 DEF CureInv, Drawn
<1>4. Tally(run'[at]) /\ PaidForPlaybook(run'[at])
  <2>1. PaidForPlaybook(run[at])
    BY <1>1 DEF CureInv
  <2>. QED
    BY <1>1, <1>3, <2>1, TallyStays, TallyGrows, PaidStays
<1>5. \A c \in Cases : (Drawn(c, info[c]) /\ Tally(run[c]) /\ PaidForPlaybook(run[c]))'
  <2>1. \A c \in Cases : Drawn(c, info[c]) /\ Tally(run[c]) /\ PaidForPlaybook(run[c])
    BY DEF CureInv
  <2>. QED
    BY <1>2, <1>4, <2>1
<1>6. ASSUME NEW c \in SelfCures'
      PROVE  (Cured(info[c], run[c]) /\ Unbothered(c))'
  <2>1. c \in Cases /\ info[c].persona = "self_cure" /\ Cured(info[c], run[c]) /\ Unbothered(c)
    BY <1>2 DEF SelfCures, CureInv
  <2>2. CASE c = at
    <3>1. \A d \in Nat : BudgetLeft(Spent(d))
      BY <1>1, BudgetOutOfReach
    <3>2. Cured(info[at], run'[at]) /\ Unbothered(at)'
      BY <1>1, <1>3, <2>1, <2>2, <3>1, CureGoesOn
    <3>. QED
      BY <1>1, <1>2, <2>2, <3>2
  <2>3. CASE c # at
    <3>1. Unbothered(c)'
      BY <1>1, <1>3, <2>1, <2>3, OthersUnbothered
    <3>. QED
      BY <1>2, <2>1, <2>3, <3>1
  <2>. QED
    BY <2>2, <2>3
<1>7. BudgetIdle'
  <2>1. /\ run[at].attempts \in Nat /\ at \in Nat
        /\ MostActions = 3 * (at - 1) + run[at].attempts
        /\ MostActions' = 3 * (at - 1) + run'[at].attempts
    BY <1>1 DEF MostActions, Inv, TypeOK, RunState
  <2>2. CASE ~Execute(at)
    <3>1. budget' = budget
      BY <1>1, <2>2 DEF Handle, Start, Plan, Prepare, Defer, Decide, ActFails, HearBack,
                        Exhaust, Finish, shared
    <3>2. MostActions' = MostActions
      BY <1>1, <1>3, <2>1, <2>2, TallyStays
    <3>. QED
      BY <3>1, <3>2 DEF BudgetIdle, CureInv
  <2>3. CASE Execute(at)
    <3>1. /\ run'[at].attempts = run[at].attempts + 1
          /\ \A d \in DOMAIN budget' : /\ budget'[d] = Spent(d) + 1 \/ budget'[d] = Spent(d)
                                       /\ Spent(d) \in Nat
      BY <1>1, <1>3, <2>3, TallyGrows, Zenon
    <3>2. MostActions' = MostActions + 1 /\ MostActions \in Nat
      BY <1>1, <2>1, <3>1
    <3>3. \A d : Spent(d) <= MostActions
      BY <3>2 DEF Spent, On, CureInv, BudgetIdle
    <3>. QED
      BY <3>1, <3>2, <3>3 DEF BudgetIdle
  <2>. QED
    BY <2>2, <2>3
<1>. QED
  BY <1>5, <1>6, <1>7 DEF CureInv

LEMMA ChooseCures ==
  ASSUME BatchInv, CureInv, Choose
  PROVE  CureInv'
<1>. USE BatchFacts
<1>1. at \in Cases /\ info \in [Cases -> CaseInfos] /\ run' = run /\ at' = at
      /\ contacts' = contacts /\ optOuts' = optOuts /\ budget' = budget
  BY DEF Choose, BatchInv, BatchTyped, Inv, TypeOK, shared
<1>2. PICK a \in Arms : info' = [info EXCEPT ![at] = [info[at] EXCEPT !.channel = a]]
  BY DEF Choose
<1>3. info[at] \in CaseInfo
  BY <1>1, FlowAssumption
<1>. DEFINE i == info[at]
            j == info'[at]
<1>4. /\ j.type = i.type /\ j.customer = i.customer /\ j.amount = i.amount /\ j.code = i.code
      /\ j.at = i.at /\ j.cell = i.cell /\ j.persona = i.persona /\ j.llm = i.llm
      /\ j.dryRun = i.dryRun /\ j.kill = i.kill /\ j.executor = i.executor
  BY <1>1, <1>2, <1>3 DEF CaseInfo
<1>5. \A c \in Cases : c # at => info'[c] = info[c]
  BY <1>1, <1>2
<1>. HIDE DEF i, j
<1>6. /\ Drawn(at, i) => Drawn(at, j)
      /\ Cured(i, run[at]) => Cured(j, run[at])
      /\ j.persona = i.persona
  BY <1>4 DEF Drawn, Cured, Pursued, Prior
<1>7. \A c \in Cases : Drawn(c, info'[c]) /\ Tally(run'[c]) /\ PaidForPlaybook(run'[c])
  BY <1>1, <1>5, <1>6 DEF CureInv, i, j
<1>8. \A c \in Cases : c \in SelfCures' => c \in SelfCures
  BY <1>1, <1>5, <1>6 DEF SelfCures, i, j
<1>9. \A c \in SelfCures' : Cured(info'[c], run'[c]) /\ Unbothered(c)'
  <2>1. ASSUME NEW c \in SelfCures'
        PROVE  Cured(info'[c], run'[c]) /\ Unbothered(c)'
    <3>1. c \in Cases /\ Cured(info[c], run[c]) /\ Unbothered(c)
      BY <1>8 DEF SelfCures, CureInv
    <3>. QED
      BY <1>1, <1>5, <1>6, <3>1 DEF Unbothered, i, j
  <2>. QED
    BY <2>1
<1>10. BudgetIdle'
  BY <1>1 DEF CureInv, BudgetIdle, MostActions
<1>. QED
  BY <1>7, <1>9, <1>10 DEF CureInv

LEMMA LearnCures ==
  ASSUME BatchInv, CureInv, Learn
  PROVE  CureInv'
<1>. USE BatchFacts
<1>1. /\ at \in Cases /\ at' = at + 1
      /\ UNCHANGED <<info, run, contacts, optOuts, budget>>
  BY DEF Learn, vars, shared, BatchInv, BatchTyped
<1>2. BudgetIdle'
  <2>1. at \in Nat /\ run[at].attempts \in Nat /\ run[at].attempts <= 3
        /\ \A d \in DOMAIN budget : budget[d] \in Nat
    BY <1>1 DEF CureInv, Tally, BatchInv, BatchTyped, Inv, TypeOK, RunState
  <2>2. MostActions = 3 * (at - 1) + run[at].attempts
    BY <1>1 DEF MostActions
  <2>3. MostActions' \in Nat /\ MostActions' >= 3 * at
    <3>1. at + 1 \in Cases => run[at + 1].attempts \in Nat
      BY <1>1 DEF BatchInv, BatchTyped, Inv, TypeOK, RunState
    <3>2. MostActions' = 3 * at + IF at + 1 \in Cases THEN run[at + 1].attempts ELSE 0
      BY <1>1, <2>1 DEF MostActions
    <3>. QED
      BY <2>1, <3>1, <3>2
  <2>4. MostActions \in Nat /\ MostActions <= MostActions'
    BY <1>1, <2>1, <2>2, <2>3
  <2>. QED
    BY <1>1, <2>1, <2>3, <2>4 DEF BudgetIdle, CureInv
<1>. QED
  BY <1>1, <1>2 DEF CureInv, SelfCures, Unbothered

LEMMA CureStep == BatchInv /\ CureInv /\ ByDayAsShipped /\ [BatchNext]_bvars => CureInv'
<1>. SUFFICES ASSUME BatchInv, CureInv, ByDayAsShipped, [BatchNext]_bvars PROVE CureInv'
  OBVIOUS
<1>1. CASE UNCHANGED bvars
  BY <1>1 DEF bvars, vars, shared, CureInv, SelfCures, Unbothered, BudgetIdle, MostActions
<1>. QED
  BY <1>1, ChooseCures, RunCaseCures, LearnCures DEF BatchNext, Reported

\* A sum may be taken group by group.
LEMMA SumOfGroups ==
  ASSUME NEW f, NEW S, IsFiniteSet(S), \A x \in S : f[x] \in Nat,
         NEW k, NEW K, IsFiniteSet(K), \A x \in S : k[x] \in K, NEW h,
         \A p \in K : h[p] = SumFunctionOnSet(f, {x \in S : k[x] = p})
  PROVE  SumFunctionOnSet(h, K) = SumFunctionOnSet(f, S)
<1>. DEFINE Sums(s) == SumFunctionOnSet(f, s)
            Groups(P) == SumFunctionOnSet(h, P)
            Of(P) == {x \in S : k[x] \in P}
            Bad == {P \in SUBSET K : Groups(P) # Sums(Of(P))}
<1>1. \A s \in SUBSET S : Sums(s) \in Nat
  <2>1. \A s \in SUBSET S : IsFiniteSet(s)
    BY FS_Subset
  <2>. QED
    BY <2>1, SumTyped
<1>2. \A p \in K : h[p] = Sums({x \in S : k[x] = p}) /\ h[p] \in Nat
  BY <1>1
<1>3. ASSUME NEW P \in SUBSET K, NEW p \in P
      PROVE  Groups(P) = h[p] + Groups(P \ {p})
  <2>1. IsFiniteSet(P) /\ \A x \in P : h[x] \in Nat
    BY <1>2, FS_Subset
  <2>. QED
    BY <2>1, SumByAny
<1>4. \A A, B \in SUBSET S : A \cap B = {} => Sums(A \cup B) = Sums(A) + Sums(B)
  BY SumOfUnion
<1>5. Sums({}) = 0 /\ Groups({}) = 0
  BY SumOfNone
<1>6. Sums(Of(K)) = Sums(S)
  <2>1. Of(K) = S
    OBVIOUS
  <2>. QED
    BY <2>1
<1>. HIDE DEF Sums, Groups
<1>. SUFFICES ASSUME Bad # {} PROVE FALSE
  BY <1>6 DEF Sums, Groups
<1>7. PICK P \in Bad : \A Q \in SUBSET P : Q # P => Q \notin Bad
  <2>1. Bad \in SUBSET SUBSET K
    OBVIOUS
  <2>. HIDE DEF Bad
  <2>. QED
    BY <2>1, SmallestSet
<1>8. P \in SUBSET K /\ Groups(P) # Sums(Of(P))
  OBVIOUS
<1>9. PICK p \in P : TRUE
  <2>1. P = {} => Of(P) = {}
    OBVIOUS
  <2>2. P # {}
    BY <1>5, <1>8, <2>1, Zenon
  <2>. QED
    BY <2>2
<1>. DEFINE Q == P \ {p}
            here == {x \in S : k[x] = p}
<1>10. Q \in SUBSET P /\ Q # P /\ Q \in SUBSET K /\ p \in K
  BY <1>8, <1>9
<1>11. Groups(Q) = Sums(Of(Q))
  BY <1>7, <1>10
<1>12. /\ Of(P) = here \cup Of(Q) /\ here \cap Of(Q) = {}
       /\ here \in SUBSET S /\ Of(Q) \in SUBSET S
  BY <1>9
<1>13. h[p] = Sums(here)
  BY <1>2, <1>10
<1>14. Groups(P) = h[p] + Groups(Q)
  BY <1>3, <1>8
<1>. HIDE DEF Of, here, Q
<1>15. Sums(Of(P)) = Sums(here) + Sums(Of(Q))
  BY <1>4, <1>12
<1>. QED
  BY <1>8, <1>11, <1>13, <1>14, <1>15

\* What the report says of a batch that is through.
LEMMA ReportIsHonest ==
  ASSUME BatchInv, Stories, CureInv
  PROVE  IncrementIsHonest
<1>. SUFFICES ASSUME Finished PROVE IncrementIsHonest
  BY DEF IncrementIsHonest
<1>. USE BatchFacts
<1>1. /\ info \in [Cases -> CaseInfos] /\ IsFiniteSet(Cases)
      /\ \A c \in Cases : info[c] \in CaseInfo /\ run[c] \in RunState /\ Stage(run[c])
  BY FlowAssumption, CaseFacts DEF BatchInv, BatchTyped, Inv, TypeOK, CaseInv
<1>2. \A c \in Cases : Amounts[c] \in Nat
  BY <1>1 DEF Amounts, CaseInfo
<1>3. \A c \in Cases : run[c].pc = "done" /\ run[c].state \in TerminalStates
  BY <1>1 DEF Finished, BatchInv, BatchTyped, Position, Stage
<1>4. SelfCures \subseteq PaidCases
  BY <1>3 DEF SelfCures, PaidCases, Paid, CureInv, Cured
<1>. DEFINE Retried == {c \in Cases : \E attempt \in 1..3 :
                          Respond(info[c].persona, Retry, attempt, None) = "paid"}
<1>5. SelfCures \subseteq Retried
  <2>1. 1 \in 1..3
    OBVIOUS
  <2>2. Respond("self_cure", Retry, 1, None) = "paid"
    BY DEF Respond, Pays
  <2>. QED
    BY <2>1, <2>2 DEF SelfCures
<1>6. PaidCases \subseteq Cases /\ Retried \subseteq Cases
  BY DEF PaidCases
<1>7. \A S \in SUBSET Cases : \A A \in SUBSET S : Sum(A) <= Sum(S)
  <2>1. \A S \in SUBSET Cases : IsFiniteSet(S) /\ \A c \in S : Amounts[c] \in Nat
    BY <1>1, <1>2, FS_Subset
  <2>. QED
    BY <2>1, SumGrows DEF Sum
<1>8. BaselineDoNothing = Sum(SelfCures) /\ BaselineNaiveRetry = Sum(Retried)
  BY DEF BaselineDoNothing, BaselineNaiveRetry, SelfCures
<1>9. CasesAddUp
  BY ThroughAddsUp
<1>10. SumFunction(ByPlaybook) = Sum(PaidCases)
  <2>. DEFINE k == [c \in PaidCases |-> run[c].playbook]
  <2>1. IsFiniteSet(PaidCases) /\ \A c \in PaidCases : Amounts[c] \in Nat
    BY <1>1, <1>2, <1>6, FS_Subset
  <2>2. IsFiniteSet(PlaybookNames)
    <3>1. /\ IsFiniteSet({"dunning"}) /\ IsFiniteSet({"smart_retry"})
          /\ IsFiniteSet({"update_method"}) /\ IsFiniteSet({"receivables"})
          /\ IsFiniteSet({"checkout_recovery"})
      BY FS_Singleton
    <3>2. /\ IsFiniteSet({"dunning"} \cup {"smart_retry"})
          /\ IsFiniteSet({"update_method"} \cup {"receivables"})
      BY <3>1, FS_Union
    <3>3. PlaybookNames = (({"dunning"} \cup {"smart_retry"})
                             \cup ({"update_method"} \cup {"receivables"}))
                            \cup {"checkout_recovery"}
      BY FiveNames
    <3>4. \A A, B : IsFiniteSet(A) /\ IsFiniteSet(B) => IsFiniteSet(A \cup B)
      BY FS_Union
    <3>. QED
      BY <3>1, <3>2, <3>3, <3>4, Zenon
  <2>3. \A c \in PaidCases : k[c] \in PlaybookNames
    BY DEF PaidCases, Paid, CureInv, PaidForPlaybook
  <2>4. /\ DOMAIN ByPlaybook = PlaybookNames
        /\ \A p \in PlaybookNames :
             ByPlaybook[p] = SumFunctionOnSet(Amounts, {c \in PaidCases : k[c] = p})
    <3>1. \A p : {c \in PaidCases : k[c] = p} = {c \in PaidCases : run[c].playbook = p}
      OBVIOUS
    <3>. QED
      BY <3>1 DEF ByPlaybook, Sum
  <2>. HIDE DEF k
  <2>5. SumFunctionOnSet(ByPlaybook, PlaybookNames) = SumFunctionOnSet(Amounts, PaidCases)
    BY <2>1, <2>2, <2>3, <2>4, SumOfGroups
  <2>. QED
    BY <2>4, <2>5 DEF SumFunction, Sum
<1>. QED
  BY <1>4, <1>5, <1>6, <1>7, <1>8, <1>9, <1>10 DEF IncrementIsHonest

\* For a batch of any size, amounts of any size and whatever the bandit draws:
\* under limits no tighter than the shipped ones the headline is honest, sums
\* included.
THEOREM IncrementAlwaysHonest ==
  ASSUME ByDayAsShipped
  PROVE  BatchSpec => []IncrementIsHonest
<1>1. BatchInit => BatchInv /\ Stories /\ CureInv
  BY BatchInitInv, StoriesInit, CureInit DEF BatchInit
<1>2. BatchInv /\ Stories /\ CureInv /\ [BatchNext]_bvars => (BatchInv /\ Stories /\ CureInv)'
  BY BatchInvStep, StoriesInBatch, CureStep
<1>3. BatchInv /\ Stories /\ CureInv => IncrementIsHonest
  BY ReportIsHonest
<1>. QED
  BY <1>1, <1>2, <1>3, PTL DEF BatchSpec
=============================================================================

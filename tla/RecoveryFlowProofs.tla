-------------------------- MODULE RecoveryFlowProofs --------------------------
(***************************************************************************)
(* Theorems about RecoveryFlow, for any number of cases, customers,        *)
(* threads and broken handlers and any limits of the policy.               *)
(***************************************************************************)
EXTENDS RecoveryFlow, FiniteSetTheorems, SequenceTheorems, TLAPS

(***************************************************************************)
(* The data: what the helpers return.                                      *)
(***************************************************************************)

\* A playbook never holds an escalation, the one action the gate lets pass
\* without looking at the limits.
FlowActions == {a \in Actions : a.kind # "escalate"}

LEMMA MessageTyped ==
  ASSUME NEW ch \in Channels
  PROVE  Message(ch) \in FlowActions
BY DEF Message, FlowActions, Actions, ActionKinds

\* Every playbook is a finite sequence of such actions.
LEMMA PlaybookTyped ==
  ASSUME NEW name \in PlaybookNames
  PROVE  Playbook[name] \in Seq(FlowActions)
<1>1. /\ Message("whatsapp") \in FlowActions /\ Message("sms") \in FlowActions
      /\ Message("email") \in FlowActions
  BY MessageTyped DEF Channels
<1>2. Retry \in FlowActions /\ VoiceCall \in FlowActions
  BY DEF FlowActions, Actions, ActionKinds, Channels, None, Retry, VoiceCall
<1>3. /\ <<Message("whatsapp"), Retry, Message("sms")>> \in Seq(FlowActions)
      /\ <<Retry, Retry, Message("whatsapp")>> \in Seq(FlowActions)
      /\ <<Message("whatsapp"), Message("email"), Message("sms")>> \in Seq(FlowActions)
      /\ <<Message("email"), Message("email"), VoiceCall>> \in Seq(FlowActions)
      /\ <<Message("whatsapp"), Message("email")>> \in Seq(FlowActions)
  BY <1>1, <1>2
<1>4. name \in {"dunning", "smart_retry", "update_method", "receivables",
                "checkout_recovery"}
  BY DEF PlaybookNames, Playbook
<1>5. /\ Playbook["dunning"] = <<Message("whatsapp"), Retry, Message("sms")>>
      /\ Playbook["smart_retry"] = <<Retry, Retry, Message("whatsapp")>>
      /\ Playbook["update_method"] = <<Message("whatsapp"), Message("email"), Message("sms")>>
      /\ Playbook["receivables"] = <<Message("email"), Message("email"), VoiceCall>>
      /\ Playbook["checkout_recovery"] = <<Message("whatsapp"), Message("email")>>
  BY DEF Playbook
<1>. QED
  BY <1>3, <1>4, <1>5

LEMMA RespondTyped ==
  ASSUME NEW persona, NEW action, NEW attempt, NEW preferred
  PROVE  Respond(persona, action, attempt, preferred) \in Replies
BY DEF Respond, Replies

\* The invariant of one case.
CaseInv(r) == r \in RunState /\ Stage(r)

LEMMA FreshCase ==
  ASSUME NEW i \in CaseInfo
  PROVE  CaseInv(Fresh(i))
BY DEF CaseInv, Stage, Fresh, RunState, AllPlans, CaseInfo, CaseStates, OpenStates,
       TerminalStates, None

\* A case may be closed from any open state, as recovered only right after an
\* attempt.
LEMMA ClosingCase ==
  ASSUME NEW r, CaseInv(r), r.state \in OpenStates,
         NEW v \in TerminalStates, v = "recovered" => r.state = "intervening"
  PROVE  CaseInv(Closing(r, v))
<1>. DEFINE q == Closing(r, v)
<1>1. r \in RunState /\ r.step >= 1
  BY DEF CaseInv, Stage
<1>2. q \in RunState
  BY <1>1 DEF Closing, RunState
<1>3. q.pc = "finish" /\ q.state = r.state /\ q.verdict = v /\ q.step = r.step
  BY <1>1 DEF Closing, RunState
<1>4. q.state \notin TerminalStates
  BY <1>3 DEF OpenStates, TerminalStates
<1>. HIDE DEF q
<1>5. Stage(q)
  BY <1>1, <1>3, <1>4 DEF Stage
<1>. QED
  BY <1>2, <1>5 DEF CaseInv, q

\* The next step of a playbook is gated afresh.
LEMMA NextStepCase ==
  ASSUME NEW r, CaseInv(r), r.pc \in {"gate", "act"}
  PROVE  CaseInv(NextStep(r))
<1>. DEFINE q == NextStep(r)
<1>1. r \in RunState /\ r.step + 1 \in Nat /\ r.step + 1 >= 1 /\ r.now + 24 \in Nat
  BY DEF CaseInv, Stage, RunState
<1>2. q \in RunState
  BY <1>1 DEF NextStep, RunState
<1>3. /\ q.pc = "gate" /\ q.state = r.state /\ q.step = r.step + 1
      /\ q.playbook = r.playbook
  BY <1>1 DEF NextStep, RunState
<1>. HIDE DEF q
<1>4. r.state \in {"planned", "waiting"} /\ r.playbook \in PlaybookNames
  BY DEF CaseInv, Stage
<1>5. Stage(q)
  BY <1>1, <1>3, <1>4 DEF Stage, TerminalStates
<1>. QED
  BY <1>2, <1>5 DEF CaseInv, q

LEMMA NextActionTyped ==
  ASSUME NEW c \in Cases, info[c] \in CaseInfo, CaseInv(run[c]),
         run[c].pc \in {"gate", "act", "respond"},
         run[c].step <= Len(Playbook[run[c].playbook])
  PROVE  NextAction(c) \in FlowActions
<1>1. P2PFollowUp \in FlowActions
  BY MessageTyped DEF P2PFollowUp, Channels
<1>2. /\ run[c].playbook \in PlaybookNames
      /\ run[c].step \in 1..Len(Playbook[run[c].playbook])
  BY DEF CaseInv, Stage, RunState
<1>3. Playbook[run[c].playbook][run[c].step] \in FlowActions
  BY <1>2, PlaybookTyped
<1>4. info[c].channel # None => Message(info[c].channel) \in FlowActions
  BY MessageTyped DEF CaseInfo
<1>. QED
  BY <1>1, <1>3, <1>4 DEF NextAction

(***************************************************************************)
(* Types and stages: the inductive invariant everything else rests on.     *)
(***************************************************************************)
Inv == TypeOK /\ StagesKept

\* A step of one case leaves the others as they are.
LEMMA BecomesKeeps ==
  ASSUME Inv, NEW c \in Cases, NEW r, CaseInv(r), Becomes(c, r)
  PROVE  run' \in [Cases -> RunState] /\ StagesKept'
BY DEF Inv, TypeOK, StagesKept, Becomes, CaseInv

LEMMA AuditsKeeps ==
  ASSUME Inv, NEW c \in Cases, NEW records \in Seq(AuditRecord), Audits(c, records)
  PROVE  trail' \in [Cases -> Seq(AuditRecord)]
<1>1. info[c].id \in Cases
  BY FlowAssumption DEF Inv, TypeOK, CaseInfo
<1>. QED
  BY <1>1 DEF Inv, TypeOK, Audits

LEMMA RecordTyped ==
  ASSUME NEW stage \in AuditStages, NEW step \in Nat,
         NEW note \in {None, "allowed", "blocked"} \cup Replies \cup TerminalStates
  PROVE  <<Record(stage, step, note)>> \in Seq(AuditRecord)
<1>1. Record(stage, step, note) \in AuditRecord
  BY DEF Record, AuditRecord
<1>. QED
  BY <1>1

\* What the invariant says of the case at hand.
LEMMA CaseFacts ==
  ASSUME Inv, NEW c \in Cases
  PROVE  /\ CaseInv(run[c]) /\ info[c] \in CaseInfos /\ info[c] \in CaseInfo
         /\ info[c].customer \in Customers /\ info[c].id \in Cases
         /\ run[c].step \in Nat /\ run[c].now \in Nat
<1>1. /\ run[c] \in RunState /\ Stage(run[c])
      /\ info[c] \in CaseInfos /\ info[c] \in CaseInfo
  BY FlowAssumption DEF Inv, TypeOK, StagesKept
<1>2. info[c].customer \in Customers /\ info[c].id \in Cases
  BY <1>1 DEF CaseInfo
<1>3. run[c].step \in Nat /\ run[c].now \in Nat
  BY <1>1 DEF RunState
<1>. QED
  BY <1>1, <1>2, <1>3 DEF CaseInv

LEMMA StartKeeps ==
  ASSUME Inv, NEW c \in Cases, Start(c)
  PROVE  Inv'
<1>1. CaseInv(run[c]) /\ run[c].pc = "new" /\ run[c].state = "detected"
  BY CaseFacts DEF Start, CaseInv, Stage
<1>2. CaseInv([run[c] EXCEPT !.pc = "plan"])
  BY <1>1 DEF CaseInv, Stage, RunState, TerminalStates
<1>3. CaseInv(Closing(run[c], "abandoned"))
  BY <1>1, ClosingCase DEF OpenStates, TerminalStates
<1>4. run' \in [Cases -> RunState] /\ StagesKept'
  BY <1>2, <1>3, BecomesKeeps DEF Start
<1>5. <<Record("DETECT", 0, None)>> \in Seq(AuditRecord)
  BY RecordTyped DEF AuditStages
<1>6. trail' \in [Cases -> Seq(AuditRecord)]
  BY <1>5, AuditsKeeps DEF Start
<1>. QED
  BY <1>4, <1>6 DEF Inv, TypeOK, Start, shared

\* The case with its plan, before the verdict on it or the playbook is noted.
Planned(q, r, plan) ==
  /\ q = [r EXCEPT !.plan = plan] /\ CaseInv(q)
  /\ q.plan = plan /\ q.pc = r.pc /\ q.state = r.state /\ q.attempts = r.attempts
  /\ q.playbook = r.playbook /\ q.step = r.step /\ q.hist = r.hist
  /\ q.last = r.last /\ q.executed = r.executed

Worked(q) == [q EXCEPT !.pc = "prepare", !.state = "diagnosed", !.playbook = q.plan.playbook]

\* The three ways on from a plan.
LEMMA PlanTaken ==
  ASSUME Inv, NEW c \in Cases, Plan(c)
  PROVE  \E plan \in Plans(info[c]), q \in RunState :
           /\ Planned(q, run[c], plan)
           /\ \/ LosesMoney(info[c], plan) /\ Becomes(c, Closing(q, "abandoned"))
              \/ /\ ~LosesMoney(info[c], plan) /\ plan.playbook \notin PlaybookNames
                 /\ Becomes(c, Closing(q, "escalated"))
              \/ /\ ~LosesMoney(info[c], plan) /\ plan.playbook \in PlaybookNames
                 /\ Becomes(c, Worked(q))
<1>1. PICK plan \in Plans(info[c]) :
        LET q == [run[c] EXCEPT !.plan = plan]
        IN Becomes(c, CASE LosesMoney(info[c], plan) -> Closing(q, "abandoned")
                        [] ~LosesMoney(info[c], plan) /\ plan.playbook \notin PlaybookNames
                             -> Closing(q, "escalated")
                        [] OTHER -> [q EXCEPT !.pc = "prepare", !.state = "diagnosed",
                                              !.playbook = plan.playbook])
  BY DEF Plan
<1>. DEFINE q == [run[c] EXCEPT !.plan = plan]
<1>2. plan \in AllPlans
  BY CaseFacts DEF AllPlans
<1>3. run[c] \in RunState /\ Stage(run[c])
  BY CaseFacts DEF CaseInv
<1>4. q \in RunState
  BY <1>2, <1>3 DEF RunState
<1>5. /\ q.plan = plan /\ q.pc = run[c].pc /\ q.state = run[c].state
      /\ q.attempts = run[c].attempts /\ q.playbook = run[c].playbook
      /\ q.step = run[c].step /\ q.hist = run[c].hist /\ q.last = run[c].last
      /\ q.executed = run[c].executed /\ q.verdict = run[c].verdict
  BY <1>3 DEF RunState
<1>. DEFINE next == CASE LosesMoney(info[c], plan) -> Closing(q, "abandoned")
                      [] ~LosesMoney(info[c], plan) /\ plan.playbook \notin PlaybookNames
                             -> Closing(q, "escalated")
                      [] OTHER -> [q EXCEPT !.pc = "prepare", !.state = "diagnosed",
                                            !.playbook = plan.playbook]
<1>6. /\ Becomes(c, next)
      /\ \/ LosesMoney(info[c], plan) /\ next = Closing(q, "abandoned")
         \/ /\ ~LosesMoney(info[c], plan) /\ plan.playbook \notin PlaybookNames
            /\ next = Closing(q, "escalated")
         \/ /\ ~LosesMoney(info[c], plan) /\ plan.playbook \in PlaybookNames
            /\ next = [q EXCEPT !.pc = "prepare", !.state = "diagnosed",
                                !.playbook = plan.playbook]
  <2>1. Becomes(c, next)
    BY <1>1
  <2>. HIDE DEF q
  <2>2. LosesMoney(info[c], plan) => next = Closing(q, "abandoned")
    OBVIOUS
  <2>3. ~LosesMoney(info[c], plan) /\ plan.playbook \notin PlaybookNames
          => next = Closing(q, "escalated")
    OBVIOUS
  <2>4. ~LosesMoney(info[c], plan) /\ plan.playbook \in PlaybookNames
          => next = [q EXCEPT !.pc = "prepare", !.state = "diagnosed",
                              !.playbook = plan.playbook]
    OBVIOUS
  <2>. HIDE DEF next
  <2>. QED
    BY <2>1, <2>2, <2>3, <2>4
<1>7. q = [run[c] EXCEPT !.plan = plan]
  OBVIOUS
<1>. HIDE DEF q, next
<1>8. Stage(q)
  BY <1>3, <1>5 DEF Stage
<1>9. Planned(q, run[c], plan)
  BY <1>4, <1>5, <1>7, <1>8 DEF Planned, CaseInv
<1>. QED
  BY <1>4, <1>5, <1>6, <1>9 DEF Worked

LEMMA PlanKeeps ==
  ASSUME Inv, NEW c \in Cases, Plan(c)
  PROVE  Inv'
<1>1. CaseInv(run[c]) /\ run[c].pc = "plan" /\ run[c].state = "detected"
  BY CaseFacts DEF Plan, CaseInv, Stage
<1>2. PICK plan \in Plans(info[c]), q \in RunState :
        /\ Planned(q, run[c], plan)
        /\ \/ Becomes(c, Closing(q, "abandoned")) \/ Becomes(c, Closing(q, "escalated"))
           \/ plan.playbook \in PlaybookNames /\ Becomes(c, Worked(q))
  BY PlanTaken
<1>3. CaseInv(Closing(q, "abandoned")) /\ CaseInv(Closing(q, "escalated"))
  BY <1>1, <1>2, ClosingCase DEF Planned, OpenStates, TerminalStates
<1>4. ASSUME plan.playbook \in PlaybookNames
      PROVE  CaseInv(Worked(q))
  <2>1. q \in RunState /\ Stage(q) /\ q.plan = plan /\ q.pc = "plan" /\ q.step >= 1
    BY <1>1, <1>2 DEF Planned, CaseInv, Stage
  <2>. DEFINE w == Worked(q)
  <2>2. /\ w \in RunState /\ w.pc = "prepare" /\ w.state = "diagnosed"
        /\ w.playbook = plan.playbook /\ w.step = q.step
    BY <1>4, <2>1 DEF Worked, RunState, CaseStates, OpenStates, TerminalStates
  <2>. HIDE DEF w
  <2>3. Stage(w)
    BY <1>4, <2>1, <2>2 DEF Stage, TerminalStates
  <2>. QED
    BY <2>2, <2>3 DEF CaseInv, w
<1>5. run' \in [Cases -> RunState] /\ StagesKept'
  BY <1>2, <1>3, <1>4, BecomesKeeps
<1>6. /\ <<Record("DIAGNOSE", 0, None), Record("PLAN", 0, None)>> \in Seq(AuditRecord)
      /\ <<Record("PLAN", 0, None)>> \in Seq(AuditRecord)
      /\ <<>> \in Seq(AuditRecord)
  BY DEF AuditStages, AuditRecord, Record
<1>7. trail' \in [Cases -> Seq(AuditRecord)]
  BY <1>6, AuditsKeeps DEF Plan
<1>. QED
  BY <1>5, <1>7 DEF Inv, TypeOK, Plan, shared

LEMMA PrepareKeeps ==
  ASSUME Inv, NEW c \in Cases, Prepare(c)
  PROVE  Inv'
<1>1. CaseInv(run[c]) /\ run[c].pc = "prepare" /\ info[c].customer \in Customers
  BY CaseFacts DEF Prepare
<1>2. ContactHistory(c) \in Seq(Nat)
  BY <1>1 DEF ContactHistory, Inv, TypeOK
<1>3. CaseInv([run[c] EXCEPT !.pc = "gate", !.state = "planned",
                             !.hist = ContactHistory(c)])
  BY <1>1, <1>2 DEF CaseInv, Stage, RunState, TerminalStates, CaseStates, OpenStates
<1>4. run' \in [Cases -> RunState] /\ StagesKept'
  BY <1>3, BecomesKeeps DEF Prepare
<1>. QED
  BY <1>4 DEF Inv, TypeOK, Prepare, shared

LEMMA DeferKeeps ==
  ASSUME Inv, NEW c \in Cases, Defer(c)
  PROVE  Inv'
<1>1. CaseInv(run[c]) /\ run[c].pc = "gate" /\ run[c].step \in Nat
  BY CaseFacts DEF Defer, StepsLeft
<1>2. run' \in [Cases -> RunState] /\ StagesKept'
  BY <1>1, NextStepCase, BecomesKeeps DEF Defer
<1>3. <<Record("DEFERRED", run[c].step, None)>> \in Seq(AuditRecord)
  BY <1>1, RecordTyped DEF AuditStages
<1>4. trail' \in [Cases -> Seq(AuditRecord)]
  BY <1>3, AuditsKeeps DEF Defer
<1>. QED
  BY <1>2, <1>4 DEF Inv, TypeOK, Defer, shared

LEMMA DecideKeeps ==
  ASSUME Inv, NEW c \in Cases, Decide(c)
  PROVE  Inv'
<1>1. CaseInv(run[c]) /\ run[c].pc = "gate" /\ run[c].step \in Nat
      /\ run[c].step <= Len(Playbook[run[c].playbook]) /\ info[c] \in CaseInfo
  BY CaseFacts DEF Decide, StepsLeft
<1>2. NextAction(c).kind # "escalate"
  BY <1>1, NextActionTyped DEF FlowActions
<1>3. ASSUME Gate(c)
      PROVE  CaseInv([run[c] EXCEPT !.pc = "act"])
  <2>1. AttemptsLeft(run[c].attempts)
    BY <1>2, <1>3 DEF Gate, Allowed
  <2>. QED
    BY <1>1, <2>1 DEF CaseInv, Stage, RunState, TerminalStates
<1>4. run[c].state \in OpenStates
  BY <1>1 DEF CaseInv, Stage, OpenStates
<1>5. CaseInv(AfterDecision(c))
  BY <1>1, <1>3, <1>4, ClosingCase, NextStepCase DEF AfterDecision, TerminalStates
<1>6. run' \in [Cases -> RunState] /\ StagesKept'
  BY <1>5, BecomesKeeps DEF Decide
<1>7. /\ <<Record("DECIDE", run[c].step, "allowed")>> \in Seq(AuditRecord)
      /\ <<Record("DECIDE", run[c].step, "blocked")>> \in Seq(AuditRecord)
  BY <1>1, RecordTyped DEF AuditStages
<1>8. trail' \in [Cases -> Seq(AuditRecord)]
  BY <1>7, AuditsKeeps DEF Decide
<1>. QED
  BY <1>6, <1>8 DEF Inv, TypeOK, Decide, shared

LEMMA ActFailsKeeps ==
  ASSUME Inv, NEW c \in Cases, ActFails(c)
  PROVE  Inv'
<1>1. CaseInv(run[c]) /\ run[c].pc = "act" /\ run[c].step \in Nat
  BY CaseFacts DEF ActFails
<1>2. CaseInv(NextStep(run[c]))
  BY <1>1, NextStepCase
<1>3. CaseInv([NextStep(run[c]) EXCEPT !.failed = TRUE])
  <2>. DEFINE q == NextStep(run[c])
              failed == [q EXCEPT !.failed = TRUE]
  <2>. HIDE DEF q
  <2>1. q \in RunState /\ Stage(q)
    BY <1>2 DEF CaseInv, q
  <2>2. failed \in RunState
    BY <2>1 DEF RunState
  <2>3. /\ failed.pc = q.pc /\ failed.state = q.state /\ failed.step = q.step
        /\ failed.playbook = q.playbook /\ failed.attempts = q.attempts
        /\ failed.last = q.last /\ failed.verdict = q.verdict
    BY <2>1 DEF RunState
  <2>. HIDE DEF failed
  <2>4. Stage(failed)
    BY <2>1, <2>3 DEF Stage
  <2>. QED
    BY <2>2, <2>4 DEF CaseInv, failed, q
<1>4. run' \in [Cases -> RunState] /\ StagesKept'
  BY <1>3, BecomesKeeps DEF ActFails
<1>5. <<Record("ACT_FAILED", run[c].step, None)>> \in Seq(AuditRecord)
  BY <1>1, RecordTyped DEF AuditStages
<1>6. trail' \in [Cases -> Seq(AuditRecord)]
  BY <1>5, AuditsKeeps DEF ActFails
<1>. QED
  BY <1>4, <1>6 DEF Inv, TypeOK, ActFails, shared

\* The record of a case whose action was carried out.
LEMMA ActedTyped ==
  ASSUME NEW r \in RunState, NEW hist \in Seq(Nat), NEW reply \in Replies,
         NEW executed \in Seq([kind : ActionKinds, channel : Channels \cup {None}, at : Nat]),
         NEW channel \in Channels \cup {None}
  PROVE  [r EXCEPT !.pc = "respond", !.state = "intervening", !.attempts = @ + 1,
                   !.hist = hist, !.executed = executed, !.last = reply,
                   !.lastChannel = channel] \in RunState
<1>. DEFINE Pcs == {"new", "plan", "prepare", "gate", "act", "respond", "finish", "done"}
            Acts == Seq([kind : ActionKinds, channel : Channels \cup {None}, at : Nat])
            Times == Seq(Nat)
            Playbooks == PlaybookNames \cup {None}
            Answers == Replies \cup {None}
            ChannelsUsed == Channels \cup {None}
            Verdicts == TerminalStates \cup {None}
            Runs == [pc : Pcs, state : CaseStates, attempts : Nat, plan : AllPlans,
                     playbook : Playbooks, step : Nat, now : Nat, hist : Times,
                     last : Answers,
                     lastChannel : ChannelsUsed, failed : BOOLEAN, executed : Acts,
                     verdict : Verdicts]
<1>1. /\ "intervening" \in CaseStates /\ "respond" \in Pcs
      /\ r.attempts + 1 \in Nat /\ reply \in Answers
  BY DEF CaseStates, OpenStates, RunState
<1>2. RunState = Runs
  BY DEF RunState
<1>3. r \in Runs /\ hist \in Times /\ executed \in Acts /\ channel \in ChannelsUsed
  BY <1>2
<1>. HIDE DEF Pcs, Acts, Times, Playbooks, Answers, ChannelsUsed, Verdicts
<1>. QED
  BY <1>1, <1>2, <1>3

\* One more of a day leaves a count of the days one.
LEMMA TalliedTyped ==
  ASSUME NEW counts, DOMAIN counts \subseteq Nat, counts \in [DOMAIN counts -> Nat],
         NEW day \in Nat
  PROVE  /\ DOMAIN Tallied(counts, day) = DOMAIN counts \cup {day}
         /\ DOMAIN Tallied(counts, day) \subseteq Nat
         /\ Tallied(counts, day) \in [DOMAIN Tallied(counts, day) -> Nat]
<1>1. On(counts, day) + 1 \in Nat
  BY DEF On
<1>2. DOMAIN Tallied(counts, day) = DOMAIN counts \cup {day}
  BY DEF Tallied
<1>3. \A d \in DOMAIN counts \cup {day} : Tallied(counts, day)[d] \in Nat
  BY <1>1 DEF Tallied
<1>. QED
  BY <1>2, <1>3 DEF Tallied

LEMMA ExecuteKeeps ==
  ASSUME Inv, NEW c \in Cases, Execute(c)
  PROVE  Inv'
<1>. DEFINE action == NextAction(c)
            touch == IF IsContact(action) THEN <<run[c].now>> ELSE <<>>
            act == [kind |-> action.kind, channel |-> action.channel, at |-> run[c].now]
            after == [run[c] EXCEPT !.pc = "respond", !.state = "intervening",
                        !.attempts = @ + 1, !.hist = @ \o touch,
                        !.executed = Append(@, act), !.last = Reply(c),
                        !.lastChannel = IF IsContact(action) THEN action.channel ELSE @]
<1>1. /\ CaseInv(run[c]) /\ run[c].pc = "act" /\ info[c] \in CaseInfo
      /\ info[c].customer \in Customers /\ run[c].now \in Nat
      /\ run[c].step <= Len(Playbook[run[c].playbook])
  BY CaseFacts DEF Execute, CaseInv, Stage
<1>2. action \in FlowActions
  BY <1>1, NextActionTyped
<1>3. action.kind \in ActionKinds /\ action.channel \in Channels \cup {None}
  BY <1>2 DEF FlowActions, Actions
<1>4. touch \in Seq(Nat)
  BY <1>1
<1>5. Reply(c) \in Replies
  BY RespondTyped DEF Reply
<1>6. Becomes(c, after)
  BY DEF Execute
<1>7. CaseInv(after)
  <2>1. /\ run[c] \in RunState /\ Stage(run[c])
        /\ run[c].attempts + 1 \in Nat /\ run[c].hist \o touch \in Seq(Nat)
    BY <1>1, <1>4 DEF CaseInv, RunState
  <2>2. Append(run[c].executed, act)
          \in Seq([kind : ActionKinds, channel : Channels \cup {None}, at : Nat])
    BY <1>1, <1>3, <2>1 DEF RunState
  <2>3. (IF IsContact(action) THEN action.channel ELSE run[c].lastChannel)
          \in Channels \cup {None}
    BY <1>3, <2>1 DEF RunState
  <2>. HIDE DEF action, touch, act
  <2>4. after \in RunState
    BY <1>5, <2>1, <2>2, <2>3, ActedTyped
  <2>5. /\ after.pc = "respond" /\ after.state = "intervening" /\ after.last = Reply(c)
        /\ after.step = run[c].step /\ after.playbook = run[c].playbook
    BY <2>1 DEF RunState
  <2>. HIDE DEF after
  <2>6. Stage(after)
    BY <1>1, <1>5, <2>1, <2>5 DEF Stage, TerminalStates
  <2>. QED
    BY <2>4, <2>6 DEF CaseInv
<1>8. run' \in [Cases -> RunState] /\ StagesKept'
  BY <1>6, <1>7, BecomesKeeps
<1>9. contacts' \in [Customers -> Seq(Nat)]
  <2>1. contacts' = [contacts EXCEPT ![info[c].customer] = @ \o touch]
    BY DEF Execute
  <2>2. contacts[info[c].customer] \o touch \in Seq(Nat)
    BY <1>1, <1>4 DEF Inv, TypeOK
  <2>. QED
    BY <2>1, <2>2 DEF Inv, TypeOK
<1>10. \A counts \in {budget', acted'} :
         DOMAIN counts \subseteq Nat /\ counts \in [DOMAIN counts -> Nat]
  <2>1. Day(run[c].now) \in Nat
    BY <1>1 DEF Day
  <2>2. budget' = Tallied(budget, Day(run[c].now)) /\ acted' = Tallied(acted, Day(run[c].now))
    BY DEF Execute
  <2>3. \A counts \in {budget, acted} :
          DOMAIN counts \subseteq Nat /\ counts \in [DOMAIN counts -> Nat]
    BY DEF Inv, TypeOK
  <2>4. /\ DOMAIN Tallied(budget, Day(run[c].now)) \subseteq Nat
        /\ Tallied(budget, Day(run[c].now)) \in [DOMAIN Tallied(budget, Day(run[c].now)) -> Nat]
    BY <2>1, <2>3, TalliedTyped
  <2>5. /\ DOMAIN Tallied(acted, Day(run[c].now)) \subseteq Nat
        /\ Tallied(acted, Day(run[c].now)) \in [DOMAIN Tallied(acted, Day(run[c].now)) -> Nat]
    BY <2>1, <2>3, TalliedTyped
  <2>. QED
    BY <2>2, <2>4, <2>5
<1>11. declined' \subseteq Customers
  BY <1>1 DEF Execute, Inv, TypeOK
<1>. QED
  BY <1>8, <1>9, <1>10, <1>11 DEF Inv, TypeOK, Execute

LEMMA HearBackKeeps ==
  ASSUME Inv, NEW c \in Cases, HearBack(c)
  PROVE  Inv'
<1>1. /\ CaseInv(run[c]) /\ run[c].pc = "respond" /\ run[c].state = "intervening"
      /\ run[c].last \in Replies /\ run[c].step \in Nat
      /\ info[c].customer \in Customers
  BY CaseFacts DEF HearBack, CaseInv, Stage
<1>2. CaseInv(Closing(run[c], "recovered")) /\ CaseInv(Closing(run[c], "abandoned"))
  BY <1>1, ClosingCase DEF OpenStates, TerminalStates
<1>3. CaseInv([NextStep(run[c]) EXCEPT !.state = "waiting"])
  <2>1. run[c].step + 1 \in Nat /\ run[c].step + 1 >= 1 /\ run[c].now + 24 \in Nat
        /\ run[c].playbook \in PlaybookNames
    BY <1>1 DEF CaseInv, Stage, RunState
  <2>. QED
    BY <1>1, <2>1
    DEF CaseInv, Stage, NextStep, RunState, TerminalStates, CaseStates, OpenStates
<1>4. run' \in [Cases -> RunState] /\ StagesKept'
  BY <1>2, <1>3, BecomesKeeps DEF HearBack, AfterReply
<1>5. /\ <<Record("ACT", run[c].step, run[c].last)>> \in Seq(AuditRecord)
      /\ <<Record("PROMISE_TO_PAY", run[c].step, None)>> \in Seq(AuditRecord)
  BY <1>1, RecordTyped DEF AuditStages
<1>6. trail' \in [Cases -> Seq(AuditRecord)]
  <2>. DEFINE records == <<Record("ACT", run[c].step, run[c].last)>> \o
                  IF run[c].last = "promise_to_pay"
                  THEN <<Record("PROMISE_TO_PAY", run[c].step, None)>> ELSE <<>>
  <2>1. Audits(c, records)
    BY DEF HearBack
  <2>2. records \in Seq(AuditRecord)
    BY <1>5
  <2>. HIDE DEF records
  <2>. QED
    BY <2>1, <2>2, AuditsKeeps
<1>7. run[c].lastChannel \in Channels \cup {None}
  BY <1>1 DEF CaseInv, RunState
<1>8. affinity' \in [Customers -> Channels \cup {None}] /\ optOuts' \subseteq Customers
  BY <1>1, <1>7 DEF HearBack, Inv, TypeOK
<1>. QED
  BY <1>4, <1>6, <1>8 DEF Inv, TypeOK, HearBack

LEMMA ExhaustKeeps ==
  ASSUME Inv, NEW c \in Cases, Exhaust(c)
  PROVE  Inv'
<1>1. CaseInv(run[c]) /\ run[c].pc = "gate" /\ run[c].state \in {"planned", "waiting"}
  BY CaseFacts DEF Exhaust, CaseInv, Stage
<1>2. CaseInv(Closing(run[c], Unresolved(c)))
  BY <1>1, ClosingCase DEF Unresolved, OpenStates, TerminalStates
<1>3. run' \in [Cases -> RunState] /\ StagesKept'
  BY <1>2, BecomesKeeps DEF Exhaust
<1>. QED
  BY <1>3 DEF Inv, TypeOK, Exhaust, shared

LEMMA FinishKeeps ==
  ASSUME Inv, NEW c \in Cases, Finish(c)
  PROVE  Inv'
<1>1. CaseInv(run[c]) /\ run[c].pc = "finish" /\ run[c].verdict \in TerminalStates
  BY CaseFacts DEF Finish, CaseInv, Stage
<1>2. CaseInv([run[c] EXCEPT !.pc = "done", !.state = run[c].verdict])
  BY <1>1 DEF CaseInv, Stage, RunState, CaseStates
<1>3. run' \in [Cases -> RunState] /\ StagesKept'
  BY <1>2, BecomesKeeps DEF Finish
<1>4. <<Record("OUTCOME", 0, run[c].verdict)>> \in Seq(AuditRecord)
  BY <1>1, RecordTyped DEF AuditStages
<1>5. trail' \in [Cases -> Seq(AuditRecord)]
  BY <1>4, AuditsKeeps DEF Finish
<1>. QED
  BY <1>3, <1>5 DEF Inv, TypeOK, Finish, shared

LEMMA CrashKeeps ==
  ASSUME Inv, NEW c \in Cases, Crash(c)
  PROVE  Inv'
<1>1. CaseInv(Fresh(info[c]))
  BY CaseFacts, FreshCase
<1>2. run' \in [Cases -> RunState] /\ StagesKept'
  BY <1>1, BecomesKeeps DEF Crash
<1>3. crashes' \in 0..MaxCrashes
  BY FlowAssumption DEF Crash, Inv, TypeOK
<1>. QED
  BY <1>2, <1>3 DEF Inv, TypeOK, Crash, shared

LEMMA MarksKeep ==
  ASSUME Inv, NEW cell \in Cells, MarkOutage(cell) \/ ClearOutage(cell)
  PROVE  Inv'
<1>1. DOMAIN marked' \subseteq Cells /\ marked' \in [DOMAIN marked' -> OutageTimes]
  BY DEF MarkOutage, ClearOutage, Inv, TypeOK
<1>. QED
  BY <1>1 DEF Inv, TypeOK, StagesKept, MarkOutage, ClearOutage, shared

LEMMA InvInit == Init => Inv
<1>. SUFFICES ASSUME Init PROVE Inv
  OBVIOUS
<1>1. \A c \in Cases : info[c] \in CaseInfo
  BY FlowAssumption DEF Init
<1>2. \A c \in Cases : CaseInv(run[c])
  BY <1>1, FreshCase DEF Init
<1>3. run \in [Cases -> RunState] /\ StagesKept
  BY <1>2 DEF Init, CaseInv, StagesKept
<1>4. DOMAIN <<>> = {} /\ budget = <<>> /\ acted = <<>> /\ marked = <<>>
  BY DEF Init
<1>5. /\ \A counts \in {budget, acted} :
           DOMAIN counts \subseteq Nat /\ counts \in [DOMAIN counts -> Nat]
      /\ DOMAIN marked \subseteq Cells /\ marked \in [DOMAIN marked -> OutageTimes]
  BY <1>4
<1>. QED
  BY <1>3, <1>5, FlowAssumption DEF Inv, TypeOK, Init

LEMMA InvStep == Inv /\ [Next]_vars => Inv'
<1>. SUFFICES ASSUME Inv, [Next]_vars PROVE Inv'
  OBVIOUS
<1>1. ASSUME NEW c \in Cases, Start(c) \/ Handle(c) \/ Crash(c)
      PROVE  Inv'
  BY <1>1, StartKeeps, PlanKeeps, PrepareKeeps, DeferKeeps, DecideKeeps, ActFailsKeeps,
     ExecuteKeeps, HearBackKeeps, ExhaustKeeps, FinishKeeps, CrashKeeps DEF Handle
<1>2. ASSUME NEW cell \in Cells, MarkOutage(cell) \/ ClearOutage(cell)
      PROVE  Inv'
  BY <1>2, MarksKeep
<1>3. CASE UNCHANGED vars
  BY <1>3 DEF Inv, TypeOK, StagesKept, vars, shared
<1>. QED
  BY <1>1, <1>2, <1>3 DEF Next, AllDone

\* The variables keep their types, and every case is at all times in the
\* lifecycle state that the code still ahead of it expects: run_case never
\* raises IllegalTransition, whatever the replies, failures and interleavings.
THEOREM StagesAlwaysKept == Spec => [](TypeOK /\ StagesKept)
<1>1. Spec => []Inv
  BY InvInit, InvStep, PTL DEF Spec
<1>. QED
  BY <1>1, PTL DEF Inv

(***************************************************************************)
(* Refinement: a case of RecoveryFlow is a case of CaseLifecycle.          *)
(***************************************************************************)

\* A step that leaves the state and the attempts of its case alone stutters.
LEMMA StutterMapped ==
  ASSUME Inv, NEW c \in Cases, NEW r, Becomes(c, r),
         r.state = run[c].state, r.attempts = run[c].attempts
  PROVE  UNCHANGED Lifecycle!vars
BY DEF Inv, TypeOK, Becomes, Lifecycle!vars

\* A transition that is not an attempt.
LEMMA MoveMapped ==
  ASSUME Inv, NEW c \in Cases, NEW r, Becomes(c, r), r.attempts = run[c].attempts,
         r.state \in CaseStates, r.state # "intervening",
         r.state \in Legal[run[c].state],
         r.state = "recovered" => run[c].state = "intervening"
  PROVE  Lifecycle!Next
<1>1. Lifecycle!Move(c, r.state)
  BY DEF Inv, TypeOK, Becomes, Lifecycle!Move, Lifecycle!Legal, Legal,
         Lifecycle!CaseStates, CaseStates, Lifecycle!OpenStates, OpenStates,
         Lifecycle!TerminalStates, TerminalStates
<1>. QED
  BY <1>1 DEF Lifecycle!Next, Lifecycle!CaseStates, CaseStates, Lifecycle!OpenStates,
              OpenStates, Lifecycle!TerminalStates, TerminalStates

LEMMA CaseMapped ==
  ASSUME Inv, NEW c \in Cases, Start(c) \/ Handle(c) \/ Crash(c)
  PROVE  Lifecycle!Next \/ UNCHANGED Lifecycle!vars
<1>1. run[c] \in RunState /\ Stage(run[c])
  BY CaseFacts DEF CaseInv
<1>2. \A v : /\ Closing(run[c], v).state = run[c].state
             /\ Closing(run[c], v).attempts = run[c].attempts
  BY <1>1 DEF Closing, RunState
<1>3. /\ NextStep(run[c]).state = run[c].state
      /\ NextStep(run[c]).attempts = run[c].attempts
  BY <1>1 DEF NextStep, RunState
<1>4. CASE Start(c)
  <2>1. /\ [run[c] EXCEPT !.pc = "plan"].state = run[c].state
        /\ [run[c] EXCEPT !.pc = "plan"].attempts = run[c].attempts
    BY <1>1 DEF RunState
  <2>. QED
    BY <1>2, <1>4, <2>1, StutterMapped DEF Start
<1>5. CASE Plan(c)
  <2>1. run[c].state = "detected"
    BY <1>1, <1>5 DEF Plan, Stage
  <2>2. PICK plan \in Plans(info[c]), q \in RunState :
          /\ Planned(q, run[c], plan)
          /\ \/ \E v : Becomes(c, Closing(q, v))
             \/ Becomes(c, Worked(q))
    BY <1>5, PlanTaken
  <2>3. q.state = run[c].state /\ q.attempts = run[c].attempts
    BY <2>2 DEF Planned
  <2>4. CASE Becomes(c, Worked(q))
    <3>. DEFINE r == Worked(q)
    <3>1. r.state = "diagnosed" /\ r.attempts = run[c].attempts
      BY <2>3 DEF Worked, RunState
    <3>2. r.state \in CaseStates /\ r.state \in Legal[run[c].state]
      BY <2>1, <3>1 DEF Legal, CaseStates, OpenStates
    <3>. HIDE DEF r
    <3>. QED
      BY <2>4, <3>1, <3>2, MoveMapped DEF r
  <2>5. \A v : Closing(q, v).state = run[c].state /\ Closing(q, v).attempts = run[c].attempts
    BY <2>3 DEF Closing, RunState
  <2>. QED
    BY <2>2, <2>4, <2>5, StutterMapped
<1>6. CASE Prepare(c)
  <2>. DEFINE r == [run[c] EXCEPT !.pc = "gate", !.state = "planned",
                                  !.hist = ContactHistory(c)]
  <2>1. run[c].state = "diagnosed" /\ Becomes(c, r)
    BY <1>1, <1>6 DEF Prepare, Stage
  <2>2. r.state = "planned" /\ r.attempts = run[c].attempts
    BY <1>1 DEF RunState
  <2>3. r.state \in CaseStates /\ r.state \in Legal[run[c].state]
    BY <2>1, <2>2 DEF Legal, CaseStates, OpenStates
  <2>. HIDE DEF r
  <2>. QED
    BY <2>1, <2>2, <2>3, MoveMapped
<1>7. CASE Defer(c)
  BY <1>3, <1>7, StutterMapped DEF Defer
<1>8. CASE Decide(c)
  <2>1. /\ [run[c] EXCEPT !.pc = "act"].state = run[c].state
        /\ [run[c] EXCEPT !.pc = "act"].attempts = run[c].attempts
    BY <1>1 DEF RunState
  <2>. QED
    BY <1>2, <1>3, <1>8, <2>1, StutterMapped DEF Decide, AfterDecision
<1>9. CASE ActFails(c)
  <2>1. /\ [NextStep(run[c]) EXCEPT !.failed = TRUE].state = run[c].state
        /\ [NextStep(run[c]) EXCEPT !.failed = TRUE].attempts = run[c].attempts
    BY <1>1 DEF NextStep, RunState
  <2>. QED
    BY <1>9, <2>1, StutterMapped DEF ActFails
<1>10. CASE Execute(c)
  <2>1. /\ run[c].state \in {"planned", "waiting"} /\ run[c].attempts < MaxAttempts
    BY <1>1, <1>10 DEF Execute, Stage, AttemptsLeft
  <2>2. /\ run' = [run EXCEPT ![c] = run'[c]]
        /\ run'[c].state = "intervening" /\ run'[c].attempts = run[c].attempts + 1
    BY <1>1, <1>10 DEF Execute, Becomes, Inv, TypeOK, RunState
  <2>3. "intervening" \in Lifecycle!Legal[run[c].state]
    BY <2>1 DEF Lifecycle!Legal, Lifecycle!CaseStates, Lifecycle!OpenStates
  <2>4. /\ run' \in [Cases -> RunState]
        /\ \A d \in Cases : d # c => run'[d] = run[d]
    BY <1>10, ExecuteKeeps DEF Execute, Becomes, Inv, TypeOK
  <2>5. [d \in Cases |-> run'[d].state]
          = [[d \in Cases |-> run[d].state] EXCEPT ![c] = "intervening"]
    BY <2>2, <2>4
  <2>6. [d \in Cases |-> run'[d].attempts]
          = [[d \in Cases |-> run[d].attempts] EXCEPT ![c] = @ + 1]
    BY <2>2, <2>4
  <2>7. Lifecycle!Attempt(c)
    BY <2>1, <2>3, <2>5, <2>6 DEF Lifecycle!Attempt
  <2>. QED
    BY <2>7 DEF Lifecycle!Next
<1>11. CASE HearBack(c)
  <2>. DEFINE r == [NextStep(run[c]) EXCEPT !.state = "waiting"]
  <2>1. run[c].state = "intervening"
    BY <1>1, <1>11 DEF HearBack, Stage
  <2>2. r.state = "waiting" /\ r.attempts = run[c].attempts
    BY <1>1 DEF NextStep, RunState
  <2>3. r.state \in CaseStates /\ r.state \in Legal[run[c].state]
    BY <2>1, <2>2 DEF Legal, CaseStates, OpenStates
  <2>4. \/ Becomes(c, Closing(run[c], "recovered"))
        \/ Becomes(c, Closing(run[c], "abandoned"))
        \/ Becomes(c, r)
    BY <1>11 DEF HearBack, AfterReply
  <2>. HIDE DEF r
  <2>. QED
    BY <1>2, <2>2, <2>3, <2>4, StutterMapped, MoveMapped
<1>12. CASE Exhaust(c)
  BY <1>2, <1>12, StutterMapped DEF Exhaust
<1>13. CASE Finish(c)
  <2>. DEFINE r == [run[c] EXCEPT !.pc = "done", !.state = run[c].verdict]
  <2>1. /\ run[c].state \in OpenStates /\ run[c].verdict \in TerminalStates
        /\ run[c].verdict = "recovered" => run[c].state = "intervening"
        /\ Becomes(c, r)
    BY <1>1, <1>13 DEF Finish, Stage
  <2>2. r.state = run[c].verdict /\ r.attempts = run[c].attempts
    BY <1>1 DEF RunState
  <2>3. r.state \in CaseStates /\ r.state # "intervening" /\ r.state \in Legal[run[c].state]
    BY <2>1, <2>2 DEF Legal, CaseStates, OpenStates, TerminalStates
  <2>. HIDE DEF r
  <2>. QED
    BY <2>1, <2>2, <2>3, MoveMapped
<1>14. CASE Crash(c)
  <2>1. run[c].state \notin TerminalStates
    BY <1>1, <1>14 DEF Crash, Running, Stage
  <2>2. Fresh(info[c]).state = "detected" /\ Fresh(info[c]).attempts = 0
    BY DEF Fresh
  <2>3. run' = [run EXCEPT ![c] = Fresh(info[c])]
    BY <1>14 DEF Crash, Becomes
  <2>4. Lifecycle!Redeliver(c)
    BY <2>1, <2>2, <2>3 DEF Inv, TypeOK, Lifecycle!Redeliver, Lifecycle!Closed,
                            Lifecycle!TerminalStates, TerminalStates
  <2>. QED
    BY <2>4 DEF Lifecycle!Next
<1>. QED
  BY <1>4, <1>5, <1>6, <1>7, <1>8, <1>9, <1>10, <1>11, <1>12, <1>13, <1>14 DEF Handle

\* Every behaviour of the flow is, case by case, one of the lifecycle that
\* domain/models.py declares: legal transitions only, at most MaxAttempts
\* attempts each time the case is handled, recovered only on the heels of an
\* attempt, and never reopened.
THEOREM LifecycleRefined == Spec => FollowsLifecycle
<1>1. Init => Lifecycle!Init
  BY DEF Init, Fresh, Lifecycle!Init
<1>2. Inv /\ [Next]_vars => [Lifecycle!Next]_Lifecycle!vars
  <2>. SUFFICES ASSUME Inv, [Next]_vars
                PROVE  Lifecycle!Next \/ UNCHANGED Lifecycle!vars
    OBVIOUS
  <2>1. ASSUME NEW c \in Cases, Start(c) \/ Handle(c) \/ Crash(c)
        PROVE  Lifecycle!Next \/ UNCHANGED Lifecycle!vars
    BY <2>1, CaseMapped
  <2>2. CASE UNCHANGED run
    BY <2>2 DEF Lifecycle!vars
  <2>. QED
    BY <2>1, <2>2 DEF Next, MarkOutage, ClearOutage, AllDone, vars
<1>. QED
  BY <1>1, <1>2, InvInit, InvStep, PTL DEF Spec, FollowsLifecycle, Lifecycle!Spec

(***************************************************************************)
(* A step of a case, whatever it is.                                       *)
(***************************************************************************)
Step(c) == Start(c) \/ Handle(c) \/ Crash(c)

LEMMA StepKeeps ==
  ASSUME Inv, NEW c \in Cases, Step(c)
  PROVE  Inv'
BY StartKeeps, PlanKeeps, PrepareKeeps, DeferKeeps, DecideKeeps, ActFailsKeeps,
   ExecuteKeeps, HearBackKeeps, ExhaustKeeps, FinishKeeps, CrashKeeps DEF Handle, Step

\* It is that case's only.
LEMMA StepWrites ==
  ASSUME Inv, NEW c \in Cases, Step(c)
  PROVE  /\ info' = info
         /\ \A d \in Cases : d # c => run'[d] = run[d]
         /\ run' \in [Cases -> RunState]
         /\ Start(c) \/ c \in Running
<1>1. Inv'
  BY StepKeeps
<1>2. info' = info /\ \E r : Becomes(c, r)
  BY DEF Step, Handle, Start, Plan, Prepare, Defer, Decide, ActFails, Execute, HearBack,
         Exhaust, Finish, Crash
<1>3. Start(c) \/ c \in Running
  BY DEF Step, Handle, Running, Plan, Prepare, Defer, Decide, ActFails, Execute, HearBack,
         Exhaust, Finish, Crash, StepsLeft
<1>. QED
  BY <1>1, <1>2, <1>3 DEF Becomes, Inv, TypeOK

\* Where each step leaves its case.
LEMMA NextPc ==
  ASSUME Inv, NEW c \in Cases
  PROVE  /\ Start(c) => run'[c].pc \in {"plan", "finish"}
         /\ Plan(c) => run'[c].pc \in {"prepare", "finish"}
         /\ Prepare(c) \/ Defer(c) \/ ActFails(c) => run'[c].pc = "gate"
         /\ Decide(c) => run'[c].pc \in {"act", "gate", "finish"}
         /\ Execute(c) => run'[c].pc = "respond"
         /\ HearBack(c) => run'[c].pc \in {"gate", "finish"}
         /\ Exhaust(c) => run'[c].pc = "finish"
         /\ Finish(c) => run'[c].pc = "done"
         /\ Crash(c) => run'[c].pc = "new"
<1>1. run \in [Cases -> RunState] /\ run[c] \in RunState
  BY DEF Inv, TypeOK
<1>2. ASSUME NEW r, Becomes(c, r)  PROVE run'[c] = r
  BY <1>1, <1>2 DEF Becomes
<1>3. \A v : Closing(run[c], v).pc = "finish"
  BY <1>1 DEF Closing, RunState
<1>4. /\ NextStep(run[c]).pc = "gate"
      /\ [NextStep(run[c]) EXCEPT !.failed = TRUE].pc = "gate"
      /\ [NextStep(run[c]) EXCEPT !.state = "waiting"].pc = "gate"
  BY <1>1 DEF NextStep, RunState
<1>5. Start(c) => run'[c].pc \in {"plan", "finish"}
  BY <1>1, <1>2, <1>3 DEF Start, RunState
<1>6. Plan(c) => run'[c].pc \in {"prepare", "finish"}
  <2>1. \A q \in RunState : /\ \A v : Closing(q, v).pc = "finish"
                            /\ Worked(q).pc = "prepare"
    BY DEF Closing, Worked, RunState
  <2>. QED
    BY <1>2, <2>1, PlanTaken
<1>7. Prepare(c) \/ Defer(c) \/ ActFails(c) => run'[c].pc = "gate"
  BY <1>1, <1>2, <1>4 DEF Prepare, Defer, ActFails, RunState
<1>8. Decide(c) => run'[c].pc \in {"act", "gate", "finish"}
  BY <1>1, <1>2, <1>3, <1>4 DEF Decide, AfterDecision, RunState
<1>9. Execute(c) => run'[c].pc = "respond"
  BY <1>1 DEF Execute, Becomes, RunState
<1>10. HearBack(c) => run'[c].pc \in {"gate", "finish"}
  BY <1>1, <1>2, <1>3, <1>4 DEF HearBack, AfterReply
<1>11. Exhaust(c) => run'[c].pc = "finish"
  BY <1>2, <1>3 DEF Exhaust
<1>12. Finish(c) => run'[c].pc = "done"
  BY <1>1, <1>2 DEF Finish, RunState
<1>13. Crash(c) => run'[c].pc = "new"
  BY <1>2 DEF Crash, Fresh
<1>. QED
  BY <1>5, <1>6, <1>7, <1>8, <1>9, <1>10, <1>11, <1>12, <1>13

(***************************************************************************)
(* Verdicts.                                                               *)
(***************************************************************************)
Barred(i) == i.dryRun \/ i.kill \/ i.code \in HardCodes

\* That the verdict v fits the last answer, what was tried and the amount.
Deserved(i, r, v) ==
  /\ v \in {"recovered", "escalated", "abandoned"}
  /\ v = "recovered" <=> r.last = "paid"
  /\ v = "escalated" => (r.executed # <<>> => i.amount >= EscalateFloor) /\ r.last # "opt_out"
  /\ v = "abandoned" => (r.executed # <<>> /\ i.amount >= EscalateFloor => r.last = "opt_out")

\* What the verdict will be read from, wherever the handler is: no answer comes
\* without an action, one that ends the case is never passed over, and a barred
\* case gets nowhere near an action.
Story(i, r) ==
  /\ r.executed = <<>> => r.last = None
  /\ r.pc \in {"new", "plan"} => r.executed = <<>>
  /\ r.pc \notin {"respond", "finish", "done"} => r.last \notin {"paid", "opt_out"}
  /\ Barred(i) => r.executed = <<>> /\ r.pc \notin {"act", "respond"}
  /\ i.code \in HardCodes => r.pc \in {"new", "finish", "done"}
  /\ r.pc = "finish" => Deserved(i, r, r.verdict)
  /\ r.pc = "done" => Deserved(i, r, r.state)

Stories == \A c \in Cases : Story(info[c], run[c])

\* A step of one case leaves the story of the others as it is.
LEMMA StoriesKeep ==
  ASSUME Inv, Stories, NEW c \in Cases, NEW r, Becomes(c, r), info' = info,
         Story(info[c], r)
  PROVE  Stories'
BY DEF Inv, TypeOK, Stories, Becomes

LEMMA StoryFacts ==
  ASSUME Inv, Stories, NEW c \in Cases
  PROVE  run[c] \in RunState /\ Stage(run[c]) /\ Story(info[c], run[c])
BY CaseFacts DEF Stories, CaseInv

\* A case on its way to a verdict it deserves.
LEMMA ClosingStory ==
  ASSUME NEW i, NEW r \in RunState, Story(i, r), NEW v,
         Deserved(i, r, v), Barred(i) => r.executed = <<>>
  PROVE  Story(i, Closing(r, v))
<1>. DEFINE q == Closing(r, v)
<1>1. q.pc = "finish" /\ q.verdict = v /\ q.executed = r.executed /\ q.last = r.last
  BY DEF Closing, RunState
<1>. HIDE DEF q
<1>2. Story(i, q)
  BY <1>1 DEF Story, Deserved, Barred
<1>. QED
  BY <1>2 DEF q

\* Nothing but the place has changed, and it is short of an answer.
LEMMA MovingStory ==
  ASSUME NEW i, NEW r, Story(i, r), NEW q, r.pc \notin {"respond", "finish", "done"},
         q.executed = r.executed, q.last = r.last,
         q.pc \in {"plan", "prepare", "gate", "act"},
         i.code \notin HardCodes,
         q.pc = "plan" => r.pc = "new",
         q.pc = "act" => ~Barred(i)
  PROVE  Story(i, q)
BY DEF Story, Barred

LEMMA StartTells ==
  ASSUME Inv, Stories, NEW c \in Cases, Start(c)
  PROVE  Stories'
<1>1. /\ run[c] \in RunState /\ Story(info[c], run[c]) /\ run[c].pc = "new"
      /\ run[c].executed = <<>> /\ run[c].last = None
  BY StoryFacts DEF Start, Story
<1>2. Story(info[c], Closing(run[c], "abandoned"))
  BY <1>1, ClosingStory DEF Deserved, None
<1>3. ASSUME Pursued(info[c])
      PROVE  Story(info[c], [run[c] EXCEPT !.pc = "plan"])
  <2>. DEFINE q == [run[c] EXCEPT !.pc = "plan"]
  <2>1. q.pc = "plan" /\ q.executed = run[c].executed /\ q.last = run[c].last
    BY <1>1 DEF RunState
  <2>. HIDE DEF q
  <2>3. Story(info[c], q)
    BY <1>1, <1>3, <2>1, MovingStory DEF Pursued
  <2>. QED
    BY <2>3 DEF q
<1>. QED
  BY <1>2, <1>3, StoriesKeep DEF Start

LEMMA PlanTells ==
  ASSUME Inv, Stories, NEW c \in Cases, Plan(c)
  PROVE  Stories'
<1>1. /\ run[c] \in RunState /\ Story(info[c], run[c]) /\ run[c].pc = "plan"
      /\ run[c].executed = <<>> /\ run[c].last = None /\ info[c].code \notin HardCodes
      /\ info' = info
  BY StoryFacts DEF Plan, Story
<1>2. PICK plan \in Plans(info[c]), q \in RunState :
        /\ Planned(q, run[c], plan)
        /\ \/ Becomes(c, Closing(q, "abandoned")) \/ Becomes(c, Closing(q, "escalated"))
           \/ Becomes(c, Worked(q))
  BY PlanTaken
<1>3. q.pc = "plan" /\ q.executed = <<>> /\ q.last = None
  BY <1>1, <1>2 DEF Planned
<1>4. Story(info[c], q)
  BY <1>1, <1>3 DEF Story
<1>5. /\ Story(info[c], Closing(q, "abandoned"))
      /\ Story(info[c], Closing(q, "escalated"))
  BY <1>3, <1>4, ClosingStory DEF Deserved, None
<1>6. Story(info[c], Worked(q))
  <2>1. Worked(q).pc = "prepare" /\ Worked(q).executed = q.executed /\ Worked(q).last = q.last
    BY DEF Worked, RunState
  <2>. QED
    BY <1>1, <1>3, <1>4, <2>1, MovingStory
<1>. QED
  BY <1>1, <1>2, <1>5, <1>6, StoriesKeep

LEMMA PrepareTells ==
  ASSUME Inv, Stories, NEW c \in Cases, Prepare(c)
  PROVE  Stories'
<1>. DEFINE q == [run[c] EXCEPT !.pc = "gate", !.state = "planned",
                                !.hist = ContactHistory(c)]
<1>1. /\ run[c] \in RunState /\ Story(info[c], run[c]) /\ run[c].pc = "prepare"
      /\ info[c].code \notin HardCodes
  BY StoryFacts DEF Prepare, Story
<1>2. q.pc = "gate" /\ q.executed = run[c].executed /\ q.last = run[c].last
  BY <1>1 DEF RunState
<1>3. Becomes(c, q) /\ info' = info
  BY DEF Prepare
<1>. HIDE DEF q
<1>. QED
  BY <1>1, <1>2, <1>3, MovingStory, StoriesKeep

\* The next step of a playbook, in a case that is not closed by its answer.
LEMMA NextStepStory ==
  ASSUME NEW i, NEW r \in RunState, Story(i, r), r.pc \in {"gate", "act"}
  PROVE  Story(i, NextStep(r))
<1>. DEFINE q == NextStep(r)
<1>1. q.pc = "gate" /\ q.executed = r.executed /\ q.last = r.last
  BY DEF NextStep, RunState
<1>2. i.code \notin HardCodes
  BY DEF Story
<1>. HIDE DEF q
<1>3. Story(i, q)
  BY <1>1, <1>2, MovingStory
<1>. QED
  BY <1>3 DEF q

LEMMA DeferTells ==
  ASSUME Inv, Stories, NEW c \in Cases, Defer(c)
  PROVE  Stories'
BY StoryFacts, NextStepStory, StoriesKeep DEF Defer, StepsLeft

LEMMA DecideTells ==
  ASSUME Inv, Stories, NEW c \in Cases, Decide(c)
  PROVE  Stories'
<1>1. /\ run[c] \in RunState /\ Story(info[c], run[c]) /\ run[c].pc = "gate"
      /\ info[c].code \notin HardCodes /\ run[c].last \notin {"paid", "opt_out"}
  BY StoryFacts DEF Decide, StepsLeft, Story
<1>2. ASSUME Gate(c), ~info[c].dryRun
      PROVE  Story(info[c], [run[c] EXCEPT !.pc = "act"])
  <2>. DEFINE q == [run[c] EXCEPT !.pc = "act"]
  <2>1. q.pc = "act" /\ q.executed = run[c].executed /\ q.last = run[c].last
    BY <1>1 DEF RunState
  <2>2. ~Barred(info[c])
    BY <1>1, <1>2 DEF Gate, Allowed, Barred
  <2>. HIDE DEF q
  <2>3. Story(info[c], q)
    BY <1>1, <2>1, <2>2, MovingStory
  <2>. QED
    BY <2>3 DEF q
<1>3. ASSUME info[c].kill
      PROVE  Story(info[c], Closing(run[c], "escalated"))
  <2>1. run[c].executed = <<>>
    BY <1>1, <1>3 DEF Story, Barred
  <2>. QED
    BY <1>1, <2>1, ClosingStory DEF Deserved
<1>4. Story(info[c], AfterDecision(c))
  BY <1>1, <1>2, <1>3, NextStepStory DEF AfterDecision
<1>. QED
  BY <1>4, StoriesKeep DEF Decide

LEMMA ActFailsTells ==
  ASSUME Inv, Stories, NEW c \in Cases, ActFails(c)
  PROVE  Stories'
<1>. DEFINE q == [NextStep(run[c]) EXCEPT !.failed = TRUE]
<1>1. /\ run[c] \in RunState /\ Story(info[c], run[c]) /\ run[c].pc = "act"
      /\ info[c].code \notin HardCodes
  BY StoryFacts DEF ActFails, Story
<1>2. q.pc = "gate" /\ q.executed = run[c].executed /\ q.last = run[c].last
  BY <1>1 DEF NextStep, RunState
<1>3. Becomes(c, q) /\ info' = info
  BY DEF ActFails
<1>. HIDE DEF q
<1>. QED
  BY <1>1, <1>2, <1>3, MovingStory, StoriesKeep

LEMMA ExecuteTells ==
  ASSUME Inv, Stories, NEW c \in Cases, Execute(c)
  PROVE  Stories'
<1>. DEFINE action == NextAction(c)
            act == [kind |-> action.kind, channel |-> action.channel, at |-> run[c].now]
            touch == IF IsContact(action) THEN <<run[c].now>> ELSE <<>>
            q == [run[c] EXCEPT !.pc = "respond", !.state = "intervening",
                    !.attempts = @ + 1, !.hist = @ \o touch,
                    !.executed = Append(@, act), !.last = Reply(c),
                    !.lastChannel = IF IsContact(action) THEN action.channel ELSE @]
<1>1. /\ run[c] \in RunState /\ Story(info[c], run[c]) /\ run[c].pc = "act"
      /\ info[c].code \notin HardCodes /\ ~Barred(info[c])
  BY StoryFacts DEF Execute, Story
<1>2. Becomes(c, q) /\ info' = info
  BY DEF Execute
<1>3. q.pc = "respond" /\ q.executed = Append(run[c].executed, act)
  BY <1>1 DEF RunState
<1>4. q.executed # <<>>
  <2>. HIDE DEF q, act
  <2>1. run[c].executed \in Seq([kind : ActionKinds, channel : Channels \cup {None}, at : Nat])
    BY <1>1 DEF RunState
  <2>. QED
    BY <1>3, <2>1
<1>. HIDE DEF q
<1>5. Story(info[c], q)
  BY <1>1, <1>3, <1>4 DEF Story
<1>. QED
  BY <1>2, <1>5, StoriesKeep

LEMMA HearBackTells ==
  ASSUME Inv, Stories, NEW c \in Cases, HearBack(c)
  PROVE  Stories'
<1>1. /\ run[c] \in RunState /\ Story(info[c], run[c]) /\ run[c].pc = "respond"
      /\ info[c].code \notin HardCodes /\ ~Barred(info[c])
      /\ Becomes(c, AfterReply(run[c])) /\ info' = info
  BY StoryFacts DEF HearBack, Story
<1>2. CASE run[c].last = "paid"
  BY <1>1, <1>2, ClosingStory, StoriesKeep DEF AfterReply, Deserved
<1>3. CASE run[c].last = "opt_out"
  BY <1>1, <1>3, ClosingStory, StoriesKeep DEF AfterReply, Deserved
<1>4. CASE run[c].last \notin {"paid", "opt_out"}
  <2>. DEFINE q == [NextStep(run[c]) EXCEPT !.state = "waiting"]
  <2>1. q.pc = "gate" /\ q.executed = run[c].executed /\ q.last = run[c].last
    BY <1>1 DEF NextStep, RunState
  <2>2. Becomes(c, q)
    BY <1>1, <1>4 DEF AfterReply
  <2>. HIDE DEF q
  <2>3. Story(info[c], q)
    BY <1>1, <1>4, <2>1 DEF Story
  <2>. QED
    BY <1>1, <2>2, <2>3, StoriesKeep
<1>. QED
  BY <1>2, <1>3, <1>4

LEMMA ExhaustTells ==
  ASSUME Inv, Stories, NEW c \in Cases, Exhaust(c)
  PROVE  Stories'
<1>1. /\ run[c] \in RunState /\ Story(info[c], run[c]) /\ run[c].pc = "gate"
      /\ run[c].last \notin {"paid", "opt_out"}
      /\ Barred(info[c]) => run[c].executed = <<>>
  BY StoryFacts DEF Exhaust, Story
<1>2. info[c].amount \in Nat
  BY CaseFacts DEF CaseInfo
<1>3. Deserved(info[c], run[c], Unresolved(c))
  BY <1>1, <1>2 DEF Deserved, Unresolved, EscalateFloor, Barred
<1>. QED
  BY <1>1, <1>3, ClosingStory, StoriesKeep DEF Exhaust

LEMMA FinishTells ==
  ASSUME Inv, Stories, NEW c \in Cases, Finish(c)
  PROVE  Stories'
<1>. DEFINE q == [run[c] EXCEPT !.pc = "done", !.state = run[c].verdict]
<1>1. /\ run[c] \in RunState /\ Story(info[c], run[c]) /\ run[c].pc = "finish"
  BY StoryFacts DEF Finish
<1>2. /\ q.pc = "done" /\ q.state = run[c].verdict /\ q.executed = run[c].executed
      /\ q.last = run[c].last
  BY <1>1 DEF RunState
<1>3. Becomes(c, q) /\ info' = info
  BY DEF Finish
<1>. HIDE DEF q
<1>4. Story(info[c], q)
  BY <1>1, <1>2 DEF Story, Deserved
<1>. QED
  BY <1>3, <1>4, StoriesKeep

LEMMA FreshTells == \A i : Story(i, Fresh(i))
BY DEF Story, Fresh, None, Barred

LEMMA StoriesInit == Init => Stories
BY FreshTells DEF Init, Stories

LEMMA StoriesStep == Inv /\ Stories /\ [Next]_vars => Stories'
<1>. SUFFICES ASSUME Inv, Stories, [Next]_vars PROVE Stories'
  OBVIOUS
<1>1. ASSUME NEW c \in Cases, Start(c) \/ Handle(c) \/ Crash(c)
      PROVE  Stories'
  <2>1. CASE Crash(c)
    BY <2>1, FreshTells, StoriesKeep DEF Crash
  <2>. QED
    BY <1>1, <2>1, StartTells, PlanTells, PrepareTells, DeferTells, DecideTells,
       ActFailsTells, ExecuteTells, HearBackTells, ExhaustTells, FinishTells DEF Handle
<1>2. CASE UNCHANGED <<info, run>>
  BY <1>2 DEF Stories
<1>. QED
  BY <1>1, <1>2 DEF Next, MarkOutage, ClearOutage, AllDone, vars

\* An opt-out is never taken back.
LEMMA OptOutsGrow ==
  ASSUME NEW c \in Cases, Step(c)
  PROVE  optOuts \subseteq optOuts'
BY DEF Step, Handle, Start, Plan, Prepare, Defer, Decide, ActFails, Execute, HearBack,
       Exhaust, Finish, Crash, shared

\* Why a case may be dropped that was never tried: the plan, once there is one,
\* is what its worth is judged by, and an opt-out is never taken back.
Grounded(i, r, refused) ==
  /\ r.pc \in {"new", "plan"} => r.plan = NoPlan
  /\ \/ r.pc = "finish" /\ r.verdict = "abandoned"
     \/ r.pc = "done" /\ r.state = "abandoned"
     => \/ r.last = "opt_out" \/ r.executed # <<>> \/ i.dryRun
        \/ r.plan = NoPlan /\ (~Pursued(i) \/ i.customer \in refused)
        \/ r.plan # NoPlan /\ LosesMoney(i, r.plan)

Grounds == \A c \in Cases : Grounded(info[c], run[c], optOuts)

LEMMA GroundsKeep ==
  ASSUME Inv, Grounds, NEW c \in Cases, NEW r, Becomes(c, r), info' = info,
         optOuts \subseteq optOuts', Grounded(info[c], r, optOuts)
  PROVE  Grounds'
<1>1. \A i, q : Grounded(i, q, optOuts) => Grounded(i, q, optOuts')
  BY DEF Grounded
<1>. QED
  BY <1>1 DEF Inv, TypeOK, Grounds, Becomes

\* A case that has left the plan behind and is not being closed.
LEMMA PursuedGround ==
  ASSUME NEW i, NEW r, NEW refused, r.pc \in {"prepare", "gate", "act", "respond"}
  PROVE  Grounded(i, r, refused)
BY DEF Grounded

LEMMA StartGrounds ==
  ASSUME Inv, Grounds, NEW c \in Cases, Start(c)
  PROVE  Grounds'
<1>1. /\ run[c] \in RunState /\ run[c].plan = NoPlan /\ info' = info /\ optOuts' = optOuts
  BY CaseFacts DEF Start, Grounds, Grounded, CaseInv, shared
<1>2. CASE Pursued(info[c]) /\ ~HasOptedOut(c)
  <2>. DEFINE q == [run[c] EXCEPT !.pc = "plan"]
  <2>1. Becomes(c, q)
    BY <1>2 DEF Start
  <2>2. q.pc = "plan" /\ q.plan = NoPlan
    BY <1>1 DEF RunState
  <2>. HIDE DEF q
  <2>3. Grounded(info[c], q, optOuts)
    BY <2>2 DEF Grounded
  <2>. QED
    BY <1>1, <2>1, <2>3, GroundsKeep
<1>3. CASE ~(Pursued(info[c]) /\ ~HasOptedOut(c))
  <2>. DEFINE q == Closing(run[c], "abandoned")
  <2>1. Becomes(c, q)
    BY <1>3 DEF Start
  <2>2. q.pc = "finish" /\ q.plan = NoPlan
    BY <1>1 DEF Closing, RunState
  <2>. HIDE DEF q
  <2>3. Grounded(info[c], q, optOuts)
    BY <1>3, <2>2 DEF Grounded, HasOptedOut
  <2>. QED
    BY <1>1, <2>1, <2>3, GroundsKeep
<1>. QED
  BY <1>2, <1>3

LEMMA PlanGrounds ==
  ASSUME Inv, Grounds, NEW c \in Cases, Plan(c)
  PROVE  Grounds'
<1>1. info' = info /\ optOuts' = optOuts
  BY DEF Plan, shared
<1>2. PICK plan \in Plans(info[c]), q \in RunState :
        /\ Planned(q, run[c], plan)
        /\ \/ LosesMoney(info[c], plan) /\ Becomes(c, Closing(q, "abandoned"))
           \/ Becomes(c, Closing(q, "escalated"))
           \/ Becomes(c, Worked(q))
  BY PlanTaken
<1>3. CASE LosesMoney(info[c], plan) /\ Becomes(c, Closing(q, "abandoned"))
  <2>1. plan # NoPlan
    BY <1>3 DEF LosesMoney, NoPlan, None, PlaybookNames, Playbook
  <2>2. Closing(q, "abandoned").pc = "finish" /\ Closing(q, "abandoned").plan = plan
    BY <1>2 DEF Closing, Planned, RunState
  <2>3. Grounded(info[c], Closing(q, "abandoned"), optOuts)
    BY <1>3, <2>1, <2>2 DEF Grounded
  <2>. QED
    BY <1>1, <1>3, <2>3, GroundsKeep
<1>4. CASE Becomes(c, Closing(q, "escalated"))
  <2>1. Closing(q, "escalated").pc = "finish" /\ Closing(q, "escalated").verdict = "escalated"
    BY DEF Closing, RunState
  <2>2. Grounded(info[c], Closing(q, "escalated"), optOuts)
    BY <2>1 DEF Grounded
  <2>. QED
    BY <1>1, <1>4, <2>2, GroundsKeep
<1>5. CASE Becomes(c, Worked(q))
  <2>1. Worked(q).pc = "prepare"
    BY DEF Worked, RunState
  <2>. QED
    BY <1>1, <1>5, <2>1, PursuedGround, GroundsKeep
<1>. QED
  BY <1>2, <1>3, <1>4, <1>5

\* What is left once the playbook has run out is dropped untried in a dry run
\* only.
LEMMA ClosingGrounds ==
  ASSUME Inv, Grounds, NEW c \in Cases, Decide(c) \/ HearBack(c) \/ Exhaust(c), NEW v,
         Becomes(c, Closing(run[c], v)),
         v = "abandoned" => \/ run[c].last = "opt_out" \/ run[c].executed # <<>>
                            \/ info[c].dryRun
  PROVE  Grounds'
<1>1. run[c] \in RunState /\ info' = info /\ optOuts \subseteq optOuts'
  BY CaseFacts DEF CaseInv, Decide, HearBack, Exhaust, shared
<1>. DEFINE q == Closing(run[c], v)
<1>2. /\ q.pc = "finish" /\ q.verdict = v /\ q.last = run[c].last
      /\ q.executed = run[c].executed
  BY <1>1 DEF Closing, RunState
<1>. HIDE DEF q
<1>3. Grounded(info[c], q, optOuts)
  BY <1>2 DEF Grounded
<1>. QED
  BY <1>1, <1>3, GroundsKeep DEF q

LEMMA FinishGrounds ==
  ASSUME Inv, Grounds, NEW c \in Cases, Finish(c)
  PROVE  Grounds'
<1>1. /\ run[c] \in RunState /\ run[c].pc = "finish" /\ info' = info /\ optOuts' = optOuts
      /\ Grounded(info[c], run[c], optOuts)
  BY CaseFacts DEF CaseInv, Finish, shared, Grounds
<1>. DEFINE q == [run[c] EXCEPT !.pc = "done", !.state = run[c].verdict]
<1>2. /\ q.pc = "done" /\ q.state = run[c].verdict /\ q.last = run[c].last
      /\ q.executed = run[c].executed /\ q.plan = run[c].plan
  BY <1>1 DEF RunState
<1>3. Becomes(c, q)
  BY DEF Finish
<1>. HIDE DEF q
<1>4. Grounded(info[c], q, optOuts)
  BY <1>1, <1>2 DEF Grounded
<1>. QED
  BY <1>1, <1>3, <1>4, GroundsKeep

LEMMA GroundsStep == Inv /\ Grounds /\ [Next]_vars => Grounds'
<1>. SUFFICES ASSUME Inv, Grounds, [Next]_vars PROVE Grounds'
  OBVIOUS
<1>1. ASSUME NEW c \in Cases, Start(c) \/ Handle(c) \/ Crash(c)
      PROVE  Grounds'
  <2>1. run[c] \in RunState /\ info' = info /\ optOuts \subseteq optOuts'
    BY <1>1, StepWrites, OptOutsGrow, CaseFacts DEF Step, CaseInv
  <2>2. ASSUME NEW r, Becomes(c, r), r.pc \in {"prepare", "gate", "act", "respond"}
        PROVE  Grounds'
    BY <2>1, <2>2, PursuedGround, GroundsKeep
  <2>3. ASSUME NEW r, Becomes(c, r)
        PROVE  run'[c] = r
    BY <2>3 DEF Becomes, Inv, TypeOK
  <2>4. CASE Prepare(c) \/ Defer(c) \/ ActFails(c) \/ Execute(c)
    <3>1. PICK r : Becomes(c, r)
      BY <2>4 DEF Prepare, Defer, ActFails, Execute
    <3>. QED
      BY <2>2, <2>3, <2>4, <3>1, NextPc
  <2>5. CASE Decide(c)
    <3>1. /\ Becomes(c, AfterDecision(c))
          /\ \/ AfterDecision(c) = Closing(run[c], "escalated")
             \/ AfterDecision(c) = NextStep(run[c])
             \/ AfterDecision(c) = [run[c] EXCEPT !.pc = "act"]
      BY <2>5 DEF Decide, AfterDecision
    <3>2. CASE AfterDecision(c) = Closing(run[c], "escalated")
      BY <2>5, <3>1, <3>2, ClosingGrounds
    <3>3. NextStep(run[c]).pc = "gate" /\ [run[c] EXCEPT !.pc = "act"].pc = "act"
      BY <2>1 DEF NextStep, RunState
    <3>. QED
      BY <2>2, <3>1, <3>2, <3>3
  <2>6. CASE HearBack(c)
    <3>1. Becomes(c, AfterReply(run[c]))
      BY <2>6 DEF HearBack
    <3>2. CASE run[c].last = "paid"
      BY <2>6, <3>1, <3>2, ClosingGrounds DEF AfterReply
    <3>3. CASE run[c].last = "opt_out"
      BY <2>6, <3>1, <3>3, ClosingGrounds DEF AfterReply
    <3>4. CASE run[c].last \notin {"paid", "opt_out"}
      <4>1. AfterReply(run[c]).pc = "gate"
        BY <2>1, <3>4 DEF AfterReply, NextStep, RunState
      <4>. QED
        BY <2>2, <3>1, <4>1
    <3>. QED
      BY <3>2, <3>3, <3>4
  <2>7. CASE Exhaust(c)
    <3>1. Becomes(c, Closing(run[c], Unresolved(c)))
      BY <2>7 DEF Exhaust
    <3>2. Unresolved(c) = "abandoned" => run[c].executed # <<>> \/ info[c].dryRun
      BY DEF Unresolved
    <3>. QED
      BY <2>7, <3>1, <3>2, ClosingGrounds
  <2>8. CASE Crash(c)
    <3>1. Grounded(info[c], Fresh(info[c]), optOuts)
      BY DEF Grounded, Fresh
    <3>. QED
      BY <2>1, <2>8, <3>1, GroundsKeep DEF Crash
  <2>. QED
    BY <1>1, <2>4, <2>5, <2>6, <2>7, <2>8, StartGrounds, PlanGrounds, FinishGrounds
    DEF Handle
<1>2. CASE UNCHANGED <<info, run, optOuts>>
  BY <1>2 DEF Grounds
<1>. QED
  BY <1>1, <1>2 DEF Next, MarkOutage, ClearOutage, AllDone, vars, shared

\* Whatever the interleaving, the failures and the diagnosis: a case is closed
\* as recovered exactly when the customer's last answer was a payment, and as
\* escalated only when it is worth a human or nothing was tried; a case that
\* was tried and is worth a human is dropped at the customer's word only, and
\* one on which nothing could be tried in a dry run, or because the score, an
\* opt-out or the expected value left nothing to work on.
THEOREM VerdictsJustified == Spec => []VerdictJustified
<1>1. Init => Grounds
  BY DEF Init, Fresh, Grounds, Grounded
<1>2. Inv /\ Stories /\ Grounds => VerdictJustified
  <2>. SUFFICES ASSUME Inv, Stories, Grounds, NEW c \in Cases, run[c].pc = "done"
                PROVE  LET r == run[c]
                           tried == r.executed # <<>>
                           high == info[c].amount >= EscalateFloor
                       IN /\ r.state = "recovered" <=> r.last = "paid"
                          /\ r.state = "escalated" => (tried => high) /\ r.last # "opt_out"
                          /\ r.state = "abandoned" =>
                               \/ r.last = "opt_out"
                               \/ IF tried THEN ~high ELSE info[c].dryRun \/ NotWorthWorking(c)
    BY DEF VerdictJustified
  <2>1. Deserved(info[c], run[c], run[c].state)
    BY DEF Stories, Story
  <2>2. ASSUME run[c].state = "abandoned", run[c].last # "opt_out", run[c].executed = <<>>
        PROVE  info[c].dryRun \/ NotWorthWorking(c)
    BY <2>2 DEF Grounds, Grounded, NotWorthWorking, HasOptedOut
  <2>. QED
    BY <2>1, <2>2 DEF Deserved
<1>. QED
  BY <1>1, <1>2, InvInit, InvStep, StoriesInit, StoriesStep, GroundsStep, PTL DEF Spec

\* No answer of the model, no outage and no failure brings a dry run, a killed
\* case or a hard failure to an action, and none is closed as paid.
THEOREM BarredStayUntouched == Spec => []BarredCasesUntouched
<1>1. Inv /\ Stories => BarredCasesUntouched
  <2>. SUFFICES ASSUME Inv, Stories, NEW c \in Cases, Barred(info[c])
                PROVE  /\ run[c].executed = <<>>
                       /\ run[c].state \in TerminalStates =>
                            run[c].state \in {"abandoned", "escalated"}
    BY DEF BarredCasesUntouched, Barred
  <2>1. Stage(run[c]) /\ Story(info[c], run[c])
    BY StoryFacts
  <2>2. run[c].executed = <<>> /\ run[c].last # "paid"
    BY <2>1 DEF Story, None
  <2>. QED
    BY <2>1, <2>2 DEF Story, Deserved, Stage
<1>. QED
  BY <1>1, InvInit, InvStep, StoriesInit, StoriesStep, PTL DEF Spec

(***************************************************************************)
(* The trail.                                                              *)
(***************************************************************************)
Tries(e, step) == e.stage \in {"ACT", "ACT_FAILED"} /\ e.step = step

Allows(e, step) == e = Record("DECIDE", step, "allowed")

\* A record that says neither that a step was tried nor that it was allowed.
Plain(e) ==
  /\ e \in AuditRecord
  /\ e.stage \notin {"ACT", "ACT_FAILED"}
  /\ e.stage # "DECIDE" \/ e.note # "allowed"

LEMMA PlainRecord ==
  ASSUME NEW e, Plain(e), NEW step
  PROVE  e \in AuditRecord /\ ~Tries(e, step) /\ ~Allows(e, step)
BY DEF Plain, Tries, Allows, Record, AuditRecord

LEMMA PlainRecords ==
  ASSUME NEW stage \in AuditStages \ {"ACT", "ACT_FAILED"}, NEW step \in Nat,
         NEW note \in {None, "allowed", "blocked"} \cup Replies \cup TerminalStates,
         stage # "DECIDE" \/ note # "allowed"
  PROVE  Plain(Record(stage, step, note))
BY RecordTyped DEF Plain, Record

\* Its handler has been permitted the step, or has carried it out, and has yet
\* to say so.
Holds(r, step) == r.pc \in {"act", "respond"} /\ r.step = step

(***************************************************************************)
(* What one step of a handler writes: at most two records, the second of   *)
(* them plain.  The first grants a permission, uses one up, or is plain    *)
(* too.                                                                    *)
(***************************************************************************)
Granted(c, r, first) ==
  /\ run[c].pc = "gate"
  /\ first = <<Record("DECIDE", run[c].step, "allowed")>>
  /\ r.pc \in {"act", "gate"} /\ r.step \in Nat
  /\ r.pc = "act" => r.step = run[c].step

Used(c, r, first) ==
  /\ run[c].pc \in {"act", "respond"} /\ r.pc \notin {"act", "respond"}
  /\ \E e \in AuditRecord : first = <<e>> /\ Tries(e, run[c].step)

Held(c, r, first) ==
  /\ run[c].pc = "act" /\ r.pc = "respond" /\ r.step = run[c].step
  /\ first = <<>>

Indifferent(r, first) ==
  /\ r.pc \notin {"act", "respond"}
  /\ first = <<>> \/ \E e : Plain(e) /\ first = <<e>>

Written(c, r, first, second) ==
  /\ Becomes(c, r) /\ Audits(c, first \o second)
  /\ second = <<>> \/ \E e : Plain(e) /\ second = <<e>>
  /\ \/ second = <<>> /\ (Granted(c, r, first) \/ Held(c, r, first))
     \/ Used(c, r, first)
     \/ Indifferent(r, first)

LEMMA PlaceClosing ==
  ASSUME NEW r \in RunState, NEW v
  PROVE  Closing(r, v).pc = "finish"
BY DEF Closing, RunState

LEMMA PlaceNext ==
  ASSUME NEW r \in RunState
  PROVE  NextStep(r).pc = "gate" /\ NextStep(r).step \in Nat
BY DEF NextStep, RunState

LEMMA EmptyRecords ==
  ASSUME NEW s
  PROVE  <<>> \o <<s>> = <<s>> /\ <<s>> \o <<>> = <<s>> /\ <<>> \o <<>> = <<>>
OBVIOUS

\* Nothing is written, or one plain record, and no permission is held after it.
LEMMA QuietWritten ==
  ASSUME NEW c \in Cases, NEW r, Becomes(c, r), r.pc \notin {"act", "respond"},
         NEW e, Plain(e), Audits(c, <<e>>) \/ Audits(c, <<>>)
  PROVE  \E s, first, second : Written(c, s, first, second)
<1>1. CASE Audits(c, <<e>>)
  <2>1. Written(c, r, <<e>>, <<>>)
    BY <1>1, EmptyRecords DEF Written, Indifferent
  <2>. QED
    BY <2>1
<1>2. CASE Audits(c, <<>>)
  <2>1. Written(c, r, <<>>, <<>>)
    BY <1>2, EmptyRecords DEF Written, Indifferent
  <2>. QED
    BY <2>1
<1>. QED
  BY <1>1, <1>2

LEMMA RunTyped ==
  ASSUME Inv, NEW c \in Cases
  PROVE  /\ run[c] \in RunState /\ run[c].step \in Nat
         /\ trail \in [Cases -> Seq(AuditRecord)] /\ info[c].id \in Cases
         /\ run[c].pc = "respond" => run[c].last \in Replies
         /\ run[c].pc = "finish" => run[c].verdict \in TerminalStates
BY CaseFacts DEF CaseInv, Stage, Inv, TypeOK

\* A step that audits nothing, whatever the trail was typed as.
LEMMA NothingAudited ==
  ASSUME Inv, NEW c \in Cases, trail' = trail
  PROVE  Audits(c, <<>>)
<1>1. trail[info[c].id] \in Seq(AuditRecord) /\ trail \in [Cases -> Seq(AuditRecord)]
  BY RunTyped
<1>2. trail[info[c].id] \o <<>> = trail[info[c].id]
  BY <1>1
<1>. QED
  BY <1>1, <1>2 DEF Audits

LEMMA PlanWrites ==
  ASSUME Inv, NEW c \in Cases, Plan(c)
  PROVE  \E r, first, second : Written(c, r, first, second)
<1>1. run[c] \in RunState
  BY RunTyped
<1>2. PICK r : Becomes(c, r) /\ r.pc \in {"finish", "prepare"}
  <2>1. ASSUME NEW plan
        PROVE  /\ [[run[c] EXCEPT !.plan = plan] EXCEPT !.pc = "prepare", !.state = "diagnosed",
                     !.playbook = plan.playbook].pc = "prepare"
               /\ Closing([run[c] EXCEPT !.plan = plan], "abandoned").pc = "finish"
               /\ Closing([run[c] EXCEPT !.plan = plan], "escalated").pc = "finish"
    BY <1>1 DEF RunState, Closing
  <2>. QED
    BY <2>1 DEF Plan
<1>. DEFINE d == Record("DIAGNOSE", 0, None)
            p == Record("PLAN", 0, None)
<1>3. Plain(d) /\ Plain(p)
  BY PlainRecords DEF AuditStages
<1>4. \/ Audits(c, <<d>> \o <<p>>) \/ Audits(c, <<p>>) \/ Audits(c, <<>>)
  <2>1. <<d, p>> = <<d>> \o <<p>>
    OBVIOUS
  <2>. QED
    BY <2>1 DEF Plan
<1>. HIDE DEF d, p
<1>5. CASE Audits(c, <<d>> \o <<p>>)
  <2>1. Written(c, r, <<d>>, <<p>>)
    BY <1>2, <1>3, <1>5 DEF Written, Indifferent
  <2>. QED
    BY <2>1
<1>. QED
  BY <1>2, <1>3, <1>4, <1>5, QuietWritten

LEMMA DecideWrites ==
  ASSUME Inv, NEW c \in Cases, Decide(c)
  PROVE  \E r, first, second : Written(c, r, first, second)
<1>1. run[c] \in RunState /\ run[c].step \in Nat /\ run[c].pc = "gate"
  BY RunTyped DEF Decide, StepsLeft
<1>2. CASE Gate(c)
  <2>. DEFINE r == AfterDecision(c)
              first == <<Record("DECIDE", run[c].step, "allowed")>>
  <2>1. Becomes(c, r) /\ Audits(c, first)
    BY <1>2 DEF Decide
  <2>2. r.pc \in {"act", "gate"} /\ r.step \in Nat /\ (r.pc = "act" => r.step = run[c].step)
    <3>1. ~info[c].kill
      BY <1>2 DEF Gate, Allowed
    <3>2. CASE ~info[c].dryRun
      <4>1. r = [run[c] EXCEPT !.pc = "act"]
        BY <1>2, <3>1, <3>2 DEF AfterDecision
      <4>. QED
        BY <1>1, <4>1 DEF RunState
    <3>3. CASE info[c].dryRun
      <4>1. r = NextStep(run[c])
        BY <3>1, <3>3 DEF AfterDecision
      <4>. QED
        BY <1>1, <4>1, PlaceNext
    <3>. QED
      BY <3>2, <3>3
  <2>. HIDE DEF r
  <2>3. Granted(c, r, first)
    BY <1>1, <2>2 DEF Granted
  <2>4. Audits(c, first \o <<>>)
    BY <2>1
  <2>5. Written(c, r, first, <<>>)
    BY <2>1, <2>3, <2>4 DEF Written
  <2>. QED
    BY <2>5
<1>3. CASE ~Gate(c)
  <2>1. AfterDecision(c).pc \in {"finish", "gate"}
    BY <1>1, <1>3, PlaceClosing, PlaceNext DEF AfterDecision
  <2>2. Plain(Record("DECIDE", run[c].step, "blocked"))
    BY <1>1, PlainRecords DEF AuditStages
  <2>3. /\ Becomes(c, AfterDecision(c))
        /\ Audits(c, <<Record("DECIDE", run[c].step, "blocked")>>)
    BY <1>3 DEF Decide
  <2>. QED
    BY <2>1, <2>2, <2>3, QuietWritten
<1>. QED
  BY <1>2, <1>3

LEMMA ActFailsWrites ==
  ASSUME Inv, NEW c \in Cases, ActFails(c)
  PROVE  \E r, first, second : Written(c, r, first, second)
<1>1. run[c] \in RunState /\ run[c].step \in Nat /\ run[c].pc = "act"
  BY RunTyped DEF ActFails
<1>. DEFINE r == [NextStep(run[c]) EXCEPT !.failed = TRUE]
            e == Record("ACT_FAILED", run[c].step, None)
<1>2. r.pc = "gate"
  BY <1>1 DEF NextStep, RunState
<1>3. Becomes(c, r) /\ Audits(c, <<e>>)
  BY DEF ActFails
<1>4. e \in AuditRecord /\ Tries(e, run[c].step)
  BY <1>1, RecordTyped DEF AuditStages, Tries, Record
<1>. HIDE DEF r, e
<1>5. Written(c, r, <<e>>, <<>>)
  BY <1>1, <1>2, <1>3, <1>4, EmptyRecords DEF Written, Used
<1>. QED
  BY <1>5

LEMMA ExecuteWrites ==
  ASSUME Inv, NEW c \in Cases, Execute(c)
  PROVE  \E r, first, second : Written(c, r, first, second)
<1>1. run[c] \in RunState /\ run[c].pc = "act"
  BY RunTyped DEF Execute
<1>2. PICK r : Becomes(c, r) /\ r.step = run[c].step /\ r.pc = "respond"
  <2>. DEFINE action == NextAction(c)
              touch == IF IsContact(action) THEN <<run[c].now>> ELSE <<>>
              act == [kind |-> action.kind, channel |-> action.channel, at |-> run[c].now]
              r == [run[c] EXCEPT !.pc = "respond", !.state = "intervening",
                      !.attempts = @ + 1, !.hist = @ \o touch,
                      !.executed = Append(@, act), !.last = Reply(c),
                      !.lastChannel = IF IsContact(action) THEN action.channel ELSE @]
  <2>1. Becomes(c, r)
    BY DEF Execute
  <2>2. r.step = run[c].step /\ r.pc = "respond"
    BY <1>1 DEF RunState
  <2>. HIDE DEF r
  <2>. QED
    BY <2>1, <2>2
<1>3. Audits(c, <<>> \o <<>>)
  BY NothingAudited, EmptyRecords DEF Execute
<1>4. Written(c, r, <<>>, <<>>)
  BY <1>1, <1>2, <1>3 DEF Written, Held
<1>. QED
  BY <1>4

LEMMA HearBackWrites ==
  ASSUME Inv, NEW c \in Cases, HearBack(c)
  PROVE  \E r, first, second : Written(c, r, first, second)
<1>1. /\ run[c] \in RunState /\ run[c].step \in Nat /\ run[c].last \in Replies
      /\ run[c].pc = "respond"
  BY RunTyped DEF HearBack
<1>2. PICK r : Becomes(c, r) /\ r.pc \in {"finish", "gate"}
  <2>1. [NextStep(run[c]) EXCEPT !.state = "waiting"].pc = "gate"
    BY <1>1 DEF NextStep, RunState
  <2>. QED
    BY <1>1, <2>1, PlaceClosing DEF HearBack, AfterReply
<1>. DEFINE e == Record("ACT", run[c].step, run[c].last)
            p == Record("PROMISE_TO_PAY", run[c].step, None)
<1>3. e \in AuditRecord /\ Tries(e, run[c].step) /\ Plain(p)
  BY <1>1, RecordTyped, PlainRecords DEF AuditStages, Tries, Record
<1>4. \E second \in {<<>>, <<p>>} : Audits(c, <<e>> \o second)
  BY DEF HearBack
<1>. HIDE DEF e, p
<1>5. Used(c, r, <<e>>)
  BY <1>1, <1>2, <1>3 DEF Used
<1>6. PICK second \in {<<>>, <<p>>} : Audits(c, <<e>> \o second)
  BY <1>4
<1>7. Written(c, r, <<e>>, second)
  BY <1>2, <1>3, <1>5, <1>6 DEF Written
<1>. QED
  BY <1>7

LEMMA StepWritten ==
  ASSUME Inv, NEW c \in Cases, Step(c)
  PROVE  \E r, first, second : Written(c, r, first, second)
<1>1. /\ run[c] \in RunState /\ run[c].step \in Nat
      /\ run[c].pc = "finish" => run[c].verdict \in TerminalStates
  BY RunTyped
<1>. DEFINE detect == Record("DETECT", 0, None)
<1>2. Plain(detect)
  BY PlainRecords DEF AuditStages
<1>3. CASE Start(c)
  <2>1. [run[c] EXCEPT !.pc = "plan"].pc = "plan"
    BY <1>1 DEF RunState
  <2>2. PICK r : Becomes(c, r) /\ r.pc \in {"plan", "finish"}
    BY <1>1, <1>3, <2>1, PlaceClosing DEF Start
  <2>. QED
    BY <1>2, <1>3, <2>2, QuietWritten DEF Start
<1>4. CASE Prepare(c)
  <2>. DEFINE r == [run[c] EXCEPT !.pc = "gate", !.state = "planned",
                                  !.hist = ContactHistory(c)]
  <2>1. r.pc = "gate"
    BY <1>1 DEF RunState
  <2>2. Becomes(c, r) /\ trail' = trail
    BY <1>4 DEF Prepare
  <2>. HIDE DEF r
  <2>. QED
    BY <1>2, <2>1, <2>2, QuietWritten, NothingAudited
<1>5. CASE Defer(c)
  <2>1. Plain(Record("DEFERRED", run[c].step, None))
    BY <1>1, PlainRecords DEF AuditStages
  <2>. QED
    BY <1>1, <1>5, <2>1, PlaceNext, QuietWritten DEF Defer
<1>6. CASE Exhaust(c)
  BY <1>1, <1>2, <1>6, PlaceClosing, QuietWritten, NothingAudited DEF Exhaust
<1>7. CASE Finish(c)
  <2>. DEFINE r == [run[c] EXCEPT !.pc = "done", !.state = run[c].verdict]
  <2>1. r.pc = "done"
    BY <1>1 DEF RunState
  <2>2. Becomes(c, r)
    BY <1>7 DEF Finish
  <2>. HIDE DEF r
  <2>3. Plain(Record("OUTCOME", 0, run[c].verdict))
    BY <1>1, <1>7, PlainRecords DEF AuditStages, Finish
  <2>4. Audits(c, <<Record("OUTCOME", 0, run[c].verdict)>>)
    BY <1>7 DEF Finish
  <2>. QED
    BY <2>1, <2>2, <2>3, <2>4, QuietWritten
<1>8. CASE Crash(c)
  <2>1. Fresh(info[c]).pc = "new"
    BY DEF Fresh
  <2>. QED
    BY <1>2, <1>8, <2>1, QuietWritten, NothingAudited DEF Crash
<1>. QED
  BY <1>3, <1>4, <1>5, <1>6, <1>7, <1>8, PlanWrites, DecideWrites, ActFailsWrites,
     ExecuteWrites, HearBackWrites DEF Step, Handle

(***************************************************************************)
(* A trail that one handler writes.                                        *)
(***************************************************************************)
Permits(t, step) == t # <<>> /\ t[Len(t)] = Record("DECIDE", step, "allowed")

\* Every attempt of a trail stands behind the DECIDE that allowed it.
Ordered(t) ==
  \A i \in DOMAIN t :
    t[i].stage \in {"ACT", "ACT_FAILED"} =>
      i > 1 /\ t[i - 1] = Record("DECIDE", t[i].step, "allowed")

\* A handler that is about to act, or has acted, has just been permitted to.
Trails ==
  \A id \in Cases : HandledAlone(id) =>
    /\ Ordered(trail[id])
    /\ info[id].id = id /\ run[id].pc \in {"act", "respond"} => Permits(trail[id], run[id].step)

\* One more record leaves a trail ordered if it is no attempt or a permitted one.
LEMMA OneMore ==
  ASSUME NEW t \in Seq(AuditRecord), Ordered(t), NEW e \in AuditRecord,
         e.stage \in {"ACT", "ACT_FAILED"} => Permits(t, e.step)
  PROVE  /\ t \o <<e>> \in Seq(AuditRecord) /\ Ordered(t \o <<e>>)
         /\ (t \o <<e>>)[Len(t \o <<e>>)] = e /\ t \o <<e>> # <<>>
<1>. DEFINE more == t \o <<e>>
<1>1. /\ more \in Seq(AuditRecord) /\ Len(t) \in Nat /\ Len(more) = Len(t) + 1
      /\ DOMAIN more = 1..(Len(t) + 1) /\ more[Len(t) + 1] = e
      /\ \A i \in 1..Len(t) : more[i] = t[i]
      /\ DOMAIN t = 1..Len(t)
  OBVIOUS
<1>. HIDE DEF more
<1>2. more # <<>>
  BY <1>1
<1>3. ASSUME NEW i \in DOMAIN more, more[i].stage \in {"ACT", "ACT_FAILED"}
      PROVE  i > 1 /\ more[i - 1] = Record("DECIDE", more[i].step, "allowed")
  <2>1. CASE i \in 1..Len(t)
    <3>1. i > 1 /\ t[i - 1] = Record("DECIDE", t[i].step, "allowed")
      BY <1>1, <1>3, <2>1 DEF Ordered
    <3>. QED
      BY <1>1, <2>1, <3>1
  <2>2. CASE i = Len(t) + 1
    <3>1. t # <<>> /\ t[Len(t)] = Record("DECIDE", e.step, "allowed")
      BY <1>1, <1>3, <2>2 DEF Permits
    <3>2. Len(t) > 0
      BY <3>1, <1>1
    <3>. QED
      BY <1>1, <2>2, <3>1, <3>2
  <2>. QED
    BY <1>1, <2>1, <2>2
<1>. QED
  BY <1>1, <1>2, <1>3 DEF Ordered, more

LEMMA OneWritten ==
  ASSUME NEW t \in Seq(AuditRecord), Ordered(t), NEW s, s = <<>> \/ \E e : Plain(e) /\ s = <<e>>
  PROVE  t \o s \in Seq(AuditRecord) /\ Ordered(t \o s) /\ (s = <<>> => t \o s = t)
<1>1. CASE s = <<>>
  BY <1>1
<1>2. CASE \E e : Plain(e) /\ s = <<e>>
  <2>1. PICK e : Plain(e) /\ s = <<e>>
    BY <1>2
  <2>. QED
    BY <2>1, OneMore DEF Plain
<1>. QED
  BY <1>1, <1>2

LEMMA RecordsAssociate ==
  ASSUME NEW t \in Seq(AuditRecord), NEW u \in Seq(AuditRecord), NEW v \in Seq(AuditRecord)
  PROVE  t \o (u \o v) = (t \o u) \o v
<1>. DEFINE S == AuditRecord
<1>1. t \in Seq(S) /\ u \in Seq(S) /\ v \in Seq(S)
  OBVIOUS
<1>. HIDE DEF S
<1>. QED
  BY <1>1, ConcatAssociative

\* What a step writes is appended to the trail of its own id, in that order.
LEMMA Appended ==
  ASSUME Inv, NEW c \in Cases, NEW r, NEW first, NEW second, Written(c, r, first, second)
  PROVE  /\ first \in Seq(AuditRecord) /\ second \in Seq(AuditRecord)
         /\ trail'[info[c].id] = (trail[info[c].id] \o first) \o second
         /\ \A id \in Cases : id # info[c].id => trail'[id] = trail[id]
         /\ run'[c] = r /\ \A d \in Cases : d # c => run'[d] = run[d]
<1>1. /\ trail \in [Cases -> Seq(AuditRecord)] /\ info[c].id \in Cases
      /\ run \in [Cases -> RunState] /\ run[c].step \in Nat
  BY RunTyped DEF Inv, TypeOK
<1>2. \A e : Plain(e) => e \in AuditRecord
  BY DEF Plain
<1>3. Record("DECIDE", run[c].step, "allowed") \in AuditRecord
  BY <1>1, RecordTyped DEF AuditStages
<1>4. first \in Seq(AuditRecord) /\ second \in Seq(AuditRecord)
  <2>1. \A s : s = <<>> \/ (\E e \in AuditRecord : s = <<e>>) => s \in Seq(AuditRecord)
    <3>1. ASSUME NEW e \in AuditRecord
          PROVE  <<e>> \in Seq(AuditRecord)
      OBVIOUS
    <3>2. <<>> \in Seq(AuditRecord)
      OBVIOUS
    <3>. QED
      BY <3>1, <3>2
  <2>2. second = <<>> \/ \E e \in AuditRecord : second = <<e>>
    BY <1>2 DEF Written
  <2>3. first = <<>> \/ \E e \in AuditRecord : first = <<e>>
    BY <1>2, <1>3 DEF Written, Granted, Used, Held, Indifferent
  <2>. QED
    BY <2>1, <2>2, <2>3
<1>5. trail' = [trail EXCEPT ![info[c].id] = trail[info[c].id] \o (first \o second)]
  BY DEF Written, Audits
<1>6. trail[info[c].id] \o (first \o second) = (trail[info[c].id] \o first) \o second
  BY <1>1, <1>4, RecordsAssociate
<1>. QED
  BY <1>1, <1>4, <1>5, <1>6 DEF Written, Becomes

LEMMA TrailsStep == Inv /\ Trails /\ [Next]_vars => Trails'
<1>. SUFFICES ASSUME Inv, Trails, [Next]_vars PROVE Trails'
  OBVIOUS
<1>1. ASSUME NEW c \in Cases, Step(c)
      PROVE  Trails'
  <2>. SUFFICES ASSUME NEW id \in Cases, HandledAlone(id)
                PROVE  /\ Ordered(trail'[id])
                       /\ info[id].id = id /\ run'[id].pc \in {"act", "respond"}
                            => Permits(trail'[id], run'[id].step)
    BY <1>1, StepWrites DEF Trails, HandledAlone
  <2>1. PICK r, first, second : Written(c, r, first, second)
    BY <1>1, StepWritten
  <2>2. /\ first \in Seq(AuditRecord) /\ second \in Seq(AuditRecord)
        /\ trail'[info[c].id] = (trail[info[c].id] \o first) \o second
        /\ \A k \in Cases : k # info[c].id => trail'[k] = trail[k]
        /\ run'[c] = r /\ \A d \in Cases : d # c => run'[d] = run[d]
    BY <2>1, Appended
  <2>3. /\ Ordered(trail[id]) /\ trail[id] \in Seq(AuditRecord)
        /\ info[id].id = id /\ run[id].pc \in {"act", "respond"}
             => Permits(trail[id], run[id].step)
    BY RunTyped DEF Trails
  <2>4. CASE info[c].id # id
    BY <2>2, <2>3, <2>4
  <2>5. CASE info[c].id = id
    <3>1. c = id
      BY <2>5 DEF HandledAlone
    <3>. DEFINE t == trail[c] \o first
    <3>2. t \in Seq(AuditRecord)
      BY <2>2, <2>3, <3>1
    <3>3. trail'[c] = t \o second
      BY <2>2, <2>5, <3>1
    <3>4. SUFFICES /\ Ordered(t)
                   /\ r.pc \in {"act", "respond"} => second = <<>> /\ Permits(t, r.step)
      <4>. HIDE DEF t
      <4>1. Ordered(t) => Ordered(t \o second) /\ (second = <<>> => t \o second = t)
        BY <2>1, <3>2, OneWritten DEF Written
      <4>. QED
        BY <2>2, <3>1, <3>3, <4>1
    <3>5. CASE second = <<>> /\ Granted(c, r, first)
      <4>1. run[c].step \in Nat
        BY RunTyped
      <4>. DEFINE e == Record("DECIDE", run[c].step, "allowed")
      <4>2. e \in AuditRecord /\ e.stage = "DECIDE"
        BY <4>1, RecordTyped DEF AuditStages, Record
      <4>3. t = trail[c] \o <<e>> /\ (r.pc \in {"act", "respond"} => r.step = run[c].step)
        BY <3>5 DEF Granted
      <4>. HIDE DEF t, e
      <4>4. Ordered(t) /\ t[Len(t)] = e /\ t # <<>>
        BY <2>3, <3>1, <4>2, <4>3, OneMore
      <4>. QED
        BY <3>5, <4>3, <4>4 DEF Permits, e
    <3>6. CASE Used(c, r, first)
      BY <2>3, <2>5, <3>1, <3>6, OneMore DEF Used, Tries
    <3>7. CASE second = <<>> /\ Held(c, r, first)
      <4>1. t = trail[c] /\ Permits(trail[c], r.step)
        BY <2>3, <2>5, <3>1, <3>7 DEF Held
      <4>. QED
        BY <2>3, <3>1, <3>7, <4>1
    <3>8. CASE Indifferent(r, first)
      BY <2>3, <3>1, <3>8, OneWritten DEF Indifferent
    <3>. QED
      BY <2>1, <3>5, <3>6, <3>7, <3>8 DEF Written
  <2>. QED
    BY <2>4, <2>5
<1>2. CASE UNCHANGED <<info, run, trail>>
  BY <1>2 DEF Trails, HandledAlone
<1>. QED
  BY <1>1, <1>2 DEF Step, Next, MarkOutage, ClearOutage, AllDone, vars

(***************************************************************************)
(* A trail that several handlers write: each attempt, and each permission  *)
(* a handler still holds, has a permission of its own.                     *)
(***************************************************************************)
Bit(b) == IF b THEN 1 ELSE 0

AttemptsIn(t, step, n) ==
  {i \in 1..n : t[i].stage \in {"ACT", "ACT_FAILED"} /\ t[i].step = step}

PermissionsIn(t, step, n) == {i \in 1..n : t[i] = Record("DECIDE", step, "allowed")}

\* The handlers of one id that hold the permission to take a step.
Holders(id, step) == {c \in Cases : info[c].id = id /\ Holds(run[c], step)}

\* No prefix of a trail has more attempts than permissions, and the whole of it
\* leaves `held` permissions unused.
Balanced(t, step, held) ==
  /\ \A n \in 0..Len(t) : Attempts(t, step, n) <= Permissions(t, step, n)
  /\ Attempts(t, step, Len(t)) + held <= Permissions(t, step, Len(t))

Covered ==
  \A id \in Cases, step \in Nat :
    Balanced(trail[id], step, Cardinality(Holders(id, step)))

LEMMA CountsTyped ==
  ASSUME NEW t, NEW step, NEW n \in Nat
  PROVE  /\ IsFiniteSet(AttemptsIn(t, step, n)) /\ IsFiniteSet(PermissionsIn(t, step, n))
         /\ Attempts(t, step, n) = Cardinality(AttemptsIn(t, step, n))
         /\ Permissions(t, step, n) = Cardinality(PermissionsIn(t, step, n))
         /\ Attempts(t, step, n) \in Nat /\ Permissions(t, step, n) \in Nat
<1>1. IsFiniteSet(1..n)
  BY FS_Interval
<1>2. AttemptsIn(t, step, n) \in SUBSET (1..n) /\ PermissionsIn(t, step, n) \in SUBSET (1..n)
  BY DEF AttemptsIn, PermissionsIn
<1>3. IsFiniteSet(AttemptsIn(t, step, n)) /\ IsFiniteSet(PermissionsIn(t, step, n))
  BY <1>1, <1>2, FS_Subset
<1>4. /\ Attempts(t, step, n) = Cardinality(AttemptsIn(t, step, n))
      /\ Permissions(t, step, n) = Cardinality(PermissionsIn(t, step, n))
  BY DEF Attempts, Permissions, AttemptsIn, PermissionsIn
<1>. QED
  BY <1>3, <1>4, FS_CardinalityType

\* A set that gains the next number, or does not, grows by one or by none.
LEMMA OneMoreCounted ==
  ASSUME NEW n \in Nat, NEW S \in SUBSET (1..n), NEW T, NEW b \in BOOLEAN,
         T = IF b THEN S \cup {n + 1} ELSE S
  PROVE  Cardinality(T) = Cardinality(S) + Bit(b)
<1>1. IsFiniteSet(S)
  <2>1. IsFiniteSet(1..n)
    BY FS_Interval
  <2>. QED
    BY <2>1, FS_Subset
<1>2. n + 1 \notin S
  OBVIOUS
<1>. QED
  BY <1>1, <1>2, FS_AddElement, FS_CardinalityType DEF Bit

\* What one more record adds.
LEMMA CountRecord ==
  ASSUME NEW t \in Seq(AuditRecord), NEW e \in AuditRecord, NEW step
  PROVE  /\ Len(t) \in Nat /\ Len(t \o <<e>>) = Len(t) + 1
         /\ \A n \in 0..Len(t) :
              /\ Attempts(t \o <<e>>, step, n) = Attempts(t, step, n)
              /\ Permissions(t \o <<e>>, step, n) = Permissions(t, step, n)
         /\ Attempts(t \o <<e>>, step, Len(t) + 1)
              = Attempts(t, step, Len(t)) + Bit(Tries(e, step))
         /\ Permissions(t \o <<e>>, step, Len(t) + 1)
              = Permissions(t, step, Len(t)) + Bit(Allows(e, step))
<1>. DEFINE more == t \o <<e>>
<1>1. /\ Len(t) \in Nat /\ Len(more) = Len(t) + 1 /\ more[Len(t) + 1] = e
      /\ \A i \in 1..Len(t) : more[i] = t[i]
  OBVIOUS
<1>. HIDE DEF more
<1>2. ASSUME NEW n \in 0..Len(t)
      PROVE  /\ Attempts(more, step, n) = Attempts(t, step, n)
             /\ Permissions(more, step, n) = Permissions(t, step, n)
  <2>1. n \in Nat /\ \A i \in 1..n : more[i] = t[i]
    BY <1>1
  <2>2. AttemptsIn(more, step, n) = AttemptsIn(t, step, n)
    BY <2>1 DEF AttemptsIn
  <2>3. PermissionsIn(more, step, n) = PermissionsIn(t, step, n)
    BY <2>1 DEF PermissionsIn
  <2>. QED
    BY <2>1, <2>2, <2>3, CountsTyped
<1>. DEFINE n == Len(t)
<1>3. Tries(e, step) \in BOOLEAN /\ Allows(e, step) \in BOOLEAN
  BY DEF Tries, Allows
<1>4. Attempts(more, step, n + 1) = Attempts(t, step, n) + Bit(Tries(e, step))
  <2>1. AttemptsIn(t, step, n) \in SUBSET (1..n)
    BY DEF AttemptsIn
  <2>2. AttemptsIn(more, step, n + 1)
          = IF Tries(e, step) THEN AttemptsIn(t, step, n) \cup {n + 1}
            ELSE AttemptsIn(t, step, n)
    BY <1>1 DEF AttemptsIn, Tries
  <2>. HIDE DEF n
  <2>3. n \in Nat /\ n + 1 \in Nat
    BY <1>1 DEF n
  <2>4. Cardinality(AttemptsIn(more, step, n + 1))
          = Cardinality(AttemptsIn(t, step, n)) + Bit(Tries(e, step))
    BY <1>3, <2>1, <2>2, <2>3, OneMoreCounted
  <2>. QED
    BY <2>3, <2>4, CountsTyped
<1>5. Permissions(more, step, n + 1) = Permissions(t, step, n) + Bit(Allows(e, step))
  <2>1. PermissionsIn(t, step, n) \in SUBSET (1..n)
    BY DEF PermissionsIn
  <2>2. PermissionsIn(more, step, n + 1)
          = IF Allows(e, step) THEN PermissionsIn(t, step, n) \cup {n + 1}
            ELSE PermissionsIn(t, step, n)
    BY <1>1 DEF PermissionsIn, Allows
  <2>. HIDE DEF n
  <2>3. n \in Nat /\ n + 1 \in Nat
    BY <1>1 DEF n
  <2>4. Cardinality(PermissionsIn(more, step, n + 1))
          = Cardinality(PermissionsIn(t, step, n)) + Bit(Allows(e, step))
    BY <1>3, <2>1, <2>2, <2>3, OneMoreCounted
  <2>. QED
    BY <2>3, <2>4, CountsTyped
<1>. QED
  BY <1>1, <1>2, <1>4, <1>5 DEF more

\* A record keeps a trail balanced if an attempt uses up a permission that was
\* held, and every permission taken into hand is written down.
LEMMA BalancedRecord ==
  ASSUME NEW t \in Seq(AuditRecord), NEW e \in AuditRecord, NEW step,
         NEW h \in Nat, NEW k \in Nat, Balanced(t, step, h),
         k + Bit(Tries(e, step)) <= h + Bit(Allows(e, step))
  PROVE  Balanced(t \o <<e>>, step, k)
<1>. DEFINE n == Len(t)
            more == t \o <<e>>
            a == Bit(Tries(e, step))
            p == Bit(Allows(e, step))
<1>1. /\ n \in Nat /\ Len(more) = n + 1
      /\ \A i \in 0..n : /\ Attempts(more, step, i) = Attempts(t, step, i)
                         /\ Permissions(more, step, i) = Permissions(t, step, i)
      /\ Attempts(more, step, n + 1) = Attempts(t, step, n) + a
      /\ Permissions(more, step, n + 1) = Permissions(t, step, n) + p
  BY CountRecord
<1>2. a \in Nat /\ p \in Nat /\ k + a <= h + p
  BY DEF Bit
<1>. HIDE DEF n, more, a, p
<1>3. Attempts(t, step, n) \in Nat /\ Permissions(t, step, n) \in Nat
  BY <1>1, CountsTyped
<1>4. /\ \A i \in 0..n : Attempts(t, step, i) <= Permissions(t, step, i)
      /\ Attempts(t, step, n) + h <= Permissions(t, step, n)
  BY DEF Balanced, n
<1>5. Attempts(more, step, n + 1) + k <= Permissions(more, step, n + 1)
  BY <1>1, <1>2, <1>3, <1>4
<1>6. Attempts(more, step, n + 1) <= Permissions(more, step, n + 1)
  BY <1>1, <1>2, <1>3, <1>5
<1>7. \A i \in 0..(n + 1) : Attempts(more, step, i) <= Permissions(more, step, i)
  BY <1>1, <1>4, <1>6
<1>. QED
  BY <1>1, <1>5, <1>7 DEF Balanced, more

LEMMA BalancedLess ==
  ASSUME NEW t \in Seq(AuditRecord), NEW step, NEW h \in Nat, NEW k \in Nat,
         Balanced(t, step, h), k <= h
  PROVE  Balanced(t, step, k)
<1>1. Len(t) \in Nat
  OBVIOUS
<1>2. Attempts(t, step, Len(t)) \in Nat /\ Permissions(t, step, Len(t)) \in Nat
  BY <1>1, CountsTyped
<1>. QED
  BY <1>2 DEF Balanced

\* Nothing, or a plain record, changes no balance.
LEMMA BalancedPlain ==
  ASSUME NEW t \in Seq(AuditRecord), NEW step, NEW h \in Nat, NEW k \in Nat,
         Balanced(t, step, h), k <= h, NEW s, s = <<>> \/ \E e : Plain(e) /\ s = <<e>>
  PROVE  Balanced(t \o s, step, k)
<1>1. CASE s = <<>>
  <2>1. t \o s = t
    BY <1>1
  <2>. QED
    BY <2>1, BalancedLess
<1>2. CASE \E e : Plain(e) /\ s = <<e>>
  <2>1. PICK e : Plain(e) /\ s = <<e>>
    BY <1>2
  <2>2. e \in AuditRecord /\ Bit(Tries(e, step)) = 0 /\ Bit(Allows(e, step)) = 0
    BY <2>1, PlainRecord DEF Bit
  <2>. QED
    BY <2>1, <2>2, BalancedRecord
<1>. QED
  BY <1>1, <1>2

\* A step of one handler takes at most that handler in or out.
LEMMA HoldersCounted ==
  ASSUME Inv, NEW c \in Cases, NEW r, NEW step, info' = info, run'[c] = r,
         \A d \in Cases : d # c => run'[d] = run[d], NEW id \in Cases
  PROVE  /\ Cardinality(Holders(id, step)) \in Nat
         /\ Cardinality(Holders(id, step)') \in Nat
         /\ info[c].id # id => Holders(id, step)' = Holders(id, step)
         /\ info[c].id = id =>
              Cardinality(Holders(id, step)') + Bit(Holds(run[c], step))
                = Cardinality(Holders(id, step)) + Bit(Holds(r, step))
<1>. DEFINE others == Holders(id, step) \ {c}
<1>1. Holders(id, step)' = {d \in Cases : info[d].id = id /\ Holds(run'[d], step)}
  BY DEF Holders
<1>2. info[c].id # id => Holders(id, step)' = Holders(id, step)
  BY <1>1 DEF Holders
<1>3. IsFiniteSet(Holders(id, step))
  <2>1. IsFiniteSet(Cases) /\ Holders(id, step) \in SUBSET Cases
    BY FlowAssumption DEF Holders
  <2>. QED
    BY <2>1, FS_Subset
<1>4. IsFiniteSet(others) /\ c \notin others
  BY <1>3, FS_RemoveElement
<1>5. info[c].id = id =>
        /\ Holders(id, step) = IF Holds(run[c], step) THEN others \cup {c} ELSE others
        /\ Holders(id, step)' = IF Holds(r, step) THEN others \cup {c} ELSE others
  BY <1>1 DEF Holders
<1>. HIDE DEF others
<1>6. /\ Cardinality(others) \in Nat
      /\ IsFiniteSet(others \cup {c}) /\ Cardinality(others \cup {c}) = Cardinality(others) + 1
  BY <1>4, FS_AddElement, FS_CardinalityType
<1>7. Cardinality(Holders(id, step)) \in Nat
  BY <1>3, FS_CardinalityType
<1>8. CASE info[c].id = id
  <2>1. /\ Cardinality(Holders(id, step)) = Cardinality(others) + Bit(Holds(run[c], step))
        /\ Bit(Holds(run[c], step)) \in {0, 1}
    <3>1. CASE Holds(run[c], step)
      <4>1. Holders(id, step) = others \cup {c} /\ Bit(Holds(run[c], step)) = 1
        BY <1>5, <1>8, <3>1 DEF Bit
      <4>. QED
        BY <1>6, <4>1
    <3>2. CASE ~Holds(run[c], step)
      <4>1. Holders(id, step) = others /\ Bit(Holds(run[c], step)) = 0
        BY <1>5, <1>8, <3>2 DEF Bit
      <4>. QED
        BY <1>6, <4>1
    <3>. QED
      BY <3>1, <3>2
  <2>2. /\ Cardinality(Holders(id, step)') = Cardinality(others) + Bit(Holds(r, step))
        /\ Bit(Holds(r, step)) \in {0, 1}
    <3>1. CASE Holds(r, step)
      <4>1. Holders(id, step)' = others \cup {c} /\ Bit(Holds(r, step)) = 1
        BY <1>5, <1>8, <3>1 DEF Bit
      <4>. QED
        BY <1>6, <4>1
    <3>2. CASE ~Holds(r, step)
      <4>1. Holders(id, step)' = others /\ Bit(Holds(r, step)) = 0
        BY <1>5, <1>8, <3>2 DEF Bit
      <4>. QED
        BY <1>6, <4>1
    <3>. QED
      BY <3>1, <3>2
  <2>. HIDE DEF Holders
  <2>. QED
    BY <1>6, <1>8, <2>1, <2>2
<1>. QED
  BY <1>2, <1>7, <1>8

LEMMA CoveredInit == Init => Covered
<1>. SUFFICES ASSUME Init, NEW id \in Cases, NEW step \in Nat
              PROVE  Balanced(<<>>, step, Cardinality(Holders(id, step)))
  BY DEF Covered, Init
<1>1. Holders(id, step) = {}
  BY DEF Init, Holders, Holds, Fresh
<1>2. AttemptsIn(<<>>, step, 0) = {} /\ PermissionsIn(<<>>, step, 0) = {}
  BY DEF AttemptsIn, PermissionsIn
<1>3. Attempts(<<>>, step, 0) = 0 /\ Permissions(<<>>, step, 0) = 0
  BY <1>2, CountsTyped, FS_EmptySet
<1>4. Len(<<>>) = 0 /\ Cardinality({}) = 0
  BY FS_EmptySet
<1>. QED
  BY <1>1, <1>3, <1>4 DEF Balanced

LEMMA CoveredStep == Inv /\ Covered /\ [Next]_vars => Covered'
<1>. SUFFICES ASSUME Inv, Covered, [Next]_vars PROVE Covered'
  OBVIOUS
<1>1. ASSUME NEW c \in Cases, Step(c)
      PROVE  Covered'
  <2>. SUFFICES ASSUME NEW id \in Cases, NEW step \in Nat
                PROVE  Balanced(trail'[id], step, Cardinality(Holders(id, step)'))
    BY DEF Covered
  <2>1. PICK r, first, second : Written(c, r, first, second)
    BY <1>1, StepWritten
  <2>2. /\ first \in Seq(AuditRecord) /\ second \in Seq(AuditRecord)
        /\ trail'[info[c].id] = (trail[info[c].id] \o first) \o second
        /\ \A k \in Cases : k # info[c].id => trail'[k] = trail[k]
        /\ run'[c] = r /\ \A d \in Cases : d # c => run'[d] = run[d]
    BY <2>1, Appended
  <2>. DEFINE h == Cardinality(Holders(id, step))
              k == Cardinality(Holders(id, step)')
  <2>3. /\ h \in Nat /\ k \in Nat
        /\ info[c].id # id => k = h
        /\ info[c].id = id => k + Bit(Holds(run[c], step)) = h + Bit(Holds(r, step))
    BY <1>1, <2>2, StepWrites, HoldersCounted
  <2>. HIDE DEF h, k
  <2>4. Balanced(trail[id], step, h) /\ trail[id] \in Seq(AuditRecord)
    BY RunTyped DEF Covered, h
  <2>5. CASE info[c].id # id
    BY <2>2, <2>3, <2>4, <2>5 DEF k
  <2>6. CASE info[c].id = id
    <3>. DEFINE t == trail[id] \o first
    <3>1. t \in Seq(AuditRecord) /\ trail'[id] = t \o second
      BY <2>2, <2>4, <2>6
    <3>2. k + Bit(Holds(run[c], step)) = h + Bit(Holds(r, step))
      BY <2>3, <2>6
    <3>3. SUFFICES Balanced(t, step, k)
      <4>. HIDE DEF t
      <4>. QED
        BY <2>1, <2>3, <3>1, BalancedPlain DEF Written, k
    <3>4. CASE Granted(c, r, first)
      <4>1. run[c].step \in Nat
        BY RunTyped
      <4>. DEFINE e == Record("DECIDE", run[c].step, "allowed")
      <4>2. e \in AuditRecord /\ ~Tries(e, step)
        BY <4>1, RecordTyped DEF AuditStages, Record, Tries
      <4>3. ~Holds(run[c], step) /\ (Holds(r, step) => Allows(e, step))
        BY <3>4 DEF Granted, Holds, Allows
      <4>4. k + Bit(Tries(e, step)) <= h + Bit(Allows(e, step))
        BY <2>3, <3>2, <4>2, <4>3 DEF Bit
      <4>5. t = trail[id] \o <<e>>
        BY <3>4 DEF Granted
      <4>. HIDE DEF e, t
      <4>. QED
        BY <2>3, <2>4, <4>2, <4>4, <4>5, BalancedRecord
    <3>5. CASE Used(c, r, first)
      <4>1. PICK e \in AuditRecord : first = <<e>> /\ Tries(e, run[c].step)
        BY <3>5 DEF Used
      <4>2. ~Holds(r, step) /\ (Tries(e, step) => Holds(run[c], step))
        BY <3>5, <4>1 DEF Used, Holds, Tries
      <4>3. k + Bit(Tries(e, step)) <= h + Bit(Allows(e, step))
        BY <2>3, <3>2, <4>2 DEF Bit
      <4>4. t = trail[id] \o <<e>>
        BY <4>1
      <4>. HIDE DEF t
      <4>. QED
        BY <2>3, <2>4, <4>3, <4>4, BalancedRecord
    <3>6. CASE Held(c, r, first)
      <4>1. t = trail[id] /\ Holds(run[c], step) = Holds(r, step)
        BY <2>4, <3>6 DEF Held, Holds
      <4>2. k <= h
        BY <2>3, <3>2, <4>1 DEF Bit
      <4>. HIDE DEF t
      <4>. QED
        BY <2>3, <2>4, <4>1, <4>2, BalancedLess
    <3>7. CASE Indifferent(r, first)
      <4>1. ~Holds(r, step)
        BY <3>7 DEF Indifferent, Holds
      <4>2. k <= h
        BY <2>3, <3>2, <4>1 DEF Bit
      <4>. QED
        BY <2>3, <2>4, <3>7, <4>2, BalancedPlain DEF Indifferent
    <3>. QED
      BY <2>1, <3>4, <3>5, <3>6, <3>7 DEF Written
  <2>. QED
    BY <2>5, <2>6
<1>2. CASE UNCHANGED <<info, run, trail>>
  BY <1>2 DEF Covered, Holders
<1>. QED
  BY <1>1, <1>2 DEF Step, Next, MarkOutage, ClearOutage, AllDone, vars

\* However the handlers interleave, those of the same case included, and
\* wherever they break down: the trail of a case never holds more attempts at a
\* step than decisions that allowed it, and where no second handler was given
\* the case, every attempt stands right behind the decision that allowed it.
THEOREM EveryActGated == Spec => []GateNotBypassed
<1>1. Init => Trails
  BY DEF Init, Fresh, Trails, Ordered
<1>2. Inv /\ Trails /\ Covered => GateNotBypassed
  <2>. SUFFICES ASSUME Inv, Trails, Covered, NEW id \in Cases, NEW n \in DOMAIN trail[id],
                       trail[id][n].stage \in {"ACT", "ACT_FAILED"}
                PROVE  LET e == trail[id][n]
                       IN /\ Attempts(trail[id], e.step, n) <= Permissions(trail[id], e.step, n)
                          /\ HandledAlone(id) =>
                               n > 1 /\ trail[id][n - 1] = Record("DECIDE", e.step, "allowed")
    BY DEF GateNotBypassed
  <2>1. trail[id] \in Seq(AuditRecord)
    BY RunTyped
  <2>2. n \in 0..Len(trail[id]) /\ trail[id][n] \in AuditRecord
    BY <2>1
  <2>3. trail[id][n].step \in Nat
    BY <2>2 DEF AuditRecord
  <2>4. Balanced(trail[id], trail[id][n].step,
                 Cardinality(Holders(id, trail[id][n].step)))
    BY <2>3 DEF Covered
  <2>5. HandledAlone(id) => Ordered(trail[id])
    BY DEF Trails
  <2>. QED
    BY <2>2, <2>4, <2>5 DEF Balanced, Ordered
<1>. QED
  BY <1>1, <1>2, InvInit, InvStep, TrailsStep, CoveredInit, CoveredStep, PTL DEF Spec

(***************************************************************************)
(* Rules about contacts that need no lock: they rest on contacts that are  *)
(* never taken back, so that they hold for any number of threads, although *)
(* a case looks at a copy of its customer's history.                       *)
(***************************************************************************)
\* The check of the code, with its two cases, is the window round the clock.
LEMMA QuietWindow ==
  ASSUME NEW t \in Nat, ~InQuietHours(t)
  PROVE  (HourOfDay(t) - QuietStart) % 24 >= (QuietEnd - QuietStart) % 24
<1>1. HourOfDay(t) \in 0..23 /\ QuietStart \in 0..23 /\ QuietEnd \in 0..23
  BY PolicyAssumption DEF HourOfDay
<1>2. \A n \in -23..23 : n % 24 = IF n >= 0 THEN n ELSE n + 24
  OBVIOUS
<1>3. CASE QuietStart > QuietEnd
  <2>1. HourOfDay(t) < QuietStart /\ HourOfDay(t) >= QuietEnd
    BY <1>1, <1>3 DEF InQuietHours
  <2>. QED
    BY <1>1, <1>2, <1>3, <2>1
<1>4. CASE QuietStart <= QuietEnd
  <2>1. HourOfDay(t) < QuietStart \/ HourOfDay(t) >= QuietEnd
    BY <1>1, <1>4 DEF InQuietHours
  <2>. QED
    BY <1>1, <1>2, <1>4, <2>1
<1>. QED
  BY <1>1, <1>3, <1>4

Log(c) == contacts[info[c].customer]

IsDebit(c, kind) == kind = "retry" /\ info[c].type = "subscription_failure"

\* The copy holds only contacts that the store holds too.
Remembered(c) ==
  \A i \in DOMAIN run[c].hist : \E k \in DOMAIN Log(c) : Log(c)[k] = run[c].hist[i]

\* What a handler that is about to act was let through for.
Cleared(c) ==
  run[c].pc = "act" =>
    /\ IsDebit(c, NextAction(c).kind) => NoticeGiven(Log(c), run[c].now)
    /\ IsContact(NextAction(c)) => ~InQuietHours(run[c].now)

Noticed(c) ==
  \A i \in DOMAIN run[c].executed :
    IsDebit(c, run[c].executed[i].kind) => NoticeGiven(Log(c), run[c].executed[i].at)

CaseNoticed(c) == Remembered(c) /\ Cleared(c) /\ Noticed(c)

MandateInv == (\A c \in Cases : CaseNoticed(c)) /\ QuietHoursKept

\* What a step of a case adds to the contacts: the hour of an executed contact.
LEMMA ContactsGrow ==
  ASSUME Inv, NEW c \in Cases, Step(c)
  PROVE  \/ contacts' = contacts
         \/ /\ Execute(c) /\ IsContact(NextAction(c))
            /\ contacts' = [contacts EXCEPT ![info[c].customer] = @ \o <<run[c].now>>]
<1>1. CASE Execute(c)
  <2>1. info[c].customer \in Customers
    BY CaseFacts
  <2>2. CASE ~IsContact(NextAction(c))
    <3>1. contacts' = [contacts EXCEPT ![info[c].customer]
                                   = contacts[info[c].customer] \o <<>>]
      BY <1>1, <2>2 DEF Execute
    <3>2. contacts[info[c].customer] \o <<>> = contacts[info[c].customer]
      BY <2>1 DEF Inv, TypeOK
    <3>. QED
      BY <3>1, <3>2 DEF Inv, TypeOK
  <2>. QED
    BY <1>1, <2>2 DEF Execute
<1>2. ASSUME ~Execute(c)  PROVE contacts' = contacts
  BY <1>2 DEF Step, Handle, Start, Plan, Prepare, Defer, Decide, ActFails, HearBack,
              Exhaust, Finish, Crash, shared
<1>. QED
  BY <1>1, <1>2

\* So a contact stays where it is.
LEMMA ContactsStay ==
  ASSUME Inv, NEW c \in Cases, Step(c), NEW u \in Customers
  PROVE  \A k \in DOMAIN contacts[u] : k \in DOMAIN contacts'[u]
                                       /\ contacts'[u][k] = contacts[u][k]
<1>1. contacts \in [Customers -> Seq(Nat)] /\ contacts[u] \in Seq(Nat)
      /\ run[c].now \in Nat /\ info[c].customer \in Customers
  BY CaseFacts DEF Inv, TypeOK
<1>. DEFINE more == contacts[info[c].customer] \o <<run[c].now>>
<1>2. \/ contacts' = contacts
      \/ contacts' = [contacts EXCEPT ![info[c].customer] = more]
  BY ContactsGrow
<1>3. CASE contacts' = contacts
  BY <1>3
<1>4. CASE contacts' = [contacts EXCEPT ![info[c].customer] = more]
  <2>1. contacts'[u] = IF u = info[c].customer THEN more ELSE contacts[u]
    BY <1>1, <1>4
  <2>2. \A k \in DOMAIN contacts[info[c].customer] :
          k \in DOMAIN more /\ more[k] = contacts[info[c].customer][k]
    BY <1>1
  <2>. QED
    BY <2>1, <2>2
<1>. QED
  BY <1>2, <1>3, <1>4

\* And a notice that has been given stays given.
LEMMA NoticeStays ==
  ASSUME Inv, NEW c \in Cases, Step(c), NEW u \in Customers, NEW t,
         NoticeGiven(contacts[u], t)
  PROVE  NoticeGiven(contacts'[u], t)
BY ContactsStay DEF NoticeGiven

LEMMA OthersNoticed ==
  ASSUME Inv, NEW c \in Cases, Step(c), NEW d \in Cases, d # c, CaseNoticed(d)
  PROVE  CaseNoticed(d)'
<1>1. run'[d] = run[d] /\ info' = info /\ info[d].customer \in Customers
  BY StepWrites, CaseFacts
<1>2. NextAction(d)' = NextAction(d)
  BY <1>1 DEF NextAction
<1>3. Remembered(d)'
  BY <1>1, ContactsStay DEF CaseNoticed, Remembered, Log
<1>4. Cleared(d)'
  BY <1>1, <1>2, NoticeStays DEF CaseNoticed, Cleared, Log, IsDebit
<1>5. Noticed(d)'
  BY <1>1, NoticeStays DEF CaseNoticed, Noticed, Log, IsDebit
<1>. QED
  BY <1>3, <1>4, <1>5 DEF CaseNoticed

\* A step that executes nothing leaves history and actions of its case alone,
\* or takes a new copy, or starts anew.
LEMMA SameActions ==
  ASSUME Inv, NEW c \in Cases, Step(c), ~Execute(c)
  PROVE  /\ contacts' = contacts
         /\ \/ run'[c].hist = run[c].hist
            \/ run'[c].hist = Log(c)
            \/ run'[c].hist = <<>>
         /\ run'[c].executed = run[c].executed \/ run'[c].executed = <<>>
<1>1. run \in [Cases -> RunState] /\ run[c] \in RunState
  BY DEF Inv, TypeOK
<1>2. ASSUME NEW r, Becomes(c, r)  PROVE run'[c] = r
  BY <1>1, <1>2 DEF Becomes
<1>3. \A v : /\ Closing(run[c], v).hist = run[c].hist
             /\ Closing(run[c], v).executed = run[c].executed
  BY <1>1 DEF Closing, RunState
<1>4. \A q \in {NextStep(run[c]), [NextStep(run[c]) EXCEPT !.failed = TRUE],
                [NextStep(run[c]) EXCEPT !.state = "waiting"]} :
        q.hist = run[c].hist /\ q.executed = run[c].executed
  BY <1>1 DEF NextStep, RunState
<1>5. contacts' = contacts
  BY ContactsGrow
<1>6. ASSUME Start(c) \/ Plan(c) \/ Decide(c)
      PROVE  run'[c].hist = run[c].hist /\ run'[c].executed = run[c].executed
  <2>1. CASE Start(c)
    BY <1>1, <1>2, <1>3, <2>1 DEF Start, RunState
  <2>2. CASE Plan(c)
    <3>1. PICK plan \in Plans(info[c]), q \in RunState :
            /\ Planned(q, run[c], plan)
            /\ (\E v : Becomes(c, Closing(q, v))) \/ Becomes(c, Worked(q))
      BY <2>2, PlanTaken
    <3>2. /\ \A v : Closing(q, v).hist = q.hist /\ Closing(q, v).executed = q.executed
          /\ Worked(q).hist = q.hist /\ Worked(q).executed = q.executed
      BY DEF Closing, Worked, RunState
    <3>. QED
      BY <1>2, <3>1, <3>2 DEF Planned
  <2>3. CASE Decide(c)
    BY <1>1, <1>2, <1>3, <1>4, <2>3 DEF Decide, AfterDecision, RunState
  <2>. QED
    BY <1>6, <2>1, <2>2, <2>3
<1>7. ASSUME Defer(c) \/ ActFails(c) \/ HearBack(c) \/ Exhaust(c)
      PROVE  run'[c].hist = run[c].hist /\ run'[c].executed = run[c].executed
  <2>1. CASE Defer(c) \/ ActFails(c)
    BY <1>2, <1>4, <2>1 DEF Defer, ActFails
  <2>2. CASE HearBack(c)
    <3>1. AfterReply(run[c]).hist = run[c].hist /\ AfterReply(run[c]).executed = run[c].executed
      BY <1>3, <1>4 DEF AfterReply
    <3>. QED
      BY <1>2, <2>2, <3>1 DEF HearBack
  <2>3. CASE Exhaust(c)
    BY <1>2, <1>3, <2>3 DEF Exhaust
  <2>. QED
    BY <1>7, <2>1, <2>2, <2>3
<1>8. ASSUME Finish(c)
      PROVE  run'[c].hist = run[c].hist /\ run'[c].executed = run[c].executed
  BY <1>1, <1>2, <1>8 DEF Finish, RunState
<1>9. ASSUME Prepare(c)
      PROVE  run'[c].hist = Log(c) /\ run'[c].executed = run[c].executed
  BY <1>1, <1>2, <1>9 DEF Prepare, ContactHistory, Log, RunState
<1>10. ASSUME Crash(c)
       PROVE  run'[c].hist = <<>> /\ run'[c].executed = <<>>
  BY <1>2, <1>10 DEF Crash, Fresh
<1>. QED
  BY <1>5, <1>6, <1>7, <1>8, <1>9, <1>10 DEF Step, Handle

\* The gate looks at the copy; what it finds there is in the store.
LEMMA GateClears ==
  ASSUME Inv, NEW c \in Cases, Step(c), CaseNoticed(c)
  PROVE  Cleared(c)'
<1>1. SUFFICES ASSUME run'[c].pc = "act"
               PROVE  /\ IsDebit(c, NextAction(c).kind)' =>
                            NoticeGiven(Log(c)', run'[c].now)
                      /\ IsContact(NextAction(c)') => ~InQuietHours(run'[c].now)
  BY DEF Cleared
<1>2. run[c] \in RunState /\ CaseInv(run[c]) /\ info[c] \in CaseInfo
  BY CaseFacts DEF CaseInv
<1>3. Decide(c)
  BY <1>1, NextPc DEF Step, Handle
<1>4. Gate(c) /\ run'[c] = [run[c] EXCEPT !.pc = "act"]
  BY <1>1, <1>2, <1>3
  DEF Decide, AfterDecision, Closing, NextStep, Becomes, RunState, Inv, TypeOK
<1>5. /\ run'[c].now = run[c].now /\ run'[c].last = run[c].last
      /\ run'[c].step = run[c].step /\ run'[c].playbook = run[c].playbook
  BY <1>2, <1>4 DEF RunState
<1>6. info' = info /\ Log(c)' = Log(c)
  BY <1>3 DEF Decide, shared, Log
<1>7. NextAction(c)' = NextAction(c)
  BY <1>5, <1>6 DEF NextAction
<1>8. NextAction(c).kind # "escalate"
  BY <1>2, <1>3, NextActionTyped DEF Decide, StepsLeft, FlowActions
<1>9. /\ IsDebit(c, NextAction(c).kind) => NoticeGiven(run[c].hist, run[c].now)
      /\ IsContact(NextAction(c)) => ~InQuietHours(run[c].now)
  BY <1>4, <1>8 DEF Gate, Allowed, MandateKept, ContactKept, IsDebit
<1>10. NoticeGiven(run[c].hist, run[c].now) => NoticeGiven(Log(c), run[c].now)
  BY DEF CaseNoticed, Remembered, NoticeGiven
<1>11. IsDebit(c, NextAction(c).kind)' = IsDebit(c, NextAction(c).kind)
  BY <1>6, <1>7 DEF IsDebit
<1>. QED
  BY <1>5, <1>6, <1>7, <1>9, <1>10, <1>11

LEMMA SelfNoticed ==
  ASSUME Inv, NEW c \in Cases, Step(c), CaseNoticed(c)
  PROVE  CaseNoticed(c)'
<1>1. Cleared(c)'
  BY GateClears
<1>2. info' = info /\ info[c].customer \in Customers
  BY StepWrites, CaseFacts
<1>3. CASE ~Execute(c)
  <2>1. Log(c)' = Log(c)
    BY <1>2, <1>3, SameActions DEF Log
  <2>2. Remembered(c)'
    BY <1>3, <2>1, SameActions DEF Remembered, CaseNoticed
  <2>3. Noticed(c)'
    BY <1>2, <1>3, <2>1, SameActions DEF Noticed, CaseNoticed, IsDebit
  <2>. QED
    BY <1>1, <2>2, <2>3 DEF CaseNoticed
<1>4. CASE Execute(c)
  <2>. DEFINE action == NextAction(c)
              touch == IF IsContact(action) THEN <<run[c].now>> ELSE <<>>
              act == [kind |-> action.kind, channel |-> action.channel, at |-> run[c].now]
  <2>1. /\ run \in [Cases -> RunState] /\ run[c] \in RunState /\ run[c].now \in Nat
        /\ run[c].hist \in Seq(Nat) /\ Log(c) \in Seq(Nat) /\ run[c].pc = "act"
        /\ run[c].executed \in
             Seq([kind : ActionKinds, channel : Channels \cup {None}, at : Nat])
    BY <1>2, <1>4, CaseFacts DEF Inv, TypeOK, RunState, Log, Execute
  <2>2. /\ run'[c].hist = run[c].hist \o touch
        /\ run'[c].executed = Append(run[c].executed, act)
    BY <1>4, <2>1 DEF Execute, Becomes, RunState
  <2>3. Log(c)' = Log(c) \o touch
    BY <1>2, <1>4 DEF Execute, Log, Inv, TypeOK
  <2>4. touch \in Seq(Nat) /\ act.kind = action.kind /\ act.at = run[c].now
    BY <2>1
  <2>5. IsDebit(c, act.kind) => NoticeGiven(Log(c), act.at)
    BY <2>1, <2>4 DEF CaseNoticed, Cleared
  <2>. HIDE DEF touch, act, action
  <2>6. Remembered(c)'
    <3>1. \A i \in DOMAIN (run[c].hist \o touch) :
            \/ i \in DOMAIN run[c].hist /\ (run[c].hist \o touch)[i] = run[c].hist[i]
            \/ \E k \in DOMAIN touch : (run[c].hist \o touch)[i] = touch[k]
      <4>1. ASSUME NEW i \in DOMAIN (run[c].hist \o touch), i \notin DOMAIN run[c].hist
            PROVE  /\ i - Len(run[c].hist) \in DOMAIN touch
                   /\ (run[c].hist \o touch)[i] = touch[i - Len(run[c].hist)]
        BY <2>1, <2>4, <4>1
      <4>. QED
        BY <2>1, <2>4, <4>1
    <3>2. \A k \in DOMAIN touch : /\ Len(Log(c)) + k \in DOMAIN (Log(c) \o touch)
                                  /\ (Log(c) \o touch)[Len(Log(c)) + k] = touch[k]
      BY <2>1, <2>4
    <3>3. \A k \in DOMAIN Log(c) : /\ k \in DOMAIN (Log(c) \o touch)
                                   /\ (Log(c) \o touch)[k] = Log(c)[k]
      BY <2>1, <2>4
    <3>. DEFINE hist == run[c].hist \o touch
                log == Log(c) \o touch
    <3>. HIDE DEF hist, log
    <3>4. ASSUME NEW i \in DOMAIN hist
          PROVE  \E k \in DOMAIN log : log[k] = hist[i]
      <4>1. CASE i \in DOMAIN run[c].hist /\ hist[i] = run[c].hist[i]
        <5>1. \E k \in DOMAIN Log(c) : Log(c)[k] = run[c].hist[i]
          BY <4>1 DEF CaseNoticed, Remembered
        <5>. QED
          BY <3>3, <4>1, <5>1 DEF log
      <4>2. CASE \E k \in DOMAIN touch : hist[i] = touch[k]
        BY <3>2, <4>2 DEF log
      <4>. QED
        BY <3>1, <4>1, <4>2 DEF hist
    <3>5. run'[c].hist = hist /\ Log(c)' = log
      BY <2>2, <2>3 DEF hist, log
    <3>. QED
      BY <3>4, <3>5 DEF Remembered
  <2>7. Noticed(c)'
    <3>1. \A t : NoticeGiven(Log(c), t) => NoticeGiven(Log(c)', t)
      BY <1>2, NoticeStays DEF Log
    <3>2. \A i \in DOMAIN run'[c].executed :
            \/ i \in DOMAIN run[c].executed /\ run'[c].executed[i] = run[c].executed[i]
            \/ run'[c].executed[i] = act
      BY <2>1, <2>2
    <3>3. \A kind : IsDebit(c, kind)' = IsDebit(c, kind)
      BY <1>2 DEF IsDebit
    <3>. QED
      BY <2>5, <3>1, <3>2, <3>3 DEF Noticed, CaseNoticed
  <2>. QED
    BY <1>1, <2>6, <2>7 DEF CaseNoticed
<1>. QED
  BY <1>3, <1>4

LEMMA QuietStays ==
  ASSUME Inv, MandateInv, NEW c \in Cases, Step(c)
  PROVE  QuietHoursKept'
<1>1. CASE contacts' = contacts
  BY <1>1 DEF MandateInv, QuietHoursKept
<1>2. CASE Execute(c) /\ IsContact(NextAction(c))
           /\ contacts' = [contacts EXCEPT ![info[c].customer] = @ \o <<run[c].now>>]
  <2>1. /\ contacts \in [Customers -> Seq(Nat)] /\ run[c].now \in Nat
        /\ info[c].customer \in Customers
    BY CaseFacts DEF Inv, TypeOK
  <2>2. ~InQuietHours(run[c].now)
    BY <1>2 DEF MandateInv, CaseNoticed, Cleared, Execute
  <2>3. \A u \in Customers : \A i \in DOMAIN contacts'[u] :
          \/ i \in DOMAIN contacts[u] /\ contacts'[u][i] = contacts[u][i]
          \/ contacts'[u][i] = run[c].now
    <3>. DEFINE more == contacts[info[c].customer] \o <<run[c].now>>
    <3>1. contacts' = [contacts EXCEPT ![info[c].customer] = more]
      BY <1>2
    <3>2. \A i \in DOMAIN more :
            \/ /\ i \in DOMAIN contacts[info[c].customer]
               /\ more[i] = contacts[info[c].customer][i]
            \/ more[i] = run[c].now
      BY <2>1
    <3>. HIDE DEF more
    <3>. QED
      BY <2>1, <3>1, <3>2
  <2>. QED
    BY <2>1, <2>2, <2>3, QuietWindow DEF MandateInv, QuietHoursKept
<1>. QED
  BY <1>1, <1>2, ContactsGrow

LEMMA MandateInit == Init => MandateInv
<1>. SUFFICES ASSUME Init PROVE MandateInv
  OBVIOUS
<1>1. \A c \in Cases : run[c].pc = "new" /\ run[c].hist = <<>> /\ run[c].executed = <<>>
  BY DEF Init, Fresh
<1>2. \A u \in Customers : contacts[u] = <<>>
  BY DEF Init
<1>. QED
  BY <1>1, <1>2 DEF MandateInv, CaseNoticed, Remembered, Cleared, Noticed, QuietHoursKept

LEMMA MandateStep == Inv /\ MandateInv /\ [Next]_vars => MandateInv'
<1>. SUFFICES ASSUME Inv, MandateInv, [Next]_vars PROVE MandateInv'
  OBVIOUS
<1>1. ASSUME NEW c \in Cases, Step(c)
      PROVE  MandateInv'
  BY <1>1, OthersNoticed, SelfNoticed, QuietStays DEF MandateInv
<1>2. CASE UNCHANGED <<info, run, contacts>>
  BY <1>2 DEF MandateInv, CaseNoticed, Remembered, Cleared, Noticed, QuietHoursKept, Log,
              IsDebit, NextAction
<1>. QED
  BY <1>1, <1>2 DEF Next, Step, MarkOutage, ClearOutage, AllDone, vars, shared

\* Whatever skips, fails, defers or interleaves: no subscription is debited
\* before a contact with its customer has aged as long as the mandate rule asks.
THEOREM NoticeAlwaysGiven == Spec => []NoticeKept
<1>1. MandateInv => NoticeKept
  BY DEF MandateInv, CaseNoticed, Noticed, NoticeKept, IsDebit, NoticeGiven, Log
<1>. QED
  BY <1>1, InvInit, InvStep, MandateInit, MandateStep, PTL DEF Spec

\* No number of threads brings a contact into the quiet hours.
THEOREM QuietForAnyThreads == Spec => []QuietHoursKept
<1>1. MandateInv => QuietHoursKept
  BY DEF MandateInv
<1>. QED
  BY <1>1, InvInit, InvStep, MandateInit, MandateStep, PTL DEF Spec

(***************************************************************************)
(* Which cases are worked: the tables of scorer, ranking and flow agree.   *)
(***************************************************************************)
Near(ev, value) == ev \in Int /\ 100 * ev - value <= 50 /\ value - 100 * ev <= 50

\* Rounding to a rupee is off by half a rupee at most.
LEMMA RoundNear ==
  ASSUME NEW n \in Int, NEW up \in BOOLEAN, NEW down \in BOOLEAN
  PROVE  Near(RoundPercent(n, up, down), n)
<1>. DEFINE q == n \div 100
            rest == n % 100
<1>1. q \in Int /\ rest \in Int /\ 0 <= rest /\ rest < 100
  OBVIOUS
<1>2. n = 100 * q + rest
  OBVIOUS
<1>3. \/ RoundPercent(n, up, down) = q /\ rest <= 50
      \/ RoundPercent(n, up, down) = q + 1 /\ rest >= 50
  BY <1>1 DEF RoundPercent
<1>. HIDE DEF q, rest
<1>. QED
  BY <1>1, <1>2, <1>3 DEF Near

\* The shapes that the ranking is priced with are those of the playbooks.
LEMMA ShapesAgree ==
  /\ StepsCost("dunning") = 44 /\ PlaybookCost("dunning") = 44
  /\ StepsCost("smart_retry") = 28 /\ PlaybookCost("smart_retry") = 28
  /\ StepsCost("update_method") = 60 /\ PlaybookCost("update_method") = 60
  /\ StepsCost("receivables") = 60 /\ PlaybookCost("receivables") = 60
  /\ StepsCost("checkout_recovery") = 40 /\ PlaybookCost("checkout_recovery") = 40
<1>. DEFINE Touches(s) == {i \in DOMAIN s : IsContact(s[i])}
<1>1. /\ IsContact(VoiceCall) /\ ~IsContact(Retry)
      /\ \A ch : IsContact(Message(ch))
  BY DEF IsContact, ContactKinds, VoiceCall, Retry, Message
<1>2. /\ Cardinality({1, 3}) = 2 /\ Cardinality({3}) = 1
      /\ Cardinality(1..3) = 3 /\ Cardinality(1..2) = 2
  <2>1. IsFiniteSet({1}) /\ Cardinality({1}) = 1 /\ Cardinality({3}) = 1
    BY FS_Singleton
  <2>2. Cardinality({1} \cup {3}) = 2 /\ {1} \cup {3} = {1, 3}
    BY <2>1, FS_AddElement
  <2>3. IsFiniteSet({1} \cup {2}) /\ Cardinality({1} \cup {2}) = 2
    BY <2>1, FS_AddElement
  <2>4. Cardinality(({1} \cup {2}) \cup {3}) = 3
    BY <2>3, FS_AddElement
  <2>5. 1..2 = {1} \cup {2} /\ 1..3 = ({1} \cup {2}) \cup {3}
    OBVIOUS
  <2>6. Cardinality(1..2) = 2 /\ Cardinality(1..3) = 3
    BY <2>3, <2>4, <2>5
  <2>. QED
    BY <2>1, <2>2, <2>6
<1>3. /\ Cardinality(Touches(Playbook["dunning"])) = 2 /\ Len(Playbook["dunning"]) = 3
      /\ Cardinality(Touches(Playbook["smart_retry"])) = 1 /\ Len(Playbook["smart_retry"]) = 3
      /\ Cardinality(Touches(Playbook["update_method"])) = 3
      /\ Len(Playbook["update_method"]) = 3
      /\ Cardinality(Touches(Playbook["receivables"])) = 3 /\ Len(Playbook["receivables"]) = 3
      /\ Cardinality(Touches(Playbook["checkout_recovery"])) = 2
      /\ Len(Playbook["checkout_recovery"]) = 2
  <2>1. ASSUME NEW x, NEW y, NEW z
        PROVE  Len(<<x, y, z>>) = 3 /\ \A i \in DOMAIN <<x, y, z>> : i \in {1, 2, 3}
    OBVIOUS
  <2>2. Touches(<<Message("whatsapp"), Retry, Message("sms")>>) = {1, 3}
    BY <1>1
  <2>3. Touches(<<Retry, Retry, Message("whatsapp")>>) = {3}
    BY <1>1
  <2>4. Touches(<<Message("whatsapp"), Message("email"), Message("sms")>>) = 1..3
    BY <1>1
  <2>5. Touches(<<Message("email"), Message("email"), VoiceCall>>) = 1..3
    BY <1>1
  <2>6. Touches(<<Message("whatsapp"), Message("email")>>) = 1..2
    BY <1>1
  <2>. HIDE DEF Touches
  <2>. QED
    BY <1>2, <2>2, <2>3, <2>4, <2>5, <2>6 DEF Playbook
<1>4. \A name : StepsCost(name) = Cardinality(Touches(Playbook[name])) * 20
                  + (Len(Playbook[name]) - Cardinality(Touches(Playbook[name]))) * 4
  BY DEF StepsCost, ContactCost, AnnoyanceCost, RetryCost
<1>. HIDE DEF Touches
<1>5. StepsCost("dunning") = 2 * 20 + (3 - 2) * 4
  BY <1>3, <1>4
<1>6. StepsCost("smart_retry") = 1 * 20 + (3 - 1) * 4
  BY <1>3, <1>4
<1>7. StepsCost("update_method") = 3 * 20 + (3 - 3) * 4
  BY <1>3, <1>4
<1>8. StepsCost("receivables") = 3 * 20 + (3 - 3) * 4
  BY <1>3, <1>4
<1>9. StepsCost("checkout_recovery") = 2 * 20 + (2 - 2) * 4
  BY <1>3, <1>4
<1>. QED
  BY <1>5, <1>6, <1>7, <1>8, <1>9 DEF PlaybookCost, PlaybookShape, ContactCost, AnnoyanceCost, RetryCost

\* A candidate's value before the rounding, in paise.
Value(i, option) == option.p * i.amount - 100 * StepsCost(option.playbook)

\* What a pursued case is ranked with.  The first of its candidates is its prior.
LEMMA CandidatesOf ==
  ASSUME NEW i \in CaseInfo, Pursued(i)
  PROVE  /\ Candidates(i) = <<>> => Prior(i).playbook = "manual_review"
         /\ Candidates(i) # <<>> => Prior(i) = Candidates(i)[1]
         /\ \/ Candidates(i) = <<>>
            \/ Candidates(i) = <<Candidate(55, "receivables")>>
            \/ Candidates(i) = <<Candidate(25, "checkout_recovery")>>
            \/ Candidates(i) = <<Candidate(68, "dunning"), Candidate(35, "smart_retry"),
                                 Candidate(30, "update_method")>>
            \/ Candidates(i) = <<Candidate(85, "smart_retry"), Candidate(55, "dunning")>>
            \/ Candidates(i) = <<Candidate(82, "smart_retry"), Candidate(50, "dunning")>>
            \/ Candidates(i) = <<Candidate(50, "update_method"), Candidate(25, "dunning")>>
<1>1. i.code \notin HardCodes
  BY DEF Pursued
<1>2. /\ DOMAIN CaseTypePlaybook = {"overdue_invoice", "checkout_abandoned"}
      /\ DOMAIN CaseTypeCandidates = {"overdue_invoice", "checkout_abandoned"}
  BY DEF CaseTypePlaybook, CaseTypeCandidates
<1>3. /\ DOMAIN SoftPrior = {"INSUFFICIENT_FUNDS", "ISSUER_UNAVAILABLE",
                             "GATEWAY_TIMEOUT", "CARD_EXPIRED"}
      /\ DOMAIN CodeCandidates = {"INSUFFICIENT_FUNDS", "ISSUER_UNAVAILABLE",
                                  "GATEWAY_TIMEOUT", "CARD_EXPIRED"}
  BY DEF SoftPrior, CodeCandidates
<1>4. CASE i.type \in {"overdue_invoice", "checkout_abandoned"}
  <2>1. Prior(i) = CaseTypePlaybook[i.type] /\ Candidates(i) = CaseTypeCandidates[i.type]
    BY <1>1, <1>2, <1>4 DEF Prior, Candidates
  <2>. QED
    BY <1>4, <2>1 DEF CaseTypePlaybook, CaseTypeCandidates, Candidate
<1>5. CASE /\ i.type \notin {"overdue_invoice", "checkout_abandoned"}
           /\ i.code \in DOMAIN SoftPrior
  <2>1. Prior(i) = SoftPrior[i.code] /\ Candidates(i) = CodeCandidates[i.code]
    BY <1>1, <1>2, <1>3, <1>5 DEF Prior, Candidates
  <2>. QED
    BY <1>3, <1>5, <2>1 DEF SoftPrior, CodeCandidates, Candidate
<1>6. CASE /\ i.type \notin {"overdue_invoice", "checkout_abandoned"}
           /\ i.code \notin DOMAIN SoftPrior
  BY <1>1, <1>2, <1>3, <1>6 DEF Prior, Candidates
<1>. QED
  BY <1>4, <1>5, <1>6

\* What the gate and the ranking make of a candidate, as far as the rounding lets.
LEMMA Priced ==
  ASSUME NEW i \in CaseInfo, NEW p \in Nat, NEW name, NEW cost \in Nat,
         StepsCost(name) = cost, PlaybookCost(name) = cost
  PROVE  /\ Value(i, Candidate(p, name)) = p * i.amount - 100 * cost
         /\ Near(ExpectedValue(p, i.amount, name), p * i.amount - 100 * cost)
<1>. DEFINE value == p * i.amount - 100 * cost
            up == <<p, i.amount>> \in HalvesAbove
            down == <<p, i.amount>> \in HalvesBelow
<1>1. value \in Int
  BY DEF CaseInfo
<1>2. Value(i, Candidate(p, name)) = value
  BY DEF Value, Candidate
<1>3. up \in BOOLEAN /\ down \in BOOLEAN
  OBVIOUS
<1>4. ExpectedValue(p, i.amount, name) = RoundPercent(value, up, down)
  BY DEF ExpectedValue
<1>. HIDE DEF value, up, down
<1>5. Near(RoundPercent(value, up, down), value)
  BY <1>1, <1>3, RoundNear, Zenon
<1>. QED
  BY <1>2, <1>4, <1>5 DEF value

\* The first candidate is the best: one that is expected to bring anything in is
\* beaten by none, and when it brings in nothing, no other one does.
FirstBeatsAll(i) ==
  LET first == Candidates(i)[1]
      firstEV == ExpectedValue(first.p, i.amount, first.playbook)
  IN /\ firstEV \in Int /\ first.playbook \in PlaybookNames
     /\ firstEV > 0 => Value(i, first) > 0
     /\ \A k \in DOMAIN Candidates(i) :
          /\ CandidateEV(i, k) \in Int
          /\ CandidateEV(i, k) > 0 => CandidateEV(i, k) <= firstEV
          /\ firstEV > 0 => Value(i, Candidates(i)[k]) - Value(i, first) <= 100
          /\ firstEV <= 0 => Value(i, Candidates(i)[k]) <= 50

LEMMA FirstIsBest ==
  ASSUME NEW i \in CaseInfo, Pursued(i), Candidates(i) # <<>>
  PROVE  FirstBeatsAll(i)
<1>. DEFINE a == i.amount
<1>1. a \in Nat
  BY DEF CaseInfo
<1>2. /\ 25 \in Nat /\ 30 \in Nat /\ 35 \in Nat /\ 50 \in Nat /\ 55 \in Nat
      /\ 68 \in Nat /\ 82 \in Nat /\ 85 \in Nat
      /\ 28 \in Nat /\ 40 \in Nat /\ 44 \in Nat /\ 60 \in Nat
  OBVIOUS
<1>3. PlaybookNames = {"dunning", "smart_retry", "update_method", "receivables",
                       "checkout_recovery"}
  BY DEF PlaybookNames, Playbook
<1>4. CASE Candidates(i) = <<Candidate(55, "receivables")>>
  <2>1. /\ Value(i, Candidate(55, "receivables")) = 55 * a - 100 * 60
        /\ Near(ExpectedValue(55, a, "receivables"), 55 * a - 100 * 60)
    BY <1>2, ShapesAgree, Priced, Zenon
  <2>2. \A k \in DOMAIN Candidates(i) : k \in 1..1
    BY <1>4
  <2>. QED
    BY <1>1, <1>3, <1>4, <2>1, <2>2 DEF FirstBeatsAll, CandidateEV, Candidate, Near
<1>5. CASE Candidates(i) = <<Candidate(25, "checkout_recovery")>>
  <2>1. /\ Value(i, Candidate(25, "checkout_recovery")) = 25 * a - 100 * 40
        /\ Near(ExpectedValue(25, a, "checkout_recovery"), 25 * a - 100 * 40)
    BY <1>2, ShapesAgree, Priced, Zenon
  <2>2. \A k \in DOMAIN Candidates(i) : k \in 1..1
    BY <1>5
  <2>. QED
    BY <1>1, <1>3, <1>5, <2>1, <2>2 DEF FirstBeatsAll, CandidateEV, Candidate, Near
<1>6. CASE Candidates(i) = <<Candidate(68, "dunning"), Candidate(35, "smart_retry"), Candidate(30, "update_method")>>
  <2>1. /\ Value(i, Candidate(68, "dunning")) = 68 * a - 100 * 44
        /\ Near(ExpectedValue(68, a, "dunning"), 68 * a - 100 * 44)
    BY <1>2, ShapesAgree, Priced, Zenon
  <2>2. /\ Value(i, Candidate(35, "smart_retry")) = 35 * a - 100 * 28
        /\ Near(ExpectedValue(35, a, "smart_retry"), 35 * a - 100 * 28)
    BY <1>2, ShapesAgree, Priced, Zenon
  <2>3. /\ Value(i, Candidate(30, "update_method")) = 30 * a - 100 * 60
        /\ Near(ExpectedValue(30, a, "update_method"), 30 * a - 100 * 60)
    BY <1>2, ShapesAgree, Priced, Zenon
  <2>4. \A k \in DOMAIN Candidates(i) : k \in 1..3
    BY <1>6
  <2>. QED
    BY <1>1, <1>3, <1>6, <2>1, <2>2, <2>3, <2>4 DEF FirstBeatsAll, CandidateEV, Candidate, Near
<1>7. CASE Candidates(i) = <<Candidate(85, "smart_retry"), Candidate(55, "dunning")>>
  <2>1. /\ Value(i, Candidate(85, "smart_retry")) = 85 * a - 100 * 28
        /\ Near(ExpectedValue(85, a, "smart_retry"), 85 * a - 100 * 28)
    BY <1>2, ShapesAgree, Priced, Zenon
  <2>2. /\ Value(i, Candidate(55, "dunning")) = 55 * a - 100 * 44
        /\ Near(ExpectedValue(55, a, "dunning"), 55 * a - 100 * 44)
    BY <1>2, ShapesAgree, Priced, Zenon
  <2>3. \A k \in DOMAIN Candidates(i) : k \in 1..2
    BY <1>7
  <2>. QED
    BY <1>1, <1>3, <1>7, <2>1, <2>2, <2>3 DEF FirstBeatsAll, CandidateEV, Candidate, Near
<1>8. CASE Candidates(i) = <<Candidate(82, "smart_retry"), Candidate(50, "dunning")>>
  <2>1. /\ Value(i, Candidate(82, "smart_retry")) = 82 * a - 100 * 28
        /\ Near(ExpectedValue(82, a, "smart_retry"), 82 * a - 100 * 28)
    BY <1>2, ShapesAgree, Priced, Zenon
  <2>2. /\ Value(i, Candidate(50, "dunning")) = 50 * a - 100 * 44
        /\ Near(ExpectedValue(50, a, "dunning"), 50 * a - 100 * 44)
    BY <1>2, ShapesAgree, Priced, Zenon
  <2>3. \A k \in DOMAIN Candidates(i) : k \in 1..2
    BY <1>8
  <2>. QED
    BY <1>1, <1>3, <1>8, <2>1, <2>2, <2>3 DEF FirstBeatsAll, CandidateEV, Candidate, Near
<1>9. CASE Candidates(i) = <<Candidate(50, "update_method"), Candidate(25, "dunning")>>
  <2>1. /\ Value(i, Candidate(50, "update_method")) = 50 * a - 100 * 60
        /\ Near(ExpectedValue(50, a, "update_method"), 50 * a - 100 * 60)
    BY <1>2, ShapesAgree, Priced, Zenon
  <2>2. /\ Value(i, Candidate(25, "dunning")) = 25 * a - 100 * 44
        /\ Near(ExpectedValue(25, a, "dunning"), 25 * a - 100 * 44)
    BY <1>2, ShapesAgree, Priced, Zenon
  <2>3. \A k \in DOMAIN Candidates(i) : k \in 1..2
    BY <1>9
  <2>. QED
    BY <1>1, <1>3, <1>9, <2>1, <2>2, <2>3 DEF FirstBeatsAll, CandidateEV, Candidate, Near
<1>. QED
  BY <1>4, <1>5, <1>6, <1>7, <1>8, <1>9, CandidatesOf

\* Without a diagnosis, the plan is the first candidate.
LEMMA FirstIsPlanned ==
  ASSUME NEW i \in CaseInfo, Pursued(i), Candidates(i) # <<>>
  PROVE  /\ RulePlan(i).p = Candidates(i)[1].p
         /\ RulePlan(i).playbook = Candidates(i)[1].playbook
<1>1. FirstBeatsAll(i) /\ Prior(i) = Candidates(i)[1] /\ 1 \in DOMAIN Candidates(i)
  BY FirstIsBest, CandidatesOf
<1>2. ASSUME NEW k \in Chosen(i)  PROVE k = 1
  <2>1. /\ k \in DOMAIN Candidates(i) /\ k \in Int /\ k >= 1
        /\ IsBest(i, k) /\ CandidateEV(i, k) > 0
    BY <1>2, CandidatesOf DEF Chosen
  <2>2. \/ CandidateEV(i, 1) < CandidateEV(i, k)
        \/ 1 >= k
    BY <1>1, <2>1 DEF IsBest
  <2>3. /\ CandidateEV(i, 1) \in Int /\ CandidateEV(i, k) \in Int
        /\ CandidateEV(i, k) <= CandidateEV(i, 1)
    BY <1>1, <2>1 DEF FirstBeatsAll, CandidateEV
  <2>. QED
    BY <2>1, <2>2, <2>3
<1>3. CASE Chosen(i) = {}
  BY <1>1, <1>3 DEF RulePlan
<1>4. CASE Chosen(i) # {}
  <2>1. (CHOOSE k \in Chosen(i) : TRUE) = 1
    BY <1>2, <1>4
  <2>. QED
    BY <1>1, <1>4, <2>1 DEF RulePlan
<1>. QED
  BY <1>3, <1>4

Options(i) == {Candidates(i)[k] : k \in DOMAIN Candidates(i)}

WorthIt(i, name) ==
  \E option \in Options(i) :
    /\ option.playbook = name
    /\ Value(i, option) > 0
    /\ \A other \in Options(i) : Value(i, other) - Value(i, option) <= 100

NotWorthIt(i) == \A option \in Options(i) : Value(i, option) <= 50

\* The gate lets a planned case through exactly when it is worth it.
LEMMA GateFitsRanking ==
  ASSUME NEW i \in CaseInfo, Pursued(i)
  PROVE  /\ LosesMoney(i, RulePlan(i)) => NotWorthIt(i)
         /\ RulePlan(i).playbook \notin PlaybookNames => NotWorthIt(i)
         /\ ~LosesMoney(i, RulePlan(i)) /\ RulePlan(i).playbook \in PlaybookNames
              => WorthIt(i, RulePlan(i).playbook)
<1>1. CASE Candidates(i) = <<>>
  <2>1. Chosen(i) = {} /\ Options(i) = {}
    BY <1>1 DEF Chosen, Options
  <2>2. RulePlan(i).playbook = "manual_review"
    BY <1>1, <2>1, CandidatesOf DEF RulePlan
  <2>3. "manual_review" \notin PlaybookNames
    BY DEF PlaybookNames, Playbook
  <2>. QED
    BY <2>1, <2>2, <2>3 DEF NotWorthIt
<1>2. CASE Candidates(i) # <<>>
  <2>. DEFINE first == Candidates(i)[1]
              ev == ExpectedValue(first.p, i.amount, first.playbook)
  <2>1. /\ ev \in Int /\ first.playbook \in PlaybookNames
        /\ ev > 0 => Value(i, first) > 0
        /\ ev > 0 => \A k \in DOMAIN Candidates(i) :
                       Value(i, Candidates(i)[k]) - Value(i, first) <= 100
        /\ ev <= 0 => \A k \in DOMAIN Candidates(i) : Value(i, Candidates(i)[k]) <= 50
    BY <1>2, FirstIsBest DEF FirstBeatsAll
  <2>2. RulePlan(i).p = first.p /\ RulePlan(i).playbook = first.playbook
    BY <1>2, FirstIsPlanned
  <2>3. LosesMoney(i, RulePlan(i)) <=> ev <= 0
    BY <2>1, <2>2 DEF LosesMoney
  <2>4. first \in Options(i)
    BY <1>2, CandidatesOf DEF Options
  <2>. HIDE DEF first, ev
  <2>5. CASE ev <= 0
    BY <2>1, <2>2, <2>3, <2>5 DEF NotWorthIt, Options
  <2>6. CASE ~(ev <= 0)
    <3>1. ev > 0
      BY <2>1, <2>6
    <3>2. WorthIt(i, first.playbook)
      BY <2>1, <2>4, <3>1 DEF WorthIt, Options
    <3>. QED
      BY <2>1, <2>2, <2>3, <2>6, <3>2
  <2>. QED
    BY <2>5, <2>6
<1>. QED
  BY <1>1, <1>2

\* What is known of the choice at each point of run_case; out says whether the
\* customer has opted out.
Choice(i, r, out) ==
  ~i.llm =>
    /\ r.pc \in {"new", "plan"} => r.playbook = None
    /\ r.pc = "plan" => Pursued(i)
    /\ r.pc \notin {"new", "plan"} =>
         IF r.playbook # None THEN WorthIt(i, r.playbook)
         ELSE Pursued(i) /\ ~out => NotWorthIt(i)

Choices == \A c \in Cases : Choice(info[c], run[c], HasOptedOut(c))

\* Past the plan, nothing changes the choice.
LEMMA ChoiceStays ==
  ASSUME NEW i, NEW r, NEW q, NEW out, NEW later, Choice(i, r, out), out => later,
         q.playbook = r.playbook,
         r.pc \notin {"new", "plan"}, q.pc \notin {"new", "plan"}
  PROVE  Choice(i, q, later)
BY DEF Choice

LEMMA StartChooses ==
  ASSUME Inv, Choices, NEW c \in Cases, Start(c)
  PROVE  Choice(info[c], run'[c], HasOptedOut(c))
<1>1. /\ run[c] \in RunState /\ Choice(info[c], run[c], HasOptedOut(c))
      /\ run[c].pc = "new" /\ run \in [Cases -> RunState]
  BY CaseFacts DEF Choices, Start, CaseInv, Inv, TypeOK
<1>2. CASE Pursued(info[c]) /\ ~HasOptedOut(c)
  <2>1. run'[c].pc = "plan" /\ run'[c].playbook = run[c].playbook
    BY <1>1, <1>2 DEF Start, Becomes, RunState
  <2>. QED
    BY <1>1, <1>2, <2>1 DEF Choice
<1>3. CASE ~(Pursued(info[c]) /\ ~HasOptedOut(c))
  <2>1. run'[c].pc = "finish" /\ run'[c].playbook = run[c].playbook
    BY <1>1, <1>3 DEF Start, Becomes, Closing, RunState
  <2>. QED
    BY <1>1, <1>3, <2>1 DEF Choice
<1>. QED
  BY <1>2, <1>3

LEMMA PlanChooses ==
  ASSUME Inv, Choices, NEW c \in Cases, Plan(c)
  PROVE  Choice(info[c], run'[c], HasOptedOut(c))
<1>. SUFFICES ASSUME ~info[c].llm
              PROVE  Choice(info[c], run'[c], HasOptedOut(c))
  BY DEF Choice
<1>. DEFINE plan == RulePlan(info[c])
<1>1. /\ run[c] \in RunState /\ info[c] \in CaseInfo /\ Choice(info[c], run[c], HasOptedOut(c))
      /\ run[c].pc = "plan" /\ run \in [Cases -> RunState]
  BY CaseFacts DEF Choices, Plan, CaseInv, Inv, TypeOK
<1>2. Pursued(info[c]) /\ run[c].playbook = None
  BY <1>1 DEF Choice
<1>3. PICK q \in RunState :
        /\ Planned(q, run[c], plan)
        /\ \/ LosesMoney(info[c], plan) /\ run'[c] = Closing(q, "abandoned")
           \/ plan.playbook \notin PlaybookNames /\ run'[c] = Closing(q, "escalated")
           \/ /\ ~LosesMoney(info[c], plan) /\ plan.playbook \in PlaybookNames
              /\ run'[c] = Worked(q)
  <2>1. Plans(info[c]) = {plan}
    BY DEF Plans
  <2>. QED
    BY <1>1, <2>1, PlanTaken DEF Becomes
<1>4. /\ LosesMoney(info[c], plan) => NotWorthIt(info[c])
      /\ plan.playbook \notin PlaybookNames => NotWorthIt(info[c])
      /\ ~LosesMoney(info[c], plan) /\ plan.playbook \in PlaybookNames
           => WorthIt(info[c], plan.playbook)
  BY <1>1, <1>2, GateFitsRanking
<1>. HIDE DEF plan
<1>5. CASE LosesMoney(info[c], plan) \/ plan.playbook \notin PlaybookNames
  <2>1. run'[c].pc = "finish" /\ run'[c].playbook = None
    BY <1>1, <1>2, <1>3, <1>5 DEF Closing, Planned, RunState
  <2>. QED
    BY <1>4, <1>5, <2>1 DEF Choice
<1>6. CASE ~LosesMoney(info[c], plan) /\ plan.playbook \in PlaybookNames
  <2>1. run'[c].pc = "prepare" /\ run'[c].playbook = plan.playbook
    BY <1>1, <1>3, <1>6 DEF Worked, Planned, RunState
  <2>2. plan.playbook # None
    BY <1>6 DEF PlaybookNames, Playbook, None
  <2>. QED
    BY <1>4, <1>6, <2>1, <2>2 DEF Choice
<1>. QED
  BY <1>5, <1>6

\* The steps that follow the plan keep the playbook.
LEMMA PlaybookStays ==
  ASSUME Inv, NEW c \in Cases, Step(c), ~Start(c), ~Plan(c), ~Crash(c)
  PROVE  /\ run'[c].playbook = run[c].playbook
         /\ run[c].pc \notin {"new", "plan"} /\ run'[c].pc \notin {"new", "plan"}
<1>1. run \in [Cases -> RunState] /\ run[c] \in RunState
  BY DEF Inv, TypeOK
<1>2. run[c].pc \notin {"new", "plan"} /\ run'[c].pc \notin {"new", "plan"}
  BY NextPc
  DEF Step, Handle, Prepare, Defer, Decide, ActFails, Execute, HearBack, Exhaust, Finish,
      StepsLeft
<1>3. ASSUME NEW r, Becomes(c, r)  PROVE run'[c] = r
  BY <1>1, <1>3 DEF Becomes
<1>4. CASE Prepare(c)
  BY <1>1, <1>3, <1>4 DEF Prepare, RunState
<1>5. CASE Defer(c)
  BY <1>1, <1>2, <1>3, <1>5 DEF Defer, NextStep, RunState
<1>6. CASE ActFails(c)
  BY <1>1, <1>3, <1>6 DEF ActFails, NextStep, RunState
<1>7. CASE Decide(c)
  <2>1. run'[c] = AfterDecision(c)
    BY <1>3, <1>7 DEF Decide
  <2>. QED
    BY <1>1, <1>2, <2>1 DEF AfterDecision, Closing, NextStep, RunState
<1>8. CASE Execute(c)
  BY <1>1, <1>8 DEF Execute, Becomes, RunState
<1>9. CASE HearBack(c)
  BY <1>1, <1>3, <1>9 DEF HearBack, AfterReply, Closing, NextStep, RunState
<1>10. CASE Exhaust(c)
  BY <1>1, <1>3, <1>10 DEF Exhaust, Closing, RunState
<1>11. CASE Finish(c)
  BY <1>1, <1>3, <1>11 DEF Finish, RunState
<1>. QED
  BY <1>2, <1>4, <1>5, <1>6, <1>7, <1>8, <1>9, <1>10, <1>11 DEF Step, Handle

LEMMA ChoicesInit == Init => Choices
BY DEF Init, Choices, Choice, Fresh

LEMMA ChoicesStep == Inv /\ Choices /\ [Next]_vars => Choices'
<1>. SUFFICES ASSUME Inv, Choices, [Next]_vars PROVE Choices'
  OBVIOUS
<1>1. ASSUME NEW c \in Cases, Step(c)
      PROVE  Choices'
  <2>1. /\ info' = info /\ optOuts \subseteq optOuts'
        /\ \A d \in Cases : d # c => run'[d] = run[d]
    BY <1>1, StepWrites, OptOutsGrow
  <2>2. \A d \in Cases : HasOptedOut(d) => HasOptedOut(d)'
    BY <2>1 DEF HasOptedOut
  <2>3. \A d \in Cases : Choice(info[d], run[d], HasOptedOut(d))
    BY DEF Choices
  <2>4. Choice(info[c], run'[c], HasOptedOut(c)')
    <3>1. ASSUME Choice(info[c], run'[c], HasOptedOut(c))
          PROVE  Choice(info[c], run'[c], HasOptedOut(c)')
      BY <2>2, <3>1 DEF Choice
    <3>2. CASE Start(c) \/ Plan(c)
      BY <3>1, <3>2, StartChooses, PlanChooses
    <3>3. CASE Crash(c)
      <4>1. run'[c].pc = "new" /\ run'[c].playbook = None
        BY <3>3 DEF Crash, Becomes, Fresh, Inv, TypeOK
      <4>. QED
        BY <4>1 DEF Choice
    <3>4. CASE ~(Start(c) \/ Plan(c) \/ Crash(c))
      BY <1>1, <2>2, <2>3, <3>4, PlaybookStays, ChoiceStays
    <3>. QED
      BY <3>2, <3>3, <3>4
  <2>5. ASSUME NEW d \in Cases, d # c
        PROVE  Choice(info[d], run'[d], HasOptedOut(d)')
    BY <2>1, <2>2, <2>3, <2>5 DEF Choice
  <2>. QED
    BY <2>1, <2>4, <2>5 DEF Choices
<1>2. CASE UNCHANGED <<info, run, optOuts>>
  BY <1>2 DEF Choices, HasOptedOut
<1>. QED
  BY <1>1, <1>2 DEF Next, MarkOutage, ClearOutage, AllDone, vars, shared, Step

\* Whatever the amount and the pursuit floor, and however the float products
\* that fall on half a rupee are rounded: the hand-kept tables of the scorer, the
\* ranking and the playbooks agree on which cases are worth working, on what.
THEOREM WorkedAsRanked == Spec => []WorkedIffWorthIt
<1>1. Choices => WorkedIffWorthIt
  <2>1. \A c, option : Worth(c, option) = Value(info[c], option)
    BY DEF Worth, Value
  <2>. QED
    BY <2>1 DEF Choices, Choice, WorkedIffWorthIt, WorthIt, NotWorthIt, Options
<1>. QED
  BY <1>1, InvInit, InvStep, ChoicesInit, ChoicesStep, PTL DEF Spec

(***************************************************************************)
(* How far a handler goes.                                                 *)
(***************************************************************************)
\* The five playbooks, none of which is called none.
LEMMA FiveNames ==
  /\ PlaybookNames = {"dunning", "smart_retry", "update_method", "receivables",
                      "checkout_recovery"}
  /\ None \notin PlaybookNames
BY DEF PlaybookNames, Playbook, None

\* A playbook ends with a contact.
LEMMA LastIsContact ==
  ASSUME NEW name \in PlaybookNames
  PROVE  /\ Len(Playbook[name]) \in 1..3 /\ 1 <= Len(Playbook[name])
         /\ IsContact(Playbook[name][Len(Playbook[name])])
<1>1. /\ Playbook["dunning"] = <<Message("whatsapp"), Retry, Message("sms")>>
      /\ Playbook["smart_retry"] = <<Retry, Retry, Message("whatsapp")>>
      /\ Playbook["update_method"] = <<Message("whatsapp"), Message("email"), Message("sms")>>
      /\ Playbook["receivables"] = <<Message("email"), Message("email"), VoiceCall>>
      /\ Playbook["checkout_recovery"] = <<Message("whatsapp"), Message("email")>>
  BY DEF Playbook
<1>2. IsContact(VoiceCall) /\ \A ch : IsContact(Message(ch))
  BY DEF IsContact, VoiceCall, Message, ContactKinds
<1>3. ASSUME NEW a, NEW b, IsContact(b)
      PROVE  Len(<<a, b>>) \in 1..3 /\ IsContact(<<a, b>>[Len(<<a, b>>)])
  BY <1>3
<1>4. ASSUME NEW a, NEW b, NEW d, IsContact(d)
      PROVE  Len(<<a, b, d>>) \in 1..3 /\ IsContact(<<a, b, d>>[Len(<<a, b, d>>)])
  BY <1>4
<1>5. /\ Len(Playbook["dunning"]) \in 1..3 /\ IsContact(Playbook["dunning"][Len(Playbook["dunning"])])
      /\ Len(Playbook["smart_retry"]) \in 1..3
      /\ IsContact(Playbook["smart_retry"][Len(Playbook["smart_retry"])])
  BY <1>1, <1>2, <1>4
<1>6. /\ Len(Playbook["update_method"]) \in 1..3
      /\ IsContact(Playbook["update_method"][Len(Playbook["update_method"])])
      /\ Len(Playbook["receivables"]) \in 1..3
      /\ IsContact(Playbook["receivables"][Len(Playbook["receivables"])])
  BY <1>1, <1>2, <1>4
<1>7. /\ Len(Playbook["checkout_recovery"]) \in 1..3
      /\ IsContact(Playbook["checkout_recovery"][Len(Playbook["checkout_recovery"])])
  BY <1>1, <1>2, <1>3
<1>8. Len(Playbook[name]) \in 1..3 /\ IsContact(Playbook[name][Len(Playbook[name])])
  BY <1>5, <1>6, <1>7, FiveNames
<1>9. \A n \in 1..3 : 1 <= n
  OBVIOUS
<1>. QED
  BY <1>8, <1>9, Zenon

\* A case makes no more actions than it has steps, which are three at most.
Tally(r) ==
  /\ r.pc \in {"new", "plan", "prepare"} => r.step = 1 /\ r.attempts = 0
  /\ r.pc = "gate" => r.step <= 4
  /\ r.pc \in {"gate", "act"} => r.attempts < r.step
  /\ r.pc = "respond" => r.attempts <= r.step
  /\ r.attempts <= 3

\* A step that executes nothing counts nothing.
LEMMA TallyStays ==
  ASSUME Inv, NEW c \in Cases, Start(c) \/ Handle(c), ~Execute(c), Tally(run[c])
  PROVE  Tally(run'[c]) /\ run'[c].attempts = run[c].attempts
<1>1. /\ run \in [Cases -> RunState] /\ run[c] \in RunState /\ Stage(run[c])
      /\ run[c].step \in Nat /\ run[c].attempts \in Nat
  BY CaseFacts DEF Inv, TypeOK, CaseInv, RunState
<1>2. ASSUME NEW r, Becomes(c, r)  PROVE run'[c] = r
  BY <1>1, <1>2 DEF Becomes
<1>3. ASSUME NEW v, run'[c] = Closing(run[c], v)
      PROVE  Tally(run'[c]) /\ run'[c].attempts = run[c].attempts
  BY <1>1, <1>3 DEF Closing, Tally, RunState
<1>4. ASSUME run'[c].pc = "gate", run'[c].step = run[c].step + 1,
             run'[c].attempts = run[c].attempts, run[c].pc \in {"gate", "act", "respond"},
             run[c].step <= Len(Playbook[run[c].playbook])
      PROVE  Tally(run'[c])
  <2>1. run[c].playbook \in PlaybookNames
    BY <1>1, <1>4 DEF Stage
  <2>2. run[c].step <= 3
    BY <1>1, <1>4, <2>1, LastIsContact
  <2>3. run[c].attempts < run'[c].step /\ run'[c].step \in Nat /\ run'[c].step <= 4
    BY <1>1, <1>4, <2>2 DEF Tally
  <2>. QED
    BY <1>1, <1>4, <2>3 DEF Tally
<1>5. \A q \in {NextStep(run[c]), [NextStep(run[c]) EXCEPT !.failed = TRUE],
                [NextStep(run[c]) EXCEPT !.state = "waiting"]} :
        q.pc = "gate" /\ q.step = run[c].step + 1 /\ q.attempts = run[c].attempts
  BY <1>1 DEF NextStep, RunState
<1>6. CASE Start(c)
  <2>1. \/ run'[c] = [run[c] EXCEPT !.pc = "plan"]
        \/ run'[c] = Closing(run[c], "abandoned")
    BY <1>2, <1>6 DEF Start
  <2>2. run[c].pc = "new"
    BY <1>6 DEF Start
  <2>. QED
    BY <1>1, <1>3, <2>1, <2>2 DEF Tally, RunState
<1>7. CASE Plan(c)
  <2>1. PICK plan \in Plans(info[c]), q \in RunState :
          /\ Planned(q, run[c], plan)
          /\ (\E v : run'[c] = Closing(q, v)) \/ run'[c] = Worked(q)
    BY <1>2, <1>7, PlanTaken
  <2>2. run[c].pc = "plan"
    BY <1>7 DEF Plan
  <2>3. /\ q.step = run[c].step /\ q.attempts = run[c].attempts
        /\ q.step \in Nat /\ q.attempts \in Nat
    BY <1>1, <2>1 DEF Planned
  <2>4. /\ run'[c].pc \in {"finish", "prepare"}
        /\ run'[c].step = q.step /\ run'[c].attempts = q.attempts
    BY <2>1 DEF Closing, Worked, RunState
  <2>. QED
    BY <1>1, <2>2, <2>3, <2>4 DEF Tally
<1>8. CASE Prepare(c)
  <2>1. run[c].pc = "prepare" /\ run[c].step = 1 /\ run[c].attempts = 0
    BY <1>8 DEF Prepare, Tally
  <2>2. run'[c] = [run[c] EXCEPT !.pc = "gate", !.state = "planned",
                                 !.hist = ContactHistory(c)]
    BY <1>2, <1>8 DEF Prepare
  <2>3. run'[c].pc = "gate" /\ run'[c].step = 1 /\ run'[c].attempts = 0
    BY <1>1, <2>1, <2>2 DEF RunState
  <2>. QED
    BY <2>1, <2>3 DEF Tally
<1>9. CASE Defer(c) \/ ActFails(c)
  <2>1. run'[c] \in {NextStep(run[c]), [NextStep(run[c]) EXCEPT !.failed = TRUE]}
    BY <1>2, <1>9 DEF Defer, ActFails
  <2>2. /\ run[c].pc \in {"gate", "act"}
        /\ run[c].step <= Len(Playbook[run[c].playbook])
    BY <1>1, <1>9 DEF Defer, ActFails, StepsLeft, Stage
  <2>. QED
    BY <1>4, <1>5, <2>1, <2>2
<1>10. CASE Decide(c)
  <2>1. \/ run'[c] = [run[c] EXCEPT !.pc = "act"]
        \/ run'[c] = Closing(run[c], "escalated")
        \/ run'[c] = NextStep(run[c])
    BY <1>2, <1>10 DEF Decide, AfterDecision
  <2>2. run[c].pc = "gate" /\ run[c].step <= Len(Playbook[run[c].playbook])
    BY <1>10 DEF Decide, StepsLeft
  <2>3. CASE run'[c] = [run[c] EXCEPT !.pc = "act"]
    BY <1>1, <2>2, <2>3 DEF Tally, RunState
  <2>. QED
    BY <1>3, <1>4, <1>5, <2>1, <2>2, <2>3
<1>11. CASE HearBack(c)
  <2>1. \/ \E v : run'[c] = Closing(run[c], v)
        \/ run'[c] = [NextStep(run[c]) EXCEPT !.state = "waiting"]
    BY <1>2, <1>11 DEF HearBack, AfterReply
  <2>2. run[c].pc = "respond" /\ run[c].step <= Len(Playbook[run[c].playbook])
    BY <1>1, <1>11 DEF HearBack, Stage
  <2>. QED
    BY <1>3, <1>4, <1>5, <2>1, <2>2
<1>12. CASE Exhaust(c)
  BY <1>2, <1>3, <1>12 DEF Exhaust
<1>13. CASE Finish(c)
  BY <1>1, <1>2, <1>13 DEF Finish, Tally, RunState
<1>. QED
  BY <1>6, <1>7, <1>8, <1>9, <1>10, <1>11, <1>12, <1>13 DEF Handle

\* An action is one try more, for the case and for the day.
LEMMA TallyGrows ==
  ASSUME Inv, NEW c \in Cases, Execute(c), Tally(run[c])
  PROVE  /\ Tally(run'[c]) /\ run'[c].attempts = run[c].attempts + 1
         /\ run'[c].pc = "respond"
         /\ DOMAIN budget' = DOMAIN budget \cup {Day(run[c].now)}
         /\ \A d \in DOMAIN budget' : /\ budget'[d] = Spent(d) + 1 \/ budget'[d] = Spent(d)
                                      /\ Spent(d) \in Nat
<1>1. /\ run \in [Cases -> RunState] /\ run[c] \in RunState /\ Stage(run[c])
      /\ run[c].step \in Nat /\ run[c].attempts \in Nat /\ run[c].pc = "act"
  BY CaseFacts DEF Inv, TypeOK, CaseInv, RunState, Execute
<1>2. /\ run'[c].attempts = run[c].attempts + 1 /\ run'[c].step = run[c].step
      /\ run'[c].pc = "respond"
  BY <1>1 DEF Execute, Becomes, RunState
<1>3. run[c].step <= 3
  BY <1>1, LastIsContact DEF Stage
<1>4. Tally(run'[c])
  BY <1>1, <1>2, <1>3 DEF Tally
<1>5. budget' = [d \in DOMAIN budget \cup {Day(run[c].now)} |->
                   IF d = Day(run[c].now) THEN Spent(d) + 1 ELSE budget[d]]
  BY DEF Execute, Tallied, Spent
<1>6. \A d : Spent(d) \in Nat
  BY DEF Spent, On, Inv, TypeOK
<1>7. \A d \in DOMAIN budget : Spent(d) = budget[d]
  BY DEF Spent, On
<1>. QED
  BY <1>2, <1>4, <1>5, <1>6, <1>7

\* How many steps a handler has ahead at most: three for each step of the
\* playbook, and those around it.
StepsAhead(r) ==
  CASE r.pc = "new"     -> 14
    [] r.pc = "plan"    -> 13
    [] r.pc = "prepare" -> 12
    [] r.pc = "gate"    -> 14 - 3 * r.step
    [] r.pc = "act"     -> 13 - 3 * r.step
    [] r.pc = "respond" -> 12 - 3 * r.step
    [] r.pc = "finish"  -> 1
    [] r.pc = "done"    -> 0

Tallies == \A c \in Cases : Tally(run[c])

LEMMA AheadTyped ==
  ASSUME NEW r \in RunState, Stage(r), Tally(r)
  PROVE  StepsAhead(r) \in 0..14
<1>1. /\ r.step \in Nat /\ r.step >= 1
      /\ r.pc = "gate" => r.step <= 4
      /\ r.pc \in {"act", "respond"} => r.step <= 3
  <2>1. r.step \in Nat /\ r.step >= 1 /\ (r.pc = "gate" => r.step <= 4)
    BY DEF RunState, Stage, Tally
  <2>2. r.pc \in {"act", "respond"} =>
          r.playbook \in PlaybookNames /\ r.step <= Len(Playbook[r.playbook])
    BY DEF Stage
  <2>. QED
    BY <2>1, <2>2, LastIsContact
<1>2. r.pc \in {"new", "plan", "prepare", "gate", "act", "respond", "finish", "done"}
  BY DEF RunState
<1>. QED
  BY <1>1, <1>2 DEF StepsAhead

LEMMA EachStepIsNearer ==
  ASSUME Inv, NEW c \in Cases, Start(c) \/ Handle(c), Tally(run[c])
  PROVE  StepsAhead(run'[c]) < StepsAhead(run[c])
<1>. DEFINE r == run[c]
            q == run'[c]
<1>1. /\ run \in [Cases -> RunState] /\ r \in RunState /\ q \in RunState
      /\ Stage(r) /\ r.step \in Nat /\ r.step >= 1
  <2>1. run' \in [Cases -> RunState]
    BY StepWrites DEF Step
  <2>. QED
    BY <2>1, CaseFacts DEF Inv, TypeOK, CaseInv, Stage
<1>2. ASSUME NEW s, Becomes(c, s)  PROVE q = s
  BY <1>1, <1>2 DEF Becomes
<1>3. /\ r.pc \in {"new", "plan", "prepare"} => r.step = 1
      /\ r.pc = "gate" => r.step <= 4
      /\ r.pc \in {"act", "respond"} => r.step <= 3
  BY <1>1, LastIsContact DEF Stage, Tally
<1>4. \A s \in {NextStep(r), [NextStep(r) EXCEPT !.failed = TRUE],
                [NextStep(r) EXCEPT !.state = "waiting"]} :
        s.pc = "gate" /\ s.step = r.step + 1
  BY <1>1 DEF NextStep, RunState
<1>5. \A v : Closing(r, v).pc = "finish"
  BY <1>1 DEF Closing, RunState
<1>. SUFFICES StepsAhead(q) < StepsAhead(r)
  OBVIOUS
<1>. HIDE DEF r, q
<1>6. StepsAhead(r) > 1 \/ r.pc \in {"finish", "done"}
  <2>1. r.pc \in {"new", "plan", "prepare", "gate", "act", "respond", "finish", "done"}
    BY <1>1 DEF RunState
  <2>. QED
    BY <1>1, <1>3, <2>1 DEF StepsAhead
<1>7. CASE Start(c) \/ Plan(c) \/ Exhaust(c)
  <2>1. /\ r.pc \in {"new", "plan", "gate"}
        /\ \/ q.pc = "finish"
           \/ r.pc = "new" /\ q.pc = "plan"
           \/ r.pc = "plan" /\ q.pc = "prepare"
    BY <1>1, <1>7, NextPc DEF Start, Plan, Exhaust, r, q
  <2>2. q.pc = "finish" => StepsAhead(q) = 1
    BY DEF StepsAhead
  <2>. QED
    BY <1>6, <2>1, <2>2 DEF StepsAhead
<1>8. CASE Prepare(c)
  <2>1. r.pc = "prepare" /\ q = [r EXCEPT !.pc = "gate", !.state = "planned",
                                          !.hist = ContactHistory(c)]
    BY <1>2, <1>8 DEF Prepare, r
  <2>2. q.pc = "gate" /\ q.step = r.step
    BY <1>1, <2>1 DEF RunState
  <2>. QED
    BY <1>3, <2>1, <2>2 DEF StepsAhead
<1>9. CASE Defer(c) \/ ActFails(c)
  <2>1. r.pc \in {"gate", "act"} /\ q.pc = "gate" /\ q.step = r.step + 1
    BY <1>2, <1>4, <1>9 DEF Defer, ActFails, StepsLeft, r
  <2>. QED
    BY <1>1, <2>1 DEF StepsAhead
<1>10. CASE Decide(c)
  <2>1. /\ r.pc = "gate"
        /\ q \in {[r EXCEPT !.pc = "act"], Closing(r, "escalated"), NextStep(r)}
    BY <1>2, <1>10 DEF Decide, StepsLeft, AfterDecision, r
  <2>2. CASE q = [r EXCEPT !.pc = "act"]
    <3>1. q.pc = "act" /\ q.step = r.step
      BY <1>1, <2>2 DEF RunState
    <3>. QED
      BY <1>1, <2>1, <3>1 DEF StepsAhead
  <2>3. CASE q = Closing(r, "escalated")
    BY <1>5, <1>6, <2>1, <2>3 DEF StepsAhead
  <2>4. CASE q = NextStep(r)
    <3>1. q.pc = "gate" /\ q.step = r.step + 1
      BY <1>4, <2>4
    <3>. QED
      BY <1>1, <2>1, <3>1 DEF StepsAhead
  <2>. QED
    BY <2>1, <2>2, <2>3, <2>4
<1>11. CASE Execute(c)
  <2>1. r.pc = "act" /\ q.pc = "respond" /\ q.step = r.step
    BY <1>1, <1>11 DEF Execute, Becomes, RunState, r, q
  <2>. QED
    BY <1>1, <2>1 DEF StepsAhead
<1>12. CASE HearBack(c)
  <2>1. r.pc = "respond" /\ \/ q.pc = "finish"
                            \/ q.pc = "gate" /\ q.step = r.step + 1
    BY <1>2, <1>4, <1>5, <1>12 DEF HearBack, AfterReply, r
  <2>. QED
    BY <1>1, <1>6, <2>1 DEF StepsAhead
<1>13. CASE Finish(c)
  <2>1. r.pc = "finish" /\ q.pc = "done"
    BY <1>13, NextPc DEF Finish, r, q
  <2>. QED
    BY <2>1 DEF StepsAhead
<1>. QED
  BY <1>7, <1>8, <1>9, <1>10, <1>11, <1>12, <1>13 DEF Handle, r, q

LEMMA TalliesInit == Init => Tallies
BY DEF Init, Fresh, Tallies, Tally

LEMMA TalliesStep == Inv /\ Tallies /\ [Next]_vars => Tallies'
<1>. SUFFICES ASSUME Inv, Tallies, [Next]_vars PROVE Tallies'
  OBVIOUS
<1>1. ASSUME NEW c \in Cases, Step(c)
      PROVE  Tallies'
  <2>1. \A d \in Cases : d # c => run'[d] = run[d]
    BY <1>1, StepWrites
  <2>2. Tally(run'[c])
    <3>1. CASE Crash(c)
      <4>1. run'[c] = Fresh(info[c])
        BY <3>1 DEF Crash, Becomes, Inv, TypeOK
      <4>. QED
        BY <4>1 DEF Fresh, Tally
    <3>. QED
      BY <1>1, <3>1, TallyStays, TallyGrows DEF Step, Tallies
  <2>. QED
    BY <2>1, <2>2 DEF Tallies
<1>2. CASE UNCHANGED run
  BY <1>2 DEF Tallies
<1>. QED
  BY <1>1, <1>2 DEF Next, Step, MarkOutage, ClearOutage, AllDone, vars

\* Each step brings its case nearer to the end, from fourteen steps away at most;
\* only an exception takes it back.
NearerOrBroken ==
  [][\A c \in Cases : \/ run'[c] = run[c]
                      \/ StepsAhead(run'[c]) < StepsAhead(run[c])
                      \/ Crash(c)]_vars

\* With any threads, stores, outages and limits, no handler goes round for ever,
\* and none makes more than three actions: the part of HandlerReturns that does
\* not depend on fairness.
THEOREM HandlersAreBounded ==
  Spec => /\ NearerOrBroken
          /\ [](\A c \in Cases : StepsAhead(run[c]) \in 0..14 /\ run[c].attempts <= 3)
<1>1. Inv /\ Tallies /\ [Next]_vars =>
        [\A c \in Cases : \/ run'[c] = run[c]
                          \/ StepsAhead(run'[c]) < StepsAhead(run[c])
                          \/ Crash(c)]_vars
  <2>. SUFFICES ASSUME Inv, Tallies, Next, NEW d \in Cases
                PROVE  \/ run'[d] = run[d]
                       \/ StepsAhead(run'[d]) < StepsAhead(run[d])
                       \/ Crash(d)
    OBVIOUS
  <2>1. ASSUME NEW c \in Cases, Step(c)
        PROVE  \/ run'[d] = run[d]
               \/ StepsAhead(run'[d]) < StepsAhead(run[d])
               \/ Crash(d)
    BY <2>1, StepWrites, EachStepIsNearer DEF Step, Tallies
  <2>2. CASE UNCHANGED run
    BY <2>2
  <2>. QED
    BY <2>1, <2>2 DEF Next, Step, MarkOutage, ClearOutage, AllDone, vars
<1>2. Inv /\ Tallies => \A c \in Cases : StepsAhead(run[c]) \in 0..14 /\ run[c].attempts <= 3
  BY CaseFacts, AheadTyped DEF CaseInv, Tallies, Tally
<1>. QED
  BY <1>1, <1>2, InvInit, InvStep, TalliesInit, TalliesStep, PTL DEF Spec, NearerOrBroken
=============================================================================

--------------------------------- MODULE Batch ---------------------------------
(***************************************************************************)
(* evaluation/batch.py with learning/bandit.py: a generated batch of cases *)
(* is run through the recovery flow one after the other, with or without a *)
(* bandit that picks the channel of the messages, and is then reported.    *)
(* The bandit samples; here it may pick any arm, and only the evidence it  *)
(* keeps is modelled.  The batch passes no Customer-360 store: each case   *)
(* has a customer of its own, so that the store of RecoveryFlow says       *)
(* nothing a case does not know, and its budget is out of reach.           *)
(***************************************************************************)
EXTENDS RecoveryFlow, Functions

Arms == {"whatsapp", "sms", "email"}
Segments == {"consumer", "business"}
N == Cardinality(Cases)

ASSUME BatchAssumption ==
  /\ Cases = 1..N /\ Customers = Cases
  /\ DailyBudget > 3 * N

\* Any case may be wired with a chooser, on any arm.
ASSUME ChooserAssumption ==
  \A i \in CaseInfos, a \in Arms : [i EXCEPT !.channel = a] \in CaseInfos

VARIABLES
  segment,        \* Scenario.segment
  learning,       \* whether there is a bandit
  at,             \* the case the loop of run_batch_full has reached
  arm,            \* the arm chosen for it
  posterior       \* ThompsonBandit._stats

bvars == <<vars, segment, learning, at, arm, posterior>>

\* Mutated form of Generated: BATCH_START is at any hour.
GeneratedAtNight(c, i, s) ==
  /\ i.id = c /\ i.customer = c /\ i.amount >= 199
  /\ i.channel = None /\ ~i.llm /\ ~i.executor /\ ~i.dryRun /\ ~i.kill /\ i.cell = None
  /\ i.code \in HardCodes => i.persona = "never_payer"
  /\ i.code \in HardCodes \cup DOMAIN CodeCandidates \cup {"OVERDUE", "SESSION_EXPIRED"}
  /\ i.type = "overdue_invoice" <=> i.code = "OVERDUE"
  /\ i.type = "checkout_abandoned" <=> i.code = "SESSION_EXPIRED"
  /\ i.preferred \in Arms
  /\ i.type = "overdue_invoice" => s = "business"

\* What generate_scenarios may draw as the c-th scenario, and the wiring.
Generated(c, i, s) ==
  /\ i.id = c /\ i.customer = c /\ i.amount >= 199 /\ HourOfDay(i.at) = 14
  /\ i.channel = None /\ ~i.llm /\ ~i.executor /\ ~i.dryRun /\ ~i.kill /\ i.cell = None
  /\ i.code \in HardCodes => i.persona = "never_payer"
  /\ i.code \in HardCodes \cup DOMAIN CodeCandidates \cup {"OVERDUE", "SESSION_EXPIRED"}
  /\ i.type = "overdue_invoice" <=> i.code = "OVERDUE"
  /\ i.type = "checkout_abandoned" <=> i.code = "SESSION_EXPIRED"
  /\ i.preferred \in Arms
  /\ i.type = "overdue_invoice" => s = "business"

BatchInit ==
  /\ Init
  /\ segment \in [Cases -> Segments]
  /\ \A c \in Cases : Generated(c, info[c], segment[c])
  /\ learning \in BOOLEAN
  /\ at = 1 /\ arm = None
  /\ posterior = [x \in Segments \X Arms |-> [alpha |-> 1, beta |-> 1]]

\* ThompsonBandit.choose, and the chooser bound to its arm.
Choose ==
  /\ at <= N /\ learning /\ arm = None
  /\ \E a \in Arms : arm' = a /\ info' = [info EXCEPT ![at].channel = a]
  /\ UNCHANGED <<run, trail, shared, marked, crashes, segment, learning, at, posterior>>

RunCase ==
  /\ at <= N /\ (learning => arm # None)
  /\ Start(at) \/ Handle(at)
  /\ UNCHANGED <<segment, learning, at, arm, posterior>>

Executed(c, kinds) == {k \in DOMAIN run[c].executed : run[c].executed[k].kind \in kinds}

Paid(c) == run[c].last = "paid"

\* Mutated form of Credited: every case of the batch is evidence.
CreditedAlways(c) == learning

Credited(c) == learning /\ Executed(c, {"message"}) # {}

\* The count of an arm after one more outcome.
Updated(seen, success) ==
  IF success THEN [alpha |-> seen.alpha + 1, beta |-> seen.beta]
             ELSE [alpha |-> seen.alpha, beta |-> seen.beta + 1]

\* ThompsonBandit.update, if a message went out, and on to the next case.
Learn ==
  /\ at <= N /\ run[at].pc = "done"
  /\ posterior' =
       IF ~Credited(at) THEN posterior
       ELSE [posterior EXCEPT ![<<segment[at], arm>>] = Updated(@, Paid(at))]
  /\ at' = at + 1 /\ arm' = None
  /\ UNCHANGED <<vars, segment, learning>>

Reported == at > N /\ UNCHANGED bvars

BatchNext == Choose \/ RunCase \/ Learn \/ Reported

BatchSpec == BatchInit /\ [][BatchNext]_bvars

-----------------------------------------------------------------------------
(* The figures of the report. *)

Amounts == [c \in Cases |-> info[c].amount]
Sum(cs) == SumFunctionOnSet(Amounts, cs)
EndedAs(state) == {c \in Cases : run[c].state = state}
PaidCases == {c \in Cases : Paid(c)}
ByPlaybook ==
  [playbook \in PlaybookNames |-> Sum({c \in PaidCases : run[c].playbook = playbook})]

BaselineDoNothing == Sum({c \in Cases : info[c].persona = "self_cure"})

BaselineNaiveRetry ==
  Sum({c \in Cases : \E attempt \in 1..3 :
         Respond(info[c].persona, Retry, attempt, None) = "paid"})

\* The i-th quarter of the learning curve, as positions in the batch.
Chunk(n, i) ==
  LET quartile == IF n \div 4 > 1 THEN n \div 4 ELSE 1
  IN {k \in 0..(n - 1) : i * quartile <= k /\ (i < 3 => k < (i + 1) * quartile)}

-----------------------------------------------------------------------------
Finished == at > N

\* Every case is counted as recovered, escalated or abandoned, once, and those
\* that paid are the recovered ones.
CasesAddUp ==
  /\ PaidCases = EndedAs("recovered")
  /\ Cardinality(PaidCases) + Cardinality(EndedAs("escalated"))
       + Cardinality(EndedAs("abandoned")) = N

\* The headline is honest and adds up: what self-cure customers would have paid
\* anyway is recovered too, so the increment over doing nothing is never below
\* zero; the baselines and the result lie within what was at risk; every case is
\* counted once; and every rupee recovered is some playbook's.
IncrementIsHonest ==
  Finished =>
    /\ BaselineDoNothing <= Sum(PaidCases)
    /\ BaselineDoNothing <= BaselineNaiveRetry
    /\ BaselineNaiveRetry <= Sum(Cases) /\ Sum(PaidCases) <= Sum(Cases)
    /\ CasesAddUp
    /\ SumFunction(ByPlaybook) = Sum(PaidCases)

\* The bandit learns from the messages that went out over the arm, in the
\* segment of their customer: each case counts once, for no arm but the one its
\* messages were sent on, with the outcome of the case.
CreditIsForTheArm ==
  \A s \in Segments, a \in Arms :
    LET sent == {c \in 1..(at - 1) :
                   /\ segment[c] = s
                   /\ \E k \in Executed(c, {"message"}) : run[c].executed[k].channel = a}
        seen == posterior[<<s, a>>]
    IN learning => /\ seen.alpha - 1 = Cardinality(sent \cap PaidCases)
                   /\ seen.beta - 1 = Cardinality(sent \ PaidCases)
=============================================================================

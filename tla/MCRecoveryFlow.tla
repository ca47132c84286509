---------------------------- MODULE MCRecoveryFlow ----------------------------
(***************************************************************************)
(* Small instances of RecoveryFlow for TLC: the sets of cases, personas    *)
(* and wirings that the configurations draw from.  Hours are counted from  *)
(* a midnight: 12 is noon of day 0, 31 is 7:00 of day 1.  In a run of two  *)
(* Case objects, both may have one case id.                                *)
(***************************************************************************)
EXTENDS RecoveryFlow, TLC

MCNeverRetryCodes == HardCodes

MCSymmetry == Permutations(Cases)

\* A card-expired payment of 2000 rupees detected at noon, wired the way
\* gateway/pipeline.py does: no diagnostician, no chooser, no executor.
Base ==
  [id |-> None, type |-> "payment_failure", customer |-> "asha", amount |-> 2000,
   code |-> "CARD_EXPIRED", at |-> 12, cell |-> None, persona |-> "never_payer",
   preferred |-> None, channel |-> None, llm |-> FALSE, dryRun |-> FALSE,
   kill |-> FALSE, executor |-> FALSE]

\* One case for each playbook and one that no playbook fits; subscriptions
\* with the two playbooks that retry.
ByPlaybook ==
  {Base,
   [Base EXCEPT !.code = "INSUFFICIENT_FUNDS", !.type = "subscription_failure"],
   [Base EXCEPT !.code = "GATEWAY_TIMEOUT"],
   [Base EXCEPT !.code = "GATEWAY_TIMEOUT", !.type = "subscription_failure"],
   [Base EXCEPT !.type = "overdue_invoice", !.code = "OVERDUE"],
   [Base EXCEPT !.type = "checkout_abandoned", !.code = "SESSION_EXPIRED"],
   [Base EXCEPT !.code = "UNKNOWN"]}

\* Cases of one customer whose clocks overlap, at the last hour before the
\* quiet ones and the first of them, at their last and the first after them, or
\* lie most of a week apart.
MCOneCustomer ==
  {[i EXCEPT !.id = c, !.at = t, !.persona = p] :
     c \in Cases, i \in ByPlaybook, t \in {12, 20, 21, 32, 33, 132},
     p \in {"never_payer", "disputer", "promise_breaker"}}

\* Cases handled side by side, with an executor that may fail at any step.
MCOverlapping ==
  {[i EXCEPT !.id = c, !.persona = p, !.executor = TRUE] :
     c \in Cases,
     i \in {Base,
            [Base EXCEPT !.code = "INSUFFICIENT_FUNDS", !.type = "subscription_failure",
                         !.at = 20],
            [Base EXCEPT !.code = "GATEWAY_TIMEOUT", !.type = "subscription_failure"]},
     p \in {"promise_breaker", "salary_cycle"}}

\* Two handlers of one case, on a playbook of two steps: one that may fail at
\* each, and one that ends at the first.
MCTwice ==
  LET twice == [Base EXCEPT !.type = "checkout_abandoned", !.code = "SESSION_EXPIRED"]
  IN {[i EXCEPT !.id = c] :
        c \in Cases,
        i \in {[twice EXCEPT !.executor = TRUE], [twice EXCEPT !.persona = "disputer"]}}

\* MCOverlapping for handlers of different cases, MCTwice for those of one.
OverlapInfos == MCOverlapping \cup MCTwice

OverlapInit ==
  Init /\ \A c \in Cases : HandledAlone(info[c].id) <=> info[c] \in MCOverlapping

OverlapSpec == OverlapInit /\ [][Next]_vars

\* What follows a breakdown is left out for handlers of one case with an executor.
OverlapBound ==
  crashes > 0 => \A c \in Cases : info[c].executor => HandledAlone(info[c].id)

\* A case that is contacted, and one that promises, pays or opts out.
MCRace ==
  {[Base EXCEPT !.id = c, !.persona = p] : c \in Cases, p \in {"never_payer", "disputer"}}

\* Every wiring run_case accepts, on cases of every fate.
Wired ==
  {[i EXCEPT !.id = c, !.persona = p, !.llm = l, !.dryRun = d, !.kill = k, !.executor = e,
             !.channel = ch] :
     c \in Cases,
     i \in {[Base EXCEPT !.code = "ISSUER_UNAVAILABLE", !.cell = "upi_hdfc"],
            [Base EXCEPT !.code = "INSUFFICIENT_FUNDS", !.amount = 12000,
                         !.preferred = "email"],
            [Base EXCEPT !.code = "INSUFFICIENT_FUNDS", !.amount = 50],
            [Base EXCEPT !.code = "FRAUD_SUSPECTED", !.type = "overdue_invoice"],
            [Base EXCEPT !.code = "UNKNOWN", !.amount = 12000]},
     p \in Personas, l \in BOOLEAN, d \in BOOLEAN, k \in BOOLEAN, e \in BOOLEAN,
     ch \in {None, "email"}}

\* Every case type and error code, at the amounts on either side of which an
\* option of a ranking breaks even, rounding included.
Priced ==
  {[Base EXCEPT !.id = c, !.type = t, !.code = code, !.amount = a] :
     c \in Cases, t \in CaseTypes, code \in HardCodes \cup DOMAIN SoftPrior \cup {"OVERDUE", "UNKNOWN"},
     a \in {0, 33, 34, 35, 65, 66, 80, 90, 109, 110, 111, 120, 121, 122, 161, 162, 163, 300}}

MCWirings == Wired \cup Priced

\* The products p * amount / 100 on half a rupee that floating point puts
\* beside the half, for the percentages of the tables and amounts up to 300.
DoublesAbove == {55} \X {50, 90, 110, 170, 190, 210, 230}
DoublesBelow == ({35} \X {90, 170}) \cup ({82} \X {75})

\* A sound answer, one below the confidence floor, one that names no playbook
\* of ours, one out of range and one that does not parse.
MCLLMAnswers ==
  LET sound == [wellFormed |-> TRUE, playbook |-> "dunning", odds |-> 70,
                confidence |-> 90]
  IN {sound,
      [sound EXCEPT !.playbook = "manual_review"],
      [sound EXCEPT !.playbook = "smart_retry"],
      [sound EXCEPT !.odds = 0],
      [sound EXCEPT !.playbook = "update_method", !.confidence = 59],
      [sound EXCEPT !.playbook = "call_the_bank"],
      [sound EXCEPT !.odds = 170],
      [sound EXCEPT !.wellFormed = FALSE]}
=============================================================================

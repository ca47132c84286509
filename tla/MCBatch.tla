-------------------------------- MODULE MCBatch --------------------------------
(***************************************************************************)
(* A small instance of Batch: two cases of every playbook, of customers    *)
(* who pay anyway, who answer on one channel, who never pay; by day and,   *)
(* for what generate_scenarios must not draw, by night.                    *)
(***************************************************************************)
EXTENDS Batch

MCNeverRetryCodes == HardCodes

MCScenarios ==
  {[id |-> c, type |-> kind[1], customer |-> c, amount |-> amount, code |-> kind[2],
    at |-> at0, cell |-> None, persona |-> persona, preferred |-> "email", channel |-> channel,
    llm |-> FALSE, dryRun |-> FALSE, kill |-> FALSE, executor |-> FALSE] :
     c \in Cases, amount \in {199, 12000}, at0 \in {14, 22}, channel \in Arms \cup {None},
     kind \in {<<"payment_failure", "INSUFFICIENT_FUNDS">>,
               <<"subscription_failure", "GATEWAY_TIMEOUT">>,
               <<"payment_failure", "CARD_BLOCKED">>,
               <<"overdue_invoice", "OVERDUE">>,
               <<"checkout_abandoned", "SESSION_EXPIRED">>},
     persona \in {"self_cure", "needs_reminder", "salary_cycle", "never_payer"}}
=============================================================================

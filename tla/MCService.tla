------------------------------- MODULE MCService -------------------------------
(***************************************************************************)
(* A small instance of Service: cases of one customer who opts out when    *)
(* contacted, or pays when retried.                                        *)
(***************************************************************************)
EXTENDS Service

MCNeverRetryCodes == HardCodes

MCServed ==
  LET base == [id |-> None, type |-> "payment_failure", customer |-> "asha", amount |-> 2000,
               code |-> "INSUFFICIENT_FUNDS", at |-> 12, cell |-> None,
               persona |-> "disputer", preferred |-> None, channel |-> None,
               llm |-> FALSE, dryRun |-> FALSE, kill |-> FALSE, executor |-> FALSE]
  IN {[i EXCEPT !.id = c] :
        c \in Cases,
        i \in {base, [base EXCEPT !.code = "GATEWAY_TIMEOUT", !.persona = "cooperative"]}}
=============================================================================

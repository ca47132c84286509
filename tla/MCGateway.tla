------------------------------- MODULE MCGateway -------------------------------
(***************************************************************************)
(* A small instance of Gateway for TLC.                                    *)
(***************************************************************************)
EXTENDS Gateway

\* A payment whose failure is announced (the other is left to the poller) and
\* a subscription, whose event comes without an event id.
MCEvents ==
  {[id |-> "evt1", case |-> "pay1"], [id |-> None, case |-> "sub1"]}
=============================================================================

------------------------------- MODULE MCRelay -------------------------------
(* Instances of Relay: one gathering, and two that share the relay. *)
EXTENDS Relay

OneGathering == <<1>>
TwoGatherings == <<1, 4>>
==============================================================================

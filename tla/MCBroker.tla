------------------------------ MODULE MCBroker ------------------------------
(* Instances of BrokerSession for TLC. *)
EXTENDS BrokerSession

CONSTANTS a, b, c

Provisioning == <<Shade(a, TRUE, 7), Shade(b, TRUE, 8)>>
=============================================================================

----------------------------- MODULE MCRegistry -----------------------------
(* The instances of Registry that TLC checks. *)
EXTENDS Registry

OneCapability == {<<"nat_punch">>}

ClientKinds == {"REG", "CONNECT", "UNREG", "LIST", "V6_JOIN", "RELAY_JOIN"}

PairKinds == {"REG", "CONNECT", "UNREG", "TUN_IP", "NAT_INFO", "NAT_ARMED", "NAT_RETRY", "V6_JOIN"}

\* replies and handled are written and never read by an action.
ServerState == <<room, nextNatAttemptId, stale, relay>>
=============================================================================

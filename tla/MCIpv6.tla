------------------------------- MODULE MCIpv6 -------------------------------
(* The instance of Ipv6Fallback that TLC checks. *)
EXTENDS Ipv6Fallback

\* The keepalives of b alone are too few for a.
MCKeepalive == [s \in Sides |-> IF s = "a" THEN 1 ELSE 3]
MCPeerTimeout == [s \in Sides |-> Keepalive[s] + 1]
MCLives == [s \in Sides |-> IF s = "a" THEN 2 ELSE 1]
MCAccepts == {[s \in Sides |-> s \in set] : set \in {{}, {"b"}, Sides}}
=============================================================================

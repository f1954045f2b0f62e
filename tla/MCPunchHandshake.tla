-------------------------- MODULE MCPunchHandshake --------------------------
(* The instance of PunchHandshake that TLC checks. *)
EXTENDS PunchHandshake

SomeLives == [side \in Sides |-> IF side = "Sender" THEN 2 ELSE 2]

\* One of the two processes is never replaced; the proofs have no such bound.
OneStays == \E side \in Sides : life'[side] = 1

BoundedSpec == Init /\ [][PatientNext /\ OneStays]_vars /\ Fairness
=============================================================================

---------------------------- MODULE MCNatSession ----------------------------
(* The instances of NatSession that TLC checks. *)
EXTENDS NatSession, TLC

OneCapability == {<<"nat_punch">>}

\* 1 calls 2, which waits.
OneCalls == [n \in {1} |-> 2]

TwoAttempts == [n \in Nodes |-> 2]

\* replies and handled are written and never read by an action.
SessionState == <<room, nextNatAttemptId, stale, client, network, history>>

\* The registry and the clients only ever compare reports.
SameReports == Permutations(Reports)
=============================================================================

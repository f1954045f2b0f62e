---------------------------- MODULE RegistryFair ----------------------------
(***************************************************************************)
(* The registry with nodes that fall silent for good: the process is       *)
(* killed, or its uplink is cut, and no UNREG is ever delivered.  The      *)
(* server keeps its promise to the survivors by its own loop alone, which  *)
(* runs at least once per receive timeout (src/rendezvous/server.cpp).     *)
(***************************************************************************)
EXTENDS Registry

VARIABLE silent     \* the nodes nothing more is received from

fairVars == <<room, nextNatAttemptId, stale, relay, replies, handled, silent>>

FairInit == Init /\ silent = {}

GoSilent(n) ==
    /\ silent' = silent \cup {n}
    /\ UNCHANGED vars

\* The registration of a silent node is never refreshed again: it gets old.
SilenceAges(n) == n \in silent /\ Age(n) /\ UNCHANGED silent

LoopTurns == Tick /\ UNCHANGED silent

\* What happens beside the loop: time passes, relay workers end.
Background ==
    \/ \E n \in Nodes : Age(n)
    \/ \E pair \in relay : RelayFinish(pair)

FairNext ==
    \/ \E n \in Nodes \ silent, source \in Sockets :
            Receive(n, source) /\ UNCHANGED silent
    \/ LoopTurns
    \/ Background /\ UNCHANGED silent
    \/ \E n \in Nodes \ silent : GoSilent(n)

\* The clock advances and the receive timeout of one second expires, whatever
\* the nodes do.  No node is assumed to do anything.
Fairness ==
    /\ WF_fairVars(LoopTurns)
    /\ \A n \in Nodes : WF_fairVars(SilenceAges(n))

FairSpec == FairInit /\ [][FairNext]_fairVars /\ Fairness

\* A client is not kept waiting for a partner that fell silent, neither by a
\* pairing nor by a join it keeps repeating: it becomes available again.
PartnerReleased ==
    \A a, b \in Nodes :
        (b \in silent /\ room[a].pairedWith = b) ~> (room[a].pairedWith # b)

\* A slot of the room taken by a silent node is given back.
SlotReleased ==
    \A n \in Nodes : (n \in silent /\ room[n].registered) ~> ~room[n].registered
=============================================================================

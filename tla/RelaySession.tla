---------------------------- MODULE RelaySession ----------------------------
(***************************************************************************)
(* The IPv4 relay: the sessions of Ipv4RelayApp and their worker threads   *)
(* (src/rendezvous/ipv4_relay_app.cpp) under the server's loop, and the    *)
(* clients that join them (src/ipv4_relay_fallback.cpp) and then tunnel    *)
(* through them.  Whether the registry lets a RELAY_JOIN through, and      *)
(* takes an UNREG for the node's own, is a choice here; Registry says when *)
(* it does.                                                                *)
(*                                                                         *)
(* An endpoint is a node and the life of its process: a process that is    *)
(* started again has a new socket.  Between a node and its relay, one HELLO *)
(* and one READY may be on their way, for as long as they like; one sent   *)
(* meanwhile is lost, and so is any other, at most MaxFaults times.  JOIN  *)
(* and its answer, which come again as they were, and UNREG arrive at once *)
(* or not at all.  What a tunnel sends changes no state, and where it goes *)
(* is Reaches.                                                             *)
(***************************************************************************)
EXTENDS Naturals, FiniteSets

CONSTANTS
    Nodes,      \* peer ids
    Wishes,     \* who may want a tunnel with whom
    Ports,      \* config.ipv4RelayPortStart .. config.ipv4RelayPortEnd
    Ids,        \* what the server draws the ids of sessions from
    MaxLives,   \* bound on the starts of each process
    MaxFaults   \* bound on losses, and on sessions that expire half-way

ASSUME NodesAssumption == Nodes \subseteq Nat
ASSUME WishesAssumption == \A wish \in Wishes : wish \in Nodes \X Nodes /\ wish[1] # wish[2]
ASSUME PortsAssumption == Ports \subseteq Nat
ASSUME IdsAssumption == Ids \subseteq Nat \ {0}
ASSUME LivesAssumption == MaxLives \in [Nodes -> Nat \ {0}]
ASSUME FaultsAssumption == MaxFaults \in Nat

VARIABLES
    client,     \* the process of each node
    sessions,   \* Impl::sessions, by pair
    turn,       \* the RELAY_JOIN the server's loop is handling, if any
    net,        \* the datagrams on their way
    faults      \* losses and half-way expiries so far

vars == <<client, sessions, turn, net, faults>>

Pairs == {pair \in SUBSET Nodes : Cardinality(pair) = 2}
Other(pair, node) == CHOOSE other \in pair : other # node

\* phase: off, joining (DiscoverAndConnectIpv4Relay), refused, tunnel.  offer and port:
\* sessionId and relayEndpoint; 0 if there is no offer.
Off(life) == [phase |-> "off", life |-> life, wants |-> 0, offer |-> 0, port |-> 0]
Joining(life, wants) == [Off(life) EXCEPT !.phase = "joining", !.wants = wants]

Idle == [node |-> 0]

\* bound: the life each side is bound to; 0: not bound.
NoSession == [id |-> 0, port |-> 0, bound |-> <<>>, ready |-> FALSE, finished |-> FALSE]
NewSession(pair, id, port) ==
    [id |-> id, port |-> port, bound |-> [node \in pair |-> 0],
     ready |-> FALSE, finished |-> FALSE]

Exists(pair) == sessions[pair] # NoSession
Working(pair) == Exists(pair) /\ ~sessions[pair].finished

Init ==
    /\ client = [node \in Nodes |-> Off(0)]
    /\ sessions = [pair \in Pairs |-> NoSession]
    /\ turn = Idle
    /\ net = {}
    /\ faults = 0

-----------------------------------------------------------------------------
(* Datagrams.  node and life: the client's end; port: the relay's end, 0 for *)
(* the control socket.                                                       *)
Datagram(type, node, life) ==
    [type |-> type, node |-> node, life |-> life, id |-> 0, port |-> 0]

\* Once out of its loop, a process makes nothing of a RELAY_READY.
Listening(m) == client[m.node].phase = "joining" /\ client[m.node].life = m.life

\* The network after the datagrams posted are sent and taken has arrived.
\* Nobody hears what is sent to a process that is gone.
Carry(taken, posted) ==
    LET left == net \ taken
    IN  left \cup {m \in posted : \A other \in left : other.node # m.node \/ other.type # m.type}

ToClients(posted) == {m \in posted : Listening(m)}

\* To both sides, once the session is ready.
SendReady(pair, held) ==
    IF held.ready
    THEN {[Datagram("RELAY_READY", node, held.bound[node]) EXCEPT !.id = held.id, !.port = held.port] :
            node \in {n \in pair : held.bound[n] # 0}}
    ELSE {}

-----------------------------------------------------------------------------
(* The clients. *)
Trying(node) == client[node].phase = "joining"

SendHello(node) ==
    /\ Trying(node)
    /\ client[node].offer # 0
    /\ net' = Carry({}, {[Datagram("RELAY_HELLO", node, client[node].life)
                            EXCEPT !.id = client[node].offer, !.port = client[node].port]})
    /\ UNCHANGED <<client, sessions, turn, faults>>

Accepts(m) ==
    /\ Trying(m.node)
    /\ client[m.node].offer # 0
    /\ m.port = client[m.node].port
    /\ m.id = client[m.node].offer

TakeReady(m) ==
    /\ m.type = "RELAY_READY"
    /\ client' = [client EXCEPT ![m.node].phase = IF Accepts(m) THEN "tunnel" ELSE @]
    /\ net' = Carry({m}, {})
    /\ UNCHANGED <<sessions, turn, faults>>

\* The process is gone, and with it what was on its way to it.
Gone(node) ==
    /\ client' = [client EXCEPT ![node] = Off(@.life)]
    /\ net' = Carry({m \in net : m.node = node /\ m.type = "RELAY_READY"}, {})
    /\ UNCHANGED <<turn, faults>>

\* It is killed, or its UNREG is lost or not taken.
Crash(node) ==
    /\ client[node].phase # "off"
    /\ Gone(node)
    /\ UNCHANGED sessions

Start(node, wants) ==
    /\ client[node].phase = "off"
    /\ client[node].life < MaxLives[node]
    /\ client' = [client EXCEPT ![node] = Joining(@.life + 1, wants)]
    /\ UNCHANGED <<sessions, turn, net, faults>>

-----------------------------------------------------------------------------
(* The server's loop. *)

\* Mutant of Cleaned: the sessions whose workers have ended stay.
CleanedNever(table) == table

\* CleanupFinished.
Cleaned(table) ==
    [pair \in Pairs |-> IF table[pair].finished THEN NoSession ELSE table[pair]]

\* Ipv4RelayApp::Snapshot, at the end of every turn.
Purged(table) == Cleaned(table)

\* What a running client asks for, twice a second until it has an offer.
RelayJoin(node) == [node |-> node, life |-> client[node].life, peer |-> client[node].wants]

\* RelayServerError: whatever the server says is wrong, the mode has failed and
\* says nothing more, though the process may go on.
Rejected(node) == client' = [client EXCEPT ![node] = [Off(@.life) EXCEPT !.phase = "refused"]]

\* RELAY_JOIN: the registry refuses it (peer-busy, unauthorized), or goes on to
\* HandleJoin; a wait for the peer changes nothing.
Refuse(node) ==
    /\ Trying(node)
    /\ turn = Idle
    /\ Rejected(node)
    /\ UNCHANGED <<sessions, turn, net, faults>>

\* HandleJoin, up to CleanupFinished.
Join(node) ==
    /\ Trying(node)
    /\ turn = Idle
    /\ sessions' = Cleaned(sessions)
    /\ turn' = RelayJoin(node)
    /\ UNCHANGED <<client, net, faults>>

\* The ids by which anybody still knows a session.  Those drawn are new; here
\* one that nobody holds any more is as good as new, and which is drawn makes
\* no difference.
HeldIds ==
    {client[node].offer : node \in Nodes} \cup {m.id : m \in net}
        \cup {sessions[pair].id : pair \in Pairs}

BoundPorts == {sessions[pair].port : pair \in {p \in Pairs : Exists(p)}}
Lowest(set) == CHOOSE n \in set : \A other \in set : n <= other

\* The process that sent the join is still there and in its loop.
Asks(join) == Trying(join.node) /\ client[join.node].life = join.life

\* The offer replaces the one held, and HELLO is due at once.
TakeOffer(held) ==
    client' = [client EXCEPT ![turn.node].offer = held.id, ![turn.node].port = held.port]

SendOffer(held) ==
    \/ Asks(turn) /\ TakeOffer(held) /\ UNCHANGED faults
    \/ Asks(turn) /\ faults < MaxFaults /\ faults' = faults + 1 /\ UNCHANGED client
    \/ ~Asks(turn) /\ UNCHANGED <<client, faults>>

\* The rest of HandleJoin, and the purge that follows each turn.  A worker may
\* have ended since CleanupFinished.  The last answer is that no port, no
\* thread or no memory is to be had.
AnswerJoin ==
    LET pair == {turn.node, turn.peer}
        free == Ports \ BoundPorts
        ids == Ids \ HeldIds
        new == NewSession(pair, CHOOSE id \in ids : TRUE, Lowest(free))
    IN  /\ turn # Idle
        /\ turn' = Idle
        /\ \/ /\ Exists(pair)
              /\ SendOffer(sessions[pair])
              /\ sessions' = Purged(sessions)
           \/ /\ ~Exists(pair) /\ free # {} /\ ids # {}
              /\ SendOffer(new)
              /\ sessions' = Purged([sessions EXCEPT ![pair] = new])
           \/ /\ ~Exists(pair)
              /\ IF Asks(turn) THEN Rejected(turn.node) ELSE UNCHANGED client
              /\ sessions' = Purged(sessions)
              /\ UNCHANGED faults
        /\ UNCHANGED net

\* The worker is told to stop and joined, its socket closed: the session is gone.
StopSession == NoSession

RemovePeer(table, node) ==
    [pair \in Pairs |-> IF node \in pair THEN StopSession ELSE table[pair]]

\* The engine ends (ERROR, punch_timeout, Stop, the end of the tunnel) with
\* UNREG.
Leave(node) ==
    /\ client[node].phase # "off"
    /\ turn = Idle
    /\ Gone(node)
    /\ sessions' = Purged(RemovePeer(sessions, node))

\* After a turn or a receive timeout.
Snapshot ==
    /\ turn = Idle
    /\ sessions' = Purged(sessions)
    /\ UNCHANGED <<client, turn, net, faults>>

-----------------------------------------------------------------------------
(* The workers. *)

\* Mutant of Credentials: any HELLO of the two nodes.
CredentialsOfNode(m, pair) == m.node \in pair

\* The session's id, and the side's access key, which came with it.
Credentials(m, pair) == m.node \in pair /\ m.id = sessions[pair].id

Bind(m, pair) ==
    LET bound == [sessions[pair].bound EXCEPT ![m.node] = m.life]
        held == [sessions[pair] EXCEPT
                    !.bound = bound,
                    !.ready = @ \/ \A node \in pair : bound[node] # 0]
    IN  /\ sessions' = [sessions EXCEPT ![pair] = held]
        /\ net' = Carry({m}, ToClients(SendReady(pair, held)))

BoundTo(node, pair) == sessions[pair].bound[node] = client[node].life

\* Packets, keepalives and PEER_CLOSE that one tunnel sends go through a relay,
\* and the other tunnel takes them as coming from its peer.
Reaches(from, to) ==
    \E pair \in Pairs :
        /\ Working(pair) /\ sessions[pair].ready
        /\ \A node \in {from, to} :
              client[node].phase = "tunnel" /\ client[node].port = sessions[pair].port
        /\ {from, to} = pair
        /\ BoundTo(from, pair) /\ BoundTo(to, pair)

\* recvfrom returns a HELLO; without the credentials it means nothing, also to
\* the peer to whom it is forwarded when it comes from a side.
TakeHello(pair, m) ==
    /\ m.type = "RELAY_HELLO"
    /\ Working(pair)
    /\ m.port = sessions[pair].port
    /\ \/ Credentials(m, pair) /\ Bind(m, pair)
       \/ ~Credentials(m, pair) /\ net' = Carry({m}, {}) /\ UNCHANGED sessions
    /\ UNCHANGED <<client, turn, faults>>

\* What is sent to a port where no session is served.
Stray(m) ==
    /\ m.type = "RELAY_HELLO"
    /\ \A pair \in Pairs : Working(pair) => sessions[pair].port # m.port
    /\ net' = Carry({m}, {})
    /\ UNCHANGED <<client, sessions, turn, faults>>

\* The process bound to a side is there and repeats its HELLO, or sends
\* keepalives: timeoutSeconds do not pass without a word from it.
Talks(pair, node) ==
    /\ client[node].life = sessions[pair].bound[node]
    /\ client[node].offer = sessions[pair].id

\* The older of the two lastSeen counts.
Silent(pair) == \E node \in pair : ~Talks(pair, node)

HalfWay(pair) ==
    /\ ~sessions[pair].ready
    /\ \A node \in pair : Trying(node) /\ client[node].wants = Other(pair, node)

\* Mutant of Expire: a session that has been ready is kept.
ExpireUnready(pair) ==
    /\ Working(pair)
    /\ ~sessions[pair].ready
    /\ IF HalfWay(pair) THEN faults < MaxFaults /\ faults' = faults + 1
       ELSE UNCHANGED faults
    /\ sessions' = [sessions EXCEPT ![pair].finished = TRUE]
    /\ UNCHANGED <<client, turn, net>>

\* An unready session expires by its age, the more so while its clients try.
Expire(pair) ==
    /\ Working(pair)
    /\ sessions[pair].ready => Silent(pair)
    /\ IF HalfWay(pair) THEN faults < MaxFaults /\ faults' = faults + 1
       ELSE UNCHANGED faults
    /\ sessions' = [sessions EXCEPT ![pair].finished = TRUE]
    /\ UNCHANGED <<client, turn, net>>

Lose(m) ==
    /\ faults < MaxFaults
    /\ faults' = faults + 1
    /\ net' = Carry({m}, {})
    /\ UNCHANGED <<client, sessions, turn>>

-----------------------------------------------------------------------------
Arrive(m) ==
    \/ TakeReady(m)
    \/ Stray(m)
    \/ \E pair \in Pairs : TakeHello(pair, m)

Next ==
    \/ \E node \in Nodes : SendHello(node) \/ Refuse(node) \/ Join(node) \/ Leave(node) \/ Crash(node)
    \/ \E wish \in Wishes : Start(wish[1], wish[2])
    \/ \E m \in net : Arrive(m) \/ Lose(m)
    \/ AnswerJoin
    \/ Snapshot
    \/ \E pair \in Pairs : Expire(pair)

Spec == Init /\ [][Next]_vars

\* A tunnel that hears nothing of its peer; by peer_timeout (netToTun) it ends.
Deserted(node) ==
    /\ client[node].phase = "tunnel"
    /\ ~Reaches(client[node].wants, node)

\* The loops of client, server and workers run; timeouts of sessions that are
\* left alone, and of tunnels, do pass.  Nobody else has to leave, and no
\* half-way expiry is owed.
Fairness ==
    /\ \A node \in Nodes :
        /\ SF_vars(Join(node))
        /\ WF_vars(SendHello(node))
        /\ WF_vars(\E m \in net : m.node = node /\ TakeReady(m))
        /\ WF_vars(\E m \in net : m.node = node /\ (Stray(m) \/ \E pair \in Pairs : TakeHello(pair, m)))
        /\ WF_vars(Deserted(node) /\ (Leave(node) \/ Crash(node)))
    /\ WF_vars(AnswerJoin)
    /\ \A pair \in Pairs : WF_vars(~HalfWay(pair) /\ Expire(pair))

FairSpec == Spec /\ Fairness

-----------------------------------------------------------------------------
(* Properties. *)

\* What arrives in a tunnel comes from the peer the tunnel leads to, and was
\* meant for this node and sent in the same session, though ports are used
\* again and processes start again.
Isolation ==
    \A from, to \in Nodes :
        Reaches(from, to) =>
            /\ client[from].wants = to /\ client[to].wants = from
            /\ client[from].offer = client[to].offer

\* Two that want each other and stay meet in one tunnel, whatever was left of
\* earlier sessions, and although their session may expire half-way.
Together(pair) ==
    \A node \in pair : client[node].phase \in {"joining", "tunnel"} /\ client[node].wants = Other(pair, node)

Joined(pair) ==
    \A node \in pair :
        client[node].phase = "tunnel" /\ client[node].offer = client[Other(pair, node)].offer

Meets == \A pair \in Pairs : <>[]Together(pair) => []<>Joined(pair)

\* A session of which one side has gone, or has been refused, ends: the other
\* one cannot keep it, and if both are killed nobody will ever UNREG.
Abandoned(pair, node) == Working(pair) /\ client[node].phase \in {"off", "refused"}

SessionEnds == \A pair \in Pairs : \A node \in pair : []<>~Abandoned(pair, node)
=============================================================================

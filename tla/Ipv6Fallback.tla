---------------------------- MODULE Ipv6Fallback ----------------------------
(***************************************************************************)
(* The IPv6 direct connection of two clients: DiscoverAndConnectIpv6       *)
(* (src/ipv6_fallback.cpp), V6_JOIN and UNREG at the server                *)
(* (src/rendezvous/registry.cpp), and the tunnel that follows: the loop of *)
(* netToTun (src/tunnel_engine.cpp) with HandlePeerControl                 *)
(* (src/nat_traversal.cpp).                                                *)
(*                                                                         *)
(* A process and its IPv6 endpoint are named by the life of the process.   *)
(* A tick is the time in which a tunnel's loop wakes up at least once and  *)
(* a datagram arrives or is lost.  What is sent to and by the server       *)
(* arrives at once or, on a lossy network, not at all.                     *)
(***************************************************************************)
EXTENDS Naturals

CONSTANTS
    Keepalive,      \* keepalive_interval of each side, in ticks
    PeerTimeout,    \* peer_timeout
    MaxLives,       \* bound on the starts of each process
    Accepts         \* values of ipv6_accept_inbound of the two

Sides == {"a", "b"}
Peer(side) == IF side = "a" THEN "b" ELSE "a"

ASSUME KeepaliveAssumption == Keepalive \in [Sides -> Nat \ {0}]
ASSUME TimeoutAssumption ==     \* client_config.cpp:277
    /\ PeerTimeout \in [Sides -> Nat]
    /\ \A side \in Sides : PeerTimeout[side] > Keepalive[side]
ASSUME LivesAssumption == MaxLives \in [Sides -> Nat \ {0}]
ASSUME AcceptsAssumption == Accepts \subseteq [Sides -> BOOLEAN]

VARIABLES
    accept,     \* ipv6_accept_inbound of each side
    lossy,      \* the network loses datagrams
    side,       \* the process of each side
    clock,      \* the timers of its tunnel
    room,       \* its record at the server
    net,        \* the datagrams between the two that are on their way
    aimed       \* history: which life of a side has had which life's endpoint

vars == <<accept, lossy, side, clock, room, net, aimed>>

\* phase: ready (a peer is selected), join (the loop), leaving (ERROR came),
\* next (the strategy has failed), nat, refused (see AskNat), tunnel, off.
\* peer: the life whose endpoint is in *peer, 0 if none.  session: the punch
\* session that came with PEER.
Process(life, session) ==
    [phase |-> "ready", life |-> life, session |-> session, peer |-> 0, connector |-> FALSE]

\* quiet: ticks since lastPeerSeen; due: ticks until nextKeepalive.
NewClock(s) == [quiet |-> 0, due |-> Keepalive[s], woken |-> FALSE]

\* socket: which one the endpoint is of.  paired: pairedWith names the peer.
\* session: natSessionId, 0 if empty.  joined: the life whose IPv6 endpoint came
\* with V6_JOIN, 0 if ipv6Joined is not set.  known: the capabilities have come.
Record(life, session, joined) ==
    [life |-> life, socket |-> "main", paired |-> TRUE, session |-> session,
     joined |-> joined, known |-> TRUE]
Absent ==
    [life |-> 0, socket |-> "none", paired |-> FALSE, session |-> 0, joined |-> 0, known |-> FALSE]

Init ==
    /\ accept \in Accepts
    /\ lossy \in BOOLEAN
    /\ side = [s \in Sides |-> Process(1, 1)]
    /\ clock = [s \in Sides |-> NewClock(s)]
    /\ room = [s \in Sides |-> Record(1, 1, 0)]
    /\ net = {}
    /\ aimed = {}

-----------------------------------------------------------------------------
(* Datagrams between the two: of a type and a direction, one at a time. *)
Datagram(type, from, to) ==
    [type |-> type, to |-> to, from |-> side[from].life, life |-> side[from].peer,
     session |-> IF type = "PEER_CLOSE" THEN side[from].session ELSE 0]

Carry(taken, posted) ==
    LET left == net \ taken
    IN  left \cup {m \in posted : \A other \in left : <<other.type, other.to>> # <<m.type, m.to>>}

\* A new or a dead process does not get what was sent to another one.
Reaches(m) == side[m.to].phase # "off" /\ side[m.to].life = m.life

\* Mutant of FromPeer: whoever calls itself the peer.
FromAnyone(m) == side[m.to].peer # 0

\* SameUdpEndpoint(source, *peer)
FromPeer(m) == side[m.to].peer = m.from

-----------------------------------------------------------------------------
(* The server. *)
ResetPairing(record) ==
    IF record = Absent THEN Absent
    ELSE [record EXCEPT !.paired = FALSE, !.session = 0, !.joined = 0]

Erased(s) == [room EXCEPT ![s] = Absent, ![Peer(s)] = ResetPairing(@)]

\* UNREG is taken from the endpoint of the record only.
Unregister(s) ==
    \/ /\ room' = IF room[s].life = side[s].life /\ room[s].socket = "v6" THEN Erased(s) ELSE room
    \/ lossy /\ UNCHANGED room

\* RemoveExpired: a client in a tunnel, or that has gone, sends nothing more.
Expire(s) ==
    /\ room[s] # Absent
    /\ side[s].phase \in {"tunnel", "off"}
    /\ room' = Erased(s)
    /\ UNCHANGED <<accept, lossy, side, clock, net, aimed>>

\* Who is told of a meeting: those whose registered endpoint is the control
\* socket of a process that listens to it.
Told(records) ==
    {s \in Sides : side[s].phase = "join" /\ records[s].socket = "v6"
                     /\ records[s].life = side[s].life}

Hearers(set) == {hearers \in SUBSET set : lossy \/ hearers = set}

\* The side that listens: one that accepts inbound, the smaller id if both do.
Listens(s, t) == accept[s] /\ (~accept[t] \/ s = "a")

-----------------------------------------------------------------------------
(* DiscoverAndConnectIpv6. *)
Phase(s, phase) == side' = [side EXCEPT ![s].phase = phase]

\* What a TCP connection to one of the probe host's addresses may come to.
Remotes == [connects : BOOLEAN, local : {"global unicast", "other"}]

IsIpv6Gua(address) == address = "global unicast"

\* A connection in time, from an address that others can reach.
ProbeOne(remote) == remote.connects /\ IsIpv6Gua(remote.local)

\* One of the addresses will do; there is none if the name does not resolve.
DiscoverReachableGua(remotes) == \E remote \in remotes : ProbeOne(remote)

\* The probe and the sockets; without them the strategy fails, and says nothing
\* to the server.
Begin(s) ==
    /\ side[s].phase = "ready"
    /\ \E remotes \in SUBSET Remotes, sockets \in BOOLEAN :
          Phase(s, IF DiscoverReachableGua(remotes) /\ sockets THEN "join" ELSE "next")
    /\ UNCHANGED <<accept, lossy, clock, room, net, aimed>>

\* V6_JOIN moves the registration to the control socket, or makes one, of a
\* client without capabilities.
Joined(record, life) ==
    [life |-> life, socket |-> "v6", paired |-> TRUE, session |-> record.session,
     joined |-> life, known |-> record.known]

\* V6_JOIN at the server, and its answers: V6_WAIT, ERROR to both, or V6_PEER
\* to both.
Join(s) ==
    LET records == [room EXCEPT ![s] = Joined(@, side[s].life)]
        t == Peer(s)
        met == records[t].joined # 0 /\ records[t].paired
        possible == \E one \in Sides : accept[one]
    IN  /\ side[s].phase = "join"
        /\ room' = records
        /\ \/ /\ ~met
              /\ UNCHANGED <<side, aimed>>
           \/ /\ met /\ ~possible
              /\ \E hearers \in Hearers(Told(records)) :
                    side' = [one \in Sides |->
                        IF one \in hearers THEN [side[one] EXCEPT !.phase = "leaving"]
                        ELSE side[one]]
              /\ UNCHANGED aimed
           \/ /\ met /\ possible
              /\ \E hearers \in Hearers(Told(records)) :
                    /\ side' = [one \in Sides |->
                          IF one \in hearers
                          THEN [side[one] EXCEPT !.peer = records[Peer(one)].joined,
                                    !.connector = IF one = s THEN ~Listens(s, t) ELSE Listens(s, t)]
                          ELSE side[one]]
                    /\ aimed' = aimed \cup
                          {<<one, side[one].life, records[Peer(one)].joined>> : one \in hearers}
        /\ UNCHANGED <<accept, lossy, clock, net>>

\* ERROR, or the deadline.
Fail(s) ==
    /\ side[s].phase \in {"join", "leaving"}
    /\ Phase(s, "next")
    /\ Unregister(s)
    /\ UNCHANGED <<accept, lossy, clock, net, aimed>>

SendPunch(s) ==
    /\ side[s].phase = "join"
    /\ side[s].peer # 0 /\ side[s].connector
    /\ net' = Carry({}, {Datagram("V6_PUNCH", s, Peer(s))})
    /\ UNCHANGED <<accept, lossy, side, clock, room, aimed>>

\* The five copies of V6_PUNCH_ACK are one: all are lost, or one is not.
TakePunch(m) ==
    LET s == m.to
        ack == Datagram("V6_PUNCH_ACK", s, Peer(s))
    IN  /\ m.type \in {"V6_PUNCH", "V6_PUNCH_ACK"}
        /\ Reaches(m)
        /\ side[s].phase = "join"
        /\ FromPeer(m)
        /\ Phase(s, "tunnel")
        /\ clock' = [clock EXCEPT ![s] = NewClock(s)]
        /\ net' = Carry({m}, IF m.type = "V6_PUNCH" THEN {ack} ELSE {})
        /\ Unregister(s)
        /\ UNCHANGED <<accept, lossy, aimed>>

\* ValidateNatPair: both are there, paired with each other, in the session; and
\* NAT_INFO, which comes from the main socket, comes from the registered endpoint.
ValidNatPair(s) ==
    /\ \A one \in Sides : room[one].paired /\ room[one].session = side[s].session
    /\ room[s].life = side[s].life /\ room[s].socket = "main"

\* A mode that comes after IPv6: PunchAdaptiveNat reports.
AskNat(s) ==
    /\ side[s].phase = "next"
    /\ Phase(s, IF ValidNatPair(s) THEN "nat" ELSE "refused")
    /\ UNCHANGED <<accept, lossy, clock, room, net, aimed>>

-----------------------------------------------------------------------------
(* The tunnel. *)
Tunnel(s) == side[s].phase = "tunnel"

\* The process ends.
Quit(s) ==
    /\ Phase(s, "off")
    /\ clock' = [clock EXCEPT ![s] = NewClock(s)]

\* HandlePeerControl; punches and acknowledgements that come late are not taken
\* for a sign of life.
Refreshes(m) == m.type \in {"KEEPALIVE", "KEEPALIVE_ACK"}

\* Only the session that the tunnel began with can close it.
Closes(m) == m.type = "PEER_CLOSE" /\ m.session = side[m.to].session

\* SendPeerDisconnect and SendPeerKeepalive.
Goodbye(s) == {Datagram("PEER_CLOSE", s, Peer(s))}
Ask(s) == {Datagram("KEEPALIVE", s, Peer(s))}

\* Mutant of Answers: keepalives are not acknowledged.
AnswersNothing(m) == {}

Answers(m) ==
    IF m.type = "KEEPALIVE" THEN {Datagram("KEEPALIVE_ACK", m.to, Peer(m.to))} ELSE {}

TakeControl(m) ==
    /\ Reaches(m) /\ Tunnel(m.to)
    /\ \/ /\ FromPeer(m) /\ Closes(m)
          /\ Quit(m.to)
          /\ net' = Carry({m}, {})
       \/ /\ FromPeer(m) /\ Refreshes(m)
          /\ clock' = [clock EXCEPT ![m.to].quiet = 0]
          /\ net' = Carry({m}, Answers(m))
          /\ UNCHANGED side
       \/ /\ ~FromPeer(m) \/ ~(Closes(m) \/ Refreshes(m))
          /\ net' = Carry({m}, {})
          /\ UNCHANGED <<side, clock>>
    /\ UNCHANGED <<accept, lossy, room, aimed>>

\* Mutant of AfterKeepalive: the timer of the peer starts when it is asked.
AfterKeepaliveAsked(s) == [quiet |-> 0, due |-> Keepalive[s], woken |-> TRUE]

AfterKeepalive(s) == [clock[s] EXCEPT !.due = Keepalive[s], !.woken = TRUE]

Overdue(s) == clock[s].quiet > PeerTimeout[s]

\* The loop goes round: a keepalive that is due, and the peer's timeout.
Wake(s) ==
    /\ Tunnel(s)
    /\ ~clock[s].woken
    /\ \/ /\ Overdue(s)
          /\ Quit(s)
          /\ net' = Carry({}, Goodbye(s))
       \/ /\ ~Overdue(s)
          /\ IF clock[s].due = 0
             THEN /\ clock' = [clock EXCEPT ![s] = AfterKeepalive(s)]
                  /\ net' = Carry({}, Ask(s))
             ELSE /\ clock' = [clock EXCEPT ![s].woken = TRUE]
                  /\ UNCHANGED net
          /\ UNCHANGED side
    /\ UNCHANGED <<accept, lossy, room, aimed>>

Next1(clk) == [quiet |-> clk.quiet + 1, due |-> clk.due - 1, woken |-> FALSE]

Tick ==
    /\ \E s \in Sides : Tunnel(s)
    /\ net = {}
    /\ \A s \in Sides : Tunnel(s) => clock[s].woken
    /\ clock' = [s \in Sides |-> IF Tunnel(s) THEN Next1(clock[s]) ELSE clock[s]]
    /\ UNCHANGED <<accept, lossy, side, room, net, aimed>>

\* Stop, or a failure of the adapter.
Stop(s) ==
    /\ Tunnel(s)
    /\ Quit(s)
    /\ net' = Carry({}, Goodbye(s))
    /\ UNCHANGED <<accept, lossy, room, aimed>>

\* The process is killed, or leaves before it is in a tunnel.
Crash(s) ==
    /\ side[s].phase # "off"
    /\ Quit(s)
    /\ UNCHANGED <<accept, lossy, room, net, aimed>>

\* CONNECT finds the two paired still and keeps their session, or makes one.
SessionOf(s) ==
    IF room[s].paired /\ room[Peer(s)].paired
         /\ room[s].session # 0 /\ room[s].session = room[Peer(s)].session
    THEN room[s].session
    ELSE side[s].life + side[Peer(s)].life

\* Capabilities that come for the first time end the pairing there is.
Changed(s) == room[s].paired /\ ~room[s].known

\* The record of the other one.
Called(s) ==
    LET peer == room[Peer(s)]
    IN  [peer EXCEPT !.paired = TRUE, !.session = SessionOf(s),
                     !.joined = IF Changed(s) THEN 0 ELSE peer.joined]

\* Only REG forgets the IPv6 endpoint.
JoinedLeft(s) == {0} \cup (IF lossy /\ ~Changed(s) THEN {room[s].joined} ELSE {})

\* It is started again, REGisters, which may be lost, and CONNECTs: the peer has
\* to be registered, with capabilities.
Restart(s) ==
    /\ side[s].phase = "off"
    /\ side[s].life < MaxLives[s]
    /\ room[Peer(s)].known
    /\ side' = [side EXCEPT ![s] = Process(@.life + 1, SessionOf(s))]
    /\ \E left \in JoinedLeft(s) :
          room' = [room EXCEPT ![s] = Record(side[s].life + 1, SessionOf(s), left),
                               ![Peer(s)] = Called(s)]
    /\ UNCHANGED <<accept, lossy, clock, net, aimed>>

\* Lost, or sent to nobody, or to one who is not in the loop to take it.
Drop(m) ==
    /\ \/ lossy
       \/ ~Reaches(m)
       \/ side[m.to].phase = "join" /\ (~FromPeer(m) \/ m.type \notin {"V6_PUNCH", "V6_PUNCH_ACK"})
       \/ side[m.to].phase \notin {"join", "tunnel"}
    /\ net' = Carry({m}, {})
    /\ UNCHANGED <<accept, lossy, side, clock, room, aimed>>

Arrive(m) == TakePunch(m) \/ TakeControl(m) \/ Drop(m)

Next ==
    \/ \E s \in Sides :
        \/ Begin(s) \/ Join(s) \/ Fail(s) \/ SendPunch(s) \/ AskNat(s)
        \/ Wake(s) \/ Stop(s) \/ Crash(s) \/ Restart(s)
        \/ Expire(s)
    \/ \E m \in net : Arrive(m)
    \/ Tick

Spec == Init /\ [][Next]_vars

\* Loops run, deadlines and time pass.
Fairness ==
    /\ \A s \in Sides : WF_vars(Fail(s)) /\ WF_vars(Wake(s)) /\ WF_vars(Begin(s))
    /\ WF_vars(\E m \in net : Arrive(m))
    /\ WF_vars(Tick)

FairSpec == Spec /\ Fairness

-----------------------------------------------------------------------------
(* Properties. *)

\* Who goes into the tunnel has been aimed at: the process at the endpoint it
\* sends to has had its own endpoint, and not that of an earlier process.
AimedAt ==
    \A s \in Sides : Tunnel(s) => <<Peer(s), side[s].peer, side[s].life>> \in aimed

Connected == \A s \in Sides : Tunnel(s) /\ side[s].peer = side[Peer(s)].life

\* A tunnel whose ends are both there is not given up for the silence of the
\* peer unless datagrams were lost, whatever the two intervals are.
AliveKept ==
    [][\A s \in Sides : (Connected /\ Overdue(s) /\ ~Tunnel(s)') => lossy]_vars

\* A side that is alone in its tunnel, because all acknowledgements were lost
\* or the peer died, leaves it, unless the peer follows.
LoneTunnelEnds ==
    \A s \in Sides : (Tunnel(s) /\ ~Connected) ~> (~Tunnel(s) \/ Connected)

\* doc/ipv6-fallback.md: IPv6 may come before the NAT punch, and when it fails
\* the engine goes on with it.  Where IPv6 has failed for both, and nothing was
\* lost, neither is turned away.
LaterModeServed ==
    \A s \in Sides :
        (side[s].phase = "refused" /\ ~lossy) => side[Peer(s)].phase \notin {"next", "nat", "refused"}
=============================================================================

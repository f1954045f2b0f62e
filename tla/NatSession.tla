----------------------------- MODULE NatSession -----------------------------
(***************************************************************************)
(* The NAT-punch strategy of the clients, composed with the registry that  *)
(* serves them: SelectPeer (src/peer_selection.cpp), the control phases of *)
(* PunchAdaptiveNat and RequestNextNatPunchAttempt                         *)
(* (src/adaptive_nat_traversal.cpp), and the attempt loop of               *)
(* TunnelEngine::WorkerThread (src/tunnel_engine.cpp).                     *)
(*                                                                         *)
(* Where Registry lets any datagram come at any time, here the clients     *)
(* send what the code makes them send.  A datagram that was sent may be    *)
(* received at any time from then on, more than once, or never.            *)
(***************************************************************************)
EXTENDS Registry

CONSTANTS
    Target,         \* config.target_peer_id of the clients that call somebody
    Limit           \* config.nat_punch_attempt_limit of each client

ASSUME TargetAssumption ==
    /\ DOMAIN Target \subseteq Nodes
    /\ \A n \in DOMAIN Target : Target[n] \in Nodes \ {n}
ASSUME LimitAssumption == Limit \in [Nodes -> Nat \ {0}]

VARIABLES
    client,     \* where each client is in its worker thread
    requests,   \* the datagrams to the server that may still arrive
    inbox,      \* the datagrams to the clients that may still arrive
    ready,      \* history: <<client, attempt>> that reached the barrier
    punched,    \* history: <<client, attempt>> that passed it
    asked       \* history: <<client, attempt>> that asked for the next attempt

registry == <<room, nextNatAttemptId, stale, relay, replies, handled>>
network == <<requests, inbox>>
history == <<ready, punched, asked>>
sessionVars == <<registry, client, network, history>>

\* "left" is a client that has given the NAT punch up, or never got a peer.
Phases == {"select", "info", "barrier", "punch", "retry", "tunnel", "left"}

Session == [phase : Phases, peer : Nodes \cup {NoNode}, session : Nat,
            attempt : Nat, token : Nat, role : {"none", "initiator", "responder"},
            number : Nat, report : Reports \cup {NoReport},
            peerReport : Reports \cup {NoReport}]

Selecting == [phase |-> "select", peer |-> NoNode, session |-> 0,
              attempt |-> 0, token |-> 0, role |-> "none",
              number |-> 0, report |-> NoReport, peerReport |-> NoReport]

In(n, phase) == client[n].phase = phase

\* A client that has given up; the attempt it was in stays for the history.
Left(c) == [Selecting EXCEPT !.phase = "left", !.peer = c.peer, !.attempt = c.attempt]

-----------------------------------------------------------------------------
(* Datagrams.  Those a client takes no step for are left out. *)
Heard == {"PEER", "NAT_PEER_INFO", "NAT_START", "NAT_ATTEMPT", "ERROR"}

RequestOf(type, n, target) ==
    [type |-> type, node |-> n, target |-> target, session |-> client[n].session,
     attempt |-> client[n].attempt, report |-> client[n].report]

Send(sent) == requests' = requests \cup sent

\* The client of n goes on as "next"; the registry has no part in it.
Continue(n, next) ==
    /\ client' = [client EXCEPT ![n] = next]
    /\ UNCHANGED registry

SessionInit ==
    /\ Init
    /\ client = [n \in Nodes |-> Selecting]
    /\ requests = {}
    /\ inbox = {}
    /\ ready = {}
    /\ punched = {}
    /\ asked = {}

-----------------------------------------------------------------------------
(* What the clients send: each loop repeats its request every 500 ms. *)
SendProbe(n) ==
    /\ In(n, "select")
    /\ Send({RequestOf("REG", n, NoNode)} \cup
            (IF n \in DOMAIN Target THEN {RequestOf("CONNECT", n, Target[n])} ELSE {}))
    /\ UNCHANGED <<registry, client, inbox, history>>

RequestInPhase(n) ==
    CASE In(n, "info") -> {RequestOf("NAT_INFO", n, client[n].peer)}
      [] In(n, "barrier") -> {RequestOf("NAT_ARMED", n, client[n].peer)}
      [] In(n, "retry") -> {RequestOf("NAT_RETRY", n, client[n].peer)}
      [] OTHER -> {}

SendRequest(n) ==
    /\ RequestInPhase(n) # {}
    /\ Send(RequestInPhase(n))
    /\ UNCHANGED <<registry, client, inbox, history>>

-----------------------------------------------------------------------------
(* What the clients do with what they hear. *)

\* An attempt starts: STUN is asked for the mappings of a new punch socket,
\* which are not those of the socket before.
StartAttempt(n, c) ==
    \E report \in Reports \ {c.report} :
        Continue(n, [c EXCEPT !.phase = "info", !.number = @ + 1,
                              !.report = report, !.peerReport = NoReport])

TakePeer(n, m) ==
    /\ In(n, "select")
    /\ m.node = n /\ m.type = "PEER"
    /\ n \in DOMAIN Target => m.peer = Target[n]
    /\ StartAttempt(n, [client[n] EXCEPT !.peer = m.peer, !.session = m.session,
                                        !.attempt = m.attempt, !.token = m.token,
                                        !.role = m.role])
    /\ UNCHANGED <<network, history>>

\* Mutant of MatchesSession: the attempt of the event is not compared.
MatchesSessionOnly(n, m) == m.session = client[n].session

MatchesSession(n, m) ==
    /\ m.session = client[n].session
    /\ m.attempt = client[n].attempt

TakePeerInfo(n, m) ==
    /\ In(n, "info")
    /\ m.node = n /\ m.type = "NAT_PEER_INFO"
    /\ MatchesSession(n, m)
    /\ m.peer = client[n].peer
    /\ m.role = client[n].role
    /\ Continue(n, [client[n] EXCEPT !.phase = "barrier", !.peerReport = m.report])
    /\ ready' = ready \cup {<<n, client[n].attempt>>}
    /\ UNCHANGED <<network, punched, asked>>

TakeStart(n, m) ==
    /\ In(n, "barrier")
    /\ m.node = n /\ m.type = "NAT_START"
    /\ MatchesSession(n, m)
    /\ Continue(n, [client[n] EXCEPT !.phase = "punch"])
    /\ punched' = punched \cup {<<n, client[n].attempt>>}
    /\ UNCHANGED <<network, ready, asked>>

\* An ERROR names neither session nor attempt: it ends whatever it meets.
TakeError(n, m) ==
    /\ client[n].phase \in {"select", "info", "barrier", "retry"}
    /\ m.node = n /\ m.type = "ERROR"
    /\ Continue(n, Left(client[n]))
    /\ UNCHANGED <<network, history>>

\* The next attempt, or a NAT_ATTEMPT that cannot be: the strategy is over.
TakeAttempt(n, m) ==
    LET c == client[n]
    IN  /\ In(n, "retry")
        /\ m.node = n /\ m.type = "NAT_ATTEMPT"
        /\ IF m.session = c.session /\ m.attempt > c.attempt /\ m.role = c.role
           THEN StartAttempt(n, [c EXCEPT !.attempt = m.attempt, !.token = m.token])
           ELSE Continue(n, Left(c))
        /\ UNCHANGED <<network, history>>

Take(n, m) ==
    \/ TakePeer(n, m)
    \/ TakePeerInfo(n, m)
    \/ TakeStart(n, m)
    \/ TakeError(n, m)
    \/ TakeAttempt(n, m)

-----------------------------------------------------------------------------
(* What ends a phase without a datagram. *)

\* STUN, the exchange of reports, the barrier or the punch takes too long.
Attempting(n) == client[n].phase \in {"info", "barrier", "punch"}

AskAgain(n) ==
    /\ Attempting(n)
    /\ client[n].number < Limit[n]
    /\ Continue(n, [client[n] EXCEPT !.phase = "retry"])
    /\ asked' = asked \cup {<<n, client[n].attempt>>}
    /\ UNCHANGED <<inbox, ready, punched>>

AttemptTimeout(n) ==
    \/ AskAgain(n) /\ UNCHANGED requests
    \/ /\ Attempting(n)
       /\ client[n].number >= Limit[n]
       /\ Continue(n, Left(client[n]))
       /\ UNCHANGED <<network, history>>

\* No peer in time, a plan that is not supported, a socket that fails, no next
\* attempt in time, or Stop.  Once a peer is known the worker unregisters.
Leave(n) ==
    /\ client[n].phase # "left"
    /\ Continue(n, Left(client[n]))
    /\ UNCHANGED <<network, history>>

SendUnreg(n) ==
    /\ In(n, "left") /\ client[n].peer # NoNode
    /\ Send({RequestOf("UNREG", n, NoNode)})
    /\ UNCHANGED <<registry, client, inbox, history>>

\* The punch handshake completes (module PunchHandshake): the peer has been
\* punching in this attempt, though it may have given up since.
Succeed(n) ==
    LET peer == client[n].peer
    IN  /\ In(n, "punch")
        /\ <<peer, client[n].attempt>> \in punched
        /\ Continue(n, [client[n] EXCEPT !.phase = "tunnel"])
        /\ UNCHANGED <<network, history>>

-----------------------------------------------------------------------------
(* The server takes a request: the handlers of Registry. *)
ServeReg(live, m, source) ==
    /\ m.type = "REG"
    /\ \/ RefuseRoomFull(live, m.node, source)
       \/ \E capabilities \in Capabilities : Reg(live, m.node, source, capabilities)

ServeConnect(live, m, source) ==
    /\ m.type = "CONNECT"
    /\ \/ RefuseRoomFull(live, m.node, source)
       \/ \E capabilities \in Capabilities :
            \/ ConnectNotFound(live, m.node, source, capabilities, m.target)
            \/ ConnectRefused(live, m.node, source, capabilities, m.target)
            \/ ConnectAgain(live, m.node, source, capabilities, m.target)
            \/ ConnectPair(live, m.node, source, capabilities, m.target)

ServeUnreg(live, m, source) ==
    /\ m.type = "UNREG"
    /\ Unreg(live, m.node, source)

Valid(live, m, source) ==
    /\ NatValid(live, m.node, source, m.target, m.session)
    /\ ValidateNatSession(live, m.node, m.target, m.session, m.attempt)

Refuse(live, m, source) ==
    NatRefused(live, m.node, source, m.target, m.session, m.attempt)

ServeInfo(live, m, source) ==
    /\ m.type = "NAT_INFO"
    /\ \/ NatInfo(live, m.node, source, m.target, m.session, m.attempt, m.report)
       \/ ~Valid(live, m, source) /\ Refuse(live, m, source)

ServeArmed(live, m, source) ==
    /\ m.type = "NAT_ARMED"
    /\ \/ NatArmed(live, m.node, source, m.target, m.session, m.attempt)
       \/ Refuse(live, m, source)

ServeRetry(live, m, source) ==
    /\ m.type = "NAT_RETRY"
    /\ \/ NatRetryStale(live, m.node, source, m.target, m.session, m.attempt)
       \/ NatRetryWait(live, m.node, source, m.target, m.session, m.attempt)
       \/ NatRetryOpen(live, m.node, source, m.target, m.session, m.attempt)
       \/ /\ ~Valid(live, m, source)
          /\ ~ (/\ NatValid(live, m.node, source, m.target, m.session)
                /\ m.attempt < live[m.node].natAttemptId)
          /\ Refuse(live, m, source)

Handle(m) ==
    LET live == Live
    IN  \E source \in Sockets :
            \/ ServeReg(live, m, source)
            \/ ServeConnect(live, m, source)
            \/ ServeUnreg(live, m, source)
            \/ ServeInfo(live, m, source)
            \/ ServeArmed(live, m, source)
            \/ ServeRetry(live, m, source)

\* Of the replies, those that reach the network.
Deliver(got) ==
    /\ inbox' = inbox \cup {d \in got : d.type \in Heard}
    /\ UNCHANGED <<client, requests, history>>

Serve(m) == Handle(m) /\ Deliver(replies')

ServerAlone ==
    /\ Tick \/ \E n \in Nodes : Age(n)
    /\ UNCHANGED <<client, network, history>>

-----------------------------------------------------------------------------
ClientStep(n) ==
    \/ SendProbe(n) \/ SendRequest(n) \/ SendUnreg(n)
    \/ \E m \in inbox : Take(n, m)
    \/ AttemptTimeout(n) \/ Leave(n) \/ Succeed(n)

SessionNext ==
    \/ \E n \in Nodes : ClientStep(n)
    \/ \E m \in requests : Serve(m)
    \/ ServerAlone

SessionSpec == SessionInit /\ [][SessionNext]_sessionVars

-----------------------------------------------------------------------------
(* Two clients that are left the time they need: the first attempt may fail  *)
(* at any point, nothing else does.  The network may lose any reply, though  *)
(* not for ever the reply to what is repeated, and no request outlives the   *)
(* attempt it was sent in.  (A lost request is one not served yet.)          *)

\* The draws of sessions and tokens succeed.
DrawsSucceed(m) ==
    (\E d \in replies' : d.type = "ERROR") =>
        /\ m.type # "CONNECT"
        /\ m.type = "NAT_RETRY" => ~Valid(Live, m, room[m.node].endpoint)

PatientServe(m) == Serve(m) /\ DrawsSucceed(m)

LossyServe(m) ==
    /\ Handle(m) /\ DrawsSucceed(m)
    /\ \E got \in SUBSET replies' : Deliver(got)

PatientTimeout(n) ==
    /\ client[n].number = 1
    /\ AskAgain(n)
    /\ requests' = {m \in requests : m.node # n}

PatientNext ==
    \/ \E n \in Nodes :
        \/ SendProbe(n) \/ SendRequest(n) \/ PatientTimeout(n)
        \/ \E m \in inbox : Take(n, m)
    \/ \E m \in requests : LossyServe(m)

\* The requests that n repeats where it is now.
Repeated(n) == {m \in requests : m.node = n} \cap
    (IF In(n, "select") /\ n \in DOMAIN Target THEN {RequestOf("CONNECT", n, Target[n])}
     ELSE RequestInPhase(n))

Registers(n) ==
    \E m \in requests : m.node = n /\ m.type = "REG" /\ PatientServe(m)

PatientFairness ==
    \A n \in Nodes :
        /\ WF_sessionVars(SendProbe(n) \/ SendRequest(n))
        /\ WF_sessionVars(Registers(n))
        /\ WF_sessionVars(\E m \in Repeated(n) : PatientServe(m))
        /\ WF_sessionVars(\E m \in inbox : Take(n, m))

PatientSpec == SessionInit /\ [][PatientNext]_sessionVars /\ PatientFairness

-----------------------------------------------------------------------------
(* Properties. *)

Punching(n) == client[n].phase \in {"info", "barrier", "punch", "tunnel"}

\* Two clients at work on one attempt recognise each other's probes: they hold
\* the same session and token, and the roles from which each derives its part
\* of the plan are opposite.
SecretsMatch ==
    \A a, b \in Nodes :
        (a # b /\ Punching(a) /\ Punching(b) /\ client[a].attempt = client[b].attempt)
        => /\ client[a].session = client[b].session
           /\ client[a].token = client[b].token
           /\ {client[a].role, client[b].role} = {"initiator", "responder"}
           /\ client[a].peer = b /\ client[b].peer = a

\* Two clients past the barrier of an attempt have planned with the report the
\* other made for that attempt, never with one of an earlier attempt.
PlansMatch ==
    \A a, b \in Nodes :
        (/\ a # b
         /\ client[a].phase = "punch" /\ client[b].phase = "punch"
         /\ client[a].attempt = client[b].attempt)
        => client[a].peerReport = client[b].report

\* Nobody punches before both have armed; nobody moves on before both asked.
Barrier == INSTANCE AttemptBarrier WITH
    Clients <- Nodes,
    at <- [n \in Nodes |-> client[n].attempt],
    armed <- ready,
    through <- punched,
    asked <- asked

KeepsBarrier == Barrier!BarrierSpec

\* Two clients that both ask for another attempt get one, whatever NAT_RETRY
\* and NAT_ATTEMPT are lost, and reach the punch in it.
RetryReachesPunch ==
    (\A n \in Nodes : In(n, "retry")) ~> (\A n \in Nodes : In(n, "punch"))

\* Two clients that have heard of each other both reach the punch, unless one
\* of them runs out of time; NAT_INFO and NAT_ARMED are repeated for that.
BarrierOpens ==
    (\A n \in Nodes : Attempting(n))
        ~> ((\A n \in Nodes : In(n, "punch")) \/ (\E n \in Nodes : In(n, "retry")))
=============================================================================

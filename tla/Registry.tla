------------------------------ MODULE Registry ------------------------------
(***************************************************************************)
(* The rendezvous server's session registry: one room of                   *)
(* RendezvousRegistry (src/rendezvous/registry.cpp), served by the single  *)
(* receive loop of RendezvousServer::Run (src/rendezvous/server.cpp).      *)
(*                                                                         *)
(* Every action below is one turn of that loop: a datagram is handled, and *)
(* then UpdateSnapshot purges the room once more, so the trailing purge    *)
(* (Settle) is part of every handler.  The datagrams come from any node at *)
(* any time, delayed or duplicated: a datagram that quotes a session or an *)
(* attempt quotes any value the server has handed out so far.              *)
(*                                                                         *)
(* Abstractions: addresses, mappings and TUN addresses are opaque;         *)
(* endpoint is the socket a node last used; a session id and a punch token *)
(* are random in the code and stand here as the number of the attempt they *)
(* are drawn with, which is what "never drawn before" means; reported is   *)
(* "report # NoReport"; time is the set "stale" of registrations whose     *)
(* last datagram is older than the client timeout.                         *)
(***************************************************************************)
EXTENDS Naturals, FiniteSets, Sequences

CONSTANTS
    Nodes,          \* node ids, as numbers: the roles compare them
    Sockets,        \* the local sockets (hence endpoints) a node sends from
    Capabilities,   \* the traversal mode sequences nodes announce
    Reports,        \* the contents a NAT_INFO can report
    Inbound,        \* the values of a V6_JOIN's accept_inbound field
    MaxClients,     \* config.maxClientsPerRoom
    RelayPorts,     \* how many ports the relay may bind; 0 is "disabled"
    MaxAttempt,     \* bound of the model on the attempt ids handed out
    MaxStale,       \* bound of the model on registrations overdue at once
    Kinds           \* bound of the model on the datagram types sent

NoNode == 0
NoSocket == "no socket"
NoReport == "no report"

ASSUME NodesAssumption == Nodes \subseteq Nat \ {NoNode}
ASSUME MarkersAssumption == NoSocket \notin Sockets /\ NoReport \notin Reports
ASSUME InboundAssumption == Inbound \subseteq BOOLEAN
ASSUME LimitsAssumption == /\ MaxClients \in Nat
                           /\ RelayPorts \in Nat
                           /\ MaxAttempt \in Nat
                           /\ MaxStale \in Nat

VARIABLES
    room,               \* rooms[roomId]: the record of every node
    nextNatAttemptId,   \* the next attempt id to hand out
    stale,              \* nodes whose registration is older than the timeout
    relay,              \* node pairs that own a relay session (ipv4_relay_app)
    replies,            \* the datagrams sent in the last turn of the loop
    handled             \* the sender of the datagram handled in that turn

vars == <<room, nextNatAttemptId, stale, relay, replies, handled>>

-----------------------------------------------------------------------------
(* A client record, and the operations on a room. *)

\* IntersectTraversalModes: the caller's order, restricted to the target's.
IntersectTraversalModes(first, second) ==
    LET Supported(mode) == \E i \in DOMAIN second : second[i] = mode
    IN  SelectSeq(first, Supported)

Modes == {<<>>} \cup {IntersectTraversalModes(f, s) :
                        f, s \in Capabilities \cup {<<>>}}

Client == [registered : BOOLEAN,
           endpoint : Sockets \cup {NoSocket},
           pairedWith : Nodes \cup {NoNode},
           ipv6AcceptInbound : BOOLEAN,
           ipv6Joined : BOOLEAN,
           capabilities : Capabilities \cup {<<>>},
           negotiatedModes : Modes,
           pairInitiator : Nodes \cup {NoNode},
           natSessionId : Nat,
           natPunchToken : Nat,
           natAttemptId : Nat,
           natRetryRequested : BOOLEAN,
           report : Reports \cup {NoReport},
           armed : BOOLEAN]

\* A node that is not in the room.
NoClient == [registered |-> FALSE,
             endpoint |-> NoSocket,
             pairedWith |-> NoNode,
             ipv6AcceptInbound |-> FALSE,
             ipv6Joined |-> FALSE,
             capabilities |-> <<>>,
             negotiatedModes |-> <<>>,
             pairInitiator |-> NoNode,
             natSessionId |-> 0,
             natPunchToken |-> 0,
             natAttemptId |-> 0,
             natRetryRequested |-> FALSE,
             report |-> NoReport,
             armed |-> FALSE]

ResetPairing(client) ==
    [client EXCEPT !.pairedWith = NoNode,
                   !.negotiatedModes = <<>>,
                   !.pairInitiator = NoNode,
                   !.natSessionId = 0,
                   !.natPunchToken = 0,
                   !.natAttemptId = 0,
                   !.natRetryRequested = FALSE,
                   !.report = NoReport,
                   !.armed = FALSE,
                   !.ipv6Joined = FALSE]

\* Mutant of Orphan: a pairing made by a join, without a session, is missed.
OrphanWithSession(r, n) ==
    /\ r[n].pairedWith # NoNode /\ ~r[r[n].pairedWith].registered
    /\ r[n].natSessionId # 0

\* The second loop of RemoveExpired, and the loop of UNREG: a client whose
\* partner is not in the room loses its pairing.
Orphan(r, n) == r[n].pairedWith # NoNode /\ ~r[r[n].pairedWith].registered

ReleaseOrphans(r) ==
    IF \A n \in Nodes : ~Orphan(r, n) THEN r
    ELSE [n \in Nodes |-> IF Orphan(r, n) THEN ResetPairing(r[n]) ELSE r[n]]

\* Mutant of Erase: the record outlives the registration.
EraseFlagOnly(r, gone) ==
    [n \in Nodes |-> IF n \in gone THEN [r[n] EXCEPT !.registered = FALSE] ELSE r[n]]

Erase(r, gone) ==
    IF gone = {} THEN r
    ELSE [n \in Nodes |-> IF n \in gone THEN NoClient ELSE r[n]]

RemoveExpired(r, expired) == ReleaseOrphans(Erase(r, expired))

\* Mutant of Settle: the turn ends without the purge of UpdateSnapshot.
Unsettled(r) == r

\* UpdateSnapshot after the handler; nothing is stale by then, for what was
\* stale is erased and the sender's registration has just been refreshed.
Settle(r) == RemoveExpired(r, {})

Registered(r) == {n \in Nodes : r[n].registered}

\* Creates the sender's record, or moves it to the endpoint it now uses.
Admit(r, n, source) ==
    [r EXCEPT ![n] = [(IF @.registered THEN @ ELSE NoClient)
                        EXCEPT !.registered = TRUE, !.endpoint = source]]

\* Mutant of RoomFull: one client too many.
RoomOverfull(r, n) == ~r[n].registered /\ Cardinality(Registered(r)) > MaxClients

RoomFull(r, n) ==
    /\ ~r[n].registered
    /\ Cardinality(Registered(r)) >= MaxClients

\* REG and CONNECT with other capabilities dissolve the sender's pairing.
SetCapabilities(r, n, capabilities) ==
    LET peer == r[n].pairedWith
        changed == r[n].capabilities # capabilities /\ peer # NoNode
        Dissolve(m) == changed /\ (m = n \/ (m = peer /\ r[m].pairedWith = n))
        kept == [m \in Nodes |-> IF Dissolve(m) THEN ResetPairing(r[m]) ELSE r[m]]
    IN  [(IF changed THEN kept ELSE r) EXCEPT ![n].capabilities = capabilities]

\* ValidateNatPair and ValidateNatSession.
ValidateNatPair(r, n, target, session) ==
    /\ r[target].registered
    /\ target # n
    /\ r[n].pairedWith = target
    /\ r[target].pairedWith = n
    /\ r[n].natSessionId = session
    /\ r[target].natSessionId = session

ValidateNatSession(r, n, target, session, attempt) ==
    /\ ValidateNatPair(r, n, target, session)
    /\ r[n].natAttemptId = attempt
    /\ r[target].natAttemptId = attempt

\* Mutant of Busy: what the target is doing is not looked at.
CallerBusy(r, n, target) == r[n].pairedWith \notin {NoNode, target}

\* The pair is taken: one of the two is paired with somebody else.
Busy(r, n, target) ==
    \/ r[n].pairedWith \notin {NoNode, target}
    \/ r[target].pairedWith \notin {NoNode, n}

AlreadyPaired(r, n, target) ==
    /\ r[n].pairedWith = target
    /\ r[target].pairedWith = n
    /\ r[n].negotiatedModes # <<>>
    /\ r[n].negotiatedModes = r[target].negotiatedModes

-----------------------------------------------------------------------------
(* Datagrams the server sends. *)

Datagram(type, n, endpoint) ==
    [type |-> type, node |-> n, endpoint |-> endpoint, peer |-> NoNode,
     session |-> 0, attempt |-> 0, token |-> 0, role |-> "none",
     report |-> NoReport]

Role(r, n) == IF r[n].pairInitiator = n THEN "initiator" ELSE "responder"

\* The fields that every NAT datagram of an attempt carries.
Attempt(type, r, n) ==
    [Datagram(type, n, r[n].endpoint)
        EXCEPT !.session = r[n].natSessionId, !.attempt = r[n].natAttemptId]

PeerReply(r, n, peer) ==
    [Attempt("PEER", r, n) EXCEPT !.peer = peer, !.role = Role(r, n),
                                  !.token = r[n].natPunchToken]

SendNatAttempt(r, n) ==
    [Attempt("NAT_ATTEMPT", r, n) EXCEPT !.role = Role(r, n),
                                         !.token = r[n].natPunchToken]

SendNatPeerInfo(r, n, peer) ==
    [Attempt("NAT_PEER_INFO", r, n) EXCEPT !.peer = peer, !.role = Role(r, n),
                                           !.report = r[peer].report]

V6Peer(r, n, peer, role) ==
    [Datagram("V6_PEER", n, r[n].endpoint) EXCEPT !.peer = peer, !.role = role]

-----------------------------------------------------------------------------
Init ==
    /\ room = [n \in Nodes |-> NoClient]
    /\ nextNatAttemptId = 1
    /\ stale = {}
    /\ relay = {}
    /\ replies = {}
    /\ handled = NoNode

\* Mutant of Live: RemoveExpired runs without removing the expired.
Unpurged == ReleaseOrphans(room)

\* The room as the handler of a datagram finds it.
Live == RemoveExpired(room, stale)

\* The end of a turn of the loop: the room left by the handler is settled and
\* "sent" are the datagrams that went out.
Turn(n, r, sent) ==
    /\ room' = Settle(r)
    /\ stale' = {}
    /\ replies' = sent
    /\ handled' = n

Refused(n, source) == {Datagram("ERROR", n, source)}

\* ERROR peer-not-found: the one refusal that a client sits out.
NotFound(n, source) == {Datagram("PEER_NOT_FOUND", n, source)}

(* HandleSession up to the handlers: REG, CONNECT, V6_JOIN and RELAY_JOIN of *)
(* a newcomer are refused when the room is full.                             *)
RefuseRoomFull(live, n, source) ==
    /\ RoomFull(live, n)
    /\ Turn(n, live, Refused(n, source))
    /\ UNCHANGED <<nextNatAttemptId, relay>>

(* REG *)
Reg(live, n, source, capabilities) ==
    LET r == SetCapabilities(Admit(live, n, source), n, capabilities)
    IN  /\ ~RoomFull(live, n)
        /\ Turn(n, [r EXCEPT ![n].ipv6Joined = FALSE],
                {Datagram("REGISTERED", n, source)})
        /\ UNCHANGED <<nextNatAttemptId, relay>>

(* CONNECT.  The room in which HandleConnect runs: the sender is admitted and *)
(* its capabilities are recorded, whatever the outcome.                       *)
Caller(live, n, source, capabilities) ==
    SetCapabilities(Admit(live, n, source), n, capabilities)

ConnectNotFound(live, n, source, capabilities, target) ==
    LET r == Caller(live, n, source, capabilities)
    IN  /\ ~RoomFull(live, n)
        /\ target = n \/ ~r[target].registered
        /\ Turn(n, r, NotFound(n, source))
        /\ UNCHANGED <<nextNatAttemptId, relay>>

\* peer-busy, no-common-traversal-mode; or server-random-failed, which can
\* strike every CONNECT that would have opened a session.
ConnectRefused(live, n, source, capabilities, target) ==
    LET r == Caller(live, n, source, capabilities)
    IN  /\ ~RoomFull(live, n)
        /\ target # n /\ r[target].registered
        /\ Busy(r, n, target) \/ ~AlreadyPaired(r, n, target)
        /\ Turn(n, r, Refused(n, source))
        /\ UNCHANGED <<nextNatAttemptId, relay>>

\* A CONNECT of a pair that exists (a resend, or the other side calling too)
\* hands out what the pair already has.
ConnectAgain(live, n, source, capabilities, target) ==
    LET r == Caller(live, n, source, capabilities)
    IN  /\ ~RoomFull(live, n)
        /\ target # n /\ r[target].registered
        /\ ~Busy(r, n, target)
        /\ AlreadyPaired(r, n, target)
        /\ Turn(n, r, {PeerReply(r, n, target), PeerReply(r, target, n)})
        /\ UNCHANGED <<nextNatAttemptId, relay>>

\* A pairing of "client" with "peer" under a session, a token and an attempt
\* drawn now.
Paired(client, peer, modes, initiator, fresh) ==
    [client EXCEPT !.pairedWith = peer,
                   !.negotiatedModes = modes,
                   !.pairInitiator = initiator,
                   !.natSessionId = fresh,
                   !.natPunchToken = fresh,
                   !.natAttemptId = fresh,
                   !.natRetryRequested = FALSE,
                   !.report = NoReport,
                   !.armed = FALSE]

\* Mutant of PairUp: the target's record is given no token.
PairUpOneToken(r, n, target, modes, fresh) ==
    [r EXCEPT ![n] = Paired(@, target, modes, n, fresh),
              ![target] = [Paired(@, n, modes, n, fresh) EXCEPT !.natPunchToken = 0]]

PairUp(r, n, target, modes, fresh) ==
    [r EXCEPT ![n] = Paired(@, target, modes, n, fresh),
              ![target] = Paired(@, n, modes, n, fresh)]

ConnectPair(live, n, source, capabilities, target) ==
    LET r == Caller(live, n, source, capabilities)
        modes == IntersectTraversalModes(r[n].capabilities, r[target].capabilities)
        paired == PairUp(r, n, target, modes, nextNatAttemptId)
    IN  /\ nextNatAttemptId <= MaxAttempt
        /\ ~RoomFull(live, n)
        /\ target # n /\ r[target].registered
        /\ ~Busy(r, n, target)
        /\ ~AlreadyPaired(r, n, target)
        /\ modes # <<>>
        /\ nextNatAttemptId' = nextNatAttemptId + 1
        /\ Turn(n, paired, {PeerReply(paired, n, target), PeerReply(paired, target, n)})
        /\ UNCHANGED relay

(* UNREG, honoured only from the endpoint the registration uses now. *)
Unreg(live, n, source) ==
    LET known == live[n].registered /\ live[n].endpoint = source
        gone == IF known THEN {n} ELSE {}
    IN  /\ relay' = {pair \in relay : pair \cap gone = {}}
        /\ Turn(n, RemoveExpired(live, gone), {})
        /\ UNCHANGED nextNatAttemptId

(* NAT_INFO.  A report that differs from the previous one disarms both sides. *)
NatValid(live, n, source, target, session) ==
    /\ live[n].registered
    /\ ValidateNatPair(live, n, target, session)
    /\ live[n].endpoint = source

\* Mutant of StoreReport: only the side that reports is disarmed.
StoreReportOneSided(r, n, target, report) ==
    [r EXCEPT ![n].report = report,
              ![n].armed = r[n].report = report /\ @]

StoreReport(r, n, target, report) ==
    LET same == r[n].report = report
    IN  [r EXCEPT ![n].report = report,
                  ![n].armed = same /\ @,
                  ![target].armed = same /\ @]

NatInfo(live, n, source, target, session, attempt, report) ==
    LET r == StoreReport(live, n, target, report)
    IN  /\ NatValid(live, n, source, target, session)
        /\ ValidateNatSession(live, n, target, session, attempt)
        /\ Turn(n, r, IF r[target].report = NoReport
                      THEN {Attempt("NAT_WAIT", r, n)}
                      ELSE {SendNatPeerInfo(r, n, target), SendNatPeerInfo(r, target, n)})
        /\ UNCHANGED <<nextNatAttemptId, relay>>

(* NAT_ARMED.  The last of the two to arm starts both. *)
\* Mutant of CanArm: the target's report is not waited for.
CanArmOnOwnReport(live, n, source, target, session, attempt) ==
    /\ NatValid(live, n, source, target, session)
    /\ ValidateNatSession(live, n, target, session, attempt)
    /\ live[n].report # NoReport

CanArm(live, n, source, target, session, attempt) ==
    /\ NatValid(live, n, source, target, session)
    /\ ValidateNatSession(live, n, target, session, attempt)
    /\ live[n].report # NoReport
    /\ live[target].report # NoReport

\* Mutants of NatArmed: only one of the two is told to start.
NatArmedStartsTarget(live, n, source, target, session, attempt) ==
    LET r == [live EXCEPT ![n].armed = TRUE]
    IN  /\ CanArm(live, n, source, target, session, attempt)
        /\ Turn(n, r, {IF r[target].armed THEN Attempt("NAT_START", r, target)
                       ELSE Attempt("NAT_ARMED_ACK", r, n)})
        /\ UNCHANGED <<nextNatAttemptId, relay>>

NatArmedStartsCaller(live, n, source, target, session, attempt) ==
    LET r == [live EXCEPT ![n].armed = TRUE]
    IN  /\ CanArm(live, n, source, target, session, attempt)
        /\ Turn(n, r, {Attempt(IF r[target].armed THEN "NAT_START" ELSE "NAT_ARMED_ACK", r, n)})
        /\ UNCHANGED <<nextNatAttemptId, relay>>

NatArmed(live, n, source, target, session, attempt) ==
    LET r == [live EXCEPT ![n].armed = TRUE]
    IN  /\ CanArm(live, n, source, target, session, attempt)
        /\ Turn(n, r, IF r[target].armed
                      THEN {Attempt("NAT_START", r, n), Attempt("NAT_START", r, target)}
                      ELSE {Attempt("NAT_ARMED_ACK", r, n)})
        /\ UNCHANGED <<nextNatAttemptId, relay>>

(* NAT_RETRY: a stale request is answered with the current attempt; the     *)
(* first request of the current attempt waits, the second opens the next.   *)
\* Mutant of NatRetryStale: the attempt that is open is not repeated.
NatRetryUnanswered(live, n, source, target, session, attempt) ==
    /\ NatValid(live, n, source, target, session)
    /\ attempt < live[n].natAttemptId
    /\ Turn(n, live, {})
    /\ UNCHANGED <<nextNatAttemptId, relay>>

NatRetryStale(live, n, source, target, session, attempt) ==
    /\ NatValid(live, n, source, target, session)
    /\ attempt < live[n].natAttemptId
    /\ Turn(n, live, {SendNatAttempt(live, n)})
    /\ UNCHANGED <<nextNatAttemptId, relay>>

RequestRetry(r, n) == [r EXCEPT ![n].natRetryRequested = TRUE]

\* The partner has not asked yet; or it has, and no token can be drawn.
NatRetryWait(live, n, source, target, session, attempt) ==
    LET r == RequestRetry(live, n)
    IN  /\ NatValid(live, n, source, target, session)
        /\ ValidateNatSession(live, n, target, session, attempt)
        /\ Turn(n, r, IF r[target].natRetryRequested
                      THEN {Datagram("ERROR", m, r[m].endpoint) : m \in {n, target}}
                      ELSE {Attempt("NAT_RETRY_WAIT", r, n)})
        /\ UNCHANGED <<nextNatAttemptId, relay>>

\* Mutant of NextAttempt: the report of the old attempt is kept.
NextAttemptKeepsReport(client, fresh) ==
    [client EXCEPT !.natAttemptId = fresh,
                   !.natPunchToken = fresh,
                   !.natRetryRequested = FALSE,
                   !.armed = FALSE]

NextAttempt(client, fresh) ==
    [client EXCEPT !.natAttemptId = fresh,
                   !.natPunchToken = fresh,
                   !.natRetryRequested = FALSE,
                   !.report = NoReport,
                   !.armed = FALSE]

\* Mutants of OpenAttempt: the target stays in its attempt; it keeps its token.
OpenAttemptCaller(r, n, target, fresh) == [r EXCEPT ![n] = NextAttempt(@, fresh)]

OpenAttemptOneToken(r, n, target, fresh) ==
    [r EXCEPT ![n] = NextAttempt(@, fresh),
              ![target] = [NextAttempt(@, fresh) EXCEPT !.natPunchToken = r[target].natPunchToken]]

OpenAttempt(r, n, target, fresh) ==
    [r EXCEPT ![n] = NextAttempt(@, fresh), ![target] = NextAttempt(@, fresh)]

NatRetryOpen(live, n, source, target, session, attempt) ==
    LET r == OpenAttempt(live, n, target, nextNatAttemptId)
    IN  /\ nextNatAttemptId <= MaxAttempt
        /\ NatValid(live, n, source, target, session)
        /\ ValidateNatSession(live, n, target, session, attempt)
        /\ live[target].natRetryRequested
        /\ nextNatAttemptId' = nextNatAttemptId + 1
        /\ Turn(n, r, {SendNatAttempt(r, n), SendNatAttempt(r, target)})
        /\ UNCHANGED relay

(* NAT_INFO, NAT_ARMED and NAT_RETRY that fail validation.  NAT_ARMED is the *)
(* most demanding of the three: whatever one of them refuses, it refuses.    *)
NatRefused(live, n, source, target, session, attempt) ==
    /\ ~CanArm(live, n, source, target, session, attempt)
    /\ Turn(n, live, Refused(n, source))
    /\ UNCHANGED <<nextNatAttemptId, relay>>

(* V6_JOIN.  It is refused for an address that is none (invalid-ipv6-endpoint), *)
(* at any time, or because one of the two is busy; the sender is admitted.     *)
V6Refused(live, n, source, target) ==
    LET r == Admit(live, n, source)
    IN  /\ ~RoomFull(live, n)
        /\ Turn(n, r, Refused(n, source))
        /\ UNCHANGED <<nextNatAttemptId, relay>>

\* The lower node id listens when both sides accept inbound traffic.
Listens(r, n, target) ==
    /\ r[n].ipv6AcceptInbound
    /\ ~r[target].ipv6AcceptInbound \/ n < target

V6Replies(r, n, target) ==
    IF ~(r[target].registered /\ r[target].ipv6Joined /\ r[target].pairedWith = n)
    THEN {Datagram("V6_WAIT", n, r[n].endpoint)}
    ELSE IF ~r[n].ipv6AcceptInbound /\ ~r[target].ipv6AcceptInbound
    THEN {Datagram("ERROR", m, r[m].endpoint) : m \in {n, target}}
    ELSE LET listener == IF Listens(r, n, target) THEN n ELSE target
         IN  {V6Peer(r, m, IF m = n THEN target ELSE n,
                     IF m = listener THEN "listen" ELSE "connect") : m \in {n, target}}

V6Join(live, n, source, target, accept) ==
    LET r == [Admit(live, n, source) EXCEPT ![n].pairedWith = target,
                                            ![n].ipv6AcceptInbound = accept,
                                            ![n].ipv6Joined = TRUE]
    IN  /\ ~RoomFull(live, n)
        /\ ~Busy(Admit(live, n, source), n, target)
        /\ Turn(n, r, V6Replies(r, n, target))
        /\ UNCHANGED <<nextNatAttemptId, relay>>

(* RELAY_JOIN.  With the target absent the sender's pairing is overwritten  *)
(* before anything else is looked at, and the purge then resets it.         *)
RelayWait(live, n, source, target) ==
    LET r == Admit(live, n, source)
    IN  /\ ~RoomFull(live, n)
        /\ ~r[target].registered
        /\ Turn(n, [r EXCEPT ![n].pairedWith = target],
                {Datagram("RELAY_WAIT", n, source)})
        /\ UNCHANGED <<nextNatAttemptId, relay>>

RelayRefused(live, n, source, target) ==
    LET r == Admit(live, n, source)
    IN  /\ ~RoomFull(live, n)
        /\ r[target].registered
        /\ Busy(r, n, target)
        /\ Turn(n, r, Refused(n, source))
        /\ UNCHANGED <<nextNatAttemptId, relay>>

\* The two are paired before the relay is asked for a session, and stay so
\* when it has none to give (disabled, ports exhausted, no thread).
RelayPair(r, n, target) ==
    [r EXCEPT ![n].pairedWith = target, ![target].pairedWith = n]

RelayJoin(live, n, source, target) ==
    LET r == Admit(live, n, source)
        pair == {n, target}
    IN  /\ ~RoomFull(live, n)
        /\ r[target].registered
        /\ ~Busy(r, n, target)
        /\ \/ /\ pair \in relay \/ Cardinality(relay) < RelayPorts
              /\ relay' = relay \cup {pair}
              /\ Turn(n, RelayPair(r, n, target),
                      {[Datagram("RELAY_OFFER", n, source) EXCEPT !.peer = target]})
           \/ /\ pair \notin relay
              /\ relay' = relay
              /\ Turn(n, RelayPair(r, n, target), Refused(n, source))
        /\ UNCHANGED nextNatAttemptId

(* TUN_IP refreshes a registration before anything is purged. *)
TunIp(n, source) ==
    LET rescued == IF room[n].registered THEN {n} ELSE {}
        r == IF room[n].registered THEN [room EXCEPT ![n].endpoint = source] ELSE room
    IN  /\ Turn(n, RemoveExpired(r, stale \ rescued), {})
        /\ UNCHANGED <<nextNatAttemptId, relay>>

(* LIST: the clients that are not paired. *)
List(live, n, source) ==
    /\ Turn(n, live, {[Datagram("CLIENTS", n, source) EXCEPT !.peer = m] :
                        m \in {p \in Registered(live) : live[p].pairedWith = NoNode}})
    /\ UNCHANGED <<nextNatAttemptId, relay>>

(* The receive timeout of the loop, or a datagram without effect: purge. *)
Tick ==
    /\ Turn(NoNode, Live, {})
    /\ UNCHANGED <<nextNatAttemptId, relay>>

(* Time passes: nothing has come from n for longer than the timeout. *)
Age(n) ==
    /\ room[n].registered
    /\ n \notin stale
    /\ Cardinality(stale) < MaxStale
    /\ stale' = stale \cup {n}
    /\ UNCHANGED <<room, nextNatAttemptId, relay, replies, handled>>

(* A relay worker times out; its session is gone before it is used again,   *)
(* because every use starts with CleanupFinished.                           *)
RelayFinish(pair) ==
    /\ relay' = relay \ {pair}
    /\ UNCHANGED <<room, nextNatAttemptId, stale, replies, handled>>

-----------------------------------------------------------------------------
(* What a node may send.  Kinds bounds the datagram types of an instance.   *)
Request(live, n, source) ==
    \/ RefuseRoomFull(live, n, source)
    \/ \E capabilities \in Capabilities :
        \/ "REG" \in Kinds /\ Reg(live, n, source, capabilities)
        \/ /\ "CONNECT" \in Kinds
           /\ \E target \in Nodes :
                \/ ConnectNotFound(live, n, source, capabilities, target)
                \/ ConnectRefused(live, n, source, capabilities, target)
                \/ ConnectAgain(live, n, source, capabilities, target)
                \/ ConnectPair(live, n, source, capabilities, target)
    \/ "UNREG" \in Kinds /\ Unreg(live, n, source)
    \/ "LIST" \in Kinds /\ List(live, n, source)

\* Joins of the fallback strategies; a client joins its peer, not itself.
Join(live, n, source, target) ==
    \/ /\ "V6_JOIN" \in Kinds
       /\ \/ V6Refused(live, n, source, target)
          \/ \E accept \in Inbound : V6Join(live, n, source, target, accept)
    \/ /\ "RELAY_JOIN" \in Kinds
       /\ \/ RelayWait(live, n, source, target)
          \/ RelayRefused(live, n, source, target)
          \/ RelayJoin(live, n, source, target)

\* Datagrams that quote a session and an attempt handed out earlier.
Quote(live, n, source, target, session, attempt) ==
    \/ /\ "NAT_INFO" \in Kinds
       /\ \E report \in Reports : NatInfo(live, n, source, target, session, attempt, report)
    \/ "NAT_ARMED" \in Kinds /\ NatArmed(live, n, source, target, session, attempt)
    \/ /\ "NAT_RETRY" \in Kinds
       /\ \/ NatRetryStale(live, n, source, target, session, attempt)
          \/ NatRetryWait(live, n, source, target, session, attempt)
          \/ NatRetryOpen(live, n, source, target, session, attempt)
    \/ "NAT_ARMED" \in Kinds /\ NatRefused(live, n, source, target, session, attempt)

Issued == 1 .. (nextNatAttemptId - 1)

Receive(n, source) ==
    LET live == Live
    IN  \/ Request(live, n, source)
        \/ "TUN_IP" \in Kinds /\ TunIp(n, source)
        \/ \E target \in Nodes \ {n} :
            \/ Join(live, n, source, target)
            \/ \E session, attempt \in Issued :
                    Quote(live, n, source, target, session, attempt)

Next ==
    \/ \E n \in Nodes, source \in Sockets : Receive(n, source)
    \/ Tick
    \/ \E n \in Nodes : Age(n)
    \/ \E pair \in relay : RelayFinish(pair)

Spec == Init /\ [][Next]_vars

-----------------------------------------------------------------------------
(* Properties. *)

\* The registry only ever holds well-formed records: a node outside the room
\* has left nothing behind, and ids are only those already handed out.
TypeOK ==
    /\ room \in [Nodes -> Client]
    /\ \A n \in Nodes : ~room[n].registered => room[n] = NoClient
    /\ nextNatAttemptId \in Nat \ {0}
    /\ stale \subseteq Registered(room)
    /\ relay \subseteq SUBSET Nodes
    /\ handled \in Nodes \cup {NoNode}

\* Two clients that hold the same NAT session are each other's partner and
\* hold the same attempt, token, modes and initiator: HandleConnect writes
\* these fields twice, HandleNatRetry half of them, and RemoveExpired, UNREG,
\* a change of capabilities and RELAY_JOIN clear them one client at a time.
Agree(c, d) ==
    /\ c.natAttemptId = d.natAttemptId
    /\ c.natPunchToken = d.natPunchToken
    /\ c.negotiatedModes = d.negotiatedModes
    /\ c.pairInitiator = d.pairInitiator

SessionAgreement ==
    \A a, b \in Nodes :
        (a # b /\ room[a].natSessionId # 0 /\ room[a].natSessionId = room[b].natSessionId)
        => /\ room[a].pairedWith = b
           /\ room[b].pairedWith = a
           /\ room[a].pairInitiator \in {a, b}
           /\ Agree(room[a], room[b])

\* A CONNECT that finds the pair "already paired" looks only at the modes, yet
\* hands each side its own stored session, attempt and token: they must be
\* those of one session.
ReusedPairAgrees ==
    \A a, b \in Nodes :
        AlreadyPaired(room, a, b)
        => /\ room[a].natSessionId # 0
           /\ room[a].natSessionId = room[b].natSessionId
           /\ Agree(room[a], room[b])

\* The barrier: a client is armed only while the reports of both holders of
\* its session are in, so the plan it armed for exists on both sides.
ArmedAfterBothReports ==
    \A a, b \in Nodes :
        (room[a].armed /\ room[b].natSessionId = room[a].natSessionId)
        => room[a].natSessionId # 0 /\ room[b].report # NoReport

\* A partner that left the room leaves no pairing behind, whatever removed it
\* (RemoveExpired, UNREG) and whoever had joined it meanwhile.
PartnerPresent ==
    \A n \in Nodes :
        room[n].pairedWith # NoNode => room[room[n].pairedWith].registered

\* A full room takes nobody in.
CapacityKept == Cardinality(Registered(room)) <= MaxClients

Mutual(a, b) == a # b /\ room[a].pairedWith = b /\ room[b].pairedWith = a

\* No datagram of a third node, in whatever order it arrives, touches the
\* records of two clients that are paired with each other and both in time.
PairIsolation ==
    [][\A a, b \in Nodes :
        (Mutual(a, b) /\ {a, b} \cap stale = {} /\ handled' \notin {a, b})
        => room'[a] = room[a] /\ room'[b] = room[b]]_vars

\* HandleNatInfo: a report that changes within an attempt disarms both
\* holders, since either may have armed on a plan made from the old report.
ReportChangeDisarms ==
    [][\A a \in Nodes :
        (/\ room[a].report # NoReport
         /\ room'[a].report # room[a].report
         /\ room'[a].natAttemptId = room[a].natAttemptId)
        => \A b \in Nodes : room'[b].natSessionId = room'[a].natSessionId
                            => ~room'[b].armed]_vars

\* HandleNatRetry: an attempt of a session is replaced only by a later one,
\* for both holders in one step, after both have asked, and never while a
\* report or an armed flag of the old attempt survives.
AttemptAdvancesTogether ==
    [][\A a \in Nodes :
        (/\ room[a].natSessionId # 0
         /\ room'[a].natSessionId = room[a].natSessionId
         /\ room'[a].natAttemptId # room[a].natAttemptId)
        => \E b \in Nodes \ {a} :
            /\ room[b].natSessionId = room[a].natSessionId
            /\ \A m \in {a, b} :
                /\ room'[m].natSessionId = room[m].natSessionId
                /\ room'[m].natAttemptId = room'[a].natAttemptId
                /\ room'[m].natAttemptId > room[m].natAttemptId
                /\ room[m].natRetryRequested \/ handled' = m
                /\ room'[m].report = NoReport /\ ~room'[m].armed]_vars

\* HandleNatArmed: NAT_START always goes to the two holders of one session,
\* for one attempt, each at the endpoint it is registered with, both armed and
\* both reported.
StartReachesBoth ==
    [][\A d \in replies' : d.type = "NAT_START" =>
        \E e \in replies' :
            /\ e.type = "NAT_START"
            /\ e.node # d.node
            /\ e.session = d.session /\ e.attempt = d.attempt
            /\ room'[d.node].pairedWith = e.node
            /\ room'[d.node].natAttemptId = d.attempt
            /\ room'[d.node].endpoint = d.endpoint
            /\ room'[d.node].armed
            /\ room'[d.node].report # NoReport]_vars
=============================================================================

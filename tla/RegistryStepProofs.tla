------------------------- MODULE RegistryStepProofs -------------------------
(***************************************************************************)
(* Theorems about the steps of Registry: what one turn of the server's     *)
(* loop may never do, and the bound on the room, for every set of nodes    *)
(* and every bound.                                                        *)
(*                                                                         *)
(* A turn is Live (what has expired is purged), then one handler, then     *)
(* Settle.  Each part is shown to be Calm: it spares the couples its       *)
(* sender is not part of, and it registers nobody but the sender, and only *)
(* while the room is not full.  The properties of the NAT session then     *)
(* distinguish four turns that write to a session (StoreReport, the armed  *)
(* flag, the retry flag, OpenAttempt) from all others, which keep, drop or *)
(* newly open the session of each record (Unbroken).                       *)
(***************************************************************************)
EXTENDS RegistryProofs, FiniteSetTheorems

Couple2(r, a, b) ==
    /\ a # b
    /\ r[a].pairedWith = b /\ r[b].pairedWith = a
    /\ r[a].registered /\ r[b].registered

\* Couples that n is not part of keep their records.
Spares(r, s, n) ==
    \A a, b \in Nodes \ {n} : Couple2(r, a, b) => s[a] = r[a] /\ s[b] = r[b]

\* Nobody is registered who was not, but n, and n only if there is room.
Grows(r, s, n) ==
    \A m \in Nodes : s[m].registered => r[m].registered \/ (m = n /\ ~RoomFull(r, n))

Calm(r, s, n) == Spares(r, s, n) /\ Grows(r, s, n)

NoOrphans(r) == \A n \in Nodes : ~Orphan(r, n)

-----------------------------------------------------------------------------
(* The purge at both ends of a turn. *)
LEMMA SettleStays ==
    ASSUME NEW r, NoOrphans(r)
    PROVE  Settle(r) = r
BY DEF NoOrphans, Settle, RemoveExpired, Erase, ReleaseOrphans

LEMMA ReleasedNoOrphans ==
    ASSUME NEW r \in [Nodes -> Client]
    PROVE  NoOrphans(ReleaseOrphans(r))
<1> SUFFICES ASSUME NEW n \in Nodes, Orphan(ReleaseOrphans(r), n) PROVE FALSE
  BY DEF NoOrphans
<1> DEFINE s == ReleaseOrphans(r)
<1>1. s \in [Nodes -> Client]
  BY ReleaseOrphansRoom
<1>2. s[n].pairedWith \in Nodes
  <2>1. s[n] \in Client
    BY <1>1
  <2> QED BY <2>1 DEF Client, Orphan
<1> QED BY <1>2, ReleaseOrphansRegistered DEF Orphan

\* Nobody the purge has no reason to touch is touched by it.
LEMMA ReleaseSpares ==
    ASSUME NEW r \in [Nodes -> Client], NEW a \in Nodes, NEW b \in Nodes, Couple2(r, a, b)
    PROVE  ReleaseOrphans(r)[a] = r[a] /\ ReleaseOrphans(r)[b] = r[b]
<1>1. ~Orphan(r, a) /\ ~Orphan(r, b)
  BY DEF Couple2, Orphan
<1> QED BY <1>1, ReleaseOrphansRoom

LEMMA ExpiredSpares ==
    ASSUME NEW r \in [Nodes -> Client], NEW gone \in SUBSET Nodes
    PROVE  /\ RemoveExpired(r, gone) \in [Nodes -> Client]
           /\ NoOrphans(RemoveExpired(r, gone))
           /\ \A m \in Nodes : RemoveExpired(r, gone)[m].registered
                                => r[m].registered /\ m \notin gone
           /\ \A a, b \in Nodes \ gone : Couple2(r, a, b) =>
                /\ RemoveExpired(r, gone)[a] = r[a]
                /\ RemoveExpired(r, gone)[b] = r[b]
<1> DEFINE s == Erase(r, gone)
<1>1. \A n \in Nodes : s[n] = IF n \in gone THEN NoClient ELSE r[n]
  BY DEF Erase
<1>2. s \in [Nodes -> Client]
  BY <1>1, NoClientType DEF Erase
<1>3. RemoveExpired(r, gone) = ReleaseOrphans(s)
  BY DEF RemoveExpired
<1> HIDE DEF s
<1>4. ReleaseOrphans(s) \in [Nodes -> Client] /\ NoOrphans(ReleaseOrphans(s))
  BY <1>2, ReleaseOrphansRoom, ReleasedNoOrphans
<1>5. \A m \in Nodes : ReleaseOrphans(s)[m].registered = s[m].registered
  BY <1>2, ReleaseOrphansRegistered
<1>6. \A m \in Nodes : s[m].registered => r[m].registered /\ m \notin gone
  BY <1>1 DEF NoClient
<1>7. ASSUME NEW a \in Nodes \ gone, NEW b \in Nodes \ gone, Couple2(r, a, b)
      PROVE  ReleaseOrphans(s)[a] = r[a] /\ ReleaseOrphans(s)[b] = r[b]
  <2>1. s[a] = r[a] /\ s[b] = r[b]
    BY <1>1
  <2>2. Couple2(s, a, b)
    BY <1>7, <2>1 DEF Couple2
  <2> QED BY <1>2, <2>1, <2>2, ReleaseSpares
<1> QED BY <1>3, <1>4, <1>5, <1>6, <1>7

\* The room the handlers find.
LEMMA LiveRoom ==
    ASSUME IInv
    PROVE  /\ RoomOK(Live, nextNatAttemptId) /\ Live \in [Nodes -> Client]
           /\ nextNatAttemptId \in Nat \ {0}
           /\ NoOrphans(Live)
           /\ Loosens(room, Live)
           /\ \A m \in Nodes : Live[m].registered => room[m].registered
           /\ \A a, b \in Nodes \ stale : Couple2(room, a, b) =>
                Live[a] = room[a] /\ Live[b] = room[b]
<1>1. room \in [Nodes -> Client] /\ stale \in SUBSET Nodes
  BY DEF IInv, RoomOK, Registered
<1> QED BY <1>1, LiveOK, ExpiredSpares, LooseExpired DEF Live, RoomOK, IInv

\* What the handler left is what the turn leaves, but for the purge.
LEMMA TurnCalm ==
    ASSUME NEW live, NEW n, NEW r \in [Nodes -> Client], NEW sent,
           Turn(n, r, sent), Calm(live, r, n)
    PROVE  /\ Calm(live, room', n)
           /\ Loosens(r, room')
           /\ replies' = sent /\ handled' = n /\ stale' = {}
<1>1. room' = ReleaseOrphans(r) /\ Loosens(r, room')
  BY LooseSettle DEF Turn
<1>2. \A m \in Nodes : room'[m].registered = r[m].registered
  BY <1>1, ReleaseOrphansRegistered
<1>3. Grows(live, room', n)
  BY <1>2 DEF Calm, Grows
<1>4. Spares(live, room', n)
  <2> SUFFICES ASSUME NEW a \in Nodes \ {n}, NEW b \in Nodes \ {n}, Couple2(live, a, b)
               PROVE  room'[a] = live[a] /\ room'[b] = live[b]
    BY DEF Spares
  <2>1. r[a] = live[a] /\ r[b] = live[b]
    BY DEF Calm, Spares
  <2>2. Couple2(r, a, b)
    BY <2>1 DEF Couple2
  <2> QED BY <1>1, <2>1, <2>2, ReleaseSpares
<1> QED BY <1>1, <1>3, <1>4 DEF Turn, Calm

-----------------------------------------------------------------------------
(* The operations of the handlers are calm. *)
LEMMA SameCalm ==
    ASSUME NEW r, NEW n
    PROVE  Calm(r, r, n)
BY DEF Calm, Spares, Grows

LEMMA CalmTransitive ==
    ASSUME NEW r, NEW s, NEW t, NEW n, Calm(r, s, n), Spares(s, t, n),
           \A m \in Nodes : t[m].registered => s[m].registered
    PROVE  Calm(r, t, n)
BY DEF Calm, Spares, Grows, Couple2

\* One record is written, that of n.
LEMMA OwnRecord ==
    ASSUME NEW r \in [Nodes -> Client], NEW n \in Nodes, NEW c
    PROVE  /\ Spares(r, [r EXCEPT ![n] = c], n)
           /\ \A m \in Nodes \ {n} : [r EXCEPT ![n] = c][m] = r[m]
           /\ [r EXCEPT ![n] = c][n] = c
BY DEF Spares

\* Two records are written; the other one's is free or paired with n.
LEMMA BothRecords ==
    ASSUME NEW r \in [Nodes -> Client], NEW n \in Nodes, NEW target \in Nodes \ {n},
           r[target].pairedWith \in {NoNode, n},
           NEW s, s[n].registered => r[n].registered,
           s[target].registered => r[target].registered,
           \A m \in Nodes \ {n, target} : s[m] = r[m]
    PROVE  /\ Spares(r, s, n)
           /\ \A m \in Nodes : s[m].registered => r[m].registered
<1>1. ASSUME NEW a \in Nodes \ {n}, NEW b \in Nodes \ {n}, Couple2(r, a, b)
      PROVE  s[a] = r[a] /\ s[b] = r[b]
  BY <1>1, NodesAssumption DEF Couple2
<1> QED BY <1>1 DEF Spares

LEMMA AdmitCalm ==
    ASSUME NEW r, NEW next \in Nat \ {0}, RoomOK(r, next),
           NEW n \in Nodes, NEW source \in Sockets, ~RoomFull(r, n)
    PROVE  Calm(r, Admit(r, n, source), n)
BY AdmitRoom DEF Calm, Spares, Grows

LEMMA CapabilitiesCalm ==
    ASSUME NEW r \in [Nodes -> Client],
           NEW n \in Nodes, NEW capabilities \in Capabilities
    PROVE  Spares(r, SetCapabilities(r, n, capabilities), n)
<1> DEFINE s == SetCapabilities(r, n, capabilities)
           kept == [k \in Nodes |->
                        IF (k = n \/ (k = r[n].pairedWith /\ r[k].pairedWith = n))
                        THEN ResetPairing(r[k]) ELSE r[k]]
           t == IF r[n].capabilities # capabilities /\ r[n].pairedWith # NoNode
                THEN kept ELSE r
<1>1. s = [t EXCEPT ![n].capabilities = capabilities]
  BY DEF SetCapabilities
<1>2. ASSUME NEW a \in Nodes \ {n}, r[a].pairedWith # n
      PROVE  s[a] = r[a]
  <2>1. t[a] = r[a]
    BY <1>2
  <2>2. DOMAIN t = Nodes
    OBVIOUS
  <2> HIDE DEF t
  <2> QED BY <1>1, <2>1, <2>2
<1> HIDE DEF s
<1> QED BY <1>2 DEF Spares, Couple2, s

LEMMA CallerCalm ==
    ASSUME NEW r, NEW next \in Nat \ {0}, RoomOK(r, next),
           NEW n \in Nodes, NEW source \in Sockets, NEW capabilities \in Capabilities,
           ~RoomFull(r, n)
    PROVE  Calm(r, Caller(r, n, source, capabilities), n)
<1> DEFINE s == Admit(r, n, source)
<1>1. RoomOK(s, next) /\ s \in [Nodes -> Client] /\ s[n].registered
  BY AdmitRoom DEF RoomOK
<1>2. Calm(r, s, n)
  BY AdmitCalm
<1> HIDE DEF s
<1>3. \A m \in Nodes : SetCapabilities(s, n, capabilities)[m].registered = s[m].registered
  BY <1>1, SetCapabilitiesOK
<1>4. Spares(s, SetCapabilities(s, n, capabilities), n)
  BY <1>1, CapabilitiesCalm
<1> QED BY <1>2, <1>3, <1>4, CalmTransitive DEF Caller, s

-----------------------------------------------------------------------------
(* The steps that may not touch a session, and the four that may. *)

\* A record keeps its session, has none, or has one opened in this turn.
Unbroken(c, d, fresh) ==
    \/ Keeps(c, d)
    \/ d.natSessionId = 0
    \/ d.natSessionId = fresh /\ d.natAttemptId = fresh

Quiet ==
    /\ \A m \in Nodes : Unbroken(room[m], room'[m], nextNatAttemptId)
    /\ \A d \in replies' : d.type # "NAT_START"

\* A turn whose handler loosens what it found is quiet.
LEMMA LooseTurn ==
    ASSUME IInv, NEW n, NEW r \in [Nodes -> Client], NEW sent,
           Turn(n, r, sent), Loosens(Live, r), Calm(Live, r, n),
           \A d \in sent : d.type # "NAT_START"
    PROVE  Calm(Live, room', n) /\ Quiet
<1>1. Loosens(room, Live)
  BY LiveRoom
<1>2. Calm(Live, room', n) /\ Loosens(r, room') /\ replies' = sent
  BY TurnCalm
<1>3. Loosens(room, room')
  BY <1>1, <1>2, LooseTransitive
<1> QED BY <1>2, <1>3 DEF Loosens, WithoutSession, Quiet, Unbroken

\* The types of the datagrams.
LEMMA DatagramType ==
    ASSUME NEW type, NEW n, NEW source
    PROVE  Datagram(type, n, source).type = type
BY DEF Datagram

LEMMA AttemptType ==
    ASSUME NEW type, NEW r, NEW n
    PROVE  /\ Attempt(type, r, n).type = type
           /\ Attempt(type, r, n).node = n
           /\ Attempt(type, r, n).endpoint = r[n].endpoint
           /\ Attempt(type, r, n).session = r[n].natSessionId
           /\ Attempt(type, r, n).attempt = r[n].natAttemptId
BY DEF Attempt, Datagram

LEMMA ReplyTypes ==
    ASSUME NEW r, NEW n, NEW peer
    PROVE  /\ PeerReply(r, n, peer).type = "PEER"
           /\ SendNatAttempt(r, n).type = "NAT_ATTEMPT"
           /\ SendNatPeerInfo(r, n, peer).type = "NAT_PEER_INFO"
BY DEF PeerReply, SendNatAttempt, SendNatPeerInfo, Attempt, Datagram

LEMMA RefusedTypes ==
    ASSUME NEW n, NEW source
    PROVE  /\ \A d \in Refused(n, source) : d.type = "ERROR"
           /\ \A d \in NotFound(n, source) : d.type = "PEER_NOT_FOUND"
BY DatagramType DEF Refused, NotFound

LEMMA RegTurn ==
    ASSUME IInv, NEW n \in Nodes, NEW source \in Sockets,
           NEW capabilities \in Capabilities, Reg(Live, n, source, capabilities)
    PROVE  Calm(Live, room', n) /\ Quiet
<1> DEFINE r == Caller(Live, n, source, capabilities)
           c == [r[n] EXCEPT !.ipv6Joined = FALSE]
           s == [r EXCEPT ![n] = c]
<1>1. RoomOK(r, nextNatAttemptId) /\ r \in [Nodes -> Client] /\ r[n].registered
  BY LiveRoom, CallerOK DEF RoomOK
<1>2. /\ ~RoomFull(Live, n)
      /\ Turn(n, [r EXCEPT ![n].ipv6Joined = FALSE], {Datagram("REGISTERED", n, source)})
  BY DEF Reg, Caller
<1>3. Loosens(Live, r) /\ Calm(Live, r, n)
  BY <1>2, LiveRoom, LooseCaller, CallerCalm
<1> HIDE DEF r
<1>4. c \in Client /\ c.registered /\ Keeps(r[n], c)
  <2>1. r[n] \in Client
    BY <1>1
  <2> QED BY <1>1, <2>1 DEF Client, Keeps, SameSession
<1>5. [r EXCEPT ![n].ipv6Joined = FALSE] = s
  BY <1>1
<1> HIDE DEF c
<1>6. /\ s \in [Nodes -> Client] /\ Spares(r, s, n)
      /\ s[n] = c /\ \A m \in Nodes \ {n} : s[m] = r[m]
  BY <1>1, <1>4, OwnRecord
<1> HIDE DEF s
<1>7. Loosens(r, s)
  BY <1>4, <1>6 DEF Loosens, Keeps, SameSession
<1>8. Calm(Live, s, n)
  BY <1>1, <1>3, <1>4, <1>6, CalmTransitive
<1>9. \A d \in {Datagram("REGISTERED", n, source)} : d.type # "NAT_START"
  BY DatagramType
<1>10. Loosens(Live, s)
  BY <1>3, <1>7, LooseTransitive
<1>11. Turn(n, s, {Datagram("REGISTERED", n, source)})
  BY <1>2, <1>5
<1> QED BY <1>6, <1>8, <1>9, <1>10, <1>11, LooseTurn

LEMMA ConnectTurn ==
    ASSUME IInv, NEW n \in Nodes, NEW source \in Sockets,
           NEW capabilities \in Capabilities, NEW target \in Nodes,
           \/ ConnectNotFound(Live, n, source, capabilities, target)
           \/ ConnectRefused(Live, n, source, capabilities, target)
           \/ ConnectAgain(Live, n, source, capabilities, target)
    PROVE  Calm(Live, room', n) /\ Quiet
<1> DEFINE r == Caller(Live, n, source, capabilities)
<1>1. r \in [Nodes -> Client]
  BY LiveRoom, CallerOK DEF RoomOK
<1>2. /\ ~RoomFull(Live, n)
      /\ \/ Turn(n, r, NotFound(n, source))
         \/ Turn(n, r, Refused(n, source))
         \/ Turn(n, r, {PeerReply(r, n, target), PeerReply(r, target, n)})
  BY DEF ConnectNotFound, ConnectRefused, ConnectAgain
<1>3. Loosens(Live, r) /\ Calm(Live, r, n)
  BY <1>2, LiveRoom, LooseCaller, CallerCalm
<1>4. \A d \in {PeerReply(r, n, target), PeerReply(r, target, n)} : d.type # "NAT_START"
  BY ReplyTypes
<1> HIDE DEF r
<1> QED BY <1>1, <1>2, <1>3, <1>4, RefusedTypes, LooseTurn

\* The couple a CONNECT makes, as the purge finds it.
NewCouple(s, n, target) ==
    LET next == nextNatAttemptId
    IN  /\ \A m \in {n, target} :
            /\ s[m].natSessionId = next /\ s[m].natAttemptId = next
            /\ s[m].natPunchToken = next /\ s[m].pairInitiator = n
            /\ s[m].report = NoReport /\ ~s[m].armed /\ ~s[m].natRetryRequested
        /\ s[n].pairedWith = target /\ s[target].pairedWith = n
        /\ \A m \in Nodes \ {n, target} : Keeps(room[m], s[m]) \/ s[m].natSessionId = 0

LEMMA ConnectPairRoom ==
    ASSUME IInv, NEW n \in Nodes, NEW source \in Sockets,
           NEW capabilities \in Capabilities, NEW target \in Nodes,
           ConnectPair(Live, n, source, capabilities, target)
    PROVE  \E s \in [Nodes -> Client] :
            /\ target # n /\ NewCouple(s, n, target)
            /\ Calm(Live, room', n) /\ Loosens(s, room')
            /\ replies' = {PeerReply(s, n, target), PeerReply(s, target, n)}
            /\ nextNatAttemptId' = nextNatAttemptId + 1
<1> DEFINE r == Caller(Live, n, source, capabilities)
           modes == IntersectTraversalModes(r[n].capabilities, r[target].capabilities)
           c == Paired(r[n], target, modes, n, nextNatAttemptId)
           d == Paired(r[target], n, modes, n, nextNatAttemptId)
           s == PairUp(r, n, target, modes, nextNatAttemptId)
           sent == {PeerReply(s, n, target), PeerReply(s, target, n)}
<1>1. RoomOK(r, nextNatAttemptId) /\ r \in [Nodes -> Client] /\ r[n].registered
  BY LiveRoom, CallerOK DEF RoomOK
<1>2. /\ ~RoomFull(Live, n) /\ target # n /\ r[target].registered
      /\ ~Busy(r, n, target) /\ Turn(n, s, sent)
      /\ nextNatAttemptId' = nextNatAttemptId + 1
  BY DEF ConnectPair
<1>3. Loosens(Live, r) /\ Calm(Live, r, n)
  BY <1>2, LiveRoom, LooseCaller, CallerCalm
<1>4. r[n] \in Client /\ r[target] \in Client
  BY <1>1
<1>5. modes \in Modes
  BY <1>4, SomeModes DEF Client
<1> HIDE DEF r, modes, sent
<1>7. /\ c \in Client /\ d \in Client
      /\ c.registered = r[n].registered /\ d.registered = r[target].registered
  <2>1. nextNatAttemptId \in Nat /\ target \in Nodes \ {n}
    BY <1>2, LiveRoom
  <2> QED BY <1>4, <1>5, <2>1, PairedType
<1>8. /\ \A e \in {c, d} :
            /\ e.natSessionId = nextNatAttemptId /\ e.natAttemptId = nextNatAttemptId
            /\ e.natPunchToken = nextNatAttemptId /\ e.pairInitiator = n
            /\ e.report = NoReport /\ ~e.armed /\ ~e.natRetryRequested
      /\ c.pairedWith = target /\ d.pairedWith = n
  BY <1>4 DEF Paired, Client
<1>9. s = [r EXCEPT ![n] = c, ![target] = d]
  BY <1>1 DEF PairUp
<1> HIDE DEF c, d, s
<1>10. /\ s \in [Nodes -> Client] /\ s[n] = c /\ s[target] = d
       /\ \A m \in Nodes \ {n, target} : s[m] = r[m]
  BY <1>1, <1>2, <1>7, <1>9
<1>11. Spares(r, s, n) /\ \A m \in Nodes : s[m].registered => r[m].registered
  BY <1>1, <1>2, <1>7, <1>10, BothRecords DEF Busy
<1>12. Calm(Live, s, n)
  BY <1>3, <1>11, CalmTransitive
<1>13. Calm(Live, room', n) /\ Loosens(s, room') /\ replies' = sent
  BY <1>2, <1>10, <1>12, TurnCalm
<1>14. Loosens(room, r)
  BY <1>3, LiveRoom, LooseTransitive
<1>15. NewCouple(s, n, target)
  BY <1>8, <1>10, <1>14 DEF NewCouple, Loosens, WithoutSession
<1>16. replies' = {PeerReply(s, n, target), PeerReply(s, target, n)}
  BY <1>13 DEF sent
<1> QED BY <1>2, <1>10, <1>13, <1>15, <1>16

LEMMA ConnectPairTurn ==
    ASSUME IInv, NEW n \in Nodes, NEW source \in Sockets,
           NEW capabilities \in Capabilities, NEW target \in Nodes,
           ConnectPair(Live, n, source, capabilities, target)
    PROVE  Calm(Live, room', n) /\ Quiet
<1>1. PICK s \in [Nodes -> Client] :
        /\ target # n /\ NewCouple(s, n, target)
        /\ Calm(Live, room', n) /\ Loosens(s, room')
        /\ replies' = {PeerReply(s, n, target), PeerReply(s, target, n)}
  BY ConnectPairRoom
<1>2. \A d \in replies' : d.type # "NAT_START"
  BY <1>1, ReplyTypes
<1>3. ASSUME NEW m \in Nodes PROVE Unbroken(room[m], room'[m], nextNatAttemptId)
  BY <1>1 DEF NewCouple, Loosens, Keeps, SameSession, WithoutSession, Unbroken
<1> QED BY <1>1, <1>2, <1>3 DEF Quiet

LEMMA RequestTurn ==
    ASSUME IInv, NEW n \in Nodes, NEW source \in Sockets, AnyRequest(Live, n, source)
    PROVE  Calm(Live, room', n) /\ Quiet
<1>0. Live \in [Nodes -> Client] /\ Loosens(Live, Live) /\ Calm(Live, Live, n)
  BY LiveRoom, SameCalm DEF Loosens, Keeps, SameSession
<1>1. CASE RefuseRoomFull(Live, n, source)
  BY <1>0, <1>1, RefusedTypes, LooseTurn DEF RefuseRoomFull
<1>2. CASE Unreg(Live, n, source)
  <2> DEFINE gone == IF Live[n].registered /\ Live[n].endpoint = source THEN {n} ELSE {}
             r == RemoveExpired(Live, gone)
  <2>1. Turn(n, r, {})
    BY <1>2 DEF Unreg
  <2>2. gone \subseteq {n} /\ gone \in SUBSET Nodes
    OBVIOUS
  <2> HIDE DEF gone
  <2>3. r \in [Nodes -> Client] /\ Calm(Live, r, n) /\ Loosens(Live, r)
    BY <1>0, <2>2, ExpiredSpares, LooseExpired DEF Calm, Spares, Grows
  <2> QED BY <2>1, <2>3, LooseTurn
<1>3. CASE List(Live, n, source)
  <2> DEFINE free == {p \in Registered(Live) : Live[p].pairedWith = NoNode}
             sent == {[Datagram("CLIENTS", n, source) EXCEPT !.peer = m] : m \in free}
  <2>1. Turn(n, Live, sent)
    BY <1>3 DEF List
  <2>2. \A d \in sent : d.type # "NAT_START"
    BY DEF Datagram
  <2> HIDE DEF sent
  <2> QED BY <1>0, <2>1, <2>2, LooseTurn
<1> QED BY <1>1, <1>2, <1>3, RegTurn, ConnectTurn, ConnectPairTurn DEF AnyRequest

\* Pointing a record at its partner, or at one it may have, keeps its session
\* or finds none.
LEMMA PointLoose ==
    ASSUME NEW c \in Client, NEW next, SessionRecord(c, next),
           NEW peer, c.pairedWith \in {NoNode, peer}
    PROVE  LET d == [c EXCEPT !.pairedWith = peer]
           IN  Keeps(c, d) \/ WithoutSession(c, d)
<1>1. CASE c.natSessionId # 0
  BY <1>1 DEF SessionRecord, Keeps, SameSession, Client
<1>2. CASE c.natSessionId = 0
  BY <1>2 DEF SessionRecord, WithoutSession, Client
<1> QED BY <1>1, <1>2

LEMMA V6Types ==
    ASSUME NEW r, NEW n, NEW target
    PROVE  \A d \in V6Replies(r, n, target) : d.type # "NAT_START"
<1>1. \A m, peer, role : V6Peer(r, m, peer, role).type = "V6_PEER"
  BY DEF V6Peer, Datagram
<1> QED BY <1>1, DatagramType DEF V6Replies

LEMMA V6JoinTurn ==
    ASSUME IInv, NEW n \in Nodes, NEW source \in Sockets, NEW target \in Nodes \ {n},
           NEW accept \in Inbound, V6Join(Live, n, source, target, accept)
    PROVE  Calm(Live, room', n) /\ Quiet
<1> DEFINE r == Admit(Live, n, source)
           c == [r[n] EXCEPT !.pairedWith = target]
           d == [c EXCEPT !.ipv6AcceptInbound = accept, !.ipv6Joined = TRUE]
           s == [r EXCEPT ![n].pairedWith = target,
                          ![n].ipv6AcceptInbound = accept,
                          ![n].ipv6Joined = TRUE]
           t == [r EXCEPT ![n] = d]
<1>1. RoomOK(r, nextNatAttemptId) /\ r \in [Nodes -> Client] /\ r[n].registered
  BY LiveRoom, AdmitRoom DEF RoomOK
<1>2. ~RoomFull(Live, n) /\ ~Busy(r, n, target) /\ Turn(n, s, V6Replies(s, n, target))
  BY DEF V6Join
<1>3. Loosens(Live, r) /\ Calm(Live, r, n)
  BY <1>2, LiveRoom, LooseAdmit, AdmitCalm
<1> HIDE DEF r
<1>4. r[n] \in Client /\ SessionRecord(r[n], nextNatAttemptId)
  BY <1>1 DEF RoomOK, SessionsOK
<1>5. c \in Client /\ c.registered /\ (Keeps(r[n], c) \/ WithoutSession(r[n], c))
  <2>1. r[n].pairedWith \in {NoNode, target}
    BY <1>2 DEF Busy
  <2>2. c \in Client /\ c.registered
    BY <1>1, <1>4 DEF Client
  <2> QED BY <1>4, <2>1, <2>2, PointLoose
<1>6. s = t
  BY <1>1, <1>4 DEF Client
<1> HIDE DEF c
<1>7. d \in Client /\ d.registered /\ (Keeps(r[n], d) \/ WithoutSession(r[n], d))
  BY <1>5, InboundAssumption, ZenonT(40) DEF Client, Keeps, SameSession, WithoutSession
<1> HIDE DEF d
<1>8. /\ t \in [Nodes -> Client] /\ Spares(r, t, n)
      /\ t[n] = d /\ \A m \in Nodes \ {n} : t[m] = r[m]
  BY <1>1, <1>7, OwnRecord
<1>9. \A e \in V6Replies(s, n, target) : e.type # "NAT_START"
  BY V6Types
<1>10. Turn(n, t, V6Replies(s, n, target))
  BY <1>2, <1>6
<1> HIDE DEF s, t
<1>11. Loosens(Live, t)
  <2>1. Loosens(r, t)
    BY <1>7, <1>8 DEF Loosens, Keeps, SameSession
  <2> QED BY <1>3, <2>1, LooseTransitive
<1>12. Calm(Live, t, n)
  BY <1>1, <1>3, <1>7, <1>8, CalmTransitive
<1> QED BY <1>8, <1>9, <1>10, <1>11, <1>12, LooseTurn

LEMMA RelayWaitTurn ==
    ASSUME IInv, NEW n \in Nodes, NEW source \in Sockets, NEW target \in Nodes \ {n},
           RelayWait(Live, n, source, target)
    PROVE  Calm(Live, room', n) /\ Quiet
<1> DEFINE r == Admit(Live, n, source)
           c == [r[n] EXCEPT !.pairedWith = target]
           s == [r EXCEPT ![n] = c]
           t == ReleaseOrphans(s)
           sent == {Datagram("RELAY_WAIT", n, source)}
<1>1. r \in [Nodes -> Client] /\ r[n].registered
  BY LiveRoom, AdmitRoom DEF RoomOK
<1>2. /\ ~RoomFull(Live, n) /\ ~r[target].registered
      /\ Turn(n, [r EXCEPT ![n].pairedWith = target], sent)
  BY DEF RelayWait
<1>3. Loosens(Live, r) /\ Calm(Live, r, n)
  BY <1>2, LiveRoom, LooseAdmit, AdmitCalm
<1>4. \A d \in sent : d.type # "NAT_START"
  BY DatagramType
<1> HIDE DEF r, sent
<1>5. r[n] \in Client /\ [r EXCEPT ![n].pairedWith = target] = s
  BY <1>1
<1>6. /\ c \in Client /\ c.registered /\ c.pairedWith = target
      /\ c.natAttemptId = r[n].natAttemptId
  BY <1>1, <1>5 DEF Client
<1> HIDE DEF c
<1>7. /\ s \in [Nodes -> Client] /\ Spares(r, s, n)
      /\ s[n] = c /\ \A m \in Nodes \ {n} : s[m] = r[m]
  BY <1>1, <1>6, OwnRecord
<1> HIDE DEF s
<1>8. /\ t \in [Nodes -> Client] /\ NoOrphans(t)
      /\ \A m \in Nodes : t[m] = IF Orphan(s, m) THEN ResetPairing(s[m]) ELSE s[m]
      /\ \A m \in Nodes : t[m].registered = s[m].registered
  BY <1>7, ReleaseOrphansRoom, ReleaseOrphansRegistered, ReleasedNoOrphans
<1>9. Turn(n, t, sent)
  <2>1. Turn(n, s, sent)
    BY <1>2, <1>5
  <2>2. Settle(s) = t /\ Settle(t) = t
    BY <1>7, <1>8, LooseSettle, SettleStays
  <2> HIDE DEF t
  <2> QED BY <2>1, <2>2 DEF Turn
<1>10. Loosens(r, t)
  <2> SUFFICES ASSUME NEW m \in Nodes PROVE Keeps(r[m], t[m]) \/ WithoutSession(r[m], t[m])
    BY DEF Loosens
  <2>1. CASE m = n
    <3>1. t[n] = ResetPairing(c)
      BY <1>2, <1>6, <1>7, <1>8, NodesAssumption DEF Orphan
    <3>2. WithoutSession(c, ResetPairing(c))
      BY <1>6, ResetPairingType
    <3> QED BY <1>6, <2>1, <3>1, <3>2 DEF WithoutSession
  <2>2. CASE m # n
    <3>1. Loosens(s, t)
      BY <1>7, LooseRelease
    <3> QED BY <1>7, <2>2, <3>1 DEF Loosens
  <2> QED BY <2>1, <2>2
<1>11. Calm(Live, s, n)
  BY <1>1, <1>3, <1>6, <1>7, CalmTransitive
<1>12. Spares(s, t, n)
  BY <1>7, ReleaseSpares DEF Spares
<1> HIDE DEF t
<1>13. Calm(Live, t, n)
  BY <1>8, <1>11, <1>12, CalmTransitive
<1>14. Loosens(Live, t)
  BY <1>3, <1>10, LooseTransitive
<1> QED BY <1>4, <1>8, <1>9, <1>13, <1>14, LooseTurn

LEMMA RelayJoinTurn ==
    ASSUME IInv, NEW n \in Nodes, NEW source \in Sockets, NEW target \in Nodes \ {n},
           RelayJoin(Live, n, source, target)
    PROVE  Calm(Live, room', n) /\ Quiet
<1> DEFINE r == Admit(Live, n, source)
           c == [r[n] EXCEPT !.pairedWith = target]
           d == [r[target] EXCEPT !.pairedWith = n]
           s == RelayPair(r, n, target)
           offer == {[Datagram("RELAY_OFFER", n, source) EXCEPT !.peer = target]}
<1>1. RoomOK(r, nextNatAttemptId) /\ r \in [Nodes -> Client] /\ r[n].registered
  BY LiveRoom, AdmitRoom DEF RoomOK
<1>2. /\ ~RoomFull(Live, n) /\ r[target].registered /\ ~Busy(r, n, target)
      /\ Turn(n, s, offer) \/ Turn(n, s, Refused(n, source))
  BY DEF RelayJoin
<1>3. Loosens(Live, r) /\ Calm(Live, r, n)
  BY <1>2, LiveRoom, LooseAdmit, AdmitCalm
<1>4. \A e \in offer : e.type # "NAT_START"
  BY DEF Datagram
<1> HIDE DEF r, offer
<1>5. /\ r[n] \in Client /\ SessionRecord(r[n], nextNatAttemptId)
      /\ r[target] \in Client /\ SessionRecord(r[target], nextNatAttemptId)
  BY <1>1 DEF RoomOK, SessionsOK
<1>6. c \in Client /\ c.registered /\ (Keeps(r[n], c) \/ WithoutSession(r[n], c))
  <2>1. r[n].pairedWith \in {NoNode, target}
    BY <1>2 DEF Busy
  <2>2. c \in Client /\ c.registered
    BY <1>1, <1>5 DEF Client
  <2> QED BY <1>5, <2>1, <2>2, PointLoose
<1>7. d \in Client /\ d.registered /\ (Keeps(r[target], d) \/ WithoutSession(r[target], d))
  <2>1. r[target].pairedWith \in {NoNode, n}
    BY <1>2 DEF Busy
  <2>2. d \in Client /\ d.registered
    BY <1>2, <1>5 DEF Client
  <2> QED BY <1>5, <2>1, <2>2, PointLoose
<1>8. s = [r EXCEPT ![n] = c, ![target] = d]
  BY <1>1 DEF RelayPair
<1> HIDE DEF c, d, s
<1>9. /\ s \in [Nodes -> Client] /\ s[n] = c /\ s[target] = d
      /\ \A m \in Nodes \ {n, target} : s[m] = r[m]
  BY <1>1, <1>6, <1>7, <1>8
<1>10. Spares(r, s, n) /\ \A m \in Nodes : s[m].registered => r[m].registered
  BY <1>1, <1>2, <1>9, BothRecords DEF Busy
<1>11. Calm(Live, s, n)
  BY <1>3, <1>10, CalmTransitive
<1>12. Loosens(r, s)
  BY <1>6, <1>7, <1>9 DEF Loosens, Keeps, SameSession
<1>13. Loosens(Live, s)
  BY <1>3, <1>12, LooseTransitive
<1> QED BY <1>2, <1>4, <1>9, <1>11, <1>13, RefusedTypes, LooseTurn

LEMMA JoinTurn ==
    ASSUME IInv, NEW n \in Nodes, NEW source \in Sockets, NEW target \in Nodes \ {n},
           Join(Live, n, source, target)
    PROVE  Calm(Live, room', n) /\ Quiet
<1> DEFINE r == Admit(Live, n, source)
<1>1. CASE V6Refused(Live, n, source, target) \/ RelayRefused(Live, n, source, target)
  <2>1. ~RoomFull(Live, n) /\ Turn(n, r, Refused(n, source))
    BY <1>1 DEF V6Refused, RelayRefused
  <2>2. r \in [Nodes -> Client] /\ Loosens(Live, r) /\ Calm(Live, r, n)
    BY <2>1, LiveRoom, LooseAdmit, AdmitCalm, AdmitRoom DEF RoomOK
  <2> HIDE DEF r
  <2> QED BY <2>1, <2>2, RefusedTypes, LooseTurn
<1> QED BY <1>1, V6JoinTurn, RelayWaitTurn, RelayJoinTurn DEF Join

\* TUN_IP rescues its sender before the purge, so it is not about Live.
LEMMA TunIpTurn ==
    ASSUME IInv, NEW n \in Nodes, NEW source \in Sockets, TunIp(n, source)
    PROVE  /\ \A a, b \in Nodes \ (stale \cup {n}) : Couple2(room, a, b) =>
                room'[a] = room[a] /\ room'[b] = room[b]
           /\ \A m \in Nodes : room'[m].registered => room[m].registered
           /\ handled' = n
           /\ Quiet
<1> DEFINE rescued == IF room[n].registered THEN {n} ELSE {}
           c == [room[n] EXCEPT !.endpoint = source]
           moved == [room EXCEPT ![n] = c]
           r == IF room[n].registered THEN moved ELSE room
           s == RemoveExpired(r, stale \ rescued)
<1>1. room \in [Nodes -> Client] /\ room[n] \in Client /\ stale \in SUBSET Nodes
  BY DEF IInv, RoomOK, Registered
<1>2. Turn(n, s, {})
  BY <1>1 DEF TunIp
<1>3. c \in Client /\ c.registered = room[n].registered /\ Keeps(room[n], c)
  BY <1>1 DEF Client, Keeps, SameSession
<1> HIDE DEF c
<1>4. /\ moved \in [Nodes -> Client] /\ moved[n] = c
      /\ \A m \in Nodes \ {n} : moved[m] = room[m]
  BY <1>1, <1>3, OwnRecord
<1> HIDE DEF moved
<1>5. /\ r \in [Nodes -> Client] /\ Loosens(room, r)
      /\ \A m \in Nodes \ {n} : r[m] = room[m]
      /\ \A m \in Nodes : r[m].registered = room[m].registered
  BY <1>1, <1>3, <1>4 DEF Loosens, Keeps, SameSession
<1>6. stale \ rescued \in SUBSET Nodes /\ stale \ rescued \subseteq stale
  BY <1>1
<1> HIDE DEF rescued, r
<1>7. /\ s \in [Nodes -> Client] /\ Loosens(r, s) /\ NoOrphans(s)
      /\ \A m \in Nodes : s[m].registered => r[m].registered
      /\ \A a, b \in Nodes \ stale : Couple2(r, a, b) => s[a] = r[a] /\ s[b] = r[b]
  BY <1>5, <1>6, ExpiredSpares, LooseExpired
<1>8. room' = s /\ replies' = {} /\ handled' = n
  BY <1>2, <1>7, SettleStays DEF Turn
<1> HIDE DEF s
<1>9. Loosens(room, s)
  BY <1>5, <1>7, LooseTransitive
<1>10. Quiet
  BY <1>8, <1>9 DEF Quiet, Unbroken, Loosens, WithoutSession
<1>11. ASSUME NEW a \in Nodes \ (stale \cup {n}), NEW b \in Nodes \ (stale \cup {n}),
              Couple2(room, a, b)
       PROVE  s[a] = room[a] /\ s[b] = room[b]
  <2>1. r[a] = room[a] /\ r[b] = room[b]
    BY <1>5
  <2>2. Couple2(r, a, b)
    BY <1>11, <2>1 DEF Couple2
  <2> QED BY <1>7, <2>1, <2>2
<1> QED BY <1>5, <1>7, <1>8, <1>10, <1>11

-----------------------------------------------------------------------------
(* The properties of one step, and the turns that write to a session. *)

\* The steps ReportChangeDisarms, AttemptAdvancesTogether and StartReachesBoth
\* allow.
DisarmStep ==
    \A a \in Nodes :
        (/\ room[a].report # NoReport
         /\ room'[a].report # room[a].report
         /\ room'[a].natAttemptId = room[a].natAttemptId)
        => \A b \in Nodes : room'[b].natSessionId = room'[a].natSessionId
                            => ~room'[b].armed

AdvanceStep ==
    \A a \in Nodes :
        (/\ room[a].natSessionId # 0
         /\ room'[a].natSessionId = room[a].natSessionId
         /\ room'[a].natAttemptId # room[a].natAttemptId)
        => \E b \in Nodes \ {a} :
            /\ room[b].natSessionId = room[a].natSessionId
            /\ \A m \in {a, b} :
                /\ room'[m].natSessionId = room[m].natSessionId
                /\ room'[m].natAttemptId = room'[a].natAttemptId
                /\ room'[m].natAttemptId > room[m].natAttemptId
                /\ room[m].natRetryRequested \/ handled' = m
                /\ room'[m].report = NoReport /\ ~room'[m].armed

StartStep ==
    \A d \in replies' : d.type = "NAT_START" =>
        \E e \in replies' :
            /\ e.type = "NAT_START"
            /\ e.node # d.node
            /\ e.session = d.session /\ e.attempt = d.attempt
            /\ room'[d.node].pairedWith = e.node
            /\ room'[d.node].natAttemptId = d.attempt
            /\ room'[d.node].endpoint = d.endpoint
            /\ room'[d.node].armed
            /\ room'[d.node].report # NoReport

Sound == DisarmStep /\ AdvanceStep /\ StartStep

\* Every record, and what it says of its session.
LEMMA Records ==
    ASSUME IInv
    PROVE  \A m \in Nodes :
            /\ room[m] \in Client
            /\ SessionRecord(room[m], nextNatAttemptId)
            /\ room[m].natSessionId \in Nat /\ room[m].natAttemptId \in Nat
BY DEF IInv, RoomOK, SessionsOK, Client

LEMMA NoSessionUnarmed ==
    ASSUME IInv'
    PROVE  \A m \in Nodes : room'[m].natSessionId = 0 => ~room'[m].armed
BY DEF IInv, RoomOK, SessionsOK, SessionRecord

LEMMA QuietSound ==
    ASSUME IInv, IInv', Quiet
    PROVE  Sound
<1>1. DisarmStep
  BY Records, NoSessionUnarmed
     DEF DisarmStep, Quiet, Unbroken, Keeps, SameSession, SessionRecord
<1>2. AdvanceStep
  BY Records DEF AdvanceStep, Quiet, Unbroken, Keeps, SameSession, SessionRecord
<1>3. StartStep
  BY DEF StartStep, Quiet
<1> QED BY <1>1, <1>2, <1>3 DEF Sound

\* A turn that writes the two records of a couple and leaves it a couple.
LEMMA CoupleTurn ==
    ASSUME IInv, NEW n \in Nodes, NEW source, NEW target \in Nodes \ {n},
           NEW session, NatValid(Live, n, source, target, session),
           NEW r \in [Nodes -> Client],
           r[n].registered, r[target].registered,
           r[n].pairedWith = target, r[target].pairedWith = n,
           \A m \in Nodes \ {n, target} : r[m] = Live[m],
           NEW sent, Turn(n, r, sent)
    PROVE  /\ room' = r /\ Calm(Live, room', n)
           /\ replies' = sent /\ handled' = n
<1>1. /\ Live \in [Nodes -> Client] /\ NoOrphans(Live)
      /\ Live[n].registered /\ Live[target].registered
      /\ Live[n].pairedWith = target /\ Live[target].pairedWith = n
  BY LiveRoom DEF NatValid, ValidateNatPair
<1>2. Spares(Live, r, n) /\ \A m \in Nodes : r[m].registered => Live[m].registered
  BY <1>1, BothRecords
<1>3. Calm(Live, r, n)
  BY <1>2 DEF Calm, Grows
<1>4. NoOrphans(r)
  <2> SUFFICES ASSUME NEW m \in Nodes, Orphan(r, m) PROVE FALSE
    BY DEF NoOrphans
  <2>1. m \notin {n, target}
    BY DEF Orphan
  <2>2. r[m] = Live[m] /\ r[m].pairedWith \in Nodes
    BY <1>1, <2>1 DEF Orphan, Client
  <2>3. Live[Live[m].pairedWith].registered
    BY <1>1, <2>2 DEF NoOrphans, Orphan
  <2> QED BY <1>1, <2>2, <2>3 DEF Orphan
<1> QED BY <1>3, <1>4, SettleStays DEF Turn

\* Turns that leave report, session and attempt of every record alone.
LEMMA SameReports ==
    ASSUME IInv, IInv',
           \A m \in Nodes : /\ room'[m].natSessionId = Live[m].natSessionId
                            /\ room'[m].natAttemptId = Live[m].natAttemptId
                            /\ room'[m].report = Live[m].report
    PROVE  DisarmStep /\ AdvanceStep
<1>1. \A m \in Nodes : Keeps(room[m], Live[m]) \/ Live[m].natSessionId = 0
  BY LiveRoom DEF Loosens, WithoutSession
<1>2. DisarmStep
  BY <1>1, NoSessionUnarmed DEF DisarmStep, Keeps, SameSession
<1>3. AdvanceStep
  BY <1>1 DEF AdvanceStep, Keeps, SameSession
<1> QED BY <1>2, <1>3

\* The record d holds the session that c holds, in the attempt that c is in.
SameHold(c, d) ==
    /\ d.pairedWith = c.pairedWith
    /\ d.pairInitiator = c.pairInitiator
    /\ d.natSessionId = c.natSessionId
    /\ d.natPunchToken = c.natPunchToken
    /\ d.natAttemptId = c.natAttemptId
    /\ d.natRetryRequested => c.natRetryRequested

\* What NAT_INFO, NAT_ARMED and NAT_RETRY leave in the room, and send.
LEMMA NatInfoRoom ==
    ASSUME IInv, NEW n \in Nodes, NEW source, NEW target \in Nodes \ {n},
           NEW session \in Nat \ {0}, NEW attempt, NEW report \in Reports,
           NatInfo(Live, n, source, target, session, attempt, report)
    PROVE  /\ SameHold(Live[n], room'[n]) /\ room'[n].report = report
           /\ SameHold(Live[target], room'[target])
           /\ room'[target].report = Live[target].report
           /\ \A m \in {n, target} : /\ room'[m].armed => Live[m].armed
                                     /\ Live[n].report # report => ~room'[m].armed
           /\ \A m \in Nodes \ {n, target} : room'[m] = Live[m]
           /\ Calm(Live, room', n)
           /\ replies' = IF room'[target].report = NoReport
                         THEN {Attempt("NAT_WAIT", room', n)}
                         ELSE {SendNatPeerInfo(room', n, target),
                               SendNatPeerInfo(room', target, n)}
<1> DEFINE r == StoreReport(Live, n, target, report)
           same == Live[n].report = report
           mine == same /\ Live[n].armed
           theirs == same /\ Live[target].armed
           c == [Live[n] EXCEPT !.report = report, !.armed = mine]
           d == [Live[target] EXCEPT !.armed = theirs]
           sent == IF r[target].report = NoReport
                   THEN {Attempt("NAT_WAIT", r, n)}
                   ELSE {SendNatPeerInfo(r, n, target), SendNatPeerInfo(r, target, n)}
<1>1. NatValid(Live, n, source, target, session) /\ Turn(n, r, sent)
  BY DEF NatInfo
<1>2. /\ Live \in [Nodes -> Client] /\ Live[n] \in Client /\ Live[target] \in Client
      /\ Live[n].registered /\ Live[target].registered
      /\ Live[n].pairedWith = target /\ Live[target].pairedWith = n
  BY <1>1, LiveRoom DEF NatValid, ValidateNatPair
<1>4. r = [Live EXCEPT ![n] = c, ![target] = d]
  BY <1>2, ZenonT(40) DEF StoreReport, Client
<1>5. /\ mine \in BOOLEAN /\ (mine => Live[n].armed) /\ (~same => ~mine)
      /\ theirs \in BOOLEAN /\ (theirs => Live[target].armed) /\ (~same => ~theirs)
  OBVIOUS
<1> HIDE DEF mine, theirs
<1>6. /\ c \in Client /\ d \in Client
      /\ c.registered = Live[n].registered /\ d.registered = Live[target].registered
      /\ c.pairedWith = target /\ d.pairedWith = n
      /\ c.armed = mine /\ d.armed = theirs
  BY <1>2, <1>5, ZenonT(40) DEF Client
<1>9. /\ SameHold(Live[n], c) /\ c.report = report
      /\ SameHold(Live[target], d) /\ d.report = Live[target].report
  BY <1>2 DEF Client, SameHold
<1> HIDE DEF c, d, r, sent
<1>7. /\ r \in [Nodes -> Client] /\ r[n] = c /\ r[target] = d
      /\ \A m \in Nodes \ {n, target} : r[m] = Live[m]
  BY <1>2, <1>4, <1>6
<1>8. room' = r /\ Calm(Live, room', n) /\ replies' = sent
  <2>1. /\ r[n].registered /\ r[target].registered
        /\ r[n].pairedWith = target /\ r[target].pairedWith = n
    BY <1>2, <1>6, <1>7
  <2> QED BY <1>1, <1>7, <2>1, CoupleTurn
<1>10. sent = IF r[target].report = NoReport
              THEN {Attempt("NAT_WAIT", r, n)}
              ELSE {SendNatPeerInfo(r, n, target), SendNatPeerInfo(r, target, n)}
  BY DEF sent
<1>11. \A m \in {n, target} : /\ room'[m].armed => Live[m].armed
                              /\ ~same => ~room'[m].armed
  BY <1>5, <1>6, <1>7, <1>8
<1> QED BY <1>7, <1>8, <1>9, <1>10, <1>11

LEMMA NatInfoTurn ==
    ASSUME IInv, IInv', NEW n \in Nodes, NEW source, NEW target \in Nodes \ {n},
           NEW session \in Nat \ {0}, NEW attempt, NEW report \in Reports,
           NatInfo(Live, n, source, target, session, attempt, report)
    PROVE  Calm(Live, room', n) /\ Sound
<1> DEFINE same == Live[n].report = report
           c == room'[n]
           d == room'[target]
<1>1. NatValid(Live, n, source, target, session)
  BY DEF NatInfo
<1>2. /\ Live \in [Nodes -> Client] /\ Live[n] \in Client /\ Live[target] \in Client
      /\ Live[n].natSessionId = session /\ Live[target].natSessionId = session
      /\ \A m \in Nodes \ {n, target} : Live[m].natSessionId # session
  BY <1>1, LiveRoom, ValidPair DEF NatValid, ValidateNatPair
<1>0. /\ SameHold(Live[n], c) /\ c.report = report /\ (~same => ~c.armed)
      /\ SameHold(Live[target], d) /\ d.report = Live[target].report /\ (~same => ~d.armed)
      /\ \/ replies' = {Attempt("NAT_WAIT", room', n)}
         \/ replies' = {SendNatPeerInfo(room', n, target), SendNatPeerInfo(room', target, n)}
  BY NatInfoRoom
<1>3. \A e \in replies' : e.type # "NAT_START"
  BY <1>0, AttemptType, ReplyTypes
<1>7. /\ c.natSessionId = session /\ c.natAttemptId = Live[n].natAttemptId
      /\ c.report = report /\ (~same => ~c.armed)
      /\ d.natSessionId = session /\ d.natAttemptId = Live[target].natAttemptId
      /\ d.report = Live[target].report /\ (~same => ~d.armed)
  BY <1>0, <1>2 DEF SameHold
<1>8. /\ \A m \in Nodes \ {n, target} : room'[m] = Live[m]
      /\ Calm(Live, room', n)
  BY NatInfoRoom
<1>9. \A m \in Nodes : Keeps(room[m], Live[m]) \/ Live[m].natSessionId = 0
  BY LiveRoom DEF Loosens, WithoutSession
<1>10. DisarmStep
  <2> SUFFICES ASSUME NEW a \in Nodes,
                      room[a].report # NoReport, room'[a].report # room[a].report,
                      NEW b \in Nodes, room'[b].natSessionId = room'[a].natSessionId
               PROVE  ~room'[b].armed
    BY DEF DisarmStep
  <2>1. CASE room'[a].natSessionId = 0
    BY <2>1, NoSessionUnarmed
  <2>2. CASE room'[a].natSessionId # 0
    <3>1. Keeps(room[a], Live[a])
      BY <1>2, <1>7, <1>8, <1>9, <2>2
    <3>2. a = n /\ ~same
      BY <1>7, <1>8, <3>1 DEF Keeps, SameSession
    <3>3. b \in {n, target}
      BY <1>2, <1>7, <1>8, <3>2
    <3> QED BY <1>7, <3>2, <3>3
  <2> QED BY <2>1, <2>2
<1>11. AdvanceStep
  BY <1>2, <1>7, <1>8, <1>9 DEF AdvanceStep, Keeps, SameSession
<1>12. StartStep
  BY <1>3 DEF StartStep
<1> QED BY <1>8, <1>10, <1>11, <1>12 DEF Sound

LEMMA NatArmedRoom ==
    ASSUME IInv, NEW n \in Nodes, NEW source, NEW target \in Nodes \ {n},
           NEW session \in Nat \ {0}, NEW attempt,
           NatArmed(Live, n, source, target, session, attempt)
    PROVE  /\ room'[n] \in Client /\ SameHold(Live[n], room'[n])
           /\ room'[n].endpoint = Live[n].endpoint
           /\ room'[n].report = Live[n].report /\ room'[n].armed
           /\ \A m \in Nodes \ {n} : room'[m] = Live[m]
           /\ Calm(Live, room', n)
           /\ replies' = IF Live[target].armed
                         THEN {Attempt("NAT_START", room', n),
                               Attempt("NAT_START", room', target)}
                         ELSE {Attempt("NAT_ARMED_ACK", room', n)}
<1> DEFINE r == [Live EXCEPT ![n].armed = TRUE]
           c == [Live[n] EXCEPT !.armed = TRUE]
           sent == IF r[target].armed
                   THEN {Attempt("NAT_START", r, n), Attempt("NAT_START", r, target)}
                   ELSE {Attempt("NAT_ARMED_ACK", r, n)}
<1>1. NatValid(Live, n, source, target, session) /\ Turn(n, r, sent)
  BY DEF NatArmed, CanArm
<1>2. /\ Live \in [Nodes -> Client] /\ Live[n] \in Client
      /\ Live[n].registered /\ Live[target].registered
      /\ Live[n].pairedWith = target /\ Live[target].pairedWith = n
  BY <1>1, LiveRoom DEF NatValid, ValidateNatPair
<1>3. /\ c \in Client /\ c.registered /\ SameHold(Live[n], c)
      /\ c.endpoint = Live[n].endpoint /\ c.report = Live[n].report /\ c.armed
      /\ c.pairedWith = target
  BY <1>2 DEF Client, SameHold
<1>4. r = [Live EXCEPT ![n] = c]
  BY <1>2
<1> HIDE DEF c, r, sent
<1>5. /\ r \in [Nodes -> Client] /\ r[n] = c
      /\ \A m \in Nodes \ {n} : r[m] = Live[m]
  BY <1>2, <1>3, <1>4
<1>6. room' = r /\ Calm(Live, room', n) /\ replies' = sent
  <2>1. /\ r[n].registered /\ r[target].registered
        /\ r[n].pairedWith = target /\ r[target].pairedWith = n
        /\ \A m \in Nodes \ {n, target} : r[m] = Live[m]
    BY <1>2, <1>3, <1>5
  <2> QED BY <1>1, <1>5, <2>1, CoupleTurn
<1>7. sent = IF r[target].armed
             THEN {Attempt("NAT_START", r, n), Attempt("NAT_START", r, target)}
             ELSE {Attempt("NAT_ARMED_ACK", r, n)}
  BY DEF sent
<1>8. r[target] = Live[target]
  BY <1>5
<1> QED BY <1>3, <1>5, <1>6, <1>7, <1>8

LEMMA NatArmedTurn ==
    ASSUME IInv, IInv', NEW n \in Nodes, NEW source, NEW target \in Nodes \ {n},
           NEW session \in Nat \ {0}, NEW attempt,
           NatArmed(Live, n, source, target, session, attempt)
    PROVE  Calm(Live, room', n) /\ Sound
<1> DEFINE c == room'[n]
           d == Live[target]
<1>1. CanArm(Live, n, source, target, session, attempt)
      /\ NatValid(Live, n, source, target, session)
  BY DEF NatArmed, CanArm
<1>2. /\ Live[n].pairedWith = target /\ Live[target].pairedWith = n
      /\ Live[n].natSessionId = session /\ Live[target].natSessionId = session
      /\ Live[n].natAttemptId = attempt /\ Live[target].natAttemptId = attempt
      /\ Live[n].report # NoReport /\ Live[target].report # NoReport
  BY <1>1, LiveRoom, ValidPair DEF CanArm, NatValid, ValidateNatPair, ValidateNatSession
<1>3. /\ SameHold(Live[n], c) /\ c.report = Live[n].report /\ c.armed
      /\ \A m \in Nodes \ {n} : room'[m] = Live[m]
      /\ Calm(Live, room', n)
  BY NatArmedRoom
<1>4. /\ c.pairedWith = target /\ c.natSessionId = session /\ c.natAttemptId = attempt
      /\ room'[target] = d
  BY <1>2, <1>3 DEF SameHold
<1>5. DisarmStep /\ AdvanceStep
  BY <1>2, <1>3, <1>4, SameReports
<1>6. StartStep
  <2>1. CASE ~d.armed
    <3>1. replies' = {Attempt("NAT_ARMED_ACK", room', n)}
      BY <2>1, NatArmedRoom
    <3> QED BY <3>1, AttemptType DEF StartStep
  <2>2. CASE d.armed
    <3> DEFINE mine == Attempt("NAT_START", room', n)
               theirs == Attempt("NAT_START", room', target)
    <3>1. replies' = {mine, theirs}
      BY <2>2, NatArmedRoom
    <3>2. /\ mine.type = "NAT_START" /\ mine.node = n /\ mine.endpoint = c.endpoint
          /\ mine.session = session /\ mine.attempt = attempt
          /\ theirs.type = "NAT_START" /\ theirs.node = target
          /\ theirs.endpoint = d.endpoint
          /\ theirs.session = session /\ theirs.attempt = attempt
      BY <1>2, <1>4, AttemptType
    <3> HIDE DEF mine, theirs
    <3> QED BY <1>2, <1>3, <1>4, <2>2, <3>1, <3>2 DEF StartStep
  <2> QED BY <2>1, <2>2
<1> QED BY <1>3, <1>5, <1>6 DEF Sound

LEMMA NatRetryWaitRoom ==
    ASSUME IInv, NEW n \in Nodes, NEW source, NEW target \in Nodes \ {n},
           NEW session \in Nat \ {0}, NEW attempt,
           NatRetryWait(Live, n, source, target, session, attempt)
    PROVE  /\ room'[n] = [Live[n] EXCEPT !.natRetryRequested = TRUE]
           /\ \A m \in Nodes \ {n} : room'[m] = Live[m]
           /\ Calm(Live, room', n)
           /\ \A d \in replies' : d.type \in {"ERROR", "NAT_RETRY_WAIT"}
<1> DEFINE r == RequestRetry(Live, n)
           c == [Live[n] EXCEPT !.natRetryRequested = TRUE]
           sent == IF r[target].natRetryRequested
                   THEN {Datagram("ERROR", m, r[m].endpoint) : m \in {n, target}}
                   ELSE {Attempt("NAT_RETRY_WAIT", r, n)}
<1>1. NatValid(Live, n, source, target, session) /\ Turn(n, r, sent)
  BY DEF NatRetryWait
<1>2. /\ Live \in [Nodes -> Client] /\ Live[n] \in Client /\ Live[target] \in Client
      /\ Live[n].registered /\ Live[target].registered
      /\ Live[n].pairedWith = target /\ Live[target].pairedWith = n
  BY <1>1, LiveRoom DEF NatValid, ValidateNatPair
<1>3. c \in Client /\ c.registered /\ c.pairedWith = target
  BY <1>2 DEF Client
<1>4. r = [Live EXCEPT ![n] = c]
  BY <1>2 DEF RequestRetry
<1>5. \A e \in sent : e.type \in {"ERROR", "NAT_RETRY_WAIT"}
  BY AttemptType, DatagramType
<1>6. c = [Live[n] EXCEPT !.natRetryRequested = TRUE]
  OBVIOUS
<1> HIDE DEF c, r, sent
<1>7. /\ r \in [Nodes -> Client] /\ r[n] = c
      /\ \A m \in Nodes \ {n} : r[m] = Live[m]
  BY <1>2, <1>3, <1>4
<1>8. room' = r /\ Calm(Live, room', n) /\ replies' = sent
  BY <1>1, <1>2, <1>3, <1>7, CoupleTurn
<1> QED BY <1>5, <1>6, <1>7, <1>8

LEMMA NatRetryWaitTurn ==
    ASSUME IInv, IInv', NEW n \in Nodes, NEW source, NEW target \in Nodes \ {n},
           NEW session \in Nat \ {0}, NEW attempt,
           NatRetryWait(Live, n, source, target, session, attempt)
    PROVE  Calm(Live, room', n) /\ Sound
<1>1. Live[n] \in Client /\ room'[n] = [Live[n] EXCEPT !.natRetryRequested = TRUE]
  BY LiveRoom, NatRetryWaitRoom
<1>2. /\ room'[n].natSessionId = Live[n].natSessionId
      /\ room'[n].natAttemptId = Live[n].natAttemptId
      /\ room'[n].report = Live[n].report
  BY <1>1 DEF Client
<1>3. /\ \A m \in Nodes \ {n} : room'[m] = Live[m]
      /\ Calm(Live, room', n)
      /\ \A d \in replies' : d.type # "NAT_START"
  BY NatRetryWaitRoom
<1>4. DisarmStep /\ AdvanceStep
  BY <1>2, <1>3, SameReports
<1> QED BY <1>3, <1>4 DEF Sound, StartStep

LEMMA NatRetryOpenRoom ==
    ASSUME IInv, NEW n \in Nodes, NEW source, NEW target \in Nodes \ {n},
           NEW session \in Nat \ {0}, NEW attempt,
           NatRetryOpen(Live, n, source, target, session, attempt)
    PROVE  /\ room'[n] = NextAttempt(Live[n], nextNatAttemptId)
           /\ room'[target] = NextAttempt(Live[target], nextNatAttemptId)
           /\ \A m \in Nodes \ {n, target} : room'[m] = Live[m]
           /\ Calm(Live, room', n)
           /\ replies' = {SendNatAttempt(room', n), SendNatAttempt(room', target)}
           /\ handled' = n
<1> DEFINE next == nextNatAttemptId
           r == OpenAttempt(Live, n, target, next)
           c == NextAttempt(Live[n], next)
           d == NextAttempt(Live[target], next)
           sent == {SendNatAttempt(r, n), SendNatAttempt(r, target)}
<1>1. NatValid(Live, n, source, target, session) /\ Turn(n, r, sent)
  BY DEF NatRetryOpen
<1>2. /\ Live \in [Nodes -> Client] /\ Live[n] \in Client /\ Live[target] \in Client
      /\ Live[n].registered /\ Live[target].registered
      /\ Live[n].pairedWith = target /\ Live[target].pairedWith = n
  BY <1>1, LiveRoom DEF NatValid, ValidateNatPair
<1>3. /\ c \in Client /\ d \in Client
      /\ c.registered = Live[n].registered /\ d.registered = Live[target].registered
  BY <1>2, LiveRoom, NextAttemptType
<1>4. c.pairedWith = target /\ d.pairedWith = n
  BY <1>2 DEF NextAttempt, Client
<1>5. r = [Live EXCEPT ![n] = c, ![target] = d]
  BY <1>2 DEF OpenAttempt
<1>6. /\ c = NextAttempt(Live[n], next) /\ d = NextAttempt(Live[target], next)
      /\ sent = {SendNatAttempt(r, n), SendNatAttempt(r, target)}
  OBVIOUS
<1> HIDE DEF c, d, r, sent
<1>7. /\ r \in [Nodes -> Client] /\ r[n] = c /\ r[target] = d
      /\ \A m \in Nodes \ {n, target} : r[m] = Live[m]
  BY <1>2, <1>3, <1>5
<1>8. /\ r[n].registered /\ r[target].registered
      /\ r[n].pairedWith = target /\ r[target].pairedWith = n
  BY <1>2, <1>3, <1>4, <1>7
<1>9. room' = r /\ Calm(Live, room', n) /\ replies' = sent /\ handled' = n
  BY <1>1, <1>7, <1>8, CoupleTurn
<1> QED BY <1>6, <1>7, <1>9

LEMMA NatRetryOpenTurn ==
    ASSUME IInv, IInv', NEW n \in Nodes, NEW source, NEW target \in Nodes \ {n},
           NEW session \in Nat \ {0}, NEW attempt,
           NatRetryOpen(Live, n, source, target, session, attempt)
    PROVE  Calm(Live, room', n) /\ Sound
<1> DEFINE next == nextNatAttemptId
           c == room'[n]
           d == room'[target]
<1>1. NatValid(Live, n, source, target, session) /\ Live[target].natRetryRequested
  BY DEF NatRetryOpen
<1>2. /\ Live \in [Nodes -> Client] /\ Live[n] \in Client /\ Live[target] \in Client
      /\ Live[n].natSessionId = session /\ Live[target].natSessionId = session
  BY <1>1, LiveRoom, ValidPair DEF NatValid, ValidateNatPair
<1>3. c = NextAttempt(Live[n], next) /\ d = NextAttempt(Live[target], next)
  BY NatRetryOpenRoom
<1>4. /\ c.natSessionId = session /\ d.natSessionId = session
      /\ c.natAttemptId = next /\ d.natAttemptId = next
      /\ c.report = NoReport /\ d.report = NoReport
      /\ c.armed = FALSE /\ d.armed = FALSE
  BY <1>2, <1>3 DEF NextAttempt, Client
<1>7. \A m \in Nodes \ {n, target} : room'[m] = Live[m]
  BY NatRetryOpenRoom
<1>6. replies' = {SendNatAttempt(room', n), SendNatAttempt(room', target)}
  BY NatRetryOpenRoom
<1>9. Calm(Live, room', n) /\ handled' = n
  BY NatRetryOpenRoom
<1>10. \A m \in Nodes : Keeps(room[m], Live[m]) \/ Live[m].natSessionId = 0
  BY LiveRoom DEF Loosens, WithoutSession
<1>11. Keeps(room[n], Live[n]) /\ Keeps(room[target], Live[target])
  BY <1>2, <1>10
<1>12. DisarmStep
  <2> SUFFICES ASSUME NEW a \in Nodes,
                      room[a].report # NoReport, room'[a].report # room[a].report,
                      room'[a].natAttemptId = room[a].natAttemptId,
                      NEW b \in Nodes, room'[b].natSessionId = room'[a].natSessionId
               PROVE  ~room'[b].armed
    BY DEF DisarmStep
  <2>1. a \notin {n, target}
    BY <1>4, <1>7, <1>9, Records DEF SessionRecord
  <2>2. Live[a].natSessionId = 0
    BY <1>7, <1>9, <1>10, <2>1 DEF Keeps, SameSession
  <2> QED BY <1>7, <1>9, <2>1, <2>2, NoSessionUnarmed
<1>13. AdvanceStep
  <2> SUFFICES ASSUME NEW a \in Nodes,
                      room[a].natSessionId # 0,
                      room'[a].natSessionId = room[a].natSessionId,
                      room'[a].natAttemptId # room[a].natAttemptId
               PROVE  \E b \in Nodes \ {a} :
                        /\ room[b].natSessionId = room[a].natSessionId
                        /\ \A m \in {a, b} :
                            /\ room'[m].natSessionId = room[m].natSessionId
                            /\ room'[m].natAttemptId = room'[a].natAttemptId
                            /\ room'[m].natAttemptId > room[m].natAttemptId
                            /\ room[m].natRetryRequested \/ handled' = m
                            /\ room'[m].report = NoReport /\ ~room'[m].armed
    BY DEF AdvanceStep
  <2>1. a \in {n, target}
    BY <1>7, <1>9, <1>10 DEF Keeps, SameSession
  <2>2. /\ room[n].natSessionId = session /\ room[target].natSessionId = session
        /\ room[target].natRetryRequested
    BY <1>1, <1>2, <1>11 DEF Keeps, SameSession
  <2>3. next > room[n].natAttemptId /\ next > room[target].natAttemptId
    BY Records, LiveRoom DEF SessionRecord
  <2>4. \A m \in {n, target} :
            /\ room'[m].natSessionId = room[m].natSessionId
            /\ room'[m].natAttemptId = next
            /\ room'[m].natAttemptId > room[m].natAttemptId
            /\ room[m].natRetryRequested \/ handled' = m
            /\ room'[m].report = NoReport /\ ~room'[m].armed
    BY <1>4, <1>7, <1>9, <2>2, <2>3
  <2>5. CASE a = n
    BY <2>2, <2>4, <2>5
  <2>6. CASE a = target
    BY <2>2, <2>4, <2>6
  <2> QED BY <2>1, <2>5, <2>6
<1>14. StartStep
  BY <1>6, ReplyTypes DEF StartStep
<1> QED BY <1>9, <1>12, <1>13, <1>14 DEF Sound

LEMMA QuoteTurn ==
    ASSUME IInv, IInv', NEW n \in Nodes, NEW source, NEW target \in Nodes \ {n},
           NEW session \in Nat \ {0}, NEW attempt,
           AnyQuote(Live, n, source, target, session, attempt)
    PROVE  Calm(Live, room', n) /\ Sound
<1>0. Live \in [Nodes -> Client] /\ Loosens(Live, Live) /\ Calm(Live, Live, n)
  BY LiveRoom, SameCalm DEF Loosens, Keeps, SameSession
<1>1. CASE NatRetryStale(Live, n, source, target, session, attempt)
  <2>1. Turn(n, Live, {SendNatAttempt(Live, n)})
    BY <1>1 DEF NatRetryStale
  <2>2. \A d \in {SendNatAttempt(Live, n)} : d.type # "NAT_START"
    BY ReplyTypes
  <2> QED BY <1>0, <2>1, <2>2, LooseTurn, QuietSound
<1>2. CASE NatRefused(Live, n, source, target, session, attempt)
  BY <1>0, <1>2, RefusedTypes, LooseTurn, QuietSound DEF NatRefused
<1> QED BY <1>1, <1>2, NatInfoTurn, NatArmedTurn, NatRetryWaitTurn, NatRetryOpenTurn
        DEF AnyQuote

-----------------------------------------------------------------------------
(* Every step of the specification. *)

\* What a step does to couples, and to the number of clients in the room.
IsolationStep ==
    \A a, b \in Nodes :
        (Mutual(a, b) /\ {a, b} \cap stale = {} /\ handled' \notin {a, b})
        => room'[a] = room[a] /\ room'[b] = room[b]

GrowthStep ==
    \/ Registered(room') \subseteq Registered(room)
    \/ \E n \in Nodes, live \in SUBSET Registered(room) :
        /\ Registered(room') \subseteq live \cup {n}
        /\ ~(Cardinality(live) >= MaxClients)

LEMMA CalmSteps ==
    ASSUME IInv, NEW n, Calm(Live, room', n), n \in Nodes \/ n = NoNode, handled' = n
    PROVE  IsolationStep /\ GrowthStep
<1>1. IsolationStep
  <2> SUFFICES ASSUME NEW a \in Nodes, NEW b \in Nodes, Mutual(a, b),
                      {a, b} \cap stale = {}, handled' \notin {a, b}
               PROVE  room'[a] = room[a] /\ room'[b] = room[b]
    BY DEF IsolationStep
  <2>1. Couple2(room, a, b)
    BY NodesAssumption DEF Mutual, Couple2, IInv, PartnerPresent
  <2>2. Live[a] = room[a] /\ Live[b] = room[b]
    BY <2>1, LiveRoom
  <2>3. Couple2(Live, a, b)
    BY <2>1, <2>2 DEF Couple2
  <2> QED BY <2>2, <2>3 DEF Calm, Spares
<1>2. GrowthStep
  <2>1. Registered(Live) \subseteq Registered(room)
    BY LiveRoom DEF Registered
  <2>2. CASE Registered(room') \subseteq Registered(Live)
    BY <2>1, <2>2 DEF GrowthStep
  <2>3. CASE ~(Registered(room') \subseteq Registered(Live))
    <3>1. n \in Nodes /\ ~RoomFull(Live, n) /\ ~Live[n].registered
      BY <2>3 DEF Calm, Grows, Registered
    <3>2. Registered(room') \subseteq Registered(Live) \cup {n}
      BY DEF Calm, Grows, Registered
    <3>3. ~(Cardinality(Registered(Live)) >= MaxClients)
      BY <3>1 DEF RoomFull
    <3> QED BY <2>1, <3>1, <3>2, <3>3 DEF GrowthStep
  <2> QED BY <2>2, <2>3
<1> QED BY <1>1, <1>2

\* A turn names the sender it served.
LEMMA SenderHandled ==
    ASSUME NEW live, NEW n, NEW source
    PROVE  /\ Request(live, n, source) => handled' = n
           /\ \A target \in Nodes : Join(live, n, source, target) => handled' = n
           /\ \A target \in Nodes, session \in Issued, attempt \in Issued :
                Quote(live, n, source, target, session, attempt) => handled' = n
<1>1. Request(live, n, source) => handled' = n
  BY ZenonT(40) DEF Request, RefuseRoomFull, Reg, ConnectNotFound, ConnectRefused, ConnectAgain,
         ConnectPair, Unreg, List, Turn
<1>2. ASSUME NEW target \in Nodes, Join(live, n, source, target)
      PROVE  handled' = n
  BY <1>2 DEF Join, V6Refused, V6Join, RelayWait, RelayRefused, RelayJoin, Turn
<1>3. ASSUME NEW target \in Nodes, NEW session \in Issued, NEW attempt \in Issued,
             Quote(live, n, source, target, session, attempt)
      PROVE  handled' = n
  BY <1>3 DEF Quote, NatInfo, NatArmed, NatRetryStale, NatRetryWait, NatRetryOpen,
              NatRefused, Turn
<1> QED BY <1>1, <1>2, <1>3

LEMMA ReceiveStep ==
    ASSUME IInv, IInv', NEW n \in Nodes, NEW source \in Sockets, Receive(n, source)
    PROVE  Sound /\ IsolationStep /\ GrowthStep
<1>1. CASE TunIp(n, source)
  <2>1. Quiet /\ GrowthStep
    BY <1>1, TunIpTurn DEF GrowthStep, Registered
  <2>2. IsolationStep
    <3> SUFFICES ASSUME NEW a \in Nodes, NEW b \in Nodes, Mutual(a, b),
                        {a, b} \cap stale = {}, handled' \notin {a, b}
                 PROVE  room'[a] = room[a] /\ room'[b] = room[b]
      BY DEF IsolationStep
    <3>1. Couple2(room, a, b)
      BY NodesAssumption DEF Mutual, Couple2, IInv, PartnerPresent
    <3> QED BY <1>1, <3>1, TunIpTurn
  <2> QED BY <2>1, <2>2, QuietSound
<1>2. CASE ~TunIp(n, source)
  <2>1. Calm(Live, room', n) /\ Sound
    <3>1. CASE Request(Live, n, source)
      <4>1. AnyRequest(Live, n, source)
        BY <3>1 DEF Request, AnyRequest
      <4> QED BY <4>1, RequestTurn, QuietSound
    <3>2. ASSUME NEW target \in Nodes \ {n}, Join(Live, n, source, target)
          PROVE  Calm(Live, room', n) /\ Sound
      BY <3>2, JoinTurn, QuietSound
    <3>3. ASSUME NEW target \in Nodes \ {n},
                 NEW session \in Issued, NEW attempt \in Issued,
                 Quote(Live, n, source, target, session, attempt)
          PROVE  Calm(Live, room', n) /\ Sound
      <4>1. AnyQuote(Live, n, source, target, session, attempt)
        BY <3>3 DEF Quote, AnyQuote
      <4>2. session \in Nat \ {0}
        BY DEF Issued, IInv
      <4> QED BY <4>1, <4>2, QuoteTurn
    <3> QED BY <1>2, <3>1, <3>2, <3>3 DEF Receive
  <2>2. handled' = n
    BY <1>2, SenderHandled DEF Receive
  <2> QED BY <2>1, <2>2, CalmSteps
<1> QED BY <1>1, <1>2

LEMMA TickStep ==
    ASSUME IInv, IInv', Tick
    PROVE  Sound /\ IsolationStep /\ GrowthStep
<1>1. Live \in [Nodes -> Client] /\ Loosens(Live, Live) /\ Calm(Live, Live, NoNode)
  BY LiveRoom, SameCalm DEF Loosens, Keeps, SameSession
<1>2. Turn(NoNode, Live, {}) /\ handled' = NoNode
  BY DEF Tick, Turn
<1>3. Calm(Live, room', NoNode) /\ Quiet
  BY <1>1, <1>2, LooseTurn
<1> QED BY <1>2, <1>3, CalmSteps, QuietSound

\* What the last turn sent still fits the room: no other step writes to it.
Starts ==
    \A d \in replies : d.type = "NAT_START" =>
        \E e \in replies :
            /\ e.type = "NAT_START"
            /\ e.node # d.node
            /\ e.session = d.session /\ e.attempt = d.attempt
            /\ room[d.node].pairedWith = e.node
            /\ room[d.node].natAttemptId = d.attempt
            /\ room[d.node].endpoint = d.endpoint
            /\ room[d.node].armed
            /\ room[d.node].report # NoReport

SInv == IInv /\ Starts

LEMMA StepSound ==
    ASSUME SInv, [Next]_vars
    PROVE  SInv' /\ Sound /\ IsolationStep /\ GrowthStep
<1>1. IInv /\ IInv'
  BY NextIInv DEF SInv
<1>2. StartStep => Starts'
  BY DEF StartStep, Starts
<1>3. ASSUME NEW n \in Nodes, NEW source \in Sockets, Receive(n, source)
      PROVE  Sound /\ IsolationStep /\ GrowthStep
  BY <1>1, <1>3, ReceiveStep
<1>4. ASSUME Tick
      PROVE  Sound /\ IsolationStep /\ GrowthStep
  BY <1>1, <1>4, TickStep
<1>5. ASSUME UNCHANGED <<room, replies>>
      PROVE  Sound /\ IsolationStep /\ GrowthStep
  <2>1. StartStep
    BY <1>5 DEF SInv, Starts, StartStep
  <2>2. DisarmStep /\ AdvanceStep /\ IsolationStep
    BY <1>5 DEF DisarmStep, AdvanceStep, IsolationStep
  <2>3. GrowthStep
    BY <1>5 DEF GrowthStep, Registered
  <2> QED BY <2>1, <2>2, <2>3 DEF Sound
<1>6. Sound /\ IsolationStep /\ GrowthStep
  BY <1>3, <1>4, <1>5 DEF Next, vars, Age, RelayFinish
<1> QED BY <1>1, <1>2, <1>6 DEF SInv, Sound

LEMMA SInvariance == Spec => []SInv
<1>1. Init => SInv
  BY InitIInv DEF Init, SInv, Starts
<1>2. SInv /\ [Next]_vars => SInv'
  BY StepSound
<1> QED BY <1>1, <1>2, PTL DEF Spec

-----------------------------------------------------------------------------
(* What a step may never do. *)

\* A datagram of a third node, in whatever state it finds the room, leaves the
\* records of two clients that are paired and in time as they are: no handler
\* writes to, and no purge of a turn takes apart, a couple that is not the
\* sender's.
THEOREM CouplesIsolated == Spec => PairIsolation
<1>1. SInv /\ [Next]_vars => [IsolationStep]_vars
  BY StepSound
<1>2. SInv /\ [Next]_vars =>
        [\A a, b \in Nodes :
            (Mutual(a, b) /\ {a, b} \cap stale = {} /\ handled' \notin {a, b})
            => room'[a] = room[a] /\ room'[b] = room[b]]_vars
  BY <1>1 DEF IsolationStep
<1> QED BY <1>2, SInvariance, PTL DEF Spec, PairIsolation

\* HandleNatInfo: wherever a report changes within an attempt, both holders of
\* the session are disarmed by that very step.
THEOREM ReportChangesDisarm == Spec => ReportChangeDisarms
<1>1. SInv /\ [Next]_vars =>
        [\A a \in Nodes :
            (/\ room[a].report # NoReport
             /\ room'[a].report # room[a].report
             /\ room'[a].natAttemptId = room[a].natAttemptId)
            => \A b \in Nodes : room'[b].natSessionId = room'[a].natSessionId
                                => ~room'[b].armed]_vars
  BY StepSound DEF Sound, DisarmStep
<1> QED BY <1>1, SInvariance, PTL DEF Spec, ReportChangeDisarms

\* HandleNatRetry: an attempt is replaced by a later one, for both holders of
\* the session in one step, after both have asked for it.
THEOREM AttemptsAdvanceTogether == Spec => AttemptAdvancesTogether
<1>1. SInv /\ [Next]_vars =>
        [\A a \in Nodes :
            (/\ room[a].natSessionId # 0
             /\ room'[a].natSessionId = room[a].natSessionId
             /\ room'[a].natAttemptId # room[a].natAttemptId)
            => \E b \in Nodes \ {a} :
                /\ room[b].natSessionId = room[a].natSessionId
                /\ \A m \in {a, b} :
                    /\ room'[m].natSessionId = room[m].natSessionId
                    /\ room'[m].natAttemptId = room'[a].natAttemptId
                    /\ room'[m].natAttemptId > room[m].natAttemptId
                    /\ room[m].natRetryRequested \/ handled' = m
                    /\ room'[m].report = NoReport /\ ~room'[m].armed]_vars
  BY StepSound DEF Sound, AdvanceStep
<1> QED BY <1>1, SInvariance, PTL DEF Spec, AttemptAdvancesTogether

\* HandleNatArmed: NAT_START goes to both holders of a session or to neither,
\* and only when both have reported and armed in the attempt it names.
THEOREM StartsReachBoth == Spec => StartReachesBoth
<1>1. SInv /\ [Next]_vars =>
        [\A d \in replies' : d.type = "NAT_START" =>
            \E e \in replies' :
                /\ e.type = "NAT_START"
                /\ e.node # d.node
                /\ e.session = d.session /\ e.attempt = d.attempt
                /\ room'[d.node].pairedWith = e.node
                /\ room'[d.node].natAttemptId = d.attempt
                /\ room'[d.node].endpoint = d.endpoint
                /\ room'[d.node].armed
                /\ room'[d.node].report # NoReport]_vars
  BY StepSound DEF Sound, StartStep
<1> QED BY <1>1, SInvariance, PTL DEF Spec, StartReachesBoth

-----------------------------------------------------------------------------
(* The bound on the room.  Nodes may be infinite: the room is not. *)
Bounded == IsFiniteSet(Registered(room)) /\ CapacityKept

LEMMA BoundedStep ==
    ASSUME Bounded, GrowthStep
    PROVE  Bounded'
<1> DEFINE old == Registered(room)
           new == Registered(room')
<1>0. IsFiniteSet(old) /\ Cardinality(old) \in Nat /\ Cardinality(old) <= MaxClients
  BY FS_CardinalityType DEF Bounded, CapacityKept
<1>1. CASE new \subseteq old
  <2>1. IsFiniteSet(new) /\ Cardinality(new) \in Nat /\ Cardinality(new) <= Cardinality(old)
    BY <1>0, <1>1, FS_Subset, FS_CardinalityType
  <2> HIDE DEF old, new
  <2>2. Cardinality(new) <= MaxClients
    BY <1>0, <2>1, LimitsAssumption
  <2> QED BY <2>1, <2>2 DEF Bounded, CapacityKept, new
<1>2. ASSUME NEW n \in Nodes, NEW live \in SUBSET old, new \subseteq live \cup {n},
             ~(Cardinality(live) >= MaxClients)
      PROVE  Bounded'
  <2>1. IsFiniteSet(live) /\ Cardinality(live) \in Nat
    BY <1>0, FS_Subset, FS_CardinalityType
  <2>2. /\ IsFiniteSet(live \cup {n}) /\ Cardinality(live \cup {n}) \in Nat
        /\ Cardinality(live \cup {n}) <= Cardinality(live) + 1
    <3>1. /\ IsFiniteSet(live \cup {n})
          /\ Cardinality(live \cup {n}) \in {Cardinality(live), Cardinality(live) + 1}
      BY <2>1, FS_AddElement
    <3> QED BY <2>1, <3>1
  <2>3. /\ IsFiniteSet(new) /\ Cardinality(new) \in Nat
        /\ Cardinality(new) <= Cardinality(live \cup {n})
    BY <1>2, <2>2, FS_Subset, FS_CardinalityType
  <2> HIDE DEF old, new
  <2>4. Cardinality(new) <= MaxClients
    BY <1>2, <2>1, <2>2, <2>3, LimitsAssumption
  <2> QED BY <2>3, <2>4 DEF Bounded, CapacityKept, new
<1> QED BY <1>1, <1>2 DEF GrowthStep

\* HandleSession: the room never holds more than maxClientsPerRoom clients,
\* however registrations, purges and departures follow one another.
THEOREM RoomBounded == Spec => []CapacityKept
<1>1. Init => Bounded
  <2> SUFFICES ASSUME Init PROVE Bounded
    OBVIOUS
  <2>1. Registered(room) = {}
    BY DEF Init, Registered, NoClient
  <2> QED BY <2>1, FS_EmptySet, LimitsAssumption DEF Bounded, CapacityKept
<1>2. SInv /\ Bounded /\ [Next]_vars => Bounded'
  BY StepSound, BoundedStep
<1>3. Bounded => CapacityKept
  BY DEF Bounded
<1> QED BY <1>1, <1>2, <1>3, SInvariance, PTL DEF Spec

=============================================================================

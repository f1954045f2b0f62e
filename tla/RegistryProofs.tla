--------------------------- MODULE RegistryProofs ---------------------------
(***************************************************************************)
(* Theorems about Registry, for every set of nodes, sockets, capabilities  *)
(* and reports, and every bound.                                           *)
(*                                                                         *)
(* The argument is about a room, not about the variable: RoomOK is         *)
(* preserved by every operation a handler applies to the room.  Most       *)
(* operations only Weaken the sessions (each record keeps its session or   *)
(* drops it), and one lemma covers those; pairing, opening an attempt,     *)
(* storing a report and arming have a lemma each.                          *)
(***************************************************************************)
EXTENDS Registry, TLAPS

\* A node outside the room has left nothing behind.
Gone(r) == \A n \in Nodes : ~r[n].registered => r[n] = NoClient

\* What a record says about its own session.
SessionRecord(c, next) ==
    /\ c.natSessionId < next
    /\ c.natAttemptId < next
    /\ c.natSessionId # 0 <=> c.negotiatedModes # <<>>
    /\ c.natSessionId # 0 => c.pairedWith # NoNode
    /\ c.armed => c.natSessionId # 0 /\ c.report # NoReport

\* What two records that name the same session agree on.
Holders(r, a, b) ==
    /\ r[a].pairedWith = b
    /\ r[b].pairedWith = a
    /\ r[a].pairInitiator \in {a, b}
    /\ Agree(r[a], r[b])
    /\ r[a].armed => r[b].report # NoReport

OneSession(r) ==
    \A a, b \in Nodes :
        (a # b /\ r[a].natSessionId # 0 /\ r[a].natSessionId = r[b].natSessionId)
        => Holders(r, a, b)

\* Two clients paired with each other, each with a session, share it.
SharedSession(r) ==
    \A a, b \in Nodes :
        (/\ r[a].pairedWith = b /\ r[b].pairedWith = a
         /\ r[a].natSessionId # 0 /\ r[b].natSessionId # 0)
        => r[a].natSessionId = r[b].natSessionId

SessionsOK(r, next) ==
    /\ \A n \in Nodes : SessionRecord(r[n], next)
    /\ OneSession(r)
    /\ SharedSession(r)

RoomOK(r, next) ==
    /\ r \in [Nodes -> Client]
    /\ Gone(r)
    /\ SessionsOK(r, next)

\* The record d is c with its session kept as it is, or without a session.
SameSession(c, d) ==
    /\ d.pairedWith = c.pairedWith
    /\ d.negotiatedModes = c.negotiatedModes
    /\ d.pairInitiator = c.pairInitiator
    /\ d.natSessionId = c.natSessionId
    /\ d.natPunchToken = c.natPunchToken
    /\ d.natAttemptId = c.natAttemptId
    /\ d.report = c.report
    /\ d.armed = c.armed

WithoutSession(c, d) ==
    /\ d.natSessionId = 0
    /\ d.natAttemptId \in {0, c.natAttemptId}
    /\ d.negotiatedModes = <<>>
    /\ d.armed = FALSE

Weaker(r, s) ==
    \A n \in Nodes : SameSession(r[n], s[n]) \/ WithoutSession(r[n], s[n])

\* What a handler that opens and changes no session does to the records.
Keeps(c, d) == SameSession(c, d) /\ d.natRetryRequested = c.natRetryRequested

Loosens(r, s) ==
    \A n \in Nodes : Keeps(r[n], s[n]) \/ WithoutSession(r[n], s[n])

-----------------------------------------------------------------------------
(* The operations on one record. *)

LEMMA NoModes == <<>> \in Modes
BY DEF Modes

LEMMA SomeModes ==
    ASSUME NEW f \in Capabilities \cup {<<>>}, NEW s \in Capabilities \cup {<<>>}
    PROVE  IntersectTraversalModes(f, s) \in Modes
BY DEF Modes

LEMMA NoClientType == NoClient \in Client
BY NoModes DEF NoClient, Client

LEMMA ResetPairingType ==
    ASSUME NEW c \in Client
    PROVE  /\ ResetPairing(c) \in Client
           /\ ResetPairing(c).registered = c.registered
           /\ ResetPairing(c).pairedWith = NoNode
           /\ WithoutSession(c, ResetPairing(c))
BY NoModes DEF ResetPairing, Client, WithoutSession, NoNode

LEMMA PairedType ==
    ASSUME NEW c \in Client, NEW peer \in Nodes, NEW modes \in Modes,
           NEW initiator \in Nodes, NEW fresh \in Nat
    PROVE  LET d == Paired(c, peer, modes, initiator, fresh)
           IN  d \in Client /\ d.registered = c.registered
BY DEF Paired, Client

LEMMA NextAttemptType ==
    ASSUME NEW c \in Client, NEW fresh \in Nat
    PROVE  LET d == NextAttempt(c, fresh)
           IN  d \in Client /\ d.registered = c.registered
BY DEF NextAttempt, Client

LEMMA ReportType ==
    ASSUME NEW c \in Client, NEW report \in Reports, NEW armed \in BOOLEAN
    PROVE  LET d == [c EXCEPT !.report = report, !.armed = armed]
           IN  d \in Client /\ d.registered = c.registered
BY DEF Client

LEMMA ArmedType ==
    ASSUME NEW c \in Client, NEW armed \in BOOLEAN
    PROVE  LET d == [c EXCEPT !.armed = armed]
           IN  d \in Client /\ d.registered = c.registered /\ c.armed \in BOOLEAN
BY DEF Client

LEMMA WeakerSessions ==
    ASSUME NEW r, NEW s, NEW next \in Nat \ {0},
           SessionsOK(r, next), Weaker(r, s)
    PROVE  SessionsOK(s, next)
<1>1. \A n \in Nodes : SessionRecord(s[n], next)
  BY DEF SessionsOK, SessionRecord, Weaker, SameSession, WithoutSession
<1>2. OneSession(s)
  BY DEF SessionsOK, OneSession, Holders, Agree, Weaker, SameSession, WithoutSession
<1>3. SharedSession(s)
  BY DEF SessionsOK, SharedSession, Weaker, SameSession, WithoutSession
<1> QED BY <1>1, <1>2, <1>3 DEF SessionsOK

-----------------------------------------------------------------------------
(* The operations that only weaken the sessions of a room. *)

LEMMA EraseOK ==
    ASSUME NEW r, NEW next \in Nat \ {0}, NEW gone \in SUBSET Nodes, RoomOK(r, next)
    PROVE  RoomOK(Erase(r, gone), next)
<1> DEFINE s == Erase(r, gone)
<1>1. \A n \in Nodes : s[n] = IF n \in gone THEN NoClient ELSE r[n]
  BY DEF Erase, RoomOK
<1>2. s \in [Nodes -> Client]
  BY <1>1, NoClientType DEF Erase, RoomOK
<1>3. Gone(s)
  BY <1>1 DEF RoomOK, Gone
<1>4. Weaker(r, s)
  BY <1>1 DEF Weaker, SameSession, WithoutSession, NoClient
<1> HIDE DEF s
<1> QED BY <1>2, <1>3, <1>4, WeakerSessions DEF RoomOK, s

\* ReleaseOrphans leaves nobody paired with a client that is not there.
LEMMA ReleaseOrphansRoom ==
    ASSUME NEW r \in [Nodes -> Client]
    PROVE  /\ ReleaseOrphans(r) \in [Nodes -> Client]
           /\ \A n \in Nodes : ReleaseOrphans(r)[n] =
                IF Orphan(r, n) THEN ResetPairing(r[n]) ELSE r[n]
<1>1. \A n \in Nodes : r[n] \in Client
  OBVIOUS
<1>2. \A n \in Nodes : ResetPairing(r[n]) \in Client
  BY <1>1, ResetPairingType
<1>3. CASE \A n \in Nodes : ~Orphan(r, n)
  BY <1>3 DEF ReleaseOrphans
<1>4. CASE ~\A n \in Nodes : ~Orphan(r, n)
  BY <1>2, <1>4 DEF ReleaseOrphans
<1> QED BY <1>3, <1>4

LEMMA ReleaseOrphansRegistered ==
    ASSUME NEW r \in [Nodes -> Client]
    PROVE  \A n \in Nodes :
            /\ ReleaseOrphans(r)[n].registered = r[n].registered
            /\ ReleaseOrphans(r)[n].pairedWith # NoNode
                => r[ReleaseOrphans(r)[n].pairedWith].registered
<1> TAKE n \in Nodes
<1>1. r[n] \in Client
  OBVIOUS
<1> QED BY <1>1, ResetPairingType, ReleaseOrphansRoom DEF Orphan

LEMMA ReleaseOrphansOK ==
    ASSUME NEW r, NEW next \in Nat \ {0}, RoomOK(r, next)
    PROVE  RoomOK(ReleaseOrphans(r), next)
<1> DEFINE s == ReleaseOrphans(r)
<1>0. r \in [Nodes -> Client]
  BY DEF RoomOK
<1>1. s \in [Nodes -> Client] /\ \A n \in Nodes : s[n] =
                IF Orphan(r, n) THEN ResetPairing(r[n]) ELSE r[n]
  BY <1>0, ReleaseOrphansRoom
<1>2. Gone(s)
  <2> SUFFICES ASSUME NEW n \in Nodes, ~s[n].registered PROVE s[n] = NoClient
    BY DEF Gone
  <2>1. ~r[n].registered
    BY <1>0, ReleaseOrphansRegistered
  <2>2. r[n] = NoClient
    BY <2>1 DEF RoomOK, Gone
  <2>3. ~Orphan(r, n)
    BY <2>2 DEF Orphan, NoClient
  <2> QED BY <1>1, <2>2, <2>3
<1>3. Weaker(r, s)
  <2> SUFFICES ASSUME NEW n \in Nodes
               PROVE  SameSession(r[n], s[n]) \/ WithoutSession(r[n], s[n])
    BY DEF Weaker
  <2>1. CASE Orphan(r, n)
    BY <1>0, <1>1, <2>1, ResetPairingType
  <2>2. CASE ~Orphan(r, n)
    BY <1>1, <2>2 DEF SameSession
  <2> QED BY <2>1, <2>2
<1> HIDE DEF s
<1> QED BY <1>1, <1>2, <1>3, WeakerSessions DEF RoomOK, s

LEMMA RemoveExpiredOK ==
    ASSUME NEW r, NEW next \in Nat \ {0}, NEW gone \in SUBSET Nodes, RoomOK(r, next)
    PROVE  RoomOK(RemoveExpired(r, gone), next)
BY EraseOK, ReleaseOrphansOK DEF RemoveExpired

LEMMA SettleOK ==
    ASSUME NEW r, NEW next \in Nat \ {0}, RoomOK(r, next)
    PROVE  RoomOK(Settle(r), next)
BY RemoveExpiredOK DEF Settle

\* Admit registers the sender and leaves every session alone.
LEMMA AdmitRoom ==
    ASSUME NEW r, NEW next \in Nat \ {0}, RoomOK(r, next),
           NEW n \in Nodes, NEW source \in Sockets
    PROVE  /\ RoomOK(Admit(r, n, source), next)
           /\ Admit(r, n, source)[n].registered
           /\ \A m \in Nodes \ {n} : Admit(r, n, source)[m] = r[m]
<1> DEFINE c == [(IF r[n].registered THEN r[n] ELSE NoClient)
                    EXCEPT !.registered = TRUE, !.endpoint = source]
           s == Admit(r, n, source)
<1>0. r \in [Nodes -> Client] /\ r[n] \in Client /\ NoClient \in Client
  BY NoClientType DEF RoomOK
<1>1. s = [r EXCEPT ![n] = c]
  BY <1>0 DEF Admit
<1>2. c \in Client /\ c.registered
  BY <1>0, ZenonT(40) DEF Client
<1>3. SameSession(r[n], c) \/ WithoutSession(r[n], c)
  <2>1. CASE r[n].registered
    BY <1>0, <2>1 DEF SameSession, Client
  <2>2. CASE ~r[n].registered
    BY <2>2 DEF WithoutSession, NoClient
  <2> QED BY <2>1, <2>2
<1> HIDE DEF c
<1>4. s \in [Nodes -> Client] /\ s[n] = c /\ \A m \in Nodes \ {n} : s[m] = r[m]
  BY <1>0, <1>1, <1>2
<1> HIDE DEF s
<1>5. Gone(s)
  BY <1>2, <1>4 DEF Gone, RoomOK
<1>6. Weaker(r, s)
  BY <1>3, <1>4 DEF Weaker, SameSession
<1>7. RoomOK(s, next)
  BY <1>4, <1>5, <1>6, WeakerSessions DEF RoomOK
<1> QED BY <1>2, <1>4, <1>7 DEF s

\* A change of capabilities: the sender's record stays registered.
LEMMA SetCapabilitiesOK ==
    ASSUME NEW r, NEW next \in Nat \ {0}, RoomOK(r, next),
           NEW n \in Nodes, r[n].registered,
           NEW capabilities \in Capabilities
    PROVE  /\ RoomOK(SetCapabilities(r, n, capabilities), next)
           /\ \A m \in Nodes :
                SetCapabilities(r, n, capabilities)[m].registered = r[m].registered
<1> DEFINE peer == r[n].pairedWith
           changed == r[n].capabilities # capabilities /\ peer # NoNode
           Dissolve(m) == changed /\ (m = n \/ (m = peer /\ r[m].pairedWith = n))
           kept == [m \in Nodes |-> IF Dissolve(m) THEN ResetPairing(r[m]) ELSE r[m]]
           t == IF changed THEN kept ELSE r
           s == SetCapabilities(r, n, capabilities)
<1>0. r \in [Nodes -> Client] /\ \A m \in Nodes : r[m] \in Client
  BY DEF RoomOK
<1>1. t \in [Nodes -> Client] /\ \A m \in Nodes : t[m] =
            IF Dissolve(m) THEN ResetPairing(r[m]) ELSE r[m]
  <2>1. \A m \in Nodes : ResetPairing(r[m]) \in Client
    BY <1>0, ResetPairingType
  <2> QED BY <1>0, <2>1
<1>2. s = [t EXCEPT ![n].capabilities = capabilities]
  BY DEF SetCapabilities
<1>3. \A m \in Nodes : Dissolve(m) => r[m].registered
  <2> SUFFICES ASSUME NEW m \in Nodes, Dissolve(m), m # n PROVE r[m].registered
    OBVIOUS
  <2>1. r[m].pairedWith # NoNode
    BY NodesAssumption
  <2> QED BY <2>1 DEF RoomOK, Gone, NoClient
<1> HIDE DEF Dissolve, t
<1>4. ASSUME NEW m \in Nodes
      PROVE  /\ t[m] \in Client
             /\ t[m].registered = r[m].registered
             /\ SameSession(r[m], t[m]) \/ WithoutSession(r[m], t[m])
             /\ ~t[m].registered => t[m] = NoClient
  <2>1. CASE Dissolve(m)
    BY <1>0, <1>1, <1>3, <2>1, ResetPairingType
  <2>2. CASE ~Dissolve(m)
    BY <1>0, <1>1, <2>2 DEF SameSession, RoomOK, Gone
  <2> QED BY <2>1, <2>2
<1>5. /\ s \in [Nodes -> Client]
      /\ s[n] = [t[n] EXCEPT !.capabilities = capabilities]
      /\ \A m \in Nodes \ {n} : s[m] = t[m]
  <2>1. t[n] \in Client
    BY <1>4
  <2>2. [t[n] EXCEPT !.capabilities = capabilities] \in Client
    BY <2>1 DEF Client
  <2> QED BY <1>1, <1>2, <2>2
<1> HIDE DEF s
<1>6. \A m \in Nodes : s[m].registered = r[m].registered
  BY <1>4, <1>5, SMTT(20) DEF Client
<1>7. Gone(s)
  BY <1>4, <1>5, <1>6 DEF Gone
<1>8. Weaker(r, s)
  <2> SUFFICES ASSUME NEW m \in Nodes
               PROVE  SameSession(r[m], s[m]) \/ WithoutSession(r[m], s[m])
    BY DEF Weaker
  <2>1. CASE m = n
    <3>1. SameSession(t[n], s[n])
      BY <1>4, <1>5 DEF SameSession, Client
    <3> QED BY <1>4, <2>1, <3>1 DEF SameSession, WithoutSession
  <2>2. CASE m # n
    BY <1>4, <1>5, <2>2
  <2> QED BY <2>1, <2>2
<1> QED BY <1>5, <1>6, <1>7, <1>8, WeakerSessions DEF RoomOK, s

LEMMA CallerOK ==
    ASSUME NEW r, NEW next \in Nat \ {0}, RoomOK(r, next),
           NEW n \in Nodes, NEW source \in Sockets, NEW capabilities \in Capabilities
    PROVE  /\ RoomOK(Caller(r, n, source, capabilities), next)
           /\ Caller(r, n, source, capabilities)[n].registered
           /\ \A m \in Nodes :
                r[m].registered => Caller(r, n, source, capabilities)[m].registered
BY AdmitRoom, SetCapabilitiesOK DEF Caller

\* Changes of one record that do not reach its session.
LEMMA TouchOK ==
    ASSUME NEW r, NEW next \in Nat \ {0}, RoomOK(r, next),
           NEW n \in Nodes, r[n].registered,
           NEW c \in Client, c.registered,
           SameSession(r[n], c) \/ WithoutSession(r[n], c)
    PROVE  RoomOK([r EXCEPT ![n] = c], next)
<1> DEFINE s == [r EXCEPT ![n] = c]
<1>1. s \in [Nodes -> Client] /\ s[n] = c /\ \A m \in Nodes \ {n} : s[m] = r[m]
  BY DEF RoomOK
<1> HIDE DEF s
<1>2. Gone(s)
  BY <1>1 DEF RoomOK, Gone
<1>3. Weaker(r, s)
  BY <1>1 DEF Weaker, SameSession
<1> QED BY <1>1, <1>2, <1>3, WeakerSessions DEF RoomOK, s

-----------------------------------------------------------------------------
(* The same operations, and what they leave of each record. *)
LEMMA LooseTransitive ==
    ASSUME NEW r, NEW s, NEW t, Loosens(r, s), Loosens(s, t)
    PROVE  Loosens(r, t)
BY DEF Loosens, Keeps, SameSession, WithoutSession

LEMMA LooseRelease ==
    ASSUME NEW r \in [Nodes -> Client]
    PROVE  Loosens(r, ReleaseOrphans(r))
<1> SUFFICES ASSUME NEW n \in Nodes
             PROVE  \/ Keeps(r[n], ReleaseOrphans(r)[n])
                    \/ WithoutSession(r[n], ReleaseOrphans(r)[n])
  BY DEF Loosens
<1>1. r[n] \in Client
  OBVIOUS
<1> QED BY <1>1, ReleaseOrphansRoom, ResetPairingType DEF Keeps, SameSession

LEMMA LooseSettle ==
    ASSUME NEW r \in [Nodes -> Client]
    PROVE  Loosens(r, Settle(r)) /\ Settle(r) = ReleaseOrphans(r)
BY LooseRelease DEF Settle, RemoveExpired, Erase

LEMMA LooseExpired ==
    ASSUME NEW r \in [Nodes -> Client], NEW gone \in SUBSET Nodes
    PROVE  Loosens(r, RemoveExpired(r, gone))
<1> DEFINE s == Erase(r, gone)
<1>1. \A n \in Nodes : s[n] = IF n \in gone THEN NoClient ELSE r[n]
  BY DEF Erase
<1>2. s \in [Nodes -> Client]
  BY <1>1, NoClientType DEF Erase
<1>3. Loosens(r, s)
  BY <1>1 DEF Loosens, Keeps, SameSession, WithoutSession, NoClient
<1>4. RemoveExpired(r, gone) = ReleaseOrphans(s)
  BY DEF RemoveExpired
<1> HIDE DEF s
<1> QED BY <1>2, <1>3, <1>4, LooseRelease, LooseTransitive

LEMMA LooseAdmit ==
    ASSUME NEW r, NEW next, RoomOK(r, next),
           NEW n \in Nodes, NEW source \in Sockets
    PROVE  Loosens(r, Admit(r, n, source))
<1> SUFFICES ASSUME NEW m \in Nodes
             PROVE  \/ Keeps(r[m], Admit(r, n, source)[m])
                    \/ WithoutSession(r[m], Admit(r, n, source)[m])
  BY DEF Loosens
<1>1. r \in [Nodes -> Client] /\ r[m] \in Client /\ NoClient \in Client
  BY NoClientType DEF RoomOK
<1>2. CASE m # n
  BY <1>1, <1>2 DEF Admit, Keeps, SameSession
<1>3. CASE m = n /\ r[n].registered
  BY <1>1, <1>3 DEF Admit, Keeps, SameSession, Client
<1>4. CASE m = n /\ ~r[n].registered
  <2>1. r[n] = NoClient
    BY <1>4 DEF RoomOK, Gone
  <2> QED BY <1>1, <1>4, <2>1 DEF Admit, WithoutSession, NoClient
<1> QED BY <1>2, <1>3, <1>4

LEMMA LooseCapabilities ==
    ASSUME NEW r \in [Nodes -> Client],
           NEW n \in Nodes, NEW capabilities \in Capabilities
    PROVE  Loosens(r, SetCapabilities(r, n, capabilities))
<1> DEFINE s == SetCapabilities(r, n, capabilities)
<1> SUFFICES ASSUME NEW m \in Nodes
             PROVE  Keeps(r[m], s[m]) \/ WithoutSession(r[m], s[m])
  BY DEF Loosens
<1> DEFINE kept == [k \in Nodes |->
                        IF (k = n \/ (k = r[n].pairedWith /\ r[k].pairedWith = n))
                        THEN ResetPairing(r[k]) ELSE r[k]]
           t == IF r[n].capabilities # capabilities /\ r[n].pairedWith # NoNode
                THEN kept ELSE r
<1>1. s[m] = [t EXCEPT ![n].capabilities = capabilities][m]
  BY DEF SetCapabilities
<1>2. \A k \in Nodes : ResetPairing(r[k]) \in Client /\ WithoutSession(r[k], ResetPairing(r[k]))
  BY ResetPairingType
<1>3. t \in [Nodes -> Client]
  BY <1>2
<1>4. t[m] \in Client /\ (Keeps(r[m], t[m]) \/ WithoutSession(r[m], t[m]))
  BY <1>2, <1>3 DEF Keeps, SameSession
<1> HIDE DEF t, s
<1>5. CASE m # n
  BY <1>1, <1>3, <1>4, <1>5
<1>6. CASE m = n
  <2>1. s[m] = [t[m] EXCEPT !.capabilities = capabilities]
    BY <1>1, <1>3, <1>6
  <2>2. Keeps(t[m], s[m])
    BY <1>4, <2>1 DEF Client, Keeps, SameSession
  <2> QED BY <1>4, <2>2 DEF Keeps, SameSession, WithoutSession
<1> QED BY <1>5, <1>6

LEMMA LooseCaller ==
    ASSUME NEW r, NEW next \in Nat \ {0}, RoomOK(r, next),
           NEW n \in Nodes, NEW source \in Sockets, NEW capabilities \in Capabilities
    PROVE  Loosens(r, Caller(r, n, source, capabilities))
<1>1. Admit(r, n, source) \in [Nodes -> Client]
  BY AdmitRoom DEF RoomOK
<1> QED BY <1>1, LooseAdmit, LooseCapabilities, LooseTransitive DEF Caller

-----------------------------------------------------------------------------
(* Pairing: CONNECT, V6_JOIN and RELAY_JOIN. *)

\* A client that is free, or already paired with "peer", can be pointed at it:
\* with a session it is paired already, without one there is nothing to break.
LEMMA PointAt ==
    ASSUME NEW c \in Client, NEW next \in Nat \ {0}, SessionRecord(c, next),
           NEW peer \in Nodes, c.pairedWith \in {NoNode, peer}
    PROVE  LET d == [c EXCEPT !.pairedWith = peer]
           IN  /\ d \in Client
               /\ d.registered = c.registered
               /\ SameSession(c, d) \/ WithoutSession(c, d)
<1> DEFINE d == [c EXCEPT !.pairedWith = peer]
<1>1. d \in Client /\ d.registered = c.registered
  BY DEF Client
<1>2. CASE c.natSessionId # 0
  BY <1>2 DEF SessionRecord, SameSession, Client
<1>3. CASE c.natSessionId = 0
  BY <1>3 DEF SessionRecord, WithoutSession, Client
<1> QED BY <1>1, <1>2, <1>3

LEMMA RelayPairOK ==
    ASSUME NEW r, NEW next \in Nat \ {0}, RoomOK(r, next),
           NEW n \in Nodes, NEW target \in Nodes \ {n},
           r[n].registered, r[target].registered, ~Busy(r, n, target)
    PROVE  RoomOK(RelayPair(r, n, target), next)
<1> DEFINE c == [r[n] EXCEPT !.pairedWith = target]
           d == [r[target] EXCEPT !.pairedWith = n]
           s == [r EXCEPT ![n] = c]
<1>0. r \in [Nodes -> Client] /\ r[n] \in Client /\ r[target] \in Client
  BY DEF RoomOK
<1>1. c \in Client /\ c.registered /\ (SameSession(r[n], c) \/ WithoutSession(r[n], c))
  BY <1>0, PointAt DEF Busy, RoomOK, SessionsOK
<1>2. d \in Client /\ d.registered
        /\ (SameSession(r[target], d) \/ WithoutSession(r[target], d))
  BY <1>0, PointAt DEF Busy, RoomOK, SessionsOK
<1>3. RelayPair(r, n, target) = [s EXCEPT ![target] = d]
  BY <1>0 DEF RelayPair
<1> HIDE DEF c, d
<1>4. RoomOK(s, next)
  BY <1>1, TouchOK
<1>5. s[target] = r[target]
  BY <1>0
<1> HIDE DEF s
<1>6. s[target].registered /\ (SameSession(s[target], d) \/ WithoutSession(s[target], d))
  BY <1>2, <1>5
<1>7. RoomOK([s EXCEPT ![target] = d], next)
  BY <1>2, <1>4, <1>6, TouchOK
<1> QED BY <1>3, <1>7

LEMMA V6JoinedOK ==
    ASSUME NEW r, NEW next \in Nat \ {0}, RoomOK(r, next),
           NEW n \in Nodes, NEW target \in Nodes, NEW accept \in BOOLEAN,
           r[n].registered, ~Busy(r, n, target)
    PROVE  RoomOK([r EXCEPT ![n].pairedWith = target,
                            ![n].ipv6AcceptInbound = accept,
                            ![n].ipv6Joined = TRUE], next)
<1> DEFINE c == [r[n] EXCEPT !.pairedWith = target]
           d == [c EXCEPT !.ipv6AcceptInbound = accept, !.ipv6Joined = TRUE]
<1>0. r \in [Nodes -> Client] /\ r[n] \in Client
  BY DEF RoomOK
<1>1. c \in Client /\ c.registered /\ (SameSession(r[n], c) \/ WithoutSession(r[n], c))
  BY <1>0, PointAt DEF Busy, RoomOK, SessionsOK
<1>2. [r EXCEPT ![n].pairedWith = target,
                ![n].ipv6AcceptInbound = accept,
                ![n].ipv6Joined = TRUE] = [r EXCEPT ![n] = d]
  BY <1>0 DEF Client
<1> HIDE DEF c
<1>3. d \in Client /\ d.registered /\ (SameSession(r[n], d) \/ WithoutSession(r[n], d))
  BY <1>1, ZenonT(40) DEF Client, SameSession, WithoutSession
<1> HIDE DEF d
<1> QED BY <1>2, <1>3, TouchOK

\* RELAY_JOIN for an absent target breaks a pairing and its session, and the
\* purge at the end of the same turn takes the session away.
LEMMA RelayWaitOK ==
    ASSUME NEW r, NEW next \in Nat \ {0}, RoomOK(r, next),
           NEW n \in Nodes, NEW target \in Nodes \ {n},
           r[n].registered, ~r[target].registered
    PROVE  RoomOK(Settle([r EXCEPT ![n].pairedWith = target]), next)
<1> DEFINE c == [r[n] EXCEPT !.pairedWith = target]
           s == [r EXCEPT ![n] = c]
           t == ReleaseOrphans(s)
<1>0. r \in [Nodes -> Client] /\ r[n] \in Client
  BY DEF RoomOK
<1>1. /\ c \in Client /\ c.registered /\ c.pairedWith = target
      /\ c.natAttemptId = r[n].natAttemptId
  BY <1>0 DEF Client
<1>2. [r EXCEPT ![n].pairedWith = target] = s
  BY <1>0
<1> HIDE DEF c
<1>3. s \in [Nodes -> Client] /\ s[n] = c /\ \A m \in Nodes \ {n} : s[m] = r[m]
  BY <1>0, <1>1
<1> HIDE DEF s
<1>4. Settle(s) = t
  BY DEF Settle, RemoveExpired, Erase
<1>5. t \in [Nodes -> Client] /\ \A m \in Nodes : t[m] =
                IF Orphan(s, m) THEN ResetPairing(s[m]) ELSE s[m]
  BY <1>3, ReleaseOrphansRoom
<1> HIDE DEF t
<1>6. Orphan(s, n)
  BY <1>1, <1>3, NodesAssumption DEF Orphan
<1>7. t[n].registered /\ WithoutSession(r[n], t[n])
  <2>1. t[n] = ResetPairing(c)
    BY <1>3, <1>5, <1>6
  <2>2. ResetPairing(c).registered = c.registered /\ WithoutSession(c, ResetPairing(c))
    BY <1>1, ResetPairingType
  <2> QED BY <1>1, <2>1, <2>2 DEF WithoutSession
<1>8. ASSUME NEW m \in Nodes \ {n}
      PROVE  /\ SameSession(r[m], t[m]) \/ WithoutSession(r[m], t[m])
             /\ ~t[m].registered => t[m] = NoClient
  <2>0. r[m] \in Client /\ s[m] = r[m]
    BY <1>0, <1>3
  <2>1. CASE Orphan(s, m)
    <3>1. r[m].registered
      BY <2>0, <2>1 DEF Orphan, RoomOK, Gone, NoClient
    <3> QED BY <1>5, <2>0, <2>1, <3>1, ResetPairingType
  <2>2. CASE ~Orphan(s, m)
    BY <1>5, <2>0, <2>2 DEF SameSession, RoomOK, Gone
  <2> QED BY <2>1, <2>2
<1>9. Gone(t) /\ Weaker(r, t)
  BY <1>7, <1>8 DEF Gone, Weaker
<1>10. RoomOK(t, next)
  BY <1>5, <1>9, WeakerSessions DEF RoomOK
<1> QED BY <1>2, <1>4, <1>10

-----------------------------------------------------------------------------
(* The operations that write to both holders of a session.                 *)

\* Two records that can stand for the two holders of session k.
Couple(c, d, n, target, k) ==
    /\ c.pairedWith = target /\ d.pairedWith = n
    /\ c.natSessionId = k /\ d.natSessionId = k
    /\ c.pairInitiator \in {n, target}
    /\ Agree(c, d)
    /\ c.armed \/ d.armed => c.report # NoReport /\ d.report # NoReport

LEMMA CoupleOK ==
    ASSUME NEW r, NEW next \in Nat \ {0}, RoomOK(r, next),
           NEW later \in {next, next + 1},
           NEW n \in Nodes, NEW target \in Nodes \ {n},
           NEW c \in Client, NEW d \in Client,
           c.registered, d.registered,
           NEW k \in Nat \ {0}, Couple(c, d, n, target, k),
           SessionRecord(c, later), SessionRecord(d, later),
           \A m \in Nodes \ {n, target} : r[m].natSessionId # k
    PROVE  RoomOK([r EXCEPT ![n] = c, ![target] = d], later)
<1> DEFINE s == [r EXCEPT ![n] = c, ![target] = d]
<1>0. r \in [Nodes -> Client] /\ \A m \in Nodes : r[m] \in Client
  BY DEF RoomOK
<1>1. /\ s \in [Nodes -> Client] /\ s[n] = c /\ s[target] = d
      /\ \A m \in Nodes \ {n, target} : s[m] = r[m]
  BY <1>0
<1> HIDE DEF s
<1>2. Gone(s)
  BY <1>1 DEF Gone, RoomOK
<1>3. \A m \in Nodes : SessionRecord(s[m], later)
  <2> SUFFICES ASSUME NEW m \in Nodes \ {n, target} PROVE SessionRecord(r[m], later)
    BY <1>1
  <2>1. r[m].natSessionId \in Nat /\ r[m].natAttemptId \in Nat
    BY <1>0 DEF Client
  <2> QED BY <2>1 DEF RoomOK, SessionsOK, SessionRecord
<1>4. OneSession(s)
  <2> SUFFICES ASSUME NEW a \in Nodes, NEW b \in Nodes, a # b,
                      s[a].natSessionId # 0, s[a].natSessionId = s[b].natSessionId
               PROVE  Holders(s, a, b)
    BY DEF OneSession
  <2>1. CASE a \notin {n, target} /\ b \notin {n, target}
    <3>1. s[a] = r[a] /\ s[b] = r[b]
      BY <1>1, <2>1
    <3>2. Holders(r, a, b)
      BY <3>1 DEF RoomOK, SessionsOK, OneSession
    <3> QED BY <3>1, <3>2 DEF Holders
  <2>2. CASE {a, b} = {n, target}
    BY <1>1, <2>2 DEF Couple, Holders, Agree
  <2>3. CASE a \in {n, target} /\ b \notin {n, target}
    BY <1>1, <2>3 DEF Couple
  <2>4. CASE a \notin {n, target} /\ b \in {n, target}
    BY <1>1, <2>4 DEF Couple
  <2> QED BY <2>1, <2>2, <2>3, <2>4
<1>5. SharedSession(s)
  BY <1>1 DEF SharedSession, RoomOK, SessionsOK, Couple
<1> QED BY <1>1, <1>2, <1>3, <1>4, <1>5 DEF RoomOK, SessionsOK, s

LEMMA PairUpOK ==
    ASSUME NEW r, NEW next \in Nat \ {0}, RoomOK(r, next),
           NEW n \in Nodes, NEW target \in Nodes \ {n},
           r[n].registered, r[target].registered,
           NEW modes \in Modes, modes # <<>>
    PROVE  RoomOK(PairUp(r, n, target, modes, next), next + 1)
<1> DEFINE c == Paired(r[n], target, modes, n, next)
           d == Paired(r[target], n, modes, n, next)
<1>0. r \in [Nodes -> Client] /\ r[n] \in Client /\ r[target] \in Client
  BY DEF RoomOK
<1>1. c \in Client /\ d \in Client /\ c.registered /\ d.registered
  BY <1>0, PairedType
<1>2. Couple(c, d, n, target, next)
  BY <1>0 DEF Paired, Client, Couple, Agree
<1>3. SessionRecord(c, next + 1) /\ SessionRecord(d, next + 1)
  BY <1>0, NodesAssumption DEF Paired, Client, SessionRecord
<1>4. PairUp(r, n, target, modes, next) = [r EXCEPT ![n] = c, ![target] = d]
  BY <1>0 DEF PairUp
<1> HIDE DEF c, d
<1>5. \A m \in Nodes \ {n, target} : r[m].natSessionId # next
  BY DEF RoomOK, SessionsOK, SessionRecord
<1>6. RoomOK([r EXCEPT ![n] = c, ![target] = d], next + 1)
  BY <1>1, <1>2, <1>3, <1>5, CoupleOK
<1> QED BY <1>4, <1>6

\* The two holders of a validated session, and that nobody else holds it.
LEMMA ValidPair ==
    ASSUME NEW r, NEW next \in Nat \ {0}, RoomOK(r, next),
           NEW n \in Nodes, NEW source, NEW target \in Nodes \ {n},
           NEW session \in Nat \ {0}, NatValid(r, n, source, target, session)
    PROVE  /\ r[n] \in Client /\ r[target] \in Client
           /\ r[n].registered /\ r[target].registered
           /\ Couple(r[n], r[target], n, target, session)
           /\ SessionRecord(r[n], next) /\ SessionRecord(r[target], next)
           /\ \A m \in Nodes \ {n, target} : r[m].natSessionId # session
<1>1. /\ r[n].pairedWith = target /\ r[target].pairedWith = n
      /\ r[n].natSessionId = session /\ r[target].natSessionId = session
      /\ r[n].registered /\ r[target].registered
  BY DEF NatValid, ValidateNatPair
<1>2. r[n] \in Client /\ r[target] \in Client
  BY DEF RoomOK
<1>3. SessionRecord(r[n], next) /\ SessionRecord(r[target], next) /\ OneSession(r)
  BY DEF RoomOK, SessionsOK
<1>4. Holders(r, n, target) /\ Holders(r, target, n)
  BY <1>1, <1>3 DEF OneSession
<1>5. Couple(r[n], r[target], n, target, session)
  BY <1>1, <1>3, <1>4 DEF Couple, Holders, SessionRecord
<1>6. ASSUME NEW m \in Nodes \ {n, target}, r[m].natSessionId = session PROVE FALSE
  BY <1>1, <1>3, <1>6 DEF OneSession, Holders
<1> QED BY <1>1, <1>2, <1>3, <1>5, <1>6

LEMMA OpenAttemptOK ==
    ASSUME NEW r, NEW next \in Nat \ {0}, RoomOK(r, next),
           NEW n \in Nodes, NEW source, NEW target \in Nodes \ {n},
           NEW session \in Nat \ {0}, NatValid(r, n, source, target, session)
    PROVE  RoomOK(OpenAttempt(r, n, target, next), next + 1)
<1> DEFINE c == NextAttempt(r[n], next)
           d == NextAttempt(r[target], next)
<1>0. /\ r \in [Nodes -> Client] /\ r[n] \in Client /\ r[target] \in Client
      /\ r[n].registered /\ r[target].registered
      /\ Couple(r[n], r[target], n, target, session)
      /\ SessionRecord(r[n], next) /\ SessionRecord(r[target], next)
      /\ \A m \in Nodes \ {n, target} : r[m].natSessionId # session
  BY ValidPair DEF RoomOK
<1>1. c \in Client /\ d \in Client /\ c.registered /\ d.registered
  BY <1>0, NextAttemptType
<1>2. Couple(c, d, n, target, session)
  BY <1>0 DEF NextAttempt, Client, Couple, Agree
<1>3. SessionRecord(c, next + 1) /\ SessionRecord(d, next + 1)
  BY <1>0 DEF NextAttempt, Client, SessionRecord
<1>4. OpenAttempt(r, n, target, next) = [r EXCEPT ![n] = c, ![target] = d]
  BY <1>0 DEF OpenAttempt
<1> HIDE DEF c, d
<1>6. RoomOK([r EXCEPT ![n] = c, ![target] = d], next + 1)
  BY <1>0, <1>1, <1>2, <1>3, CoupleOK
<1> QED BY <1>4, <1>6

LEMMA StoreReportOK ==
    ASSUME NEW r, NEW next \in Nat \ {0}, RoomOK(r, next),
           NEW n \in Nodes, NEW source, NEW target \in Nodes \ {n},
           NEW session \in Nat \ {0}, NatValid(r, n, source, target, session),
           NEW report \in Reports
    PROVE  RoomOK(StoreReport(r, n, target, report), next)
<1> DEFINE same == r[n].report = report
           mine == same /\ r[n].armed
           theirs == same /\ r[target].armed
           c == [r[n] EXCEPT !.report = report, !.armed = mine]
           d == [r[target] EXCEPT !.armed = theirs]
<1>0. /\ r \in [Nodes -> Client] /\ r[n] \in Client /\ r[target] \in Client
      /\ r[n].registered /\ r[target].registered
      /\ Couple(r[n], r[target], n, target, session)
      /\ SessionRecord(r[n], next) /\ SessionRecord(r[target], next)
      /\ \A m \in Nodes \ {n, target} : r[m].natSessionId # session
  BY ValidPair DEF RoomOK
<1>5. /\ mine \in BOOLEAN /\ theirs \in BOOLEAN
      /\ mine \/ theirs => r[n].armed \/ r[target].armed
      /\ mine => r[n].armed /\ r[n].report = report
      /\ theirs => r[target].armed /\ r[n].report = report
  BY <1>0, ArmedType
<1>4. StoreReport(r, n, target, report) = [r EXCEPT ![n] = c, ![target] = d]
  BY <1>0 DEF StoreReport, Client
<1> HIDE DEF mine, theirs
<1>1. c \in Client /\ d \in Client /\ c.registered /\ d.registered
  <2>1. c \in Client /\ c.registered = r[n].registered
    BY <1>0, <1>5, ReportType
  <2>2. d \in Client /\ d.registered = r[target].registered
    BY <1>0, <1>5, ArmedType
  <2> QED BY <1>0, <2>1, <2>2
<1>2. Couple(c, d, n, target, session)
  BY <1>0, <1>5, MarkersAssumption DEF Client, Couple, Agree
<1>3. SessionRecord(c, next) /\ SessionRecord(d, next)
  BY <1>0, <1>5, MarkersAssumption DEF Client, SessionRecord, Couple
<1> HIDE DEF c, d
<1>6. RoomOK([r EXCEPT ![n] = c, ![target] = d], next)
  BY <1>0, <1>1, <1>2, <1>3, CoupleOK
<1> QED BY <1>4, <1>6

LEMMA ArmOK ==
    ASSUME NEW r, NEW next \in Nat \ {0}, RoomOK(r, next),
           NEW n \in Nodes, NEW source, NEW target \in Nodes \ {n},
           NEW session \in Nat \ {0}, NEW attempt,
           CanArm(r, n, source, target, session, attempt)
    PROVE  RoomOK([r EXCEPT ![n].armed = TRUE], next)
<1> DEFINE c == [r[n] EXCEPT !.armed = TRUE]
           d == r[target]
<1>0. /\ r \in [Nodes -> Client] /\ r[n] \in Client /\ r[target] \in Client
      /\ r[n].registered /\ r[target].registered
      /\ Couple(r[n], r[target], n, target, session)
      /\ SessionRecord(r[n], next) /\ SessionRecord(r[target], next)
      /\ \A m \in Nodes \ {n, target} : r[m].natSessionId # session
      /\ r[n].report # NoReport /\ r[target].report # NoReport
  BY ValidPair DEF RoomOK, CanArm
<1>1. c \in Client /\ d \in Client /\ c.registered /\ d.registered
  BY <1>0, ArmedType
<1>2. Couple(c, d, n, target, session)
  BY <1>0 DEF Client, Couple, Agree
<1>3. SessionRecord(c, next) /\ SessionRecord(d, next)
  BY <1>0 DEF Client, SessionRecord, Couple
<1>4. [r EXCEPT ![n].armed = TRUE] = [r EXCEPT ![n] = c, ![target] = d]
  BY <1>0
<1> HIDE DEF c, d
<1>6. RoomOK([r EXCEPT ![n] = c, ![target] = d], next)
  BY <1>0, <1>1, <1>2, <1>3, CoupleOK
<1> QED BY <1>4, <1>6

LEMMA RequestRetryOK ==
    ASSUME NEW r, NEW next \in Nat \ {0}, RoomOK(r, next),
           NEW n \in Nodes, r[n].registered
    PROVE  RoomOK(RequestRetry(r, n), next)
<1> DEFINE c == [r[n] EXCEPT !.natRetryRequested = TRUE]
<1>1. r \in [Nodes -> Client] /\ r[n] \in Client
  BY DEF RoomOK
<1>2. c \in Client /\ c.registered /\ SameSession(r[n], c)
  BY <1>1 DEF Client, SameSession
<1>3. RequestRetry(r, n) = [r EXCEPT ![n] = c]
  BY <1>1 DEF RequestRetry
<1> HIDE DEF c
<1>4. RoomOK([r EXCEPT ![n] = c], next)
  BY <1>2, TouchOK
<1> QED BY <1>3, <1>4

-----------------------------------------------------------------------------
(* The inductive invariant.                                                *)

IInv ==
    /\ RoomOK(room, nextNatAttemptId)
    /\ nextNatAttemptId \in Nat \ {0}
    /\ stale \subseteq Registered(room)
    /\ relay \subseteq SUBSET Nodes
    /\ handled \in Nodes \cup {NoNode}
    /\ PartnerPresent

LEMMA InitIInv == Init => IInv
<1> SUFFICES ASSUME Init PROVE IInv
  OBVIOUS
<1>1. room \in [Nodes -> Client] /\ \A n \in Nodes : room[n] = NoClient
  BY NoClientType DEF Init
<1>2. SessionsOK(room, nextNatAttemptId)
  BY <1>1 DEF Init, NoClient, SessionsOK, SessionRecord, OneSession, SharedSession
<1>3. PartnerPresent
  BY <1>1 DEF PartnerPresent, NoClient
<1> QED BY <1>1, <1>2, <1>3 DEF Init, IInv, RoomOK, Gone, NoNode

LEMMA LiveOK == IInv => RoomOK(Live, nextNatAttemptId)
BY RemoveExpiredOK DEF IInv, Live, Registered

\* A turn of the loop that leaves a good room to settle.
LEMMA TurnOK ==
    ASSUME NEW n \in Nodes \cup {NoNode}, NEW r \in [Nodes -> Client], NEW sent,
           Turn(n, r, sent),
           nextNatAttemptId' \in Nat \ {0},
           relay' \subseteq SUBSET Nodes,
           RoomOK(Settle(r), nextNatAttemptId')
    PROVE  IInv'
<1>1. room' = Settle(r) /\ stale' = {} /\ handled' = n
  BY DEF Turn
<1>2. Settle(r) = ReleaseOrphans(r)
  BY DEF Settle, RemoveExpired, Erase
<1>3. \A m \in Nodes :
        /\ room'[m].registered = r[m].registered
        /\ room'[m].pairedWith # NoNode => r[room'[m].pairedWith].registered
  BY <1>1, <1>2, ReleaseOrphansRegistered
<1>4. \A m \in Nodes : room'[m].pairedWith \in Nodes \cup {NoNode}
  <2> SUFFICES ASSUME NEW m \in Nodes PROVE room'[m].pairedWith \in Nodes \cup {NoNode}
    OBVIOUS
  <2>1. room'[m] \in Client
    BY <1>1 DEF RoomOK
  <2> QED BY <2>1 DEF Client
<1>5. PartnerPresent'
  BY <1>3, <1>4 DEF PartnerPresent
<1> QED BY <1>1, <1>5 DEF IInv

\* The usual case: the handler draws no attempt and leaves a good room.
LEMMA HandledOK ==
    ASSUME IInv, NEW n \in Nodes \cup {NoNode}, NEW r, NEW sent,
           Turn(n, r, sent), RoomOK(r, nextNatAttemptId),
           nextNatAttemptId' = nextNatAttemptId,
           relay' \subseteq SUBSET Nodes
    PROVE  IInv'
<1>1. nextNatAttemptId \in Nat \ {0} /\ r \in [Nodes -> Client]
  BY DEF IInv, RoomOK
<1>2. RoomOK(Settle(r), nextNatAttemptId)
  BY <1>1, SettleOK
<1> QED BY <1>1, <1>2, TurnOK

\* The handlers of Request and of Quote, whatever datagrams Kinds allows.
AnyRequest(live, n, source) ==
    \/ RefuseRoomFull(live, n, source)
    \/ \E capabilities \in Capabilities :
        \/ Reg(live, n, source, capabilities)
        \/ \E target \in Nodes :
            \/ ConnectNotFound(live, n, source, capabilities, target)
            \/ ConnectRefused(live, n, source, capabilities, target)
            \/ ConnectAgain(live, n, source, capabilities, target)
            \/ ConnectPair(live, n, source, capabilities, target)
    \/ Unreg(live, n, source)
    \/ List(live, n, source)

AnyQuote(live, n, source, target, session, attempt) ==
    \/ \E report \in Reports : NatInfo(live, n, source, target, session, attempt, report)
    \/ NatArmed(live, n, source, target, session, attempt)
    \/ NatRetryStale(live, n, source, target, session, attempt)
    \/ NatRetryWait(live, n, source, target, session, attempt)
    \/ NatRetryOpen(live, n, source, target, session, attempt)
    \/ NatRefused(live, n, source, target, session, attempt)

\* REG, CONNECT, UNREG and LIST.
LEMMA RequestStep ==
    ASSUME IInv, NEW live, RoomOK(live, nextNatAttemptId),
           NEW n \in Nodes, NEW source \in Sockets, AnyRequest(live, n, source)
    PROVE  IInv'
<1>0. nextNatAttemptId \in Nat \ {0} /\ relay \subseteq SUBSET Nodes
  BY DEF IInv
<1>1. CASE RefuseRoomFull(live, n, source)
  BY <1>0, <1>1, HandledOK DEF RefuseRoomFull
<1>2. ASSUME NEW capabilities \in Capabilities, Reg(live, n, source, capabilities)
      PROVE  IInv'
  <2> DEFINE r == SetCapabilities(Admit(live, n, source), n, capabilities)
             c == [r[n] EXCEPT !.ipv6Joined = FALSE]
  <2>1. RoomOK(r, nextNatAttemptId) /\ r[n].registered
    BY <1>0, CallerOK DEF Caller
  <2>2. Turn(n, [r EXCEPT ![n].ipv6Joined = FALSE], {Datagram("REGISTERED", n, source)})
        /\ UNCHANGED <<nextNatAttemptId, relay>>
    BY <1>2 DEF Reg
  <2> HIDE DEF r
  <2>3. r \in [Nodes -> Client] /\ r[n] \in Client
    BY <2>1 DEF RoomOK
  <2>4. [r EXCEPT ![n].ipv6Joined = FALSE] = [r EXCEPT ![n] = c]
    BY <2>3
  <2>5. c \in Client /\ c.registered /\ SameSession(r[n], c)
    BY <2>1, <2>3 DEF Client, SameSession
  <2> HIDE DEF c
  <2>6. RoomOK([r EXCEPT ![n] = c], nextNatAttemptId)
    BY <1>0, <2>1, <2>5, TouchOK
  <2> QED BY <1>0, <2>2, <2>4, <2>6, HandledOK
<1>3. ASSUME NEW capabilities \in Capabilities, NEW target \in Nodes,
             \/ ConnectNotFound(live, n, source, capabilities, target)
             \/ ConnectRefused(live, n, source, capabilities, target)
      PROVE  IInv'
  <2> USE <1>0, <1>3, CallerOK, HandledOK
  <2>1. CASE ConnectNotFound(live, n, source, capabilities, target)
    BY <2>1 DEF ConnectNotFound
  <2>2. CASE ConnectRefused(live, n, source, capabilities, target)
    BY <2>2 DEF ConnectRefused
  <2> QED BY <1>3, <2>1, <2>2
<1>4. ASSUME NEW capabilities \in Capabilities, NEW target \in Nodes,
             ConnectAgain(live, n, source, capabilities, target)
      PROVE  IInv'
  BY <1>0, <1>4, CallerOK, HandledOK DEF ConnectAgain
<1>5. ASSUME NEW capabilities \in Capabilities, NEW target \in Nodes,
             ConnectPair(live, n, source, capabilities, target)
      PROVE  IInv'
  <2> DEFINE r == Caller(live, n, source, capabilities)
             modes == IntersectTraversalModes(r[n].capabilities, r[target].capabilities)
             paired == PairUp(r, n, target, modes, nextNatAttemptId)
             sent == {PeerReply(paired, n, target), PeerReply(paired, target, n)}
  <2>1. RoomOK(r, nextNatAttemptId) /\ r[n].registered
    BY <1>0, CallerOK
  <2>2. /\ target # n /\ r[target].registered /\ modes # <<>>
        /\ nextNatAttemptId' = nextNatAttemptId + 1 /\ relay' = relay
        /\ Turn(n, paired, sent)
    BY <1>5 DEF ConnectPair
  <2> HIDE DEF r, sent
  <2>3. modes \in Modes
    <3>1. r[n] \in Client /\ r[target] \in Client
      BY <2>1 DEF RoomOK
    <3>2. /\ r[n].capabilities \in Capabilities \cup {<<>>}
          /\ r[target].capabilities \in Capabilities \cup {<<>>}
      BY <3>1 DEF Client
    <3> QED BY <3>2, SomeModes
  <2> HIDE DEF modes
  <2>4. RoomOK(paired, nextNatAttemptId + 1)
    BY <1>0, <2>1, <2>2, <2>3, PairUpOK
  <2> HIDE DEF paired
  <2>5. paired \in [Nodes -> Client]
    BY <2>4 DEF RoomOK
  <2>6. RoomOK(Settle(paired), nextNatAttemptId + 1)
    BY <1>0, <2>4, SettleOK
  <2> QED BY <1>0, <2>2, <2>5, <2>6, TurnOK
<1>6. CASE Unreg(live, n, source)
  <2> DEFINE gone == IF live[n].registered /\ live[n].endpoint = source THEN {n} ELSE {}
  <2>1. RoomOK(RemoveExpired(live, gone), nextNatAttemptId)
    BY <1>0, RemoveExpiredOK
  <2>2. Turn(n, RemoveExpired(live, gone), {}) /\ UNCHANGED nextNatAttemptId
        /\ relay' \subseteq relay
    BY <1>6 DEF Unreg
  <2> HIDE DEF gone
  <2> QED BY <1>0, <2>1, <2>2, HandledOK
<1>7. CASE List(live, n, source)
  BY <1>0, <1>7, HandledOK DEF List
<1> QED BY <1>1, <1>2, <1>3, <1>4, <1>5, <1>6, <1>7 DEF AnyRequest

\* V6_JOIN and RELAY_JOIN.
LEMMA JoinStep ==
    ASSUME IInv, NEW live, RoomOK(live, nextNatAttemptId),
           NEW n \in Nodes, NEW source \in Sockets, NEW target \in Nodes \ {n},
           Join(live, n, source, target)
    PROVE  IInv'
<1> DEFINE r == Admit(live, n, source)
<1>0. nextNatAttemptId \in Nat \ {0} /\ relay \subseteq SUBSET Nodes
  BY DEF IInv
<1>1. RoomOK(r, nextNatAttemptId) /\ r[n].registered /\ r \in [Nodes -> Client]
  BY <1>0, AdmitRoom DEF RoomOK
<1>2. CASE V6Refused(live, n, source, target)
  BY <1>0, <1>1, <1>2, HandledOK DEF V6Refused
<1>3. ASSUME NEW accept \in Inbound, V6Join(live, n, source, target, accept)
      PROVE  IInv'
  <2> DEFINE s == [r EXCEPT ![n].pairedWith = target,
                            ![n].ipv6AcceptInbound = accept,
                            ![n].ipv6Joined = TRUE]
  <2>1. /\ ~Busy(r, n, target)
        /\ Turn(n, s, V6Replies(s, n, target))
        /\ UNCHANGED <<nextNatAttemptId, relay>>
    BY <1>3 DEF V6Join
  <2> HIDE DEF r
  <2>2. RoomOK(s, nextNatAttemptId)
    BY <1>0, <1>1, <2>1, InboundAssumption, V6JoinedOK
  <2> HIDE DEF s
  <2> QED BY <1>0, <2>1, <2>2, HandledOK
<1>4. CASE RelayWait(live, n, source, target)
  <2> DEFINE s == [r EXCEPT ![n].pairedWith = target]
  <2>1. /\ ~r[target].registered
        /\ Turn(n, s, {Datagram("RELAY_WAIT", n, source)})
        /\ UNCHANGED <<nextNatAttemptId, relay>>
    BY <1>4 DEF RelayWait
  <2> HIDE DEF r
  <2>2. RoomOK(Settle(s), nextNatAttemptId)
    BY <1>0, <1>1, <2>1, RelayWaitOK
  <2>3. s \in [Nodes -> Client]
    <3>1. [r[n] EXCEPT !.pairedWith = target] \in Client
      BY <1>1 DEF Client
    <3> QED BY <1>1, <3>1
  <2> HIDE DEF s
  <2> QED BY <1>0, <2>1, <2>2, <2>3, TurnOK
<1>5. CASE RelayRefused(live, n, source, target)
  BY <1>0, <1>1, <1>5, HandledOK DEF RelayRefused
<1>6. CASE RelayJoin(live, n, source, target)
  <2>1. PICK sent : Turn(n, RelayPair(r, n, target), sent)
    BY <1>6 DEF RelayJoin
  <2>2. /\ r[target].registered /\ ~Busy(r, n, target)
        /\ UNCHANGED nextNatAttemptId
        /\ relay' \subseteq relay \cup {{n, target}}
    BY <1>6 DEF RelayJoin
  <2> HIDE DEF r
  <2>3. RoomOK(RelayPair(r, n, target), nextNatAttemptId)
    BY <1>0, <1>1, <2>2, RelayPairOK
  <2>4. relay' \subseteq SUBSET Nodes
    BY <1>0, <2>2
  <2> QED BY <1>0, <2>1, <2>2, <2>3, <2>4, HandledOK
<1> QED BY <1>2, <1>3, <1>4, <1>5, <1>6 DEF Join

\* NAT_INFO, NAT_ARMED and NAT_RETRY.
LEMMA QuoteStep ==
    ASSUME IInv, NEW live, RoomOK(live, nextNatAttemptId),
           NEW n \in Nodes, NEW source \in Sockets, NEW target \in Nodes \ {n},
           NEW session \in Nat \ {0}, NEW attempt,
           AnyQuote(live, n, source, target, session, attempt)
    PROVE  IInv'
<1>0. nextNatAttemptId \in Nat \ {0} /\ relay \subseteq SUBSET Nodes
  BY DEF IInv
<1>1. ASSUME NEW report \in Reports,
             NatInfo(live, n, source, target, session, attempt, report)
      PROVE  IInv'
  <2>1. PICK sent : Turn(n, StoreReport(live, n, target, report), sent)
    BY <1>1 DEF NatInfo
  <2>2. NatValid(live, n, source, target, session) /\ UNCHANGED <<nextNatAttemptId, relay>>
    BY <1>1 DEF NatInfo
  <2>3. RoomOK(StoreReport(live, n, target, report), nextNatAttemptId)
    BY <1>0, <2>2, StoreReportOK
  <2> QED BY <1>0, <2>1, <2>2, <2>3, HandledOK
<1>2. CASE NatArmed(live, n, source, target, session, attempt)
  <2> DEFINE r == [live EXCEPT ![n].armed = TRUE]
  <2>1. PICK sent : Turn(n, r, sent)
    BY <1>2 DEF NatArmed
  <2>2. CanArm(live, n, source, target, session, attempt)
        /\ UNCHANGED <<nextNatAttemptId, relay>>
    BY <1>2 DEF NatArmed
  <2>3. RoomOK(r, nextNatAttemptId)
    BY <1>0, <2>2, ArmOK
  <2> HIDE DEF r
  <2> QED BY <1>0, <2>1, <2>2, <2>3, HandledOK
<1>3. CASE NatRetryStale(live, n, source, target, session, attempt)
  BY <1>0, <1>3, HandledOK DEF NatRetryStale
<1>4. CASE NatRetryWait(live, n, source, target, session, attempt)
  <2>1. PICK sent : Turn(n, RequestRetry(live, n), sent)
    BY <1>4 DEF NatRetryWait
  <2>2. live[n].registered /\ UNCHANGED <<nextNatAttemptId, relay>>
    BY <1>4 DEF NatRetryWait, NatValid
  <2>3. RoomOK(RequestRetry(live, n), nextNatAttemptId)
    BY <1>0, <2>2, RequestRetryOK
  <2> QED BY <1>0, <2>1, <2>2, <2>3, HandledOK
<1>5. CASE NatRetryOpen(live, n, source, target, session, attempt)
  <2> DEFINE r == OpenAttempt(live, n, target, nextNatAttemptId)
  <2>1. /\ NatValid(live, n, source, target, session)
        /\ nextNatAttemptId' = nextNatAttemptId + 1 /\ relay' = relay
        /\ Turn(n, r, {SendNatAttempt(r, n), SendNatAttempt(r, target)})
    BY <1>5 DEF NatRetryOpen
  <2>2. RoomOK(r, nextNatAttemptId + 1)
    BY <1>0, <2>1, OpenAttemptOK
  <2> HIDE DEF r
  <2>3. RoomOK(Settle(r), nextNatAttemptId + 1) /\ r \in [Nodes -> Client]
    BY <1>0, <2>2, SettleOK DEF RoomOK
  <2> QED BY <1>0, <2>1, <2>3, TurnOK
<1>6. CASE NatRefused(live, n, source, target, session, attempt)
  BY <1>0, <1>6, HandledOK DEF NatRefused
<1> QED BY <1>1, <1>2, <1>3, <1>4, <1>5, <1>6 DEF AnyQuote

LEMMA TunIpStep ==
    ASSUME IInv, NEW n \in Nodes, NEW source \in Sockets, TunIp(n, source)
    PROVE  IInv'
<1> DEFINE rescued == IF room[n].registered THEN {n} ELSE {}
           r == IF room[n].registered THEN [room EXCEPT ![n].endpoint = source] ELSE room
           c == [room[n] EXCEPT !.endpoint = source]
<1>0. /\ nextNatAttemptId \in Nat \ {0} /\ relay \subseteq SUBSET Nodes
      /\ RoomOK(room, nextNatAttemptId) /\ stale \subseteq Nodes
      /\ room \in [Nodes -> Client] /\ room[n] \in Client
  BY DEF IInv, Registered, RoomOK
<1>1. c \in Client /\ c.registered = room[n].registered /\ SameSession(room[n], c)
  BY <1>0 DEF Client, SameSession
<1>2. [room EXCEPT ![n].endpoint = source] = [room EXCEPT ![n] = c]
  BY <1>0
<1>3. Turn(n, RemoveExpired(r, stale \ rescued), {}) /\ UNCHANGED <<nextNatAttemptId, relay>>
  BY DEF TunIp
<1> HIDE DEF c
<1>4. CASE room[n].registered
  <2>1. RoomOK([room EXCEPT ![n] = c], nextNatAttemptId)
    BY <1>0, <1>1, <1>4, TouchOK
  <2>2. RoomOK(r, nextNatAttemptId)
    BY <1>2, <1>4, <2>1
  <2> HIDE DEF r, rescued
  <2>3. RoomOK(RemoveExpired(r, stale \ rescued), nextNatAttemptId)
    BY <1>0, <2>2, RemoveExpiredOK
  <2> QED BY <1>0, <1>3, <2>3, HandledOK
<1>5. CASE ~room[n].registered
  <2>1. RoomOK(r, nextNatAttemptId)
    BY <1>0, <1>5
  <2> HIDE DEF r, rescued
  <2>2. RoomOK(RemoveExpired(r, stale \ rescued), nextNatAttemptId)
    BY <1>0, <2>1, RemoveExpiredOK
  <2> QED BY <1>0, <1>3, <2>2, HandledOK
<1> QED BY <1>4, <1>5

LEMMA NextIInv == IInv /\ [Next]_vars => IInv'
<1> SUFFICES ASSUME IInv, [Next]_vars PROVE IInv'
  OBVIOUS
<1>1. ASSUME NEW n \in Nodes, NEW source \in Sockets, Receive(n, source)
      PROVE  IInv'
  <2>1. RoomOK(Live, nextNatAttemptId)
    BY LiveOK
  <2>2. CASE Request(Live, n, source)
    <3>1. AnyRequest(Live, n, source)
      BY <2>2 DEF Request, AnyRequest
    <3> QED BY <2>1, <3>1, RequestStep
  <2>3. CASE TunIp(n, source)
    BY <2>3, TunIpStep
  <2>4. ASSUME NEW target \in Nodes \ {n}, Join(Live, n, source, target)
        PROVE  IInv'
    BY <2>1, <2>4, JoinStep
  <2>5. ASSUME NEW target \in Nodes \ {n}, NEW session \in Issued, NEW attempt \in Issued,
               Quote(Live, n, source, target, session, attempt)
        PROVE  IInv'
    <3>1. AnyQuote(Live, n, source, target, session, attempt)
      BY <2>5 DEF Quote, AnyQuote
    <3>2. session \in Nat \ {0}
      BY DEF Issued, IInv
    <3> QED BY <2>1, <3>1, <3>2, QuoteStep
  <2> QED BY <1>1, <2>2, <2>3, <2>4, <2>5 DEF Receive
<1>2. CASE Tick
  BY <1>2, LiveOK, HandledOK DEF Tick, IInv
<1>3. ASSUME NEW n \in Nodes, Age(n)
      PROVE  IInv'
  BY <1>3 DEF Age, IInv, Registered, PartnerPresent
<1>4. ASSUME NEW pair \in relay, RelayFinish(pair)
      PROVE  IInv'
  BY <1>4 DEF RelayFinish, IInv, Registered, PartnerPresent
<1>5. CASE UNCHANGED vars
  BY <1>5 DEF vars, IInv, Registered, PartnerPresent
<1> QED BY <1>1, <1>2, <1>3, <1>4, <1>5 DEF Next

\* The inductive invariant holds in every reachable state.
THEOREM Invariance == Spec => []IInv
BY InitIInv, NextIInv, PTL DEF Spec

-----------------------------------------------------------------------------
(* What the inductive invariant gives.                                     *)

LEMMA IInvTypeOK == IInv => TypeOK
BY DEF IInv, TypeOK, RoomOK, Gone

LEMMA IInvSessionAgreement == IInv => SessionAgreement
BY DEF IInv, SessionAgreement, RoomOK, SessionsOK, OneSession, Holders

LEMMA IInvReusedPairAgrees == IInv => ReusedPairAgrees
<1> SUFFICES ASSUME IInv, NEW a \in Nodes, NEW b \in Nodes, AlreadyPaired(room, a, b)
             PROVE  /\ room[a].natSessionId # 0
                    /\ room[a].natSessionId = room[b].natSessionId
                    /\ Agree(room[a], room[b])
  BY DEF ReusedPairAgrees
<1>1. room[a].natSessionId # 0 /\ room[b].natSessionId # 0
  BY DEF AlreadyPaired, IInv, RoomOK, SessionsOK, SessionRecord
<1>2. room[a].natSessionId = room[b].natSessionId
  BY <1>1 DEF AlreadyPaired, IInv, RoomOK, SessionsOK, SharedSession
<1>3. Agree(room[a], room[b])
  BY <1>1, <1>2 DEF Agree, IInv, RoomOK, SessionsOK, OneSession, Holders
<1> QED BY <1>1, <1>2, <1>3

LEMMA IInvArmedAfterBothReports == IInv => ArmedAfterBothReports
<1> SUFFICES ASSUME IInv, NEW a \in Nodes, NEW b \in Nodes,
                    room[a].armed, room[b].natSessionId = room[a].natSessionId
             PROVE  room[a].natSessionId # 0 /\ room[b].report # NoReport
  BY DEF ArmedAfterBothReports
<1>1. room[a].natSessionId # 0 /\ room[a].report # NoReport
  BY DEF IInv, RoomOK, SessionsOK, SessionRecord
<1>2. CASE a = b
  BY <1>1, <1>2
<1>3. CASE a # b
  BY <1>1, <1>3 DEF IInv, RoomOK, SessionsOK, OneSession, Holders
<1> QED BY <1>1, <1>2, <1>3

\* Type correctness: the records of the room are well formed, a node outside
\* it has left nothing behind, and only registered clients are overdue.
THEOREM TypeCorrectness == Spec => []TypeOK
BY Invariance, IInvTypeOK, PTL

\* Clients that hold the same NAT session are partners of each other and agree
\* on its attempt, token, modes and initiator (HandleConnect, HandleNatRetry).
THEOREM SessionsAgree == Spec => []SessionAgreement
BY Invariance, IInvSessionAgreement, PTL

\* A pair that CONNECT finds already paired holds one session and hands out the
\* same one to both sides (HandleConnect, alreadyPaired).
THEOREM ReusedPairsAgree == Spec => []ReusedPairAgrees
BY Invariance, IInvReusedPairAgrees, PTL

\* Nobody is armed without the reports of both sides (HandleNatArmed).
THEOREM BarrierSafe == Spec => []ArmedAfterBothReports
BY Invariance, IInvArmedAfterBothReports, PTL

\* Nobody stays paired with a client that has left (RemoveExpired, UNREG).
THEOREM PartnersPresent == Spec => []PartnerPresent
BY Invariance, PTL DEF IInv
=============================================================================

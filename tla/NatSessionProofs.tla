--------------------------- MODULE NatSessionProofs ---------------------------
(***************************************************************************)
(* Theorems about NatSession, for every set of nodes, every target and     *)
(* every limit.                                                            *)
(*                                                                         *)
(* What two clients hold is spread over the registry, the datagrams under  *)
(* way and the clients themselves, and each part may be of another attempt *)
(* than the next.  The argument gives all of them one thing to agree with: *)
(* a ledger of the attempts handed out, one entry for each (its session    *)
(* and the two clients introduced by it), and of the report each client    *)
(* made for each attempt.  The code keeps no such ledger; the invariant    *)
(* says that there is one that every part agrees with (Ledger).  An entry  *)
(* is written once, a report too, so what was sent long ago still agrees   *)
(* with the ledger of now (Grown).                                         *)
(***************************************************************************)
EXTENDS NatSession, RegistryStepProofs

-----------------------------------------------------------------------------
(* A ledger b: b.entry and b.report, and the counters and sets of the state *)
(* that its entries are compared with (Matches).                            *)
Issues(b) == 1 .. (b.next - 1)

\* n is one of the two of an entry, in the role the server gave it.
Party(e, n, peer, role) ==
    \/ n = e.caller /\ peer = e.callee /\ role = "initiator"
    \/ n = e.callee /\ peer = e.caller /\ role = "responder"

\* What n holds of attempt k is what the ledger says of it.
Named(b, k, n, session, token, peer, role) ==
    /\ k \in Issues(b)
    /\ b.entry[k].session = session
    /\ token = k
    /\ Party(b.entry[k], n, peer, role)

\* The report n made for attempt k, which it has reached.
Filed(b, n, k, report) ==
    /\ k \in Nat /\ k <= b.at[n]
    /\ report \in Reports /\ report = b.report[n][k]

Entries(b) ==
    \A k \in Issues(b) :
        /\ b.entry[k].caller \in Nodes
        /\ b.entry[k].callee \in Nodes \ {b.entry[k].caller}
        /\ b.entry[k].session \in 1 .. k

\* The attempts of a session are of the same two, who asked for all but the
\* last of them to end.
Sequel(b) ==
    \A j, k \in Issues(b) : b.entry[j].session = b.entry[k].session =>
        /\ b.entry[j].caller = b.entry[k].caller
        /\ b.entry[j].callee = b.entry[k].callee
        /\ j < k => {<<b.entry[k].caller, j>>, <<b.entry[k].callee, j>>} \subseteq b.asked

RoleOf(c, n) == IF c.pairInitiator = n THEN "initiator" ELSE "responder"

RecordIn(b, c, n) ==
    c.natSessionId # 0 =>
        /\ Named(b, c.natAttemptId, n, c.natSessionId, c.natPunchToken, c.pairedWith,
                 RoleOf(c, n))
        /\ c.report # NoReport => Filed(b, n, c.natAttemptId, c.report)
        /\ c.armed => <<n, c.natAttemptId>> \in b.ready
        /\ c.natRetryRequested => <<n, c.natAttemptId>> \in b.asked

\* A record is in the last attempt of its session.
Latest(b, c) ==
    c.natSessionId # 0 =>
        \A j \in Issues(b) : b.entry[j].session = c.natSessionId => j <= c.natAttemptId

DatagramIn(b, d) ==
    /\ d.type = "PEER" =>
        Named(b, d.attempt, d.node, d.session, d.token, d.peer, d.role)
    /\ d.type = "NAT_ATTEMPT" =>
        /\ d.attempt \in Issues(b) /\ b.entry[d.attempt].session = d.session
        /\ d.token = d.attempt
    /\ d.type = "NAT_PEER_INFO" => d.peer \in Nodes /\ Filed(b, d.peer, d.attempt, d.report)
    /\ d.type = "NAT_START" =>
        /\ <<d.node, d.attempt>> \in b.ready
        /\ \E e \in Nodes \ {d.node} : <<e, d.attempt>> \in b.ready

RequestIn(b, m) ==
    /\ m.node \in Nodes
    /\ m.type = "CONNECT" => m.target \in Nodes
    /\ m.type \in {"NAT_INFO", "NAT_ARMED", "NAT_RETRY"} =>
        m.target \in Nodes \ {m.node} /\ m.session \in Nat \ {0}
    /\ m.type = "NAT_INFO" => Filed(b, m.node, m.attempt, m.report)
    /\ m.type = "NAT_ARMED" => <<m.node, m.attempt>> \in b.ready
    /\ m.type = "NAT_RETRY" => <<m.node, m.attempt>> \in b.asked

AtWork == Phases \ {"select", "left"}

ClientIn(b, c, n) ==
    /\ c.phase = "select" => c.attempt = 0
    /\ c.phase \in AtWork =>
        /\ Named(b, c.attempt, n, c.session, c.token, c.peer, c.role)
        /\ Filed(b, n, c.attempt, c.report)
    /\ c.phase \in {"barrier", "punch"} =>
        c.peer \in Nodes /\ Filed(b, c.peer, c.attempt, c.peerReport)
    /\ c.phase = "barrier" => <<n, c.attempt>> \in b.ready
    /\ c.phase = "retry" => <<n, c.attempt>> \in b.asked

Matches(b) ==
    /\ b.next = nextNatAttemptId
    /\ b.ready = ready
    /\ b.asked = asked
    /\ \A n \in Nodes : b.at[n] = client[n].attempt

Ledger(b) ==
    /\ Matches(b)
    /\ Entries(b) /\ Sequel(b)
    /\ \A n \in Nodes : RecordIn(b, room[n], n) /\ Latest(b, room[n])
    /\ \A d \in inbox : DatagramIn(b, d)
    /\ \A m \in requests : RequestIn(b, m)
    /\ \A n \in Nodes : ClientIn(b, client[n], n)

LInv ==
    /\ IInv
    /\ client \in [Nodes -> Session]
    /\ \E b : Ledger(b)

-----------------------------------------------------------------------------
(* What is in one ledger is in the next. *)
Grown(b, c) ==
    /\ b.next \in Nat \ {0} /\ c.next \in Nat /\ b.next <= c.next
    /\ \A k \in Issues(b) : c.entry[k] = b.entry[k]
    /\ b.ready \subseteq c.ready /\ b.asked \subseteq c.asked
    /\ \A n \in Nodes :
        /\ b.at[n] \in Nat /\ c.at[n] \in Nat /\ b.at[n] <= c.at[n]
        /\ \A k \in Nat : k <= b.at[n] => c.report[n][k] = b.report[n][k]

LEMMA GrownParts ==
    ASSUME NEW b, NEW c, Grown(b, c)
    PROVE  /\ Issues(b) \subseteq Issues(c)
           /\ \A k, n, session, token, peer, role :
                Named(b, k, n, session, token, peer, role)
                => Named(c, k, n, session, token, peer, role)
           /\ \A n \in Nodes : \A k, report : Filed(b, n, k, report) => Filed(c, n, k, report)
<1>1. Issues(b) \subseteq Issues(c)
  BY DEF Grown, Issues
<1>2. ASSUME NEW n \in Nodes, NEW k, NEW report, Filed(b, n, k, report)
      PROVE  Filed(c, n, k, report)
  BY <1>2 DEF Grown, Filed
<1>3. ASSUME NEW k, NEW n, NEW session, NEW token, NEW peer, NEW role,
             Named(b, k, n, session, token, peer, role)
      PROVE  Named(c, k, n, session, token, peer, role)
  BY <1>1, <1>3 DEF Grown, Named
<1> QED BY <1>1, <1>2, <1>3

LEMMA GrownRecord ==
    ASSUME NEW b, NEW c, Grown(b, c), NEW n \in Nodes, NEW r, RecordIn(b, r, n)
    PROVE  RecordIn(c, r, n)
<1>1. b.ready \subseteq c.ready /\ b.asked \subseteq c.asked
  BY DEF Grown
<1> QED BY <1>1, GrownParts DEF RecordIn

LEMMA GrownDatagram ==
    ASSUME NEW b, NEW c, Grown(b, c), NEW d, DatagramIn(b, d)
    PROVE  DatagramIn(c, d)
<1>1. b.ready \subseteq c.ready /\ \A k \in Issues(b) : c.entry[k] = b.entry[k]
  BY DEF Grown
<1> QED BY <1>1, GrownParts DEF DatagramIn

LEMMA GrownRequest ==
    ASSUME NEW b, NEW c, Grown(b, c), NEW m, RequestIn(b, m)
    PROVE  RequestIn(c, m)
<1>1. b.ready \subseteq c.ready /\ b.asked \subseteq c.asked
  BY DEF Grown
<1> QED BY <1>1, GrownParts DEF RequestIn

LEMMA GrownClient ==
    ASSUME NEW b, NEW c, Grown(b, c), NEW n \in Nodes, NEW s, ClientIn(b, s, n)
    PROVE  ClientIn(c, s, n)
<1>1. b.ready \subseteq c.ready /\ b.asked \subseteq c.asked
  BY DEF Grown
<1> QED BY <1>1, GrownParts DEF ClientIn

LEMMA GrownSelf ==
    ASSUME LInv, NEW b, Ledger(b)
    PROVE  Grown(b, b)
<1>1. b.next \in Nat \ {0}
  BY DEF LInv, IInv, Ledger, Matches
<1>2. \A n \in Nodes : b.at[n] \in Nat
  BY DEF LInv, Session, Ledger, Matches
<1> QED BY <1>1, <1>2 DEF Grown

-----------------------------------------------------------------------------
(* The steps of a client. *)

\* A client goes on as c: the ledger b, grown to g if need be, still holds.
LEMMA ClientLedger ==
    ASSUME LInv, NEW b, Ledger(b), NEW g, Grown(b, g), Entries(g), Sequel(g),
           NEW n \in Nodes, NEW c \in Session, ClientIn(g, c, n),
           client' = [client EXCEPT ![n] = c],
           UNCHANGED registry, inbox' = inbox, requests' \subseteq requests,
           g.next = b.next, g.ready = ready', g.asked = asked',
           g.at[n] = c.attempt, \A m \in Nodes \ {n} : g.at[m] = b.at[m]
    PROVE  LInv'
<1>1. IInv'
  BY DEF LInv, IInv, registry, Registered, PartnerPresent
<1>2. /\ client' \in [Nodes -> Session]
      /\ client'[n] = c /\ \A m \in Nodes \ {n} : client'[m] = client[m]
  BY DEF LInv
<1>3. Matches(g)'
  BY <1>2 DEF Ledger, Matches, registry
<1>4. \A m \in Nodes : RecordIn(g, room'[m], m) /\ Latest(g, room'[m])
  <2> TAKE m \in Nodes
  <2>1. RecordIn(b, room[m], m) /\ Latest(b, room[m]) /\ room' = room
    BY DEF Ledger, registry
  <2>2. RecordIn(g, room[m], m)
    BY <2>1, GrownRecord
  <2>3. Latest(g, room[m])
    BY <2>1 DEF Latest, Issues, Grown
  <2> QED BY <2>1, <2>2, <2>3
<1>5. \A d \in inbox' : DatagramIn(g, d)
  BY GrownDatagram DEF Ledger
<1>6. \A m \in requests' : RequestIn(g, m)
  BY GrownRequest DEF Ledger
<1>7. \A m \in Nodes : ClientIn(g, client'[m], m)
  BY <1>2, GrownClient DEF Ledger
<1>8. Ledger(g)'
  BY <1>3, <1>4, <1>5, <1>6, <1>7 DEF Ledger
<1> QED BY <1>1, <1>2, <1>8 DEF LInv

\* The usual case: the client stays in its attempt, and the histories stay.
LEMMA ClientStays ==
    ASSUME LInv, NEW b, Ledger(b), NEW n \in Nodes, NEW c \in Session,
           ClientIn(b, c, n), c.attempt = client[n].attempt,
           client' = [client EXCEPT ![n] = c],
           UNCHANGED registry, inbox' = inbox, requests' \subseteq requests,
           ready' = ready, asked' = asked
    PROVE  LInv'
<1>1. /\ Grown(b, b) /\ Entries(b) /\ Sequel(b)
      /\ b.ready = ready' /\ b.asked = asked' /\ b.at[n] = c.attempt
  BY GrownSelf DEF Ledger, Matches
<1> QED BY <1>1, ClientLedger

LEMMA LeftSession ==
    ASSUME NEW c \in Session
    PROVE  /\ Left(c) \in Session /\ Left(c).phase = "left"
           /\ Left(c).attempt = c.attempt
BY DEF Left, Selecting, Session, Phases

\* Leaving needs nothing.
LEMMA LeavesLedger ==
    ASSUME LInv, NEW n \in Nodes, Continue(n, Left(client[n])), UNCHANGED <<network, history>>
    PROVE  LInv'
<1>1. PICK b : Ledger(b)
  BY DEF LInv
<1>2. client[n] \in Session
  BY DEF LInv
<1> DEFINE c == Left(client[n])
<1>3. c \in Session /\ c.phase = "left" /\ c.attempt = client[n].attempt
  BY <1>2, LeftSession
<1>4. client' = [client EXCEPT ![n] = c] /\ UNCHANGED registry
  BY DEF Continue
<1> HIDE DEF c
<1>5. ClientIn(b, c, n)
  BY <1>3 DEF ClientIn, AtWork
<1> QED BY <1>1, <1>3, <1>4, <1>5, ClientStays DEF network, history

LEMMA StartedSession ==
    ASSUME NEW c \in Session, NEW report \in Reports
    PROVE  LET d == [c EXCEPT !.phase = "info", !.number = @ + 1,
                              !.report = report, !.peerReport = NoReport]
           IN  /\ d \in Session /\ d.phase = "info" /\ d.report = report
               /\ d.peer = c.peer /\ d.session = c.session /\ d.attempt = c.attempt
               /\ d.token = c.token /\ d.role = c.role
<1>1. c.number + 1 \in Nat
  BY DEF Session
<1> QED BY <1>1 DEF Session, Phases

\* A client enters attempt k, later than any it was in, with a new report.
LEMMA EntersAttempt ==
    ASSUME LInv, NEW b, Ledger(b), NEW n \in Nodes, NEW c,
           NEW k, NEW session, NEW token, NEW peer, NEW role,
           Named(b, k, n, session, token, peer, role),
           c.peer = peer, c.session = session, c.attempt = k, c.token = token,
           c.role = role, c \in Session,
           client[n].attempt < k,
           StartAttempt(n, c), UNCHANGED <<network, history>>
    PROVE  LInv'
<1>1. PICK report \in Reports \ {c.report} :
        Continue(n, [c EXCEPT !.phase = "info", !.number = @ + 1,
                              !.report = report, !.peerReport = NoReport])
  BY DEF StartAttempt
<1> DEFINE d == [c EXCEPT !.phase = "info", !.number = @ + 1,
                          !.report = report, !.peerReport = NoReport]
<1>2. /\ d \in Session /\ d.phase = "info" /\ d.peer = peer /\ d.session = session
      /\ d.attempt = k /\ d.token = token /\ d.role = role /\ d.report = report
  BY StartedSession
<1>3. client' = [client EXCEPT ![n] = d] /\ UNCHANGED registry
  BY <1>1 DEF Continue
<1> HIDE DEF d
<1>4. k \in Nat /\ Grown(b, b)
  BY GrownSelf DEF Named, Issues, Ledger, Matches, Grown
<1> DEFINE made == [m \in Nodes |-> [j \in Nat |->
                        IF m = n /\ j = k THEN report ELSE b.report[m][j]]]
           at == [m \in Nodes |-> IF m = n THEN k ELSE b.at[m]]
<1>0. /\ at[n] = k /\ \A m \in Nodes \ {n} : at[m] = b.at[m]
      /\ made[n][k] = report
      /\ \A m \in Nodes, j \in Nat : m # n \/ j # k => made[m][j] = b.report[m][j]
  BY <1>4
<1> HIDE DEF made, at
<1>5. PICK g : /\ g.next = b.next /\ g.entry = b.entry /\ g.report = made
               /\ g.at = at /\ g.ready = b.ready /\ g.asked = b.asked
  <2> WITNESS [next |-> b.next, entry |-> b.entry, report |-> made,
               at |-> at, ready |-> b.ready, asked |-> b.asked]
  <2> QED OBVIOUS
<1>6. /\ g.at[n] = k /\ \A m \in Nodes \ {n} : g.at[m] = b.at[m]
      /\ g.report[n][k] = report
      /\ \A m \in Nodes, j \in Nat : m # n \/ j # k => g.report[m][j] = b.report[m][j]
  BY <1>0, <1>5
<1>7. b.at[n] < k /\ b.ready = ready /\ b.asked = asked
  BY DEF Ledger, Matches
<1>8. Grown(b, g)
  BY <1>4, <1>5, <1>6, <1>7 DEF Grown
<1>9. Entries(g) /\ Sequel(g)
  BY <1>5 DEF Ledger, Entries, Sequel, Issues
<1>10. Filed(g, n, k, report)
  BY <1>4, <1>6 DEF Filed
<1>11. Named(g, k, n, session, token, peer, role)
  BY <1>8, GrownParts
<1>12. ClientIn(g, d, n)
  BY <1>2, <1>10, <1>11 DEF ClientIn
<1> QED BY <1>2, <1>3, <1>5, <1>6, <1>7, <1>8, <1>9, <1>12, ClientLedger DEF network, history


\* What the ledger knows of a client at work.
LEMMA WorkingClient ==
    ASSUME LInv, NEW b, Ledger(b), NEW n \in Nodes, client[n].phase \in AtWork
    PROVE  LET c == client[n]
           IN  /\ c \in Session
               /\ Named(b, c.attempt, n, c.session, c.token, c.peer, c.role)
               /\ Filed(b, n, c.attempt, c.report)
               /\ c.peer \in Nodes \ {n}
               /\ c.session \in Nat \ {0}
               /\ c.attempt \in Nat \ {0}
<1> DEFINE c == client[n]
<1>1. c \in Session
  BY DEF LInv
<1>2. /\ Named(b, c.attempt, n, c.session, c.token, c.peer, c.role)
      /\ Filed(b, n, c.attempt, c.report) /\ Entries(b)
  BY DEF Ledger, ClientIn
<1> HIDE DEF c
<1>3. c.attempt \in Nat \ {0}
  BY <1>2 DEF Named, Issues, Filed
<1>4. c.peer \in Nodes \ {n} /\ c.session \in Nat \ {0}
  BY <1>2, <1>3 DEF Named, Entries, Party
<1> QED BY <1>1, <1>2, <1>3, <1>4 DEF c

\* New requests that agree with the ledger.
LEMMA SendsLedger ==
    ASSUME LInv, NEW b, Ledger(b), NEW sent, \A m \in sent : RequestIn(b, m),
           Send(sent), UNCHANGED <<registry, client, inbox, history>>
    PROVE  LInv'
<1>1. IInv'
  BY DEF LInv, IInv, registry, Registered, PartnerPresent
<1>2. Ledger(b)'
  BY DEF Ledger, Matches, registry, history, Send
<1> QED BY <1>1, <1>2 DEF LInv

LEMMA RequestFields ==
    ASSUME NEW type, NEW n, NEW target
    PROVE  LET m == RequestOf(type, n, target)
           IN  /\ m.type = type /\ m.node = n /\ m.target = target
               /\ m.session = client[n].session /\ m.attempt = client[n].attempt
               /\ m.report = client[n].report
BY DEF RequestOf

LEMMA SendProbeLedger ==
    ASSUME LInv, NEW n \in Nodes, SendProbe(n)
    PROVE  LInv'
<1>1. PICK b : Ledger(b)
  BY DEF LInv
<1> DEFINE probe == RequestOf("REG", n, NoNode)
           call == RequestOf("CONNECT", n, Target[n])
           sent == {probe} \cup (IF n \in DOMAIN Target THEN {call} ELSE {})
<1>2. probe.type = "REG" /\ probe.node = n
  BY RequestFields
<1>3. call.type = "CONNECT" /\ call.node = n /\ call.target = Target[n]
  BY RequestFields
<1>4. Send(sent) /\ UNCHANGED <<registry, client, inbox, history>>
  BY DEF SendProbe
<1> HIDE DEF probe, call
<1>5. \A m \in sent : RequestIn(b, m)
  BY <1>2, <1>3, TargetAssumption DEF RequestIn
<1> QED BY <1>1, <1>4, <1>5, SendsLedger

LEMMA SendRequestLedger ==
    ASSUME LInv, NEW n \in Nodes, SendRequest(n)
    PROVE  LInv'
<1>1. PICK b : Ledger(b)
  BY DEF LInv
<1> DEFINE c == client[n]
<1>2. \A m \in RequestInPhase(n) : RequestIn(b, m)
  <2>1. CASE c.phase \notin {"info", "barrier", "retry"}
    BY <2>1 DEF RequestInPhase, In
  <2>2. ASSUME NEW type, c.phase \in AtWork,
               \/ type = "NAT_INFO"
               \/ type = "NAT_ARMED" /\ <<n, c.attempt>> \in b.ready
               \/ type = "NAT_RETRY" /\ <<n, c.attempt>> \in b.asked
        PROVE  RequestIn(b, RequestOf(type, n, c.peer))
    <3>0. PICK m : m = RequestOf(type, n, c.peer)
      OBVIOUS
    <3>1. /\ m.type = type /\ m.node = n /\ m.target = c.peer
          /\ m.session = c.session /\ m.attempt = c.attempt /\ m.report = c.report
      BY <3>0, RequestFields
    <3>2. /\ c.peer \in Nodes \ {n} /\ c.session \in Nat \ {0}
          /\ Filed(b, n, c.attempt, c.report)
      BY <1>1, <2>2, WorkingClient
    <3>3. RequestIn(b, m)
      BY <2>2, <3>1, <3>2 DEF RequestIn
    <3> QED BY <3>0, <3>3
  <2>3. CASE c.phase = "info"
    <3>1. RequestIn(b, RequestOf("NAT_INFO", n, c.peer))
      BY <2>2, <2>3 DEF AtWork, Phases
    <3>2. RequestInPhase(n) = {RequestOf("NAT_INFO", n, c.peer)}
      BY <2>3 DEF RequestInPhase, In
    <3> QED BY <3>1, <3>2
  <2>4. CASE c.phase = "barrier"
    <3>1. <<n, c.attempt>> \in b.ready
      BY <1>1, <2>4 DEF Ledger, ClientIn
    <3>2. RequestIn(b, RequestOf("NAT_ARMED", n, c.peer))
      BY <2>2, <2>4, <3>1 DEF AtWork, Phases
    <3>3. RequestInPhase(n) = {RequestOf("NAT_ARMED", n, c.peer)}
      BY <2>4 DEF RequestInPhase, In
    <3> QED BY <3>2, <3>3
  <2>5. CASE c.phase = "retry"
    <3>1. <<n, c.attempt>> \in b.asked
      BY <1>1, <2>5 DEF Ledger, ClientIn
    <3>2. RequestIn(b, RequestOf("NAT_RETRY", n, c.peer))
      BY <2>2, <2>5, <3>1 DEF AtWork, Phases
    <3>3. RequestInPhase(n) = {RequestOf("NAT_RETRY", n, c.peer)}
      BY <2>5 DEF RequestInPhase, In
    <3> QED BY <3>2, <3>3
  <2> QED BY <2>1, <2>3, <2>4, <2>5
<1>3. Send(RequestInPhase(n)) /\ UNCHANGED <<registry, client, inbox, history>>
  BY DEF SendRequest
<1> QED BY <1>1, <1>2, <1>3, SendsLedger

LEMMA SendUnregLedger ==
    ASSUME LInv, NEW n \in Nodes, SendUnreg(n)
    PROVE  LInv'
<1>1. PICK b : Ledger(b)
  BY DEF LInv
<1> DEFINE m == RequestOf("UNREG", n, NoNode)
<1>2. m.type = "UNREG" /\ m.node = n
  BY RequestFields
<1>3. Send({m}) /\ UNCHANGED <<registry, client, inbox, history>>
  BY DEF SendUnreg
<1> HIDE DEF m
<1>4. \A e \in {m} : RequestIn(b, e)
  BY <1>2 DEF RequestIn
<1> QED BY <1>1, <1>3, <1>4, SendsLedger

LEMMA TakePeerLedger ==
    ASSUME LInv, NEW n \in Nodes, NEW m \in inbox, TakePeer(n, m)
    PROVE  LInv'
<1>1. PICK b : Ledger(b)
  BY DEF LInv
<1> DEFINE c == [client[n] EXCEPT !.peer = m.peer, !.session = m.session,
                                  !.attempt = m.attempt, !.token = m.token,
                                  !.role = m.role]
<1>2. client[n].phase = "select" /\ StartAttempt(n, c) /\ UNCHANGED <<network, history>>
  BY DEF TakePeer, In
<1>3. Named(b, m.attempt, n, m.session, m.token, m.peer, m.role)
  BY <1>1 DEF TakePeer, Ledger, DatagramIn
<1>4. client[n] \in Session /\ client[n].attempt = 0
  BY <1>1, <1>2 DEF LInv, Ledger, ClientIn
<1>5. Entries(b) /\ b.next \in Nat
  BY <1>1 DEF Ledger, Matches, LInv, IInv
<1>6. m.attempt \in Nat \ {0} /\ m.token = m.attempt
  BY <1>3, <1>5 DEF Named, Issues
<1>7. m.session \in Nat /\ m.peer \in Nodes /\ m.role \in {"initiator", "responder"}
  BY <1>3, <1>5, <1>6 DEF Named, Entries, Party
<1>8. /\ c \in Session /\ c.peer = m.peer /\ c.session = m.session
      /\ c.attempt = m.attempt /\ c.token = m.token /\ c.role = m.role
  BY <1>4, <1>6, <1>7 DEF Session
<1>9. client[n].attempt < m.attempt
  BY <1>4, <1>6
<1> HIDE DEF c
<1> QED BY <1>1, <1>2, <1>3, <1>8, <1>9, EntersAttempt

LEMMA TakeAttemptLedger ==
    ASSUME LInv, NEW n \in Nodes, NEW m \in inbox, TakeAttempt(n, m)
    PROVE  LInv'
<1>1. PICK b : Ledger(b)
  BY DEF LInv
<1> DEFINE o == client[n]
           c == [o EXCEPT !.attempt = m.attempt, !.token = m.token]
<1>2. o.phase = "retry" /\ m.type = "NAT_ATTEMPT" /\ UNCHANGED <<network, history>>
  BY DEF TakeAttempt, In
<1>3. CASE m.session = o.session /\ m.attempt > o.attempt /\ m.role = o.role
  <2>1. StartAttempt(n, c)
    BY <1>3 DEF TakeAttempt
  <2>2. /\ o \in Session /\ o.attempt \in Nat
        /\ Named(b, o.attempt, n, o.session, o.token, o.peer, o.role)
    BY <1>1, <1>2, WorkingClient DEF AtWork, Phases
  <2>3. /\ m.attempt \in Issues(b) /\ b.entry[m.attempt].session = m.session
        /\ m.token = m.attempt
    BY <1>1, <1>2 DEF Ledger, DatagramIn
  <2>4. b.next \in Nat /\ Sequel(b)
    BY <1>1 DEF Ledger, Matches, LInv, IInv
  <2>5. m.attempt \in Nat
    BY <2>3, <2>4 DEF Issues
  <2> HIDE DEF o
  <2>6. Named(b, m.attempt, n, o.session, m.token, o.peer, o.role)
    BY <1>3, <2>2, <2>3, <2>4 DEF Named, Sequel, Party
  <2>7. /\ c \in Session /\ c.peer = o.peer /\ c.session = o.session
        /\ c.attempt = m.attempt /\ c.token = m.token /\ c.role = o.role
    BY <2>2, <2>3, <2>5 DEF Session
  <2>8. client[n].attempt < m.attempt
    BY <1>3, <2>2, <2>5 DEF o
  <2> HIDE DEF c
  <2> QED BY <1>1, <1>2, <2>1, <2>6, <2>7, <2>8, EntersAttempt
<1>4. CASE ~(m.session = o.session /\ m.attempt > o.attempt /\ m.role = o.role)
  BY <1>2, <1>4, LeavesLedger DEF TakeAttempt
<1> QED BY <1>3, <1>4

LEMMA TakePeerInfoLedger ==
    ASSUME LInv, NEW n \in Nodes, NEW m \in inbox, TakePeerInfo(n, m)
    PROVE  LInv'
<1>1. PICK b : Ledger(b)
  BY DEF LInv
<1> DEFINE o == client[n]
           c == [o EXCEPT !.phase = "barrier", !.peerReport = m.report]
<1>2. /\ o.phase = "info" /\ m.type = "NAT_PEER_INFO"
      /\ m.attempt = o.attempt /\ m.peer = o.peer
      /\ client' = [client EXCEPT ![n] = c] /\ UNCHANGED registry
      /\ ready' = ready \cup {<<n, o.attempt>>} /\ UNCHANGED <<network, punched, asked>>
  BY DEF TakePeerInfo, In, MatchesSession, Continue
<1>3. /\ o \in Session
      /\ Named(b, o.attempt, n, o.session, o.token, o.peer, o.role)
      /\ Filed(b, n, o.attempt, o.report) /\ o.peer \in Nodes
  BY <1>1, <1>2, WorkingClient DEF AtWork, Phases
<1>4. Filed(b, o.peer, o.attempt, m.report)
  BY <1>1, <1>2 DEF Ledger, DatagramIn
<1>5. m.report \in Reports
  BY <1>4 DEF Filed
<1>6. Grown(b, b) /\ Entries(b) /\ Sequel(b)
  BY <1>1, GrownSelf DEF Ledger
<1>7. b.at[n] = o.attempt /\ b.ready = ready /\ b.asked = asked
  BY <1>1 DEF Ledger, Matches
<1> HIDE DEF o
<1>8. /\ c \in Session /\ c.phase = "barrier" /\ c.peerReport = m.report
      /\ c.attempt = o.attempt /\ c.session = o.session /\ c.token = o.token
      /\ c.peer = o.peer /\ c.role = o.role /\ c.report = o.report
  BY <1>3, <1>5 DEF Session, Phases
<1> HIDE DEF c
<1>9. PICK g : /\ g.next = b.next /\ g.entry = b.entry /\ g.report = b.report
               /\ g.at = b.at /\ g.ready = ready' /\ g.asked = b.asked
  <2> WITNESS [next |-> b.next, entry |-> b.entry, report |-> b.report,
               at |-> b.at, ready |-> ready', asked |-> b.asked]
  <2> QED OBVIOUS
<1>10. Grown(b, g)
  BY <1>2, <1>6, <1>7, <1>9 DEF Grown
<1>11. Entries(g) /\ Sequel(g)
  BY <1>6, <1>9 DEF Entries, Sequel, Issues
<1>12. /\ Named(g, o.attempt, n, o.session, o.token, o.peer, o.role)
       /\ Filed(g, n, o.attempt, o.report) /\ Filed(g, o.peer, o.attempt, m.report)
  BY <1>3, <1>4, <1>10, GrownParts
<1>13. ClientIn(g, c, n)
  BY <1>2, <1>3, <1>8, <1>9, <1>12 DEF ClientIn
<1> QED BY <1>1, <1>2, <1>7, <1>8, <1>9, <1>10, <1>11, <1>13, ClientLedger DEF network

LEMMA AskAgainLedger ==
    ASSUME LInv, NEW n \in Nodes, AskAgain(n), requests' \subseteq requests
    PROVE  LInv'
<1>1. PICK b : Ledger(b)
  BY DEF LInv
<1> DEFINE o == client[n]
           c == [o EXCEPT !.phase = "retry"]
<1>2. /\ o.phase \in {"info", "barrier", "punch"}
      /\ client' = [client EXCEPT ![n] = c] /\ UNCHANGED registry
      /\ asked' = asked \cup {<<n, o.attempt>>} /\ UNCHANGED <<inbox, ready, punched>>
  BY DEF AskAgain, Attempting, Continue
<1>3. /\ o \in Session
      /\ Named(b, o.attempt, n, o.session, o.token, o.peer, o.role)
      /\ Filed(b, n, o.attempt, o.report)
  BY <1>1, <1>2, WorkingClient DEF AtWork, Phases
<1>6. Grown(b, b) /\ Entries(b) /\ Sequel(b)
  BY <1>1, GrownSelf DEF Ledger
<1>7. b.at[n] = o.attempt /\ b.ready = ready /\ b.asked = asked
  BY <1>1 DEF Ledger, Matches
<1> HIDE DEF o
<1>8. /\ c \in Session /\ c.phase = "retry"
      /\ c.attempt = o.attempt /\ c.session = o.session /\ c.token = o.token
      /\ c.peer = o.peer /\ c.role = o.role /\ c.report = o.report
  BY <1>3 DEF Session, Phases
<1> HIDE DEF c
<1>9. PICK g : /\ g.next = b.next /\ g.entry = b.entry /\ g.report = b.report
               /\ g.at = b.at /\ g.ready = b.ready /\ g.asked = asked'
  <2> WITNESS [next |-> b.next, entry |-> b.entry, report |-> b.report,
               at |-> b.at, ready |-> b.ready, asked |-> asked']
  <2> QED OBVIOUS
<1>10. Grown(b, g)
  BY <1>2, <1>6, <1>7, <1>9 DEF Grown
<1>11. Entries(g) /\ Sequel(g)
  BY <1>2, <1>6, <1>7, <1>9 DEF Entries, Sequel, Issues
<1>12. /\ Named(g, o.attempt, n, o.session, o.token, o.peer, o.role)
       /\ Filed(g, n, o.attempt, o.report)
  BY <1>3, <1>10, GrownParts
<1>13. ClientIn(g, c, n)
  BY <1>2, <1>8, <1>9, <1>12 DEF ClientIn
<1> QED BY <1>1, <1>2, <1>7, <1>8, <1>9, <1>10, <1>11, <1>13, ClientLedger

\* TakeStart and Succeed: one phase of the attempt follows another.
LEMMA NextPhase ==
    ASSUME LInv, NEW n \in Nodes, NEW phase,
           \/ client[n].phase = "barrier" /\ phase = "punch"
           \/ client[n].phase = "punch" /\ phase = "tunnel",
           Continue(n, [client[n] EXCEPT !.phase = phase]),
           UNCHANGED <<network, ready, asked>>
    PROVE  LInv'
<1>1. PICK b : Ledger(b)
  BY DEF LInv
<1> DEFINE o == client[n]
           c == [o EXCEPT !.phase = phase]
<1>2. client' = [client EXCEPT ![n] = c] /\ UNCHANGED registry
  BY DEF Continue
<1>3. o \in Session /\ ClientIn(b, o, n) /\ o.attempt = client[n].attempt
  BY <1>1 DEF LInv, Ledger
<1>4. \/ o.phase = "barrier" /\ phase = "punch"
      \/ o.phase = "punch" /\ phase = "tunnel"
  OBVIOUS
<1> HIDE DEF o
<1>5. /\ c \in Session /\ c.phase = phase
      /\ c.attempt = o.attempt /\ c.session = o.session /\ c.token = o.token
      /\ c.peer = o.peer /\ c.role = o.role /\ c.report = o.report
      /\ c.peerReport = o.peerReport
  BY <1>3, <1>4 DEF Session, Phases
<1> HIDE DEF c
<1>6. ClientIn(b, c, n)
  BY <1>3, <1>4, <1>5 DEF ClientIn, AtWork, Phases
<1> QED BY <1>1, <1>2, <1>3, <1>5, <1>6, ClientStays DEF network

LEMMA TakeLedger ==
    ASSUME LInv, NEW n \in Nodes, NEW m \in inbox, Take(n, m)
    PROVE  LInv'
<1>1. CASE TakeStart(n, m)
  BY <1>1, NextPhase DEF TakeStart, In
<1>2. CASE TakeError(n, m)
  BY <1>2, LeavesLedger DEF TakeError
<1> QED BY <1>1, <1>2, TakePeerLedger, TakePeerInfoLedger, TakeAttemptLedger DEF Take

LEMMA ClientStepLedger ==
    ASSUME LInv, NEW n \in Nodes, ClientStep(n)
    PROVE  LInv'
<1>1. CASE AttemptTimeout(n)
  BY <1>1, AskAgainLedger, LeavesLedger DEF AttemptTimeout
<1>2. CASE Leave(n)
  BY <1>2, LeavesLedger DEF Leave
<1>3. CASE Succeed(n)
  BY <1>3, NextPhase DEF Succeed, In, history
<1> QED BY <1>1, <1>2, <1>3, TakeLedger, SendProbeLedger, SendRequestLedger, SendUnregLedger
        DEF ClientStep

-----------------------------------------------------------------------------
(* The steps of the server. *)

\* The server leaves records that agree with g, and sends what agrees with it.
LEMMA ServeLedger ==
    ASSUME LInv, IInv', NEW b, Ledger(b), NEW g, Grown(b, g), Entries(g), Sequel(g),
           g.next = nextNatAttemptId', g.ready = b.ready, g.asked = b.asked, g.at = b.at,
           UNCHANGED <<client, requests, history>>,
           inbox' \subseteq inbox \cup replies',
           \A n \in Nodes : RecordIn(g, room'[n], n) /\ Latest(g, room'[n]),
           \A d \in replies' : DatagramIn(g, d)
    PROVE  LInv'
<1>1. Matches(g)'
  BY DEF Ledger, Matches, history
<1>2. \A d \in inbox' : DatagramIn(g, d)
  BY GrownDatagram DEF Ledger
<1>3. \A m \in requests' : RequestIn(g, m)
  BY GrownRequest DEF Ledger
<1>4. \A n \in Nodes : ClientIn(g, client'[n], n)
  BY GrownClient DEF Ledger
<1>5. Ledger(g)'
  BY <1>1, <1>2, <1>3, <1>4 DEF Ledger
<1> QED BY <1>5 DEF LInv

\* A record whose session is kept or gone agrees as before.
LEMMA LooseRecord ==
    ASSUME NEW b, NEW n, NEW c, NEW d, RecordIn(b, c, n), Latest(b, c),
           Keeps(c, d) \/ d.natSessionId = 0
    PROVE  RecordIn(b, d, n) /\ Latest(b, d)
<1>1. CASE d.natSessionId = 0
  BY <1>1 DEF RecordIn, Latest
<1>2. CASE Keeps(c, d)
  <2>1. RoleOf(d, n) = RoleOf(c, n)
    BY <1>2 DEF Keeps, SameSession, RoleOf
  <2> QED BY <1>2, <2>1 DEF Keeps, SameSession, RecordIn, Latest
<1> QED BY <1>1, <1>2

LEMMA LiveLedger ==
    ASSUME LInv, NEW b, Ledger(b), NEW r, Loosens(room, r)
    PROVE  \A n \in Nodes : RecordIn(b, r[n], n) /\ Latest(b, r[n])
<1> TAKE n \in Nodes
<1>1. Keeps(room[n], r[n]) \/ r[n].natSessionId = 0
  BY DEF Loosens, WithoutSession
<1>2. RecordIn(b, room[n], n) /\ Latest(b, room[n])
  BY DEF Ledger
<1> QED BY <1>1, <1>2, LooseRecord

\* A turn that opens no session, for whatever request.
LEMMA QuietLedger ==
    ASSUME LInv, IInv', NEW b, Ledger(b), Quiet,
           UNCHANGED <<nextNatAttemptId, client, requests, history>>,
           inbox' \subseteq inbox \cup replies',
           \A d \in replies' : DatagramIn(b, d)
    PROVE  LInv'
<1>1. ASSUME NEW n \in Nodes
      PROVE  RecordIn(b, room'[n], n) /\ Latest(b, room'[n])
  <2>1. Keeps(room[n], room'[n]) \/ room'[n].natSessionId = 0
    <3>1. SessionRecord(room'[n], nextNatAttemptId') /\ nextNatAttemptId' \in Nat
      BY DEF IInv, RoomOK, SessionsOK
    <3>2. room'[n].natSessionId # nextNatAttemptId
      BY <3>1 DEF SessionRecord
    <3> QED BY <3>2 DEF Quiet, Unbroken
  <2>2. RecordIn(b, room[n], n) /\ Latest(b, room[n])
    BY DEF Ledger
  <2> QED BY <2>1, <2>2, LooseRecord
<1>2. Grown(b, b) /\ Entries(b) /\ Sequel(b) /\ b.next = nextNatAttemptId'
  BY GrownSelf DEF Ledger, Matches
<1> QED BY <1>1, <1>2, ServeLedger

\* Datagrams that name no attempt agree with any ledger.
LEMMA PlainDatagram ==
    ASSUME NEW b, NEW d, d.type \notin {"PEER", "NAT_ATTEMPT", "NAT_PEER_INFO", "NAT_START"}
    PROVE  DatagramIn(b, d)
BY DEF DatagramIn

\* What the server sends of a record that agrees.
LEMMA PeerReplyIn ==
    ASSUME NEW b, NEW r, NEW n, NEW peer,
           RecordIn(b, r[n], n), r[n].natSessionId # 0, r[n].pairedWith = peer
    PROVE  DatagramIn(b, PeerReply(r, n, peer))
<1>0. PICK d : d = PeerReply(r, n, peer)
  OBVIOUS
<1>1. /\ d.type = "PEER" /\ d.node = n /\ d.peer = peer
      /\ d.session = r[n].natSessionId /\ d.attempt = r[n].natAttemptId
      /\ d.token = r[n].natPunchToken /\ d.role = RoleOf(r[n], n)
  BY <1>0 DEF PeerReply, Attempt, Datagram, Role, RoleOf
<1>2. Named(b, d.attempt, n, d.session, d.token, peer, d.role)
  BY <1>1 DEF RecordIn
<1>3. DatagramIn(b, d)
  BY <1>1, <1>2 DEF DatagramIn
<1> QED BY <1>0, <1>3

LEMMA NatAttemptIn ==
    ASSUME NEW b, NEW r, NEW n, RecordIn(b, r[n], n), r[n].natSessionId # 0
    PROVE  DatagramIn(b, SendNatAttempt(r, n))
<1>0. PICK d : d = SendNatAttempt(r, n)
  OBVIOUS
<1>1. /\ d.type = "NAT_ATTEMPT"
      /\ d.session = r[n].natSessionId /\ d.attempt = r[n].natAttemptId
      /\ d.token = r[n].natPunchToken
  BY <1>0 DEF SendNatAttempt, Attempt, Datagram
<1>2. DatagramIn(b, d)
  BY <1>1 DEF DatagramIn, RecordIn, Named
<1> QED BY <1>0, <1>2

LEMMA PeerInfoIn ==
    ASSUME NEW b, NEW r, NEW n, NEW peer \in Nodes, RecordIn(b, r[peer], peer),
           r[peer].natSessionId # 0, r[peer].natAttemptId = r[n].natAttemptId,
           r[peer].report # NoReport
    PROVE  DatagramIn(b, SendNatPeerInfo(r, n, peer))
<1>0. PICK d : d = SendNatPeerInfo(r, n, peer)
  OBVIOUS
<1>1. /\ d.type = "NAT_PEER_INFO" /\ d.peer = peer
      /\ d.attempt = r[n].natAttemptId /\ d.report = r[peer].report
  BY <1>0 DEF SendNatPeerInfo, Attempt, Datagram
<1>2. Filed(b, peer, d.attempt, d.report)
  BY <1>1 DEF RecordIn
<1>3. DatagramIn(b, d)
  BY <1>1, <1>2 DEF DatagramIn
<1> QED BY <1>0, <1>3


\* The clients and the network around a turn of the server.
Around ==
    /\ inbox' \subseteq inbox \cup replies'
    /\ UNCHANGED <<client, requests, history>>

LEMMA PlainLedger ==
    ASSUME LInv, IInv', NEW n \in Nodes, NEW source \in Sockets, Around,
           \/ RefuseRoomFull(Live, n, source)
           \/ Unreg(Live, n, source)
           \/ \E capabilities \in Capabilities :
                \/ Reg(Live, n, source, capabilities)
                \/ \E target \in Nodes :
                    \/ ConnectNotFound(Live, n, source, capabilities, target)
                    \/ ConnectRefused(Live, n, source, capabilities, target)
    PROVE  LInv'
<1>1. PICK b : Ledger(b)
  BY DEF LInv
<1>2. AnyRequest(Live, n, source) /\ IInv
  BY DEF AnyRequest, LInv
<1>3. Quiet
  BY <1>2, RequestTurn
<1>4. UNCHANGED nextNatAttemptId
  BY DEF RefuseRoomFull, Unreg, Reg, ConnectNotFound, ConnectRefused
<1>5. \/ replies' = {} \/ replies' = {Datagram("REGISTERED", n, source)}
      \/ replies' = Refused(n, source) \/ replies' = NotFound(n, source)
  BY DEF RefuseRoomFull, Unreg, Reg, ConnectNotFound, ConnectRefused, Turn
<1>6. \A d \in replies' : d.type \in {"REGISTERED", "ERROR", "PEER_NOT_FOUND"}
  BY <1>5, DatagramType, RefusedTypes
<1>7. \A d \in replies' : DatagramIn(b, d)
  BY <1>6, PlainDatagram
<1> QED BY <1>1, <1>3, <1>4, <1>7, QuietLedger DEF Around

\* A repeated CONNECT hands each side what its own record holds.
LEMMA ConnectAgainLedger ==
    ASSUME LInv, IInv', NEW n \in Nodes, NEW source \in Sockets, Around,
           NEW capabilities \in Capabilities, NEW target \in Nodes,
           ConnectAgain(Live, n, source, capabilities, target)
    PROVE  LInv'
<1>1. PICK b : Ledger(b)
  BY DEF LInv
<1> DEFINE r == Caller(Live, n, source, capabilities)
<1>2. /\ ~RoomFull(Live, n) /\ AlreadyPaired(r, n, target)
      /\ replies' = {PeerReply(r, n, target), PeerReply(r, target, n)}
      /\ UNCHANGED nextNatAttemptId
  BY DEF ConnectAgain, Turn
<1>3. IInv /\ AnyRequest(Live, n, source)
  BY DEF LInv, AnyRequest
<1>4. Quiet
  BY <1>3, RequestTurn
<1>5. RoomOK(r, nextNatAttemptId) /\ Loosens(room, r)
  <2>1. /\ RoomOK(Live, nextNatAttemptId) /\ nextNatAttemptId \in Nat \ {0}
        /\ Loosens(room, Live)
    BY <1>3, LiveRoom
  <2>2. RoomOK(r, nextNatAttemptId) /\ Loosens(Live, r)
    BY <2>1, CallerOK, LooseCaller
  <2> QED BY <2>1, <2>2, LooseTransitive
<1> HIDE DEF r
<1>6. /\ r[n].pairedWith = target /\ r[target].pairedWith = n
      /\ r[n].natSessionId # 0 /\ r[target].natSessionId # 0
  BY <1>2, <1>5 DEF AlreadyPaired, RoomOK, SessionsOK, SessionRecord
<1>7. RecordIn(b, r[n], n) /\ RecordIn(b, r[target], target)
  BY <1>1, <1>5, LiveLedger
<1>8. DatagramIn(b, PeerReply(r, n, target)) /\ DatagramIn(b, PeerReply(r, target, n))
  BY <1>6, <1>7, PeerReplyIn
<1> QED BY <1>1, <1>2, <1>4, <1>8, QuietLedger DEF Around

\* The ledger g is b with a new entry, under the number that was drawn.
Entered(b, g, session, caller, callee) ==
    /\ g.next = nextNatAttemptId' /\ g.ready = b.ready
    /\ g.asked = b.asked /\ g.at = b.at
    /\ \A k \in Issues(b) : g.entry[k] = b.entry[k]
    /\ g.entry[nextNatAttemptId].session = session
    /\ g.entry[nextNatAttemptId].caller = caller
    /\ g.entry[nextNatAttemptId].callee = callee
    /\ Issues(g) = Issues(b) \cup {nextNatAttemptId}
    /\ nextNatAttemptId \notin Issues(b) /\ nextNatAttemptId \in Nat \ {0}
    /\ \A k \in Issues(b) : k \in Nat \ {0} /\ k < nextNatAttemptId
    /\ Grown(b, g)

LEMMA NewEntry ==
    ASSUME LInv, NEW b, Ledger(b), NEW session, NEW caller, NEW callee,
           nextNatAttemptId' = nextNatAttemptId + 1
    PROVE  \E g : Entered(b, g, session, caller, callee)
<1> DEFINE new == [session |-> session, caller |-> caller, callee |-> callee]
           entry == [k \in Nat |-> IF k = nextNatAttemptId THEN new ELSE b.entry[k]]
<1>1. b.next = nextNatAttemptId /\ nextNatAttemptId \in Nat \ {0}
  BY DEF Ledger, Matches, LInv, IInv
<1>2. \A k \in Issues(b) : k \in Nat \ {0} /\ k < nextNatAttemptId
  BY <1>1 DEF Issues
<1>3. /\ \A k \in Issues(b) : entry[k] = b.entry[k]
      /\ entry[nextNatAttemptId].session = session
      /\ entry[nextNatAttemptId].caller = caller
      /\ entry[nextNatAttemptId].callee = callee
  BY <1>1, <1>2
<1> HIDE DEF entry
<1>4. PICK g : /\ g.next = nextNatAttemptId' /\ g.entry = entry /\ g.report = b.report
               /\ g.at = b.at /\ g.ready = b.ready /\ g.asked = b.asked
  <2> WITNESS [next |-> nextNatAttemptId', entry |-> entry, report |-> b.report,
               at |-> b.at, ready |-> b.ready, asked |-> b.asked]
  <2> QED OBVIOUS
<1>5. Issues(g) = Issues(b) \cup {nextNatAttemptId} /\ nextNatAttemptId \notin Issues(b)
  BY <1>1, <1>4 DEF Issues
<1>6. Grown(b, b)
  BY GrownSelf
<1>7. Grown(b, g)
  BY <1>1, <1>3, <1>4, <1>6 DEF Grown
<1> QED BY <1>1, <1>2, <1>3, <1>4, <1>5, <1>7 DEF Entered

\* CONNECT opens a session: a new entry names the two, and nobody else's
\* session is the new one.
LEMMA ConnectPairLedger ==
    ASSUME LInv, IInv', NEW n \in Nodes, NEW source \in Sockets, Around,
           NEW capabilities \in Capabilities, NEW target \in Nodes,
           ConnectPair(Live, n, source, capabilities, target)
    PROVE  LInv'
<1> DEFINE next == nextNatAttemptId
<1>0. PICK b : Ledger(b)
  BY DEF LInv
<1>1. PICK s \in [Nodes -> Client] :
        /\ target # n /\ NewCouple(s, n, target)
        /\ Loosens(s, room')
        /\ replies' = {PeerReply(s, n, target), PeerReply(s, target, n)}
        /\ nextNatAttemptId' = nextNatAttemptId + 1
  BY ConnectPairRoom DEF LInv
<1>10. PICK g : Entered(b, g, next, n, target)
  BY <1>0, <1>1, NewEntry
<1>2. /\ g.next = nextNatAttemptId' /\ g.ready = b.ready
      /\ g.asked = b.asked /\ g.at = b.at
      /\ \A k \in Issues(b) : g.entry[k] = b.entry[k]
      /\ g.entry[next].session = next
      /\ g.entry[next].caller = n /\ g.entry[next].callee = target
      /\ Issues(g) = Issues(b) \cup {next}
      /\ next \notin Issues(b) /\ next \in Nat \ {0}
      /\ \A k \in Issues(b) : k \in Nat \ {0} /\ k < next
      /\ Grown(b, g)
  BY <1>10 DEF Entered
<1>3. Entries(b) /\ Sequel(b)
  BY <1>0 DEF Ledger
<1>4. Entries(g)
  <2> SUFFICES ASSUME NEW k \in Issues(g)
               PROVE  /\ g.entry[k].caller \in Nodes
                      /\ g.entry[k].callee \in Nodes \ {g.entry[k].caller}
                      /\ g.entry[k].session \in 1 .. k
    BY DEF Entries
  <2>1. CASE k \in Issues(b)
    BY <1>2, <1>3, <2>1 DEF Entries
  <2>2. CASE k = next
    BY <1>1, <1>2, <2>2
  <2> QED BY <1>2, <2>1, <2>2
<1>5. \A k \in Issues(b) : g.entry[k].session < next
  BY <1>2, <1>3 DEF Entries
<1>6. Sequel(g)
  <2> SUFFICES ASSUME NEW j \in Issues(g), NEW k \in Issues(g),
                      g.entry[j].session = g.entry[k].session
               PROVE  /\ g.entry[j].caller = g.entry[k].caller
                      /\ g.entry[j].callee = g.entry[k].callee
                      /\ j < k => {<<g.entry[k].caller, j>>, <<g.entry[k].callee, j>>}
                                    \subseteq g.asked
    BY DEF Sequel
  <2>1. CASE j \in Issues(b) /\ k \in Issues(b)
    BY <1>2, <1>3, <2>1 DEF Sequel
  <2>2. CASE j = next /\ k = next
    BY <1>2, <2>2
  <2> QED BY <1>2, <1>5, <2>1, <2>2
<1>7. ASSUME NEW m \in Nodes
      PROVE  RecordIn(g, s[m], m) /\ Latest(g, s[m])
  <2>1. CASE m \in {n, target}
    <3>1. /\ s[m].natSessionId = next /\ s[m].natAttemptId = next
          /\ s[m].natPunchToken = next /\ s[m].pairInitiator = n
          /\ s[m].report = NoReport /\ ~s[m].armed /\ ~s[m].natRetryRequested
      BY <1>1, <2>1 DEF NewCouple
    <3>2. s[m].pairedWith = IF m = n THEN target ELSE n
      BY <1>1, <2>1 DEF NewCouple
    <3>3. Party(g.entry[next], m, s[m].pairedWith, RoleOf(s[m], m))
      BY <1>1, <1>2, <2>1, <3>1, <3>2 DEF Party, RoleOf
    <3>4. Named(g, next, m, next, next, s[m].pairedWith, RoleOf(s[m], m))
      BY <1>2, <3>3 DEF Named
    <3>5. \A j \in Issues(g) : j <= next
      BY <1>2
    <3> QED BY <3>1, <3>4, <3>5 DEF RecordIn, Latest
  <2>2. CASE m \notin {n, target}
    <3>1. Keeps(room[m], s[m]) \/ s[m].natSessionId = 0
      BY <1>1, <2>2 DEF NewCouple
    <3>2. RecordIn(b, room[m], m) /\ Latest(b, room[m])
      BY <1>0 DEF Ledger
    <3>3. RecordIn(b, s[m], m) /\ Latest(b, s[m])
      BY <3>1, <3>2, LooseRecord
    <3>4. RecordIn(g, s[m], m)
      BY <1>2, <3>3, GrownRecord
    <3>5. s[m].natSessionId # next
      BY <1>2, <3>1, Records DEF Keeps, SameSession, SessionRecord, LInv
    <3>6. Latest(g, s[m])
      BY <1>2, <3>3, <3>5 DEF Latest
    <3> QED BY <3>4, <3>6
  <2> QED BY <2>1, <2>2
<1>8. \A m \in Nodes : RecordIn(g, room'[m], m) /\ Latest(g, room'[m])
  <2> TAKE m \in Nodes
  <2>1. Keeps(s[m], room'[m]) \/ room'[m].natSessionId = 0
    BY <1>1 DEF Loosens, WithoutSession
  <2> QED BY <1>7, <2>1, LooseRecord
<1>9. \A d \in replies' : DatagramIn(g, d)
  <2>1. /\ s[n].natSessionId # 0 /\ s[target].natSessionId # 0
        /\ s[n].pairedWith = target /\ s[target].pairedWith = n
    BY <1>1, <1>2 DEF NewCouple
  <2>2. DatagramIn(g, PeerReply(s, n, target)) /\ DatagramIn(g, PeerReply(s, target, n))
    BY <1>7, <2>1, PeerReplyIn
  <2> QED BY <1>1, <2>2
<1> QED BY <1>0, <1>2, <1>4, <1>6, <1>8, <1>9, ServeLedger DEF Around


\* The two records a NAT datagram is about.
LEMMA ValidRecords ==
    ASSUME LInv, NEW b, Ledger(b), NEW n \in Nodes, NEW source, NEW target \in Nodes \ {n},
           NEW session \in Nat \ {0}, NatValid(Live, n, source, target, session)
    PROVE  /\ Live[n] \in Client /\ Live[target] \in Client
           /\ Live[n].pairedWith = target /\ Live[target].pairedWith = n
           /\ Live[n].natSessionId = session /\ Live[target].natSessionId = session
           /\ Live[n].natAttemptId = Live[target].natAttemptId
           /\ \A m \in Nodes \ {n, target} : Live[m].natSessionId # session
           /\ \A m \in Nodes : RecordIn(b, Live[m], m) /\ Latest(b, Live[m])
<1>1. /\ RoomOK(Live, nextNatAttemptId) /\ nextNatAttemptId \in Nat \ {0}
      /\ Loosens(room, Live)
  BY LiveRoom DEF LInv
<1>2. /\ Live[n] \in Client /\ Live[target] \in Client
      /\ Couple(Live[n], Live[target], n, target, session)
      /\ \A m \in Nodes \ {n, target} : Live[m].natSessionId # session
  BY <1>1, ValidPair
<1>3. /\ Live[n].pairedWith = target /\ Live[target].pairedWith = n
      /\ Live[n].natSessionId = session /\ Live[target].natSessionId = session
  BY DEF NatValid, ValidateNatPair
<1>4. Live[n].natAttemptId = Live[target].natAttemptId
  BY <1>2 DEF Couple, Agree
<1>5. \A m \in Nodes : RecordIn(b, Live[m], m) /\ Latest(b, Live[m])
  BY <1>1, LiveLedger
<1> QED BY <1>2, <1>3, <1>4, <1>5

\* A record that holds its session as before, with what it asked for and what
\* it reported to agree.
LEMMA HeldRecord ==
    ASSUME NEW b, NEW n, NEW c, NEW d, RecordIn(b, c, n), Latest(b, c),
           SameHold(c, d), d.armed => c.armed,
           d.report = c.report \/ Filed(b, n, d.natAttemptId, d.report)
    PROVE  RecordIn(b, d, n) /\ Latest(b, d)
<1>1. RoleOf(d, n) = RoleOf(c, n)
  BY DEF SameHold, RoleOf
<1> QED BY <1>1 DEF SameHold, RecordIn, Latest

LEMMA NatInfoLedger ==
    ASSUME LInv, IInv', NEW b, Ledger(b), Around,
           NEW n \in Nodes, NEW source \in Sockets, NEW target \in Nodes \ {n},
           NEW session \in Nat \ {0}, NEW attempt, NEW report,
           Filed(b, n, attempt, report),
           NatInfo(Live, n, source, target, session, attempt, report)
    PROVE  LInv'
<1>0. report \in Reports /\ report # NoReport
  BY MarkersAssumption DEF Filed
<1>0a. IInv
  BY DEF LInv
<1>1. NatValid(Live, n, source, target, session) /\ Live[n].natAttemptId = attempt
      /\ UNCHANGED nextNatAttemptId
  BY DEF NatInfo, ValidateNatSession
<1>2. /\ Live[n].natAttemptId = Live[target].natAttemptId
      /\ Live[n].natSessionId = session /\ Live[target].natSessionId = session
      /\ \A m \in Nodes : RecordIn(b, Live[m], m) /\ Latest(b, Live[m])
  BY <1>1, ValidRecords
<1>3. /\ SameHold(Live[n], room'[n]) /\ room'[n].report = report
      /\ SameHold(Live[target], room'[target])
      /\ room'[target].report = Live[target].report
      /\ \A m \in {n, target} : room'[m].armed => Live[m].armed
      /\ \A m \in Nodes \ {n, target} : room'[m] = Live[m]
  BY <1>0, <1>0a, NatInfoRoom
<1>3a. replies' = IF room'[target].report = NoReport
                  THEN {Attempt("NAT_WAIT", room', n)}
                  ELSE {SendNatPeerInfo(room', n, target), SendNatPeerInfo(room', target, n)}
  BY <1>0, <1>0a, NatInfoRoom, ZenonT(40)
<1>4. \/ replies' = {Attempt("NAT_WAIT", room', n)}
      \/ /\ room'[target].report # NoReport
         /\ replies' = {SendNatPeerInfo(room', n, target), SendNatPeerInfo(room', target, n)}
  BY <1>3a
<1>5. /\ room'[n].natSessionId = session /\ room'[target].natSessionId = session
      /\ room'[n].natAttemptId = attempt /\ room'[target].natAttemptId = attempt
  BY <1>1, <1>2, <1>3 DEF SameHold
<1>6. RecordIn(b, room'[n], n) /\ Latest(b, room'[n])
  BY <1>2, <1>3, <1>5, HeldRecord
<1>7. RecordIn(b, room'[target], target) /\ Latest(b, room'[target])
  BY <1>2, <1>3, HeldRecord
<1>8. \A m \in Nodes : RecordIn(b, room'[m], m) /\ Latest(b, room'[m])
  BY <1>2, <1>3, <1>6, <1>7
<1>9. \A d \in replies' : DatagramIn(b, d)
  <2>1. CASE replies' = {Attempt("NAT_WAIT", room', n)}
    BY <2>1, AttemptType, PlainDatagram
  <2>2. CASE /\ room'[target].report # NoReport
             /\ replies' = {SendNatPeerInfo(room', n, target),
                            SendNatPeerInfo(room', target, n)}
    <3>1. DatagramIn(b, SendNatPeerInfo(room', n, target))
      BY <1>5, <1>7, <2>2, PeerInfoIn
    <3>2. DatagramIn(b, SendNatPeerInfo(room', target, n))
      BY <1>0, <1>3, <1>5, <1>6, PeerInfoIn
    <3> QED BY <2>2, <3>1, <3>2
  <2> QED BY <1>4, <2>1, <2>2
<1>10. Grown(b, b) /\ Entries(b) /\ Sequel(b) /\ b.next = nextNatAttemptId'
  BY <1>1, GrownSelf DEF Ledger, Matches
<1> QED BY <1>8, <1>9, <1>10, ServeLedger DEF Around

LEMMA NatArmedLedger ==
    ASSUME LInv, IInv', NEW b, Ledger(b), Around,
           NEW n \in Nodes, NEW source \in Sockets, NEW target \in Nodes \ {n},
           NEW session \in Nat \ {0}, NEW attempt,
           <<n, attempt>> \in b.ready,
           NatArmed(Live, n, source, target, session, attempt)
    PROVE  LInv'
<1>1. NatValid(Live, n, source, target, session) /\ Live[n].natAttemptId = attempt
      /\ UNCHANGED nextNatAttemptId
  BY DEF NatArmed, CanArm, ValidateNatSession
<1>2. /\ Live[n].natAttemptId = Live[target].natAttemptId
      /\ Live[n].natSessionId = session /\ Live[target].natSessionId = session
      /\ \A m \in Nodes : RecordIn(b, Live[m], m) /\ Latest(b, Live[m])
  BY <1>1, ValidRecords
<1>3. /\ SameHold(Live[n], room'[n]) /\ room'[n].report = Live[n].report
      /\ \A m \in Nodes \ {n} : room'[m] = Live[m]
  BY NatArmedRoom DEF LInv
<1>4. \/ replies' = {Attempt("NAT_ARMED_ACK", room', n)}
      \/ /\ Live[target].armed
         /\ replies' = {Attempt("NAT_START", room', n), Attempt("NAT_START", room', target)}
  BY NatArmedRoom DEF LInv
<1>5. /\ room'[n].natAttemptId = attempt /\ room'[target].natAttemptId = attempt
      /\ room'[n].natSessionId = session
  BY <1>1, <1>2, <1>3 DEF SameHold
<1>6. RecordIn(b, room'[n], n) /\ Latest(b, room'[n])
  <2>1. RoleOf(room'[n], n) = RoleOf(Live[n], n)
    BY <1>3 DEF SameHold, RoleOf
  <2>2. RecordIn(b, Live[n], n) /\ Latest(b, Live[n])
    BY <1>2
  <2> QED BY <1>3, <1>5, <2>1, <2>2 DEF SameHold, RecordIn, Latest
<1>7. \A m \in Nodes : RecordIn(b, room'[m], m) /\ Latest(b, room'[m])
  BY <1>2, <1>3, <1>6
<1>8. ASSUME Live[target].armed, NEW m \in {n, target}
      PROVE  DatagramIn(b, Attempt("NAT_START", room', m))
  <2>1. <<target, attempt>> \in b.ready
    <3>1. RecordIn(b, Live[target], target)
      BY <1>2
    <3> QED BY <1>1, <1>2, <1>8, <3>1 DEF RecordIn
  <2>2. PICK d : d = Attempt("NAT_START", room', m)
    OBVIOUS
  <2>3. d.type = "NAT_START" /\ d.node = m /\ d.attempt = attempt
    BY <1>5, <2>2, AttemptType
  <2>4. DatagramIn(b, d)
    BY <2>1, <2>3 DEF DatagramIn
  <2> QED BY <2>2, <2>4
<1>9. \A d \in replies' : DatagramIn(b, d)
  BY <1>4, <1>8, AttemptType, PlainDatagram
<1>10. Grown(b, b) /\ Entries(b) /\ Sequel(b) /\ b.next = nextNatAttemptId'
  BY <1>1, GrownSelf DEF Ledger, Matches
<1> QED BY <1>7, <1>9, <1>10, ServeLedger DEF Around

\* Refusals, and the answer to a retry of an attempt that is over.
LEMMA UnchangedLedger ==
    ASSUME LInv, IInv', NEW b, Ledger(b), Around,
           NEW n \in Nodes, NEW source \in Sockets, NEW target \in Nodes \ {n},
           NEW session \in Nat \ {0}, NEW attempt,
           \/ NatRetryStale(Live, n, source, target, session, attempt)
           \/ NatRefused(Live, n, source, target, session, attempt)
    PROVE  LInv'
<1>0. IInv
  BY DEF LInv
<1>1. Live \in [Nodes -> Client] /\ Loosens(Live, Live) /\ Calm(Live, Live, n)
  BY <1>0, LiveRoom, SameCalm DEF Loosens, Keeps, SameSession
<1>2. CASE NatRetryStale(Live, n, source, target, session, attempt)
  <2>1. /\ Turn(n, Live, {SendNatAttempt(Live, n)}) /\ UNCHANGED nextNatAttemptId
        /\ NatValid(Live, n, source, target, session)
    BY <1>2 DEF NatRetryStale
  <2>2. \A d \in {SendNatAttempt(Live, n)} : d.type # "NAT_START"
    BY ReplyTypes
  <2>3. Quiet /\ replies' = {SendNatAttempt(Live, n)}
    BY <1>0, <1>1, <2>1, <2>2, LooseTurn DEF Turn
  <2>4. RecordIn(b, Live[n], n) /\ Live[n].natSessionId # 0
    BY <2>1, ValidRecords
  <2>5. \A d \in replies' : DatagramIn(b, d)
    BY <2>3, <2>4, NatAttemptIn
  <2> QED BY <2>1, <2>3, <2>5, QuietLedger DEF Around
<1>3. CASE NatRefused(Live, n, source, target, session, attempt)
  <2>1. Turn(n, Live, Refused(n, source)) /\ UNCHANGED nextNatAttemptId
    BY <1>3 DEF NatRefused
  <2>2. Quiet /\ replies' = Refused(n, source)
    BY <1>0, <1>1, <2>1, RefusedTypes, LooseTurn DEF Turn
  <2>3. \A d \in replies' : DatagramIn(b, d)
    BY <2>2, RefusedTypes, PlainDatagram
  <2> QED BY <2>1, <2>2, <2>3, QuietLedger DEF Around
<1> QED BY <1>2, <1>3

LEMMA NatRetryWaitLedger ==
    ASSUME LInv, IInv', NEW b, Ledger(b), Around,
           NEW n \in Nodes, NEW source \in Sockets, NEW target \in Nodes \ {n},
           NEW session \in Nat \ {0}, NEW attempt,
           <<n, attempt>> \in b.asked,
           NatRetryWait(Live, n, source, target, session, attempt)
    PROVE  LInv'
<1>1. NatValid(Live, n, source, target, session) /\ Live[n].natAttemptId = attempt
      /\ UNCHANGED nextNatAttemptId
  BY DEF NatRetryWait, ValidateNatSession
<1>2. /\ Live[n] \in Client
      /\ \A m \in Nodes : RecordIn(b, Live[m], m) /\ Latest(b, Live[m])
  BY <1>1, ValidRecords
<1>3. /\ room'[n] = [Live[n] EXCEPT !.natRetryRequested = TRUE]
      /\ \A m \in Nodes \ {n} : room'[m] = Live[m]
      /\ \A d \in replies' : d.type \in {"ERROR", "NAT_RETRY_WAIT"}
  BY NatRetryWaitRoom DEF LInv
<1> DEFINE c == Live[n]
           d == room'[n]
<1>4. /\ d.pairedWith = c.pairedWith /\ d.pairInitiator = c.pairInitiator
      /\ d.natSessionId = c.natSessionId /\ d.natPunchToken = c.natPunchToken
      /\ d.natAttemptId = c.natAttemptId /\ d.report = c.report
      /\ d.armed => c.armed
  BY <1>2, <1>3 DEF Client
<1>5. RecordIn(b, c, n) /\ Latest(b, c) /\ c.natAttemptId = attempt
  BY <1>1, <1>2
<1> HIDE DEF c, d
<1>6. RecordIn(b, d, n) /\ Latest(b, d)
  <2>1. RoleOf(d, n) = RoleOf(c, n)
    BY <1>4 DEF RoleOf
  <2> QED BY <1>4, <1>5, <2>1 DEF RecordIn, Latest
<1>7. \A m \in Nodes : RecordIn(b, room'[m], m) /\ Latest(b, room'[m])
  BY <1>2, <1>3, <1>6 DEF d
<1>8. \A e \in replies' : DatagramIn(b, e)
  BY <1>3, PlainDatagram
<1>9. Grown(b, b) /\ Entries(b) /\ Sequel(b) /\ b.next = nextNatAttemptId'
  BY <1>1, GrownSelf DEF Ledger, Matches
<1> QED BY <1>7, <1>8, <1>9, ServeLedger DEF Around

\* The last of the two to ask opens the next attempt: a new entry of the same
\* session and the same two, who have asked for the one before it to end.
LEMMA NatRetryOpenLedger ==
    ASSUME LInv, IInv', NEW b, Ledger(b), Around,
           NEW n \in Nodes, NEW source \in Sockets, NEW target \in Nodes \ {n},
           NEW session \in Nat \ {0}, NEW attempt,
           <<n, attempt>> \in b.asked,
           NatRetryOpen(Live, n, source, target, session, attempt)
    PROVE  LInv'
<1> DEFINE next == nextNatAttemptId
           c == Live[n]
           d == Live[target]
<1>1. /\ NatValid(Live, n, source, target, session) /\ c.natAttemptId = attempt
      /\ d.natRetryRequested /\ nextNatAttemptId' = next + 1
  BY DEF NatRetryOpen, ValidateNatSession
<1>2. /\ c \in Client /\ d \in Client
      /\ c.pairedWith = target /\ d.pairedWith = n
      /\ c.natSessionId = session /\ d.natSessionId = session
      /\ c.natAttemptId = d.natAttemptId
      /\ \A m \in Nodes \ {n, target} : Live[m].natSessionId # session
      /\ \A m \in Nodes : RecordIn(b, Live[m], m) /\ Latest(b, Live[m])
  BY <1>1, ValidRecords
<1>3. /\ room'[n] = NextAttempt(c, next) /\ room'[target] = NextAttempt(d, next)
      /\ \A m \in Nodes \ {n, target} : room'[m] = Live[m]
      /\ replies' = {SendNatAttempt(room', n), SendNatAttempt(room', target)}
  BY NatRetryOpenRoom DEF LInv
<1>4. RecordIn(b, c, n) /\ Latest(b, c) /\ RecordIn(b, d, target)
  BY <1>2
<1> HIDE DEF c, d
<1>5. /\ Named(b, attempt, n, session, c.natPunchToken, target, RoleOf(c, n))
      /\ Named(b, attempt, target, session, d.natPunchToken, n, RoleOf(d, target))
      /\ <<target, attempt>> \in b.asked
      /\ \A j \in Issues(b) : b.entry[j].session = session => j <= attempt
  BY <1>1, <1>2, <1>4 DEF RecordIn, Latest
<1> DEFINE caller == b.entry[attempt].caller
           callee == b.entry[attempt].callee
<1>6. PICK g : Entered(b, g, session, caller, callee)
  BY <1>1, NewEntry
<1>7. /\ g.next = nextNatAttemptId' /\ g.ready = b.ready
      /\ g.asked = b.asked /\ g.at = b.at
      /\ \A k \in Issues(b) : g.entry[k] = b.entry[k]
      /\ g.entry[next].session = session
      /\ g.entry[next].caller = caller /\ g.entry[next].callee = callee
      /\ Issues(g) = Issues(b) \cup {next}
      /\ next \notin Issues(b) /\ next \in Nat \ {0}
      /\ \A k \in Issues(b) : k \in Nat \ {0} /\ k < next
      /\ Grown(b, g)
  BY <1>6 DEF Entered
<1>8. Entries(b) /\ Sequel(b)
  BY DEF Ledger
<1>9. attempt \in Issues(b) /\ b.entry[attempt].session = session
      /\ Party(b.entry[attempt], n, target, RoleOf(c, n))
      /\ Party(b.entry[attempt], target, n, RoleOf(d, target))
  BY <1>5 DEF Named
<1>10. {<<caller, attempt>>, <<callee, attempt>>} \subseteq b.asked
  BY <1>5, <1>9 DEF Party
<1>11. /\ caller \in Nodes /\ callee \in Nodes \ {caller}
       /\ session \in 1 .. attempt /\ attempt \in Nat /\ attempt < next
  BY <1>7, <1>8, <1>9 DEF Entries
<1> HIDE DEF caller, callee
<1>12. Entries(g)
  <2> SUFFICES ASSUME NEW k \in Issues(g)
               PROVE  /\ g.entry[k].caller \in Nodes
                      /\ g.entry[k].callee \in Nodes \ {g.entry[k].caller}
                      /\ g.entry[k].session \in 1 .. k
    BY DEF Entries
  <2>1. CASE k \in Issues(b)
    BY <1>7, <1>8, <2>1 DEF Entries
  <2>2. CASE k = next
    BY <1>7, <1>11, <2>2
  <2> QED BY <1>7, <2>1, <2>2
\* An earlier attempt of the session is of the same two, who asked for it to end.
<1>13. ASSUME NEW j \in Issues(b), b.entry[j].session = session
       PROVE  /\ b.entry[j].caller = caller /\ b.entry[j].callee = callee
              /\ {<<caller, j>>, <<callee, j>>} \subseteq b.asked
  <2>1. /\ b.entry[j].caller = caller /\ b.entry[j].callee = callee
        /\ j < attempt => {<<caller, j>>, <<callee, j>>} \subseteq b.asked
    BY <1>8, <1>9, <1>13 DEF Sequel, caller, callee
  <2>2. j = attempt \/ j < attempt
    BY <1>5, <1>7, <1>11, <1>13
  <2> QED BY <1>10, <2>1, <2>2
<1>14. Sequel(g)
  <2> SUFFICES ASSUME NEW j \in Issues(g), NEW k \in Issues(g),
                      g.entry[j].session = g.entry[k].session
               PROVE  /\ g.entry[j].caller = g.entry[k].caller
                      /\ g.entry[j].callee = g.entry[k].callee
                      /\ j < k => {<<g.entry[k].caller, j>>, <<g.entry[k].callee, j>>}
                                    \subseteq g.asked
    BY DEF Sequel
  <2>1. CASE j \in Issues(b) /\ k \in Issues(b)
    BY <1>7, <1>8, <2>1 DEF Sequel
  <2>2. CASE j = next /\ k = next
    BY <1>7, <2>2
  <2>3. CASE j \in Issues(b) /\ k = next
    BY <1>7, <1>13, <2>3
  <2>4. CASE j = next /\ k \in Issues(b)
    <3>1. k \in Nat /\ next \in Nat /\ k < next
      BY <1>7, <2>4
    <3>2. ~(j < k)
      BY <2>4, <3>1
    <3>3. b.entry[k].caller = caller /\ b.entry[k].callee = callee
      BY <1>7, <1>13, <2>4
    <3> QED BY <1>7, <2>4, <3>2, <3>3
  <2> QED BY <1>7, <2>1, <2>2, <2>3, <2>4
<1>15. /\ Named(g, next, n, session, next, target, RoleOf(c, n))
       /\ Named(g, next, target, session, next, n, RoleOf(d, target))
  BY <1>7, <1>9 DEF Named, Party, caller, callee
<1>16. ASSUME NEW m \in Nodes, NEW old \in Client, NEW new, new = NextAttempt(old, next),
              old.natSessionId = session,
              Named(g, next, m, session, next, old.pairedWith, RoleOf(old, m))
       PROVE  RecordIn(g, new, m) /\ Latest(g, new)
  <2>1. /\ new.natSessionId = session /\ new.natAttemptId = next
        /\ new.natPunchToken = next /\ new.pairedWith = old.pairedWith
        /\ new.pairInitiator = old.pairInitiator
        /\ new.report = NoReport /\ ~new.armed /\ ~new.natRetryRequested
    BY <1>16 DEF NextAttempt, Client
  <2>2. RoleOf(new, m) = RoleOf(old, m)
    BY <2>1 DEF RoleOf
  <2>3. \A j \in Issues(g) : j <= next
    BY <1>7
  <2> QED BY <1>16, <2>1, <2>2, <2>3 DEF RecordIn, Latest
<1>17. RecordIn(g, room'[n], n) /\ Latest(g, room'[n])
  BY <1>2, <1>3, <1>15, <1>16
<1>18. RecordIn(g, room'[target], target) /\ Latest(g, room'[target])
  BY <1>2, <1>3, <1>15, <1>16
<1>19. ASSUME NEW m \in Nodes \ {n, target}
       PROVE  RecordIn(g, room'[m], m) /\ Latest(g, room'[m])
  <2>1. RecordIn(b, room'[m], m) /\ Latest(b, room'[m]) /\ room'[m].natSessionId # session
    BY <1>2, <1>3
  <2>2. RecordIn(g, room'[m], m)
    BY <1>7, <2>1, GrownRecord
  <2> QED BY <1>7, <2>1, <2>2 DEF Latest
<1>20. \A m \in Nodes : RecordIn(g, room'[m], m) /\ Latest(g, room'[m])
  BY <1>17, <1>18, <1>19
<1>21. room'[n].natSessionId # 0 /\ room'[target].natSessionId # 0
  BY <1>2, <1>3 DEF NextAttempt, Client
<1>22. DatagramIn(g, SendNatAttempt(room', n)) /\ DatagramIn(g, SendNatAttempt(room', target))
  BY <1>17, <1>18, <1>21, NatAttemptIn
<1>23. \A e \in replies' : DatagramIn(g, e)
  BY <1>3, <1>22
<1> QED BY <1>7, <1>12, <1>14, <1>20, <1>23, ServeLedger DEF Around

\* REG, CONNECT and UNREG.
LEMMA ServePlain ==
    ASSUME LInv, NEW m, m.node \in Nodes, m.type = "CONNECT" => m.target \in Nodes,
           NEW source \in Sockets, Around,
           \/ ServeReg(Live, m, source)
           \/ ServeConnect(Live, m, source)
           \/ ServeUnreg(Live, m, source)
    PROVE  LInv'
<1> DEFINE n == m.node
<1>1. IInv /\ RoomOK(Live, nextNatAttemptId)
  BY LiveOK DEF LInv
<1>2. \/ RefuseRoomFull(Live, n, source)
      \/ Unreg(Live, n, source)
      \/ \E capabilities \in Capabilities :
            \/ Reg(Live, n, source, capabilities)
            \/ \E target \in Nodes :
                \/ ConnectNotFound(Live, n, source, capabilities, target)
                \/ ConnectRefused(Live, n, source, capabilities, target)
                \/ ConnectAgain(Live, n, source, capabilities, target)
                \/ ConnectPair(Live, n, source, capabilities, target)
  BY DEF ServeReg, ServeConnect, ServeUnreg
<1> HIDE DEF n
<1>3. n \in Nodes
  BY DEF n
<1>4. AnyRequest(Live, n, source)
  BY <1>2 DEF AnyRequest
<1>5. IInv'
  BY <1>1, <1>3, <1>4, RequestStep
<1> QED BY <1>2, <1>3, <1>5, PlainLedger, ConnectAgainLedger, ConnectPairLedger

\* NAT_INFO, NAT_ARMED and NAT_RETRY.
LEMMA ServeQuote ==
    ASSUME LInv, NEW b, Ledger(b), NEW m, RequestIn(b, m), NEW source \in Sockets, Around,
           \/ ServeInfo(Live, m, source)
           \/ ServeArmed(Live, m, source)
           \/ ServeRetry(Live, m, source)
    PROVE  LInv'
<1> DEFINE n == m.node
           target == m.target
           session == m.session
           attempt == m.attempt
<1>1. m.type \in {"NAT_INFO", "NAT_ARMED", "NAT_RETRY"}
  BY DEF ServeInfo, ServeArmed, ServeRetry
<1>2. n \in Nodes /\ target \in Nodes \ {n} /\ session \in Nat \ {0}
  BY <1>1 DEF RequestIn
<1>3. IInv /\ RoomOK(Live, nextNatAttemptId)
  BY LiveOK DEF LInv
<1>4. \/ /\ NatInfo(Live, n, source, target, session, attempt, m.report)
         /\ Filed(b, n, attempt, m.report)
      \/ /\ NatArmed(Live, n, source, target, session, attempt)
         /\ <<n, attempt>> \in b.ready
      \/ /\ \/ NatRetryWait(Live, n, source, target, session, attempt)
            \/ NatRetryOpen(Live, n, source, target, session, attempt)
         /\ <<n, attempt>> \in b.asked
      \/ NatRetryStale(Live, n, source, target, session, attempt)
      \/ NatRefused(Live, n, source, target, session, attempt)
  BY DEF ServeInfo, ServeArmed, ServeRetry, Refuse, RequestIn
<1> HIDE DEF n, target, session, attempt
<1>5. AnyQuote(Live, n, source, target, session, attempt)
  BY <1>4 DEF AnyQuote, Filed
<1>6. IInv'
  BY <1>2, <1>3, <1>5, QuoteStep
<1>7. CASE /\ NatInfo(Live, n, source, target, session, attempt, m.report)
           /\ Filed(b, n, attempt, m.report)
  BY <1>2, <1>6, <1>7, NatInfoLedger
<1>8. CASE /\ NatArmed(Live, n, source, target, session, attempt)
           /\ <<n, attempt>> \in b.ready
  BY <1>2, <1>6, <1>8, NatArmedLedger
<1>9. CASE /\ \/ NatRetryWait(Live, n, source, target, session, attempt)
              \/ NatRetryOpen(Live, n, source, target, session, attempt)
           /\ <<n, attempt>> \in b.asked
  BY <1>2, <1>6, <1>9, NatRetryWaitLedger, NatRetryOpenLedger
<1>10. CASE \/ NatRetryStale(Live, n, source, target, session, attempt)
            \/ NatRefused(Live, n, source, target, session, attempt)
  BY <1>2, <1>6, <1>10, UnchangedLedger
<1> QED BY <1>4, <1>7, <1>8, <1>9, <1>10

LEMMA HandleLedger ==
    ASSUME LInv, NEW m \in requests, Handle(m), Around
    PROVE  LInv'
<1>1. PICK b : Ledger(b)
  BY DEF LInv
<1>2. RequestIn(b, m)
  BY <1>1 DEF Ledger
<1>3. m.node \in Nodes /\ (m.type = "CONNECT" => m.target \in Nodes)
  BY <1>2 DEF RequestIn
<1>4. PICK source \in Sockets :
        \/ ServeReg(Live, m, source)
        \/ ServeConnect(Live, m, source)
        \/ ServeUnreg(Live, m, source)
        \/ ServeInfo(Live, m, source)
        \/ ServeArmed(Live, m, source)
        \/ ServeRetry(Live, m, source)
  BY DEF Handle
<1> QED BY <1>1, <1>2, <1>3, <1>4, ServePlain, ServeQuote

LEMMA ServeStep ==
    ASSUME LInv, NEW m \in requests, Serve(m)
    PROVE  LInv'
<1>1. Handle(m) /\ Around
  BY DEF Serve, Deliver, Around
<1> QED BY <1>1, HandleLedger

LEMMA AloneLedger ==
    ASSUME LInv, ServerAlone
    PROVE  LInv'
<1>0. UNCHANGED <<client, network, history>> /\ IInv
  BY DEF ServerAlone, LInv
<1>1. PICK b : Ledger(b)
  BY DEF LInv
<1>2. CASE Tick
  <2>1. Turn(NoNode, Live, {}) /\ UNCHANGED <<nextNatAttemptId, relay>>
    BY <1>2 DEF Tick
  <2>2. Live \in [Nodes -> Client] /\ RoomOK(Live, nextNatAttemptId)
    BY <1>0, LiveRoom
  <2>3. Loosens(Live, Live) /\ Calm(Live, Live, NoNode)
    BY SameCalm DEF Loosens, Keeps, SameSession
  <2>4. Quiet /\ replies' = {}
    BY <1>0, <2>1, <2>2, <2>3, LooseTurn DEF Turn
  <2>5. IInv'
    BY <1>0, <2>1, <2>2, HandledOK DEF IInv
  <2> QED BY <1>0, <1>1, <2>1, <2>4, <2>5, QuietLedger DEF network
<1>3. CASE \E n \in Nodes : Age(n)
  <2>1. UNCHANGED <<room, nextNatAttemptId, relay, replies, handled>>
        /\ \E n \in Nodes : room[n].registered /\ stale' = stale \cup {n}
    BY <1>3 DEF Age
  <2>2. IInv'
    BY <1>0, <2>1 DEF IInv, Registered, PartnerPresent
  <2>3. Ledger(b)'
    BY <1>0, <1>1, <2>1 DEF Ledger, Matches, network, history
  <2> QED BY <1>0, <2>2, <2>3 DEF LInv
<1> QED BY <1>2, <1>3 DEF ServerAlone

LEMMA NextLedger ==
    ASSUME LInv, [SessionNext]_sessionVars
    PROVE  LInv'
<1>1. CASE UNCHANGED sessionVars
  <2>1. PICK b : Ledger(b)
    BY DEF LInv
  <2>2. UNCHANGED <<registry, client, network, history>>
    BY <1>1 DEF sessionVars
  <2>3. IInv'
    BY <2>2 DEF LInv, IInv, registry, Registered, PartnerPresent
  <2>4. Ledger(b)'
    BY <2>1, <2>2 DEF Ledger, Matches, registry, network, history
  <2> QED BY <2>2, <2>3, <2>4 DEF LInv
<1> QED BY <1>1, ClientStepLedger, ServeStep, AloneLedger DEF SessionNext

LEMMA PatientLedger ==
    ASSUME LInv, [PatientNext]_sessionVars
    PROVE  LInv'
<1>1. CASE UNCHANGED sessionVars
  BY <1>1, NextLedger
<1>2. ASSUME NEW n \in Nodes, PatientTimeout(n)
      PROVE  LInv'
  <2>1. AskAgain(n) /\ requests' \subseteq requests
    BY <1>2 DEF PatientTimeout
  <2> QED BY <2>1, AskAgainLedger
<1>3. ASSUME NEW m \in requests, LossyServe(m)
      PROVE  LInv'
  <2>1. Handle(m) /\ Around
    BY <1>3 DEF LossyServe, Deliver, Around
  <2> QED BY <2>1, HandleLedger
<1> QED BY <1>1, <1>2, <1>3, TakeLedger, SendProbeLedger, SendRequestLedger DEF PatientNext

LEMMA InitLedger == SessionInit => LInv
<1> SUFFICES ASSUME SessionInit PROVE LInv
  OBVIOUS
<1>1. IInv
  BY InitIInv DEF SessionInit
<1>2. Selecting \in Session /\ Selecting.phase = "select" /\ Selecting.attempt = 0
  BY DEF Selecting, Session, Phases
<1>3. /\ client \in [Nodes -> Session]
      /\ \A n \in Nodes : client[n].phase = "select" /\ client[n].attempt = 0
  BY <1>2 DEF SessionInit
<1>4. PICK b : /\ b.next = 1 /\ b.ready = {} /\ b.asked = {}
               /\ b.at = [n \in Nodes |-> 0]
  <2> WITNESS [next |-> 1, ready |-> {}, asked |-> {}, at |-> [n \in Nodes |-> 0]]
  <2> QED OBVIOUS
<1>5. Matches(b)
  BY <1>3, <1>4 DEF SessionInit, Init, Matches
<1>6. Issues(b) = {}
  BY <1>4 DEF Issues
<1>7. Entries(b) /\ Sequel(b)
  BY <1>6 DEF Entries, Sequel
<1>8. \A n \in Nodes : RecordIn(b, room[n], n) /\ Latest(b, room[n])
  BY DEF SessionInit, Init, NoClient, RecordIn, Latest
<1>9. \A n \in Nodes : ClientIn(b, client[n], n)
  BY <1>3 DEF ClientIn, AtWork
<1>10. Ledger(b)
  BY <1>5, <1>7, <1>8, <1>9 DEF Ledger, SessionInit
<1> QED BY <1>1, <1>3, <1>10 DEF LInv

\* There is always a ledger of attempts and reports with which the registry, the
\* clients and every datagram under way agree.
THEOREM LedgerKept == SessionSpec => []LInv
BY InitLedger, NextLedger, PTL DEF SessionSpec

-----------------------------------------------------------------------------
(* What follows from one ledger. *)

\* Two clients at work on one attempt are the two of its entry.
LEMMA TwoOfEntry ==
    ASSUME LInv, NEW a \in Nodes, NEW b \in Nodes, a # b,
           client[a].phase \in AtWork, client[b].phase \in AtWork,
           client[a].attempt = client[b].attempt
    PROVE  /\ client[a].session = client[b].session
           /\ client[a].token = client[b].token
           /\ {client[a].role, client[b].role} = {"initiator", "responder"}
           /\ client[a].peer = b /\ client[b].peer = a
<1> DEFINE c == client[a]
           d == client[b]
<1>1. PICK l : Ledger(l)
  BY DEF LInv
<1>2. /\ Named(l, c.attempt, a, c.session, c.token, c.peer, c.role)
      /\ Named(l, d.attempt, b, d.session, d.token, d.peer, d.role)
  BY <1>1, WorkingClient
<1>3. c.attempt = d.attempt
  OBVIOUS
<1> HIDE DEF c, d
<1>4. c.session = d.session /\ c.token = d.token
  BY <1>2, <1>3 DEF Named
<1>5. \/ c.role = "initiator" /\ d.role = "responder" /\ c.peer = b /\ d.peer = a
      \/ c.role = "responder" /\ d.role = "initiator" /\ c.peer = b /\ d.peer = a
  BY <1>2, <1>3 DEF Named, Party
<1> QED BY <1>4, <1>5 DEF c, d

LEMMA LedgerSecrets == LInv => SecretsMatch
<1> SUFFICES ASSUME LInv, NEW a \in Nodes, NEW b \in Nodes, a # b,
                    Punching(a), Punching(b), client[a].attempt = client[b].attempt
             PROVE  /\ client[a].session = client[b].session
                    /\ client[a].token = client[b].token
                    /\ {client[a].role, client[b].role} = {"initiator", "responder"}
                    /\ client[a].peer = b /\ client[b].peer = a
  BY DEF SecretsMatch
<1>1. client[a].phase \in AtWork /\ client[b].phase \in AtWork
  BY DEF Punching, AtWork, Phases
<1> QED BY <1>1, TwoOfEntry

LEMMA LedgerPlans == LInv => PlansMatch
<1> SUFFICES ASSUME LInv, NEW a \in Nodes, NEW b \in Nodes, a # b,
                    client[a].phase = "punch", client[b].phase = "punch",
                    client[a].attempt = client[b].attempt
             PROVE  client[a].peerReport = client[b].report
  BY DEF PlansMatch
<1>1. client[a].phase \in AtWork /\ client[b].phase \in AtWork
  BY DEF AtWork, Phases
<1>2. PICK l : Ledger(l)
  BY DEF LInv
<1>3. client[a].peer = b
  BY <1>1, TwoOfEntry
<1>4. Filed(l, client[a].peer, client[a].attempt, client[a].peerReport)
  BY <1>2 DEF Ledger, ClientIn
<1>5. Filed(l, b, client[b].attempt, client[b].report)
  BY <1>1, <1>2 DEF Ledger, ClientIn
<1> QED BY <1>3, <1>4, <1>5 DEF Filed

\* SelectPeer and RequestNextNatPunchAttempt: however late a PEER, a NAT_ATTEMPT
\* or a repeated request arrives, two clients at work on one attempt hold one
\* session and one token, in opposite roles, and each other's name.
THEOREM SecretsAgree == SessionSpec => []SecretsMatch
BY LedgerSecrets, LedgerKept, PTL

\* PunchAdaptiveNat: the plan of a client that punches is made from the report
\* its peer made for this attempt, never from one of an attempt before.
THEOREM PlansAgree == SessionSpec => []PlansMatch
BY LedgerPlans, LedgerKept, PTL

\* The same on a network that loses replies and forgets the requests of an
\* attempt that is over: the behaviours MCNatPatient checks for progress.
THEOREM LossyAgrees == PatientSpec => [](SecretsMatch /\ PlansMatch)
<1>1. SessionInit => LInv
  BY InitLedger
<1>2. LInv /\ [PatientNext]_sessionVars => LInv'
  BY PatientLedger
<1>3. LInv => SecretsMatch /\ PlansMatch
  BY LedgerSecrets, LedgerPlans
<1> QED BY <1>1, <1>2, <1>3, PTL DEF PatientSpec

\* What Registry promises of its sessions, whatever datagrams come, holds while
\* it serves these clients: their requests are among those it is proved for.
THEOREM RegistryServes ==
    SessionSpec => [](SessionAgreement /\ ReusedPairAgrees /\ ArmedAfterBothReports)
<1>1. LInv => SessionAgreement /\ ReusedPairAgrees /\ ArmedAfterBothReports
  BY IInvSessionAgreement, IInvReusedPairAgrees, IInvArmedAfterBothReports DEF LInv
<1> QED BY <1>1, LedgerKept, PTL

-----------------------------------------------------------------------------
(* The clients implement AttemptBarrier: one step of the barrier, or none, for *)
(* each of theirs.                                                             *)
At == [n \in Nodes |-> client[n].attempt]

BarrierStep == Barrier!BarrierNext \/ UNCHANGED <<At, ready, punched, asked>>

LEMMA AtStays ==
    ASSUME client \in [Nodes -> Session], NEW n \in Nodes, NEW c,
           c.attempt = client[n].attempt, Continue(n, c)
    PROVE  At' = At
BY DEF Continue, At

LEMMA LeaveAt ==
    ASSUME LInv, NEW n \in Nodes, Continue(n, Left(client[n])), UNCHANGED history
    PROVE  BarrierStep
<1>1. client \in [Nodes -> Session] /\ client[n] \in Session
  BY DEF LInv
<1>2. Left(client[n]).attempt = client[n].attempt
  BY <1>1, LeftSession
<1> QED BY <1>1, <1>2, AtStays DEF BarrierStep, history

\* What StartAttempt does to the attempts the clients are in.
LEMMA StartAt ==
    ASSUME client \in [Nodes -> Session], NEW n \in Nodes, NEW c \in Session, StartAttempt(n, c)
    PROVE  At' = [At EXCEPT ![n] = c.attempt]
<1>1. PICK report \in Reports \ {c.report} :
        Continue(n, [c EXCEPT !.phase = "info", !.number = @ + 1,
                              !.report = report, !.peerReport = NoReport])
  BY DEF StartAttempt
<1>2. PICK d : d.attempt = c.attempt /\ client' = [client EXCEPT ![n] = d]
  BY <1>1, StartedSession DEF Continue
<1> QED BY <1>2 DEF At

LEMMA PeerEnters ==
    ASSUME LInv, NEW n \in Nodes, NEW m \in inbox, TakePeer(n, m)
    PROVE  Barrier!Enter(n)
<1>1. PICK b : Ledger(b)
  BY DEF LInv
<1> DEFINE c == [client[n] EXCEPT !.peer = m.peer, !.session = m.session,
                                  !.attempt = m.attempt, !.token = m.token,
                                  !.role = m.role]
<1>2. client[n].phase = "select" /\ StartAttempt(n, c) /\ UNCHANGED <<network, history>>
  BY DEF TakePeer, In
<1>3. Named(b, m.attempt, n, m.session, m.token, m.peer, m.role) /\ Entries(b) /\ b.next \in Nat
  BY <1>1 DEF TakePeer, Ledger, DatagramIn, Matches, LInv, IInv
<1>4. /\ client \in [Nodes -> Session] /\ client[n] \in Session /\ client[n].attempt = 0
  BY <1>1, <1>2 DEF LInv, Ledger, ClientIn
<1>5. m.attempt \in Nat \ {0} /\ m.token = m.attempt
  BY <1>3 DEF Named, Issues
<1>6. m.session \in Nat /\ m.peer \in Nodes /\ m.role \in {"initiator", "responder"}
  BY <1>3, <1>5 DEF Named, Entries, Party
<1>7. c \in Session /\ c.attempt = m.attempt
  BY <1>4, <1>5, <1>6 DEF Session
<1> HIDE DEF c
<1>8. At' = [At EXCEPT ![n] = m.attempt] /\ At[n] = 0
  BY <1>2, <1>4, <1>7, StartAt DEF At
<1>9. At'[n] = m.attempt
  BY <1>8 DEF At
<1> QED BY <1>2, <1>5, <1>8, <1>9 DEF Barrier!Enter, At, history

LEMMA PeerInfoArms ==
    ASSUME LInv, NEW n \in Nodes, NEW m \in inbox, TakePeerInfo(n, m)
    PROVE  Barrier!Arm(n)
<1> DEFINE c == [client[n] EXCEPT !.phase = "barrier", !.peerReport = m.report]
<1>1. /\ client[n].phase = "info" /\ Continue(n, c)
      /\ ready' = ready \cup {<<n, client[n].attempt>>} /\ UNCHANGED <<punched, asked>>
  BY DEF TakePeerInfo, In
<1>2. PICK b : Ledger(b)
  BY DEF LInv
<1>3. client[n].attempt \in Nat \ {0} /\ client[n] \in Session
  BY <1>1, <1>2, WorkingClient DEF AtWork, Phases
<1>4. c.attempt = client[n].attempt
  BY <1>3 DEF Session
<1> HIDE DEF c
<1>5. At' = At
  BY <1>1, <1>4, AtStays DEF LInv
<1> QED BY <1>1, <1>3, <1>5 DEF Barrier!Arm, At

LEMMA StartPasses ==
    ASSUME LInv, NEW n \in Nodes, NEW m \in inbox, TakeStart(n, m)
    PROVE  Barrier!Pass(n)
<1> DEFINE c == [client[n] EXCEPT !.phase = "punch"]
<1>1. /\ Continue(n, c) /\ m.node = n /\ m.type = "NAT_START" /\ m.attempt = client[n].attempt
      /\ punched' = punched \cup {<<n, client[n].attempt>>} /\ UNCHANGED <<ready, asked>>
  BY DEF TakeStart, MatchesSession
<1>2. PICK b : Ledger(b)
  BY DEF LInv
<1>3. /\ <<n, client[n].attempt>> \in ready
      /\ \E e \in Nodes \ {n} : <<e, client[n].attempt>> \in ready
  BY <1>1, <1>2 DEF Ledger, Matches, DatagramIn
<1>4. c.attempt = client[n].attempt
  BY DEF LInv, Session
<1> HIDE DEF c
<1>5. At' = At
  BY <1>1, <1>4, AtStays DEF LInv
<1> QED BY <1>1, <1>3, <1>5 DEF Barrier!Pass, Barrier!Both, At

LEMMA AskAgainAsks ==
    ASSUME LInv, NEW n \in Nodes, AskAgain(n)
    PROVE  Barrier!Ask(n)
<1> DEFINE c == [client[n] EXCEPT !.phase = "retry"]
<1>1. /\ client[n].phase \in {"info", "barrier", "punch"} /\ Continue(n, c)
      /\ asked' = asked \cup {<<n, client[n].attempt>>} /\ UNCHANGED <<ready, punched>>
  BY DEF AskAgain, Attempting
<1>2. PICK b : Ledger(b)
  BY DEF LInv
<1>3. client[n].attempt \in Nat \ {0} /\ client[n] \in Session
  BY <1>1, <1>2, WorkingClient DEF AtWork, Phases
<1>4. c.attempt = client[n].attempt
  BY <1>3 DEF Session
<1> HIDE DEF c
<1>5. At' = At
  BY <1>1, <1>4, AtStays DEF LInv
<1> QED BY <1>1, <1>3, <1>5 DEF Barrier!Ask, At

LEMMA AttemptAdvances ==
    ASSUME LInv, NEW n \in Nodes, NEW m \in inbox, TakeAttempt(n, m)
    PROVE  Barrier!Advance(n) \/ BarrierStep
<1> DEFINE o == client[n]
           c == [o EXCEPT !.attempt = m.attempt, !.token = m.token]
<1>1. o.phase = "retry" /\ m.type = "NAT_ATTEMPT" /\ UNCHANGED <<network, history>>
  BY DEF TakeAttempt, In
<1>2. CASE ~(m.session = o.session /\ m.attempt > o.attempt /\ m.role = o.role)
  BY <1>1, <1>2, LeaveAt DEF TakeAttempt
<1>3. CASE m.session = o.session /\ m.attempt > o.attempt /\ m.role = o.role
  <2>1. StartAttempt(n, c)
    BY <1>3 DEF TakeAttempt
  <2>2. PICK b : Ledger(b)
    BY DEF LInv
  <2>3. /\ o \in Session /\ o.attempt \in Nat \ {0}
        /\ Named(b, o.attempt, n, o.session, o.token, o.peer, o.role)
    BY <1>1, <2>2, WorkingClient DEF AtWork, Phases
  <2>4. /\ m.attempt \in Issues(b) /\ b.entry[m.attempt].session = m.session
        /\ m.token = m.attempt
    BY <1>1, <2>2 DEF Ledger, DatagramIn
  <2>5. /\ b.next \in Nat /\ Sequel(b) /\ Entries(b) /\ b.asked = asked
        /\ <<n, o.attempt>> \in asked
    BY <1>1, <2>2 DEF Ledger, Matches, LInv, IInv, ClientIn
  <2>6. m.attempt \in Nat
    BY <2>4, <2>5 DEF Issues
  <2>7. o.attempt < m.attempt
    BY <1>3, <2>3, <2>6
  <2> DEFINE e == b.entry[m.attempt]
  <2>8. /\ o.attempt \in Issues(b) /\ b.entry[o.attempt].session = o.session
        /\ Party(b.entry[o.attempt], n, o.peer, o.role)
    BY <2>3 DEF Named
  <2>9. /\ b.entry[o.attempt].caller = e.caller /\ b.entry[o.attempt].callee = e.callee
        /\ {<<e.caller, o.attempt>>, <<e.callee, o.attempt>>} \subseteq asked
    BY <1>3, <2>4, <2>5, <2>7, <2>8 DEF Sequel
  <2>10. e.caller \in Nodes /\ e.callee \in Nodes \ {e.caller} /\ n \in {e.caller, e.callee}
    BY <2>4, <2>5, <2>8, <2>9 DEF Entries, Party
  <2> HIDE DEF e
  <2>11. \E d \in Nodes \ {n} : <<d, o.attempt>> \in asked
    BY <2>9, <2>10
  <2>12. client \in [Nodes -> Session] /\ At[n] = o.attempt
    BY DEF LInv, At
  <2> HIDE DEF o
  <2>13. c \in Session /\ c.attempt = m.attempt
    BY <2>3, <2>4, <2>6 DEF Session
  <2> HIDE DEF c
  <2>14. At' = [At EXCEPT ![n] = m.attempt]
    BY <2>1, <2>12, <2>13, StartAt
  <2>15. At'[n] = m.attempt
    BY <2>14 DEF At
  <2>16. <<n, At[n]>> \in asked /\ \E d \in Nodes \ {n} : <<d, At[n]>> \in asked
    BY <2>5, <2>11, <2>12
  <2>17. At'[n] > At[n]
    BY <2>3, <2>6, <2>7, <2>12, <2>15
  <2> QED BY <1>1, <2>14, <2>15, <2>16, <2>17
          DEF Barrier!Advance, Barrier!Both, At, history
<1> QED BY <1>2, <1>3

LEMMA ClientBarrier ==
    ASSUME LInv, NEW n \in Nodes, ClientStep(n)
    PROVE  BarrierStep
<1>1. ASSUME NEW m \in inbox, Take(n, m)
      PROVE  BarrierStep
  <2>1. CASE TakeError(n, m)
    BY <2>1, LeaveAt DEF TakeError
  <2>2. Barrier!Enter(n) \/ Barrier!Arm(n) \/ Barrier!Pass(n) \/ Barrier!Advance(n) => BarrierStep
    BY DEF BarrierStep, Barrier!BarrierNext
  <2> QED BY <1>1, <2>1, <2>2, PeerEnters, PeerInfoArms, StartPasses, AttemptAdvances DEF Take
<1>2. CASE AttemptTimeout(n)
  <2>1. CASE AskAgain(n)
    BY <2>1, AskAgainAsks DEF BarrierStep, Barrier!BarrierNext
  <2> QED BY <1>2, <2>1, LeaveAt DEF AttemptTimeout
<1>3. CASE Leave(n)
  BY <1>3, LeaveAt DEF Leave
<1>4. CASE Succeed(n)
  <2>1. Continue(n, [client[n] EXCEPT !.phase = "tunnel"]) /\ UNCHANGED history
    BY <1>4 DEF Succeed
  <2>2. [client[n] EXCEPT !.phase = "tunnel"].attempt = client[n].attempt
    BY DEF LInv, Session
  <2>3. At' = At
    BY <2>1, <2>2, AtStays DEF LInv
  <2> QED BY <2>1, <2>3 DEF BarrierStep, history
<1>5. CASE SendProbe(n) \/ SendRequest(n) \/ SendUnreg(n)
  BY <1>5 DEF SendProbe, SendRequest, SendUnreg, BarrierStep, At, history
<1> QED BY <1>1, <1>2, <1>3, <1>4, <1>5 DEF ClientStep

\* Whatever is lost, repeated or late, nobody punches before both have armed
\* for the attempt, and nobody moves to a later attempt before both have asked:
\* the clients and the registry together implement AttemptBarrier.
THEOREM BarrierKept == SessionSpec => KeepsBarrier
<1>1. SessionInit => Barrier!BarrierInit
  BY DEF SessionInit, Selecting, Barrier!BarrierInit
<1>2. LInv /\ [SessionNext]_sessionVars => [Barrier!BarrierNext]_(Barrier!barrier)
  <2> SUFFICES ASSUME LInv, [SessionNext]_sessionVars
               PROVE  [Barrier!BarrierNext]_(Barrier!barrier)
    OBVIOUS
  <2>1. CASE \E n \in Nodes : ClientStep(n)
    BY <2>1, ClientBarrier DEF BarrierStep, Barrier!barrier, At
  <2>2. CASE \/ \E m \in requests : Serve(m)
             \/ ServerAlone \/ UNCHANGED sessionVars
    BY <2>2 DEF Serve, Deliver, ServerAlone, sessionVars, history, Barrier!barrier
  <2> QED BY <2>1, <2>2 DEF SessionNext
<1> QED BY <1>1, <1>2, LedgerKept, PTL
        DEF SessionSpec, KeepsBarrier, Barrier!BarrierSpec

===============================================================================

------------------------- MODULE Ipv6FallbackProofs -------------------------
(***************************************************************************)
(* Theorems about Ipv6Fallback, for every choice of intervals, number of   *)
(* lives and network.  The invariant says what a punch in flight tells of  *)
(* the side that sent it.  The one about the timers (AInv) says that of    *)
(* two ends that are there, one that has not heard from the other for an   *)
(* interval of its own has a keepalive, or the answer to one, on the way.  *)
(***************************************************************************)
EXTENDS Ipv6Fallback, TLAPS

Lives == Nat \ {0}

SideType == [phase : {"ready", "join", "leaving", "next", "nat", "refused", "tunnel", "off"},
             life : Lives, session : Nat, peer : Nat, connector : BOOLEAN]

RecordType == [life : Nat, socket : {"main", "v6", "none"}, paired : BOOLEAN,
               session : Nat, joined : Nat, known : BOOLEAN]

DatagramType == [type : {"V6_PUNCH", "V6_PUNCH_ACK", "KEEPALIVE", "KEEPALIVE_ACK", "PEER_CLOSE"},
                 to : Sides, from : Lives, life : Nat, session : Nat]

TypeOK ==
    /\ side \in [Sides -> SideType]
    /\ room \in [Sides -> RecordType]
    /\ net \subseteq DatagramType

\* Who holds an endpoint has been told of it.
EndpointsAimed ==
    \A s \in Sides : side[s].peer # 0 => <<s, side[s].life, side[s].peer>> \in aimed

\* A punch, and an answer to one, was sent by a process that had been told of
\* the endpoint it was sent to.
PunchesAimed ==
    \A m \in net :
        m.type \in {"V6_PUNCH", "V6_PUNCH_ACK"} => <<Peer(m.to), m.from, m.life>> \in aimed

IInv == TypeOK /\ EndpointsAimed /\ PunchesAimed /\ AimedAt

LEMMA PeerFacts ==
    \A s \in Sides : Peer(s) \in Sides /\ Peer(Peer(s)) = s /\ Peer(s) # s
BY DEF Sides, Peer

\* What is carried was on its way or has been posted.
LEMMA CarryFacts ==
    ASSUME NEW taken, NEW posted
    PROVE  Carry(taken, posted) \subseteq (net \cup posted)
BY DEF Carry

\* Every datagram is well formed.
LEMMA DatagramTyped ==
    ASSUME TypeOK, NEW s \in Sides,
           NEW type \in {"V6_PUNCH", "V6_PUNCH_ACK", "KEEPALIVE", "KEEPALIVE_ACK", "PEER_CLOSE"}
    PROVE  Datagram(type, s, Peer(s)) \in DatagramType
BY PeerFacts DEF TypeOK, Datagram, DatagramType, SideType

\* What a tunnel says of its own accord is no punch.
LEMMA GoodbyeAndAsk ==
    ASSUME IInv, NEW s \in Sides
    PROVE  /\ Goodbye(s) \cup Ask(s) \subseteq DatagramType
           /\ \A m \in Goodbye(s) : m.type = "PEER_CLOSE"
           /\ \A m \in Ask(s) : m.type = "KEEPALIVE"
<1>1. /\ Datagram("PEER_CLOSE", s, Peer(s)) \in DatagramType
      /\ Datagram("KEEPALIVE", s, Peer(s)) \in DatagramType
  BY DatagramTyped DEF IInv
<1>2. /\ Datagram("PEER_CLOSE", s, Peer(s)).type = "PEER_CLOSE"
      /\ Datagram("KEEPALIVE", s, Peer(s)).type = "KEEPALIVE"
  BY DEF Datagram
<1> QED  BY <1>1, <1>2 DEF Goodbye, Ask

LEMMA RoomTyped ==
    ASSUME TypeOK, NEW s \in Sides
    PROVE  /\ Erased(s) \in [Sides -> RecordType]
           /\ \A t \in Sides : ResetPairing(room[t]) \in RecordType
<1>1. Absent \in RecordType
  BY DEF Absent, RecordType
<1>2. \A t \in Sides : ResetPairing(room[t]) \in RecordType
  BY <1>1 DEF TypeOK, RecordType, ResetPairing
<1>3. Erased(s) \in [Sides -> RecordType]
  BY <1>1, <1>2, PeerFacts DEF Erased, TypeOK
<1> QED  BY <1>2, <1>3

\* A step that tells nobody of an endpoint, sends no punch of its own and takes
\* nobody into the tunnel.
LEMMA Quietly ==
    ASSUME IInv, TypeOK', aimed' = aimed,
           \A s \in Sides :
                \/ side'[s].peer = 0
                \/ side'[s].peer = side[s].peer /\ side'[s].life = side[s].life,
           \A s \in Sides : Tunnel(s)' => (Tunnel(s) /\ side'[s] = side[s]),
           \A m \in net' : m \in net \/ m.type \notin {"V6_PUNCH", "V6_PUNCH_ACK"}
    PROVE  IInv'
<1>1. EndpointsAimed'
  BY DEF IInv, EndpointsAimed
<1>2. PunchesAimed'
  BY DEF IInv, PunchesAimed
<1>3. AimedAt'
  BY DEF IInv, AimedAt, Tunnel
<1> QED  BY <1>1, <1>2, <1>3 DEF IInv

-----------------------------------------------------------------------------
(* One lemma per action, or per group of actions that do the same.          *)

LEMMA InitIInv == Init => IInv
<1> SUFFICES ASSUME Init PROVE IInv  OBVIOUS
<1>1. TypeOK
  BY DEF Init, TypeOK, Process, Record, SideType, RecordType, Lives
<1>2. \A s \in Sides : side[s].peer = 0 /\ ~Tunnel(s)
  BY DEF Init, Process, Tunnel
<1> QED
  BY <1>1, <1>2 DEF Init, IInv, EndpointsAimed, PunchesAimed, AimedAt

\* Another phase, other than the tunnel.
LEMMA PhaseStep ==
    ASSUME IInv, NEW s \in Sides,
           NEW phase \in {"ready", "join", "leaving", "next", "nat", "refused", "off"},
           Phase(s, phase),
           room' \in [Sides -> RecordType], net' \subseteq DatagramType, aimed' = aimed,
           \A m \in net' : m \in net \/ m.type \notin {"V6_PUNCH", "V6_PUNCH_ACK"}
    PROVE  IInv'
<1>1. TypeOK'
  BY DEF IInv, TypeOK, Phase, SideType
<1>2. \A t \in Sides : side'[t].peer = side[t].peer /\ side'[t].life = side[t].life
  BY DEF IInv, TypeOK, Phase, SideType
<1>3. \A t \in Sides : Tunnel(t)' => (Tunnel(t) /\ side'[t] = side[t])
  BY DEF IInv, TypeOK, Phase, SideType, Tunnel
<1> QED  BY <1>1, <1>2, <1>3, Quietly

\* Nothing but the net and the room, and no punch.
LEMMA SameSides ==
    ASSUME IInv, side' = side, aimed' = aimed,
           room' \in [Sides -> RecordType], net' \subseteq DatagramType,
           \A m \in net' : m \in net \/ m.type \notin {"V6_PUNCH", "V6_PUNCH_ACK"}
    PROVE  IInv'
<1>1. TypeOK'
  BY DEF IInv, TypeOK
<1> QED  BY <1>1, Quietly DEF Tunnel

LEMMA BeginStep == ASSUME IInv, NEW s \in Sides, Begin(s) PROVE IInv'
<1>1. Phase(s, "join") \/ Phase(s, "next")
  BY DEF Begin
<1> QED  BY <1>1, PhaseStep DEF Begin, IInv, TypeOK

LEMMA JoinStep == ASSUME IInv, NEW s \in Sides, Join(s) PROVE IInv'
<1> DEFINE records == [room EXCEPT ![s] = Joined(@, side[s].life)]
<1>1. records \in [Sides -> RecordType] /\ room' = records /\ net' = net
  BY DEF IInv, TypeOK, Joined, SideType, RecordType, Lives, Join
<1>2. CASE UNCHANGED <<side, aimed>>
  BY <1>1, <1>2, SameSides DEF IInv, TypeOK
<1>3. CASE \E hearers \in Hearers(Told(records)) :
              /\ side' = [one \in Sides |->
                    IF one \in hearers THEN [side[one] EXCEPT !.phase = "leaving"] ELSE side[one]]
              /\ aimed' = aimed
  <2> PICK hearers \in Hearers(Told(records)) :
         /\ side' = [one \in Sides |->
               IF one \in hearers THEN [side[one] EXCEPT !.phase = "leaving"] ELSE side[one]]
         /\ aimed' = aimed
    BY <1>3
  <2>1. TypeOK'
    BY <1>1 DEF IInv, TypeOK, SideType
  <2>2. \A t \in Sides : /\ side'[t].peer = side[t].peer /\ side'[t].life = side[t].life
                         /\ Tunnel(t)' => (Tunnel(t) /\ side'[t] = side[t])
    BY DEF IInv, TypeOK, SideType, Tunnel
  <2> QED  BY <1>1, <2>1, <2>2, Quietly
<1>4. CASE \E hearers \in Hearers(Told(records)) :
              /\ side' = [one \in Sides |->
                    IF one \in hearers
                    THEN [side[one] EXCEPT !.peer = records[Peer(one)].joined,
                              !.connector = IF one = s THEN ~Listens(s, Peer(s))
                                            ELSE Listens(s, Peer(s))]
                    ELSE side[one]]
              /\ aimed' = aimed \cup
                    {<<one, side[one].life, records[Peer(one)].joined>> : one \in hearers}
  <2> PICK hearers \in Hearers(Told(records)) :
         /\ side' = [one \in Sides |->
               IF one \in hearers
               THEN [side[one] EXCEPT !.peer = records[Peer(one)].joined,
                         !.connector = IF one = s THEN ~Listens(s, Peer(s))
                                       ELSE Listens(s, Peer(s))]
               ELSE side[one]]
         /\ aimed' = aimed \cup
               {<<one, side[one].life, records[Peer(one)].joined>> : one \in hearers}
    BY <1>4
  <2>0. \A one \in hearers : one \in Sides /\ side[one].phase = "join"
    BY DEF Hearers, Told
  <2>1. \A one \in Sides : records[Peer(one)].joined \in Nat
    BY <1>1, PeerFacts DEF RecordType
  <2>2. Listens(s, Peer(s)) \in BOOLEAN /\ (~Listens(s, Peer(s))) \in BOOLEAN
    BY DEF Listens
  <2> HIDE DEF records
  <2>3. \A one \in Sides :
            side'[one] = IF one \in hearers
                         THEN [side[one] EXCEPT !.peer = records[Peer(one)].joined,
                                   !.connector = IF one = s THEN ~Listens(s, Peer(s))
                                                 ELSE Listens(s, Peer(s))]
                         ELSE side[one]
    OBVIOUS
  <2>4. \A one \in Sides : side'[one] \in SideType
    BY <2>1, <2>2, <2>3, ZenonT(40) DEF IInv, TypeOK, SideType
  <2>5. TypeOK'
    BY <1>1, <2>4 DEF IInv, TypeOK
  <2>6. \A one \in Sides :
            /\ side'[one].life = side[one].life /\ side'[one].phase = side[one].phase
            /\ one \in hearers => side'[one].peer = records[Peer(one)].joined
            /\ one \notin hearers => side'[one] = side[one]
    BY <2>3 DEF IInv, TypeOK, SideType
  <2>7. EndpointsAimed'
    <3> SUFFICES ASSUME NEW one \in Sides, side'[one].peer # 0
                 PROVE  <<one, side'[one].life, side'[one].peer>> \in aimed'
      BY DEF EndpointsAimed
    <3>1. CASE one \in hearers
      <4>1. <<one, side[one].life, records[Peer(one)].joined>> \in aimed'
        BY <3>1
      <4> QED  BY <3>1, <4>1, <2>6
    <3>2. CASE one \notin hearers
      BY <3>2, <2>6 DEF IInv, EndpointsAimed
    <3> QED  BY <3>1, <3>2
  <2>8. PunchesAimed'
    BY <1>1 DEF IInv, PunchesAimed
  <2>9. AimedAt'
    BY <2>0, <2>6 DEF IInv, AimedAt, Tunnel
  <2> QED  BY <2>5, <2>7, <2>8, <2>9 DEF IInv
<1> QED  BY <1>2, <1>3, <1>4 DEF Join

LEMMA FailStep == ASSUME IInv, NEW s \in Sides, Fail(s) PROVE IInv'
<1>1. room' \in [Sides -> RecordType]
  BY RoomTyped DEF Fail, Unregister, IInv, TypeOK
<1> QED  BY <1>1, PhaseStep DEF Fail, IInv, TypeOK

LEMMA SendPunchStep == ASSUME IInv, NEW s \in Sides, SendPunch(s) PROVE IInv'
<1> DEFINE punch == Datagram("V6_PUNCH", s, Peer(s))
<1>1. net' \subseteq net \cup {punch}
  BY CarryFacts DEF SendPunch
<1>2. punch \in DatagramType
  BY DatagramTyped DEF IInv
<1>3. TypeOK'
  BY <1>1, <1>2 DEF SendPunch, IInv, TypeOK
<1>4. <<Peer(punch.to), punch.from, punch.life>> = <<s, side[s].life, side[s].peer>>
  BY PeerFacts DEF Datagram
<1>5. <<s, side[s].life, side[s].peer>> \in aimed
  BY DEF SendPunch, IInv, EndpointsAimed
<1>6. PunchesAimed'
  BY <1>1, <1>4, <1>5 DEF SendPunch, IInv, PunchesAimed
<1> QED
  BY <1>3, <1>6 DEF SendPunch, IInv, EndpointsAimed, AimedAt, Tunnel

LEMMA TakePunchStep == ASSUME IInv, NEW m \in net, TakePunch(m) PROVE IInv'
<1> DEFINE s == m.to
           ack == Datagram("V6_PUNCH_ACK", s, Peer(s))
<1>0. s \in Sides /\ m.from \in Lives /\ side[s].peer = m.from /\ side[s].life = m.life
      /\ Phase(s, "tunnel") /\ aimed' = aimed
  BY DEF IInv, TypeOK, DatagramType, TakePunch, FromPeer, Reaches
<1>1. net' \subseteq net \cup {ack}
  BY CarryFacts DEF TakePunch
<1>2. ack \in DatagramType
  BY <1>0, DatagramTyped DEF IInv
<1>3. room' \in [Sides -> RecordType]
  BY <1>0, RoomTyped DEF TakePunch, Unregister, IInv, TypeOK
<1>4. TypeOK'
  BY <1>0, <1>1, <1>2, <1>3 DEF IInv, TypeOK, Phase, SideType
<1>5. <<Peer(m.to), m.from, m.life>> \in aimed
  BY DEF TakePunch, IInv, PunchesAimed
<1>6. <<s, side[s].life, side[s].peer>> \in aimed
  BY <1>0 DEF IInv, EndpointsAimed, Lives
<1>7. <<Peer(ack.to), ack.from, ack.life>> = <<s, side[s].life, side[s].peer>>
  BY <1>0, PeerFacts DEF Datagram
<1>8. PunchesAimed'
  BY <1>0, <1>1, <1>6, <1>7 DEF IInv, PunchesAimed
<1>9. \A t \in Sides : /\ side'[t].peer = side[t].peer /\ side'[t].life = side[t].life
                       /\ t # s => side'[t] = side[t]
  BY <1>0 DEF IInv, TypeOK, Phase, SideType
<1>10. EndpointsAimed'
  BY <1>0, <1>9 DEF IInv, EndpointsAimed
<1>11. AimedAt'
  BY <1>0, <1>5, <1>9 DEF IInv, AimedAt, Tunnel
<1> QED  BY <1>4, <1>8, <1>10, <1>11 DEF IInv

LEMMA TakeControlStep == ASSUME IInv, NEW m \in net, TakeControl(m) PROVE IInv'
<1> DEFINE answer == Datagram("KEEPALIVE_ACK", m.to, Peer(m.to))
<1>0. m.to \in Sides
  BY DEF IInv, TypeOK, DatagramType
<1>1. net' \subseteq net \cup {answer}
  BY CarryFacts DEF TakeControl, Answers
<1>2. answer \in DatagramType /\ answer.type = "KEEPALIVE_ACK"
  BY <1>0, DatagramTyped DEF IInv, Datagram
<1>3. net' \subseteq DatagramType
  BY <1>1, <1>2 DEF IInv, TypeOK
<1>4. \A n \in net' : n \in net \/ n.type \notin {"V6_PUNCH", "V6_PUNCH_ACK"}
  BY <1>1, <1>2
<1>5. CASE Quit(m.to)
  BY <1>0, <1>3, <1>4, <1>5, PhaseStep DEF TakeControl, Quit, IInv, TypeOK
<1>6. CASE side' = side
  BY <1>3, <1>4, <1>6, SameSides DEF TakeControl, IInv, TypeOK
<1> QED  BY <1>5, <1>6 DEF TakeControl

LEMMA WakeStep == ASSUME IInv, NEW s \in Sides, Wake(s) PROVE IInv'
<1> DEFINE posted == Goodbye(s) \cup Ask(s)
<1>1. posted \subseteq DatagramType /\ \A m \in posted : m.type \in {"PEER_CLOSE", "KEEPALIVE"}
  BY GoodbyeAndAsk
<1>2. net' \subseteq net \cup posted
  BY CarryFacts DEF Wake
<1>3. /\ net' \subseteq DatagramType
      /\ \A m \in net' : m \in net \/ m.type \notin {"V6_PUNCH", "V6_PUNCH_ACK"}
  BY <1>1, <1>2 DEF IInv, TypeOK
<1>4. CASE Quit(s)
  BY <1>3, <1>4, PhaseStep DEF Wake, Quit, IInv, TypeOK
<1>5. CASE side' = side
  BY <1>3, <1>5, SameSides DEF Wake, IInv, TypeOK
<1> QED  BY <1>4, <1>5 DEF Wake

LEMMA StopStep == ASSUME IInv, NEW s \in Sides, Stop(s) PROVE IInv'
<1>1. Goodbye(s) \subseteq DatagramType /\ \A m \in Goodbye(s) : m.type = "PEER_CLOSE"
  BY GoodbyeAndAsk
<1>2. net' \subseteq net \cup Goodbye(s)
  BY CarryFacts DEF Stop
<1>3. /\ net' \subseteq DatagramType
      /\ \A m \in net' : m \in net \/ m.type \notin {"V6_PUNCH", "V6_PUNCH_ACK"}
  BY <1>1, <1>2 DEF IInv, TypeOK
<1> QED  BY <1>3, PhaseStep DEF Stop, Quit, IInv, TypeOK

LEMMA RestartStep == ASSUME IInv, NEW s \in Sides, Restart(s) PROVE IInv'
<1>1. SessionOf(s) \in Nat
  BY PeerFacts DEF IInv, TypeOK, SideType, RecordType, SessionOf, Lives
<1>2. side[s].life + 1 \in Lives
  BY DEF IInv, TypeOK, SideType, Lives
<1>3. Process(side[s].life + 1, SessionOf(s)) \in SideType
  BY <1>1, <1>2 DEF Process, SideType
<1>4. side' = [side EXCEPT ![s] = Process(side[s].life + 1, SessionOf(s))]
  BY DEF Restart
<1>5. PICK left \in JoinedLeft(s) :
        room' = [room EXCEPT ![s] = Record(side[s].life + 1, SessionOf(s), left),
                             ![Peer(s)] = Called(s)]
  BY DEF Restart
<1>6. Record(side[s].life + 1, SessionOf(s), left) \in RecordType
  <2>1. left \in Nat
    BY DEF JoinedLeft, IInv, TypeOK, RecordType
  <2> QED  BY <1>1, <1>2, <2>1 DEF Record, RecordType, Lives
<1>7. room' \in [Sides -> RecordType]
  <2>1. room[Peer(s)] \in RecordType
    BY PeerFacts DEF IInv, TypeOK
  <2>2. (IF Changed(s) THEN 0 ELSE room[Peer(s)].joined) \in Nat
    BY <2>1 DEF RecordType
  <2>3. Called(s) \in RecordType
    <3> DEFINE first == [room[Peer(s)] EXCEPT !.paired = TRUE]
               second == [first EXCEPT !.session = SessionOf(s)]
    <3>1. first \in RecordType
      BY <2>1 DEF RecordType
    <3>2. second \in RecordType
      <4> HIDE DEF first
      <4> QED  BY <1>1, <3>1 DEF RecordType
    <3>3. Called(s) = [second EXCEPT !.joined = IF Changed(s) THEN 0 ELSE room[Peer(s)].joined]
      BY DEF Called
    <3> HIDE DEF second
    <3> QED  BY <2>2, <3>2, <3>3 DEF RecordType
  <2> QED  BY <1>5, <1>6, <2>3, PeerFacts DEF IInv, TypeOK
<1>8. TypeOK'
  BY <1>3, <1>4, <1>7 DEF Restart, IInv, TypeOK
<1>9. \A t \in Sides : \/ side'[t].peer = 0
                       \/ side'[t].peer = side[t].peer /\ side'[t].life = side[t].life
  BY <1>4 DEF IInv, TypeOK, Process
<1>10. \A t \in Sides : Tunnel(t)' => (Tunnel(t) /\ side'[t] = side[t])
  BY <1>4 DEF IInv, TypeOK, Process, Tunnel
<1> QED  BY <1>8, <1>9, <1>10, Quietly DEF Restart

LEMMA OtherSteps ==
    ASSUME IInv,
           \/ \E s \in Sides : AskNat(s) \/ Crash(s) \/ Expire(s)
           \/ \E m \in net : Drop(m)
           \/ Tick
           \/ UNCHANGED vars
    PROVE  IInv'
<1>1. CASE \E s \in Sides : AskNat(s)
  <2> PICK s \in Sides : AskNat(s)  BY <1>1
  <2>1. Phase(s, "nat") \/ Phase(s, "refused")
    BY DEF AskNat
  <2> QED  BY <2>1, PhaseStep DEF AskNat, IInv, TypeOK
<1>2. CASE \E s \in Sides : Crash(s)
  BY <1>2, PhaseStep DEF Crash, Quit, IInv, TypeOK
<1>3. CASE \E s \in Sides : Expire(s)
  BY <1>3, RoomTyped, SameSides DEF Expire, IInv, TypeOK
<1>4. CASE \E m \in net : Drop(m)
  <2>1. net' \subseteq net /\ side' = side /\ room' = room /\ aimed' = aimed
    BY <1>4, CarryFacts DEF Drop
  <2> QED  BY <2>1, SameSides DEF IInv, TypeOK
<1>5. CASE Tick
  BY <1>5, SameSides DEF Tick, IInv, TypeOK
<1>6. CASE UNCHANGED vars
  BY <1>6, SameSides DEF vars, IInv, TypeOK
<1> QED  BY <1>1, <1>2, <1>3, <1>4, <1>5, <1>6

\* The invariant: no endpoint is held and no punch is sent but by a process
\* that the server has told of it (DiscoverAndConnectIpv6).
THEOREM Invariance == Spec => []IInv
<1>1. IInv /\ [Next]_vars => IInv'
  <2> SUFFICES ASSUME IInv, [Next]_vars PROVE IInv'  OBVIOUS
  <2> QED
    BY BeginStep, JoinStep, FailStep, SendPunchStep, TakePunchStep, TakeControlStep,
       WakeStep, StopStep, RestartStep, OtherSteps DEF Next, Arrive
<1> QED  BY <1>1, InitIInv, PTL DEF Spec

\* Who goes into the tunnel has been aimed at by the process it sends to, for
\* any number of restarts and on any network (SameUdpEndpoint in the loop of
\* DiscoverAndConnectIpv6).
THEOREM TunnelsAimedAt == Spec => []AimedAt
BY Invariance, PTL DEF IInv

-----------------------------------------------------------------------------
(* A tunnel whose ends are both there is kept.  While nothing is lost, the    *)
(* timer of an end that has waited for long has its keepalive, or the answer  *)
(* to it, on the way.                                                         *)

ClockType == [quiet : Nat, due : Nat, woken : BOOLEAN]

\* A loop that has gone round owes no keepalive.
ClockOK ==
    /\ clock \in [Sides -> ClockType]
    /\ \A s \in Sides : /\ clock[s].due <= Keepalive[s]
                        /\ clock[s].woken => clock[s].due # 0

Punch(m) == m.type \in {"V6_PUNCH", "V6_PUNCH_ACK"}

\* No time has passed in a tunnel whose punches are still on their way.
FreshSender ==
    \A s \in Sides, m \in net :
        (Tunnel(s) /\ Punch(m) /\ m.to = Peer(s) /\ m.from = side[s].life)
            => (clock[s].quiet = 0 /\ clock[s].due = Keepalive[s])

\* Keepalives on their way are of the two processes that run.
Current ==
    \A m \in net : Refreshes(m) =>
        (m.from = side[Peer(m.to)].life /\ m.life = side[m.to].life)

\* The keepalive of s, or its answer, is on the way.
Coming(s) ==
    \E m \in net : \/ m.type = "KEEPALIVE" /\ m.to = Peer(s)
                   \/ m.type = "KEEPALIVE_ACK" /\ m.to = s

\* Time is left until the next keepalive, or the last one is not lost.
Heard(s) ==
    \/ clock[s].quiet + clock[s].due <= Keepalive[s]
    \/ clock[s].quiet <= Keepalive[s] /\ clock[s].woken /\ Current /\ Coming(s)

Served ==
    (~lossy /\ Connected) =>
        \A s \in Sides : (clock[s].due < Keepalive[s] => Current) /\ Heard(s)

AInv == ClockOK /\ FreshSender /\ Served

\* What stays on its way, and what is as good as a new datagram.
LEMMA CarryKeeps ==
    ASSUME NEW taken, NEW posted
    PROVE  /\ net \ taken \subseteq Carry(taken, posted)
           /\ \A m \in posted : \E other \in Carry(taken, posted) :
                 other.type = m.type /\ other.to = m.to
BY DEF Carry

LEMMA NewClockTyped ==
    \A s \in Sides : /\ NewClock(s) \in ClockType
                     /\ NewClock(s).quiet = 0 /\ NewClock(s).due = Keepalive[s]
                     /\ NewClock(s).woken = FALSE
                     /\ Keepalive[s] \in Nat \ {0}
BY KeepaliveAssumption DEF NewClock, ClockType

\* Clocks that stand still, or start again, are good clocks.
LEMMA ClocksReset ==
    ASSUME ClockOK, NEW s \in Sides, clock' = [clock EXCEPT ![s] = NewClock(s)]
    PROVE  ClockOK'
<1>1. clock' \in [Sides -> ClockType]
  BY NewClockTyped DEF ClockOK
<1>2. \A t \in Sides : clock'[t] = IF t = s THEN NewClock(s) ELSE clock[t]
  BY DEF ClockOK
<1>3. \A t \in Sides : clock'[t].due <= Keepalive[t] /\ (clock'[t].woken => clock'[t].due # 0)
  BY <1>2, NewClockTyped DEF ClockOK
<1> QED  BY <1>1, <1>3 DEF ClockOK

\* A step that lets no time pass in a tunnel, takes nobody into one and loses
\* no keepalive.
LEMMA Apart ==
    ASSUME IInv, TypeOK', AInv, ClockOK', lossy' = lossy,
           \A s \in Sides : Tunnel(s)' => (Tunnel(s) /\ side'[s] = side[s] /\ clock'[s] = clock[s]),
           \A m \in net' : \/ m \in net
                           \/ ~Refreshes(m) /\ (Punch(m) => ~Tunnel(Peer(m.to))'),
           \A m \in net : \/ m \in net'
                          \/ ~(~lossy /\ Connected')
                          \/ ~Refreshes(m)
                          \/ m.from # side[Peer(m.to)].life
                          \/ m.life # side[m.to].life
    PROVE  AInv'
<1>0. \A m : (Refreshes(m) <=> m.type \in {"KEEPALIVE", "KEEPALIVE_ACK"})
             /\ (Refreshes(m)' <=> m.type \in {"KEEPALIVE", "KEEPALIVE_ACK"})
  BY DEF Refreshes
<1>1. FreshSender'
  <2> SUFFICES ASSUME NEW s \in Sides, NEW m \in net', Tunnel(s)', Punch(m), m.to = Peer(s),
                      m.from = side'[s].life
               PROVE  clock'[s].quiet = 0 /\ clock'[s].due = Keepalive[s]
    BY DEF FreshSender, Punch
  <2>1. m \in net
    BY PeerFacts
  <2>2. FreshSender
    BY DEF AInv
  <2> QED  BY <2>1, <2>2 DEF FreshSender
<1>2. Served'
  <2> SUFFICES ASSUME ~lossy, Connected', NEW s \in Sides
               PROVE  (clock'[s].due < Keepalive[s] => Current') /\ Heard(s)'
    BY DEF Served
  <2>1. \A t \in Sides : Tunnel(t) /\ side'[t] = side[t] /\ clock'[t] = clock[t]
    BY DEF Connected
  <2>2. Connected
    BY <2>1, PeerFacts DEF Connected
  <2>3. (clock[s].due < Keepalive[s] => Current) /\ Heard(s)
    BY <2>2 DEF AInv, Served
  <2>4. ASSUME Current PROVE Current'
    <3> SUFFICES ASSUME NEW m \in net', Refreshes(m)
                 PROVE  m.from = side'[Peer(m.to)].life /\ m.life = side'[m.to].life
      BY <1>0 DEF Current
    <3>1. m \in net /\ m.to \in Sides /\ Peer(m.to) \in Sides
      BY PeerFacts DEF TypeOK, DatagramType
    <3>2. m.from = side[Peer(m.to)].life /\ m.life = side[m.to].life
      BY <2>4, <3>1 DEF Current
    <3> QED  BY <2>1, <3>1, <3>2
  <2>5. ASSUME Current, Coming(s) PROVE Coming(s)'
    <3> PICK m \in net : \/ m.type = "KEEPALIVE" /\ m.to = Peer(s)
                         \/ m.type = "KEEPALIVE_ACK" /\ m.to = s
      BY <2>5 DEF Coming
    <3>1. Refreshes(m)
      BY <1>0
    <3>2. m.from = side[Peer(m.to)].life /\ m.life = side[m.to].life
      BY <2>5, <3>1 DEF Current
    <3>3. m \in net'
      BY <3>1, <3>2
    <3> QED  BY <3>3 DEF Coming
  <2>6. clock'[s] = clock[s]
    BY <2>1
  <2> QED  BY <2>3, <2>4, <2>5, <2>6 DEF Heard
<1> QED  BY <1>1, <1>2 DEF AInv

\* A side that is not in the tunnel afterwards, with its timers as they were.
LEMMA OutsideStep ==
    ASSUME IInv, TypeOK', AInv, NEW s \in Sides, lossy' = lossy,
           \A t \in Sides : t # s => side'[t] = side[t],
           ~Tunnel(s)',
           clock' = clock \/ clock' = [clock EXCEPT ![s] = NewClock(s)],
           net \subseteq net',
           \A m \in net' : \/ m \in net
                           \/ ~Refreshes(m) /\ (Punch(m) => m.to = Peer(s))
    PROVE  AInv'
<1>1. ClockOK'
  BY ClocksReset DEF AInv, ClockOK
<1>2. \A t \in Sides : Tunnel(t)' => Tunnel(t) /\ side'[t] = side[t] /\ clock'[t] = clock[t]
  BY DEF Tunnel, AInv, ClockOK
<1>3. \A m \in net' : \/ m \in net
                      \/ ~Refreshes(m) /\ (Punch(m) => ~Tunnel(Peer(m.to))')
  BY PeerFacts
<1> QED  BY <1>1, <1>2, <1>3, Apart

LEMMA LeavesOut ==
    ASSUME IInv, TypeOK', AInv, NEW s \in Sides,
           Begin(s) \/ Fail(s) \/ AskNat(s) \/ Crash(s) \/ Stop(s)
    PROVE  AInv'
<1>1. \E phase \in {"join", "next", "nat", "refused", "off"} : Phase(s, phase)
  BY DEF Begin, Fail, AskNat, Crash, Stop, Quit
<1>2. ~Tunnel(s)' /\ \A t \in Sides : t # s => side'[t] = side[t]
  BY <1>1 DEF Phase, Tunnel, IInv, TypeOK
<1>3. clock' = clock \/ clock' = [clock EXCEPT ![s] = NewClock(s)]
  BY DEF Begin, Fail, AskNat, Crash, Stop, Quit
<1>4. net' = net \/ net' = Carry({}, Goodbye(s))
  BY DEF Begin, Fail, AskNat, Crash, Stop
<1>5. net \subseteq net' /\ net' \subseteq net \cup Goodbye(s)
  BY <1>4, CarryKeeps, CarryFacts
<1>6. \A m \in Goodbye(s) : ~Refreshes(m) /\ ~Punch(m)
  BY GoodbyeAndAsk DEF Refreshes, Punch
<1>7. lossy' = lossy
  BY DEF Begin, Fail, AskNat, Crash, Stop
<1> QED  BY <1>2, <1>3, <1>5, <1>6, <1>7, OutsideStep

LEMMA SendPunchApart ==
    ASSUME IInv, TypeOK', AInv, NEW s \in Sides, SendPunch(s) PROVE AInv'
<1> DEFINE punch == Datagram("V6_PUNCH", s, Peer(s))
<1>1. net \subseteq net' /\ net' \subseteq net \cup {punch}
  BY CarryKeeps, CarryFacts DEF SendPunch
<1>2. ~Refreshes(punch) /\ punch.to = Peer(s)
  BY DEF Refreshes, Datagram
<1>3. ~Tunnel(s)' /\ side' = side /\ clock' = clock /\ lossy' = lossy
  BY DEF SendPunch, Tunnel
<1> QED  BY <1>1, <1>2, <1>3, OutsideStep

LEMMA RestartApart ==
    ASSUME IInv, TypeOK', AInv, NEW s \in Sides, Restart(s) PROVE AInv'
<1>1. side' = [side EXCEPT ![s] = Process(side[s].life + 1, SessionOf(s))]
  BY DEF Restart
<1>2. ~Tunnel(s)' /\ \A t \in Sides : t # s => side'[t] = side[t]
  BY <1>1 DEF Process, Tunnel, IInv, TypeOK
<1> QED  BY <1>2, OutsideStep DEF Restart

\* Who is told of a meeting is not in the tunnel.
LEMMA JoinApart ==
    ASSUME IInv, TypeOK', AInv, NEW s \in Sides, Join(s) PROVE AInv'
<1>1. clock' = clock /\ net' = net /\ lossy' = lossy
  BY DEF Join
<1>2. \A t \in Sides : Tunnel(t)' => Tunnel(t) /\ side'[t] = side[t]
  <2> SUFFICES ASSUME NEW t \in Sides, Tunnel(t)' PROVE Tunnel(t) /\ side'[t] = side[t]
    OBVIOUS
  <2> DEFINE records == [room EXCEPT ![s] = Joined(@, side[s].life)]
  <2>1. \A hearers \in Hearers(Told(records)) :
            \A one \in hearers : one \in Sides /\ side[one].phase = "join"
    BY DEF Hearers, Told
  <2>2. CASE UNCHANGED <<side, aimed>>
    BY <2>2 DEF Tunnel
  <2>3. CASE \E hearers \in Hearers(Told(records)) :
                side' = [one \in Sides |->
                    IF one \in hearers THEN [side[one] EXCEPT !.phase = "leaving"]
                    ELSE side[one]]
    BY <2>1, <2>3 DEF IInv, TypeOK, SideType, Tunnel
  <2>4. CASE \E hearers \in Hearers(Told(records)) :
                side' = [one \in Sides |->
                    IF one \in hearers
                    THEN [side[one] EXCEPT !.peer = records[Peer(one)].joined,
                              !.connector = IF one = s THEN ~Listens(s, Peer(s))
                                            ELSE Listens(s, Peer(s))]
                    ELSE side[one]]
    <3> PICK hearers \in Hearers(Told(records)) :
                side' = [one \in Sides |->
                    IF one \in hearers
                    THEN [side[one] EXCEPT !.peer = records[Peer(one)].joined,
                              !.connector = IF one = s THEN ~Listens(s, Peer(s))
                                            ELSE Listens(s, Peer(s))]
                    ELSE side[one]]
      BY <2>4
    <3> HIDE DEF records
    <3>1. t \in hearers => side'[t].phase = side[t].phase
      BY DEF IInv, TypeOK, SideType
    <3>2. t \notin hearers => side'[t] = side[t]
      OBVIOUS
    <3> QED  BY <2>1, <3>1, <3>2 DEF Tunnel
  <2> QED  BY <2>2, <2>3, <2>4 DEF Join
<1>3. ClockOK'
  BY <1>1 DEF AInv, ClockOK
<1> QED  BY <1>1, <1>2, <1>3, Apart

\* On a network that loses nothing, what a tunnel is not given was sent to
\* another process.
LEMMA DropApart ==
    ASSUME IInv, TypeOK', AInv, NEW m \in net, Drop(m) PROVE AInv'
<1>1. /\ net \ {m} \subseteq net' /\ net' \subseteq net
      /\ side' = side /\ clock' = clock /\ lossy' = lossy
  BY CarryKeeps, CarryFacts DEF Drop
<1>2. ~lossy /\ Connected' => m.life # side[m.to].life
  BY <1>1 DEF Drop, Reaches, Connected, Tunnel, IInv, TypeOK, DatagramType
<1>3. ClockOK'
  BY <1>1 DEF AInv, ClockOK
<1>4. \A t \in Sides : Tunnel(t)' => Tunnel(t) /\ side'[t] = side[t] /\ clock'[t] = clock[t]
  BY <1>1 DEF Tunnel
<1>5. \A n \in net : n \in net' \/ ~(~lossy /\ Connected') \/ n.life # side[n.to].life
  BY <1>1, <1>2
<1> QED  BY <1>1, <1>3, <1>4, <1>5, Apart

LEMMA StillApart ==
    ASSUME IInv, TypeOK', AInv, (\E s \in Sides : Expire(s)) \/ UNCHANGED vars
    PROVE  AInv'
<1>1. side' = side /\ clock' = clock /\ net' = net /\ lossy' = lossy
  BY DEF Expire, vars
<1>2. ClockOK'
  BY <1>1 DEF AInv, ClockOK
<1> QED  BY <1>1, <1>2, Apart DEF Tunnel

\* What time does: the loop that has gone round comes nearer its keepalive.
LEMMA TickStep == ASSUME IInv, TypeOK', AInv, Tick PROVE AInv'
<1>1. net = {} /\ net' = net /\ side' = side /\ lossy' = lossy
  BY DEF Tick
<1>2. clock' = [s \in Sides |-> IF Tunnel(s) THEN Next1(clock[s]) ELSE clock[s]]
  BY DEF Tick
<1>3. \A s \in Sides : Tunnel(s) => clock[s].woken
  BY DEF Tick
<1>4. \A s \in Sides :
          /\ clock[s] \in ClockType /\ clock[s].due <= Keepalive[s]
          /\ clock[s].woken => clock[s].due # 0
          /\ Keepalive[s] \in Nat
  BY NewClockTyped DEF AInv, ClockOK
<1>5. ASSUME NEW s \in Sides, Tunnel(s)
      PROVE  /\ clock'[s] \in ClockType /\ clock'[s].due < Keepalive[s]
             /\ clock'[s].woken = FALSE
             /\ clock'[s].quiet + clock'[s].due = clock[s].quiet + clock[s].due
  <2>1. clock'[s] = Next1(clock[s]) /\ clock[s].woken
    BY <1>2, <1>3, <1>5
  <2>2. clock[s].due \in Nat /\ clock[s].due # 0 /\ clock[s].quiet \in Nat
    BY <1>4, <2>1 DEF ClockType
  <2>3. /\ clock'[s].quiet = clock[s].quiet + 1 /\ clock'[s].due = clock[s].due - 1
        /\ clock'[s].woken = FALSE
    BY <2>1 DEF Next1
  <2>4. clock'[s] \in ClockType
    BY <2>1, <2>2 DEF Next1, ClockType
  <2> QED  BY <1>4, <2>2, <2>3, <2>4
<1>6. \A s \in Sides : ~Tunnel(s) => clock'[s] = clock[s]
  BY <1>2
<1>7. ClockOK'
  <2>1. \A s \in Sides : clock'[s] \in ClockType
    BY <1>4, <1>5, <1>6
  <2>2. \A s \in Sides : clock'[s].due <= Keepalive[s] /\ (clock'[s].woken => clock'[s].due # 0)
    <3> SUFFICES ASSUME NEW s \in Sides
                 PROVE  clock'[s].due <= Keepalive[s] /\ (clock'[s].woken => clock'[s].due # 0)
      OBVIOUS
    <3>1. CASE Tunnel(s)
      <4>1. /\ clock'[s].due < Keepalive[s] /\ clock'[s].woken = FALSE
            /\ clock'[s].due \in Nat /\ Keepalive[s] \in Nat
        BY <1>4, <1>5, <2>1, <3>1 DEF ClockType
      <4> QED  BY <4>1
    <3>2. CASE ~Tunnel(s)
      BY <1>4, <1>6, <3>2
    <3> QED  BY <3>1, <3>2
  <2>3. clock' \in [Sides -> ClockType]
    BY <1>2, <2>1
  <2> QED  BY <2>2, <2>3 DEF ClockOK
<1>8. FreshSender'
  BY <1>1 DEF FreshSender
<1>9. Served'
  <2> SUFFICES ASSUME ~lossy, Connected', NEW s \in Sides
               PROVE  (clock'[s].due < Keepalive[s] => Current') /\ Heard(s)'
    BY <1>1 DEF Served
  <2>1. Connected /\ Tunnel(s)
    BY <1>1 DEF Connected, Tunnel
  <2>2. Current'
    BY <1>1 DEF Current
  <2>3. ~Coming(s)
    BY <1>1 DEF Coming
  <2>4. Heard(s)
    BY <2>1 DEF AInv, Served
  <2>5. clock[s].quiet + clock[s].due <= Keepalive[s]
    BY <2>3, <2>4 DEF Heard
  <2>6. Heard(s)'
    BY <1>5, <2>1, <2>5 DEF Heard
  <2> QED  BY <2>2, <2>6
<1> QED  BY <1>7, <1>8, <1>9 DEF AInv

\* The peer of one who goes into the tunnel has been in it for no time, or the
\* two are not each other's.
LEMMA TakePunchApart ==
    ASSUME IInv, TypeOK', AInv, NEW m \in net, TakePunch(m) PROVE AInv'
<1> DEFINE s == m.to
           t == Peer(m.to)
           ack == Datagram("V6_PUNCH_ACK", s, t)
<1>1. s \in Sides /\ t \in Sides /\ Peer(t) = s /\ t # s
  BY PeerFacts DEF IInv, TypeOK, DatagramType
<1>2. /\ Phase(s, "tunnel") /\ side[s].peer = m.from /\ Punch(m) /\ ~Tunnel(s)
      /\ clock' = [clock EXCEPT ![s] = NewClock(s)] /\ lossy' = lossy
  BY DEF TakePunch, FromPeer, Punch, Tunnel
<1>3. net' \subseteq net \cup {ack}
  BY CarryFacts DEF TakePunch
<1>4. side'[t] = side[t] /\ side'[s].peer = side[s].peer /\ side'[s].life = side[s].life
  BY <1>1, <1>2 DEF Phase, IInv, TypeOK, SideType
<1>5. clock'[s] = NewClock(s) /\ clock'[t] = clock[t]
  BY <1>1, <1>2 DEF AInv, ClockOK
<1>6. ClockOK'
  BY <1>1, <1>2, ClocksReset DEF AInv
<1>7. \A one \in Sides : one = s \/ one = t
  BY <1>1 DEF Sides
<1>8. ack.to = t
  BY DEF Datagram
<1>9. FreshSender'
  <2> SUFFICES ASSUME NEW one \in Sides, NEW n \in net', Tunnel(one)', Punch(n), n.to = Peer(one),
                      n.from = side'[one].life
               PROVE  clock'[one].quiet = 0 /\ clock'[one].due = Keepalive[one]
    BY DEF FreshSender, Punch
  <2>1. CASE one = s
    BY <1>1, <1>5, <2>1, NewClockTyped
  <2>2. CASE one = t
    <3>1. n.to = s /\ n \in net
      BY <1>1, <1>3, <1>8, <2>2
    <3>2. Tunnel(t) /\ n.from = side[t].life
      BY <1>4, <2>2 DEF Tunnel
    <3>3. FreshSender
      BY DEF AInv
    <3> QED  BY <1>1, <1>5, <2>2, <3>1, <3>2, <3>3 DEF FreshSender
  <2> QED  BY <1>7, <2>1, <2>2
<1>10. Served'
  <2> SUFFICES ASSUME Connected', NEW one \in Sides
               PROVE  ~(clock'[one].due < Keepalive[one]) /\ Heard(one)'
    BY DEF Served
  <2>1. Tunnel(t) /\ m.from = side[t].life
    BY <1>1, <1>2, <1>4 DEF Connected, Tunnel
  <2>2. FreshSender
    BY DEF AInv
  <2>3. clock[t].quiet = 0 /\ clock[t].due = Keepalive[t]
    BY <1>1, <1>2, <2>1, <2>2 DEF FreshSender
  <2>4. clock'[one].quiet = 0 /\ clock'[one].due = Keepalive[one] /\ Keepalive[one] \in Nat
    BY <1>1, <1>5, <1>7, <2>3, NewClockTyped
  <2> QED  BY <2>4 DEF Heard
<1> QED  BY <1>6, <1>9, <1>10 DEF AInv

\* A keepalive or an answer is taken: its taker has heard of the peer, and the
\* sender of a keepalive is answered.
LEMMA RefreshStep ==
    ASSUME IInv, TypeOK', AInv, NEW m \in net,
           Reaches(m), Tunnel(m.to), FromPeer(m), Refreshes(m),
           clock' = [clock EXCEPT ![m.to].quiet = 0],
           net' = Carry({m}, Answers(m)),
           side' = side, lossy' = lossy
    PROVE  AInv'
<1> DEFINE s == m.to
           t == Peer(m.to)
           answer == Datagram("KEEPALIVE_ACK", s, t)
<1>1. s \in Sides /\ t \in Sides /\ Peer(t) = s /\ t # s
  BY PeerFacts DEF IInv, TypeOK, DatagramType
<1>2. clock[s] \in ClockType /\ clock[t] \in ClockType
  BY <1>1 DEF AInv, ClockOK
<1>3. /\ clock'[s] = [clock[s] EXCEPT !.quiet = 0]
      /\ \A one \in Sides : one # s => clock'[one] = clock[one]
  BY <1>1 DEF AInv, ClockOK
<1>4. /\ clock'[s].quiet = 0 /\ clock'[s].due = clock[s].due /\ clock'[s].woken = clock[s].woken
      /\ clock'[s] \in ClockType
  BY <1>2, <1>3 DEF ClockType
<1>5. ClockOK'
  <2>1. \A one \in Sides : one # s => clock'[one] \in ClockType
    BY <1>3 DEF AInv, ClockOK
  <2>2. clock' \in [Sides -> ClockType]
    BY <1>4, <2>1 DEF AInv, ClockOK
  <2>3. \A one \in Sides : /\ clock[one].due <= Keepalive[one]
                           /\ clock[one].woken => clock[one].due # 0
    BY DEF AInv, ClockOK
  <2>4. \A one \in Sides : /\ clock'[one].due <= Keepalive[one]
                           /\ clock'[one].woken => clock'[one].due # 0
    BY <1>3, <1>4, <2>3
  <2> QED  BY <2>2, <2>4 DEF ClockOK
<1>6. net \ {m} \subseteq net' /\ net' \subseteq net \cup {answer}
  BY CarryKeeps, CarryFacts DEF Answers
<1>7. /\ answer.type = "KEEPALIVE_ACK" /\ answer.to = t
      /\ answer.from = side[s].life /\ answer.life = side[s].peer
  BY DEF Datagram
<1>8. FreshSender'
  <2> SUFFICES ASSUME NEW one \in Sides, NEW n \in net', Tunnel(one), Punch(n), n.to = Peer(one),
                      n.from = side[one].life
               PROVE  clock'[one].quiet = 0 /\ clock'[one].due = Keepalive[one]
    BY DEF FreshSender, Punch, Tunnel
  <2>1. n \in net
    BY <1>6, <1>7 DEF Punch
  <2>2. FreshSender
    BY DEF AInv
  <2>3. clock[one].quiet = 0 /\ clock[one].due = Keepalive[one]
    BY <2>1, <2>2 DEF FreshSender
  <2> QED  BY <1>3, <1>4, <2>3
<1>9. Served'
  <2> SUFFICES ASSUME ~lossy, Connected, NEW one \in Sides
               PROVE  (clock'[one].due < Keepalive[one] => Current') /\ Heard(one)'
    BY DEF Served, Connected, Tunnel
  <2>1. \A each \in Sides : (clock[each].due < Keepalive[each] => Current) /\ Heard(each)
    BY DEF AInv, Served
  <2>2. ASSUME Current PROVE Current'
    <3>1. answer.from = side[Peer(answer.to)].life /\ answer.life = side[answer.to].life
      BY <1>1, <1>7 DEF Connected
    <3>2. \A n \in net : Refreshes(n) =>
              (n.from = side[Peer(n.to)].life /\ n.life = side[n.to].life)
      BY <2>2 DEF Current
    <3>3. \A n \in net' : Refreshes(n) =>
              (n.from = side[Peer(n.to)].life /\ n.life = side[n.to].life)
      BY <1>6, <3>1, <3>2
    <3> QED  BY <3>3 DEF Current, Refreshes
  <2>3. clock'[one].due = clock[one].due
    BY <1>3, <1>4
  <2>4. Heard(one)'
    <3>1. CASE one = s
      <4>1. clock'[s].due \in Nat /\ clock'[s].due <= Keepalive[s]
        BY <1>1, <1>4, <1>5 DEF ClockOK, ClockType
      <4> QED  BY <1>4, <3>1, <4>1 DEF Heard
    <3>2. CASE one # s
      <4>1. one = t /\ Peer(one) = s
        BY <1>1, <3>2 DEF Sides
      <4>2. clock'[one] = clock[one]
        BY <1>3, <3>2
      <4>3. ASSUME Coming(one) PROVE Coming(one)'
        <5> PICK n \in net : \/ n.type = "KEEPALIVE" /\ n.to = s
                             \/ n.type = "KEEPALIVE_ACK" /\ n.to = t
          BY <4>1, <4>3 DEF Coming
        <5>1. CASE n # m
          BY <1>6, <4>1, <5>1 DEF Coming
        <5>2. CASE n = m
          <6>1. m.type = "KEEPALIVE"
            BY <1>1, <5>2
          <6>2. Answers(m) = {answer}
            BY <6>1 DEF Answers
          <6>3. \E other \in net' : other.type = "KEEPALIVE_ACK" /\ other.to = t
            BY <1>7, <6>2, CarryKeeps
          <6> QED  BY <4>1, <6>3 DEF Coming
        <5> QED  BY <5>1, <5>2
      <4>4. Heard(one)
        BY <2>1
      <4> QED  BY <2>2, <4>2, <4>3, <4>4 DEF Heard
    <3> QED  BY <3>1, <3>2
  <2> QED  BY <2>1, <2>2, <2>3, <2>4
<1> QED  BY <1>5, <1>8, <1>9 DEF AInv

LEMMA TakeControlApart ==
    ASSUME IInv, TypeOK', AInv, NEW m \in net, TakeControl(m) PROVE AInv'
<1>1. m.to \in Sides /\ lossy' = lossy
  BY DEF IInv, TypeOK, DatagramType, TakeControl
<1>2. CASE Quit(m.to) /\ net' = Carry({m}, {})
  <2>1. ~Tunnel(m.to)' /\ \A t \in Sides : t # m.to => side'[t] = side[t]
    BY <1>1, <1>2 DEF Quit, Phase, Tunnel, IInv, TypeOK
  <2>2. ClockOK'
    BY <1>1, <1>2, ClocksReset DEF Quit, AInv
  <2>3. \A t \in Sides : Tunnel(t)' => Tunnel(t) /\ side'[t] = side[t] /\ clock'[t] = clock[t]
    BY <1>1, <1>2, <2>1 DEF Quit, Tunnel, AInv, ClockOK
  <2>4. net' \subseteq net
    BY <1>2, CarryFacts
  <2>5. ~Connected'
    BY <1>1, <2>1 DEF Connected
  <2> QED  BY <1>1, <2>2, <2>3, <2>4, <2>5, Apart
<1>3. CASE /\ FromPeer(m) /\ Refreshes(m)
           /\ clock' = [clock EXCEPT ![m.to].quiet = 0]
           /\ net' = Carry({m}, Answers(m))
           /\ side' = side
  BY <1>1, <1>3, RefreshStep DEF TakeControl
<1>4. CASE /\ ~FromPeer(m) \/ ~(Closes(m) \/ Refreshes(m))
           /\ net' = Carry({m}, {}) /\ side' = side /\ clock' = clock
  <2>1. net \ {m} \subseteq net' /\ net' \subseteq net
    BY <1>4, CarryFacts, CarryKeeps
  <2>2. ClockOK'
    BY <1>4 DEF AInv, ClockOK
  <2>3. Connected' => ~Refreshes(m) \/ m.from # side[Peer(m.to)].life
    BY <1>1, <1>4 DEF Connected, FromPeer
  <2>4. \A n \in net : \/ n \in net'
                       \/ ~(~lossy /\ Connected')
                       \/ ~Refreshes(n)
                       \/ n.from # side[Peer(n.to)].life
    BY <2>1, <2>3
  <2>5. \A t \in Sides : Tunnel(t)' => Tunnel(t) /\ side'[t] = side[t] /\ clock'[t] = clock[t]
    BY <1>4 DEF Tunnel
  <2> QED  BY <1>1, <2>1, <2>2, <2>4, <2>5, Apart
<1> QED  BY <1>2, <1>3, <1>4 DEF TakeControl

\* The end of a tunnel whose ends are both there has not waited too long.
LEMMA ServedInTime ==
    ASSUME AInv, ~lossy, Connected
    PROVE  \A s \in Sides : ~Overdue(s)
<1> SUFFICES ASSUME NEW s \in Sides PROVE ~Overdue(s)
  OBVIOUS
<1>1. Heard(s)
  BY DEF AInv, Served
<1>2. clock[s].quiet \in Nat /\ clock[s].due \in Nat
  BY DEF AInv, ClockOK, ClockType
<1>3. Keepalive[s] \in Nat /\ PeerTimeout[s] \in Nat /\ PeerTimeout[s] > Keepalive[s]
  BY KeepaliveAssumption, TimeoutAssumption
<1>4. clock[s].quiet <= Keepalive[s]
  BY <1>1, <1>2, <1>3 DEF Heard
<1> QED  BY <1>2, <1>3, <1>4 DEF Overdue

\* The loop goes round in time.
LEMMA RoundStep ==
    ASSUME IInv, TypeOK', AInv, NEW s \in Sides, Tunnel(s), ~clock[s].woken,
           IF clock[s].due = 0
           THEN /\ clock' = [clock EXCEPT ![s] = AfterKeepalive(s)]
                /\ net' = Carry({}, Ask(s))
           ELSE /\ clock' = [clock EXCEPT ![s].woken = TRUE]
                /\ UNCHANGED net,
           side' = side, lossy' = lossy
    PROVE  AInv'
<1> DEFINE t == Peer(s)
           ask == Datagram("KEEPALIVE", s, t)
<1>1. t \in Sides /\ Peer(t) = s /\ t # s
  BY PeerFacts
<1>2. clock[s] \in ClockType /\ clock[s].due <= Keepalive[s] /\ Keepalive[s] \in Nat \ {0}
  BY NewClockTyped DEF AInv, ClockOK
<1>3. \A one \in Sides : one # s => clock'[one] = clock[one]
  BY DEF AInv, ClockOK
<1>4. /\ clock'[s].quiet = clock[s].quiet /\ clock'[s] \in ClockType /\ clock'[s].woken
      /\ clock'[s].due = (IF clock[s].due = 0 THEN Keepalive[s] ELSE clock[s].due)
  <2>1. CASE clock[s].due = 0
    <3>1. clock'[s] = [clock[s] EXCEPT !.due = Keepalive[s], !.woken = TRUE]
      BY <2>1 DEF AfterKeepalive, AInv, ClockOK
    <3> QED  BY <1>2, <2>1, <3>1 DEF ClockType
  <2>2. CASE clock[s].due # 0
    <3>1. clock'[s] = [clock[s] EXCEPT !.woken = TRUE]
      BY <2>2 DEF AInv, ClockOK
    <3> QED  BY <1>2, <2>2, <3>1 DEF ClockType
  <2> QED  BY <2>1, <2>2
<1>5. ClockOK'
  <2>1. \A one \in Sides : one # s => clock'[one] \in ClockType
    BY <1>3 DEF AInv, ClockOK
  <2>2. clock' \in [Sides -> ClockType]
    BY <1>4, <2>1 DEF AInv, ClockOK
  <2>3. \A one \in Sides : /\ clock[one].due <= Keepalive[one]
                           /\ clock[one].woken => clock[one].due # 0
    BY DEF AInv, ClockOK
  <2>4. clock'[s].due <= Keepalive[s] /\ clock'[s].due # 0
    BY <1>2, <1>4
  <2>5. \A one \in Sides : /\ clock'[one].due <= Keepalive[one]
                           /\ clock'[one].woken => clock'[one].due # 0
    BY <1>3, <2>3, <2>4
  <2> QED  BY <2>2, <2>5 DEF ClockOK
<1>6. net \subseteq net' /\ net' \subseteq net \cup {ask}
  BY CarryKeeps, CarryFacts DEF Ask
<1>7. /\ ask.type = "KEEPALIVE" /\ ask.to = t
      /\ ask.from = side[s].life /\ ask.life = side[s].peer
  BY DEF Datagram
<1>8. FreshSender'
  <2> SUFFICES ASSUME NEW one \in Sides, NEW n \in net', Tunnel(one), Punch(n), n.to = Peer(one),
                      n.from = side[one].life
               PROVE  clock'[one].quiet = 0 /\ clock'[one].due = Keepalive[one]
    BY DEF FreshSender, Punch, Tunnel
  <2>1. n \in net
    BY <1>6, <1>7 DEF Punch
  <2>2. FreshSender
    BY DEF AInv
  <2>3. clock[one].quiet = 0 /\ clock[one].due = Keepalive[one]
    BY <2>1, <2>2 DEF FreshSender
  <2> QED  BY <1>2, <1>3, <1>4, <2>3
<1>9. Served'
  <2> SUFFICES ASSUME ~lossy, Connected, NEW one \in Sides
               PROVE  (clock'[one].due < Keepalive[one] => Current') /\ Heard(one)'
    BY DEF Served, Connected, Tunnel
  <2>1. \A each \in Sides : (clock[each].due < Keepalive[each] => Current) /\ Heard(each)
    BY DEF AInv, Served
  <2>2. ASSUME Current PROVE Current'
    <3>1. ask.from = side[Peer(ask.to)].life /\ ask.life = side[ask.to].life
      BY <1>1, <1>7 DEF Connected
    <3>2. \A n \in net : Refreshes(n) =>
              (n.from = side[Peer(n.to)].life /\ n.life = side[n.to].life)
      BY <2>2 DEF Current
    <3>3. \A n \in net' : Refreshes(n) =>
              (n.from = side[Peer(n.to)].life /\ n.life = side[n.to].life)
      BY <1>6, <3>1, <3>2
    <3> QED  BY <3>3 DEF Current, Refreshes
  <2>3. ASSUME Coming(one) PROVE Coming(one)'
    BY <1>6, <2>3 DEF Coming
  <2>4. CASE one # s
    <3>1. clock'[one] = clock[one]
      BY <1>3, <2>4
    <3> QED  BY <2>1, <2>2, <2>3, <3>1 DEF Heard
  <2>5. CASE one = s /\ clock[s].due # 0
    <3>1. clock'[s].due = clock[s].due
      BY <1>4, <2>5
    <3>2. clock[s].quiet + clock[s].due <= Keepalive[s]
      BY <2>1, <2>5 DEF Heard
    <3> QED  BY <1>4, <2>1, <2>2, <2>5, <3>1, <3>2 DEF Heard
  <2>6. CASE one = s /\ clock[s].due = 0
    <3>1. clock'[s].due = Keepalive[s]
      BY <1>4, <2>6
    <3>2. Current
      BY <1>2, <2>1, <2>6
    <3>3. clock[s].quiet <= Keepalive[s]
      <4>1. clock[s].quiet \in Nat
        BY <1>2 DEF ClockType
      <4>2. Heard(s)
        BY <2>1
      <4> QED  BY <2>6, <4>1, <4>2 DEF Heard
    <3>4. Coming(s)'
      <4>1. \E other \in Carry({}, Ask(s)) : other.type = ask.type /\ other.to = ask.to
        BY CarryKeeps DEF Ask
      <4>2. \E other \in net' : other.type = "KEEPALIVE" /\ other.to = t
        BY <1>7, <2>6, <4>1
      <4> QED  BY <4>2 DEF Coming
    <3> QED  BY <1>2, <1>4, <2>2, <2>6, <3>1, <3>2, <3>3, <3>4 DEF Heard
  <2> QED  BY <2>4, <2>5, <2>6
<1> QED  BY <1>5, <1>8, <1>9 DEF AInv

LEMMA WakeApart == ASSUME IInv, TypeOK', AInv, NEW s \in Sides, Wake(s) PROVE AInv'
<1>1. lossy' = lossy
  BY DEF Wake
<1>2. CASE Quit(s) /\ net' = Carry({}, Goodbye(s))
  <2>1. ~Tunnel(s)' /\ \A t \in Sides : t # s => side'[t] = side[t]
    BY <1>2 DEF Quit, Phase, Tunnel, IInv, TypeOK
  <2>2. net \subseteq net' /\ net' \subseteq net \cup Goodbye(s)
    BY <1>2, CarryKeeps, CarryFacts
  <2>3. \A m \in Goodbye(s) : ~Refreshes(m) /\ ~Punch(m)
    BY GoodbyeAndAsk DEF Refreshes, Punch
  <2> QED  BY <1>1, <1>2, <2>1, <2>2, <2>3, OutsideStep DEF Quit
<1>3. CASE /\ side' = side
           /\ IF clock[s].due = 0
              THEN /\ clock' = [clock EXCEPT ![s] = AfterKeepalive(s)]
                   /\ net' = Carry({}, Ask(s))
              ELSE /\ clock' = [clock EXCEPT ![s].woken = TRUE]
                   /\ UNCHANGED net
  BY <1>1, <1>3, RoundStep DEF Wake
<1> QED  BY <1>2, <1>3 DEF Wake

LEMMA InitAInv == Init => AInv
<1> SUFFICES ASSUME Init PROVE AInv  OBVIOUS
<1>1. ClockOK
  BY NewClockTyped DEF Init, ClockOK
<1>2. net = {} /\ ~Connected
  BY DEF Init, Connected, Tunnel, Process, Sides
<1> QED  BY <1>1, <1>2 DEF AInv, FreshSender, Served

\* The timers of a tunnel and what is on its way, for every choice of the
\* intervals (the loop of netToTun and HandlePeerControl).
THEOREM TimersServed == Spec => []AInv
<1>1. IInv /\ IInv' /\ AInv /\ [Next]_vars => AInv'
  <2> SUFFICES ASSUME IInv, TypeOK', AInv, [Next]_vars PROVE AInv'
    BY DEF IInv
  <2> QED
    BY LeavesOut, SendPunchApart, RestartApart, JoinApart, DropApart, StillApart, TickStep,
       TakePunchApart, TakeControlApart, WakeApart DEF Next, Arrive
<1> QED  BY <1>1, InitAInv, Invariance, PTL DEF Spec

\* A tunnel whose ends are both there is not given up for the silence of the
\* peer unless datagrams were lost, for every two keepalive_intervals and every
\* two peer_timeouts that the configuration takes, on any network, and across
\* any number of restarts: of two ends with different intervals the one that
\* waits longer is served by the answers to its own keepalives.
THEOREM TunnelsKept == Spec => AliveKept
<1>1. AInv => [\A s \in Sides : (Connected /\ Overdue(s) /\ ~Tunnel(s)') => lossy]_vars
  BY ServedInTime
<1> QED  BY <1>1, TimersServed, PTL DEF AliveKept
=============================================================================

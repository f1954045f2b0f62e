------------------------- MODULE RelaySessionProofs -------------------------
(***************************************************************************)
(* Theorems about RelaySession, for every set of nodes, of ports and of    *)
(* ids, and any number of sessions, restarts and faults.  That a tunnel    *)
(* hears only its peer of the same session rests on ids that nobody knows  *)
(* when they are drawn: a side that is bound has said HELLO with the       *)
(* session's id, and is offered no other one while this one is served.     *)
(***************************************************************************)
EXTENDS RelaySession, FiniteSetTheorems, TLAPS

PortValues == {0} \cup {Lowest(set) : set \in SUBSET Ports}

ClientType == [phase : {"off", "joining", "refused", "tunnel"}, life : Nat, wants : Nat,
               offer : Nat, port : PortValues]

SessionType(pair) == [id : Nat, port : PortValues, bound : [pair -> Nat],
                      ready : BOOLEAN, finished : BOOLEAN]

TurnType == [node : Nodes, life : Nat, peer : Nodes]

DatagramType == [type : {"RELAY_HELLO", "RELAY_READY"}, node : Nodes, life : Nat, id : Nat,
                 port : PortValues]

TypeOK ==
    /\ client \in [Nodes -> ClientType]
    /\ sessions = [pair \in Pairs |-> sessions[pair]]
    /\ \A pair \in Pairs : Exists(pair) => sessions[pair] \in SessionType(pair)
    /\ turn = Idle \/ turn \in TurnType
    /\ net \subseteq DatagramType

\* In the loop or in the tunnel: it acts upon an offer.
Present(node) == client[node].phase \in {"joining", "tunnel"}
PairOf(node) == {node, client[node].wants}

ClientsOK ==
    \A node \in Nodes :
        Present(node) =>
            /\ client[node].life # 0
            /\ client[node].wants \in Nodes \ {node}

\* The join in progress says what its process wants, as long as it lives.
TurnOK ==
    turn # Idle =>
        /\ turn.node # turn.peer
        /\ turn.life <= client[turn.node].life
        /\ (Present(turn.node) /\ client[turn.node].life = turn.life) =>
                client[turn.node].wants = turn.peer

\* An id is that of one pair.
IdsOK ==
    \A pair \in Pairs : Exists(pair) =>
        /\ sessions[pair].id # 0
        /\ \A other \in Pairs :
              (Exists(other) /\ sessions[other].id = sessions[pair].id) => other = pair

\* What a process has been offered, as long as it is there, is a session of its
\* pair.
OffersOK ==
    \A node \in Nodes : Present(node) =>
        \A pair \in Pairs :
            (Exists(pair) /\ sessions[pair].id = client[node].offer) => pair = PairOf(node)

\* Who is still there and has said HELLO for a session that is there, holds its
\* offer.
HellosOK ==
    \A m \in net : m.type = "RELAY_HELLO" =>
        /\ m.life <= client[m.node].life
        /\ (Present(m.node) /\ client[m.node].life = m.life) =>
              \A pair \in Pairs : (Exists(pair) /\ sessions[pair].id = m.id) =>
                  pair = PairOf(m.node) /\ client[m.node].offer = m.id

\* A process that is bound holds the offer of the session it is bound to.
BoundOK ==
    \A pair \in Pairs : Exists(pair) =>
        \A node \in pair :
            /\ sessions[pair].bound[node] <= client[node].life
            /\ (Present(node) /\ client[node].life = sessions[pair].bound[node]) =>
                  pair = PairOf(node) /\ client[node].offer = sessions[pair].id

IInv == TypeOK /\ ClientsOK /\ TurnOK /\ IdsOK /\ OffersOK /\ HellosOK /\ BoundOK

LEMMA InitIInv == Init => IInv
<1> SUFFICES ASSUME Init PROVE IInv  OBVIOUS
<1>1. TypeOK
  BY DEF Init, TypeOK, ClientType, Off, PortValues, Exists
<1>2. (\A node \in Nodes : ~Present(node)) /\ (\A pair \in Pairs : ~Exists(pair))
  BY DEF Init, Off, Present, Exists
<1> QED
  BY <1>1, <1>2 DEF Init, IInv, ClientsOK, TurnOK, IdsOK, OffersOK, HellosOK, BoundOK

LEMMA PairFacts ==
    /\ \A pair \in Pairs : pair \subseteq Nodes
    /\ \A a, b \in Nodes : a # b => {a, b} \in Pairs
<1>1. \A pair \in Pairs : pair \subseteq Nodes
  BY DEF Pairs
<1>2. ASSUME NEW a \in Nodes, NEW b \in Nodes, a # b
      PROVE  {a, b} \in Pairs
  <2>1. IsFiniteSet({a}) /\ Cardinality({a}) = 1
    BY FS_Singleton
  <2>2. Cardinality({a} \cup {b}) = 2
    BY <1>2, <2>1, FS_AddElement
  <2>3. {a} \cup {b} = {a, b}
    OBVIOUS
  <2> QED  BY <2>2, <2>3 DEF Pairs
<1> QED  BY <1>1, <1>2

\* What is carried was on its way or has been posted.
LEMMA CarryFacts ==
    ASSUME NEW taken, NEW posted
    PROVE  Carry(taken, posted) \subseteq (net \cup posted)
BY DEF Carry

\* Every session stays, is stopped, or is finished, which no one is bound by.
Kept(pair) ==
    \/ ~Exists(pair)'
    \/ /\ Exists(pair)
       /\ sessions'[pair].id = sessions[pair].id
       /\ sessions'[pair].bound = sessions[pair].bound

\* A process goes, is followed by another one, or keeps what it has.
Moved(node) ==
    \/ ~Present(node)' /\ client'[node].life = client[node].life
    \/ /\ client'[node].life > client[node].life
       /\ client'[node].offer = 0
       /\ client'[node].wants \in Nodes \ {node}
    \/ /\ Present(node)
       /\ client'[node].life = client[node].life
       /\ client'[node].wants = client[node].wants
       /\ client'[node].offer = client[node].offer

\* The steps in which nothing is offered, said or bound.
LEMMA Quietly ==
    ASSUME IInv, TypeOK', turn' \in {turn, Idle},
           \A pair \in Pairs : Kept(pair), \A node \in Nodes : Moved(node),
           \A m \in net' : m \in net \/ m.type # "RELAY_HELLO"
    PROVE  IInv'
<1>0. /\ \A node \in Nodes : client[node].life \in Nat /\ client'[node].life \in Nat
      /\ \A m \in net : m.life \in Nat /\ m.node \in Nodes /\ m.id \in Nat
      /\ \A pair \in Pairs : pair \subseteq Nodes
      /\ \A pair \in Pairs : Exists(pair) => sessions[pair].bound \in [pair -> Nat]
      /\ \A pair \in Pairs : Exists(pair) => sessions[pair].id \in Nat
  BY PairFacts DEF IInv, TypeOK, ClientType, DatagramType, SessionType
<1>1. ClientsOK'
  BY <1>0 DEF IInv, ClientsOK, Moved, Present
<1>2. TurnOK'
  <2>1. CASE turn' = Idle
    BY <2>1 DEF TurnOK
  <2>2. CASE turn' = turn /\ turn # Idle
    <3>1. turn.node \in Nodes /\ turn.life \in Nat /\ Moved(turn.node)
      BY <2>2 DEF IInv, TypeOK, TurnType
    <3> QED  BY <1>0, <2>2, <3>1 DEF IInv, TurnOK, Moved, Present
  <2> QED  BY <2>1, <2>2
<1>3. IdsOK'
  BY DEF IInv, IdsOK, Kept
<1>4. OffersOK'
  <2> SUFFICES ASSUME NEW node \in Nodes, Present(node)',
                      NEW pair \in Pairs, Exists(pair)', sessions'[pair].id = client'[node].offer
               PROVE  pair = PairOf(node)'
    BY DEF OffersOK
  <2>1. Exists(pair) /\ sessions'[pair].id = sessions[pair].id
    BY DEF Kept
  <2>2. /\ Present(node)
        /\ client'[node].wants = client[node].wants
        /\ client'[node].offer = client[node].offer
    BY <2>1 DEF IInv, IdsOK, Moved
  <2> QED  BY <2>1, <2>2 DEF IInv, OffersOK, PairOf
<1>5. HellosOK'
  <2> SUFFICES ASSUME NEW m \in net', m.type = "RELAY_HELLO"
               PROVE  /\ m.life <= client'[m.node].life
                      /\ (Present(m.node)' /\ client'[m.node].life = m.life) =>
                            \A pair \in Pairs : (Exists(pair)' /\ sessions'[pair].id = m.id) =>
                                pair = PairOf(m.node)' /\ client'[m.node].offer = m.id
    BY DEF HellosOK
  <2>1. m \in net /\ m.node \in Nodes /\ Moved(m.node)
    BY <1>0
  <2> QED  BY <1>0, <2>1 DEF IInv, HellosOK, Kept, Moved, Present, PairOf
<1>6. BoundOK'
  <2> SUFFICES ASSUME NEW pair \in Pairs, Exists(pair)', NEW node \in pair
               PROVE  /\ sessions'[pair].bound[node] <= client'[node].life
                      /\ (Present(node)' /\ client'[node].life = sessions'[pair].bound[node]) =>
                            pair = PairOf(node)' /\ client'[node].offer = sessions'[pair].id
    BY DEF BoundOK
  <2>1. /\ node \in Nodes /\ Moved(node) /\ Exists(pair)
        /\ sessions'[pair].id = sessions[pair].id
        /\ sessions'[pair].bound[node] = sessions[pair].bound[node]
        /\ sessions[pair].bound[node] \in Nat
    BY <1>0 DEF Kept
  <2> QED  BY <1>0, <2>1 DEF IInv, BoundOK, Moved, Present, PairOf
<1> QED  BY <1>1, <1>2, <1>3, <1>4, <1>5, <1>6 DEF IInv

-----------------------------------------------------------------------------
(* Parts of steps.                                                          *)

SessionsTyped(table) ==
    /\ table = [pair \in Pairs |-> table[pair]]
    /\ \A pair \in Pairs : table[pair] # NoSession => table[pair] \in SessionType(pair)

LEMMA PurgeFacts ==
    ASSUME NEW table, SessionsTyped(table)
    PROVE  /\ SessionsTyped(Purged(table)) /\ SessionsTyped(Cleaned(table))
           /\ \A pair \in Pairs :
                /\ Purged(table)[pair] \in {table[pair], NoSession}
                /\ Cleaned(table)[pair] \in {table[pair], NoSession}
BY DEF SessionsTyped, Purged, Cleaned

LEMMA TypedFacts ==
    TypeOK <=> /\ client \in [Nodes -> ClientType]
               /\ SessionsTyped(sessions)
               /\ turn = Idle \/ turn \in TurnType
               /\ net \subseteq DatagramType
BY DEF TypeOK, SessionsTyped, Exists

\* Sessions are only stopped.
LEMMA StoppedOnly ==
    ASSUME NEW pair \in Pairs, sessions'[pair] \in {sessions[pair], NoSession}
    PROVE  Kept(pair)
BY DEF Kept, Exists

LEMMA SameClients ==
    ASSUME IInv, client' = client
    PROVE  \A node \in Nodes : Moved(node)
BY DEF Moved, Present, IInv, TypeOK, ClientType

LEMMA EnterFacts ==
    ASSUME IInv, NEW node \in Nodes, Present(node),
           client' = [client EXCEPT ![node].phase = "tunnel"]
    PROVE  client' \in [Nodes -> ClientType] /\ \A other \in Nodes : Moved(other)
BY DEF IInv, TypeOK, ClientType, Moved, Present

LEMMA RejectedFacts ==
    ASSUME IInv, NEW node \in Nodes, Rejected(node)
    PROVE  client' \in [Nodes -> ClientType] /\ \A other \in Nodes : Moved(other)
<1> DEFINE off == Off(client[node].life)
           new == [off EXCEPT !.phase = "refused"]
<1>0. client[node].life \in Nat
  <2> HIDE DEF new
  <2> QED  BY DEF IInv, TypeOK, ClientType
<1>1. off \in ClientType /\ off.life = client[node].life
  BY <1>0 DEF Off, ClientType, PortValues
<1>2. client' = [client EXCEPT ![node] = new]
  BY DEF Rejected
<1> HIDE DEF off
<1>3. new \in ClientType /\ new.life = client[node].life /\ new.phase = "refused"
  BY <1>1 DEF ClientType
<1> HIDE DEF new
<1> QED  BY <1>2, <1>3 DEF IInv, TypeOK, Moved, Present

LEMMA GoneFacts ==
    ASSUME IInv, NEW node \in Nodes, Gone(node)
    PROVE  /\ client' \in [Nodes -> ClientType] /\ \A other \in Nodes : Moved(other)
           /\ net' \subseteq net
<1>1. net' \subseteq net
  BY CarryFacts DEF Gone
<1>2. client' \in [Nodes -> ClientType]
  BY DEF Gone, Off, IInv, TypeOK, ClientType, PortValues
<1>3. \A other \in Nodes : Moved(other)
  BY DEF Gone, Off, IInv, TypeOK, ClientType, Moved, Present
<1> QED  BY <1>1, <1>2, <1>3

-----------------------------------------------------------------------------
(* One lemma per action.                                                    *)

LEMMA SendHelloStep == ASSUME IInv, NEW node \in Nodes, SendHello(node) PROVE IInv'
<1> DEFINE hello == [Datagram("RELAY_HELLO", node, client[node].life)
                        EXCEPT !.id = client[node].offer, !.port = client[node].port]
<1>1. /\ hello \in DatagramType /\ hello.node = node
      /\ hello.life = client[node].life /\ hello.id = client[node].offer
  BY DEF Datagram, DatagramType, IInv, TypeOK, ClientType, PortValues
<1>2. net' \subseteq net \cup {hello}
  BY CarryFacts DEF SendHello
<1>3. /\ client' = client /\ sessions' = sessions /\ turn' = turn
      /\ Present(node) /\ client[node].offer # 0 /\ client[node].offer \in Nat
      /\ client[node].life \in Nat
  BY DEF SendHello, Trying, Present, IInv, TypeOK, ClientType
<1> HIDE DEF hello
<1>4. TypeOK'
  BY <1>1, <1>2, <1>3 DEF IInv, TypeOK, Exists
<1>5. HellosOK'
  <2> SUFFICES ASSUME NEW m \in net', m.type = "RELAY_HELLO"
               PROVE  /\ m.life <= client[m.node].life
                      /\ (Present(m.node) /\ client[m.node].life = m.life) =>
                            \A pair \in Pairs : (Exists(pair) /\ sessions[pair].id = m.id) =>
                                pair = PairOf(m.node) /\ client[m.node].offer = m.id
    BY <1>3 DEF HellosOK, Present, Exists, PairOf
  <2>1. CASE m \in net
    BY <2>1 DEF IInv, HellosOK
  <2>2. CASE m = hello
    BY <1>1, <1>3, <2>2 DEF IInv, OffersOK
  <2> QED  BY <1>2, <2>1, <2>2
<1> QED
  BY <1>3, <1>4, <1>5 DEF IInv, ClientsOK, TurnOK, IdsOK, OffersOK, BoundOK, Present, Exists, PairOf

LEMMA TakeReadyStep == ASSUME IInv, NEW m \in net, TakeReady(m) PROVE IInv'
<1>1. m.node \in Nodes /\ net' \subseteq net
  BY CarryFacts DEF TakeReady, IInv, TypeOK, DatagramType
<1>2. client' \in [Nodes -> ClientType] /\ \A node \in Nodes : Moved(node)
  <2>1. CASE Accepts(m)
    BY <1>1, <2>1, EnterFacts DEF TakeReady, Accepts, Trying, Present
  <2>2. CASE ~Accepts(m)
    <3>1. client' = client
      BY <1>1, <2>2 DEF TakeReady, IInv, TypeOK, ClientType
    <3> QED  BY <3>1, SameClients DEF IInv, TypeOK
  <2> QED  BY <2>1, <2>2
<1>3. TypeOK'
  BY <1>1, <1>2 DEF TakeReady, IInv, TypeOK, Exists
<1>4. \A pair \in Pairs : Kept(pair)
  BY DEF TakeReady, Kept, Exists
<1> QED  BY <1>1, <1>2, <1>3, <1>4, Quietly DEF TakeReady

LEMMA JoiningFacts ==
    ASSUME NEW life \in Nat, NEW wants \in Nat
    PROVE  /\ Joining(life, wants) \in ClientType
           /\ Joining(life, wants).life = life
           /\ Joining(life, wants).offer = 0
           /\ Joining(life, wants).wants = wants
<1> DEFINE off == Off(life)
           first == [off EXCEPT !.phase = "joining"]
           second == [first EXCEPT !.wants = wants]
<1>1. off \in ClientType /\ off.life = life /\ off.offer = 0
  BY DEF Off, ClientType, PortValues
<1> HIDE DEF off
<1>2. first \in ClientType /\ first.life = life /\ first.offer = 0
  BY <1>1 DEF ClientType
<1> HIDE DEF first
<1>3. second \in ClientType /\ second.life = life /\ second.offer = 0 /\ second.wants = wants
  BY <1>2 DEF ClientType
<1>4. second = Joining(life, wants)
  BY DEF second, first, off, Joining
<1> HIDE DEF second
<1> QED  BY <1>3, <1>4

LEMMA StartStep ==
    ASSUME IInv, NEW node \in Nodes, NEW wants \in Nodes \ {node}, Start(node, wants)
    PROVE  IInv'
<1> DEFINE new == Joining(client[node].life + 1, wants)
<1>0. client[node].life + 1 \in Nat /\ wants \in Nat
  <2> HIDE DEF new
  <2> QED  BY NodesAssumption DEF IInv, TypeOK, ClientType
<1>1. /\ new \in ClientType /\ new.life = client[node].life + 1
      /\ new.offer = 0 /\ new.wants = wants
  BY <1>0, JoiningFacts
<1>2. client' = [client EXCEPT ![node] = new]
  BY DEF Start
<1> HIDE DEF new
<1>3. client' \in [Nodes -> ClientType]
  BY <1>1, <1>2 DEF IInv, TypeOK
<1>4. \A other \in Nodes : Moved(other)
  BY <1>1, <1>2 DEF IInv, TypeOK, ClientType, Moved, Present
<1>5. TypeOK'
  BY <1>3 DEF Start, IInv, TypeOK, Exists
<1>6. \A pair \in Pairs : Kept(pair)
  BY DEF Start, Kept, Exists
<1> QED  BY <1>4, <1>5, <1>6, Quietly DEF Start

LEMMA RefuseStep == ASSUME IInv, NEW node \in Nodes, Refuse(node) PROVE IInv'
<1>1. client' \in [Nodes -> ClientType] /\ \A other \in Nodes : Moved(other)
  BY RejectedFacts DEF Refuse
<1>2. TypeOK'
  BY <1>1 DEF Refuse, IInv, TypeOK, Exists
<1>3. \A pair \in Pairs : Kept(pair)
  BY DEF Refuse, Kept, Exists
<1> QED  BY <1>1, <1>2, <1>3, Quietly DEF Refuse

LEMMA LeaveStep ==
    ASSUME IInv, NEW node \in Nodes, Leave(node) \/ Crash(node) PROVE IInv'
<1>1. /\ client' \in [Nodes -> ClientType] /\ \A other \in Nodes : Moved(other)
      /\ net' \subseteq net /\ turn' = turn
  BY GoneFacts DEF Leave, Crash, Gone
<1>2. /\ SessionsTyped(sessions')
      /\ \A pair \in Pairs : sessions'[pair] \in {sessions[pair], NoSession}
  <2>1. CASE Leave(node)
    <3>1. /\ SessionsTyped(RemovePeer(sessions, node))
          /\ \A pair \in Pairs : RemovePeer(sessions, node)[pair] \in {sessions[pair], NoSession}
      BY TypedFacts DEF IInv, RemovePeer, StopSession, SessionsTyped
    <3> QED  BY <2>1, <3>1, PurgeFacts DEF Leave
  <2>2. CASE Crash(node)
    BY <2>2, TypedFacts DEF Crash, IInv
  <2> QED  BY <2>1, <2>2
<1>3. TypeOK'
  BY <1>1, <1>2 DEF IInv, TypeOK, SessionsTyped, Exists
<1> QED  BY <1>1, <1>2, <1>3, StoppedOnly, Quietly

LEMMA JoinStep == ASSUME IInv, NEW node \in Nodes, Join(node) PROVE IInv'
<1>1. /\ SessionsTyped(sessions')
      /\ \A pair \in Pairs : sessions'[pair] \in {sessions[pair], NoSession}
  BY PurgeFacts, TypedFacts DEF Join, IInv
<1>2. /\ Present(node) /\ client[node].wants \in Nodes \ {node} /\ client[node].life \in Nat
      /\ turn' = [node |-> node, life |-> client[node].life, peer |-> client[node].wants]
      /\ UNCHANGED <<client, net>>
  BY DEF Join, RelayJoin, Trying, Present, IInv, TypeOK, ClientType, ClientsOK
<1>3. TypeOK'
  BY <1>1, <1>2 DEF IInv, TypeOK, SessionsTyped, Exists, TurnType
<1>4. TurnOK'
  BY <1>2 DEF TurnOK, Present
<1>5. \A pair \in Pairs : Kept(pair)
  BY <1>1, StoppedOnly
<1>6. ClientsOK' /\ OffersOK' /\ HellosOK' /\ BoundOK' /\ IdsOK'
  BY <1>2, <1>5 DEF IInv, ClientsOK, OffersOK, HellosOK, BoundOK, IdsOK, Kept, Present, PairOf
<1> QED  BY <1>3, <1>4, <1>6 DEF IInv

LEMMA SnapshotStep == ASSUME IInv, Snapshot PROVE IInv'
<1>1. /\ SessionsTyped(sessions')
      /\ \A pair \in Pairs : sessions'[pair] \in {sessions[pair], NoSession}
  BY PurgeFacts, TypedFacts DEF Snapshot, IInv
<1>2. TypeOK'
  BY <1>1 DEF Snapshot, IInv, TypeOK, SessionsTyped, Exists
<1> QED  BY <1>1, <1>2, StoppedOnly, SameClients, Quietly DEF Snapshot

LEMMA ExpireStep == ASSUME IInv, NEW pair \in Pairs, Expire(pair) PROVE IInv'
<1>1. Exists(pair) /\ sessions[pair] \in SessionType(pair)
  BY DEF Expire, Working, IInv, TypeOK
<1>2. \A other \in Pairs :
        sessions'[other] = IF other = pair THEN [sessions[pair] EXCEPT !.finished = TRUE]
                           ELSE sessions[other]
  BY DEF Expire, IInv, TypeOK
<1>3. [sessions[pair] EXCEPT !.finished = TRUE] \in SessionType(pair)
  BY <1>1 DEF SessionType
<1>4. sessions' = [other \in Pairs |-> sessions'[other]]
  BY DEF Expire, IInv, TypeOK
<1>5. TypeOK'
  BY <1>2, <1>3, <1>4 DEF Expire, IInv, TypeOK, Exists
<1>6. \A other \in Pairs : Kept(other)
  BY <1>1, <1>2 DEF Kept, Exists, SessionType
<1> QED  BY <1>5, <1>6, SameClients, Quietly DEF Expire

LEMMA DroppedStep ==
    ASSUME IInv, net' \subseteq net, UNCHANGED <<client, sessions, turn>>
    PROVE  IInv'
<1>1. TypeOK' /\ \A pair \in Pairs : Kept(pair)
  BY DEF IInv, TypeOK, Exists, Kept
<1> QED  BY <1>1, SameClients, Quietly

LEMMA TakeHelloStep ==
    ASSUME IInv, NEW pair \in Pairs, NEW m \in net, TakeHello(pair, m)
    PROVE  IInv'
<1>1. CASE ~Credentials(m, pair)
  <2>1. net' \subseteq net /\ UNCHANGED <<client, sessions, turn>>
    BY <1>1, CarryFacts DEF TakeHello, Bind
  <2> QED  BY <2>1, DroppedStep
<1>2. CASE Credentials(m, pair) /\ Bind(m, pair)
  <2> DEFINE bound == [sessions[pair].bound EXCEPT ![m.node] = m.life]
             held == [sessions[pair] EXCEPT
                        !.bound = bound,
                        !.ready = @ \/ \A node \in pair : bound[node] # 0]
             posted == ToClients(SendReady(pair, held))
  <2>1. /\ m.node \in pair /\ m.node \in Nodes /\ m.id = sessions[pair].id
        /\ m.life \in Nat /\ m.type = "RELAY_HELLO"
        /\ Exists(pair) /\ sessions[pair] \in SessionType(pair)
        /\ UNCHANGED <<client, turn>>
    BY <1>2 DEF Credentials, TakeHello, Working, IInv, TypeOK, DatagramType
  <2>2. bound \in [pair -> Nat]
    BY <2>1 DEF SessionType
  <2>3. (sessions[pair].ready \/ \A node \in pair : bound[node] # 0) \in BOOLEAN
    BY <2>1 DEF SessionType
  <2>4. /\ held \in SessionType(pair) /\ held.id = sessions[pair].id /\ held.bound = bound
        /\ held.port \in PortValues /\ held.id \in Nat
    <3> HIDE DEF bound
    <3> QED  BY <2>1, <2>2, <2>3 DEF SessionType
  <2>5. sessions' = [sessions EXCEPT ![pair] = held] /\ net' = Carry({m}, posted)
    BY <1>2 DEF Bind
  <2>6. posted \subseteq DatagramType /\ \A r \in posted : r.type = "RELAY_READY"
    <3> HIDE DEF held, bound
    <3>1. SUFFICES ASSUME NEW r \in SendReady(pair, held)
                   PROVE  r \in DatagramType /\ r.type = "RELAY_READY"
      BY DEF ToClients
    <3>2. PICK node \in pair :
              r = [Datagram("RELAY_READY", node, held.bound[node])
                      EXCEPT !.id = held.id, !.port = held.port]
      BY DEF SendReady
    <3>3. node \in Nodes /\ held.bound[node] \in Nat
      BY <2>2, <2>4, PairFacts
    <3> QED  BY <2>4, <3>2, <3>3 DEF Datagram, DatagramType
  <2>7. net' \subseteq DatagramType /\ \A r \in net' : r \in net \/ r.type # "RELAY_HELLO"
    <3> HIDE DEF posted
    <3> QED  BY <2>5, <2>6, CarryFacts DEF IInv, TypeOK
  <2> HIDE DEF posted, held
  <2>8. \A other \in Pairs : sessions'[other] = IF other = pair THEN held ELSE sessions[other]
    BY <2>5 DEF IInv, TypeOK
  <2>9. \A other \in Pairs : Exists(other)' => (Exists(other) /\ sessions'[other].id = sessions[other].id)
    BY <2>1, <2>4, <2>8 DEF Exists
  <2>10. sessions' = [other \in Pairs |-> sessions'[other]]
    BY <2>5 DEF IInv, TypeOK
  <2>11. TypeOK'
    BY <2>1, <2>4, <2>7, <2>8, <2>10 DEF IInv, TypeOK, Exists
  <2>12. /\ m.life <= client[m.node].life
         /\ (Present(m.node) /\ client[m.node].life = m.life) =>
                pair = PairOf(m.node) /\ client[m.node].offer = m.id
    BY <2>1 DEF IInv, HellosOK
  <2>13. BoundOK'
    <3> SUFFICES ASSUME NEW other \in Pairs, Exists(other)', NEW node \in other
                 PROVE  /\ sessions'[other].bound[node] <= client[node].life
                        /\ (Present(node) /\ client[node].life = sessions'[other].bound[node]) =>
                              other = PairOf(node) /\ client[node].offer = sessions'[other].id
      BY <2>1 DEF BoundOK, Present, PairOf
    <3>1. CASE other # pair
      BY <3>1, <2>8, <2>9 DEF IInv, BoundOK, Exists
    <3>2. CASE other = pair /\ node # m.node
      <4>1. sessions'[other].bound[node] = sessions[pair].bound[node]
        BY <3>2, <2>1, <2>4, <2>8 DEF SessionType
      <4> QED  BY <3>2, <4>1, <2>1, <2>9 DEF IInv, BoundOK
    <3>3. CASE other = pair /\ node = m.node
      <4>1. sessions'[other].bound[node] = m.life
        BY <3>3, <2>1, <2>4, <2>8 DEF SessionType
      <4> QED  BY <3>3, <4>1, <2>1, <2>9, <2>12
    <3> QED  BY <3>1, <3>2, <3>3
  <2>14. HellosOK'
    BY <2>1, <2>7, <2>9 DEF IInv, HellosOK, Present, PairOf
  <2> QED
    BY <2>1, <2>9, <2>11, <2>13, <2>14
       DEF IInv, ClientsOK, TurnOK, IdsOK, OffersOK, Present, PairOf
<1> QED  BY <1>1, <1>2 DEF TakeHello

LEMMA ArriveStep == ASSUME IInv, NEW m \in net, Arrive(m) \/ Lose(m) PROVE IInv'
<1>1. CASE Stray(m) \/ Lose(m)
  <2>1. net' \subseteq net /\ UNCHANGED <<client, sessions, turn>>
    BY <1>1, CarryFacts DEF Stray, Lose
  <2> QED  BY <2>1, DroppedStep
<1> QED  BY <1>1, TakeReadyStep, TakeHelloStep DEF Arrive

-----------------------------------------------------------------------------
(* The answer to a join.                                                    *)

\* The node keeps its offer, or is offered the id for its pair.
Offered(node, pair, id) ==
    /\ client'[node].phase = client[node].phase
    /\ client'[node].life = client[node].life
    /\ client'[node].wants = client[node].wants
    /\ \/ client'[node].offer = client[node].offer
       \/ client'[node].offer = id /\ pair = PairOf(node)

\* The id is that of the pair's session, which is as it was, or new.
Answered(other, pair, id) ==
    /\ sessions'[other].id = id <=> other = pair
    /\ \/ /\ Exists(other)
          /\ sessions'[other].id = sessions[other].id
          /\ sessions'[other].bound = sessions[other].bound
       \/ /\ other = pair
          /\ id \notin HeldIds
          /\ \A node \in pair : sessions'[pair].bound[node] = 0

\* The answer to a join: a process that is offered a session of its pair while
\* one is served has the offer already, and a new id is known to nobody.
LEMMA OfferStep ==
    ASSUME IInv, TypeOK', NEW pair \in Pairs, NEW id \in Nat \ {0},
           turn' = Idle, net' = net,
           \A node \in Nodes : Offered(node, pair, id),
           \A other \in Pairs : Exists(other)' => Answered(other, pair, id)
    PROVE  IInv'
<1>0. /\ \A node \in Nodes : client[node].life \in Nat
      /\ \A p \in Pairs : p \subseteq Nodes
      /\ \A m \in net : m.life \in Nat /\ m.node \in Nodes
      /\ \A node \in Nodes : (Present(node)' <=> Present(node)) /\ PairOf(node)' = PairOf(node)
      /\ \A node \in Nodes : client'[node].life = client[node].life
  BY PairFacts DEF IInv, TypeOK, ClientType, DatagramType, Offered, Present, PairOf
<1>1. /\ \A node \in Nodes : client[node].offer \in HeldIds
      /\ \A m \in net : m.id \in HeldIds
  BY DEF HeldIds
<1>2. ClientsOK' /\ TurnOK'
  BY <1>0 DEF IInv, ClientsOK, TurnOK, Offered
<1>3. IdsOK'
  <2> SUFFICES ASSUME NEW p \in Pairs, Exists(p)'
               PROVE  /\ sessions'[p].id # 0
                      /\ \A q \in Pairs : (Exists(q)' /\ sessions'[q].id = sessions'[p].id) => q = p
    BY DEF IdsOK
  <2>1. CASE p = pair
    BY <2>1 DEF Answered
  <2>2. CASE p # pair
    <3>1. Exists(p) /\ sessions'[p].id = sessions[p].id /\ sessions'[p].id # id
      BY <2>2 DEF Answered
    <3>2. ASSUME NEW q \in Pairs, Exists(q)', sessions'[q].id = sessions'[p].id PROVE q = p
      <4>1. Exists(q) /\ sessions'[q].id = sessions[q].id
        BY <3>1, <3>2 DEF Answered
      <4> QED  BY <3>1, <3>2, <4>1 DEF IInv, IdsOK
    <3> QED  BY <3>1, <3>2 DEF IInv, IdsOK
  <2> QED  BY <2>1, <2>2
<1>4. OffersOK'
  <2> SUFFICES ASSUME NEW o \in Nodes, Present(o),
                      NEW p \in Pairs, Exists(p)', sessions'[p].id = client'[o].offer
               PROVE  p = PairOf(o)
    BY <1>0 DEF OffersOK
  <2>1. CASE client'[o].offer = id /\ pair = PairOf(o)
    BY <2>1 DEF Answered
  <2>2. CASE client'[o].offer = client[o].offer
    <3>1. id \in HeldIds \/ client[o].offer # id
      BY <1>1
    <3>2. Exists(p) /\ sessions[p].id = client[o].offer
      BY <2>2, <1>1 DEF Answered
    <3> QED  BY <3>2 DEF IInv, OffersOK
  <2> QED  BY <2>1, <2>2 DEF Offered
<1>5. HellosOK'
  <2> SUFFICES ASSUME NEW m \in net, m.type = "RELAY_HELLO"
               PROVE  /\ m.life <= client[m.node].life
                      /\ (Present(m.node) /\ client[m.node].life = m.life) =>
                            \A p \in Pairs : (Exists(p)' /\ sessions'[p].id = m.id) =>
                                p = PairOf(m.node) /\ client'[m.node].offer = m.id
    BY <1>0 DEF HellosOK
  <2>1. m.life <= client[m.node].life
    BY DEF IInv, HellosOK
  <2>2. ASSUME Present(m.node), client[m.node].life = m.life,
               NEW p \in Pairs, Exists(p)', sessions'[p].id = m.id
        PROVE  p = PairOf(m.node) /\ client'[m.node].offer = m.id
    <3>1. Exists(p) /\ sessions[p].id = m.id
      BY <2>2, <1>1 DEF Answered
    <3>2. p = PairOf(m.node) /\ client[m.node].offer = m.id
      BY <2>2, <3>1 DEF IInv, HellosOK
    <3>3. CASE client'[m.node].offer = client[m.node].offer
      BY <3>2, <3>3
    <3>4. CASE client'[m.node].offer = id /\ pair = PairOf(m.node)
      BY <2>2, <3>2, <3>4 DEF Answered
    <3> QED  BY <1>0, <3>2, <3>3, <3>4 DEF Offered
  <2> QED  BY <2>1, <2>2
<1>6. BoundOK'
  <2> SUFFICES ASSUME NEW p \in Pairs, Exists(p)', NEW o \in p
               PROVE  /\ sessions'[p].bound[o] <= client[o].life
                      /\ (Present(o) /\ client[o].life = sessions'[p].bound[o]) =>
                            p = PairOf(o) /\ client'[o].offer = sessions'[p].id
    BY <1>0 DEF BoundOK
  <2>0. o \in Nodes
    BY <1>0
  <2>1. CASE /\ Exists(p) /\ sessions'[p].id = sessions[p].id
             /\ sessions'[p].bound = sessions[p].bound
    <3>1. sessions'[p].bound[o] <= client[o].life
      BY <2>1 DEF IInv, BoundOK
    <3>2. ASSUME Present(o), client[o].life = sessions'[p].bound[o]
          PROVE  p = PairOf(o) /\ client'[o].offer = sessions'[p].id
      <4>1. p = PairOf(o) /\ client[o].offer = sessions[p].id
        BY <2>1, <3>2 DEF IInv, BoundOK
      <4>2. CASE client'[o].offer = client[o].offer
        BY <2>1, <4>1, <4>2
      <4>3. CASE client'[o].offer = id /\ pair = PairOf(o)
        BY <4>1, <4>3 DEF Answered
      <4> QED  BY <2>0, <4>1, <4>2, <4>3 DEF Offered
    <3> QED  BY <3>1, <3>2
  <2>2. CASE sessions'[p].bound[o] = 0
    <3>1. Present(o) => client[o].life # 0
      BY <2>0 DEF IInv, ClientsOK
    <3> QED  BY <1>0, <2>0, <2>2, <3>1
  <2> QED  BY <2>1, <2>2 DEF Answered
<1> QED  BY <1>2, <1>3, <1>4, <1>5, <1>6 DEF IInv

LEMMA OfferFacts ==
    ASSUME IInv, turn # Idle, Asks(turn), NEW held,
           held.id \in Nat, held.port \in PortValues, TakeOffer(held)
    PROVE  /\ client' \in [Nodes -> ClientType]
           /\ \A node \in Nodes : Offered(node, {turn.node, turn.peer}, held.id)
<1> DEFINE first == [client EXCEPT ![turn.node].offer = held.id]
           second == [first EXCEPT ![turn.node].port = held.port]
<1>0. turn.node \in Nodes
  BY DEF IInv, TypeOK, TurnType
<1>1. /\ first \in [Nodes -> ClientType]
      /\ first[turn.node].offer = held.id
      /\ \A node \in Nodes :
            /\ first[node].phase = client[node].phase
            /\ first[node].life = client[node].life
            /\ first[node].wants = client[node].wants
            /\ node # turn.node => first[node].offer = client[node].offer
  BY <1>0 DEF IInv, TypeOK, ClientType
<1>2. /\ second \in [Nodes -> ClientType]
      /\ second[turn.node].offer = first[turn.node].offer
      /\ \A node \in Nodes :
            /\ second[node].phase = first[node].phase
            /\ second[node].life = first[node].life
            /\ second[node].wants = first[node].wants
            /\ node # turn.node => second[node].offer = first[node].offer
  <2> HIDE DEF first
  <2> QED  BY <1>0, <1>1 DEF ClientType
<1>3. client' = second
  BY DEF TakeOffer
<1>4. {turn.node, turn.peer} = PairOf(turn.node)
  BY DEF Asks, Trying, Present, PairOf, IInv, TurnOK
<1> HIDE DEF first, second
<1> QED  BY <1>1, <1>2, <1>3, <1>4 DEF Offered

LEMMA NewFacts ==
    ASSUME NEW pair \in Pairs, NEW id \in Nat, NEW port \in PortValues
    PROVE  /\ NewSession(pair, id, port) \in SessionType(pair)
           /\ NewSession(pair, id, port).id = id
           /\ NewSession(pair, id, port).port = port
           /\ \A node \in pair : NewSession(pair, id, port).bound[node] = 0
           /\ ~NewSession(pair, id, port).finished
           /\ id # 0 => NewSession(pair, id, port) # NoSession
BY DEF NewSession, SessionType, NoSession

\* A session that is there is offered, or a new one, or the join is refused.
LEMMA AnswerStep == ASSUME IInv, AnswerJoin PROVE IInv'
<1> DEFINE pair == {turn.node, turn.peer}
           free == Ports \ BoundPorts
           id == CHOOSE i \in Ids \ HeldIds : TRUE
           new == NewSession(pair, id, Lowest(free))
           table == [sessions EXCEPT ![pair] = new]
<1>1. /\ turn # Idle /\ turn' = Idle /\ net' = net
      /\ turn.node \in Nodes /\ turn.peer \in Nodes /\ pair \in Pairs
  BY PairFacts DEF AnswerJoin, IInv, TypeOK, TurnType, TurnOK
<1>2. CASE sessions' = Purged(sessions) /\ client' = client
  <2>1. /\ SessionsTyped(sessions')
        /\ \A p \in Pairs : sessions'[p] \in {sessions[p], NoSession}
    BY <1>2, PurgeFacts, TypedFacts DEF IInv
  <2>2. TypeOK'
    BY <1>1, <1>2, <2>1 DEF IInv, TypeOK, SessionsTyped, Exists
  <2> QED  BY <1>1, <1>2, <2>1, <2>2, StoppedOnly, SameClients, Quietly
<1>3. CASE sessions' = Purged(sessions) /\ Rejected(turn.node)
  <2>1. /\ SessionsTyped(sessions')
        /\ \A p \in Pairs : sessions'[p] \in {sessions[p], NoSession}
    BY <1>3, PurgeFacts, TypedFacts DEF IInv
  <2>2. client' \in [Nodes -> ClientType] /\ \A node \in Nodes : Moved(node)
    BY <1>1, <1>3, RejectedFacts
  <2>3. TypeOK'
    BY <1>1, <1>3, <2>1, <2>2 DEF IInv, TypeOK, SessionsTyped, Exists
  <2> QED  BY <1>1, <1>3, <2>1, <2>2, <2>3, StoppedOnly, Quietly
<1>4. CASE /\ Exists(pair) /\ sessions' = Purged(sessions)
           /\ Asks(turn) /\ TakeOffer(sessions[pair])
  <2>1. /\ SessionsTyped(sessions')
        /\ \A p \in Pairs : sessions'[p] \in {sessions[p], NoSession}
    BY <1>4, PurgeFacts, TypedFacts DEF IInv
  <2>2. sessions[pair].id \in Nat \ {0} /\ sessions[pair].port \in PortValues
    BY <1>1, <1>4 DEF IInv, TypeOK, IdsOK, SessionType
  <2>3. /\ client' \in [Nodes -> ClientType]
        /\ \A node \in Nodes : Offered(node, pair, sessions[pair].id)
    BY <1>1, <1>4, <2>2, OfferFacts
  <2>4. TypeOK'
    BY <1>1, <1>4, <2>1, <2>3 DEF IInv, TypeOK, SessionsTyped, Exists
  <2>5. ASSUME NEW other \in Pairs, Exists(other)'
        PROVE  Answered(other, pair, sessions[pair].id)
    <3>1. sessions'[other] = sessions[other] /\ Exists(other)
      BY <2>1, <2>5 DEF Exists
    <3> QED  BY <3>1, <1>1, <1>4 DEF IInv, IdsOK, Answered
  <2> HIDE DEF pair
  <2> QED  BY <1>1, <2>2, <2>3, <2>4, <2>5, OfferStep
<1>5. CASE /\ ~Exists(pair) /\ Ids \ HeldIds # {} /\ sessions' = Purged(table)
           /\ \/ client' = client
              \/ Asks(turn) /\ TakeOffer(new)
  <2>1. Lowest(free) \in PortValues
    BY DEF PortValues
  <2>2. id \in Nat \ {0} /\ id \notin HeldIds
    <3>1. id \in Ids \ HeldIds
      BY <1>5
    <3> QED  BY <3>1, IdsAssumption
  <2> HIDE DEF id
  <2>3. /\ new \in SessionType(pair) /\ new.id = id /\ new.port = Lowest(free)
        /\ \A node \in pair : new.bound[node] = 0
        /\ new # NoSession
    <3>1. id \in Nat /\ id # 0
      BY <2>2
    <3> HIDE DEF pair, free
    <3> QED  BY <1>1, <2>1, <3>1, NewFacts
  <2> HIDE DEF new
  <2>4. /\ \A p \in Pairs : table[p] = IF p = pair THEN new ELSE sessions[p]
        /\ SessionsTyped(table)
    BY <1>1, <2>3 DEF IInv, TypeOK, SessionsTyped, Exists
  <2> HIDE DEF table
  <2>5. SessionsTyped(sessions') /\ \A p \in Pairs : sessions'[p] \in {table[p], NoSession}
    BY <1>5, <2>4, PurgeFacts
  <2>6. client' \in [Nodes -> ClientType] /\ \A node \in Nodes : Offered(node, pair, id)
    <3>1. CASE client' = client
      BY <3>1 DEF IInv, TypeOK, Offered
    <3>2. CASE Asks(turn) /\ TakeOffer(new)
      BY <1>1, <2>1, <2>2, <2>3, <3>2, OfferFacts
    <3> QED  BY <1>5, <3>1, <3>2
  <2>7. TypeOK'
    BY <1>1, <2>5, <2>6 DEF IInv, TypeOK, SessionsTyped, Exists
  <2>8. ASSUME NEW other \in Pairs, Exists(other)'
        PROVE  Answered(other, pair, id)
    <3>1. sessions'[other] = table[other]
      BY <2>5, <2>8 DEF Exists
    <3>2. CASE other = pair
      <4>1. sessions'[pair] = new
        BY <3>1, <3>2, <2>4
      <4> QED  BY <3>2, <4>1, <2>2, <2>3 DEF Answered
    <3>3. CASE other # pair
      <4>1. sessions'[other] = sessions[other] /\ Exists(other)
        BY <3>1, <3>3, <2>4, <2>8 DEF Exists
      <4>2. sessions[other].id # id
        BY <4>1, <2>2 DEF HeldIds
      <4> QED  BY <3>3, <4>1, <4>2 DEF Answered
    <3> QED  BY <3>2, <3>3
  <2> HIDE DEF pair
  <2> QED  BY <1>1, <2>2, <2>6, <2>7, <2>8, OfferStep
<1> QED  BY <1>2, <1>3, <1>4, <1>5 DEF AnswerJoin, SendOffer

-----------------------------------------------------------------------------
\* The invariant: an id is that of one session, and a process that has said HELLO
\* for a session, or is bound to it, holds its offer as long as both are there.
THEOREM Invariance == Spec => []IInv
<1>1. IInv /\ [Next]_vars => IInv'
  <2> SUFFICES ASSUME IInv, [Next]_vars PROVE IInv'  OBVIOUS
  <2>1. CASE \E node \in Nodes : SendHello(node) \/ Refuse(node) \/ Join(node)
                                  \/ Leave(node) \/ Crash(node)
    BY <2>1, SendHelloStep, RefuseStep, JoinStep, LeaveStep
  <2>2. CASE \E wish \in Wishes : Start(wish[1], wish[2])
    <3> PICK wish \in Wishes : Start(wish[1], wish[2])  BY <2>2
    <3>1. wish[1] \in Nodes /\ wish[2] \in Nodes \ {wish[1]}
      BY WishesAssumption
    <3> QED  BY <3>1, StartStep
  <2>3. CASE \E m \in net : Arrive(m) \/ Lose(m)
    BY <2>3, ArriveStep
  <2>4. CASE AnswerJoin \/ Snapshot \/ \E pair \in Pairs : Expire(pair)
    BY <2>4, AnswerStep, SnapshotStep, ExpireStep
  <2>5. CASE UNCHANGED vars
    BY <2>5, DroppedStep DEF vars
  <2> QED  BY <2>1, <2>2, <2>3, <2>4, <2>5 DEF Next
<1> QED  BY <1>1, InitIInv, PTL DEF Spec

\* What arrives in a tunnel through a relay comes from the peer the tunnel leads
\* to, of the same session, for any number of nodes, ports, sessions and restarts
\* (the worker's binding of endpoints by id and access key).
THEOREM TunnelsIsolated == Spec => []Isolation
<1>1. IInv => Isolation
  <2> SUFFICES ASSUME IInv, NEW from \in Nodes, NEW to \in Nodes, Reaches(from, to)
               PROVE  /\ client[from].wants = to /\ client[to].wants = from
                      /\ client[from].offer = client[to].offer
    BY DEF Isolation
  <2> PICK pair \in Pairs :
        /\ Working(pair)
        /\ \A node \in {from, to} : client[node].phase = "tunnel"
        /\ {from, to} = pair
        /\ BoundTo(from, pair) /\ BoundTo(to, pair)
    BY DEF Reaches
  <2>1. ASSUME NEW node \in {from, to}
        PROVE  /\ pair = PairOf(node) /\ client[node].wants \in Nodes \ {node}
               /\ client[node].offer = sessions[pair].id
    <3>1. /\ node \in Nodes /\ node \in pair /\ Present(node) /\ Exists(pair)
          /\ client[node].life = sessions[pair].bound[node]
      BY DEF Present, BoundTo, Working
    <3> QED  BY <3>1 DEF IInv, BoundOK, ClientsOK
  <2> QED  BY <2>1 DEF PairOf
<1> QED  BY <1>1, Invariance, PTL
=============================================================================

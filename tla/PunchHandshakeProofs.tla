------------------------ MODULE PunchHandshakeProofs ------------------------
(***************************************************************************)
(* Theorems about PunchHandshake, for every set of paths and every number  *)
(* of lives of the two processes.  The inductive invariant follows what a  *)
(* datagram in flight says about the side that sent it.                    *)
(***************************************************************************)
EXTENDS PunchHandshake, TLAPS

\* A side has a path as soon as it is complete, the Sender no sooner; and the
\* Sender's nonce is the number of its life.
SidesOK ==
    /\ \A side \in Sides :
        shake[side].complete => shake[side].path \in selected
    /\ ~shake["Sender"].complete => shake["Sender"].path = NoPath
    /\ shake["Sender"].nonce = life["Sender"]
    /\ shake["Receiver"].path # NoPath => shake["Receiver"].nonce \in 1 .. life["Sender"]

\* Whatever the Receiver could take comes from a life of the Sender.
NoncesOK ==
    \A m \in net :
        /\ m.to = "Receiver" /\ m.type \in {"PUNCH", "PUNCH_CONFIRM"}
            => m.nonce \in 1 .. life["Sender"]
        /\ m.to = "Sender" /\ m.type = "PUNCH_ACK"
            => m.nonce \in 1 .. life["Sender"]

\* Only a selected path is confirmed; and a CONFIRM of the living Sender's
\* nonce says that this Sender has completed on that path.
ConfirmsOK ==
    \A m \in net :
        m.type = "PUNCH_CONFIRM"
        => /\ m.path \in selected
           /\ (m.to = "Receiver" /\ m.nonce = shake["Sender"].nonce)
                => shake["Sender"].complete /\ shake["Sender"].path = m.path

\* As long as the Receiver lives its first life, it has only ever answered on
\* one path, and only that path can have been selected.
FirstLife ==
    life["Receiver"] = 1
    => /\ \A m \in net : (m.to = "Sender" /\ m.type = "PUNCH_ACK")
                            => m.path = shake["Receiver"].path
       /\ selected \subseteq {shake["Receiver"].path}

IInv ==
    /\ TypeOK
    /\ SidesOK
    /\ NoncesOK
    /\ ConfirmsOK
    /\ SenderFirst
    /\ FirstLife

LEMMA InitIInv == Init => IInv
BY PathsAssumption, LivesAssumption
   DEF Init, IInv, TypeOK, SidesOK, NoncesOK, ConfirmsOK, SenderFirst, FirstLife,
       Sides, Handshake, NewHandshake, Nonces

-----------------------------------------------------------------------------
(* One lemma per action.                                                    *)

LEMMA SidesDistinct ==
    /\ "Sender" \in Sides /\ "Receiver" \in Sides
    /\ \A side \in Sides : side = "Sender" \/ side = "Receiver"
    /\ Peer("Sender") = "Receiver" /\ Peer("Receiver") = "Sender"
BY DEF Sides, Peer

LEMMA TypeNext == TypeOK /\ [PatientNext]_vars => TypeOK'
<1> SUFFICES ASSUME TypeOK, [PatientNext]_vars PROVE TypeOK'
  OBVIOUS
<1> USE LivesAssumption, PathsAssumption, SidesDistinct DEF TypeOK, Handshake, Datagrams, Datagram, Types
<1>1. ASSUME NEW side \in Sides, NEW path \in Paths, Probe(side, path) PROVE TypeOK'
  <2>1. Peer(side) \in Sides /\ shake[side].nonce \in Nonces
    OBVIOUS
  <2> QED BY <1>1, <2>1 DEF Probe
<1>2. CASE ResendAck
  <2>1. shake["Receiver"].path \in Paths /\ shake["Receiver"].nonce \in Nonces
    BY <1>2 DEF ResendAck, AwaitingConfirmation
  <2> QED BY <1>2, <2>1 DEF ResendAck
<1>3. ASSUME NEW m \in net, Select(m) PROVE TypeOK'
  <2> DEFINE h == [shake["Sender"] EXCEPT !.path = m.path, !.complete = TRUE]
  <2>1. m.path \in Paths /\ m.nonce \in Nonces
    OBVIOUS
  <2>2. h \in Handshake
    BY <2>1, ZenonT(40)
  <2>3. shake' = [shake EXCEPT !["Sender"] = h]
    BY <1>3 DEF Select
  <2>4. Datagram("Receiver", "PUNCH_CONFIRM", m.path, m.nonce) \in Datagrams
    BY <2>1
  <2> HIDE DEF h, Handshake, Datagrams, Datagram
  <2>5. shake' \in [Sides -> Handshake]
    BY <2>2, <2>3
  <2> QED BY <1>3, <2>1, <2>4, <2>5 DEF Select
<1>4. ASSUME NEW m \in net, Lock(m) PROVE TypeOK'
  <2> DEFINE h == [shake["Receiver"] EXCEPT !.path = m.path, !.nonce = m.nonce]
  <2>1. m.path \in Paths /\ m.nonce \in Nonces
    OBVIOUS
  <2>2. h \in Handshake
    BY <2>1
  <2>3. shake' = [shake EXCEPT !["Receiver"] = h]
    BY <1>4 DEF Lock
  <2>4. Datagram("Sender", "PUNCH_ACK", m.path, m.nonce) \in Datagrams
    BY <2>1
  <2> HIDE DEF h, Handshake, Datagrams, Datagram
  <2>5. shake' \in [Sides -> Handshake]
    BY <2>2, <2>3
  <2> QED BY <1>4, <2>4, <2>5 DEF Lock
<1>5. ASSUME NEW m \in net, Confirmed(m) PROVE TypeOK'
  <2> DEFINE h == [shake["Receiver"] EXCEPT !.complete = TRUE]
  <2>1. h \in Handshake
    OBVIOUS
  <2>2. shake' = [shake EXCEPT !["Receiver"] = h]
    BY <1>5 DEF Confirmed
  <2> HIDE DEF h, Handshake
  <2>3. shake' \in [Sides -> Handshake]
    BY <2>1, <2>2
  <2> QED BY <1>5, <2>3 DEF Confirmed
<1>6. ASSUME NEW m \in net, TunnelAnswers(m) PROVE TypeOK'
  <2>1. Peer(m.to) \in Sides
    OBVIOUS
  <2>2. Answer(m) \subseteq Datagrams
    BY <2>1 DEF Answer
  <2> QED BY <1>6, <2>2 DEF TunnelAnswers
<1>7. ASSUME NEW side \in Sides, Deadline(side) PROVE TypeOK'
  BY <1>7 DEF Deadline
<1>8. ASSUME NEW side \in Sides, Restart(side) PROVE TypeOK'
  <2> DEFINE nonce == IF side = "Sender" THEN life[side] + 1 ELSE 0
  <2>1. nonce \in Nonces
    BY <1>8 DEF Restart, Nonces
  <2>2. NewHandshake(nonce) \in Handshake
    BY <2>1 DEF NewHandshake
  <2>3. shake' = [shake EXCEPT ![side] = NewHandshake(nonce)]
    BY <1>8 DEF Restart
  <2>4. \A other \in Sides : life'[other] \in 1 .. MaxLives[other]
    BY <1>8 DEF Restart
  <2> HIDE DEF nonce
  <2> QED BY <1>8, <2>2, <2>3, <2>4 DEF Restart
<1>9. CASE UNCHANGED vars
  BY <1>9 DEF vars
<1>10. ASSUME NEW m \in net, Lose(m) PROVE TypeOK'
  BY <1>10 DEF Lose
<1>11. CASE Next
  BY <1>1, <1>2, <1>3, <1>4, <1>5, <1>6, <1>7, <1>8, <1>11 DEF Next, Exchange, Receive
<1> QED BY <1>9, <1>10, <1>11 DEF PatientNext

\* The safety half of the invariant, without the types.
SInv == SidesOK /\ NoncesOK /\ ConfirmsOK /\ SenderFirst /\ FirstLife

\* A step that only sends: it need only be shown that what is sent is true.
LEMMA SendOK ==
    ASSUME IInv, NEW sent, net' = net \cup sent, UNCHANGED <<shake, life, selected>>,
           \A m \in sent :
            /\ m.to = "Receiver" /\ m.type \in {"PUNCH", "PUNCH_CONFIRM"}
                => m.nonce \in 1 .. life["Sender"]
            /\ m.to = "Sender" /\ m.type = "PUNCH_ACK"
                => /\ m.nonce \in 1 .. life["Sender"]
                   /\ m.path = shake["Receiver"].path
            /\ m.type = "PUNCH_CONFIRM"
                => /\ m.path \in selected
                   /\ m.to = "Receiver" => shake["Sender"].complete
                                           /\ shake["Sender"].path = m.path
    PROVE  SInv'
<1>1. SidesOK' /\ SenderFirst'
  BY DEF IInv, SidesOK, SenderFirst
<1>2. NoncesOK'
  BY DEF IInv, NoncesOK
<1>3. ConfirmsOK'
  BY DEF IInv, ConfirmsOK
<1>4. FirstLife'
  BY DEF IInv, FirstLife
<1> QED BY <1>1, <1>2, <1>3, <1>4 DEF SInv

LEMMA ProbeStep ==
    ASSUME IInv, NEW side \in Sides, NEW path \in Paths, Probe(side, path)
    PROVE  SInv'
<1>1. shake["Sender"].nonce \in 1 .. life["Sender"]
  BY SidesDistinct, LivesAssumption DEF IInv, TypeOK, SidesOK
<1>2. Peer(side) = "Receiver" => side = "Sender"
  BY SidesDistinct DEF Peer
<1> DEFINE sent == {Datagram(Peer(side), "PUNCH", path, shake[side].nonce)}
<1>3. net' = net \cup sent /\ UNCHANGED <<shake, life, selected>>
  BY DEF Probe
<1>4. \A m \in sent :
        /\ m.type = "PUNCH"
        /\ m.to = "Receiver" => m.nonce \in 1 .. life["Sender"]
        /\ m.to = "Sender" /\ m.type = "PUNCH_ACK" => FALSE
        /\ m.type = "PUNCH_CONFIRM" => FALSE
  BY <1>1, <1>2 DEF Datagram
<1> HIDE DEF sent
<1> QED BY <1>3, <1>4, SendOK

LEMMA ResendAckStep ==
    ASSUME IInv, ResendAck PROVE SInv'
<1> DEFINE sent == {Datagram("Sender", "PUNCH_ACK", shake["Receiver"].path,
                             shake["Receiver"].nonce)}
<1>1. net' = net \cup sent /\ UNCHANGED <<shake, life, selected>>
  BY DEF ResendAck
<1>2. \A m \in sent : /\ m.type = "PUNCH_ACK" /\ m.to = "Sender"
                     /\ m.nonce \in 1 .. life["Sender"]
                     /\ m.path = shake["Receiver"].path
  BY DEF Datagram, ResendAck, AwaitingConfirmation, IInv, SidesOK
<1> HIDE DEF sent
<1> QED BY <1>1, <1>2, SendOK

LEMMA TunnelStep ==
    ASSUME IInv, NEW m \in net, TunnelAnswers(m) PROVE SInv'
<1>1. m.to \in Sides /\ m.path \in Paths /\ m.type \in Types
  BY DEF IInv, TypeOK, Datagrams
<1>2. shake[m.to].complete /\ shake[m.to].path = m.path /\ m.path \in selected
  BY <1>1 DEF TunnelAnswers, IInv, SidesOK
<1>3. Peer(m.to) = "Receiver" => m.to = "Sender"
  BY <1>1, SidesDistinct
<1>4. Peer(m.to) = "Sender" => m.to = "Receiver"
  BY <1>1, SidesDistinct
<1>5. net' = net \cup Answer(m) /\ UNCHANGED <<shake, life, selected>>
  BY DEF TunnelAnswers
<1>6. CASE m.type = "PUNCH"
  <2>1. \A a \in Answer(m) :
            /\ a.type = "PUNCH_ACK"
            /\ a.to = "Sender" => /\ a.nonce \in 1 .. life["Sender"]
                                 /\ a.path = shake["Receiver"].path
    BY <1>2, <1>4, <1>6 DEF Answer, Datagram, IInv, NoncesOK
  <2> QED BY <1>5, <2>1, SendOK
<1>7. CASE m.type = "PUNCH_ACK"
  <2>1. \A a \in Answer(m) :
            /\ a.type = "PUNCH_CONFIRM" /\ a.path \in selected
            /\ a.to = "Receiver" => /\ a.nonce \in 1 .. life["Sender"]
                                   /\ shake["Sender"].complete
                                   /\ shake["Sender"].path = a.path
    BY <1>2, <1>3, <1>7 DEF Answer, Datagram, IInv, NoncesOK
  <2> QED BY <1>5, <2>1, SendOK
<1>8. CASE m.type = "PUNCH_CONFIRM"
  <2>1. Answer(m) = {}
    BY <1>8 DEF Answer
  <2> QED BY <1>5, <2>1, SendOK
<1> QED BY <1>1, <1>6, <1>7, <1>8 DEF Types

LEMMA SelectStep ==
    ASSUME IInv, NEW m \in net, Select(m) PROVE SInv'
<1>1. /\ shake \in [Sides -> Handshake] /\ m \in Datagrams
      /\ m.to = "Sender" /\ m.type = "PUNCH_ACK" /\ m.nonce = shake["Sender"].nonce
      /\ ~shake["Sender"].complete
  BY DEF IInv, TypeOK, Select, SenderTakesAck, Punching
<1>2. /\ shake'["Sender"].path = m.path /\ shake'["Sender"].complete
      /\ shake'["Sender"].nonce = shake["Sender"].nonce
      /\ shake'["Receiver"] = shake["Receiver"]
  BY <1>1, SidesDistinct DEF Select, Handshake
<1>3. life' = life /\ selected' = selected \cup {m.path}
      /\ net' = net \cup {Datagram("Receiver", "PUNCH_CONFIRM", m.path, m.nonce)}
  BY DEF Select
<1>4. SidesOK'
  BY <1>2, <1>3, SidesDistinct DEF IInv, SidesOK
<1>5. NoncesOK'
  BY <1>1, <1>3 DEF IInv, NoncesOK, Datagram
<1>6. ConfirmsOK'
  BY <1>1, <1>2, <1>3 DEF IInv, ConfirmsOK, Datagram
<1>7. SenderFirst'
  BY <1>1, <1>2 DEF IInv, SenderFirst
<1>8. FirstLife'
  BY <1>1, <1>2, <1>3 DEF IInv, FirstLife, Datagram
<1> QED BY <1>4, <1>5, <1>6, <1>7, <1>8 DEF SInv

LEMMA LockStep ==
    ASSUME IInv, NEW m \in net, Lock(m) PROVE SInv'
<1>1. /\ shake \in [Sides -> Handshake] /\ m \in Datagrams
      /\ m.to = "Receiver" /\ m.type = "PUNCH"
      /\ shake["Receiver"].path \in {NoPath, m.path}
      /\ ~shake["Receiver"].complete
      /\ selected \subseteq Paths /\ net \subseteq Datagrams
  BY DEF IInv, TypeOK, Lock, ReceiverTakesPunch, OnPath, Punching
<1>2. /\ shake'["Receiver"].path = m.path /\ shake'["Receiver"].nonce = m.nonce
      /\ shake'["Receiver"].complete = shake["Receiver"].complete
      /\ shake'["Sender"] = shake["Sender"]
  BY <1>1, SidesDistinct DEF Lock, Handshake
<1>3. life' = life /\ selected' = selected
      /\ net' = net \cup {Datagram("Sender", "PUNCH_ACK", m.path, m.nonce)}
  BY DEF Lock
<1>4. SidesOK'
  BY <1>1, <1>2, <1>3, SidesDistinct DEF IInv, SidesOK, NoncesOK
<1>5. NoncesOK'
  BY <1>1, <1>3 DEF IInv, NoncesOK, Datagram
<1>6. ConfirmsOK'
  BY <1>2, <1>3 DEF IInv, ConfirmsOK, Datagram
<1>7. SenderFirst'
  BY <1>1, <1>2 DEF SenderFirst
<1>8. FirstLife'
  BY <1>1, <1>2, <1>3, PathsAssumption DEF IInv, FirstLife, Datagram, Datagrams
<1> QED BY <1>4, <1>5, <1>6, <1>7, <1>8 DEF SInv

LEMMA ConfirmedStep ==
    ASSUME IInv, NEW m \in net, Confirmed(m) PROVE SInv'
<1>1. /\ shake \in [Sides -> Handshake]
      /\ m.to = "Receiver" /\ m.type = "PUNCH_CONFIRM"
      /\ shake["Receiver"].path = m.path /\ shake["Receiver"].nonce = m.nonce
  BY DEF IInv, TypeOK, Confirmed, ReceiverTakesConfirm
<1>2. /\ shake'["Receiver"].path = shake["Receiver"].path
      /\ shake'["Receiver"].nonce = shake["Receiver"].nonce
      /\ shake'["Sender"] = shake["Sender"]
  BY <1>1, SidesDistinct DEF Confirmed, Handshake
<1>3. UNCHANGED <<life, net, selected>>
  BY DEF Confirmed
<1>4. SidesOK'
  BY <1>1, <1>2, <1>3, SidesDistinct DEF IInv, SidesOK, ConfirmsOK
<1>5. SenderFirst'
  BY <1>1, <1>2 DEF IInv, SenderFirst, ConfirmsOK
<1>6. NoncesOK' /\ ConfirmsOK' /\ FirstLife'
  BY <1>2, <1>3 DEF IInv, NoncesOK, ConfirmsOK, FirstLife
<1> QED BY <1>4, <1>5, <1>6 DEF SInv

LEMMA DeadlineStep ==
    ASSUME IInv, NEW side \in Sides, Deadline(side) PROVE SInv'
<1>1. \A other \in Sides :
        /\ shake'[other].path = shake[other].path
        /\ shake'[other].nonce = shake[other].nonce
        /\ shake'[other].complete = shake[other].complete
  BY DEF IInv, TypeOK, Deadline, Handshake
<1>2. UNCHANGED <<life, net, selected>>
  BY DEF Deadline
<1> QED BY <1>1, <1>2, SidesDistinct
        DEF SInv, IInv, SidesOK, NoncesOK, ConfirmsOK, SenderFirst, FirstLife

LEMMA RestartStep ==
    ASSUME IInv, NEW side \in Sides, Restart(side) PROVE SInv'
<1> DEFINE h == NewHandshake(IF side = "Sender" THEN life[side] + 1 ELSE 0)
<1>1. /\ life \in [Sides -> Nat \ {0}]
      /\ shake'[side] = h
      /\ \A other \in Sides \ {side} : shake'[other] = shake[other]
      /\ life' = [life EXCEPT ![side] = @ + 1]
      /\ UNCHANGED <<net, selected>>
  BY DEF IInv, TypeOK, Restart
<1>2. h.path = NoPath /\ h.complete = FALSE
      /\ h.nonce = IF side = "Sender" THEN life[side] + 1 ELSE 0
  BY DEF NewHandshake
<1> HIDE DEF h
<1>3. \A other \in Sides : life[other] \in Nat \ {0}
  BY LivesAssumption DEF IInv, TypeOK
<1>4. CASE side = "Sender"
  <2>1. life'["Sender"] = life["Sender"] + 1 /\ life'["Receiver"] = life["Receiver"]
        /\ shake'["Receiver"] = shake["Receiver"] /\ shake'["Sender"] = h
    BY <1>1, <1>4, SidesDistinct
  <2>2. SidesOK'
    BY <1>1, <1>2, <1>3, <1>4, <2>1, SidesDistinct DEF IInv, SidesOK
  <2>3. NoncesOK'
    BY <1>1, <1>3, <2>1, SidesDistinct DEF IInv, NoncesOK
  <2>4. ConfirmsOK'
    BY <1>1, <1>2, <1>3, <1>4, <2>1, SidesDistinct DEF IInv, ConfirmsOK, NoncesOK
  <2>5. SenderFirst'
    <3>1. shake["Receiver"].complete => shake["Receiver"].path # NoPath
      BY SidesDistinct, PathsAssumption DEF IInv, TypeOK, SidesOK
    <3> QED BY <1>2, <1>3, <1>4, <2>1, <3>1, SidesDistinct DEF IInv, SenderFirst, SidesOK
  <2>6. FirstLife'
    BY <1>1, <2>1 DEF IInv, FirstLife
  <2> QED BY <2>2, <2>3, <2>4, <2>5, <2>6 DEF SInv
<1>5. CASE side = "Receiver"
  <2>1. life'["Receiver"] = life["Receiver"] + 1 /\ life'["Sender"] = life["Sender"]
        /\ shake'["Sender"] = shake["Sender"] /\ shake'["Receiver"] = h
    BY <1>1, <1>5, SidesDistinct
  <2>2. SidesOK'
    BY <1>1, <1>2, <1>5, <2>1, SidesDistinct DEF IInv, SidesOK
  <2>3. NoncesOK' /\ ConfirmsOK'
    BY <1>1, <2>1 DEF IInv, NoncesOK, ConfirmsOK
  <2>4. SenderFirst'
    BY <1>2, <2>1 DEF SenderFirst
  <2>5. FirstLife'
    BY <1>3, <2>1, SidesDistinct DEF FirstLife
  <2> QED BY <2>2, <2>3, <2>4, <2>5 DEF SInv
<1> QED BY <1>4, <1>5, SidesDistinct

\* What is lost can no longer be received: nothing else changes.
LEMMA LoseStep ==
    ASSUME IInv, NEW m \in net, Lose(m) PROVE SInv'
<1>1. net' \subseteq net /\ UNCHANGED <<shake, life, selected>>
  BY DEF Lose
<1>2. SidesOK' /\ SenderFirst'
  BY <1>1 DEF IInv, SidesOK, SenderFirst
<1>3. NoncesOK'
  BY <1>1 DEF IInv, NoncesOK
<1>4. ConfirmsOK'
  BY <1>1 DEF IInv, ConfirmsOK
<1>5. FirstLife'
  BY <1>1 DEF IInv, FirstLife
<1> QED BY <1>2, <1>3, <1>4, <1>5 DEF SInv

LEMMA NextIInv == IInv /\ [PatientNext]_vars => IInv'
<1> SUFFICES ASSUME IInv, [PatientNext]_vars PROVE IInv'
  OBVIOUS
<1>1. TypeOK'
  BY TypeNext DEF IInv
<1>2. SInv'
  <2>1. CASE Next
    BY <2>1, ProbeStep, ResendAckStep, SelectStep, LockStep, ConfirmedStep, TunnelStep,
       DeadlineStep, RestartStep DEF Next, Exchange, Receive
  <2>2. CASE UNCHANGED vars
    BY <2>2 DEF vars, IInv, SInv, SidesOK, NoncesOK, ConfirmsOK, SenderFirst, FirstLife
  <2> QED BY <2>1, <2>2, LoseStep DEF PatientNext
<1> QED BY <1>1, <1>2 DEF IInv, SInv

\* The inductive invariant holds in every reachable state: what NatPunchHandshake
\* accepts on a path was sent on that path by the life its nonce names.
THEOREM Invariance == Spec => []IInv
<1>1. [Next]_vars => [PatientNext]_vars
  BY DEF PatientNext
<1> QED BY <1>1, InitIInv, NextIInv, PTL DEF Spec

-----------------------------------------------------------------------------
(* What the inductive invariant gives.                                      *)

LEMMA IInvPathAgreement == IInv => PathAgreement
<1> SUFFICES ASSUME IInv, shake["Sender"].complete, shake["Receiver"].complete,
                    NEW side \in Sides, life[side] = 1
             PROVE  shake["Sender"].path = shake["Receiver"].path
  BY DEF PathAgreement
<1>1. shake["Sender"].path \in selected /\ shake["Receiver"].path \in selected
  BY SidesDistinct DEF IInv, SidesOK
<1>2. CASE side = "Receiver"
  BY <1>1, <1>2 DEF IInv, FirstLife
<1>3. CASE side = "Sender"
  <2>1. shake["Receiver"].path # NoPath
    BY <1>1, PathsAssumption DEF IInv, TypeOK
  <2>2. shake["Receiver"].nonce = shake["Sender"].nonce
    BY <1>3, <2>1 DEF IInv, SidesOK
  <2> QED BY <2>2 DEF IInv, SenderFirst
<1> QED BY <1>2, <1>3, SidesDistinct

\* Both sides in the tunnel are on one path, unless both processes have been
\* replaced within the attempt (NatPunchHandshake::Handle, HandlePeerControl).
THEOREM PathsAgree == Spec => []PathAgreement
BY Invariance, IInvPathAgreement, PTL

\* The Receiver completes only after the Sender of its nonce, on its path.
THEOREM SenderIsFirst == Spec => []SenderFirst
BY Invariance, PTL DEF IInv

LEMMA StepPathFixed == IInv /\ [PatientNext]_vars =>
    \A side \in Sides :
        (shake[side].path # NoPath /\ life'[side] = life[side])
        => shake'[side].path = shake[side].path
<1> SUFFICES ASSUME IInv, [PatientNext]_vars, NEW side \in Sides,
                    shake[side].path # NoPath, life'[side] = life[side]
             PROVE  shake'[side].path = shake[side].path
  OBVIOUS
<1>0. /\ shake \in [Sides -> Handshake]
      /\ \A other \in Sides : shake[other] \in Handshake /\ life[other] \in Nat
      /\ life \in [Sides -> Nat \ {0}]
  BY DEF IInv, TypeOK
<1>1. ASSUME NEW m \in net, Select(m) PROVE shake'[side].path = shake[side].path
  <2>1. side # "Sender"
    BY <1>1 DEF Select, Punching, IInv, SidesOK
  <2> QED BY <1>0, <1>1, <2>1 DEF Select
<1>2. ASSUME NEW m \in net, Lock(m) PROVE shake'[side].path = shake[side].path
  <2>1. side = "Receiver" => m.path = shake[side].path
    BY <1>2 DEF Lock, ReceiverTakesPunch, OnPath
  <2> QED BY <1>0, <1>2, <2>1 DEF Lock, Handshake
<1>3. ASSUME NEW m \in net, Confirmed(m) PROVE shake'[side].path = shake[side].path
  BY <1>0, <1>3 DEF Confirmed, Handshake
<1>4. ASSUME NEW other \in Sides, Deadline(other) PROVE shake'[side].path = shake[side].path
  BY <1>0, <1>4 DEF Deadline, Handshake
<1>5. ASSUME NEW other \in Sides, Restart(other) PROVE shake'[side].path = shake[side].path
  <2>1. side # other
    BY <1>0, <1>5 DEF Restart
  <2> QED BY <1>0, <1>5, <2>1 DEF Restart
<1>6. CASE shake' = shake
  BY <1>6
<1> QED BY <1>1, <1>2, <1>3, <1>4, <1>5, <1>6
        DEF PatientNext, Next, Exchange, Receive, Probe, ResendAck, TunnelAnswers, Lose, vars

\* Once selected, a path never changes within an attempt and a life.
THEOREM PathsFixed == Spec => PathFixed
<1>1. [Next]_vars => [PatientNext]_vars
  BY DEF PatientNext
<1> QED BY <1>1, Invariance, StepPathFixed, PTL DEF Spec, PathFixed

-----------------------------------------------------------------------------
(* The handshake implements PathSelection.                                  *)

LEMMA InitSelects == Init => Selection!SelectionInit
BY SidesDistinct DEF Init, NewHandshake, Selection!SelectionInit

LEMMA StepSelects == IInv /\ [PatientNext]_vars => [Selection!SelectionNext]_(Selection!selection)
<1> SUFFICES ASSUME IInv, [PatientNext]_vars
             PROVE  Selection!SelectionNext \/ UNCHANGED Selection!selection
  OBVIOUS
<1> USE DEF Selection!SelectionNext, Selection!selection
<1>0. /\ shake \in [Sides -> Handshake] /\ net \subseteq Datagrams
      /\ \A side \in Sides : shake[side] \in Handshake
  BY DEF IInv, TypeOK
<1>1. ASSUME NEW m \in net, Select(m) PROVE Selection!Lead(m.path) /\ m.path \in Paths
  <2>1. m.path \in Paths /\ ~shake["Sender"].complete
    BY <1>0, <1>1 DEF Datagrams, Select, Punching
  <2>2. /\ shake'["Sender"].complete /\ shake'["Sender"].path = m.path
        /\ shake'["Receiver"] = shake["Receiver"]
    BY <1>0, <1>1, SidesDistinct DEF Select, Handshake
  <2> QED BY <1>1, <2>1, <2>2 DEF Select, Selection!Lead
<1>2. ASSUME NEW m \in net, Confirmed(m)
      PROVE  Selection!Follow(m.path) /\ m.path \in selected
  <2>1. /\ m.path \in selected /\ shake["Receiver"].path = m.path
        /\ ~shake["Receiver"].complete
    BY <1>2 DEF Confirmed, ReceiverTakesConfirm, Punching, IInv, ConfirmsOK
  <2>2. /\ shake'["Receiver"].complete /\ shake'["Receiver"].path = m.path
        /\ shake'["Sender"] = shake["Sender"]
    BY <1>0, <1>2, <2>1, SidesDistinct DEF Confirmed, Handshake
  <2> QED BY <1>2, <2>1, <2>2 DEF Confirmed, Selection!Follow
<1>3. ASSUME NEW m \in net, Lock(m) PROVE UNCHANGED Selection!selection
  <2>1. /\ ~shake'["Receiver"].complete /\ ~shake["Receiver"].complete
        /\ shake'["Sender"] = shake["Sender"]
    BY <1>0, <1>3, SidesDistinct DEF Lock, Punching, Handshake
  <2> QED BY <1>3, <2>1 DEF Lock
<1>4. ASSUME NEW side \in Sides, Deadline(side) PROVE UNCHANGED Selection!selection
  <2>1. \A other \in Sides : /\ shake'[other].complete = shake[other].complete
                             /\ shake'[other].path = shake[other].path
    BY <1>0, <1>4 DEF Deadline, Handshake
  <2> QED BY <1>4, <2>1, SidesDistinct DEF Deadline
<1>5. ASSUME NEW side \in Sides, Restart(side)
      PROVE  Selection!LeaderLeaves \/ Selection!FollowerLeaves
  <2>1. /\ ~shake'[side].complete /\ selected' = selected
        /\ \A other \in Sides \ {side} : shake'[other] = shake[other]
    BY <1>0, <1>5 DEF Restart, NewHandshake
  <2>2. CASE side = "Sender"
    BY <2>1, <2>2, SidesDistinct DEF Selection!LeaderLeaves
  <2>3. CASE side = "Receiver"
    BY <2>1, <2>3, SidesDistinct DEF Selection!FollowerLeaves
  <2> QED BY <2>2, <2>3, SidesDistinct
<1>6. CASE shake' = shake /\ selected' = selected
  BY <1>6
<1>7. CASE Next
  <2>1. CASE \E side \in Sides, path \in Paths : Probe(side, path)
    BY <1>6, <2>1 DEF Probe
  <2>2. CASE ResendAck
    BY <1>6, <2>2 DEF ResendAck
  <2>3. ASSUME NEW m \in net, TunnelAnswers(m) PROVE UNCHANGED Selection!selection
    BY <2>3 DEF TunnelAnswers
  <2> QED BY <1>1, <1>2, <1>3, <1>4, <1>5, <1>7, <2>1, <2>2, <2>3 DEF Next, Exchange, Receive
<1>8. ASSUME NEW m \in net, Lose(m) PROVE UNCHANGED Selection!selection
  BY <1>8 DEF Lose
<1> QED BY <1>6, <1>7, <1>8 DEF PatientNext, vars

\* Every behaviour of the handshake selects a path as PathSelection says.
THEOREM ImplementsSelection == Spec => SelectsPath
<1>1. [Next]_vars => [PatientNext]_vars
  BY DEF PatientNext
<1> QED BY <1>1, Invariance, InitSelects, StepSelects, PTL
        DEF Spec, SelectsPath, Selection!SelectionSpec

\* All of it holds on a network that loses datagrams too, in any order and any
\* number: a lost CONFIRM, in particular, takes nobody to another path.
THEOREM LossyAgrees ==
    PatientSpec => [](PathAgreement /\ SenderFirst) /\ PathFixed /\ SelectsPath
<1>1. Init /\ [][PatientNext]_vars => []IInv
  BY InitIInv, NextIInv, PTL
<1>2. IInv => PathAgreement /\ SenderFirst
  BY IInvPathAgreement DEF IInv
<1> QED BY <1>1, <1>2, StepPathFixed, InitSelects, StepSelects, PTL
        DEF PatientSpec, PathFixed, SelectsPath, Selection!SelectionSpec
=============================================================================

--------------------------- MODULE PunchHandshake ---------------------------
(***************************************************************************)
(* The PUNCH / PUNCH_ACK / PUNCH_CONFIRM handshake of one traversal        *)
(* attempt, between the side whose plan made it the Sender and the side    *)
(* whose plan made it the Receiver: NatPunchHandshake                      *)
(* (src/nat_punch_handshake.cpp), the loop of PunchAdaptiveNat that feeds  *)
(* it (src/adaptive_nat_traversal.cpp), and HandlePeerControl, which       *)
(* answers for a side that has already moved on to the tunnel              *)
(* (src/nat_traversal.cpp).                                                *)
(*                                                                         *)
(* A path stands for a pair of local sockets and of the mapped endpoints   *)
(* that go with it: what one side sends on a path arrives, if at all, on   *)
(* the same path.  Datagrams are lost, delayed, reordered and duplicated.  *)
(* Everything here belongs to one session, attempt and token, which every  *)
(* datagram carries and every receiver checks.  A process may be killed    *)
(* and restarted; it is then handed the same session again by CONNECT, and *)
(* draws a new nonce, so nonces tell the lives of the Sender apart.        *)
(***************************************************************************)
EXTENDS Naturals, FiniteSets

CONSTANTS
    Paths,          \* the paths the plans of the two sides probe
    NoPath,         \* socket_ == kInvalidSocket
    MaxLives        \* bound of the model on the lives of each side's process

ASSUME PathsAssumption == NoPath \notin Paths

Sides == {"Sender", "Receiver"}
Peer(side) == IF side = "Sender" THEN "Receiver" ELSE "Sender"

ASSUME LivesAssumption == MaxLives \in [Sides -> Nat \ {0}]

\* The nonces drawn by the lives of the Sender; 0 is the Receiver's own.
Nonces == 0 .. MaxLives["Sender"]

Types == {"PUNCH", "PUNCH_ACK", "PUNCH_CONFIRM"}

Datagrams == [to : Sides, type : Types, path : Paths, nonce : Nonces]

VARIABLES
    shake,      \* the NatPunchHandshake of each side
    life,       \* how many times each process has been started
    net,        \* the datagrams that may still arrive
    selected    \* history: paths on which a Sender's handshake completed

vars == <<shake, life, net, selected>>

\* complete covers the tunnel too: the loop returns as soon as it is set.
\* failed is a handshake whose attempt ran into its deadline.
Handshake == [path : Paths \cup {NoPath}, nonce : Nonces,
              complete : BOOLEAN, failed : BOOLEAN]

NewHandshake(nonce) ==
    [path |-> NoPath, nonce |-> nonce, complete |-> FALSE, failed |-> FALSE]

AwaitingConfirmation(side) ==
    /\ side = "Receiver"
    /\ shake[side].path # NoPath
    /\ ~shake[side].complete

Punching(side) == ~shake[side].complete /\ ~shake[side].failed

Datagram(to, type, path, nonce) ==
    [to |-> to, type |-> type, path |-> path, nonce |-> nonce]

Init ==
    /\ shake = [side \in Sides |-> NewHandshake(IF side = "Sender" THEN 1 ELSE 0)]
    /\ life = [side \in Sides |-> 1]
    /\ net = {}
    /\ selected = {}

-----------------------------------------------------------------------------
(* What a side sends of its own accord. *)

\* A probe of the schedule; the Receiver stops probing once it has a path.
Probe(side, path) ==
    /\ Punching(side)
    /\ ~AwaitingConfirmation(side)
    /\ net' = net \cup {Datagram(Peer(side), "PUNCH", path, shake[side].nonce)}
    /\ UNCHANGED <<shake, life, selected>>

\* The Receiver repeats its ACK every 100 ms until the CONFIRM comes.
ResendAck ==
    /\ Punching("Receiver") /\ AwaitingConfirmation("Receiver")
    /\ net' = net \cup {Datagram("Sender", "PUNCH_ACK", shake["Receiver"].path,
                                 shake["Receiver"].nonce)}
    /\ UNCHANGED <<shake, life, selected>>

-----------------------------------------------------------------------------
(* NatPunchHandshake::Handle.  Datagrams of another path than the selected *)
(* one are ignored.                                                        *)
OnPath(h, m) == h.path \in {NoPath, m.path}

SenderTakesAck(h, m) ==
    /\ OnPath(h, m)
    /\ m.type = "PUNCH_ACK"
    /\ m.nonce = h.nonce

\* The Sender selects the path of the first ACK of its nonce, and confirms.
Select(m) ==
    /\ m.to = "Sender"
    /\ Punching("Sender")
    /\ SenderTakesAck(shake["Sender"], m)
    /\ shake' = [shake EXCEPT !["Sender"].path = m.path, !["Sender"].complete = TRUE]
    /\ selected' = selected \cup {m.path}
    /\ net' = net \cup {Datagram("Receiver", "PUNCH_CONFIRM", m.path, m.nonce)}
    /\ UNCHANGED life

\* The Receiver's path and nonce are those of the first PUNCH.
ReceiverTakesPunch(h, m) ==
    /\ OnPath(h, m)
    /\ m.type = "PUNCH"
    /\ h.path = NoPath \/ h.nonce = m.nonce

\* Mutant of Lock: the Receiver does not take over the Sender's nonce.
LockOwnNonce(m) ==
    /\ m.to = "Receiver"
    /\ Punching("Receiver")
    /\ ReceiverTakesPunch(shake["Receiver"], m)
    /\ shake' = [shake EXCEPT !["Receiver"].path = m.path]
    /\ net' = net \cup {Datagram("Sender", "PUNCH_ACK", m.path, shake["Receiver"].nonce)}
    /\ UNCHANGED <<life, selected>>

Lock(m) ==
    /\ m.to = "Receiver"
    /\ Punching("Receiver")
    /\ ReceiverTakesPunch(shake["Receiver"], m)
    /\ shake' = [shake EXCEPT !["Receiver"].path = m.path, !["Receiver"].nonce = m.nonce]
    /\ net' = net \cup {Datagram("Sender", "PUNCH_ACK", m.path, m.nonce)}
    /\ UNCHANGED <<life, selected>>

\* Mutants of ReceiverTakesConfirm: the path, the nonce, or the type of the
\* datagram is not looked at.
ConfirmOnAnyPath(h, m) ==
    h.path # NoPath /\ m.type = "PUNCH_CONFIRM" /\ h.nonce = m.nonce

ConfirmOfAnyType(h, m) == h.path = m.path /\ h.nonce = m.nonce

ReceiverTakesConfirm(h, m) ==
    /\ h.path = m.path
    /\ m.type = "PUNCH_CONFIRM"
    /\ h.nonce = m.nonce

Confirmed(m) ==
    /\ m.to = "Receiver"
    /\ Punching("Receiver")
    /\ ReceiverTakesConfirm(shake["Receiver"], m)
    /\ shake' = [shake EXCEPT !["Receiver"].complete = TRUE]
    /\ UNCHANGED <<life, net, selected>>

-----------------------------------------------------------------------------
\* Mutant of Answer: the tunnel does not confirm again.
AnswerPunchOnly(m) ==
    IF m.type = "PUNCH" THEN {Datagram(Peer(m.to), "PUNCH_ACK", m.path, m.nonce)} ELSE {}

(* HandlePeerControl: a side that is in the tunnel answers PUNCH and        *)
(* PUNCH_ACK that come on its path, whatever nonce they carry.              *)
Answer(m) ==
    CASE m.type = "PUNCH" -> {Datagram(Peer(m.to), "PUNCH_ACK", m.path, m.nonce)}
      [] m.type = "PUNCH_ACK" -> {Datagram(Peer(m.to), "PUNCH_CONFIRM", m.path, m.nonce)}
      [] OTHER -> {}

TunnelAnswers(m) ==
    /\ shake[m.to].complete
    /\ shake[m.to].path = m.path
    /\ net' = net \cup Answer(m)
    /\ UNCHANGED <<shake, life, selected>>

Receive(m) == Select(m) \/ Lock(m) \/ Confirmed(m) \/ TunnelAnswers(m)

-----------------------------------------------------------------------------
(* What goes wrong. *)
\* Only the fair specification needs it: a datagram that stays in net may be
\* delayed for ever, which is as good as lost.
Lose(m) ==
    /\ net' = net \ {m}
    /\ UNCHANGED <<shake, life, selected>>

\* The deadline of the attempt, or Stop.
Deadline(side) ==
    /\ Punching(side)
    /\ shake' = [shake EXCEPT ![side].failed = TRUE]
    /\ UNCHANGED <<life, net, selected>>

\* The process ends, in the tunnel or before, and is started again.
Restart(side) ==
    /\ life[side] < MaxLives[side]
    /\ life' = [life EXCEPT ![side] = @ + 1]
    /\ shake' = [shake EXCEPT ![side] =
                    NewHandshake(IF side = "Sender" THEN life[side] + 1 ELSE 0)]
    /\ UNCHANGED <<net, selected>>

Exchange ==
    \/ \E side \in Sides, path \in Paths : Probe(side, path)
    \/ ResendAck
    \/ \E m \in net : Receive(m)

Next ==
    \/ Exchange
    \/ \E side \in Sides : Deadline(side) \/ Restart(side)

Spec == Init /\ [][Next]_vars

\* A fair network that loses: the Sender's schedule repeats its waves, the
\* Receiver repeats its ACK, and of what is sent again and again something
\* arrives in the end.
TunnelReconfirms(m) == m.to = "Sender" /\ m.type = "PUNCH_ACK" /\ TunnelAnswers(m)

Fairness ==
    /\ WF_vars(\E path \in Paths : Probe("Sender", path))
    /\ WF_vars(ResendAck)
    /\ SF_vars(\E m \in net : Lock(m))
    /\ SF_vars(\E m \in net : Select(m))
    /\ SF_vars(\E m \in net : TunnelReconfirms(m))
    /\ SF_vars(\E m \in net : Confirmed(m))

PatientNext == Next \/ \E m \in net : Lose(m)

PatientSpec == Init /\ [][PatientNext]_vars /\ Fairness

-----------------------------------------------------------------------------
(* Properties. *)

TypeOK ==
    /\ shake \in [Sides -> Handshake]
    /\ life \in [Sides -> Nat \ {0}]
    /\ \A side \in Sides : life[side] <= MaxLives[side]
    /\ net \subseteq Datagrams
    /\ selected \subseteq Paths

\* When both sides are in the tunnel they are on the same path, unless both
\* processes have been replaced within the attempt: the header's "once
\* selected, a path never changes" holds for each handshake object, and the
\* nonce extends it over the restart of one of the two.
PathAgreement ==
    (/\ shake["Sender"].complete /\ shake["Receiver"].complete
     /\ \E side \in Sides : life[side] = 1)
    => shake["Sender"].path = shake["Receiver"].path

\* The Receiver enters the tunnel only after the Sender: the Sender of its
\* nonce, if it still lives, has completed on the Receiver's path.
SenderFirst ==
    (/\ shake["Receiver"].complete
     /\ shake["Receiver"].nonce = shake["Sender"].nonce)
    => /\ shake["Sender"].complete
       /\ shake["Sender"].path = shake["Receiver"].path

\* Once selected, a path never changes within an attempt and a life.
PathFixed ==
    [][\A side \in Sides :
        (shake[side].path # NoPath /\ life'[side] = life[side])
        => shake'[side].path = shake[side].path]_vars

\* The handshake implements the selection of a path.
Selection == INSTANCE PathSelection WITH
    chosen <- selected,
    leader <- IF shake["Sender"].complete THEN shake["Sender"].path ELSE NoPath,
    follower <- IF shake["Receiver"].complete THEN shake["Receiver"].path ELSE NoPath

SelectsPath == Selection!SelectionSpec

\* Neither side runs into its deadline or is started again.
Undisturbed == \A side \in Sides : life[side] = 1 /\ ~shake[side].failed

\* In an undisturbed attempt a Sender that has left for the tunnel does not
\* strand the Receiver: the tunnel confirms again whatever CONFIRM was lost.
ReceiverFollows ==
    []Undisturbed => (shake["Sender"].complete ~> shake["Receiver"].complete)

\* An undisturbed attempt succeeds.
Succeeds ==
    []Undisturbed => <>(shake["Sender"].complete /\ shake["Receiver"].complete)
=============================================================================

---------------------------- MODULE PunchAttempt ----------------------------
(***************************************************************************)
(* One side of one attempt: PunchAdaptiveNat                               *)
(* (src/adaptive_nat_traversal.cpp) from the STUN queries                  *)
(* (src/stun_client.cpp) to the outcome, with its sockets                  *)
(* (src/nat_punch_socket_pool.cpp, src/nat_punch_transport.cpp), its       *)
(* probes and its deadline.  What the control socket carries is in         *)
(* NatSession, and what the two handshakes say to each other is in         *)
(* PunchHandshake; here their datagrams may come at any time.              *)
(***************************************************************************)
EXTENDS PunchPlan, PunchScheduler, FiniteSets

CONSTANTS
    Mappings,       \* what a NAT may map the punch socket to, for servers A and B
    Policy,         \* AttemptPolicy of the attempts 1 .. n
    Draws,          \* what the CSPRNG may give to the random walk
    Deadline,       \* cfg.punch_timeout; the clock stops there
    BarrierTimeout, \* kBarrierTimeout
    SenderDelay,    \* senderDelayMs of the attempts 2 and 3
    StunAttempts    \* kStunAttempts

Attempts == DOMAIN Policy

ASSUME AttemptAssumption ==
    /\ Attempts \subseteq Nat \ {0}
    /\ \A n \in Attempts : Policy[n] \in Policies
    /\ \A d \in Draws : d.start \in 0 .. RandomPortCount - 1 /\ d.step \in 0 .. RandomPortCount - 1
    /\ Deadline \in Nat \ {0} /\ BarrierTimeout \in Nat /\ SenderDelay \in Nat
    /\ StunAttempts \in Nat \ {0}

\* What a NAT maps a socket to is an endpoint with a port, and no attempt asks
\* for more random ports than there are (nat_punch_plan.cpp:201).
ASSUME MappingsAssumption ==
    \A nat \in Mappings : \A server \in 1 .. 2 :
        /\ nat[server] = Endpoint(nat[server].address, nat[server].port)
        /\ nat[server].port \in 1 .. MaxPort
ASSUME RandomTargetsAssumption ==
    \A n \in Attempts : Policy[n].randomTargets <= RandomPortCount

VARIABLES
    scenario,   \* the two NATs, the role in the session, the number of the attempt
    phase,      \* where PunchAdaptiveNat is
    running,    \* the engine's running flag
    now,        \* the clock, from the start of the attempt
    query,      \* the STUN query in progress
    answers,    \* the STUN answers that may still arrive
    mapped,     \* the mappings accepted so far
    plan,
    open,       \* the sockets that are open; 1 is the punch socket
    low,        \* those of them whose TTL is not the normal one
    schedule,   \* the NatPunchScheduler of the wave
    batch,      \* the probes of the batch that are not sent yet
    tally,      \* the counters of the attempt
    lock,       \* the socket the handshake is bound to, 0 if none
    outcome

stun == <<query, answers, mapped>>
sending == <<schedule, batch, tally>>
vars == <<scenario, phase, running, now, stun, plan, open, low, sending, lock, outcome>>

Servers == 1 .. 2
Scenarios == [nat : Mappings, peerNat : Mappings, initiator : BOOLEAN, attempt : Attempts]

MyPolicy == Policy[scenario.attempt]
Role == ExecutionRole(plan.mode, scenario.initiator)
Ttl == PrePunchTtl(Role, scenario.attempt)

Stun == [server : Servers, try : Nat \ {0}, sent : BOOLEAN, spoiled : BOOLEAN]
Query(server, try, spoiled) ==
    [server |-> server, try |-> try, sent |-> FALSE, spoiled |-> spoiled]

NoBatch == [next |-> 0, end |-> 0]
Sent == batch.next = batch.end

\* probes: RecordProbe's probeAttempts; before: those of the pre-punch wave;
\* lowered: a probe went out with the low TTL; loud: one with the normal TTL;
\* taken: when the last batch of the wave was taken; until: when the barrier ends.
NewTally == [probes |-> 0, before |-> 0, lowered |-> FALSE, loud |-> FALSE,
             taken |-> -1, until |-> 0]

Init ==
    /\ scenario \in Scenarios
    /\ phase = "stun"
    /\ running = TRUE
    /\ now = 0
    /\ query = Query(1, 1, FALSE)
    /\ answers = {}
    /\ mapped = <<>>
    /\ plan = NoPlan
    /\ open = {1}
    /\ low = {}
    /\ schedule = NewScheduler(0, 1, 1, 0, FALSE)
    /\ batch = NoBatch
    /\ tally = NewTally
    /\ lock = 0
    /\ outcome = "none"

-----------------------------------------------------------------------------
(* The end of an attempt. *)
Retryable == {"stun-timeout", "peer-info-timeout", "barrier-timeout", "punch-timeout"}
Failures == Retryable \cup
    {"socket-error", "stun-failure", "strategy-unsupported", "control-error", "stopped"}

\* fail, after CloseSocket or with the pool in scope, which closes its sockets.
Fail(failure) ==
    /\ phase' = "done"
    /\ outcome' = failure
    /\ open' = {}
    /\ low' = {}

\* A failure that leaves everything but the outcome and the sockets alone.
GiveUp(failure) ==
    /\ Fail(failure)
    /\ UNCHANGED <<scenario, running, now, stun, plan, sending, lock>>

Stop ==
    /\ running
    /\ running' = FALSE
    /\ UNCHANGED <<scenario, phase, now, stun, plan, open, low, sending, lock, outcome>>

Overdue == now >= Deadline

\* Time passes, whatever the thread does; what the STUN queries took is known
\* when they end.
Elapse ==
    /\ phase \notin {"stun", "done"} /\ ~Overdue
    /\ now' = now + 1
    /\ UNCHANGED <<scenario, phase, running, stun, plan, open, low, sending, lock, outcome>>

-----------------------------------------------------------------------------
(* What a STUN server may answer.  The address and the port travel XORed with  *)
(* values both ends know.                                                      *)
Attribute(address, length, port) == [address |-> address, length |-> length, port |-> port]
Other == Attribute("an attribute of another type", 4, 0)

XorMapped(mapping) ==
    {Attribute(mapping.address, length, port) : length \in {8, 20}, port \in {0, mapping.port}}

Messages(mapping) ==
    [type : {"success", "error", "other"}, whole : BOOLEAN,
     attributes : {<<>>, <<Other>>} \cup {<<a>> : a \in XorMapped(mapping)}
                    \cup {<<Other, a>> : a \in XorMapped(mapping)}]

\* The family goes with its length, and there is a port.
ParseXorMappedAddress(attribute) ==
    /\ attribute.port # 0
    /\ attribute.length = IF IsIpv4(Endpoint(attribute.address, attribute.port)) THEN 8 ELSE 20

\* ParseStunBindingResponse: the first XOR-MAPPED-ADDRESS decides.
Decisive(message) ==
    {i \in DOMAIN message.attributes :
        /\ message.attributes[i] # Other
        /\ \A j \in 1 .. i - 1 : message.attributes[j] = Other}

Parses(message) ==
    /\ message.type = "success" /\ message.whole
    /\ \E i \in Decisive(message) : ParseXorMappedAddress(message.attributes[i])

MappingIn(message) ==
    LET attribute == message.attributes[CHOOSE i \in Decisive(message) : TRUE]
    IN  Endpoint(attribute.address, attribute.port)

-----------------------------------------------------------------------------
(* QueryStunBinding, for one server after the other.  It looks neither at    *)
(* the running flag nor at the deadline of the attempt.                      *)
InStun == phase = "stun"
AfterStun == UNCHANGED <<scenario, running, now, plan, sending, lock>>

NextTry(spoiled) == query' = Query(query.server, query.try + 1, spoiled)

StunSend ==
    /\ InStun /\ ~query.sent /\ query.try <= StunAttempts
    /\ query' = [query EXCEPT !.sent = TRUE]
    /\ answers' = answers \cup {[server |-> query.server, try |-> query.try]}
    /\ UNCHANGED <<phase, mapped, open, low, outcome>> /\ AfterStun

\* The request cannot be sent.  The error text of that, like that of an answer
\* without a mapping, outlives the tries that are merely not answered.
StunSpoiled ==
    /\ InStun /\ query.try <= StunAttempts
    /\ NextTry(TRUE)
    /\ UNCHANGED <<phase, answers, mapped, open, low, outcome>> /\ AfterStun

StunUnanswered ==
    /\ InStun /\ query.sent
    /\ NextTry(query.spoiled)
    /\ UNCHANGED <<phase, answers, mapped, open, low, outcome>> /\ AfterStun

\* Mutant of AnswersQuery: neither the server nor the transaction is compared.
AnswersAny(answer) == query.sent

\* The answer comes from the server that was asked, in the transaction of the
\* last request: an answer to an earlier try is too late.
AnswersQuery(answer) ==
    /\ query.sent
    /\ answer.server = query.server
    /\ answer.try = query.try

\* What arrives for the queries once they are over is not taken for a probe.
StunEnds ==
    /\ query' = Query(2, 1, FALSE)
    /\ answers' = {}
    /\ now' \in 0 .. Deadline
    /\ IF now' >= Deadline THEN Fail("stun-timeout")
       ELSE phase' = "info" /\ UNCHANGED <<open, low, outcome>>

StunAnswer(answer) ==
    /\ InStun
    /\ AnswersQuery(answer)
    /\ \E message \in Messages(scenario.nat[answer.server]) :
        \/ /\ Parses(message)
           /\ mapped' = Append(mapped, MappingIn(message))
           /\ IF query.server = 2 THEN StunEnds
              ELSE /\ query' = Query(2, 1, FALSE)
                   /\ UNCHANGED <<phase, now, answers, open, low, outcome>>
        \/ /\ ~Parses(message)
           /\ NextTry(TRUE)
           /\ UNCHANGED <<phase, now, mapped, answers, open, low, outcome>>
    /\ UNCHANGED <<scenario, running, plan, sending, lock>>

\* The text of the error tells silence (retryable) from anything else.
StunOutcome(spoiled) == IF spoiled THEN "stun-failure" ELSE "stun-timeout"

StunExhausted ==
    /\ InStun /\ query.try > StunAttempts
    /\ GiveUp(StunOutcome(query.spoiled))

\* The name does not resolve, the socket fails, no transaction id can be drawn,
\* or the two servers turn out to have one address.
StunBroken == InStun /\ GiveUp("stun-failure")

-----------------------------------------------------------------------------
(* The peer's report, and the plan made of the two. *)
Mine == Observe(mapped[1], mapped[2])
Peers == Observe(scenario.peerNat[1], scenario.peerNat[2])

WaveSize(p, sockets) ==
    Len(p.targets) * (IF p.mode \in RandomReceiverModes THEN sockets ELSE 1)

\* LimitNatPunchBarrierWaitMs: of what is left of the attempt, at most
\* BarrierTimeout is spent at the barrier.
BarrierWait(remaining) == Smaller(remaining, BarrierTimeout)
BarrierEnd == now + BarrierWait(Larger(0, Deadline - now))

\* The pool grows to what the plan wants, or to what the system allows.
Grow(p) == \E n \in 1 .. p.sockets : open' = 1 .. n

PrePunchSchedule(p, policy) ==
    NewScheduler(Len(p.targets) * Cardinality(open'), policy.batchSize,
                 policy.batchInterval, 0, FALSE)

PeerInfo(draw) ==
    LET p == BuildPlan(Mine, Peers, MyPolicy, draw)
        role == ExecutionRole(p.mode, scenario.initiator)
        early == PrePunchTtl(role, scenario.attempt) > 0
    IN  /\ phase = "info" /\ running /\ ~Overdue
        /\ plan' = p
        /\ IF p = NoPlan
           THEN /\ Fail("strategy-unsupported")
                /\ UNCHANGED schedule
           ELSE /\ Grow(p)
                /\ phase' = IF early THEN "prepunch" ELSE "barrier"
                /\ schedule' = IF early THEN PrePunchSchedule(p, MyPolicy) ELSE schedule
                /\ UNCHANGED <<low, outcome>>
        /\ tally' = [tally EXCEPT !.until = BarrierEnd]
        /\ UNCHANGED <<scenario, running, now, stun, batch, lock>>

InfoOver ==
    /\ phase = "info"
    /\ \/ ~running /\ GiveUp("stopped")
       \/ running /\ Overdue /\ GiveUp("peer-info-timeout")

-----------------------------------------------------------------------------
(* The probes of a wave, in the pre-punch and in the punch.  A batch is      *)
(* taken, then its probes are sent one by one; Stop and the deadline are     *)
(* looked at before each.                                                    *)
Sending(ph) == phase = ph /\ running /\ ~Overdue

Remaining == MyPolicy.datagramBudget - tally.probes

TakeBatch ==
    LET count == BatchCount(schedule, now, Remaining)
    IN  /\ Sent /\ count > 0
        /\ batch' = [next |-> schedule.cursor, end |-> schedule.cursor + count]
        /\ schedule' = AfterBatch(schedule, now, count)
        /\ tally' = [tally EXCEPT !.taken = now]

\* The punch stops probing once the receiver awaits its confirmation.
Take ==
    /\ Sending("prepunch") \/ (Sending("punch") /\ lock = 0)
    /\ TakeBatch
    /\ UNCHANGED <<scenario, phase, running, now, stun, plan, open, low, lock, outcome>>

\* i / targets.size(), for the probe numbered i.
SocketOf(i) == 1 + i \div Len(plan.targets)

\* RecordProbe: an attempt is counted whether or not something was sent.
Counted(lowered, loud) ==
    [tally EXCEPT !.probes = @ + 1, !.lowered = @ \/ lowered, !.loud = @ \/ loud]

Advance == batch' = [batch EXCEPT !.next = @ + 1]

\* Mutant of ProbeTtl: only the pre-punch wave lowers the TTL.
ProbeTtlOfPhase == IF phase = "prepunch" THEN Ttl ELSE 0

\* The punch keeps the TTL of a pre-punch that could apply it.
ProbeTtl == IF phase = "prepunch" \/ tally.lowered THEN Ttl ELSE 0

\* SendNatPunchProbe: the TTL is set, the datagram sent, the TTL restored.
\* Each can fail; a probe whose TTL cannot be set is not sent.
ProbeUnset == ProbeTtl > 0 /\ tally' = Counted(FALSE, FALSE) /\ UNCHANGED low
ProbeLow == ProbeTtl > 0 /\ tally' = Counted(TRUE, FALSE) /\ UNCHANGED low
ProbeLoud ==
    /\ ProbeTtl = 0
    /\ \E sent \in BOOLEAN : tally' = Counted(FALSE, sent)
    /\ UNCHANGED low

Probing ==
    /\ ~Sent
    /\ Sending("prepunch") \/ Sending("punch")
    /\ UNCHANGED <<scenario, running, now, stun, plan, schedule, lock>>

SendProbe ==
    /\ Probing
    /\ ProbeUnset \/ ProbeLow \/ ProbeLoud
    /\ Advance
    /\ UNCHANGED <<phase, open, outcome>>

\* Mutant of ProbeStuck: the socket is used on with the low TTL.
ProbeStuckIgnored ==
    /\ Probing /\ ProbeTtl > 0
    /\ tally' = Counted(TRUE, FALSE)
    /\ Advance
    /\ low' = low \cup {SocketOf(batch.next)}
    /\ UNCHANGED <<phase, open, outcome>>

\* The TTL cannot be restored: the socket is of no use any more.
ProbeStuck ==
    /\ Probing /\ ProbeTtl > 0
    /\ tally' = Counted(TRUE, FALSE)
    /\ Advance
    /\ Fail("socket-error")

\* Stop or the deadline in the middle of a batch: the rest of it is not sent.
Cut ==
    /\ phase \in {"prepunch", "punch"} /\ ~Sent
    /\ ~running \/ Overdue
    /\ batch' = NoBatch
    /\ UNCHANGED <<scenario, phase, running, now, stun, plan, open, low, schedule, tally,
                   lock, outcome>>

PrePunchEnds ==
    /\ phase = "prepunch" /\ Sent
    /\ \/ ~running /\ GiveUp("stopped")
       \/ running /\ Overdue /\ GiveUp("punch-timeout")
       \/ /\ running /\ ~Overdue
          /\ schedule.finished \/ Remaining <= 0
          /\ phase' = "barrier"
          /\ tally' = [tally EXCEPT !.before = tally.probes, !.until = BarrierEnd]
          /\ UNCHANGED <<scenario, running, now, stun, plan, open, low, schedule, batch,
                         lock, outcome>>

-----------------------------------------------------------------------------
(* The barrier, the sender's delay, and the schedule of the punch. *)
Delay ==
    IF Role = "sender" /\ scenario.attempt \in {2, 3}
    THEN LimitSenderDelay(SenderDelay, Deadline - now) ELSE 0

PunchSchedule(time) ==
    LET wave == WaveSize(plan, Cardinality(open))
        random == plan.mode \in RandomSenderModes
        interval == WaveInterval(MyPolicy, Larger(0, Remaining), wave,
                                 Larger(1, Deadline - time))
    IN  IF random
        THEN NewScheduler(wave, 1, MyPolicy.randomPortInterval,
                          MyPolicy.randomPortInterval, FALSE)
        ELSE NewScheduler(wave, MyPolicy.batchSize, MyPolicy.batchInterval,
                          interval, TRUE)

\* WaitForNatPunchDelay; Stop in the delay is BarrierOver.
Delayed == running /\ now' = now + Delay

\* NAT_START, then the sender's delay.
BarrierOpens ==
    /\ phase = "barrier" /\ now < tally.until
    /\ Delayed
    /\ schedule' = PunchSchedule(now')
    /\ phase' = "punch"
    /\ tally' = [tally EXCEPT !.taken = -1, !.until = 0]
    /\ UNCHANGED <<scenario, running, stun, plan, open, low, batch, lock, outcome>>

\* The peer does not arm in time, or Stop, at the barrier or in the delay.
BarrierOver ==
    /\ phase = "barrier"
    /\ \/ ~running /\ GiveUp("stopped")
       \/ running /\ now >= tally.until /\ GiveUp("barrier-timeout")

-----------------------------------------------------------------------------
(* The punch.  "lock" follows the handshake of module PunchHandshake. *)
\* Receive: whichever socket of the pool has a datagram.
Receives(socket) == Sending("punch") /\ Sent /\ socket \in open

Lock(socket) ==
    /\ Receives(socket)
    /\ Role = "receiver" /\ lock = 0
    /\ lock' = socket
    /\ UNCHANGED <<scenario, phase, running, now, stun, plan, open, low, sending, outcome>>

ReleaseWinner(winner) == open' = {winner}

\* The sender takes an ACK, the receiver the CONFIRM on its socket.
Complete(socket) ==
    /\ Receives(socket)
    /\ Role = "receiver" => socket = lock
    /\ phase' = "done"
    /\ outcome' = "success"
    /\ lock' = socket
    /\ ReleaseWinner(socket)
    /\ UNCHANGED <<scenario, running, now, stun, plan, low, sending>>

\* Mutant of PunchOver: the loop runs until it succeeds or is stopped.
PunchOverOnStop == phase = "punch" /\ Sent /\ ~running /\ GiveUp("stopped")

PunchOver ==
    /\ phase = "punch" /\ Sent
    /\ \/ ~running /\ GiveUp("stopped")
       \/ running /\ Overdue /\ GiveUp("punch-timeout")

\* The server answers with an error; the control socket fails, or the CSPRNG;
\* the wait for a datagram on the pool fails.
Rejected == phase \in {"info", "barrier"} /\ GiveUp("control-error")
ControlBroken == phase \in {"info", "barrier"} /\ GiveUp("socket-error")
PoolBroken == phase = "punch" /\ Sent /\ GiveUp("socket-error")

Broken == Rejected \/ ControlBroken \/ PoolBroken

\* What the thread does of its own accord.
Progress ==
    \/ StunSend \/ StunUnanswered \/ StunExhausted
    \/ Take \/ SendProbe \/ Cut \/ PrePunchEnds
    \/ InfoOver \/ BarrierOver \/ PunchOver

\* What depends on the network, the peer or the system.
Event ==
    \/ StunSpoiled \/ StunBroken
    \/ \E answer \in answers : StunAnswer(answer)
    \/ \E draw \in Draws : PeerInfo(draw)
    \/ BarrierOpens
    \/ \E socket \in open : Lock(socket) \/ Complete(socket)
    \/ ProbeStuck \/ Broken

Next == Progress \/ Event \/ Stop \/ Elapse

Spec == Init /\ [][Next]_vars

\* The thread runs on and the clock goes on.
FairSpec == Spec /\ WF_vars(Progress) /\ WF_vars(Elapse)

-----------------------------------------------------------------------------
(* Properties. *)
\* The two sides derive their plans separately, each from what it believes of
\* both NATs.  "theirs" is the plan the peer derives from the true mappings.
TrueNat == Observe(scenario.nat[1], scenario.nat[2])
Planned == phase \in {"prepunch", "barrier", "punch"} \/ outcome = "strategy-unsupported"
Theirs(draw) == BuildPlan(Peers, TrueNat, MyPolicy, draw)

\* The peer's next mapping, of a NAT that keeps its port or its step.
NextMapping(nat) == PredictedPort(nat[1].port, nat[2].port)

Predicts ==
    (plan.mode \in Modes \ RandomSenderModes /\ plan.mode # "random-receiver")
    => \E i \in DOMAIN plan.targets : plan.targets[i] = NextMapping(scenario.peerNat)

Distinct(targets) ==
    /\ \A i \in DOMAIN targets : targets[i] \in 1 .. MaxPort
    /\ \A i, j \in DOMAIN targets : i # j => targets[i] # targets[j]

\* Two plans made for one pair complement each other: opposite roles, distinct
\* ports, the peer's next mapping among them.  One side alone has no plan only
\* when the port it predicts for the other is none.
PlansMeet ==
    Planned => \A draw \in Draws :
        LET theirs == Theirs(draw)
        IN  /\ (plan # NoPlan /\ theirs # NoPlan) =>
                    ExecutionRole(theirs.mode, ~scenario.initiator) # Role
            /\ (plan = NoPlan /\ theirs # NoPlan) =>
                    NextMapping(scenario.peerNat) \notin 1 .. MaxPort
            /\ Predicts /\ Distinct(plan.targets)

\* The budget is kept, over the pre-punch and the waves; a wave that fits in
\* the budget is never cut by it, since the waves are spread over the attempt;
\* the probes follow each other round the wave.
WavesWhole ==
    LET here == IF Sent THEN schedule.cursor ELSE batch.next
        wave == schedule.waveSize
        budget == MyPolicy.datagramBudget
    IN  /\ tally.probes <= budget
        /\ (phase = "punch" /\ running /\ ~Overdue /\ wave > 0) =>
            /\ ~schedule.finished =>
                (tally.probes - tally.before) % wave = here % wave
            /\ (wave <= budget - tally.before /\ here > 0 /\ ~schedule.finished) =>
                budget - tally.probes >= wave - here

\* A stalled side does not catch up in a burst.
NoBurst ==
    [][(schedule' # schedule /\ phase' = phase /\ tally.taken >= 0) =>
        now >= tally.taken + schedule.batchInterval]_vars

\* A receiver that has opened its own NAT with low-TTL probes never sends one
\* with the normal TTL, which would reach the sender's NAT.
Quiet == ~(tally.lowered /\ tally.loud)

\* However the attempt ends, its sockets are closed; a winner is left, alone
\* and with its normal TTL.
SocketsSettled ==
    phase = "done" =>
        open = (IF outcome = "success" THEN {lock} ELSE {}) /\ low = {}

\* The attempt ends, whatever is lost and whenever Stop comes.
Ends == <>(phase = "done")
=============================================================================

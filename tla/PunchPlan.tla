------------------------------ MODULE PunchPlan ------------------------------
(***************************************************************************)
(* What a side of a punch derives from two STUN observations, the local    *)
(* one and the peer's: the class of each NAT, the mode of the plan, the    *)
(* ports to probe, and the limits of the attempt (src/nat_punch_plan.cpp,  *)
(* ClassifyNatMapping of src/stun_client.cpp).  Everything here is a       *)
(* function of its arguments; the draws of random ports are arguments too. *)
(***************************************************************************)
EXTENDS Integers, Sequences

CONSTANTS
    NoIpv4,             \* the address of an endpoint that is not IPv4
    FirstRandomPort,    \* kFirstRandomPort, 1024
    RandomPortCount     \* kRandomPortCount, 64512

MaxPort == 65535

ASSUME RandomPortsAssumption ==     \* nat_punch_plan.cpp:16
    /\ FirstRandomPort \in Nat \ {0}
    /\ RandomPortCount \in Nat /\ RandomPortCount >= 2
    /\ FirstRandomPort + RandomPortCount <= MaxPort + 1

RegularPortDeltaLimit == 5
RangePredictionMargin == 5
InitialMaximumRangeSpan == 10
InitialMixedRangeSpan == 2

Least(a, b) == IF a <= b THEN a ELSE b
Greatest(a, b) == IF a >= b THEN a ELSE b
Distance(a, b) == IF a <= b THEN b - a ELSE a - b

-----------------------------------------------------------------------------
(* Observations: the endpoints two STUN servers, A and B, have seen. *)
Endpoint(address, port) == [address |-> address, port |-> port]

Behaviors == {"endpoint-independent", "port-dependent-regular",
              "port-dependent-random", "multi-public-ip", "unknown"}

\* Ipv4AddressAndPort succeeds.
IsIpv4(endpoint) == endpoint.address # NoIpv4

ClassifyNatMapping(a, b) ==
    IF ~IsIpv4(a) \/ ~IsIpv4(b) THEN "unknown"
    ELSE IF a.address # b.address THEN "multi-public-ip"
    ELSE IF a.port = b.port THEN "endpoint-independent"
    ELSE IF Distance(a.port, b.port) <= RegularPortDeltaLimit
    THEN "port-dependent-regular"
    ELSE "port-dependent-random"

Observe(a, b) == [behavior |-> ClassifyNatMapping(a, b), mappedA |-> a, mappedB |-> b]

-----------------------------------------------------------------------------
(* The limits of one attempt. *)
Policies == [rangeScale : Nat \ {0}, maximumRangeSpan : Nat \ {0},
             minimumWaveInterval : Nat, datagramBudget : Nat,
             randomReceiverSockets : Nat \ {0}, randomTargets : Nat \ {0},
             randomPortInterval : Nat, batchSize : Nat, batchInterval : Nat]

\* 1 << n, for the shifts that occur.
PowerOfTwo(n) == <<1, 2, 4, 8, 16>>[n + 1]

\* ResolveNatPunchAttemptPolicy.
AggressivePolicy(attempt) ==
    LET exponent == IF attempt = 1 THEN 0 ELSE Least(attempt, 4)
        shift == Least(attempt, 3)
    IN  [rangeScale |-> PowerOfTwo(exponent), maximumRangeSpan |-> 128,
         minimumWaveInterval |-> 75, datagramBudget |-> 131072,
         randomReceiverSockets |-> Least(256, 32 * PowerOfTwo(shift)),
         randomTargets |-> Least(1000, 256 * PowerOfTwo(shift)),
         randomPortInterval |-> 5, batchSize |-> 16, batchInterval |-> 5]

BalancedPolicy(attempt) ==
    LET shift == Least(attempt, 3)
    IN  [rangeScale |-> PowerOfTwo(Least(attempt - 1, 3)), maximumRangeSpan |-> 48,
         minimumWaveInterval |-> 200, datagramBudget |-> 16384,
         randomReceiverSockets |-> Least(128, 16 * PowerOfTwo(shift)),
         randomTargets |-> Least(1000, 128 * PowerOfTwo(shift)),
         randomPortInterval |-> 15, batchSize |-> 8, batchInterval |-> 5]

AttemptPolicy(profile, attempt) ==
    IF profile = "aggressive" THEN AggressivePolicy(attempt) ELSE BalancedPolicy(attempt)

\* Mutant of WaveInterval: the division rounds down.
WaveIntervalFloor(policy, budget, targets, time) ==
    IF targets = 0 \/ time = 0 \/ budget = 0 THEN policy.minimumWaveInterval
    ELSE Greatest(policy.minimumWaveInterval, time \div Greatest(1, budget \div targets))

\* ComputeNatPunchWaveIntervalMs: the waves that fit in the budget are spread
\* over the time that is left.  "budget" replaces the budget of the policy.
WaveInterval(policy, budget, targets, time) ==
    IF targets = 0 \/ time = 0 \/ budget = 0 THEN policy.minimumWaveInterval
    ELSE LET waves == Greatest(1, budget \div targets)
         IN  Greatest(policy.minimumWaveInterval, (time + waves - 1) \div waves)

\* LimitNatPunchSenderDelayMs.
LimitSenderDelay(delay, remaining) ==
    IF delay = 0 \/ remaining < 4 THEN 0 ELSE Least(delay, remaining \div 4)

-----------------------------------------------------------------------------
(* The mode of a plan, by the two behaviours. *)
Modes == {"direct", "regular-sender", "range-scanner", "dual-range-scanner",
          "random-sender", "random-receiver", "mixed-random-sender",
          "mixed-random-receiver"}

NoMode == "none"

SenderModes == {"regular-sender", "random-sender", "mixed-random-sender"}
ReceiverModes == {"range-scanner", "random-receiver", "mixed-random-receiver"}
RandomSenderModes == {"random-sender", "mixed-random-sender"}
RandomReceiverModes == {"random-receiver", "mixed-random-receiver"}

PlanMode(local, peer) ==
    LET easy == "endpoint-independent"
        regular == "port-dependent-regular"
        random == "port-dependent-random"
    IN  CASE local = easy /\ peer = easy -> "direct"
          [] local = easy /\ peer = regular -> "range-scanner"
          [] local = easy /\ peer = random -> "random-sender"
          [] local = regular /\ peer = easy -> "regular-sender"
          [] local = regular /\ peer = regular -> "dual-range-scanner"
          [] local = regular /\ peer = random -> "mixed-random-sender"
          [] local = random /\ peer = easy -> "random-receiver"
          [] local = random /\ peer = regular -> "mixed-random-receiver"
          [] OTHER -> NoMode

\* ResolveNatPunchExecutionPolicy.
ExecutionRole(mode, initiator) ==
    IF mode \in ReceiverModes \/ (mode \notin SenderModes /\ ~initiator)
    THEN "receiver" ELSE "sender"

PrePunchTtl(role, attempt) ==
    IF role # "receiver" THEN 0
    ELSE CASE attempt = 2 -> 7 [] attempt = 3 -> 4 [] OTHER -> 0

-----------------------------------------------------------------------------
(* The ports to probe, in the order of the wave. *)
PortRange(first, last) == [i \in 1 .. (last - first + 1) |-> first + i - 1]

RangeSpan(mode, portA, portB, policy) ==
    LET initial == IF mode = "mixed-random-receiver" THEN InitialMixedRangeSpan
                   ELSE Least(InitialMaximumRangeSpan,
                              Distance(portA, portB) + RangePredictionMargin)
    IN  Least(initial * policy.rangeScale, policy.maximumRangeSpan)

\* BuildPredictedRange: the ports round the predicted one, and none when the
\* observation has no small step or the prediction is not a port.
PredictedPort(portA, portB) == portB + (portB - portA)

Predictable(portA, portB) ==
    /\ Distance(portA, portB) \in 1 .. RegularPortDeltaLimit
    /\ PredictedPort(portA, portB) \in 1 .. MaxPort

PredictedRange(portA, portB, span) ==
    LET predicted == PredictedPort(portA, portB)
    IN  IF ~Predictable(portA, portB) THEN <<>>
        ELSE PortRange(Greatest(1, predicted - span), Least(MaxPort, predicted + span))

\* The step of the random walk: the next one that shares no factor with the
\* number of ports, so that the walk meets every port.
CoprimeStep(step) ==
    LET divides(d, n) == n % d = 0
        coprime(s) == \A d \in 2 .. s : ~(divides(d, s) /\ divides(d, RandomPortCount))
    IN  CHOOSE s \in step .. RandomPortCount :
            coprime(s) /\ \A t \in step .. (s - 1) : ~coprime(t)

RandomWalk(start, step) ==
    LET stride == CoprimeStep(Greatest(1, step))
    IN  [i \in 1 .. RandomPortCount |->
            FirstRandomPort + ((start + (i - 1) * stride) % RandomPortCount)]

\* The ports of the walk that are not in use, until there are enough.
Walked(walk, seen, count) ==
    LET isNew(ports, port) == Len(ports) < count /\ \A i \in DOMAIN ports : ports[i] # port
        taken[n \in 0 .. RandomPortCount] ==
            IF n = 0 THEN seen
            ELSE IF isNew(taken[n - 1], walk[n]) THEN Append(taken[n - 1], walk[n])
            ELSE taken[n - 1]
    IN  taken[RandomPortCount]

\* BuildRandomPortTargets: the two ports seen by STUN, then the walk.  It fails
\* when that is too few.
RandomTargets(portA, portB, count, start, step) ==
    LET seen == IF portA = portB \/ count = 1 THEN <<portB>> ELSE <<portB, portA>>
        targets == Walked(RandomWalk(start, step), seen, count)
    IN  IF Len(targets) = count THEN targets ELSE <<>>

-----------------------------------------------------------------------------
\* BuildNatPunchPlan; "draw" is what the CSPRNG gave.  The plan of a pair that
\* is not supported has no targets.
Plan(mode, targets, sockets) == [mode |-> mode, targets |-> targets, sockets |-> sockets]

NoPlan == Plan(NoMode, <<>>, 1)

RangeOf(mode, peer, policy) ==
    LET portA == peer.mappedA.port
        portB == peer.mappedB.port
    IN  PredictedRange(portA, portB, RangeSpan(mode, portA, portB, policy))

Targets(mode, peer, policy, draw) ==
    CASE mode \in {"direct", "regular-sender", "random-receiver"} -> <<peer.mappedB.port>>
      [] mode \in RandomSenderModes ->
            RandomTargets(peer.mappedA.port, peer.mappedB.port, policy.randomTargets,
                          draw.start, draw.step)
      [] mode \in {"range-scanner", "dual-range-scanner", "mixed-random-receiver"} ->
            RangeOf(mode, peer, policy)
      [] OTHER -> <<>>

BuildPlan(local, peer, policy, draw) ==
    LET mode == PlanMode(local.behavior, peer.behavior)
        targets == Targets(mode, peer, policy, draw)
    IN  IF targets = <<>> THEN NoPlan
        ELSE Plan(mode, targets,
                  IF mode \in RandomReceiverModes THEN policy.randomReceiverSockets ELSE 1)
=============================================================================

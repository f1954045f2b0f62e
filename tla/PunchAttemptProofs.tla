------------------------ MODULE PunchAttemptProofs --------------------------
(***************************************************************************)
(* Theorems about PunchAttempt, for any NATs, policies, draws and times.   *)
(* Quiet rests on when each kind of probe can be sent at all: nothing is   *)
(* sent before there is a plan, and the wave before the barrier is only    *)
(* there when the role and the number of the attempt ask for a low TTL.    *)
(* The pace rests on when the schedule lets the next batch be taken.       *)
(*                                                                         *)
(* The plans (PlansMeet) rest on the mappings of the two sides being what  *)
(* their NATs really do, which the queries see to (PInv), and then on the  *)
(* table of modes and on the lists of ports, which are shown to hold no    *)
(* port twice; for the random walk this takes some number theory.  The     *)
(* waves (WavesWhole) rest on counting them: as many as the budget has     *)
(* room for, an interval apart, fill the attempt (WaveInv).                *)
(***************************************************************************)
EXTENDS PunchAttempt, FiniteSetTheorems, SequenceTheorems, NaturalsInduction,
        WellFoundedInduction, TLAPS

TallyType == [probes : Int, before : Int, lowered : BOOLEAN, loud : BOOLEAN,
              taken : Int, until : Int]

ScheduleType == [waveSize : Int, batchSize : Int, batchInterval : Int, waveInterval : Int,
                 repeat : BOOLEAN, cursor : Int, finished : BOOLEAN,
                 waveStarted : Int, nextSend : Int]

TypeOK ==
    /\ scenario \in Scenarios
    /\ phase \in {"stun", "info", "prepunch", "barrier", "punch", "done"}
    /\ now \in Int
    /\ tally \in TallyType
    /\ schedule \in ScheduleType
    /\ batch \in [next : Int, end : Int]
    /\ Len(plan.targets) \in Nat
    /\ IsFiniteSet(open)

\* The phases in which there is no plan yet.
Early == {"stun", "info"}

\* Probes are sent after the plan is made; those that are low by the role and
\* the number of the attempt, which do not change any more.
ProbesOK ==
    /\ phase \in Early => ~tally.lowered /\ ~tally.loud
    /\ phase = "prepunch" => Ttl > 0 /\ ~tally.loud
    /\ tally.lowered => Ttl > 0 /\ ~tally.loud

\* A socket whose TTL is stuck is not kept; after the end no other is, but the
\* winner.
SocketsOK ==
    /\ low = {}
    /\ phase = "done" => open = (IF outcome = "success" THEN {lock} ELSE {})

\* What is left of a batch is within the budget.
BudgetOK ==
    /\ batch.next <= batch.end
    /\ tally.probes + (batch.end - batch.next) <= MyPolicy.datagramBudget

\* The next batch of a wave is due an interval after the last was taken.
PaceOK ==
    /\ phase \in Early => tally.taken = -1
    /\ (phase \in {"prepunch", "punch"} /\ tally.taken >= 0 /\ ~schedule.finished) =>
            schedule.nextSend >= tally.taken + schedule.batchInterval

IInv == TypeOK /\ ProbesOK /\ SocketsOK /\ BudgetOK /\ PaceOK

-----------------------------------------------------------------------------
(* What the functions of PunchPlan and PunchScheduler return. *)
LEMMA TtlFacts == Ttl \in {0, 4, 7}
BY DEF Ttl, PrePunchTtl

LEMMA PolicyFacts ==
    ASSUME TypeOK
    PROVE  MyPolicy \in Policies
BY AttemptAssumption DEF TypeOK, Scenarios, MyPolicy

LEMMA MaxPortType == MaxPort \in Nat
BY DEF MaxPort

\* Only what can be predicted is a range, so that its bounds are numbers.
LEMMA RangeFacts ==
    ASSUME NEW policy \in Policies, NEW mode, NEW portA, NEW portB
    PROVE  Len(PredictedRange(portA, portB, RangeSpan(mode, portA, portB, policy))) \in Nat
<1> DEFINE span == RangeSpan(mode, portA, portB, policy)
           predicted == PredictedPort(portA, portB)
           distance == Distance(portA, portB)
           first == Greatest(1, predicted - span)
           last == Least(MaxPort, predicted + span)
<1>1. CASE ~Predictable(portA, portB)
  BY <1>1 DEF PredictedRange
<1>2. CASE Predictable(portA, portB)
  <2>1. distance \in 1 .. RegularPortDeltaLimit /\ predicted \in 1 .. MaxPort
    BY <1>2, Zenon DEF Predictable
  <2>2. policy.rangeScale \in Nat /\ policy.maximumRangeSpan \in Nat
    BY DEF Policies
  <2>3. span \in Nat
    <3> DEFINE initial == IF mode = "mixed-random-receiver" THEN InitialMixedRangeSpan
                          ELSE Least(InitialMaximumRangeSpan, distance + RangePredictionMargin)
               scaled == initial * policy.rangeScale
    <3>1. initial \in Nat
      <4> HIDE DEF distance
      <4> QED  BY <2>1 DEF InitialMixedRangeSpan, InitialMaximumRangeSpan,
                           RangePredictionMargin, RegularPortDeltaLimit, Least
    <3>3. span = Least(scaled, policy.maximumRangeSpan)
      BY Zenon DEF RangeSpan
    <3> HIDE DEF initial
    <3>2. scaled \in Nat
      BY <2>2, <3>1
    <3> HIDE DEF scaled, span
    <3> QED  BY <2>2, <3>2, <3>3 DEF Least
  <2>5. PredictedRange(portA, portB, span) = PortRange(first, last)
    BY <1>2, Zenon DEF PredictedRange
  <2> HIDE DEF span, predicted, distance
  <2>4. first \in Int /\ last \in Int /\ first <= last
    <3>1. \A p \in 1 .. MaxPort, n \in Nat :
            /\ Greatest(1, p - n) \in Int /\ Least(MaxPort, p + n) \in Int
            /\ Greatest(1, p - n) <= Least(MaxPort, p + n)
      <4> TAKE p \in 1 .. MaxPort, n \in Nat
      <4>1. p \in Int /\ 1 <= p /\ p <= MaxPort /\ MaxPort \in Int
        BY MaxPortType
      <4>2. Greatest(1, p - n) \in Int /\ Greatest(1, p - n) <= p
        BY <4>1 DEF Greatest
      <4>3. Least(MaxPort, p + n) \in Int /\ p <= Least(MaxPort, p + n)
        BY <4>1 DEF Least
      <4> QED  BY <4>1, <4>2, <4>3
    <3> QED  BY <2>1, <2>3, <3>1
  <2> HIDE DEF first, last
  <2>6. Len(PortRange(first, last)) \in Nat
    BY <2>4 DEF PortRange
  <2> QED  BY <2>5, <2>6 DEF span
<1> QED  BY <1>1, <1>2

LEMMA PlanFacts ==
    ASSUME NEW policy \in Policies, NEW local, NEW peer, NEW draw
    PROVE  Len(BuildPlan(local, peer, policy, draw).targets) \in Nat
<1> DEFINE mode == PlanMode(local.behavior, peer.behavior)
           targets == Targets(mode, peer, policy, draw)
<1>1. Len(targets) \in Nat
  <2> HIDE DEF mode
  <2>1. CASE mode \in {"direct", "regular-sender", "random-receiver"}
    BY <2>1 DEF Targets
  <2>2. CASE mode \in RandomSenderModes
    <3> DEFINE random == RandomTargets(peer.mappedA.port, peer.mappedB.port,
                                       policy.randomTargets, draw.start, draw.step)
    <3>1. policy.randomTargets \in Nat
      BY DEF Policies
    <3>2. random = <<>> \/ Len(random) = policy.randomTargets
      BY Zenon DEF RandomTargets
    <3>3. targets = random
      BY <2>2 DEF Targets, RandomSenderModes
    <3> HIDE DEF targets, random
    <3> QED  BY <3>1, <3>2, <3>3
  <2>3. CASE mode \in {"range-scanner", "dual-range-scanner", "mixed-random-receiver"}
    BY <2>3, RangeFacts DEF Targets, RandomSenderModes, RangeOf
  <2>4. CASE ~(mode \in {"direct", "regular-sender", "random-receiver", "range-scanner",
                         "dual-range-scanner", "mixed-random-receiver"} \cup RandomSenderModes)
    <3>1. targets = <<>>
      BY <2>4 DEF Targets
    <3> QED  BY <3>1
  <2> QED  BY <2>1, <2>2, <2>3, <2>4
<1>2. Len(NoPlan.targets) \in Nat
  BY DEF NoPlan, Plan
<1> HIDE DEF targets, mode
<1>3. BuildPlan(local, peer, policy, draw)
        \in {NoPlan, Plan(mode, targets, policy.randomReceiverSockets), Plan(mode, targets, 1)}
  BY DEF BuildPlan, targets, mode
<1> QED  BY <1>1, <1>2, <1>3 DEF Plan

LEMMA NewSchedulerFacts ==
    ASSUME NEW waveSize \in Int, NEW batchSize \in Int, NEW batchInterval \in Int,
           NEW waveInterval \in Int
    PROVE  /\ NewScheduler(waveSize, batchSize, batchInterval, waveInterval, TRUE) \in ScheduleType
           /\ NewScheduler(waveSize, batchSize, batchInterval, waveInterval, FALSE) \in ScheduleType
BY DEF NewScheduler, ScheduleType, Larger

LEMMA BatchFacts ==
    ASSUME NEW s \in ScheduleType, NEW time \in Int, NEW left \in Int,
           BatchCount(s, time, left) > 0
    PROVE  /\ BatchCount(s, time, left) \in Int
           /\ BatchCount(s, time, left) <= left
           /\ ~s.finished /\ time >= s.nextSend
<1>1. s.batchSize \in Int /\ s.waveSize - s.cursor \in Int /\ s.nextSend \in Int
  BY DEF ScheduleType
<1>2. ~s.finished /\ ~(time < s.nextSend) /\ left # 0
  BY DEF BatchCount
<1>3. \A a, b \in Int : Smaller(a, b) \in Int /\ Smaller(a, b) <= b
  BY DEF Smaller
<1>4. BatchCount(s, time, left) = Smaller(Smaller(s.batchSize, s.waveSize - s.cursor), left)
  BY <1>2 DEF BatchCount
<1>5. Smaller(s.batchSize, s.waveSize - s.cursor) \in Int
  BY <1>1, <1>3
<1>6. BatchCount(s, time, left) \in Int /\ BatchCount(s, time, left) <= left
  BY <1>3, <1>4, <1>5
<1> QED  BY <1>1, <1>2, <1>6

LEMMA AfterBatchFacts ==
    ASSUME NEW s \in ScheduleType, ~s.finished, NEW time \in Int, NEW count \in Int
    PROVE  /\ AfterBatch(s, time, count) \in ScheduleType
           /\ AfterBatch(s, time, count).batchInterval = s.batchInterval
           /\ ~AfterBatch(s, time, count).finished =>
                AfterBatch(s, time, count).nextSend >= time + s.batchInterval
<1> DEFINE cursor == s.cursor + count
           started == IF s.cursor = 0 THEN time ELSE s.waveStarted
           due == time + s.batchInterval
           later == Larger(due, started + s.waveInterval)
           Begun(v) == [[s EXCEPT !.cursor = v] EXCEPT !.waveStarted = started]
           Due(v, t) == [Begun(v) EXCEPT !.nextSend = t]
           last == [Begun(cursor) EXCEPT !.finished = TRUE]
<1>1. AfterBatch(s, time, count) \in {Due(cursor, due), Due(0, later), last}
  BY DEF AfterBatch
<1>2. cursor \in Int /\ started \in Int /\ due \in Int /\ started + s.waveInterval \in Int
  BY DEF ScheduleType
<1>3. later \in Int /\ later >= due
  <2>1. \A a, b \in Int : Larger(a, b) \in Int /\ Larger(a, b) >= a
    BY DEF Larger
  <2> HIDE DEF due, started
  <2> QED  BY <1>2, <2>1
<1> HIDE DEF cursor, started, later
<1>4. ASSUME NEW v \in Int
      PROVE  Begun(v) \in ScheduleType /\ Begun(v).batchInterval = s.batchInterval
  <2>1. /\ [s EXCEPT !.cursor = v] \in ScheduleType
        /\ [s EXCEPT !.cursor = v].batchInterval = s.batchInterval
    BY DEF ScheduleType
  <2>2. \A r \in ScheduleType :
            /\ [r EXCEPT !.waveStarted = started] \in ScheduleType
            /\ [r EXCEPT !.waveStarted = started].batchInterval = r.batchInterval
    BY <1>2 DEF ScheduleType
  <2> QED  BY <2>1, <2>2
<1> HIDE DEF Begun
<1>5. ASSUME NEW v \in Int, NEW t \in Int, t >= due
      PROVE  /\ Due(v, t) \in ScheduleType /\ Due(v, t).batchInterval = s.batchInterval
             /\ Due(v, t).nextSend >= due
  BY <1>4, <1>5 DEF ScheduleType
<1>6. last \in ScheduleType /\ last.batchInterval = s.batchInterval /\ last.finished
  BY <1>2, <1>4 DEF ScheduleType
<1>7. due >= due
  BY <1>2
<1> HIDE DEF Due, last
<1> QED  BY <1>1, <1>2, <1>3, <1>5, <1>6, <1>7

LEMMA PunchScheduleFacts ==
    ASSUME TypeOK, NEW time \in Int
    PROVE  PunchSchedule(time) \in ScheduleType
<1> DEFINE wave == WaveSize(plan, Cardinality(open))
           left == Larger(0, Remaining)
           span == Larger(1, Deadline - time)
<1>1. wave \in Nat
  BY FS_CardinalityType DEF TypeOK, WaveSize
<1>2. left \in Nat /\ span \in Nat \ {0}
  <2>1. \A a \in Nat, b \in Int : Larger(a, b) \in Int /\ Larger(a, b) >= a
    BY DEF Larger
  <2>2. MyPolicy.datagramBudget \in Int /\ tally.probes \in Int
    BY PolicyFacts DEF TypeOK, TallyType, Policies
  <2>3. Remaining \in Int /\ Deadline - time \in Int /\ 0 \in Nat /\ 1 \in Nat
    BY <2>2, AttemptAssumption DEF Remaining
  <2>4. left \in Int /\ left >= 0 /\ span \in Int /\ span >= 1
    BY <2>1, <2>3
  <2> HIDE DEF left, span
  <2> QED  BY <2>4
<1> HIDE DEF wave, left, span
<1>3. WaveInterval(MyPolicy, left, wave, span) \in Int
  <2>1. MyPolicy.minimumWaveInterval \in Nat
    BY PolicyFacts DEF Policies
  <2>2. CASE wave = 0 \/ span = 0 \/ left = 0
    BY <2>1, <2>2 DEF WaveInterval
  <2>3. CASE wave # 0 /\ span # 0 /\ left # 0
    <3> DEFINE waves == Greatest(1, left \div wave)
    <3>1. left \div wave \in Int
      BY <1>1, <1>2, <2>3
    <3>2. waves \in Int /\ waves >= 1
      BY <3>1 DEF Greatest
    <3> HIDE DEF waves
    <3>3. (span + waves - 1) \div waves \in Int
      BY <1>2, <3>2
    <3>4. WaveInterval(MyPolicy, left, wave, span)
            = Greatest(MyPolicy.minimumWaveInterval, (span + waves - 1) \div waves)
      BY <2>3 DEF WaveInterval, waves
    <3> QED  BY <2>1, <3>3, <3>4 DEF Greatest
  <2> QED  BY <2>2, <2>3
<1>4. /\ MyPolicy.randomPortInterval \in Int /\ MyPolicy.batchSize \in Int
      /\ MyPolicy.batchInterval \in Int
  BY PolicyFacts DEF Policies
<1>5. PunchSchedule(time)
        \in {NewScheduler(wave, 1, MyPolicy.randomPortInterval,
                         MyPolicy.randomPortInterval, FALSE),
             NewScheduler(wave, MyPolicy.batchSize, MyPolicy.batchInterval,
                          WaveInterval(MyPolicy, left, wave, span), TRUE)}
  BY Zenon DEF PunchSchedule, wave, left, span
<1>6. wave \in Int /\ 1 \in Int
  BY <1>1
<1>7. NewScheduler(wave, 1, MyPolicy.randomPortInterval, MyPolicy.randomPortInterval, FALSE)
            \in ScheduleType
  BY <1>4, <1>6, NewSchedulerFacts, Zenon
<1>8. NewScheduler(wave, MyPolicy.batchSize, MyPolicy.batchInterval,
                   WaveInterval(MyPolicy, left, wave, span), TRUE) \in ScheduleType
  BY <1>3, <1>4, <1>6, NewSchedulerFacts, Zenon
<1> QED  BY <1>5, <1>7, <1>8, Zenon

-----------------------------------------------------------------------------
LEMMA InitIInv == Init => IInv
<1> SUFFICES ASSUME Init PROVE IInv
  OBVIOUS
<1>1. schedule \in ScheduleType /\ schedule.finished
  <2>1. schedule = NewScheduler(0, 1, 1, 0, FALSE)
    BY DEF Init
  <2>2. NewScheduler(0, 1, 1, 0, FALSE) \in ScheduleType
    <3>1. 0 \in Int /\ 1 \in Int
      OBVIOUS
    <3> QED  BY <3>1, NewSchedulerFacts, Zenon
  <2>3. NewScheduler(0, 1, 1, 0, FALSE).finished
    BY DEF NewScheduler
  <2> QED  BY <2>1, <2>2, <2>3
<1>2. /\ tally \in TallyType /\ ~tally.lowered /\ ~tally.loud
      /\ tally.probes = 0 /\ tally.taken = -1
  BY DEF Init, NewTally, TallyType
<1>3. Len(plan.targets) \in Nat
  BY DEF Init, NoPlan, Plan
<1>4. batch \in [next : Int, end : Int] /\ batch.next = 0 /\ batch.end = 0
  BY DEF Init, NoBatch
<1>5. TypeOK
  BY <1>1, <1>2, <1>3, <1>4, FS_EmptySet, FS_Singleton DEF Init, TypeOK
<1>6. MyPolicy.datagramBudget \in Nat
  BY <1>5, PolicyFacts DEF Policies
<1> QED  BY <1>1, <1>2, <1>4, <1>5, <1>6 DEF Init, IInv, ProbesOK, SocketsOK, BudgetOK, PaceOK

\* A step that leaves the plan, the probes and the schedule alone.
Onward ==
    \/ phase' = phase
    \/ phase' \in {"barrier", "done"}
    \/ phase \in Early /\ phase' \in Early

LEMMA Steady ==
    ASSUME IInv, Onward, UNCHANGED <<scenario, plan, sending>>,
           now' \in Int, IsFiniteSet(open'), SocketsOK'
    PROVE  IInv'
<1>1. TypeOK'
  BY DEF IInv, TypeOK, Onward, Early, sending
<1>2. ProbesOK'
  BY DEF IInv, ProbesOK, Onward, Early, sending, Ttl, Role
<1>3. BudgetOK'
  BY DEF IInv, BudgetOK, MyPolicy, sending
<1>4. PaceOK'
  BY DEF IInv, PaceOK, Onward, Early, sending
<1> QED  BY <1>1, <1>2, <1>3, <1>4 DEF IInv

\* Whatever fails closes the sockets.
LEMMA FailFacts ==
    ASSUME NEW failure, failure # "success", Fail(failure)
    PROVE  phase' = "done" /\ Onward /\ IsFiniteSet(open') /\ SocketsOK'
BY FS_EmptySet DEF Fail, SocketsOK, Onward

LEMMA GiveUpStep ==
    ASSUME IInv, NEW failure, failure # "success", GiveUp(failure)
    PROVE  IInv'
<1>1. Fail(failure) /\ now' \in Int /\ UNCHANGED <<scenario, plan, sending>>
  BY DEF GiveUp, IInv, TypeOK
<1> QED  BY <1>1, FailFacts, Steady

LEMMA GivingUp ==
    ASSUME IInv,
           \/ StunExhausted \/ StunBroken \/ InfoOver \/ BarrierOver \/ PunchOver \/ Broken
    PROVE  IInv'
<1>1. PICK failure : failure # "success" /\ GiveUp(failure)
  <2>1. "stun-failure" # "success" /\ "stun-timeout" # "success" /\ "stopped" # "success"
        /\ "peer-info-timeout" # "success" /\ "barrier-timeout" # "success"
        /\ "punch-timeout" # "success" /\ "control-error" # "success"
        /\ "socket-error" # "success"
    OBVIOUS
  <2> QED  BY <2>1, Zenon DEF StunExhausted, StunOutcome, StunBroken, InfoOver, BarrierOver,
             PunchOver, Broken, Rejected, ControlBroken, PoolBroken
<1> QED  BY <1>1, GiveUpStep

\* What touches neither a socket nor the plan.
LEMMA QuietStep ==
    ASSUME IInv, UNCHANGED <<scenario, plan, sending, open, low, lock, outcome, phase>>,
           now' \in Int
    PROVE  IInv'
<1>1. SocketsOK'
  BY DEF IInv, SocketsOK
<1>2. IsFiniteSet(open') /\ Onward
  BY DEF IInv, TypeOK, Onward
<1> QED  BY <1>1, <1>2, Steady

LEMMA QuietSteps ==
    ASSUME IInv, Stop \/ Elapse \/ StunSend \/ StunSpoiled \/ StunUnanswered
    PROVE  IInv'
<1>1. now' \in Int
  <2>1. now' \in {now, now + 1} /\ now \in Int
    BY Zenon DEF Stop, Elapse, StunSend, StunSpoiled, StunUnanswered, AfterStun, IInv, TypeOK
  <2> QED  BY <2>1
<1>2. UNCHANGED <<scenario, plan, sending, open, low, lock, outcome, phase>>
  BY DEF Stop, Elapse, StunSend, StunSpoiled, StunUnanswered, AfterStun
<1> QED  BY <1>1, <1>2, QuietStep

LEMMA StunAnswerStep ==
    ASSUME IInv, NEW answer \in answers, StunAnswer(answer)
    PROVE  IInv'
<1>1. UNCHANGED <<scenario, plan, sending, lock>> /\ phase = "stun"
  BY DEF StunAnswer, InStun
<1>2. CASE StunEnds
  <2>1. now' \in Int
    BY <1>2, AttemptAssumption DEF StunEnds
  <2>2. CASE Fail("stun-timeout")
    BY <1>1, <2>1, <2>2, FailFacts, Steady
  <2>3. CASE phase' = "info" /\ UNCHANGED <<open, low, outcome>>
    <3>1. SocketsOK' /\ IsFiniteSet(open') /\ Onward
      BY <1>1, <2>3 DEF IInv, SocketsOK, TypeOK, Onward, Early
    <3> QED  BY <1>1, <2>1, <3>1, Steady
  <2> QED  BY <1>2, <2>2, <2>3 DEF StunEnds
<1>3. CASE UNCHANGED <<phase, now, open, low, outcome>>
  <2>1. now' \in Int
    BY <1>3 DEF IInv, TypeOK
  <2> QED  BY <1>1, <1>3, <2>1, QuietStep
<1> QED  BY <1>2, <1>3 DEF StunAnswer

LEMMA LockStep ==
    ASSUME IInv, NEW socket \in open, Lock(socket) \/ Complete(socket)
    PROVE  IInv'
<1>1. now' \in Int /\ UNCHANGED <<scenario, plan, sending>>
  BY DEF Lock, Complete, IInv, TypeOK
<1>2. IsFiniteSet(open')
  <2>1. IsFiniteSet(open) /\ IsFiniteSet({socket})
    BY FS_Singleton DEF IInv, TypeOK
  <2>2. open' = open \/ open' = {socket}
    BY DEF Lock, Complete, ReleaseWinner
  <2> QED  BY <2>1, <2>2
<1>3. SocketsOK' /\ Onward
  BY DEF Lock, Complete, ReleaseWinner, Receives, Sending, IInv, SocketsOK, Onward
<1> QED  BY <1>1, <1>2, <1>3, Steady

\* The plan is made: only now can the role, and so the TTL, be known.
LEMMA PeerInfoStep ==
    ASSUME IInv, NEW draw \in Draws, PeerInfo(draw)
    PROVE  IInv'
<1> DEFINE p == BuildPlan(Mine, Peers, MyPolicy, draw)
           early == PrePunchTtl(ExecutionRole(p.mode, scenario.initiator), scenario.attempt) > 0
<1>1. Len(p.targets) \in Nat
  BY PolicyFacts, PlanFacts DEF IInv
<1>2. plan' = p /\ scenario' = scenario /\ now' = now /\ batch' = batch /\ phase = "info"
  BY DEF PeerInfo
<1>3. /\ tally' \in TallyType /\ tally'.lowered = tally.lowered
      /\ tally'.loud = tally.loud /\ tally'.probes = tally.probes
      /\ tally'.taken = tally.taken
  <2>1. BarrierEnd \in Int
    BY AttemptAssumption DEF BarrierEnd, BarrierWait, Larger, Smaller, IInv, TypeOK
  <2>2. tally' = [tally EXCEPT !.until = BarrierEnd]
    BY DEF PeerInfo
  <2> QED  BY <2>1, <2>2 DEF IInv, TypeOK, TallyType
<1>4. Ttl' > 0 <=> early
  BY <1>2 DEF Ttl, Role
<1> HIDE DEF p, early
<1>5. \/ /\ Fail("strategy-unsupported")
         /\ UNCHANGED schedule
      \/ /\ Grow(p)
         /\ phase' = (IF early THEN "prepunch" ELSE "barrier")
         /\ schedule' = (IF early THEN PrePunchSchedule(p, MyPolicy) ELSE schedule)
         /\ UNCHANGED <<low, outcome>>
  BY DEF PeerInfo, p, early
<1>6. IsFiniteSet(open')
  BY <1>5, FailFacts, FS_Interval DEF Grow
<1>7. SocketsOK'
  BY <1>5, FailFacts DEF IInv, SocketsOK
<1>8. schedule' \in ScheduleType
  <2>1. PrePunchSchedule(p, MyPolicy) \in ScheduleType
    <3>1. MyPolicy.batchSize \in Int /\ MyPolicy.batchInterval \in Int
      BY PolicyFacts DEF IInv, Policies
    <3>2. Len(p.targets) * Cardinality(open') \in Int /\ 0 \in Int
      BY <1>1, <1>6, FS_CardinalityType
    <3> QED  BY <3>1, <3>2, NewSchedulerFacts, Zenon DEF PrePunchSchedule
  <2> QED  BY <1>5, <2>1 DEF IInv, TypeOK
<1>9. phase' \in {"done", "prepunch", "barrier"} /\ (phase' = "prepunch" => early)
  BY <1>5 DEF Fail
<1>10. TypeOK'
  BY <1>1, <1>2, <1>3, <1>6, <1>8, <1>9 DEF IInv, TypeOK
<1>11. ProbesOK'
  BY <1>2, <1>3, <1>4, <1>9, TtlFacts DEF IInv, ProbesOK, Early
<1>12. BudgetOK'
  BY <1>2, <1>3 DEF IInv, BudgetOK, MyPolicy
<1>13. PaceOK'
  BY <1>2, <1>3, <1>9 DEF IInv, PaceOK, Early
<1> QED  BY <1>7, <1>10, <1>11, <1>12, <1>13 DEF IInv

LEMMA TakeStep == ASSUME IInv, Take PROVE IInv'
<1> DEFINE count == BatchCount(schedule, now, Remaining)
<1>1. /\ count > 0 /\ Sent
      /\ batch' = [next |-> schedule.cursor, end |-> schedule.cursor + count]
      /\ schedule' = AfterBatch(schedule, now, count)
      /\ tally' = [tally EXCEPT !.taken = now]
      /\ UNCHANGED <<scenario, phase, now, plan, open, low, lock, outcome>>
      /\ phase \in {"prepunch", "punch"}
  BY DEF Take, TakeBatch, Sending
<1>2. /\ schedule \in ScheduleType /\ now \in Int /\ tally \in TallyType
      /\ MyPolicy.datagramBudget \in Int /\ tally.probes \in Int /\ schedule.cursor \in Int
  BY PolicyFacts DEF IInv, TypeOK, Policies, TallyType, ScheduleType
<1>3. Remaining \in Int
  BY <1>2 DEF Remaining
<1>4. /\ count \in Int /\ count <= Remaining
      /\ ~schedule.finished /\ now >= schedule.nextSend
  BY <1>1, <1>2, <1>3, BatchFacts
<1> HIDE DEF count
<1>5. /\ schedule' \in ScheduleType /\ schedule'.batchInterval = schedule.batchInterval
      /\ ~schedule'.finished => schedule'.nextSend >= now + schedule.batchInterval
  BY <1>1, <1>2, <1>4, AfterBatchFacts
<1>6. /\ tally' \in TallyType /\ tally'.lowered = tally.lowered /\ tally'.loud = tally.loud
      /\ tally'.probes = tally.probes /\ tally'.taken = now
  BY <1>1, <1>2 DEF TallyType
<1>7. batch' \in [next : Int, end : Int] /\ batch'.next = schedule.cursor
      /\ batch'.end = schedule.cursor + count
  BY <1>1, <1>2, <1>4
<1>8. TypeOK'
  BY <1>1, <1>5, <1>6, <1>7 DEF IInv, TypeOK
<1>9. ProbesOK'
  BY <1>1, <1>6 DEF IInv, ProbesOK, Early, Ttl, Role
<1>10. SocketsOK'
  BY <1>1 DEF IInv, SocketsOK
<1>11. BudgetOK'
  <2>1. MyPolicy' = MyPolicy
    BY <1>1 DEF MyPolicy
  <2> QED  BY <1>1, <1>2, <1>4, <1>6, <1>7, <2>1 DEF BudgetOK, Remaining
<1>12. PaceOK'
  BY <1>1, <1>5, <1>6 DEF PaceOK, Early
<1> QED  BY <1>8, <1>9, <1>10, <1>11, <1>12 DEF IInv

\* A probe is counted, low or loud.
LEMMA CountedFacts ==
    ASSUME IInv, NEW lowered \in BOOLEAN, NEW loud \in BOOLEAN
    PROVE  /\ Counted(lowered, loud) \in TallyType
           /\ Counted(lowered, loud).probes = tally.probes + 1
           /\ Counted(lowered, loud).before = tally.before
           /\ Counted(lowered, loud).taken = tally.taken
           /\ Counted(lowered, loud).lowered = (tally.lowered \/ lowered)
           /\ Counted(lowered, loud).loud = (tally.loud \/ loud)
<1> DEFINE a == tally.lowered \/ lowered
           b == tally.loud \/ loud
           first == [tally EXCEPT !.probes = tally.probes + 1]
           second == [first EXCEPT !.lowered = a]
           third == [second EXCEPT !.loud = b]
<1>1. third = Counted(lowered, loud)
  BY DEF Counted
<1>2. tally \in TallyType /\ a \in BOOLEAN /\ b \in BOOLEAN
  BY DEF IInv, TypeOK
<1> HIDE DEF a, b
<1>3. /\ first \in TallyType /\ first.probes = tally.probes + 1 /\ first.taken = tally.taken
      /\ first.before = tally.before
  BY <1>2 DEF TallyType
<1> HIDE DEF first
<1>4. /\ second \in TallyType /\ second.probes = tally.probes + 1
      /\ second.before = tally.before
      /\ second.taken = tally.taken /\ second.lowered = a
  BY <1>2, <1>3 DEF TallyType
<1> HIDE DEF second
<1>5. /\ third \in TallyType /\ third.probes = tally.probes + 1
      /\ third.before = tally.before
      /\ third.taken = tally.taken /\ third.lowered = a /\ third.loud = b
  BY <1>2, <1>4 DEF TallyType
<1> HIDE DEF third
<1> QED  BY <1>1, <1>5 DEF a, b

\* A low probe is there to be sent only where the plan asks for it, and a loud
\* one only before any low one.
LEMMA ProbeFacts ==
    ASSUME IInv, Probing, Advance, NEW lowered \in BOOLEAN, NEW loud \in BOOLEAN,
           tally' = Counted(lowered, loud), lowered => ProbeTtl > 0, loud => ProbeTtl = 0,
           phase' \in {phase, "done"}, SocketsOK', IsFiniteSet(open')
    PROVE  IInv'
<1>1. /\ UNCHANGED <<scenario, now, plan, schedule>>
      /\ phase \in {"prepunch", "punch"} /\ batch.next # batch.end
      /\ batch' = [batch EXCEPT !.next = batch.next + 1]
  BY DEF Probing, Advance, Sending, Sent
<1>2. /\ batch \in [next : Int, end : Int] /\ tally \in TallyType
      /\ tally.probes \in Int /\ MyPolicy.datagramBudget \in Int
  BY PolicyFacts DEF IInv, TypeOK, TallyType, Policies
<1>3. /\ batch' \in [next : Int, end : Int]
      /\ batch'.next = batch.next + 1 /\ batch'.end = batch.end
      /\ batch.next \in Int /\ batch.end \in Int
  BY <1>1, <1>2
<1>4. /\ tally' \in TallyType /\ tally'.probes = tally.probes + 1 /\ tally'.taken = tally.taken
      /\ tally'.lowered <=> (tally.lowered \/ lowered)
      /\ tally'.loud <=> (tally.loud \/ loud)
  BY CountedFacts
<1>5. TypeOK'
  BY <1>1, <1>3, <1>4 DEF IInv, TypeOK
<1>6. ProbesOK'
  <2>1. Ttl' = Ttl
    BY <1>1 DEF Ttl, Role
  <2>2. lowered => Ttl > 0
    BY DEF ProbeTtl
  <2>3. phase = "prepunch" => ProbeTtl > 0 /\ ~loud
    BY TtlFacts DEF ProbeTtl, IInv, ProbesOK
  <2>4. loud => ~tally.lowered /\ ~lowered
    BY TtlFacts DEF ProbeTtl, IInv, ProbesOK
  <2>5. tally.loud => ~lowered
    BY DEF ProbeTtl, IInv, ProbesOK
  <2> QED  BY <1>1, <1>4, <2>1, <2>2, <2>3, <2>4, <2>5, TtlFacts DEF IInv, ProbesOK, Early
<1>7. BudgetOK'
  <2>1. MyPolicy' = MyPolicy
    BY <1>1 DEF MyPolicy
  <2>2. /\ batch.next <= batch.end
        /\ tally.probes + (batch.end - batch.next) <= MyPolicy.datagramBudget
    BY DEF IInv, BudgetOK
  <2>3. /\ batch'.next <= batch'.end
        /\ tally'.probes + (batch'.end - batch'.next) <= MyPolicy.datagramBudget
    BY <1>1, <1>2, <1>3, <1>4, <2>2
  <2> QED  BY <2>1, <2>3 DEF BudgetOK
<1>8. PaceOK'
  BY <1>1, <1>4 DEF IInv, PaceOK, Early
<1> QED  BY <1>5, <1>6, <1>7, <1>8 DEF IInv

LEMMA SendProbeStep == ASSUME IInv, SendProbe PROVE IInv'
<1>1. Probing /\ Advance /\ UNCHANGED <<phase, open, outcome, low, lock>>
  BY DEF SendProbe, Probing, ProbeUnset, ProbeLow, ProbeLoud
<1>2. SocketsOK' /\ IsFiniteSet(open')
  BY <1>1 DEF IInv, SocketsOK, TypeOK
<1>3. CASE ProbeUnset
  BY <1>1, <1>2, <1>3, ProbeFacts DEF ProbeUnset
<1>4. CASE ProbeLow
  BY <1>1, <1>2, <1>4, ProbeFacts DEF ProbeLow
<1>5. CASE ProbeLoud
  BY <1>1, <1>2, <1>5, ProbeFacts DEF ProbeLoud
<1> QED  BY <1>3, <1>4, <1>5 DEF SendProbe

LEMMA ProbeStuckStep == ASSUME IInv, ProbeStuck PROVE IInv'
<1>1. Probing /\ Advance /\ ProbeTtl > 0 /\ tally' = Counted(TRUE, FALSE)
      /\ Fail("socket-error")
  BY DEF ProbeStuck
<1>2. phase' = "done" /\ SocketsOK' /\ IsFiniteSet(open')
  BY <1>1, FailFacts
<1> QED  BY <1>1, <1>2, ProbeFacts

LEMMA CutStep == ASSUME IInv, Cut PROVE IInv'
<1>1. /\ batch' = NoBatch
      /\ UNCHANGED <<scenario, phase, now, plan, open, low, schedule, tally, lock, outcome>>
  BY DEF Cut
<1>2. batch' \in [next : Int, end : Int] /\ batch'.next = 0 /\ batch'.end = 0
  BY <1>1 DEF NoBatch
<1>3. TypeOK'
  BY <1>1, <1>2 DEF IInv, TypeOK
<1>4. ProbesOK' /\ SocketsOK' /\ PaceOK'
  BY <1>1 DEF IInv, ProbesOK, SocketsOK, PaceOK, Early, Ttl, Role
<1>5. BudgetOK'
  <2>1. MyPolicy' = MyPolicy
    BY <1>1 DEF MyPolicy
  <2>2. /\ tally.probes \in Int /\ MyPolicy.datagramBudget \in Int
        /\ batch.next \in Int /\ batch.end \in Int
    BY PolicyFacts DEF IInv, TypeOK, TallyType, Policies
  <2> QED  BY <1>1, <1>2, <2>1, <2>2 DEF IInv, BudgetOK
<1> QED  BY <1>3, <1>4, <1>5 DEF IInv

LEMMA PrePunchEndsStep == ASSUME IInv, PrePunchEnds PROVE IInv'
<1>1. CASE \E failure \in {"stopped", "punch-timeout"} : GiveUp(failure)
  BY <1>1, GiveUpStep
<1>2. CASE /\ phase = "prepunch" /\ phase' = "barrier"
           /\ tally' = [tally EXCEPT !.before = tally.probes, !.until = BarrierEnd]
           /\ UNCHANGED <<scenario, now, plan, open, low, schedule, batch, lock, outcome>>
  <2>1. BarrierEnd \in Int
    BY AttemptAssumption DEF BarrierEnd, BarrierWait, Larger, Smaller, IInv, TypeOK
  <2>2. /\ tally' \in TallyType /\ tally'.lowered = tally.lowered
        /\ tally'.loud = tally.loud /\ tally'.probes = tally.probes
    <3> DEFINE first == [tally EXCEPT !.before = tally.probes]
               second == [first EXCEPT !.until = BarrierEnd]
    <3>1. tally' = second
      BY <1>2
    <3>2. /\ first \in TallyType /\ first.lowered = tally.lowered
          /\ first.loud = tally.loud /\ first.probes = tally.probes
      BY DEF IInv, TypeOK, TallyType
    <3> HIDE DEF first
    <3>3. /\ second \in TallyType /\ second.lowered = first.lowered
          /\ second.loud = first.loud /\ second.probes = first.probes
      BY <2>1, <3>2 DEF TallyType
    <3> HIDE DEF second
    <3> QED  BY <3>1, <3>2, <3>3
  <2>3. TypeOK'
    BY <1>2, <2>2 DEF IInv, TypeOK
  <2>4. ProbesOK' /\ SocketsOK' /\ PaceOK'
    BY <1>2, <2>2 DEF IInv, ProbesOK, SocketsOK, PaceOK, Early, Ttl, Role
  <2>5. BudgetOK'
    BY <1>2, <2>2 DEF IInv, BudgetOK, MyPolicy
  <2> QED  BY <2>3, <2>4, <2>5 DEF IInv
<1> QED  BY <1>1, <1>2 DEF PrePunchEnds

LEMMA BarrierOpensStep == ASSUME IInv, BarrierOpens PROVE IInv'
<1>1. /\ phase = "barrier" /\ phase' = "punch" /\ now' = now + Delay
      /\ schedule' = PunchSchedule(now')
      /\ tally' = [tally EXCEPT !.taken = -1, !.until = 0]
      /\ UNCHANGED <<scenario, plan, open, low, batch, lock, outcome>>
  BY DEF BarrierOpens, Delayed
<1>2. now' \in Int
  <2>1. Deadline - now \in Int /\ now \in Int
    BY AttemptAssumption DEF IInv, TypeOK
  <2>2. \A left \in Int : LimitSenderDelay(SenderDelay, left) \in Int
    <3> TAKE left \in Int
    <3>1. left \div 4 \in Int /\ SenderDelay \in Int
      BY AttemptAssumption
    <3> QED  BY <3>1 DEF LimitSenderDelay, Least
  <2>3. Delay \in Int
    BY <2>1, <2>2 DEF Delay
  <2> QED  BY <1>1, <2>1, <2>3
<1>3. schedule' \in ScheduleType
  BY <1>1, <1>2, PunchScheduleFacts DEF IInv
<1>4. /\ tally' \in TallyType /\ tally'.lowered = tally.lowered
      /\ tally'.loud = tally.loud /\ tally'.probes = tally.probes /\ tally'.taken = -1
  <2> DEFINE first == [tally EXCEPT !.taken = -1]
             second == [first EXCEPT !.until = 0]
  <2>1. tally' = second
    BY <1>1
  <2>2. /\ first \in TallyType /\ first.lowered = tally.lowered
        /\ first.loud = tally.loud /\ first.probes = tally.probes /\ first.taken = -1
    BY DEF IInv, TypeOK, TallyType
  <2> HIDE DEF first
  <2>3. /\ second \in TallyType /\ second.lowered = first.lowered
        /\ second.loud = first.loud /\ second.probes = first.probes
        /\ second.taken = first.taken
    BY <2>2 DEF TallyType
  <2> HIDE DEF second
  <2> QED  BY <2>1, <2>2, <2>3
<1>5. TypeOK'
  BY <1>1, <1>2, <1>3, <1>4 DEF IInv, TypeOK
<1>6. ProbesOK' /\ SocketsOK' /\ PaceOK'
  BY <1>1, <1>4 DEF IInv, ProbesOK, SocketsOK, PaceOK, Early, Ttl, Role
<1>7. BudgetOK'
  BY <1>1, <1>4 DEF IInv, BudgetOK, MyPolicy
<1> QED  BY <1>5, <1>6, <1>7 DEF IInv

-----------------------------------------------------------------------------
LEMMA NextIInv == IInv /\ [Next]_vars => IInv'
<1> SUFFICES ASSUME IInv, [Next]_vars PROVE IInv'
  OBVIOUS
<1>1. CASE UNCHANGED vars
  <2>1. now' \in Int /\ UNCHANGED <<scenario, plan, sending, open, low, lock, outcome, phase>>
    BY <1>1 DEF vars, IInv, TypeOK
  <2> QED  BY <2>1, QuietStep
<1>2. CASE Progress
  BY <1>2, QuietSteps, GivingUp, TakeStep, SendProbeStep, CutStep, PrePunchEndsStep DEF Progress
<1>3. CASE Event
  BY <1>3, QuietSteps, GivingUp, StunAnswerStep, PeerInfoStep, BarrierOpensStep, LockStep,
     ProbeStuckStep DEF Event
<1>4. CASE Stop \/ Elapse
  BY <1>4, QuietSteps
<1> QED  BY <1>1, <1>2, <1>3, <1>4 DEF Next

\* The invariant: which probes a phase allows, what is left of a batch, and when
\* the next is due (PunchAdaptiveNat, NatPunchScheduler).
THEOREM Invariance == Spec => []IInv
BY InitIInv, NextIInv, PTL DEF Spec

\* A receiver that has probed with the low TTL never sends a probe that would
\* reach the sender's NAT, whatever fails (SendNatPunchProbe and its callers).
THEOREM NeverLoud == Spec => []Quiet
<1>1. IInv => Quiet
  BY DEF IInv, ProbesOK, Quiet
<1> QED  BY <1>1, Invariance, PTL

\* However an attempt ends, nothing stays open but a winner, and that with its
\* normal TTL (fail, ReleaseWinner and the pool's destructor).
THEOREM NothingLeftOpen == Spec => []SocketsSettled
<1>1. IInv => SocketsSettled
  BY DEF IInv, SocketsOK, SocketsSettled
<1> QED  BY <1>1, Invariance, PTL

\* A side that was stalled does not catch up in a burst: between two batches of
\* one wave there is an interval (NatPunchScheduler's nextSend).
THEOREM Paced == Spec => NoBurst
<1>1. IInv /\ [Next]_vars
        => [(schedule' # schedule /\ phase' = phase /\ tally.taken >= 0) =>
                now >= tally.taken + schedule.batchInterval]_vars
  <2> SUFFICES ASSUME IInv, Next, schedule' # schedule, phase' = phase, tally.taken >= 0
               PROVE  now >= tally.taken + schedule.batchInterval
    OBVIOUS
  <2>1. Take
    <3>1. ~(\E draw \in Draws : PeerInfo(draw))
      BY DEF PeerInfo, Fail
    <3>2. ~BarrierOpens
      BY DEF BarrierOpens
    <3>3. CASE Progress
      BY <3>3 DEF Progress, StunSend, StunUnanswered, StunExhausted, SendProbe, Probing, Cut,
                  PrePunchEnds, InfoOver, BarrierOver, PunchOver, AfterStun, GiveUp, sending
    <3>4. CASE Event
      BY <3>1, <3>2, <3>4
      DEF Event, StunSpoiled, StunBroken, StunAnswer, Lock, Complete, ProbeStuck, Probing,
          Broken, Rejected, ControlBroken, PoolBroken, AfterStun, GiveUp, sending
    <3> QED  BY <3>3, <3>4 DEF Next, Stop, Elapse, sending
  <2>2. BatchCount(schedule, now, Remaining) > 0 /\ phase \in {"prepunch", "punch"}
    BY <2>1 DEF Take, TakeBatch, Sending
  <2>3. /\ schedule \in ScheduleType /\ now \in Int /\ Remaining \in Int
    <3>1. schedule \in ScheduleType /\ now \in Int
      BY DEF IInv, TypeOK
    <3>2. tally.probes \in Int /\ MyPolicy.datagramBudget \in Int
      BY PolicyFacts DEF IInv, TypeOK, Policies, TallyType
    <3> QED  BY <3>1, <3>2 DEF Remaining
  <2>4. ~schedule.finished /\ now >= schedule.nextSend
    BY <2>2, <2>3, BatchFacts
  <2>5. schedule.nextSend >= tally.taken + schedule.batchInterval
    BY <2>2, <2>4 DEF IInv, PaceOK
  <2>6. /\ schedule.nextSend \in Int /\ schedule.batchInterval \in Int /\ tally.taken \in Int
    BY DEF IInv, TypeOK, ScheduleType, TallyType
  <2> QED  BY <2>3, <2>4, <2>5, <2>6
<1> QED  BY <1>1, Invariance, PTL DEF Spec, NoBurst

-----------------------------------------------------------------------------
(* The walk of the random ports.  A step that shares no factor with the      *)
(* number of ports meets all of them before it meets one again, so that the  *)
(* list is filled whatever was drawn.                                        *)

\* Every set of numbers has a least one: this is the induction of what follows.
LEMMA LeastNumber ==
    ASSUME NEW T \in SUBSET Nat, T # {}
    PROVE  \E m \in T : \A n \in T : m <= n
<1> DEFINE R == OpToRel(<, Nat)
<1>1. IsWellFoundedOn(R, Nat)
  BY NatLessThanWellFounded
<1>2. R = {pair \in Nat \X Nat : pair[1] < pair[2]}
  BY DEF OpToRel
<1> HIDE DEF R
<1>3. PICK m \in T : \A n \in T : ~(<<n, m>> \in R)
  BY <1>1, WFMin
<1>4. \A n \in T : m <= n
  <2> SUFFICES ASSUME NEW n \in T PROVE m <= n
    OBVIOUS
  <2>1. ~(n < m)
    BY <1>2, <1>3
  <2> QED  BY <2>1
<1> QED  BY <1>4

\* What % and \div are.
LEMMA Division ==
    ASSUME NEW a \in Int, NEW n \in Nat \ {0}
    PROVE  /\ a = n * (a \div n) + (a % n)
           /\ a % n \in 0 .. n - 1 /\ a \div n \in Int
OBVIOUS

LEMMA Remainder ==
    ASSUME NEW n \in Nat \ {0}, NEW q \in Int, NEW r \in 0 .. n - 1, NEW a \in Int, a = n * q + r
    PROVE  a % n = r /\ a \div n = q
<1>1. n * q + r = n * (a \div n) + (a % n) /\ a % n \in 0 .. n - 1 /\ a \div n \in Int
  BY Division
<1>2. ASSUME NEW p \in Int, NEW d \in Int, NEW s \in 0 .. n - 1, n * q + r = n * d + s
      PROVE  q = d /\ r = s
  BY <1>2
<1> QED  BY <1>1, <1>2

LEMMA Multiple ==
    ASSUME NEW a \in Int, NEW n \in Nat \ {0}
    PROVE  a % n = 0 <=> \E q \in Int : a = n * q
<1>1. ASSUME NEW q \in Int, a = n * q PROVE a % n = 0
  <2>1. a = n * q + 0 /\ 0 \in 0 .. n - 1
    BY <1>1
  <2> QED  BY <2>1, Remainder
<1>2. ASSUME a % n = 0 PROVE \E q \in Int : a = n * q
  <2>1. a = n * (a \div n) /\ a \div n \in Int
    BY <1>2, Division
  <2> QED  BY <2>1
<1> QED  BY <1>1, <1>2

\* Equal remainders.
LEMMA SameRemainder ==
    ASSUME NEW a \in Int, NEW b \in Int, NEW n \in Nat \ {0}, a % n = b % n
    PROVE  (a - b) % n = 0
<1> DEFINE p == a \div n
           q == b \div n
<1>1. a = n * p + (a % n) /\ b = n * q + (b % n) /\ p \in Int /\ q \in Int
      /\ a % n \in Int
  BY Division
<1> HIDE DEF p, q
<1>2. a - b = n * p - n * q
  BY <1>1
<1>3. n * p - n * q = n * (p - q)
  BY <1>1
<1>4. a - b \in Int /\ p - q \in Int /\ a - b = n * (p - q)
  BY <1>1, <1>2, <1>3
<1> QED  BY <1>4, Multiple

\* A step without a factor in common with n comes back after n steps only.
LEMMA CoprimeWalk ==
    ASSUME NEW n \in Nat \ {0}, NEW s \in Nat \ {0},
           \A d \in 2 .. s : ~(s % d = 0 /\ n % d = 0),
           NEW k \in 1 .. n - 1
    PROVE  (k * s) % n # 0
<1> SUFFICES ASSUME (k * s) % n = 0 PROVE FALSE
  OBVIOUS
<1> DEFINE T == {d \in 1 .. n : (d * s) % n = 0}
<1>1. T \in SUBSET Nat /\ k \in T
  OBVIOUS
<1>2. PICK m \in T : \A d \in T : m <= d
  BY <1>1, LeastNumber, Zenon
<1>3. m \in 1 .. n - 1 /\ (m * s) % n = 0
  BY <1>1, <1>2
<1>4. m * s \in Int
  BY <1>3
<1>5. PICK t \in Int : m * s = n * t
  BY <1>3, <1>4, Multiple
<1> DEFINE e == n \div m
           r == n % m
<1>6. n = m * e + r /\ r \in 0 .. m - 1 /\ e \in Int
  BY <1>3, Division
<1> HIDE DEF e, r
<1>7. r = 0
  <2> SUFFICES ASSUME r # 0 PROVE FALSE
    OBVIOUS
  <2>1. r * s = n * (s - e * t)
    <3>1. r * s = n * s - (m * e) * s
      BY <1>6, <1>3
    <3>2. (m * e) * s = e * (m * s)
      BY <1>6, <1>3
    <3>3. e * (n * t) = n * (e * t)
      BY <1>6
    <3>4. n * (s - e * t) = n * s - n * (e * t)
      BY <1>6
    <3> QED  BY <1>5, <3>1, <3>2, <3>3, <3>4
  <2>2. r * s \in Int /\ s - e * t \in Int
    BY <1>6
  <2>3. (r * s) % n = 0
    BY <2>1, <2>2, Multiple
  <2>4. r \in T
    BY <1>3, <1>6, <2>3
  <2> QED  BY <1>2, <1>3, <1>6, <2>4
<1>8. n = m * e /\ e >= 2
  <2>1. n = m * e
    BY <1>3, <1>6, <1>7
  <2>2. ~(e <= 1)
    BY <1>3, <1>6, <2>1
  <2> QED  BY <1>6, <2>1, <2>2
<1>9. s = e * t
  <2>1. m * s = m * (e * t)
    BY <1>3, <1>5, <1>6, <1>8
  <2>2. ASSUME NEW x \in Int, NEW y \in Int, m * x = m * y PROVE x = y
    BY <1>3, <2>2
  <2>3. e * t \in Int
    BY <1>6
  <2> QED  BY <2>1, <2>2, <2>3
<1>10. t >= 1 /\ e <= s
  BY <1>6, <1>8, <1>9
<1>11. s % e = 0 /\ n % e = 0
  <2>1. n = e * m /\ m \in Int /\ e \in Nat \ {0}
    BY <1>3, <1>6, <1>8
  <2> QED  BY <1>9, <2>1, Multiple
<1>12. e \in 2 .. s
  BY <1>6, <1>8, <1>10
<1> QED  BY <1>11, <1>12

\* The steps that BuildRandomPortTargets may walk with.
Coprime(s) == \A d \in 2 .. s : ~(s % d = 0 /\ RandomPortCount % d = 0)

LEMMA CoprimeStepFacts ==
    ASSUME NEW step \in 1 .. RandomPortCount - 1
    PROVE  CoprimeStep(step) \in 1 .. RandomPortCount /\ Coprime(CoprimeStep(step))
<1> DEFINE N == RandomPortCount
           C == {s \in step .. N : Coprime(s)}
           Good(s) == Coprime(s) /\ \A t \in step .. s - 1 : ~Coprime(t)
<1>1. N \in Nat /\ N >= 2 /\ step \in Nat
  BY RandomPortsAssumption
<1>2. N - 1 \in C
  <2>1. ASSUME NEW d \in 2 .. N - 1, (N - 1) % d = 0, N % d = 0 PROVE FALSE
    <3>1. PICK p \in Int : N - 1 = d * p
      BY <1>1, <2>1, Multiple
    <3>2. PICK q \in Int : N = d * q
      BY <1>1, <2>1, Multiple
    <3>3. d * q - d * p = 1
      BY <1>1, <3>1, <3>2
    <3>4. d * (q - p) = 1
      BY <3>3
    <3> QED  BY <3>4
  <2> QED  BY <1>1, <2>1 DEF Coprime
<1>3. C \in SUBSET Nat /\ C # {}
  BY <1>1, <1>2
<1>4. PICK s \in C : \A t \in C : s <= t
  BY <1>3, LeastNumber, Zenon
<1>5. s \in step .. N /\ Good(s)
  BY <1>1, <1>4
<1>6. CoprimeStep(step) = CHOOSE x \in step .. N : Good(x)
  BY DEF CoprimeStep, Coprime
<1> HIDE DEF Good
<1>7. CoprimeStep(step) \in step .. N /\ Good(CoprimeStep(step))
  BY <1>5, <1>6
<1> QED  BY <1>1, <1>7 DEF Good

\* The walk meets no port twice.
LEMMA WalkFacts ==
    ASSUME NEW start \in 0 .. RandomPortCount - 1, NEW step \in 0 .. RandomPortCount - 1
    PROVE  /\ RandomWalk(start, step) \in [1 .. RandomPortCount -> 1 .. MaxPort]
           /\ \A i, j \in 1 .. RandomPortCount :
                i # j => RandomWalk(start, step)[i] # RandomWalk(start, step)[j]
<1> DEFINE N == RandomPortCount
           s == CoprimeStep(Greatest(1, step))
           walk == RandomWalk(start, step)
           At(i) == start + (i - 1) * s
<1>1. N \in Nat \ {0} /\ N >= 2 /\ FirstRandomPort \in Nat \ {0}
      /\ FirstRandomPort + N <= MaxPort + 1 /\ MaxPort \in Nat
  BY RandomPortsAssumption DEF MaxPort
<1>2. s \in 1 .. N /\ Coprime(s)
  <2>1. Greatest(1, step) \in 1 .. N - 1
    BY <1>1 DEF Greatest
  <2> QED  BY <2>1, CoprimeStepFacts
<1>3. walk = [i \in 1 .. N |-> FirstRandomPort + (At(i) % N)]
  BY DEF RandomWalk
<1> HIDE DEF s, walk
<1>4. ASSUME NEW i \in 1 .. N
      PROVE  /\ At(i) \in Int /\ At(i) % N \in 0 .. N - 1
             /\ walk[i] = FirstRandomPort + (At(i) % N)
  <2>1. At(i) \in Int
    BY <1>1, <1>2
  <2> HIDE DEF At
  <2> QED  BY <1>1, <1>3, <2>1, Division
<1>5. walk \in [1 .. N -> 1 .. MaxPort]
  <2>1. \A i \in 1 .. N : FirstRandomPort + (At(i) % N) \in 1 .. MaxPort
    <3> HIDE DEF At
    <3> QED  BY <1>1, <1>4
  <2> QED  BY <1>3, <2>1, Zenon
<1>6. ASSUME NEW i \in 1 .. N, NEW j \in 1 .. N, i < j PROVE walk[i] # walk[j]
  <2> SUFFICES ASSUME walk[i] = walk[j] PROVE FALSE
    OBVIOUS
  <2>1. At(j) % N = At(i) % N
    <3> HIDE DEF At
    <3> QED  BY <1>1, <1>4
  <2>2. (At(j) - At(i)) % N = 0
    <3>1. At(i) \in Int /\ At(j) \in Int
      BY <1>4
    <3> HIDE DEF At
    <3> QED  BY <1>1, <2>1, <3>1, SameRemainder
  <2>3. At(j) - At(i) = (j - i) * s
    BY <1>1, <1>2
  <2>4. ((j - i) * s) % N # 0
    <3>1. j - i \in 1 .. N - 1 /\ s \in Nat \ {0}
      BY <1>1, <1>2, <1>6
    <3>2. \A d \in 2 .. s : ~(s % d = 0 /\ N % d = 0)
      BY <1>2 DEF Coprime
    <3> QED  BY <1>1, <3>1, <3>2, CoprimeWalk
  <2> QED  BY <2>2, <2>3, <2>4
<1>7. \A i, j \in 1 .. N : i # j => walk[i] # walk[j]
  <2> SUFFICES ASSUME NEW i \in 1 .. N, NEW j \in 1 .. N, i # j PROVE walk[i] # walk[j]
    OBVIOUS
  <2>1. i < j \/ j < i
    OBVIOUS
  <2> QED  BY <1>6, <2>1
<1> QED  BY <1>5, <1>7 DEF walk

\* One turn of the loop of BuildRandomPortTargets.
NextPorts(ports, port, count) ==
    IF Len(ports) < count /\ \A i \in DOMAIN ports : ports[i] # port
    THEN Append(ports, port) ELSE ports

\* The turns 1 .. k of the loop.
IsLoop(f, k, walk, seen, count) ==
    f = [n \in 0 .. k |-> IF n = 0 THEN seen ELSE NextPorts(f[n - 1], walk[n], count)]

\* A recursive function on numbers has the value that its equation says.
LEMMA LoopExists ==
    ASSUME NEW walk, NEW seen, NEW count, NEW last \in Nat
    PROVE  \E f : IsLoop(f, last, walk, seen, count)
<1> DEFINE Bad == {k \in Nat : ~\E f : IsLoop(f, k, walk, seen, count)}
<1> SUFFICES ASSUME Bad # {} PROVE FALSE
  OBVIOUS
<1>1. PICK k \in Bad : \A n \in Bad : k <= n
  <2>1. Bad \in SUBSET Nat
    OBVIOUS
  <2> HIDE DEF Bad
  <2> QED  BY <2>1, LeastNumber
<1>2. CASE k = 0
  <2>1. IsLoop([n \in 0 .. 0 |-> seen], 0, walk, seen, count)
    <3> DEFINE f == [n \in 0 .. 0 |-> seen]
    <3>1. f = [n \in 0 .. 0 |-> IF n = 0 THEN seen ELSE NextPorts(f[n - 1], walk[n], count)]
      OBVIOUS
    <3> QED  BY <3>1 DEF IsLoop
  <2> QED  BY <1>1, <1>2, <2>1
<1>3. CASE k # 0
  <2>1. k - 1 \in Nat /\ k - 1 \notin Bad /\ k \in Nat
    BY <1>1, <1>3
  <2>2. PICK f : IsLoop(f, k - 1, walk, seen, count)
    BY <2>1
  <2> DEFINE g == [n \in 0 .. k |-> IF n = k THEN NextPorts(f[k - 1], walk[k], count) ELSE f[n]]
             h == [n \in 0 .. k |-> IF n = 0 THEN seen ELSE NextPorts(g[n - 1], walk[n], count)]
  <2>3. ASSUME NEW n \in 0 .. k PROVE g[n] = h[n]
    <3>1. CASE n = 0
      <4>1. g[n] = f[0] /\ 0 \in 0 .. k - 1
        BY <1>3, <2>1, <3>1
      <4>2. f[0] = seen
        BY <2>1, <2>2, <4>1 DEF IsLoop
      <4> QED  BY <3>1, <4>1, <4>2
    <3>2. CASE n = k
      <4>1. g[n] = NextPorts(f[k - 1], walk[k], count)
        BY <3>2
      <4>2. g[k - 1] = f[k - 1]
        BY <2>1
      <4>3. h[n] = NextPorts(g[k - 1], walk[k], count)
        BY <1>3, <3>2
      <4> HIDE DEF g, h
      <4> QED  BY <4>1, <4>2, <4>3
    <3>3. CASE n # 0 /\ n # k
      <4>1. n \in 0 .. k - 1 /\ n - 1 \in 0 .. k /\ n - 1 # k
        BY <2>1, <3>3
      <4>2. f[n] = NextPorts(f[n - 1], walk[n], count)
        BY <2>2, <3>3, <4>1 DEF IsLoop
      <4>3. g[n] = f[n] /\ g[n - 1] = f[n - 1]
        BY <3>3, <4>1
      <4>4. h[n] = NextPorts(g[n - 1], walk[n], count)
        BY <3>3
      <4> HIDE DEF g, h
      <4> QED  BY <4>2, <4>3, <4>4
    <3> QED  BY <3>1, <3>2, <3>3
  <2>4. g = h
    BY <2>3
  <2>5. IsLoop(g, k, walk, seen, count)
    BY <2>4 DEF IsLoop
  <2> QED  BY <1>1, <2>5
<1> QED  BY <1>2, <1>3

LEMMA WalkedFacts ==
    ASSUME NEW walk, NEW seen, NEW count
    PROVE  \E f : /\ IsLoop(f, RandomPortCount, walk, seen, count)
                  /\ Walked(walk, seen, count) = f[RandomPortCount]
<1> DEFINE taken == CHOOSE f : IsLoop(f, RandomPortCount, walk, seen, count)
<1>1. IsLoop(taken, RandomPortCount, walk, seen, count)
  BY LoopExists, RandomPortsAssumption, Zenon
<1>2. Walked(walk, seen, count) = taken[RandomPortCount]
  BY DEF Walked, IsLoop, NextPorts
<1> QED  BY <1>1, <1>2

\* The ports of a list are ports, and different ones.
Ports == {p \in Seq(1 .. MaxPort) : \A i, j \in 1 .. Len(p) : i # j => p[i] # p[j]}

\* A list has a port, and continues another one.
Has(ports, port) == \E i \in 1 .. Len(ports) : ports[i] = port
Continues(next, ports) == \A i \in 1 .. Len(ports) : next[i] = ports[i]

LEMMA NextPortsFacts ==
    ASSUME NEW ports \in Ports, NEW port \in 1 .. MaxPort, NEW count \in Nat, Len(ports) <= count,
           NEW next, next = NextPorts(ports, port, count)
    PROVE  /\ next \in Ports
           /\ Len(next) \in Len(ports) .. count
           /\ Continues(next, ports)
           /\ Len(next) = count \/ Has(next, port)
<1>0. ports \in Seq(1 .. MaxPort) /\ Len(ports) \in Nat /\ DOMAIN ports = 1 .. Len(ports)
  BY DEF Ports
<1>1. CASE Len(ports) < count /\ \A i \in DOMAIN ports : ports[i] # port
  <2>1. next = Append(ports, port)
    BY <1>1 DEF NextPorts
  <2>2. /\ next \in Seq(1 .. MaxPort) /\ Len(next) = Len(ports) + 1
        /\ next[Len(ports) + 1] = port
        /\ \A i \in 1 .. Len(ports) : next[i] = ports[i]
    BY <1>0, <2>1
  <2>3. ASSUME NEW i \in 1 .. Len(next), NEW j \in 1 .. Len(next), i # j PROVE next[i] # next[j]
    <3>1. ASSUME NEW x \in 1 .. Len(ports) PROVE next[x] = ports[x] /\ ports[x] # port
      BY <1>0, <1>1, <2>2
    <3>2. i \in 1 .. Len(ports) \/ i = Len(ports) + 1
      BY <1>0, <2>2
    <3>3. j \in 1 .. Len(ports) \/ j = Len(ports) + 1
      BY <1>0, <2>2
    <3>4. \A x, y \in 1 .. Len(ports) : x # y => ports[x] # ports[y]
      BY DEF Ports
    <3> QED  BY <2>2, <2>3, <3>1, <3>2, <3>3, <3>4
  <2>4. next \in Ports
    BY <2>2, <2>3 DEF Ports
  <2>5. Len(ports) + 1 \in 1 .. Len(next) /\ Len(next) \in Len(ports) .. count
    BY <1>0, <1>1, <2>2
  <2> QED  BY <2>2, <2>4, <2>5 DEF Continues, Has
<1>2. CASE ~(Len(ports) < count /\ \A i \in DOMAIN ports : ports[i] # port)
  <2>1. next = ports
    BY <1>2 DEF NextPorts
  <2>2. Len(ports) = count \/ \E i \in 1 .. Len(ports) : ports[i] = port
    <3>0. \A x, y \in Nat : x <= y => x = y \/ x < y
      OBVIOUS
    <3>1. Len(ports) = count \/ Len(ports) < count
      BY <1>0, <3>0
    <3>2. Len(ports) = count \/ ~\A i \in 1 .. Len(ports) : ports[i] # port
      BY <1>0, <1>2, <3>1
    <3> QED  BY <3>2
  <2>3. Len(ports) \in Len(ports) .. count
    BY <1>0
  <2>4. next \in Ports /\ Len(next) \in Len(ports) .. count
    BY <2>1, <2>3
  <2>5. Len(next) = count \/ \E i \in 1 .. Len(next) : next[i] = port
    BY <2>1, <2>2
  <2>6. \A i \in 1 .. Len(ports) : next[i] = ports[i]
    BY <2>1
  <2> QED  BY <2>4, <2>5, <2>6 DEF Continues, Has
<1> QED  BY <1>1, <1>2

\* A list that is full, or has all that the walk has met in n turns.
Filled(ports, n, walk, count) ==
    /\ ports \in Ports /\ Len(ports) <= count
    /\ Len(ports) = count \/ \A j \in 1 .. n : Has(ports, walk[j])

LEMMA FilledStep ==
    ASSUME NEW walk, NEW n \in Nat \ {0}, walk[n] \in 1 .. MaxPort, NEW count \in Nat,
           NEW ports, Filled(ports, n - 1, walk, count)
    PROVE  Filled(NextPorts(ports, walk[n], count), n, walk, count)
<1> DEFINE next == NextPorts(ports, walk[n], count)
           port == walk[n]
<1>1. ports \in Ports /\ Len(ports) <= count /\ port \in 1 .. MaxPort /\ Len(ports) \in Nat
  BY DEF Filled, Ports
<1>2. next = NextPorts(ports, port, count)
  OBVIOUS
<1> HIDE DEF next, port
<1>3. /\ next \in Ports
      /\ Len(next) \in Len(ports) .. count
      /\ Continues(next, ports)
      /\ Len(next) = count \/ Has(next, port)
  BY <1>1, <1>2, NextPortsFacts
<1>4. ASSUME Len(next) # count
      PROVE  \A j \in 1 .. n : Has(next, walk[j])
  <2>1. Len(ports) # count
    BY <1>1, <1>3, <1>4
  <2>2. \A j \in 1 .. n - 1 : Has(ports, walk[j])
    BY <2>1 DEF Filled
  <2>3. ASSUME NEW j \in 1 .. n - 1 PROVE Has(next, walk[j])
    <3>1. PICK i \in 1 .. Len(ports) : ports[i] = walk[j]
      BY <2>2 DEF Has
    <3>2. i \in 1 .. Len(next) /\ next[i] = walk[j]
      BY <1>1, <1>3, <3>1 DEF Continues
    <3> QED  BY <3>2 DEF Has
  <2>4. Has(next, walk[n])
    BY <1>3, <1>4 DEF port
  <2>5. \A j \in 1 .. n : j \in 1 .. n - 1 \/ j = n
    OBVIOUS
  <2> QED  BY <2>3, <2>4, <2>5
<1>5. Filled(next, n, walk, count)
  <2>1. Len(next) <= count
    BY <1>1, <1>3
  <2> QED  BY <1>3, <1>4, <2>1 DEF Filled
<1> QED  BY <1>5 DEF next

\* Whatever the walk starts with, it fills the list: it meets more ports than
\* are asked for.
LEMMA WalkFills ==
    ASSUME NEW walk \in [1 .. RandomPortCount -> 1 .. MaxPort],
           \A i, j \in 1 .. RandomPortCount : i # j => walk[i] # walk[j],
           NEW seen \in Ports, NEW count \in 1 .. RandomPortCount, Len(seen) <= count
    PROVE  Walked(walk, seen, count) \in Ports /\ Len(Walked(walk, seen, count)) = count
<1> DEFINE N == RandomPortCount
<1>0. N \in Nat
  BY RandomPortsAssumption
<1>1. PICK f : IsLoop(f, N, walk, seen, count) /\ Walked(walk, seen, count) = f[N]
  BY WalkedFacts
<1> DEFINE Bad == {n \in 0 .. N : ~Filled(f[n], n, walk, count)}
<1>2. Bad = {}
  <2> SUFFICES ASSUME Bad # {} PROVE FALSE
    OBVIOUS
  <2>0. Bad \in SUBSET (0 .. N)
    OBVIOUS
  <2>1. PICK n \in Bad : \A m \in Bad : n <= m
    <3>1. Bad \in SUBSET Nat
      BY <1>0, <2>0
    <3> HIDE DEF Bad
    <3> QED  BY <3>1, LeastNumber
  <2>2. CASE n = 0
    <3>1. f[0] = seen
      BY <1>0, <1>1 DEF IsLoop
    <3>2. Filled(seen, 0, walk, count)
      BY DEF Filled
    <3> QED  BY <2>1, <2>2, <3>1, <3>2
  <2>3. CASE n # 0
    <3>1. n \in 1 .. N /\ n - 1 \in 0 .. N /\ n - 1 \notin Bad
      <4>1. n \in 0 .. N
        BY <2>0, <2>1
      <4> HIDE DEF Bad
      <4> QED  BY <1>0, <2>1, <2>3, <4>1
    <3>2. f[n] = NextPorts(f[n - 1], walk[n], count)
      BY <1>1, <3>1 DEF IsLoop
    <3>3. Filled(f[n - 1], n - 1, walk, count)
      BY <3>1
    <3>4. n \in Nat \ {0} /\ walk[n] \in 1 .. MaxPort /\ count \in Nat
      BY <1>0, <3>1
    <3>5. Filled(f[n], n, walk, count)
      BY <3>2, <3>3, <3>4, FilledStep, ZenonT(40)
    <3> QED  BY <2>1, <3>5
  <2> QED  BY <2>2, <2>3
<1> DEFINE ports == f[N]
<1>3. Filled(ports, N, walk, count)
  BY <1>0, <1>2
<1>4. ports \in Ports /\ Len(ports) \in Nat /\ Len(ports) <= count
  BY <1>3 DEF Filled, Ports
<1>5. Len(ports) = count
  <2> SUFFICES ASSUME Len(ports) # count PROVE FALSE
    OBVIOUS
  <2>1. \A j \in 1 .. N : \E i \in 1 .. Len(ports) : ports[i] = walk[j]
    BY <1>3 DEF Filled, Has
  <2> HIDE DEF ports
  <2> DEFINE place == [j \in 1 .. N |-> CHOOSE i \in 1 .. Len(ports) : ports[i] = walk[j]]
  <2>2. \A j \in 1 .. N : place[j] \in 1 .. Len(ports) /\ ports[place[j]] = walk[j]
    BY <2>1
  <2>3. place \in [1 .. N -> 1 .. Len(ports)]
    BY <2>2
  <2>4. \A i, j \in 1 .. N : place[i] = place[j] => i = j
    BY <2>2
  <2>5. /\ IsFiniteSet(1 .. N) /\ Cardinality(1 .. N) = N
        /\ IsFiniteSet(1 .. Len(ports)) /\ Cardinality(1 .. Len(ports)) = Len(ports)
    <3>1. \A n \in Nat : IsFiniteSet(1 .. n) /\ Cardinality(1 .. n) = n
      <4> TAKE n \in Nat
      <4>1. IsFiniteSet(1 .. n) /\ Cardinality(1 .. n) = IF 1 > n THEN 0 ELSE n - 1 + 1
        BY FS_Interval
      <4> QED  BY <4>1
    <3> QED  BY <1>0, <1>4, <3>1
  <2>6. Len(ports) < N
    BY <1>0, <1>4
  <2> HIDE DEF place
  <2>7. \E i, j \in 1 .. N : i # j /\ place[i] = place[j]
    BY <2>3, <2>5, <2>6, FS_PigeonHole
  <2> QED  BY <2>4, <2>7
<1> QED  BY <1>1, <1>4, <1>5

\* BuildRandomPortTargets never fails for a count that it takes: whatever the
\* CSPRNG gives, the list is complete, all in it are ports, and none is there
\* twice.
THEOREM RandomTargetsFilled ==
    ASSUME NEW portA \in 1 .. MaxPort, NEW portB \in 1 .. MaxPort,
           NEW count \in 1 .. RandomPortCount,
           NEW start \in 0 .. RandomPortCount - 1, NEW step \in 0 .. RandomPortCount - 1
    PROVE  /\ RandomTargets(portA, portB, count, start, step) \in Ports
           /\ Len(RandomTargets(portA, portB, count, start, step)) = count
<1> DEFINE seen == IF portA = portB \/ count = 1 THEN <<portB>> ELSE <<portB, portA>>
           walk == RandomWalk(start, step)
<1>1. seen \in Ports /\ Len(seen) <= count
  <2>1. <<portB>> \in Ports /\ Len(<<portB>>) = 1
    BY DEF Ports
  <2>2. portA # portB => <<portB, portA>> \in Ports /\ Len(<<portB, portA>>) = 2
    BY DEF Ports
  <2> QED  BY <2>1, <2>2, RandomPortsAssumption
<1>2. /\ walk \in [1 .. RandomPortCount -> 1 .. MaxPort]
      /\ \A i, j \in 1 .. RandomPortCount : i # j => walk[i] # walk[j]
  BY WalkFacts
<1> HIDE DEF seen, walk
<1>3. Walked(walk, seen, count) \in Ports /\ Len(Walked(walk, seen, count)) = count
  BY <1>1, <1>2, WalkFills
<1> QED  BY <1>3 DEF RandomTargets, seen, walk

-----------------------------------------------------------------------------
(* What a plan is made of.                                                   *)

IsPort(endpoint) == endpoint.port \in 1 .. MaxPort

LEMMA SpanFacts ==
    ASSUME NEW policy \in Policies, NEW mode, NEW portA \in Int, NEW portB \in Int
    PROVE  RangeSpan(mode, portA, portB, policy) \in Nat
<1> DEFINE distance == Distance(portA, portB)
           initial == IF mode = "mixed-random-receiver" THEN InitialMixedRangeSpan
                      ELSE Least(InitialMaximumRangeSpan, distance + RangePredictionMargin)
           scaled == initial * policy.rangeScale
<1>1. policy.rangeScale \in Nat /\ policy.maximumRangeSpan \in Nat
  BY DEF Policies
<1>2. initial \in Nat
  <2>1. distance \in Nat
    BY DEF Distance
  <2> HIDE DEF distance
  <2> QED  BY <2>1 DEF InitialMixedRangeSpan, InitialMaximumRangeSpan,
                      RangePredictionMargin, Least
<1>3. RangeSpan(mode, portA, portB, policy) = Least(scaled, policy.maximumRangeSpan)
  BY Zenon DEF RangeSpan
<1> HIDE DEF initial
<1>4. scaled \in Nat
  BY <1>1, <1>2
<1> HIDE DEF scaled
<1> QED  BY <1>1, <1>3, <1>4 DEF Least

\* The range round a prediction is of different ports, the predicted one among
\* them, also where it is clamped.
LEMMA RangePorts ==
    ASSUME NEW portA \in 1 .. MaxPort, NEW portB \in 1 .. MaxPort, NEW span \in Nat,
           Predictable(portA, portB)
    PROVE  /\ PredictedRange(portA, portB, span) \in Ports
           /\ Has(PredictedRange(portA, portB, span), PredictedPort(portA, portB))
<1> DEFINE predicted == PredictedPort(portA, portB)
           first == Greatest(1, predicted - span)
           last == Least(MaxPort, predicted + span)
           size == last - first + 1
           range == [i \in 1 .. size |-> first + i - 1]
<1>1. PredictedRange(portA, portB, span) = range
  BY Zenon DEF PredictedRange, PortRange
<1>2. predicted \in 1 .. MaxPort /\ MaxPort \in Nat
  <2>1. predicted \in 1 .. MaxPort
    BY Zenon DEF Predictable
  <2>2. MaxPort \in Nat
    BY MaxPortType
  <2> QED  BY <2>1, <2>2
<1> HIDE DEF predicted
<1>3. /\ first \in 1 .. MaxPort /\ last \in 1 .. MaxPort
      /\ first <= predicted /\ predicted <= last
  <2>1. first \in 1 .. MaxPort /\ first <= predicted
    BY <1>2 DEF Greatest
  <2>2. last \in 1 .. MaxPort /\ predicted <= last
    BY <1>2 DEF Least
  <2> QED  BY <2>1, <2>2
<1> HIDE DEF first, last
<1>4. size \in Nat /\ predicted - first + 1 \in 1 .. size
  BY <1>2, <1>3
<1>5. \A i \in 1 .. size : first + i - 1 \in 1 .. MaxPort
  BY <1>2, <1>3
<1> HIDE DEF size
<1>6. range \in Seq(1 .. MaxPort) /\ Len(range) = size
  BY <1>4, <1>5
<1>7. \A i, j \in 1 .. size : i # j => range[i] # range[j]
  BY <1>3
<1>8. range[predicted - first + 1] = predicted
  BY <1>2, <1>3, <1>4
<1> HIDE DEF range
<1>9. range \in Ports
  BY <1>6, <1>7 DEF Ports
<1>10. Has(range, predicted)
  BY <1>4, <1>6, <1>8 DEF Has
<1> QED  BY <1>1, <1>9, <1>10 DEF predicted

\* What a class of NATs says of its ports.
LEMMA ClassFacts ==
    ASSUME NEW a, NEW b, IsPort(a), IsPort(b)
    PROVE  /\ ClassifyNatMapping(a, b) \in Behaviors
           /\ ClassifyNatMapping(a, b) = "endpoint-independent" => a.port = b.port
           /\ ClassifyNatMapping(a, b) = "port-dependent-regular"
                => Distance(a.port, b.port) \in 1 .. RegularPortDeltaLimit
<1>1. a.port \in Int /\ b.port \in Int
  BY DEF IsPort
<1>2. a.port # b.port => Distance(a.port, b.port) \in Nat /\ Distance(a.port, b.port) # 0
  BY <1>1 DEF Distance
<1>3. RegularPortDeltaLimit \in Nat
  BY DEF RegularPortDeltaLimit
<1> QED  BY <1>2, <1>3 DEF ClassifyNatMapping, Behaviors

Supported == {"endpoint-independent", "port-dependent-regular", "port-dependent-random"}

\* The table of modes: both sides have one or neither has, and their roles are
\* opposite.
LEMMA ModeFacts ==
    ASSUME NEW local \in Behaviors, NEW peer \in Behaviors, NEW initiator \in BOOLEAN
    PROVE  /\ PlanMode(local, peer) = NoMode <=> PlanMode(peer, local) = NoMode
           /\ PlanMode(local, peer) \in Modes \cup {NoMode}
           /\ PlanMode(local, peer) # NoMode =>
                ExecutionRole(PlanMode(peer, local), ~initiator)
                    # ExecutionRole(PlanMode(local, peer), initiator)
<1>1. CASE local \notin Supported \/ peer \notin Supported
  BY <1>1 DEF PlanMode, NoMode, Supported
<1>2. CASE local \in Supported /\ peer \in Supported
  BY <1>2 DEF PlanMode, NoMode, Modes, Supported, ExecutionRole, ReceiverModes, SenderModes
<1> QED  BY <1>1, <1>2

\* Which peer a mode is for.
LEMMA ModePeers ==
    ASSUME NEW local \in Behaviors, NEW peer \in Behaviors
    PROVE  /\ PlanMode(local, peer) \in {"direct", "regular-sender", "random-receiver"}
                => peer = "endpoint-independent"
           /\ PlanMode(local, peer) \in {"range-scanner", "dual-range-scanner", "mixed-random-receiver"}
                => peer = "port-dependent-regular"
BY DEF PlanMode, NoMode, Behaviors

\* The modes whose targets are predictions.
RangeModes == {"range-scanner", "dual-range-scanner", "mixed-random-receiver"}
PortModes == {"direct", "regular-sender", "random-receiver"}

GoodPolicy(policy) == policy \in Policies /\ policy.randomTargets <= RandomPortCount
GoodDraw(draw) == draw.start \in 0 .. RandomPortCount - 1 /\ draw.step \in 0 .. RandomPortCount - 1

LEMMA ModeKinds ==
    /\ Modes = PortModes \cup RandomSenderModes \cup RangeModes
    /\ \A mode \in Modes : mode \in RangeModes => mode \notin PortModes /\ mode \notin RandomSenderModes
    /\ \A mode \in Modes : mode \in RandomSenderModes => mode \notin PortModes
    /\ NoMode \notin Modes
BY DEF Modes, PortModes, RandomSenderModes, RangeModes, NoMode

\* The targets for a peer: different ports, the peer's next mapping among them,
\* and none only where that mapping cannot be.
LEMMA TargetsFacts ==
    ASSUME NEW policy, GoodPolicy(policy), NEW draw, GoodDraw(draw),
           NEW a, NEW b, IsPort(a), IsPort(b), NEW local \in Behaviors,
           NEW mode, mode = PlanMode(local, ClassifyNatMapping(a, b)), mode # NoMode,
           NEW targets, targets = Targets(mode, Observe(a, b), policy, draw)
    PROVE  /\ targets \in Ports
           /\ targets = <<>> => PredictedPort(a.port, b.port) \notin 1 .. MaxPort
           /\ targets # <<>> /\ mode \notin RandomSenderModes
                => Has(targets, PredictedPort(a.port, b.port))
<1> DEFINE peer == Observe(a, b)
           next == PredictedPort(a.port, b.port)
<1>1. /\ peer.mappedA = a /\ peer.mappedB = b
      /\ a.port \in 1 .. MaxPort /\ b.port \in 1 .. MaxPort
      /\ a.port \in Int /\ b.port \in Int
  BY DEF Observe, IsPort
<1>2. mode \in Modes
  BY ModeFacts, ClassFacts
<1> HIDE DEF peer
<1>3. CASE mode \in PortModes
  <2>1. a.port = b.port
    BY <1>3, ModePeers, ClassFacts DEF PortModes
  <2>2. next = b.port
    BY <1>1, <2>1 DEF PredictedPort
  <2>3. targets = <<b.port>>
    BY <1>1, <1>3 DEF Targets, PortModes, RandomSenderModes, peer
  <2>4. targets \in Ports /\ Has(targets, b.port) /\ targets # <<>>
    BY <1>1, <2>3 DEF Ports, Has
  <2> QED  BY <2>2, <2>4
<1>4. CASE mode \in RandomSenderModes
  <2>1. policy.randomTargets \in 1 .. RandomPortCount
    BY RandomPortsAssumption DEF GoodPolicy, Policies
  <2>2. targets = RandomTargets(a.port, b.port, policy.randomTargets, draw.start, draw.step)
    BY <1>1, <1>4 DEF Targets, RandomSenderModes, peer
  <2>3. targets \in Ports /\ Len(targets) = policy.randomTargets
    BY <1>1, <2>1, <2>2, RandomTargetsFilled DEF GoodDraw
  <2>4. targets # <<>>
    BY <2>1, <2>3
  <2> QED  BY <1>4, <2>3, <2>4
<1>5. CASE mode \in RangeModes
  <2> DEFINE span == RangeSpan(mode, a.port, b.port, policy)
  <2>1. Distance(a.port, b.port) \in 1 .. RegularPortDeltaLimit
    BY <1>5, ModePeers, ClassFacts DEF RangeModes
  <2>2. span \in Nat
    BY <1>1, SpanFacts DEF GoodPolicy
  <2>3. targets = PredictedRange(a.port, b.port, span)
    BY <1>1, <1>5 DEF Targets, RangeModes, RangeOf, RandomSenderModes, peer
  <2> HIDE DEF span
  <2>4. CASE Predictable(a.port, b.port)
    <3>1. targets \in Ports /\ Has(targets, next)
      BY <1>1, <2>2, <2>3, <2>4, RangePorts
    <3>2. targets # <<>>
      BY <3>1 DEF Has
    <3> QED  BY <3>1, <3>2
  <2>5. CASE ~Predictable(a.port, b.port)
    <3>1. next \notin 1 .. MaxPort
      BY <2>1, <2>5 DEF Predictable
    <3>2. targets = <<>>
      BY <2>3, <2>5 DEF PredictedRange
    <3>3. targets \in Ports
      BY <3>2 DEF Ports
    <3> QED  BY <3>1, <3>2, <3>3
  <2> QED  BY <2>4, <2>5
<1> QED  BY <1>2, <1>3, <1>4, <1>5, ModeKinds

\* The plan is none, or has the mode of the table and a target.
LEMMA PlanShape ==
    ASSUME NEW policy, NEW draw, NEW local, NEW peer,
           NEW p, p = BuildPlan(local, peer, policy, draw),
           NEW mode, mode = PlanMode(local.behavior, peer.behavior),
           NEW targets, targets = Targets(mode, peer, policy, draw)
    PROVE  /\ p.targets = targets
           /\ targets = <<>> => p = NoPlan /\ p.mode = NoMode
           /\ targets # <<>> => p # NoPlan /\ p.mode = mode
<1>1. CASE targets = <<>>
  BY <1>1 DEF BuildPlan, NoPlan, Plan
<1>2. CASE targets # <<>>
  <2>1. \E n : p = Plan(mode, targets, n)
    BY <1>2 DEF BuildPlan
  <2> QED  BY <1>2, <2>1 DEF NoPlan, Plan
<1> QED  BY <1>1, <1>2

\* Two plans that are made of the same two NATs.
LEMMA PlansComplement ==
    ASSUME NEW policy, GoodPolicy(policy), NEW draw, GoodDraw(draw), NEW draw2, GoodDraw(draw2),
           NEW a, NEW b, IsPort(a), IsPort(b),
           NEW c, NEW d, IsPort(c), IsPort(d), NEW initiator \in BOOLEAN,
           NEW p, p = BuildPlan(Observe(a, b), Observe(c, d), policy, draw),
           NEW q, q = BuildPlan(Observe(c, d), Observe(a, b), policy, draw2)
    PROVE  /\ (p # NoPlan /\ q # NoPlan) =>
                ExecutionRole(q.mode, ~initiator) # ExecutionRole(p.mode, initiator)
           /\ (p = NoPlan /\ q # NoPlan) => PredictedPort(c.port, d.port) \notin 1 .. MaxPort
           /\ (p.mode \in Modes /\ p.mode \notin RandomSenderModes)
                => Has(p.targets, PredictedPort(c.port, d.port))
           /\ p.targets \in Ports
<1> DEFINE local == ClassifyNatMapping(a, b)
           peer == ClassifyNatMapping(c, d)
           mode == PlanMode(local, peer)
           mode2 == PlanMode(peer, local)
           targets == Targets(mode, Observe(c, d), policy, draw)
           targets2 == Targets(mode2, Observe(a, b), policy, draw2)
<1>1. local \in Behaviors /\ peer \in Behaviors
  BY ClassFacts
<1>2. Observe(a, b).behavior = local /\ Observe(c, d).behavior = peer
  BY DEF Observe
<1> HIDE DEF local, peer
<1>3. /\ p.targets = targets
      /\ targets = <<>> => p = NoPlan /\ p.mode = NoMode
      /\ targets # <<>> => p # NoPlan /\ p.mode = mode
  BY <1>2, PlanShape
<1>4. /\ targets2 = <<>> => q = NoPlan
      /\ targets2 # <<>> => q # NoPlan /\ q.mode = mode2
  BY <1>2, PlanShape
<1>5. mode # NoMode =>
        /\ targets \in Ports
        /\ targets = <<>> => PredictedPort(c.port, d.port) \notin 1 .. MaxPort
        /\ targets # <<>> /\ mode \notin RandomSenderModes
             => Has(targets, PredictedPort(c.port, d.port))
  BY <1>1, TargetsFacts DEF peer
<1>6. ASSUME NEW m, m = NoMode, NEW n, NEW r PROVE Targets(m, n, policy, r) = <<>>
  BY <1>6 DEF Targets, NoMode, RandomSenderModes
<1>7. (mode = NoMode => targets = <<>>) /\ (mode2 = NoMode => targets2 = <<>>)
  BY <1>6
<1>8. /\ mode = NoMode <=> mode2 = NoMode
      /\ mode # NoMode => ExecutionRole(mode2, ~initiator) # ExecutionRole(mode, initiator)
      /\ NoMode \notin Modes
  BY <1>1, ModeFacts, ModeKinds
<1>9. <<>> \in Ports
  BY DEF Ports
<1> HIDE DEF targets, targets2, mode, mode2
<1> QED  BY <1>3, <1>4, <1>5, <1>7, <1>8, <1>9

-----------------------------------------------------------------------------
(* The mappings that the two plans are made of.                              *)

\* What the STUN queries have brought is what the NAT has done, for server A
\* and then for server B, and the plan is made of that and of the report.
StunOK ==
    /\ phase = "stun" =>
        /\ query \in Stun
        /\ \/ query.server = 1 /\ mapped = <<>>
           \/ query.server = 2 /\ mapped = <<scenario.nat[1]>>
    /\ phase = "info" => mapped = <<scenario.nat[1], scenario.nat[2]>>

PlanOK ==
    /\ Planned => \E draw \in Draws : plan = BuildPlan(TrueNat, Peers, MyPolicy, draw)
    /\ outcome = "strategy-unsupported" => phase = "done"

PInv == StunOK /\ PlanOK

\* A response that parses holds the mapping, whatever else is in it.
LEMMA MappingFacts ==
    ASSUME NEW address, NEW port, NEW message \in Messages(Endpoint(address, port)),
           Parses(message)
    PROVE  MappingIn(message) = Endpoint(address, port)
<1> DEFINE mapping == Endpoint(address, port)
           parts == message.attributes
<1>1. parts \in {<<>>, <<Other>>} \cup {<<a>> : a \in XorMapped(mapping)}
                   \cup {<<Other, a>> : a \in XorMapped(mapping)}
  BY DEF Messages
<1>2. \A a \in XorMapped(mapping) :
          a # Other /\ a.address = address /\ a.port \in {0, port}
  <2> SUFFICES ASSUME NEW a \in XorMapped(mapping)
               PROVE  a # Other /\ a.address = address /\ a.port \in {0, port}
    OBVIOUS
  <2>1. mapping.address = address /\ mapping.port = port
    BY DEF Endpoint
  <2>2. PICK length \in {8, 20}, xored \in {0, port} : a = Attribute(address, length, xored)
    BY <2>1 DEF XorMapped
  <2>3. a.address = address /\ a.length = length /\ a.port = xored
    BY <2>2 DEF Attribute
  <2>4. Other.length = 4
    BY DEF Other, Attribute
  <2>5. length # 4
    BY <2>2
  <2> QED  BY <2>2, <2>3, <2>4, <2>5
<1>3. PICK i \in Decisive(message) : ParseXorMappedAddress(parts[i])
  BY DEF Parses
<1>4. i \in DOMAIN parts /\ parts[i] # Other /\ \A j \in 1 .. i - 1 : parts[j] = Other
  BY DEF Decisive
<1>5. \A k \in Decisive(message) :
          k \in DOMAIN parts /\ parts[k] # Other /\ \A j \in 1 .. k - 1 : parts[j] = Other
  BY DEF Decisive
<1> HIDE DEF mapping, parts
<1>6. CASE \E a \in XorMapped(mapping) : parts = <<a>>
  <2> PICK a \in XorMapped(mapping) : parts = <<a>>
    BY <1>6
  <2>1. DOMAIN parts = {1} /\ parts[1] = a
    OBVIOUS
  <2>2. \A k \in Decisive(message) : k = 1
    BY <1>5, <2>1
  <2>3. (CHOOSE k \in Decisive(message) : TRUE) = 1
    BY <2>2
  <2>4. MappingIn(message) = Endpoint(a.address, a.port)
    BY <2>1, <2>3 DEF MappingIn, parts
  <2>5. a.port # 0
    BY <1>3, <2>1, <2>2 DEF ParseXorMappedAddress
  <2> QED  BY <1>2, <2>4, <2>5
<1>7. CASE \E a \in XorMapped(mapping) : parts = <<Other, a>>
  <2> PICK a \in XorMapped(mapping) : parts = <<Other, a>>
    BY <1>7
  <2>1. DOMAIN parts = {1, 2} /\ parts[1] = Other /\ parts[2] = a
    OBVIOUS
  <2>2. \A k \in Decisive(message) : k = 2
    BY <1>5, <2>1
  <2>3. (CHOOSE k \in Decisive(message) : TRUE) = 2
    BY <2>2
  <2>4. MappingIn(message) = Endpoint(a.address, a.port)
    BY <2>1, <2>3 DEF MappingIn, parts
  <2>5. a.port # 0
    BY <1>3, <2>1, <2>2 DEF ParseXorMappedAddress
  <2> QED  BY <1>2, <2>4, <2>5
<1>8. CASE parts \in {<<>>, <<Other>>}
  <2>1. FALSE
    BY <1>4, <1>8
  <2> QED  BY <2>1
<1> QED  BY <1>1, <1>6, <1>7, <1>8

LEMMA InitPInv == Init => PInv
BY DEF Init, PInv, StunOK, PlanOK, Planned, Query, Stun, Servers

\* A query is under way, and goes on.
LEMMA StunGoesOn ==
    ASSUME PInv, phase = "stun", phase' = "stun", scenario' = scenario, mapped' = mapped,
           outcome' = outcome, query' \in Stun, query'.server = query.server
    PROVE  PInv'
BY DEF PInv, StunOK, PlanOK, Planned

\* Neither a mapping nor a plan is made.
LEMMA NothingPlanned ==
    ASSUME PInv, scenario' = scenario, plan' = plan, mapped' = mapped,
           phase' # "stun" \/ (phase = "stun" /\ query' = query),
           phase' = "info" => phase = "info",
           phase' \in {"prepunch", "barrier", "punch"} => phase \in {"prepunch", "barrier", "punch"},
           \/ outcome' # "strategy-unsupported"
           \/ outcome' = outcome /\ (phase = "done" => phase' = "done")
    PROVE  PInv'
<1>1. StunOK'
  BY DEF PInv, StunOK
<1>2. Planned' => Planned
  BY DEF Planned
<1>3. TrueNat' = TrueNat /\ Peers' = Peers /\ MyPolicy' = MyPolicy
  BY DEF TrueNat, Peers, MyPolicy
<1>4. PlanOK'
  BY <1>2, <1>3 DEF PInv, PlanOK
<1> QED  BY <1>1, <1>4 DEF PInv

LEMMA NoMoreQueries ==
    ASSUME PInv, NEW failure, GiveUp(failure), failure # "strategy-unsupported"
    PROVE  PInv'
<1>1. phase' = "done" /\ outcome' = failure /\ UNCHANGED <<scenario, plan, mapped>>
  BY DEF GiveUp, Fail, stun
<1> QED  BY <1>1, NothingPlanned

LEMMA AppendToOne == ASSUME NEW x, NEW y PROVE Append(<<x>>, y) = <<x, y>>
<1> DEFINE both == {x, y}
<1>1. <<x>> \in Seq(both) /\ y \in both /\ <<x, y>> \in Seq(both)
  OBVIOUS
<1>2. Append(<<x>>, y) \in Seq(both)
  BY <1>1
<1>3. Len(Append(<<x>>, y)) = 2 /\ Len(<<x, y>>) = 2
  BY <1>1
<1>4. Append(<<x>>, y)[1] = x /\ Append(<<x>>, y)[2] = y
  BY <1>1
<1> HIDE DEF both
<1>5. <<x, y>>[1] = x /\ <<x, y>>[2] = y
  OBVIOUS
<1>6. \A i \in 1 .. 2 : Append(<<x>>, y)[i] = <<x, y>>[i]
  BY <1>4, <1>5
<1> QED  BY <1>1, <1>2, <1>3, <1>6, SeqEqual

LEMMA StunAnswerPlans ==
    ASSUME IInv, PInv, NEW answer, StunAnswer(answer) PROVE PInv'
<1>0. /\ phase = "stun" /\ answer.server = query.server /\ UNCHANGED <<scenario, plan>>
      /\ query \in Stun /\ query.server \in {1, 2}
      /\ outcome # "strategy-unsupported"
  BY DEF StunAnswer, InStun, AnswersQuery, PInv, StunOK, PlanOK, Stun
<1> DEFINE mapping == scenario.nat[query.server]
<1>1. PICK message \in Messages(mapping) :
        \/ /\ Parses(message)
           /\ mapped' = Append(mapped, MappingIn(message))
           /\ IF query.server = 2 THEN StunEnds
              ELSE /\ query' = Query(2, 1, FALSE)
                   /\ UNCHANGED <<phase, now, answers, open, low, outcome>>
        \/ /\ ~Parses(message)
           /\ NextTry(TRUE)
           /\ UNCHANGED <<phase, now, mapped, answers, open, low, outcome>>
  BY <1>0 DEF StunAnswer
<1>2. mapping = Endpoint(mapping.address, mapping.port)
  <2>1. scenario.nat \in Mappings
    BY DEF IInv, TypeOK, Scenarios
  <2>2. query.server \in 1 .. 2
    BY <1>0
  <2> QED  BY <2>1, <2>2, MappingsAssumption
<1> HIDE DEF mapping
<1>3. CASE ~Parses(message)
  <2>1. NextTry(TRUE) /\ UNCHANGED <<phase, mapped, outcome>>
    BY <1>1, <1>3
  <2>2. query' \in Stun /\ query'.server = query.server
    BY <1>0, <2>1 DEF NextTry, Query, Stun
  <2> QED  BY <1>0, <2>1, <2>2, StunGoesOn
<1>4. CASE Parses(message)
  <2>1. mapped' = Append(mapped, mapping)
    BY <1>1, <1>2, <1>4, MappingFacts
  <2>2. CASE query.server = 1
    <3>1. mapped = <<>>
      BY <1>0, <2>2 DEF PInv, StunOK
    <3>2. mapped' = <<scenario.nat[1]>>
      BY <2>1, <2>2, <3>1 DEF mapping
    <3>3. query' = Query(2, 1, FALSE) /\ UNCHANGED <<phase, outcome>>
      BY <1>1, <1>4, <2>2
    <3>4. query' \in Stun /\ query'.server = 2
      BY <3>3 DEF Query, Stun, Servers
    <3>5. StunOK'
      BY <1>0, <3>2, <3>3, <3>4 DEF StunOK
    <3>6. PlanOK'
      BY <1>0, <3>3 DEF PlanOK, Planned
    <3> QED  BY <3>5, <3>6 DEF PInv
  <2>3. CASE query.server = 2
    <3>1. mapped = <<scenario.nat[1]>>
      BY <1>0, <2>3 DEF PInv, StunOK
    <3>2. mapped' = <<scenario.nat[1], scenario.nat[2]>>
      <4>1. mapping = scenario.nat[2]
        BY <2>3 DEF mapping
      <4>2. mapped' = Append(<<scenario.nat[1]>>, scenario.nat[2])
        BY <2>1, <3>1, <4>1
      <4> QED  BY <4>2, AppendToOne
    <3>3. /\ phase' \in {"info", "done"} /\ outcome' \in {"stun-timeout", outcome}
      BY <1>1, <1>4, <2>3 DEF StunEnds, Fail
    <3>4. StunOK'
      BY <1>0, <3>2, <3>3 DEF StunOK
    <3>5. PlanOK'
      BY <1>0, <3>3 DEF PlanOK, Planned
    <3> QED  BY <3>4, <3>5 DEF PInv
  <2> QED  BY <1>0, <2>2, <2>3
<1> QED  BY <1>3, <1>4

LEMMA PeerInfoPlans ==
    ASSUME IInv, PInv, NEW draw \in Draws, PeerInfo(draw) PROVE PInv'
<1>1. /\ phase = "info" /\ plan' = BuildPlan(Mine, Peers, MyPolicy, draw)
      /\ scenario' = scenario /\ mapped' = mapped
  BY DEF PeerInfo, stun
<1>2. \/ phase' = "done"
      \/ phase' \in {"prepunch", "barrier"} /\ outcome' = outcome
  BY DEF PeerInfo, Fail
<1>3. Mine = TrueNat
  <2>1. mapped = <<scenario.nat[1], scenario.nat[2]>>
    BY <1>1 DEF PInv, StunOK
  <2>2. mapped[1] = scenario.nat[1] /\ mapped[2] = scenario.nat[2]
    BY <2>1
  <2> QED  BY <2>2 DEF Mine, TrueNat
<1>4. TrueNat' = TrueNat /\ Peers' = Peers /\ MyPolicy' = MyPolicy
  BY <1>1 DEF TrueNat, Peers, MyPolicy
<1>5. StunOK'
  BY <1>2 DEF StunOK
<1>6. outcome # "strategy-unsupported"
  BY <1>1 DEF PInv, PlanOK
<1>7. PlanOK'
  BY <1>1, <1>2, <1>3, <1>4, <1>6 DEF PlanOK
<1> QED  BY <1>5, <1>7 DEF PInv

LEMMA NextPInv == IInv /\ PInv /\ [Next]_vars => PInv'
<1> SUFFICES ASSUME IInv, PInv, [Next]_vars PROVE PInv'
  OBVIOUS
<1>1. CASE UNCHANGED vars
  <2>1. UNCHANGED <<scenario, plan, mapped, phase, outcome, query>>
    BY <1>1 DEF vars, stun
  <2> QED  BY <2>1, NothingPlanned
<1>2. CASE StunSend \/ StunUnanswered \/ StunSpoiled
  <2>1. /\ phase = "stun" /\ UNCHANGED <<phase, mapped, outcome, scenario>>
    BY <1>2 DEF StunSend, StunUnanswered, StunSpoiled, InStun, AfterStun
  <2>2. query \in Stun
    BY <2>1 DEF PInv, StunOK
  <2>3. query' = [query EXCEPT !.sent = TRUE]
          \/ \E spoiled \in BOOLEAN : query' = Query(query.server, query.try + 1, spoiled)
    BY <1>2, <2>2 DEF StunSend, StunUnanswered, StunSpoiled, NextTry, Stun
  <2>4. query' \in Stun /\ query'.server = query.server
    <3>1. CASE query' = [query EXCEPT !.sent = TRUE]
      BY <2>2, <3>1, Zenon DEF Stun
    <3>2. CASE \E spoiled \in BOOLEAN : query' = Query(query.server, query.try + 1, spoiled)
      <4>1. query.server \in Servers /\ query.try \in Nat \ {0}
        BY <2>2 DEF Stun
      <4>2. PICK spoiled \in BOOLEAN : query' = Query(query.server, query.try + 1, spoiled)
        BY <3>2
      <4>3. query.try + 1 \in Nat \ {0}
        BY <4>1
      <4> QED  BY <4>1, <4>2, <4>3 DEF Stun, Query
    <3> QED  BY <2>3, <3>1, <3>2
  <2> QED  BY <2>1, <2>4, StunGoesOn
<1>3. CASE StunExhausted \/ StunBroken
  <2>1. \E failure \in {"stun-timeout", "stun-failure"} : GiveUp(failure)
    BY <1>3 DEF StunExhausted, StunBroken, StunOutcome
  <2> QED  BY <2>1, NoMoreQueries
<1>4. CASE Take \/ SendProbe \/ Cut \/ PrePunchEnds \/ ProbeStuck
  <2>1. UNCHANGED <<scenario, plan, mapped, query>>
    BY <1>4 DEF Take, SendProbe, Probing, Cut, PrePunchEnds, ProbeStuck, GiveUp, stun
  <2>2. /\ phase \in {"prepunch", "punch"} /\ phase' \in {"prepunch", "punch", "barrier", "done"}
        /\ outcome' # "strategy-unsupported" \/ outcome' = outcome
    BY <1>4 DEF Take, SendProbe, Probing, Sending, Cut, PrePunchEnds, ProbeStuck, GiveUp, Fail
  <2> QED  BY <2>1, <2>2, NothingPlanned
<1>5. CASE InfoOver \/ BarrierOver \/ PunchOver \/ Broken
  <2>1. \E failure \in {"stopped", "peer-info-timeout", "barrier-timeout", "punch-timeout",
                        "control-error", "socket-error"} : GiveUp(failure)
    BY <1>5 DEF InfoOver, BarrierOver, PunchOver, Broken, Rejected, ControlBroken, PoolBroken
  <2> QED  BY <2>1, NoMoreQueries
<1>6. CASE BarrierOpens \/ \E socket \in open : Lock(socket) \/ Complete(socket)
  <2>1. UNCHANGED <<scenario, plan, mapped, query>>
    BY <1>6 DEF BarrierOpens, Lock, Complete, stun
  <2>2. /\ phase \in {"barrier", "punch"} /\ phase' \in {"punch", "done"}
        /\ outcome' # "strategy-unsupported" \/ outcome' = outcome
    BY <1>6 DEF BarrierOpens, Lock, Complete, Receives, Sending
  <2> QED  BY <2>1, <2>2, NothingPlanned
<1>7. CASE Stop \/ Elapse
  <2>1. UNCHANGED <<scenario, plan, mapped, phase, outcome, query>>
    BY <1>7 DEF Stop, Elapse, stun
  <2> QED  BY <2>1, NothingPlanned
<1>8. CASE \E answer \in answers : StunAnswer(answer)
  BY <1>8, StunAnswerPlans
<1>9. CASE \E draw \in Draws : PeerInfo(draw)
  BY <1>9, PeerInfoPlans
<1> QED
  BY <1>1, <1>2, <1>3, <1>4, <1>5, <1>6, <1>7, <1>8, <1>9 DEF Next, Progress, Event

LEMMA SeqElements ==
    ASSUME NEW S, NEW q \in Seq(S)
    PROVE  DOMAIN q = 1 .. Len(q) /\ \A i \in 1 .. Len(q) : q[i] \in S
OBVIOUS

LEMMA PortsDistinct == ASSUME NEW t \in Ports PROVE Distinct(t)
<1>1. t \in Seq(1 .. MaxPort) /\ \A i, j \in 1 .. Len(t) : i # j => t[i] # t[j]
  BY DEF Ports
<1>2. DOMAIN t = 1 .. Len(t) /\ \A i \in 1 .. Len(t) : t[i] \in 1 .. MaxPort
  BY <1>1, SeqElements
<1> QED  BY <1>1, <1>2, Zenon DEF Distinct

\* The plan is made of what the two NATs have done, and of no late answer
\* (QueryStunBinding, BuildNatPunchPlan).
THEOREM PlanFromMappings == Spec => []PInv
BY Invariance, InitPInv, NextPInv, PTL DEF Spec

\* The plans that the two sides make of the same NATs complement each other,
\* whatever the mappings, the policy and the draws: opposite roles, different
\* ports, the peer's next mapping among them; and one side alone is without a
\* plan only where the mapping it predicts is no port (BuildNatPunchPlan,
\* ResolveNatPunchExecutionPolicy, BuildRandomPortTargets).
THEOREM PlansComplementary == Spec => []PlansMeet
<1>1. IInv /\ PInv => PlansMeet
  <2> SUFFICES ASSUME IInv, PInv, Planned, NEW draw2 \in Draws
               PROVE  LET theirs == Theirs(draw2)
                      IN  /\ (plan # NoPlan /\ theirs # NoPlan) =>
                                ExecutionRole(theirs.mode, ~scenario.initiator) # Role
                          /\ (plan = NoPlan /\ theirs # NoPlan) =>
                                NextMapping(scenario.peerNat) \notin 1 .. MaxPort
                          /\ Predicts /\ Distinct(plan.targets)
    BY DEF PlansMeet
  <2> DEFINE theirs == Theirs(draw2)
             a == scenario.nat[1]
             b == scenario.nat[2]
             c == scenario.peerNat[1]
             d == scenario.peerNat[2]
  <2>1. PICK draw \in Draws : plan = BuildPlan(Observe(a, b), Observe(c, d), MyPolicy, draw)
    BY DEF PInv, PlanOK, TrueNat, Peers
  <2>2. theirs = BuildPlan(Observe(c, d), Observe(a, b), MyPolicy, draw2)
    BY DEF Theirs, Peers, TrueNat
  <2>3. /\ scenario.nat \in Mappings /\ scenario.peerNat \in Mappings
        /\ scenario.initiator \in BOOLEAN /\ scenario.attempt \in Attempts
    BY DEF IInv, TypeOK, Scenarios
  <2>4. IsPort(a) /\ IsPort(b) /\ IsPort(c) /\ IsPort(d)
    <3>1. 1 \in 1 .. 2 /\ 2 \in 1 .. 2
      OBVIOUS
    <3> QED  BY <2>3, <3>1, MappingsAssumption DEF IsPort
  <2>5. GoodPolicy(MyPolicy)
    BY <2>3, AttemptAssumption, RandomTargetsAssumption DEF GoodPolicy, MyPolicy
  <2>6. GoodDraw(draw) /\ GoodDraw(draw2)
    BY AttemptAssumption DEF GoodDraw
  <2> HIDE DEF theirs, a, b, c, d
  <2>7. /\ (plan # NoPlan /\ theirs # NoPlan) =>
                ExecutionRole(theirs.mode, ~scenario.initiator)
                    # ExecutionRole(plan.mode, scenario.initiator)
        /\ (plan = NoPlan /\ theirs # NoPlan) => PredictedPort(c.port, d.port) \notin 1 .. MaxPort
        /\ (plan.mode \in Modes /\ plan.mode \notin RandomSenderModes)
                => Has(plan.targets, PredictedPort(c.port, d.port))
        /\ plan.targets \in Ports
    BY <2>1, <2>2, <2>3, <2>4, <2>5, <2>6, PlansComplement
  <2>8. NextMapping(scenario.peerNat) = PredictedPort(c.port, d.port)
    BY DEF NextMapping, c, d
  <2>9. /\ plan.targets \in Seq(1 .. MaxPort) /\ DOMAIN plan.targets = 1 .. Len(plan.targets)
        /\ \A i, j \in 1 .. Len(plan.targets) : i # j => plan.targets[i] # plan.targets[j]
    BY <2>7 DEF Ports
  <2>10. Distinct(plan.targets)
    BY <2>7, PortsDistinct
  <2>11. Predicts
    BY <2>7, <2>8, <2>9 DEF Predicts, Has
  <2> QED  BY <2>7, <2>8, <2>10, <2>11 DEF Role, theirs
<1> QED  BY <1>1, Invariance, PlanFromMappings, PTL

-----------------------------------------------------------------------------
(* The waves.  "n" waves were taken whole, and of one more the probes below   *)
(* the cursor; each began an interval after the one before it, and the        *)
(* intervals of as many waves as the budget has room for fill the time that   *)
(* was left at the barrier.                                                    *)
Pending == batch.end - batch.next

\* What the pre-punch has left of the budget, and the waves it has room for.
Granted == MyPolicy.datagramBudget - tally.before
Waves == Granted \div schedule.waveSize

TimeLeft(n, time) == Deadline - time <= (Waves - n) * schedule.waveInterval

Timely(n) ==
    /\ n <= Waves
    /\ schedule.cursor > 0 => n + 1 <= Waves /\ TimeLeft(n, schedule.waveStarted)
    /\ schedule.cursor = 0 => TimeLeft(n, now) \/ TimeLeft(n, schedule.nextSend)

Walking(n) ==
    /\ tally.probes + Pending - tally.before = n * schedule.waveSize + schedule.cursor
    /\ schedule.cursor \in 0 .. schedule.waveSize - 1
    /\ ~Sent => /\ batch.next >= 0
                /\ \/ batch.end = schedule.cursor
                   \/ schedule.cursor = 0 /\ batch.end = schedule.waveSize /\ n > 0
    /\ ~schedule.repeat => n = 0
    /\ (schedule.repeat /\ schedule.waveSize <= Granted) => Timely(n)

Walks == phase = "punch" /\ running /\ ~Overdue /\ ~schedule.finished

WaveInv ==
    /\ phase \in Early => tally.probes = 0 /\ tally.before = 0
    /\ phase \in Early \cup {"barrier"} => Sent /\ tally.probes = tally.before
    /\ phase = "punch" => schedule.waveInterval >= 0
    /\ Walks => \E n \in Nat : Walking(n)

\* What the types say of the numbers.
LEMMA Numbers ==
    ASSUME IInv
    PROVE  /\ tally.probes \in Int /\ tally.before \in Int
           /\ batch.next \in Int /\ batch.end \in Int /\ batch.next <= batch.end
           /\ schedule.waveSize \in Int /\ schedule.cursor \in Int
           /\ schedule.waveInterval \in Int /\ schedule.waveStarted \in Int
           /\ schedule.nextSend \in Int
           /\ now \in Int /\ Deadline \in Int /\ Granted \in Int
           /\ MyPolicy \in Policies /\ MyPolicy.datagramBudget \in Int
<1>1. MyPolicy \in Policies /\ Deadline \in Int
  BY PolicyFacts, AttemptAssumption DEF IInv
<1>2. MyPolicy.datagramBudget \in Int
  BY <1>1 DEF Policies
<1>3. tally \in TallyType /\ schedule \in ScheduleType /\ batch \in [next : Int, end : Int]
      /\ now \in Int /\ batch.next <= batch.end
  BY DEF IInv, TypeOK, BudgetOK
<1> QED  BY <1>1, <1>2, <1>3 DEF TallyType, ScheduleType, Granted

\* There is time for one more wave.
LEMMA RoomForOne ==
    ASSUME NEW waves \in Int, NEW n \in Int, NEW interval \in Int, interval >= 0,
           NEW time \in Int, time > 0, time <= (waves - n) * interval
    PROVE  n + 1 <= waves
<1>1. \A m \in Int : m <= 0 => m * interval <= 0
  OBVIOUS
<1>2. waves - n \in Int /\ ~(waves - n <= 0)
  BY <1>1
<1> QED  BY <1>2

LEMMA OneLess ==
    ASSUME NEW m \in Int, NEW interval \in Int
    PROVE  m * interval - interval = (m - 1) * interval
OBVIOUS

\* The waves that fit in the budget are spread over the time that is left
\* (ComputeNatPunchWaveIntervalMs).
LEMMA WaveIntervalFacts ==
    ASSUME NEW policy \in Policies, NEW budget \in Nat, NEW wave \in Nat,
           NEW time \in Nat \ {0}
    PROVE  /\ WaveInterval(policy, budget, wave, time) \in Nat
           /\ (wave > 0 /\ wave <= budget) =>
                time <= (budget \div wave) * WaveInterval(policy, budget, wave, time)
<1>1. policy.minimumWaveInterval \in Nat
  BY DEF Policies
<1>2. CASE wave = 0 \/ budget = 0
  BY <1>1, <1>2 DEF WaveInterval
<1>3. CASE wave # 0 /\ budget # 0
  <2> DEFINE waves == Greatest(1, budget \div wave)
             spread == (time + waves - 1) \div waves
  <2>1. budget = wave * (budget \div wave) + (budget % wave) /\ budget % wave \in 0 .. wave - 1
        /\ budget \div wave \in Int
    BY <1>3, Division
  <2>2. waves \in Nat \ {0}
    BY <2>1 DEF Greatest
  <2>3. WaveInterval(policy, budget, wave, time) = Greatest(policy.minimumWaveInterval, spread)
    BY <1>3 DEF WaveInterval
  <2>4. wave <= budget => waves = budget \div wave
    <3>1. ASSUME NEW q \in Int, NEW r \in 0 .. wave - 1, budget = wave * q + r, wave <= budget
          PROVE  q >= 1
      <4>1. \A m \in Int : m <= 0 => wave * m <= 0
        OBVIOUS
      <4> QED  BY <1>3, <3>1, <4>1
    <3>2. wave <= budget => budget \div wave >= 1
      BY <2>1, <3>1
    <3> QED  BY <2>1, <3>2 DEF Greatest
  <2> HIDE DEF waves
  <2>5. /\ time + waves - 1 = waves * spread + ((time + waves - 1) % waves)
        /\ (time + waves - 1) % waves \in 0 .. waves - 1 /\ spread \in Int
    <3>1. time + waves - 1 \in Int
      BY <2>2
    <3> QED  BY <2>2, <3>1, Division
  <2> HIDE DEF spread
  <2>6. time <= waves * spread
    BY <2>2, <2>5
  <2>7. spread \in Nat
    <3>1. \A m \in Int : m <= 0 => waves * m <= 0
      BY <2>2
    <3>2. spread \in Int /\ (spread <= 0 => waves * spread <= 0)
      BY <2>5, <3>1
    <3>3. waves * spread \in Int /\ time \in Int /\ time > 0
      BY <2>2, <2>5
    <3> HIDE DEF spread
    <3>4. ~(spread <= 0)
      BY <2>6, <3>2, <3>3
    <3> QED  BY <3>2, <3>4
  <2> DEFINE interval == Greatest(policy.minimumWaveInterval, spread)
  <2>8. interval \in Nat /\ interval >= spread
    BY <1>1, <2>7 DEF Greatest
  <2> HIDE DEF interval
  <2>9. waves * spread <= waves * interval
    BY <2>2, <2>7, <2>8
  <2>10. time <= waves * interval
    BY <2>2, <2>6, <2>7, <2>8, <2>9
  <2> QED  BY <2>3, <2>4, <2>8, <2>10 DEF interval
<1> QED  BY <1>2, <1>3

\* When the wave of the next batch began.
Began(s, time) == IF s.cursor = 0 THEN time ELSE s.waveStarted

\* The cursor goes on, or round, or the schedule is at its end.
LEMMA AfterBatchFields ==
    ASSUME NEW s \in ScheduleType, ~s.finished, NEW time \in Int, NEW count \in Int
    PROVE  /\ AfterBatch(s, time, count).waveSize = s.waveSize
           /\ AfterBatch(s, time, count).waveInterval = s.waveInterval
           /\ AfterBatch(s, time, count).repeat <=> s.repeat
           /\ s.cursor + count < s.waveSize =>
                /\ AfterBatch(s, time, count).cursor = s.cursor + count
                /\ AfterBatch(s, time, count).waveStarted = Began(s, time)
           /\ (s.cursor + count >= s.waveSize /\ s.repeat) =>
                /\ AfterBatch(s, time, count).cursor = 0
                /\ AfterBatch(s, time, count).nextSend >= Began(s, time) + s.waveInterval
           /\ (s.cursor + count >= s.waveSize /\ ~s.repeat) =>
                AfterBatch(s, time, count).finished
<1> DEFINE cursor == s.cursor + count
           started == Began(s, time)
           due == time + s.batchInterval
           later == Larger(due, started + s.waveInterval)
           Begun(v) == [[s EXCEPT !.cursor = v] EXCEPT !.waveStarted = started]
           Due(v, t) == [Begun(v) EXCEPT !.nextSend = t]
           last == [Begun(cursor) EXCEPT !.finished = TRUE]
           Same(r) == r.waveSize = s.waveSize /\ r.waveInterval = s.waveInterval
                      /\ (r.repeat <=> s.repeat)
<1>1. /\ cursor < s.waveSize => AfterBatch(s, time, count) = Due(cursor, due)
      /\ (cursor >= s.waveSize /\ s.repeat) => AfterBatch(s, time, count) = Due(0, later)
      /\ (cursor >= s.waveSize /\ ~s.repeat) => AfterBatch(s, time, count) = last
  <2>1. cursor \in Int /\ s.waveSize \in Int
    BY DEF ScheduleType
  <2>2. cursor >= s.waveSize <=> ~(cursor < s.waveSize)
    BY <2>1
  <2> QED  BY <2>2, Zenon DEF AfterBatch, Began
<1>2. cursor \in Int /\ started \in Int /\ due \in Int /\ started + s.waveInterval \in Int
      /\ s.waveSize \in Int
  BY DEF ScheduleType, Began
<1>3. later \in Int /\ later >= started + s.waveInterval
  <2>1. \A a, b \in Int : Larger(a, b) \in Int /\ Larger(a, b) >= b
    BY DEF Larger
  <2> HIDE DEF due, started
  <2> QED  BY <1>2, <2>1
<1> HIDE DEF started, later, due, cursor
<1>4. ASSUME NEW v \in Int
      PROVE  /\ Begun(v) \in ScheduleType /\ Same(Begun(v))
             /\ Begun(v).cursor = v /\ Begun(v).waveStarted = started
  <2>1. /\ [s EXCEPT !.cursor = v] \in ScheduleType
        /\ Same([s EXCEPT !.cursor = v]) /\ [s EXCEPT !.cursor = v].cursor = v
    BY DEF ScheduleType
  <2>2. \A r \in ScheduleType :
            /\ [r EXCEPT !.waveStarted = started] \in ScheduleType
            /\ Same(r) => Same([r EXCEPT !.waveStarted = started])
            /\ [r EXCEPT !.waveStarted = started].cursor = r.cursor
            /\ [r EXCEPT !.waveStarted = started].waveStarted = started
    BY <1>2 DEF ScheduleType
  <2> QED  BY <2>1, <2>2
<1> HIDE DEF Begun
<1>5. ASSUME NEW v \in Int, NEW t \in Int
      PROVE  /\ Same(Due(v, t)) /\ Due(v, t).cursor = v /\ Due(v, t).waveStarted = started
             /\ Due(v, t).nextSend = t
  BY <1>4 DEF ScheduleType
<1>6. Same(last) /\ last.finished
  BY <1>2, <1>4 DEF ScheduleType
<1> HIDE DEF Due, last
<1>7. CASE cursor < s.waveSize
  BY <1>1, <1>2, <1>5, <1>7 DEF cursor, started
<1>8. CASE cursor >= s.waveSize /\ s.repeat
  <2>1. Same(Due(0, later)) /\ Due(0, later).cursor = 0 /\ Due(0, later).nextSend = later
    BY <1>3, <1>5
  <2> QED  BY <1>1, <1>2, <1>3, <1>8, <2>1 DEF cursor, started
<1>9. CASE cursor >= s.waveSize /\ ~s.repeat
  BY <1>1, <1>2, <1>6, <1>9 DEF cursor, started
<1> QED  BY <1>2, <1>7, <1>8, <1>9

LEMMA NewSchedulerFields ==
    ASSUME NEW waveSize \in Int, NEW batchSize, NEW batchInterval, NEW waveInterval,
           NEW again \in BOOLEAN
    PROVE  LET s == NewScheduler(waveSize, batchSize, batchInterval, waveInterval, again)
           IN  /\ s.waveSize = waveSize /\ s.waveInterval = waveInterval /\ s.cursor = 0
               /\ s.repeat <=> again
               /\ s.finished <=> waveSize = 0
BY DEF NewScheduler

LEMMA InitWaveInv == Init => WaveInv
BY DEF Init, WaveInv, Walks, NewTally, NoBatch, Sent, Early

\* Nothing is sent, and time passes.
LEMMA WavesStay ==
    ASSUME IInv, IInv', WaveInv, scenario' = scenario, schedule' = schedule, batch' = batch,
           tally' = tally, phase' = phase, running' => running, now' >= now
    PROVE  WaveInv'
<1>1. Granted' = Granted /\ Waves' = Waves /\ Pending' = Pending /\ Sent' = Sent
  BY DEF Granted, Waves, Pending, Sent, MyPolicy
<1>2. Walks' => Walks
  <2>1. now \in Int /\ now' \in Int /\ Deadline \in Int
    BY Numbers DEF IInv, TypeOK
  <2> QED  BY <2>1 DEF Walks, Overdue
<1>3. ASSUME Walks'
      PROVE  \E n \in Nat : Walking(n)'
  <2>1. PICK n \in Nat : Walking(n)
    BY <1>2, <1>3 DEF WaveInv
  <2>2. Timely(n) => Timely(n)'
    <3>1. /\ now \in Int /\ now' \in Int /\ Deadline \in Int
          /\ schedule.waveSize \in Int /\ schedule.waveInterval \in Int /\ Granted \in Int
      BY Numbers DEF IInv, TypeOK
    <3>2. schedule.waveSize > 0
      BY <2>1, <3>1 DEF Walking
    <3>3. Waves \in Int
      BY <3>1, <3>2, Division DEF Waves
    <3>4. (Waves - n) * schedule.waveInterval \in Int
      BY <3>1, <3>3
    <3>5. TimeLeft(n, now) => TimeLeft(n, now)'
      <4> DEFINE left == (Waves - n) * schedule.waveInterval
      <4>1. left' = left /\ left \in Int
        BY <1>1, <3>4
      <4> HIDE DEF left
      <4>2. \A d, t, u, l \in Int : (u >= t /\ d - t <= l) => d - u <= l
        OBVIOUS
      <4>3. Deadline - now <= left => Deadline - now' <= left
        BY <3>1, <4>1, <4>2, Zenon
      <4> QED  BY <4>1, <4>3 DEF TimeLeft, left
    <3>6. \A time : TimeLeft(n, time) => TimeLeft(n, time)'
      BY <1>1 DEF TimeLeft
    <3> QED  BY <1>1, <3>5, <3>6 DEF Timely
  <2>3. Walking(n)'
    BY <1>1, <2>1, <2>2 DEF Walking
  <2> QED  BY <2>3
<1> QED  BY <1>1, <1>3 DEF WaveInv

\* No wave is under way.
LEMMA WavesOver ==
    ASSUME WaveInv, phase' = "done" PROVE WaveInv'
BY DEF WaveInv, Walks, Early

LEMMA WavesNotBegun ==
    ASSUME WaveInv, phase \in Early, phase' \in Early, UNCHANGED sending
    PROVE  WaveInv'
BY DEF WaveInv, Walks, Early, sending, Sent

LEMMA PeerInfoWaves == ASSUME IInv, WaveInv, NEW draw \in Draws, PeerInfo(draw) PROVE WaveInv'
<1>1. /\ phase = "info" /\ phase' \in {"prepunch", "barrier", "done"}
      /\ batch' = batch /\ tally' = [tally EXCEPT !.until = BarrierEnd]
  BY DEF PeerInfo, Fail
<1>2. tally'.probes = tally.probes /\ tally'.before = tally.before
  BY <1>1 DEF IInv, TypeOK, TallyType
<1>3. Sent' /\ tally.probes = 0 /\ tally.before = 0
  BY <1>1 DEF WaveInv, Early, Sent
<1> QED  BY <1>1, <1>2, <1>3 DEF WaveInv, Walks, Early

LEMMA PrePunchEndsWaves == ASSUME IInv, WaveInv, PrePunchEnds PROVE WaveInv'
<1>1. CASE \E failure \in {"stopped", "punch-timeout"} : GiveUp(failure)
  BY <1>1, WavesOver DEF GiveUp, Fail
<1>2. CASE /\ phase = "prepunch" /\ phase' = "barrier" /\ batch' = batch
           /\ tally' = [tally EXCEPT !.before = tally.probes, !.until = BarrierEnd] /\ Sent
  <2>1. tally'.before = tally.probes /\ tally'.probes = tally.probes
    BY <1>2 DEF IInv, TypeOK, TallyType
  <2>2. Sent'
    BY <1>2 DEF Sent
  <2> QED  BY <1>2, <2>1, <2>2 DEF WaveInv, Walks, Early
<1> QED  BY <1>1, <1>2 DEF PrePunchEnds

\* A batch that is cut short is the last one.
LEMMA CutWaves == ASSUME IInv, WaveInv, Cut PROVE WaveInv'
<1>1. /\ UNCHANGED <<phase, running, now, schedule>> /\ phase \in {"prepunch", "punch"}
      /\ ~running \/ Overdue
  BY DEF Cut
<1>2. ~Walks'
  BY <1>1 DEF Walks, Overdue
<1> QED  BY <1>1, <1>2 DEF WaveInv, Early

\* A probe leaves the batch and is counted.
LEMMA SendProbeWaves == ASSUME IInv, WaveInv, SendProbe PROVE WaveInv'
<1>1. /\ ~Sent /\ phase \in {"prepunch", "punch"}
      /\ batch' = [batch EXCEPT !.next = @ + 1]
      /\ UNCHANGED <<scenario, phase, running, now, schedule>>
      /\ \E lowered, loud \in BOOLEAN : tally' = Counted(lowered, loud)
  BY DEF SendProbe, Probing, Sending, Advance, ProbeUnset, ProbeLow, ProbeLoud
<1>2. tally'.probes = tally.probes + 1 /\ tally'.before = tally.before
  <2>1. PICK lowered, loud \in BOOLEAN : tally' = Counted(lowered, loud)
    BY <1>1
  <2> QED  BY <2>1, CountedFacts
<1>3. batch'.next = batch.next + 1 /\ batch'.end = batch.end
  BY <1>1 DEF IInv, TypeOK
<1>4. Granted' = Granted /\ Waves' = Waves
  BY <1>1, <1>2 DEF Granted, Waves, MyPolicy
<1>5. (Walks' <=> Walks) /\ \A n \in Nat : Timely(n) => Timely(n)'
  BY <1>1, <1>4 DEF Walks, Overdue, Timely, TimeLeft
<1>6. ASSUME Walks' PROVE \E n \in Nat : Walking(n)'
  <2>1. PICK n \in Nat : Walking(n)
    BY <1>5, <1>6 DEF WaveInv
  <2>2. tally'.probes + Pending' - tally'.before = tally.probes + Pending - tally.before
    BY <1>2, <1>3, Numbers DEF Pending
  <2>3. ~Sent' => batch'.next >= 0
    BY <1>1, <1>3, <2>1, Numbers DEF Walking
  <2>4. Walking(n)'
    BY <1>1, <1>3, <1>4, <1>5, <2>1, <2>2, <2>3 DEF Walking
  <2> QED  BY <2>4
<1> QED  BY <1>1, <1>6 DEF WaveInv, Early

\* The batch goes on with the wave, or ends it: then the next one begins an
\* interval after this one did.
LEMMA TakeWaves == ASSUME IInv, WaveInv, Take PROVE WaveInv'
<1> DEFINE count == BatchCount(schedule, now, Remaining)
           size == schedule.waveSize
           cursor == schedule.cursor
           began == Began(schedule, now)
<1>1. /\ count > 0 /\ Sent /\ running /\ ~Overdue
      /\ batch' = [next |-> cursor, end |-> cursor + count]
      /\ schedule' = AfterBatch(schedule, now, count)
      /\ tally' = [tally EXCEPT !.taken = now]
      /\ UNCHANGED <<scenario, phase, running, now>>
      /\ phase \in {"prepunch", "punch"}
  BY DEF Take, TakeBatch, Sending
<1>2. schedule \in ScheduleType /\ Remaining \in Int
  BY Numbers DEF IInv, TypeOK, Remaining
<1>3. count \in Int /\ ~schedule.finished /\ now >= schedule.nextSend
  BY <1>1, <1>2, Numbers, BatchFacts
<1>4. count <= size - cursor
  <2>1. \A a, b, c \in Int : Smaller(Smaller(a, b), c) <= b
    BY DEF Smaller
  <2>2. schedule.batchSize \in Int /\ size - cursor \in Int
    BY <1>2 DEF ScheduleType
  <2>3. count = Smaller(Smaller(schedule.batchSize, size - cursor), Remaining)
    BY <1>1 DEF BatchCount
  <2> HIDE DEF count
  <2> QED  BY <1>2, <2>1, <2>2, <2>3
<1> HIDE DEF count
<1>5. /\ tally'.probes = tally.probes /\ tally'.before = tally.before
  BY <1>1 DEF IInv, TypeOK, TallyType
<1>6. batch'.next = cursor /\ batch'.end = cursor + count
  BY <1>1
<1>7. /\ schedule'.waveSize = size /\ schedule'.waveInterval = schedule.waveInterval
      /\ schedule'.repeat <=> schedule.repeat
      /\ cursor + count < size => schedule'.cursor = cursor + count /\ schedule'.waveStarted = began
      /\ (cursor + count >= size /\ schedule.repeat) =>
            schedule'.cursor = 0 /\ schedule'.nextSend >= began + schedule.waveInterval
      /\ (cursor + count >= size /\ ~schedule.repeat) => schedule'.finished
  BY <1>1, <1>2, <1>3, Numbers, AfterBatchFields
<1>8. Granted' = Granted /\ Waves' = Waves
  BY <1>1, <1>5, <1>7 DEF Granted, Waves, MyPolicy
<1>9. ASSUME phase = "punch", Walks' PROVE \E n \in Nat : Walking(n)'
  <2>1. PICK n \in Nat : Walking(n)
    BY <1>1, <1>3, <1>9 DEF WaveInv, Walks
  <2>2. cursor \in 0 .. size - 1 /\ size \in Int /\ count \in Int /\ count > 0
        /\ tally.probes \in Int /\ tally.before \in Int
    BY <1>1, <1>3, <2>1, Numbers DEF Walking
  <2>3. tally.probes - tally.before = n * size + cursor
    <3>1. batch.next = batch.end /\ batch.end \in Int
      BY <1>1, Numbers DEF Sent
    <3>2. Pending = 0
      BY <3>1 DEF Pending
    <3>3. tally.probes + Pending - tally.before = n * size + cursor
      BY <2>1 DEF Walking
    <3> QED  BY <2>2, <3>2, <3>3
  <2>4. Pending' = count
    BY <1>6, <2>2 DEF Pending
  <2>5. /\ began \in Int /\ Deadline \in Int /\ now \in Int /\ Waves \in Int
        /\ schedule.waveInterval \in Int /\ schedule.waveInterval >= 0
        /\ Granted \in Int
    <3>1. size > 0 /\ Granted \in Int
      BY <2>2, Numbers
    <3>2. Waves \in Int
      BY <2>2, <3>1, Division DEF Waves
    <3> QED  BY <1>9, <3>1, <3>2, Numbers DEF WaveInv, Began
  <2>6. ASSUME schedule.repeat, size <= Granted
        PROVE  n + 1 <= Waves /\ Deadline - began <= (Waves - n) * schedule.waveInterval
    <3>1. Timely(n)
      BY <2>1, <2>6 DEF Walking
    <3>2. CASE cursor > 0
      BY <2>2, <3>1, <3>2 DEF Timely, TimeLeft, Began
    <3>3. CASE cursor = 0
      <4>1. began = now
        BY <3>3 DEF Began
      <4>2. TimeLeft(n, now) \/ TimeLeft(n, schedule.nextSend)
        BY <3>1, <3>3 DEF Timely
      <4> DEFINE left == (Waves - n) * schedule.waveInterval
      <4>3. left \in Int /\ schedule.nextSend \in Int
        BY <2>5, Numbers
      <4>4. Deadline - now <= left \/ Deadline - schedule.nextSend <= left
        BY <4>2 DEF TimeLeft
      <4> HIDE DEF left
      <4>5. \A d, t, u, l \in Int : (u >= t /\ d - t <= l) => d - u <= l
        OBVIOUS
      <4>6. Deadline - now <= left
        BY <1>3, <2>5, <4>3, <4>4, <4>5
      <4>7. Deadline - now > 0 /\ Deadline - now \in Int
        BY <1>1, <2>5 DEF Overdue
      <4>8. n + 1 <= Waves
        BY <2>5, <4>6, <4>7, RoomForOne DEF left
      <4> QED  BY <4>1, <4>6, <4>8 DEF left
    <3> QED  BY <2>2, <3>2, <3>3
  <2>7. CASE cursor + count < size
    <3>1. schedule'.cursor = cursor + count /\ schedule'.waveStarted = began
      BY <1>7, <2>7
    <3>2. tally'.probes + Pending' - tally'.before = n * schedule'.waveSize + schedule'.cursor
      <4>1. n * size \in Int
        BY <2>2
      <4> QED  BY <1>5, <1>7, <2>2, <2>3, <2>4, <3>1, <4>1
    <3>3. schedule'.cursor \in 0 .. schedule'.waveSize - 1 /\ schedule'.cursor > 0
      BY <1>7, <2>2, <2>7, <3>1
    <3>4. batch'.next >= 0 /\ batch'.end = schedule'.cursor
      BY <1>6, <2>2, <3>1
    <3>5. ~schedule'.repeat => n = 0
      BY <1>7, <2>1 DEF Walking
    <3>6. ASSUME schedule'.repeat, schedule'.waveSize <= Granted' PROVE Timely(n)'
      <4>1. n + 1 <= Waves /\ Deadline - began <= (Waves - n) * schedule.waveInterval
        BY <1>7, <1>8, <2>6, <3>6
      <4>2. TimeLeft(n, schedule.waveStarted)'
        BY <1>7, <1>8, <3>1, <4>1 DEF TimeLeft
      <4>3. n <= Waves /\ schedule'.cursor # 0
        BY <2>2, <2>5, <3>3, <4>1
      <4> QED  BY <1>8, <3>3, <4>1, <4>2, <4>3 DEF Timely
    <3>7. Walking(n)'
      BY <3>2, <3>3, <3>4, <3>5, <3>6 DEF Walking
    <3> QED  BY <3>7
  <2>8. CASE cursor + count >= size /\ schedule.repeat
    <3>1. schedule'.cursor = 0 /\ schedule'.nextSend >= began + schedule.waveInterval
      BY <1>7, <2>8
    <3>2. cursor + count = size
      BY <1>4, <2>2, <2>8
    <3>3. tally'.probes + Pending' - tally'.before
            = (n + 1) * schedule'.waveSize + schedule'.cursor
      <4>1. n * size \in Int /\ (n + 1) * size = n * size + size
        BY <2>2
      <4> QED  BY <1>5, <1>7, <2>2, <2>3, <2>4, <3>1, <3>2, <4>1
    <3>4. schedule'.cursor \in 0 .. schedule'.waveSize - 1
      BY <1>7, <2>2, <3>1
    <3>5. batch'.next >= 0 /\ batch'.end = schedule'.waveSize /\ n + 1 > 0
      BY <1>6, <1>7, <2>2, <3>2
    <3>6. ASSUME schedule'.waveSize <= Granted' PROVE Timely(n + 1)'
      <4>1. n + 1 <= Waves /\ Deadline - began <= (Waves - n) * schedule.waveInterval
        BY <1>7, <1>8, <2>6, <2>8, <3>6
      <4>2. (Waves - n) * schedule.waveInterval - schedule.waveInterval
                = (Waves - (n + 1)) * schedule.waveInterval
        <5>1. Waves - n \in Int /\ (Waves - n) - 1 = Waves - (n + 1)
          BY <2>5
        <5> QED  BY <2>5, <5>1, OneLess
      <4> DEFINE left == (Waves - n) * schedule.waveInterval
      <4>3. left \in Int /\ schedule'.nextSend \in Int
        <5>1. schedule' \in ScheduleType
          BY <1>1, <1>2, <1>3, Numbers, AfterBatchFacts
        <5> QED  BY <2>5, <5>1 DEF ScheduleType
      <4>4. Deadline - began <= left
        BY <4>1
      <4>5. left - schedule.waveInterval = (Waves - (n + 1)) * schedule.waveInterval
        BY <4>2
      <4> HIDE DEF left
      <4>6. \A d, b, i, t, l \in Int : (d - b <= l /\ t >= b + i) => d - t <= l - i
        OBVIOUS
      <4>7. Deadline - schedule'.nextSend <= left - schedule.waveInterval
        BY <2>5, <3>1, <4>3, <4>4, <4>6
      <4>8. TimeLeft(n + 1, schedule.nextSend)'
        BY <1>7, <1>8, <4>5, <4>7 DEF TimeLeft
      <4> QED  BY <1>8, <3>1, <4>1, <4>8 DEF Timely
    <3>7. Walking(n + 1)'
      BY <1>7, <2>8, <3>1, <3>3, <3>4, <3>5, <3>6 DEF Walking
    <3>8. n + 1 \in Nat
      OBVIOUS
    <3> QED  BY <3>7, <3>8
  <2>9. CASE cursor + count >= size /\ ~schedule.repeat
    BY <1>7, <1>9, <2>9 DEF Walks
  <2> QED  BY <2>2, <2>7, <2>8, <2>9
<1>10. CASE phase = "prepunch"
  BY <1>1, <1>10 DEF WaveInv, Walks, Early
<1>11. CASE phase = "punch"
  BY <1>1, <1>7, <1>9, <1>11 DEF WaveInv, Early
<1> QED  BY <1>1, <1>10, <1>11

\* The barrier opens: the first wave begins, with its interval.
LEMMA BarrierOpensWaves == ASSUME IInv, IInv', WaveInv, BarrierOpens PROVE WaveInv'
<1> DEFINE size == WaveSize(plan, Cardinality(open))
           left == Larger(0, Remaining)
           time == Larger(1, Deadline - now')
           spread == WaveInterval(MyPolicy, left, size, time)
           pause == MyPolicy.randomPortInterval
<1>1. /\ phase = "barrier" /\ phase' = "punch" /\ running' = running
      /\ schedule' = PunchSchedule(now')
      /\ tally' = [tally EXCEPT !.taken = -1, !.until = 0]
      /\ scenario' = scenario /\ batch' = batch
  BY DEF BarrierOpens, Delayed
<1>2. tally'.probes = tally.probes /\ tally'.before = tally.before
  BY <1>1 DEF IInv, TypeOK, TallyType
<1>3. Sent' /\ Sent /\ tally.probes = tally.before
  BY <1>1 DEF WaveInv, Sent
<1>4. Granted' = Granted /\ Granted = Remaining
  BY <1>1, <1>2, <1>3 DEF Granted, Remaining, MyPolicy
<1>5. size \in Nat
  BY FS_CardinalityType DEF IInv, TypeOK, WaveSize
<1>6. /\ now' \in Int /\ Deadline \in Int /\ Remaining \in Int
      /\ MyPolicy \in Policies /\ pause \in Nat
      /\ tally.probes \in Int
  <2>1. MyPolicy \in Policies /\ Granted \in Int /\ Deadline \in Int /\ tally.probes \in Int
    BY Numbers
  <2> QED  BY <1>4, <2>1 DEF IInv, TypeOK, Policies
<1>7. left \in Nat /\ time \in Nat \ {0}
  <2>1. \A a \in Nat, b \in Int : Larger(a, b) \in Int /\ Larger(a, b) >= a
    BY DEF Larger
  <2>2. 0 \in Nat /\ 1 \in Nat /\ Deadline - now' \in Int
    BY <1>6
  <2>3. left \in Int /\ left >= 0 /\ time \in Int /\ time >= 1
    BY <1>6, <2>1, <2>2
  <2> HIDE DEF left, time
  <2> QED  BY <2>3
<1>8. /\ spread \in Nat
      /\ (size > 0 /\ size <= left) => time <= (left \div size) * spread
  <2> HIDE DEF size, left, time
  <2> QED  BY <1>5, <1>6, <1>7, WaveIntervalFacts
<1>9. \/ schedule' = NewScheduler(size, 1, pause, pause, FALSE)
      \/ schedule' = NewScheduler(size, MyPolicy.batchSize, MyPolicy.batchInterval, spread, TRUE)
  BY <1>1, Zenon DEF PunchSchedule
<1> HIDE DEF size, left, time, spread, pause
<1>10. /\ schedule'.waveSize = size /\ schedule'.cursor = 0
       /\ schedule'.finished <=> size = 0
       /\ schedule'.waveInterval \in {pause, spread}
       /\ schedule'.repeat => schedule'.waveInterval = spread
  <2>1. CASE schedule' = NewScheduler(size, 1, pause, pause, FALSE)
    BY <2>1 DEF NewScheduler
  <2>2. CASE schedule' = NewScheduler(size, MyPolicy.batchSize, MyPolicy.batchInterval,
                                      spread, TRUE)
    BY <2>2 DEF NewScheduler
  <2> QED  BY <1>9, <2>1, <2>2
<1>11. ASSUME Walks' PROVE Walking(0)'
  <2>1. size > 0 /\ size \in Int /\ Deadline - now' > 0 /\ Deadline - now' \in Int
    <3>1. ~(now' >= Deadline) /\ ~schedule'.finished
      BY <1>11 DEF Walks, Overdue
    <3>2. size # 0
      BY <1>10, <3>1
    <3>3. \A a, b \in Int : ~(a >= b) => b - a > 0 /\ b - a \in Int
      OBVIOUS
    <3>4. Deadline - now' > 0 /\ Deadline - now' \in Int
      BY <1>6, <3>1, <3>3, Zenon
    <3> QED  BY <1>5, <3>2, <3>4
  <2>2. Pending' = 0
    BY <1>3, Numbers, <1>1 DEF Pending, Sent
  <2>3. tally'.probes + Pending' - tally'.before = 0 * schedule'.waveSize + schedule'.cursor
    BY <1>2, <1>3, <1>6, <1>10, <2>1, <2>2
  <2>4. schedule'.cursor \in 0 .. schedule'.waveSize - 1
    BY <1>10, <2>1
  <2>5. ASSUME schedule'.repeat, schedule'.waveSize <= Granted' PROVE Timely(0)'
    <3>1. left = Remaining /\ size <= left
      BY <1>4, <1>6, <1>10, <2>1, <2>5 DEF left, Larger
    <3>2. time = Deadline - now'
      BY <2>1 DEF time, Larger
    <3>3. Waves' = left \div size
      BY <1>4, <1>10, <3>1 DEF Waves
    <3>4. Waves' \in Int
      BY <1>7, <2>1, <3>3, Division
    <3>5. Deadline - now' <= Waves' * schedule'.waveInterval
      BY <1>8, <1>10, <2>1, <2>5, <3>1, <3>2, <3>3
    <3>6. (Waves' - 0) * schedule'.waveInterval = Waves' * schedule'.waveInterval
      BY <3>4
    <3>7. TimeLeft(0, now)'
      BY <3>5, <3>6 DEF TimeLeft
    <3>8. 0 <= Waves'
      <4>1. left = size * (left \div size) + (left % size) /\ left % size \in 0 .. size - 1
            /\ left \div size \in Int
        BY <1>7, <2>1, Division
      <4>2. \A q \in Int, r \in 0 .. size - 1 : left = size * q + r => 0 <= q
        <5> SUFFICES ASSUME NEW q \in Int, NEW r \in 0 .. size - 1, left = size * q + r, q < 0
                     PROVE  FALSE
          OBVIOUS
        <5>1. size * q <= -size
          BY <2>1
        <5> QED  BY <1>7, <2>1, <5>1
      <4> QED  BY <3>3, <4>1, <4>2
    <3> QED  BY <1>10, <3>7, <3>8 DEF Timely
  <2> QED  BY <1>3, <2>3, <2>4, <2>5 DEF Walking
<1>12. 0 \in Nat /\ schedule'.waveInterval >= 0
  BY <1>6, <1>8, <1>10
<1> QED  BY <1>1, <1>11, <1>12 DEF WaveInv, Early

LEMMA NextWaveInv == IInv /\ WaveInv /\ [Next]_vars => WaveInv'
<1> SUFFICES ASSUME IInv, WaveInv, [Next]_vars PROVE WaveInv'
  OBVIOUS
<1>1. IInv'
  BY NextIInv
<1>2. now \in Int
  BY DEF IInv, TypeOK
<1>3. CASE UNCHANGED vars \/ Stop \/ Elapse
  <2>1. /\ scenario' = scenario /\ schedule' = schedule /\ batch' = batch /\ tally' = tally
        /\ phase' = phase
    BY <1>3 DEF vars, sending, Stop, Elapse
  <2>2. running' => running
    BY <1>3 DEF vars, Stop, Elapse
  <2>3. now' \in {now, now + 1}
    BY <1>3 DEF vars, Stop, Elapse
  <2>4. now' >= now
    BY <1>2, <2>3
  <2> QED  BY <1>1, <2>1, <2>2, <2>4, WavesStay
<1>4. CASE \E socket \in open : Lock(socket) \/ Complete(socket)
  <2>1. PICK socket \in open : Lock(socket) \/ Complete(socket)
    BY <1>4
  <2>2. CASE Lock(socket)
    <3>1. UNCHANGED <<scenario, sending, phase, running, now>>
      BY <2>2 DEF Lock
    <3> QED  BY <1>1, <1>2, <3>1, WavesStay DEF sending
  <2>3. CASE Complete(socket)
    BY <2>3, WavesOver DEF Complete
  <2> QED  BY <2>1, <2>2, <2>3
<1>5. CASE StunSend \/ StunUnanswered \/ StunSpoiled \/ \E answer \in answers : StunAnswer(answer)
  <2>1. /\ phase \in Early /\ UNCHANGED sending
        /\ phase' \in Early \/ phase' = "done"
    BY <1>5 DEF StunSend, StunUnanswered, StunSpoiled, StunAnswer, InStun, AfterStun, NextTry,
                StunEnds, Fail, Early
  <2> QED  BY <2>1, WavesNotBegun, WavesOver
<1>6. CASE ProbeStuck \/ \E failure : GiveUp(failure)
  BY <1>6, WavesOver DEF ProbeStuck, GiveUp, Fail
<1>7. CASE Progress
  <2>1. \/ StunSend \/ StunUnanswered \/ Take \/ SendProbe \/ Cut \/ PrePunchEnds
        \/ \E failure : GiveUp(failure)
    BY <1>7 DEF Progress, StunExhausted, InfoOver, BarrierOver, PunchOver
  <2> QED  BY <1>5, <1>6, <2>1, TakeWaves, SendProbeWaves, CutWaves, PrePunchEndsWaves
<1>8. CASE Event
  <2>1. \/ StunSpoiled \/ \E answer \in answers : StunAnswer(answer)
        \/ \E draw \in Draws : PeerInfo(draw)
        \/ BarrierOpens
        \/ \E socket \in open : Lock(socket) \/ Complete(socket)
        \/ ProbeStuck
        \/ \E failure : GiveUp(failure)
    BY <1>8 DEF Event, StunBroken, Broken, Rejected, ControlBroken, PoolBroken
  <2> QED  BY <1>1, <1>4, <1>5, <1>6, <2>1, PeerInfoWaves, BarrierOpensWaves
<1> QED  BY <1>3, <1>7, <1>8 DEF Next

\* The waves that were taken, and when the last one began: as many as the budget
\* has room for fill the attempt (NatPunchScheduler, ComputeNatPunchWaveIntervalMs).
THEOREM WavesSpread == Spec => []WaveInv
BY Invariance, InitWaveInv, NextWaveInv, PTL DEF Spec

\* The probes of an attempt are within the budget of its policy, they follow each
\* other round the wave, and a wave that fits in the budget is never cut short by
\* it, whatever the wave, the interval, the budget and the stalls of the thread
\* (GetNextBatch, ComputeNatPunchWaveIntervalMs, RecordProbe).
THEOREM WavesNotCut == Spec => []WavesWhole
<1>1. IInv /\ WaveInv => WavesWhole
  <2> SUFFICES ASSUME IInv, WaveInv PROVE WavesWhole
    OBVIOUS
  <2> DEFINE here == IF Sent THEN schedule.cursor ELSE batch.next
             wave == schedule.waveSize
             budget == MyPolicy.datagramBudget
  <2>1. tally.probes <= budget
    BY Numbers DEF IInv, BudgetOK
  <2>2. ASSUME phase = "punch", running, ~Overdue, wave > 0, ~schedule.finished
        PROVE  /\ (tally.probes - tally.before) % wave = here % wave
               /\ (wave <= budget - tally.before /\ here > 0) =>
                        budget - tally.probes >= wave - here
    <3>1. PICK n \in Nat : Walking(n)
      BY <2>2 DEF WaveInv, Walks
    <3>2. /\ wave \in Nat \ {0} /\ schedule.cursor \in 0 .. wave - 1
          /\ tally.probes \in Int /\ tally.before \in Int /\ budget \in Int
          /\ batch.next \in Int /\ batch.end \in Int /\ batch.next <= batch.end
          /\ n * wave \in Int /\ wave * n = n * wave
      BY <2>2, <3>1, Numbers DEF Walking
    <3>3. PICK m \in Nat :
            /\ tally.probes - tally.before = wave * m + here
            /\ here \in 0 .. wave - 1
            /\ \/ m = n /\ (here > 0 => schedule.cursor > 0)
               \/ m = n - 1 /\ schedule.cursor = 0
      <4>1. tally.probes + (batch.end - batch.next) - tally.before = n * wave + schedule.cursor
        BY <3>1 DEF Walking, Pending
      <4> DEFINE taken == n * wave
      <4>5. taken \in Int /\ wave * n = taken /\ wave * (n - 1) = taken - wave
        <5>1. \A w, k \in Int : w * k = k * w /\ w * k \in Int /\ w * (k - 1) = k * w - w
          OBVIOUS
        <5>2. wave \in Int /\ n \in Int
          BY <3>2
        <5> HIDE DEF wave
        <5> QED  BY <5>1, <5>2
      <4>6. tally.probes + (batch.end - batch.next) - tally.before = taken + schedule.cursor
        BY <4>1
      <4> HIDE DEF here, taken
      <4>2. CASE Sent
        <5>1. here = schedule.cursor /\ batch.end = batch.next
          BY <4>2 DEF Sent, here
        <5>2. tally.probes - tally.before = taken + here
          BY <3>2, <4>5, <4>6, <5>1
        <5> QED  BY <3>2, <4>5, <5>1, <5>2
      <4>3. CASE ~Sent /\ batch.end = schedule.cursor
        <5>1. here = batch.next /\ batch.next >= 0 /\ batch.next # batch.end
          BY <3>1, <4>3 DEF Walking, Sent, here
        <5>2. tally.probes - tally.before = taken + here
          <6>1. \A p, e, x, b, k \in Int : p + (e - x) - b = k + e => p - b = k + x
            OBVIOUS
          <6>2. tally.probes + (batch.end - batch.next) - tally.before = taken + batch.end
            BY <4>3, <4>6
          <6>3. tally.probes - tally.before = taken + batch.next
            <7>1. /\ tally.probes \in Int /\ tally.before \in Int /\ taken \in Int
                  /\ batch.next \in Int /\ batch.end \in Int
              BY <3>2, <4>5
            <7> QED  BY <6>1, <6>2, <7>1
          <6> QED  BY <5>1, <6>3
        <5>3. here \in 0 .. wave - 1 /\ schedule.cursor > 0
          BY <3>2, <4>3, <5>1
        <5> QED  BY <4>5, <5>2, <5>3
      <4>4. CASE ~Sent /\ schedule.cursor = 0 /\ batch.end = wave /\ n > 0
        <5>1. here = batch.next /\ batch.next >= 0 /\ batch.next # batch.end
          BY <3>1, <4>4 DEF Walking, Sent, here
        <5>2. n - 1 \in Nat
          BY <4>4
        <5>3. tally.probes - tally.before = wave * (n - 1) + here
          BY <3>2, <4>4, <4>5, <4>6, <5>1
        <5>4. here \in 0 .. wave - 1
          BY <3>2, <4>4, <5>1
        <5> QED  BY <4>4, <5>2, <5>3, <5>4
      <4> QED  BY <3>1, <4>2, <4>3, <4>4 DEF Walking
    <3> HIDE DEF here, wave, budget
    <3>4. (tally.probes - tally.before) % wave = here /\ here % wave = here
      <4>1. here = wave * 0 + here /\ here \in Int /\ m \in Int /\ 0 \in Int
            /\ tally.probes - tally.before \in Int
        BY <3>2, <3>3
      <4>2. ASSUME NEW q \in Int, NEW a \in Int, NEW r \in 0 .. wave - 1, a = wave * q + r
            PROVE  a % wave = r
        <5>1. wave \in Nat \ {0}
          BY <3>2
        <5> QED  BY <4>2, <5>1, Remainder, Zenon
      <4> QED  BY <3>3, <4>1, <4>2, Zenon
    <3>5. ASSUME wave <= budget - tally.before, here > 0
          PROVE  budget - tally.probes >= wave - here
      <4>1. (m + 1) * wave <= budget - tally.before
        <5>1. Granted = budget - tally.before /\ Granted \in Int /\ Waves = Granted \div wave
          BY Numbers DEF Granted, Waves, budget, wave
        <5>2. CASE ~schedule.repeat
          <6>1. n = 0
            BY <3>1, <5>2 DEF Walking
          <6>2. m = 0
            BY <3>3, <6>1
          <6> QED  BY <3>2, <3>5, <6>2
        <5>3. CASE schedule.repeat
          <6>1. Timely(n)
            BY <3>1, <3>5, <5>1, <5>3 DEF Walking, wave
          <6>2. Granted = wave * Waves + (Granted % wave) /\ Granted % wave \in 0 .. wave - 1
                /\ Waves \in Int
            BY <3>2, <5>1, Division
          <6>3. m + 1 <= Waves
            BY <3>3, <3>5, <6>1, <6>2 DEF Timely
          <6>4. wave * (m + 1) <= wave * Waves
            BY <3>2, <6>2, <6>3
          <6> QED  BY <3>2, <5>1, <6>2, <6>4
        <5> QED  BY <5>2, <5>3
      <4>2. (m + 1) * wave = wave * m + wave /\ wave * m \in Int
        BY <3>2
      <4> QED  BY <3>2, <3>3, <4>1, <4>2
    <3> QED  BY <3>4, <3>5
  <2> QED  BY <2>1, <2>2 DEF WavesWhole
<1> QED  BY <1>1, Invariance, WavesSpread, PTL
=============================================================================

--------------------------- MODULE PunchScheduler ---------------------------
(***************************************************************************)
(* NatPunchScheduler (src/nat_punch_scheduler.cpp): it cuts a wave of      *)
(* probes, numbered from 0, into batches and says when the next one is     *)
(* due.  A scheduler is a record and its operations are functions of it.   *)
(***************************************************************************)
EXTENDS Integers

Smaller(a, b) == IF a <= b THEN a ELSE b
Larger(a, b) == IF a >= b THEN a ELSE b

Schedulers == [waveSize : Nat, batchSize : Nat \ {0}, batchInterval : Nat \ {0},
               waveInterval : Nat, repeat : BOOLEAN, cursor : Nat,
               finished : BOOLEAN, waveStarted : Nat, nextSend : Nat]

NewScheduler(waveSize, batchSize, batchInterval, waveInterval, repeat) ==
    [waveSize |-> waveSize, batchSize |-> Larger(1, batchSize),
     batchInterval |-> Larger(1, batchInterval), waveInterval |-> waveInterval,
     repeat |-> repeat, cursor |-> 0, finished |-> waveSize = 0,
     waveStarted |-> 0, nextSend |-> 0]

\* The size of the batch due now; none when it is 0.
BatchCount(s, now, remainingBudget) ==
    IF s.finished \/ remainingBudget = 0 \/ now < s.nextSend THEN 0
    ELSE Smaller(Smaller(s.batchSize, s.waveSize - s.cursor), remainingBudget)

\* Mutant of AfterBatch: the next batch is due an interval after the last one
\* was due, so that a stall is caught up with in a burst.
AfterBatchCatchUp(s, now, count) ==
    LET cursor == s.cursor + count
        started == IF s.cursor = 0 THEN now ELSE s.waveStarted
        next == s.nextSend + s.batchInterval
    IN  IF cursor < s.waveSize
        THEN [s EXCEPT !.cursor = cursor, !.waveStarted = started, !.nextSend = next]
        ELSE IF s.repeat
        THEN [s EXCEPT !.cursor = 0, !.waveStarted = started,
                       !.nextSend = Larger(next, started + s.waveInterval)]
        ELSE [s EXCEPT !.cursor = cursor, !.waveStarted = started, !.finished = TRUE]

\* The scheduler once a batch of count probes was taken at now.  The next one
\* is due an interval after now, however late this one was.
AfterBatch(s, now, count) ==
    LET cursor == s.cursor + count
        started == IF s.cursor = 0 THEN now ELSE s.waveStarted
        next == now + s.batchInterval
    IN  IF cursor < s.waveSize
        THEN [s EXCEPT !.cursor = cursor, !.waveStarted = started, !.nextSend = next]
        ELSE IF s.repeat
        THEN [s EXCEPT !.cursor = 0, !.waveStarted = started,
                       !.nextSend = Larger(next, started + s.waveInterval)]
        ELSE [s EXCEPT !.cursor = cursor, !.waveStarted = started, !.finished = TRUE]
=============================================================================

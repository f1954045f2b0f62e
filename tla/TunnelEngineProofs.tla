------------------------- MODULE TunnelEngineProofs -------------------------
(* Proofs about TunnelEngine, for any bound on tries and on what the user  *)
(* does, and for either front end.                                         *)
EXTENDS TunnelEngine, TLAPS

\* The worker is on its way up: nothing has ended this run yet.
Rising == {"open", "select", "try", "strategy", "failed", "tun", "spawn"}
Leaving == {"leave", "final", "done"}
States == Terminal \cup Active

RisingIsActive ==
    worker \in Rising =>
        /\ state \in Active /\ shown \in Active
        /\ telling["worker"] \notin Terminal
        /\ \A t \in DataThreads : data[t] = "none"

\* What is still to be told: an active state only by the worker, before any
\* thread that could end the run lives; the end of a run by whoever ended it.
TellingAgrees ==
    /\ \A t \in DataThreads :
        /\ telling[t] \notin Active
        /\ data[t] # "stopping" => telling[t] = Nothing
    /\ telling["worker"] \in Active => worker \in Rising
    /\ \A t \in Threads : telling[t] \in Terminal => state \in Terminal
    /\ worker \in {"none", "data", "join"} => telling["worker"] = Nothing

\* The front end has been told of the end of a run, or will be.
ShownFollows ==
    /\ state \in Active => shown \in Active
    /\ state \in Terminal =>
        (shown \in Terminal \/ \E t \in Threads : telling[t] \in Terminal)

Ended ==
    /\ worker \in {"none", "final", "done"} => ~running
    /\ worker \in {"none", "done"} => state \in Terminal

\* In a run that nobody has stopped or closed, Disconnected is nowhere to be
\* found, and whoever clears running_, or leaves on a path of failure, has stored
\* Error before.
Failing ==
    (worker # "none" /\ ~stopped /\ ~heard) =>
        /\ state # "Disconnected" /\ shown # "Disconnected"
        /\ \A t \in Threads : telling[t] # "Disconnected"
        /\ (~running \/ worker \in Leaving \cup {"join"}) => state = "Error"
        /\ \A t \in DataThreads : data[t] = "stopping" => state = "Error"

Stopping == ui = "stopping" => stopped

IInv ==
    /\ TypeOK
    /\ RisingIsActive
    /\ TellingAgrees
    /\ ShownFollows
    /\ Ended
    /\ Failing
    /\ Stopping

-----------------------------------------------------------------------------
LEMMA InitIInv == Init => IInv
BY DEF Init, EngineInit, FrontInit, IInv, TypeOK, RisingIsActive, TellingAgrees,
       ShownFollows, Ended, Failing, Stopping, Rising, Leaving, Terminal, Active, Threads,
       DataThreads, Nothing

(* The worker goes on; the data-plane threads and the front end stay. *)
LEMMA WorkerKeepsIInv == IInv /\ WorkerStep => IInv'
<1> SUFFICES ASSUME IInv, WorkerStep PROVE IInv'
  OBVIOUS
<1> USE DEF IInv, TypeOK, RisingIsActive, TellingAgrees, ShownFollows, Ended, Failing, Stopping,
            Rising, Leaving, Terminal, Active, Threads, DataThreads, Nothing,
            At, Enter, Silently, SetState, command, mirror, run
<1>1. CASE OpenSocket
  BY <1>1 DEF OpenSocket
<1>2. CASE SelectPeer
  <2>1. /\ worker = "select" /\ telling["worker"] = Nothing
        /\ worker' \in {"select", "try", "failed"}
        /\ UNCHANGED <<running, state, telling, data, tries, heard, command, mirror>>
    BY <1>2 DEF SelectPeer, PeerFound, Refused, Answered, SelectionBroken, Unanswered,
                SelectionOverdue, Selecting
  <2>2. answered' = TRUE \/ answered' = answered
    BY <1>2, Zenon DEF SelectPeer, PeerFound, Refused, Answered, SelectionBroken, Unanswered,
                SelectionOverdue, Selecting
  <2>3. answered' \in BOOLEAN
    BY <2>2, Zenon
  <2>4. TypeOK'
    BY <2>1, <2>3
  <2> QED BY <2>1, <2>4
<1>3. CASE BeginTry
  BY <1>3 DEF BeginTry
<1>4. CASE EndTry
  BY <1>4 DEF EndTry
<1>5. CASE GiveUp
  BY <1>5 DEF GiveUp
<1>6. CASE OpenTun
  BY <1>6 DEF OpenTun
<1>7. CASE Spawn
  BY <1>7 DEF Spawn
<1>8. CASE CloseData
  BY <1>8 DEF CloseData
<1>9. CASE JoinData
  BY <1>9 DEF JoinData
<1>10. CASE LeaveLoop
  <2>1. ~running' /\ running' \in BOOLEAN /\ worker = "leave" /\ worker' = "final"
        /\ telling["worker"] = Nothing
    BY <1>10 DEF LeaveLoop
  <2>2. UNCHANGED <<data, state, telling, heard, answered, listed, shown, auto, pending, suppress, closing,
                  stopped, ui>>
    BY <1>10 DEF LeaveLoop
  <2> QED BY <2>1, <2>2
<1>11. CASE Finish
  BY <1>11 DEF Finish
<1> QED BY <1>1, <1>2, <1>3, <1>4, <1>5, <1>6, <1>7, <1>8, <1>9, <1>10, <1>11 DEF WorkerStep

(* A data-plane thread ends the run, or sees that it has ended. *)
LEMMA DataKeepsIInv ==
    IInv /\ (PeerClose \/ \E t \in DataThreads : Break(t) \/ StopRunning(t) \/ SeeStop(t)) => IInv'
<1> SUFFICES ASSUME IInv, PeerClose \/ \E t \in DataThreads : Break(t) \/ StopRunning(t) \/ SeeStop(t)
             PROVE IInv'
  OBVIOUS
<1> USE DEF IInv, TypeOK, RisingIsActive, TellingAgrees, ShownFollows, Ended, Failing, Stopping,
            Rising, Leaving, Terminal, Active, Threads, DataThreads, Nothing,
            DataAt, Move, Silently, SetState, command, mirror
<1>1. CASE PeerClose
  BY <1>1 DEF PeerClose
<1>2. ASSUME NEW t \in DataThreads, Break(t) PROVE IInv'
  BY <1>2 DEF Break
<1>3. ASSUME NEW t \in DataThreads, StopRunning(t) PROVE IInv'
  <2>1. worker \in {"data", "join"} /\ data' = [data EXCEPT ![t] = "done"]
    BY <1>3 DEF StopRunning
  <2>2. TypeOK'
    <3>1. data' \in [DataThreads -> {"none", "loop", "stopping", "done"}]
      BY <2>1
    <3>2. running' \in BOOLEAN /\ heard' = heard /\ UNCHANGED <<worker, answered, command, mirror, state, telling>>
      BY <1>3 DEF StopRunning
    <3> QED BY <2>1, <3>1, <3>2
  <2>3. RisingIsActive' /\ ShownFollows' /\ Ended'
    BY <1>3, <2>1 DEF StopRunning
  <2>4. TellingAgrees'
    BY <1>3, <2>1 DEF StopRunning
  <2>5. Failing' /\ Stopping'
    BY <1>3, <2>1 DEF StopRunning
  <2> QED BY <2>2, <2>3, <2>4, <2>5
<1>4. ASSUME NEW t \in DataThreads, SeeStop(t) PROVE IInv'
  BY <1>4 DEF SeeStop
<1> QED BY <1>1, <1>2, <1>3, <1>4

(* The front end is told. *)
LEMMA MirrorBoolean ==
    ASSUME NEW s, OnStateChanged(s) PROVE shown' = s /\ pending' \in BOOLEAN
<1>1. shown' = s
  BY DEF OnStateChanged
<1>2. pending' \in BOOLEAN
  BY Zenon DEF OnStateChanged
<1> QED BY <1>1, <1>2

LEMMA CallbackKeepsIInv ==
    ASSUME IInv, NEW t \in Threads, Callback(t) PROVE IInv'
<1>1. shown' = telling[t] /\ pending' \in BOOLEAN
  BY MirrorBoolean DEF Callback
<1>2. telling' = [telling EXCEPT ![t] = Nothing]
  BY DEF Callback
<1> QED BY <1>1, <1>2 DEF Callback, IInv, TypeOK, RisingIsActive, TellingAgrees, ShownFollows,
       Ended, Failing, Stopping, Rising, Leaving, Terminal, Active, Threads, DataThreads, Nothing,
       command, run

(* The UI thread acts. *)
LEMMA FlagsBoolean ==
    /\ ClickConnect => suppress' \in BOOLEAN /\ pending' = FALSE
    /\ ToggleAuto => auto' \in BOOLEAN /\ pending' \in BOOLEAN
    /\ Started => pending' \in BOOLEAN
    /\ Close => pending' = FALSE /\ closing' = TRUE
<1>1. ClickConnect => suppress' \in BOOLEAN /\ pending' = FALSE
  BY Zenon DEF ClickConnect, Gui
<1>2. ToggleAuto => auto' \in BOOLEAN
  BY Zenon DEF ToggleAuto
<1>3. ToggleAuto => pending' \in BOOLEAN
  BY Zenon DEF ToggleAuto
<1>4. Started => pending' \in BOOLEAN
  BY Zenon DEF Started
<1>5. Close => pending' = FALSE /\ closing' = TRUE
  BY DEF Close
<1> QED BY <1>1, <1>2, <1>3, <1>4, <1>5

\* The UI thread, but for Launch, leaves the threads of the engine alone.
LEMMA EngineAlone ==
    IInv /\ Idly /\ TypeOK' /\ shown' \in {shown, "Disconnected"}
    /\ \/ running' = running /\ stopped' = stopped /\ ui' # "stopping"
       \/ ~running' /\ stopped'
    /\ (shown' # shown => WorkerGone /\ stopped) => IInv'
BY DEF IInv, TypeOK, RisingIsActive, TellingAgrees, ShownFollows, Ended, Failing, Stopping,
       Rising, Leaving, Terminal, Active, Threads, DataThreads, Nothing, Idly, WorkerGone, run

LEMMA UiKeepsIInv == IInv /\ (UserStep \/ UiReturn \/ ProcessAutoWait) => IInv'
<1> SUFFICES ASSUME IInv, UserStep \/ UiReturn \/ ProcessAutoWait PROVE IInv'
  OBVIOUS
<1>1. ASSUME ClickWait \/ ClickDisconnect \/ ClickRefresh \/ ProcessAutoWait PROVE IInv'
  <2>1. /\ \/ running' = running /\ stopped' = stopped /\ ui' # "stopping"
           \/ running' = FALSE /\ stopped' = TRUE
        /\ UNCHANGED <<worker, data, state, telling, answered, heard, listed, shown, auto,
                       pending, suppress, closing>>
    BY <1>1 DEF ClickWait, ClickDisconnect, ClickRefresh, ProcessAutoWait, Idly, mirror, run,
                Command, CallStop
  <2>2. TypeOK'
    <3>1. running' \in BOOLEAN /\ stopped' \in BOOLEAN
      BY <2>1 DEF IInv, TypeOK
    <3> QED BY <2>1, <3>1 DEF IInv, TypeOK
  <2>3. Idly
    BY <1>1 DEF ClickWait, ClickDisconnect, ClickRefresh, ProcessAutoWait
  <2> QED BY <2>1, <2>2, <2>3, EngineAlone
<1>2. ASSUME ClickConnect \/ ToggleAuto \/ Close \/ Started PROVE IInv'
  <2>1. /\ \/ running' = running /\ stopped' = stopped /\ ui' # "stopping"
           \/ running' = FALSE /\ stopped' = TRUE
        /\ UNCHANGED <<worker, data, state, telling, answered, heard, listed, shown>>
    <3>1. CASE ClickConnect
      BY <3>1 DEF ClickConnect, Idly, run, CallStop
    <3>2. CASE ToggleAuto
      <4>1. ui' = ui /\ ui = "idle" /\ running' = running /\ stopped' = stopped
        BY <3>2, Zenon DEF ToggleAuto
      <4>2. UNCHANGED <<worker, data, state, telling, answered, heard, listed, shown>>
        BY <3>2, Zenon DEF ToggleAuto, Idly, run
      <4> QED BY <4>1, <4>2
    <3>3. CASE Close
      BY <3>3 DEF Close, Idly, run, CallStop
    <3>4. CASE Started
      <4>1. ui' = "idle" /\ running' = running /\ stopped' = stopped
        BY <3>4, Zenon DEF Started
      <4>2. UNCHANGED <<worker, data, state, telling, answered, heard, listed, shown>>
        BY <3>4, Zenon DEF Started, Idly, run
      <4> QED BY <4>1, <4>2
    <3> QED BY <1>2, <3>1, <3>2, <3>3, <3>4
  <2>2. pending' \in BOOLEAN /\ (auto' \in BOOLEAN \/ auto' = auto)
    BY <1>2, FlagsBoolean DEF ClickConnect, Close, Started
  <2>3. (suppress' \in BOOLEAN \/ suppress' = suppress) /\ (closing' = TRUE \/ closing' = closing)
    BY <1>2, FlagsBoolean DEF ClickConnect, ToggleAuto, Close, Started
  <2>4. TypeOK'
    <3>1. running' \in BOOLEAN /\ stopped' \in BOOLEAN
      BY <2>1 DEF IInv, TypeOK
    <3>2. auto' \in BOOLEAN /\ suppress' \in BOOLEAN /\ closing' \in BOOLEAN
      BY <2>2, <2>3 DEF IInv, TypeOK
    <3> QED BY <2>1, <2>2, <3>1, <3>2 DEF IInv, TypeOK
  <2>5. Idly
    BY <1>2, Zenon DEF ClickConnect, ToggleAuto, Close, Started
  <2> QED BY <2>1, <2>4, <2>5, EngineAlone
<1>3. CASE Launch
  <2>1. shown' = "Connecting" /\ pending' \in BOOLEAN
    BY <1>3, MirrorBoolean DEF Launch
  <2> QED BY <1>3, <2>1
          DEF Launch, WorkerGone, IInv, TypeOK, RisingIsActive, TellingAgrees, ShownFollows,
              Ended, Failing, Stopping, Rising, Leaving, Terminal, Active, Threads, DataThreads, Nothing
<1>4. CASE Stopped
  <2>1. shown' \in {shown, "Disconnected"} /\ (pending' \in BOOLEAN \/ pending' = pending)
    BY <1>4, MirrorBoolean DEF Stopped, mirror
  <2>2. /\ Idly /\ WorkerGone
        /\ suppress' = FALSE /\ ui = "stopping" /\ ui' # "stopping"
        /\ UNCHANGED <<running, listed, auto, closing, stopped>>
    BY <1>4 DEF Stopped
  <2>3. pending' \in BOOLEAN /\ shown' \in Terminal \cup Active
    BY <2>1 DEF IInv, TypeOK, Terminal
  <2>4. TypeOK'
    BY <2>2, <2>3, ZenonT(40) DEF IInv, TypeOK, Idly, run
  <2>5. stopped
    BY <2>2 DEF IInv, Stopping
  <2> QED BY <2>1, <2>2, <2>4, <2>5, EngineAlone
<1>5. CASE ListReturns
  <2>1. /\ Idly /\ listed' \in BOOLEAN
        /\ UNCHANGED <<running, auto, suppress, closing, shown, pending, stopped>>
        /\ ui' # "stopping"
    BY <1>5 DEF ListReturns, mirror
  <2>2. TypeOK'
    BY <2>1 DEF IInv, TypeOK, Idly, run
  <2> QED BY <2>1, <2>2, EngineAlone
<1> QED BY <1>1, <1>2, <1>3, <1>4, <1>5 DEF UserStep, UiReturn

LEMMA NextIInv == IInv /\ [Next]_vars => IInv'
<1> SUFFICES ASSUME IInv, [Next]_vars PROVE IInv'
  OBVIOUS
<1>1. CASE UNCHANGED vars
  BY <1>1 DEF vars, run, command, mirror, IInv, TypeOK, RisingIsActive, TellingAgrees,
              ShownFollows, Ended, Failing, Stopping
<1> QED BY <1>1, WorkerKeepsIInv, DataKeepsIInv, CallbackKeepsIInv, UiKeepsIInv DEF Next

THEOREM InvariantHolds == Spec => []IInv
<1> QED BY InitIInv, NextIInv, PTL DEF Spec

-----------------------------------------------------------------------------
(* What follows. *)

\* The variables keep their types, and data-plane threads live only while
\* the worker that joins them does (WorkerThread).
THEOREM TypeCorrectness == Spec => []TypeOK
<1>1. IInv => TypeOK
  BY DEF IInv
<1> QED BY InvariantHolds, <1>1, PTL

\* However a run ends, the engine can be started again and the front end
\* shows that it has ended (WorkerThread, Start, OnStateChanged).
THEOREM ComesToRest == Spec => []AtRest
<1>1. IInv => AtRest
  BY DEF IInv, TypeOK, TellingAgrees, ShownFollows, Ended, AtRest, WorkerGone,
         Threads, DataThreads, Terminal, Active, Nothing
<1> QED BY InvariantHolds, <1>1, PTL

\* Failures end as Error: a run is left Disconnected, stored or shown, only if
\* the user has stopped it or the peer has closed it, whatever the order in which
\* worker, data-plane threads and UI store, tell and stop (WorkerThread, SetState).
THEOREM EndIsExplained == Spec => []EndExplained
<1>1. IInv => EndExplained
  BY DEF IInv, Failing, EndExplained
<1> QED BY InvariantHolds, <1>1, PTL

\* An ended run is shown as active again only by the next Start, since no
\* active state is left to be told (SetState, OnStateChanged).
THEOREM StaysEnded == Spec => NoRevival
<1> DEFINE Revival == shown \in Terminal /\ shown' \in Active
<1>1. ASSUME IInv, [Next]_vars, Revival PROVE ui = "starting" /\ ui' = "started"
  <2> SUFFICES ASSUME ~ Launch PROVE FALSE
    BY DEF Launch
  <2>1. shown' # shown
    BY <1>1 DEF Terminal, Active
  <2>2. ASSUME NEW t \in Threads, Callback(t) PROVE FALSE
    <3>1. shown' = telling[t] /\ telling[t] \in Active
      BY <1>1, <2>2, MirrorBoolean DEF Callback
    <3>2. t = "worker" /\ worker \in Rising
      BY <1>1, <3>1 DEF IInv, TellingAgrees, Threads
    <3> QED BY <1>1, <3>2 DEF IInv, RisingIsActive, Terminal, Active
  <2>3. CASE Stopped
    BY <1>1, <2>1, <2>3, MirrorBoolean DEF Stopped, Active, mirror
  <2>4. ~ WorkerStep
    BY <2>1 DEF WorkerStep, OpenSocket, SelectPeer, PeerFound, Refused, Answered,
                SelectionBroken, Unanswered, SelectionOverdue, Selecting, BeginTry, EndTry,
                GiveUp, OpenTun, Spawn, CloseData, JoinData, LeaveLoop, Finish, Enter, mirror
  <2>5. ~ (PeerClose \/ \E t \in DataThreads : Break(t) \/ StopRunning(t) \/ SeeStop(t))
    BY <2>1 DEF PeerClose, Break, StopRunning, SeeStop, Move, mirror
  <2>6. ~ (UserStep \/ ProcessAutoWait \/ Started \/ ListReturns)
    BY <2>1 DEF UserStep, ClickWait, ClickDisconnect, ClickRefresh, ClickConnect, ToggleAuto,
                Close, ProcessAutoWait, Started, ListReturns, mirror
  <2>7. ~ UNCHANGED vars
    BY <2>1 DEF vars, mirror
  <2> QED BY <1>1, <2>2, <2>3, <2>4, <2>5, <2>6, <2>7 DEF Next, UiReturn
<1>2. IInv /\ [Next]_vars => [Revival => (ui = "starting" /\ ui' = "started")]_vars
  BY <1>1
<1> QED BY InvariantHolds, <1>2, PTL DEF Spec, NoRevival
=============================================================================

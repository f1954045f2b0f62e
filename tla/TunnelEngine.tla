---------------------------- MODULE TunnelEngine ----------------------------
(***************************************************************************)
(* The life of a tunnel inside one process: TunnelEngine (Start, Stop,     *)
(* SetState, the worker thread and its two data-plane threads) under the   *)
(* front end that drives it, the GUI (gui/main_window*.cpp) or the TUI     *)
(* (tui/tui_app*.cpp), with the automatic wait for a peer.                 *)
(*                                                                         *)
(* SetState stores the state and only then, under a mutex, tells the front *)
(* end: between the two, other threads run.                                *)
(***************************************************************************)
EXTENDS Naturals

CONSTANTS
    Fronts,         \* the front ends of the instance
    MaxTries,       \* strategies and punch attempts of one run
    MaxClicks       \* bound on what the user does

ASSUME FrontsAssumption == Fronts \subseteq {"gui", "tui"}
ASSUME TriesAssumption == MaxTries \in Nat
ASSUME ClicksAssumption == MaxClicks \in Nat

VARIABLES
    running,    \* running_
    state,      \* state_
    worker,     \* where the worker thread is
    data,       \* where the threads tunToNet and netToTun are
    telling,    \* what each thread has stored as the state and not yet told
    calls,      \* the config of the run names a target peer
    answered,   \* responded_: the server has answered this run
    tries,      \* strategies and attempts the run has left
    heard,      \* peerDisconnectReceived: the peer has closed the tunnel
    front,      \* which front end this is
    ui, why,    \* where the UI thread is, and for which command
    listed,     \* the list of clients has one that is selected
    shown,      \* currentState_ (GUI), state_ (TUI)
    auto,       \* config_.autoWaitForPeer
    pending,    \* autoWaitPending_, of the GUI
    suppress,   \* suppressAutoWait_, of the GUI
    closing,    \* shuttingDown_ (GUI), exiting_ (TUI)
    clicks,
    stopped     \* Stop has been called in this run (history)

run == <<calls, answered, tries, heard>>
command == <<front, ui, why, listed, auto, suppress, closing, clicks, stopped>>
mirror == <<shown, pending>>
vars == <<running, state, worker, data, telling, run, command, mirror>>

Terminal == {"Disconnected", "Error"}
Active == {"Connecting", "Waiting", "Connected"}      \* IsTunnelActive
Nothing == "nothing"

DataThreads == {"tun", "net"}
Threads == DataThreads \cup {"worker"}

Gui == front = "gui"

\* workerThread_.join() returns: there is no worker, or it has returned.
WorkerGone == worker \in {"none", "done"} /\ telling["worker"] = Nothing

EngineInit ==
    /\ running = FALSE
    /\ state = "Disconnected"
    /\ worker = "none"
    /\ data = [t \in DataThreads |-> "none"]
    /\ telling = [t \in Threads |-> Nothing]
    /\ calls = FALSE /\ answered = FALSE /\ tries = 0 /\ heard = FALSE

FrontInit ==
    /\ front \in Fronts
    /\ ui = "idle" /\ why = "wait"
    /\ listed = FALSE
    /\ shown = "Disconnected"
    /\ auto \in BOOLEAN
    /\ pending = (Gui /\ auto)
    /\ suppress = FALSE
    /\ closing = FALSE
    /\ clicks = 0
    /\ stopped = FALSE

Init == EngineInit /\ FrontInit

-----------------------------------------------------------------------------
(* SetState and the callback of the front end. *)
SetState(t, s) ==
    /\ state' = s
    /\ telling' = [telling EXCEPT ![t] = s]

\* The GUI notes that it is to wait for a peer again; the TUI looks at its
\* state when the time comes.
OnStateChanged(s) ==
    /\ shown' = s
    /\ pending' = \/ pending
                  \/ Gui /\ s \in Terminal /\ auto /\ ~closing /\ ~suppress

Callback(t) ==
    /\ telling[t] # Nothing
    /\ OnStateChanged(telling[t])
    /\ telling' = [telling EXCEPT ![t] = Nothing]
    /\ UNCHANGED <<running, state, worker, data, run, command>>

-----------------------------------------------------------------------------
(* The worker thread. *)
At(where) == worker = where /\ telling["worker"] = Nothing

Enter(where) == worker' = where /\ UNCHANGED <<running, data, command, mirror>>

Silently == UNCHANGED <<state, telling>>

OpenSocket ==
    /\ At("open")
    /\ \/ SetState("worker", "Error") /\ Enter("leave")
       \/ SetState("worker", IF calls THEN "Connecting" ELSE "Waiting") /\ Enter("select")
    /\ UNCHANGED run

\* One turn of the selection loop; where tells what becomes of the worker.
Selecting(where, heardServer) ==
    /\ At("select")
    /\ answered' = heardServer
    /\ Enter(where) /\ Silently
    /\ UNCHANGED <<calls, tries, heard>>

\* The PEER that is wanted; an ERROR or a reply that makes no sense; any other
\* reply of the server: REGISTERED, peer-not-found, a PEER not asked for.
PeerFound == Selecting("try", TRUE)
Refused == Selecting("failed", TRUE)
Answered == Selecting("select", TRUE)

\* The receive fails, or the loop condition does.
SelectionBroken == Selecting("failed", answered)

\* Mutant of Unanswered: the server's silence counts for a waiting client only.
UnansweredWaiting ==
    /\ ~answered /\ ~calls
    /\ Selecting("failed", answered)

\* No reply within 5 s of the start, or the server is unreachable.
Unanswered ==
    /\ ~answered
    /\ Selecting("failed", answered)

\* The deadline of the selection holds once the server has replied; that of a
\* client that waits is a year away.
SelectionOverdue ==
    /\ answered /\ calls
    /\ Selecting("failed", answered)

SelectPeer == PeerFound \/ Refused \/ Answered \/ SelectionBroken \/ Unanswered \/ SelectionOverdue

\* The next strategy, or the next attempt of the NAT punch.
BeginTry ==
    /\ At("try")
    /\ IF running /\ tries > 0
       THEN /\ SetState("worker", "Connecting") /\ Enter("strategy")
            /\ tries' = tries - 1
       ELSE /\ Silently /\ Enter("failed")
            /\ UNCHANGED tries
    /\ UNCHANGED <<calls, answered, heard>>

EndTry ==
    /\ At("strategy")
    /\ \E where \in {"try", "tun"} : Enter(where) /\ Silently
    /\ UNCHANGED run

\* An Error is shown only to a user who has not stopped the tunnel.
GiveUp ==
    /\ At("failed")
    /\ IF running THEN SetState("worker", "Error") ELSE Silently
    /\ Enter("leave")
    /\ UNCHANGED run

\* Mutant of OpenTun: the data plane runs before the UI knows that it is up.
OpenTunSpawning ==
    /\ At("tun")
    /\ SetState("worker", "Connected")
    /\ worker' = "data"
    /\ data' = [t \in DataThreads |-> "loop"]
    /\ UNCHANGED <<running, run, command, mirror>>

OpenTun ==
    /\ At("tun")
    /\ \/ SetState("worker", "Error") /\ Enter("leave")
       \/ SetState("worker", "Connected") /\ Enter("spawn")
    /\ UNCHANGED run

Spawn ==
    /\ At("spawn")
    /\ worker' = "data"
    /\ data' = [t \in DataThreads |-> "loop"]
    /\ Silently
    /\ UNCHANGED <<running, run, command, mirror>>

\* The poll of running_ ends: PEER_CLOSE is sent unless it came from the peer.
\* Whether the sending succeeds makes no difference here; the other end is
\* one more process, which hears it or not (PeerClose, Break).
CloseData ==
    /\ At("data")
    /\ ~running
    /\ Enter("join") /\ Silently
    /\ UNCHANGED run

\* Mutant of JoinData: netToTun is not joined.
JoinDataOne ==
    /\ At("join")
    /\ data["tun"] = "done"
    /\ Enter("leave") /\ Silently
    /\ UNCHANGED run

JoinData ==
    /\ At("join")
    /\ \A t \in DataThreads : data[t] = "done"
    /\ Enter("leave") /\ Silently
    /\ UNCHANGED run

\* Mutant of LeaveLoop: running_ stays as it was.
LeaveLoopRunning ==
    /\ At("leave")
    /\ Enter("final") /\ Silently
    /\ UNCHANGED run

LeaveLoop ==
    /\ At("leave")
    /\ running' = FALSE
    /\ worker' = "final"
    /\ Silently
    /\ UNCHANGED <<data, run, command, mirror>>

\* Mutant of Finish: a stopped tunnel reports nothing.
FinishSilently ==
    /\ At("final")
    /\ Enter("done") /\ Silently
    /\ UNCHANGED run

\* Mutant of Finish: only Disconnected counts as settled.
FinishDisconnected ==
    /\ At("final")
    /\ IF state = "Disconnected" THEN Silently ELSE SetState("worker", "Disconnected")
    /\ Enter("done")
    /\ UNCHANGED run

\* UNREG, the sockets and the adapter are closed, and the state is settled.
Finish ==
    /\ At("final")
    /\ IF state \in Terminal THEN Silently ELSE SetState("worker", "Disconnected")
    /\ Enter("done")
    /\ UNCHANGED run

WorkerStep ==
    \/ OpenSocket \/ SelectPeer \/ BeginTry \/ EndTry \/ GiveUp
    \/ OpenTun \/ Spawn \/ CloseData \/ JoinData \/ LeaveLoop \/ Finish

-----------------------------------------------------------------------------
(* The data-plane threads. *)
DataAt(t, where) == data[t] = where /\ telling[t] = Nothing

Move(t, where) ==
    /\ data' = [data EXCEPT ![t] = where]
    /\ UNCHANGED <<worker, calls, answered, tries, command, mirror>>

\* The adapter fails or is closed, or (netToTun) the peer is silent too long.
Break(t) ==
    /\ DataAt(t, "loop")
    /\ SetState(t, "Error")
    /\ Move(t, "stopping")
    /\ UNCHANGED <<running, heard>>

PeerClose ==
    /\ DataAt("net", "loop")
    /\ heard' = TRUE
    /\ SetState("net", "Disconnected")
    /\ Move("net", "stopping")
    /\ UNCHANGED running

StopRunning(t) ==
    /\ DataAt(t, "stopping")
    /\ running' = FALSE
    /\ Move(t, "done") /\ Silently
    /\ UNCHANGED heard

SeeStop(t) ==
    /\ DataAt(t, "loop")
    /\ ~running
    /\ Move(t, "done") /\ Silently
    /\ UNCHANGED <<running, heard>>

-----------------------------------------------------------------------------
(* The UI thread.  A command that calls Start while the engine runs is     *)
(* refused and changes nothing; the configuration is valid.  Any button    *)
(* may be clicked at any time, since a later tick draws which are enabled. *)
Command(where, what) == ui = "idle" /\ ui' = where /\ why' = what

Click == clicks < MaxClicks /\ clicks' = clicks + 1

CallStop == running' = FALSE /\ stopped' = TRUE

Idly == UNCHANGED <<state, worker, data, telling, run>>

ClickWait ==
    /\ Click
    /\ Gui => shown \in Terminal
    /\ ~running
    /\ Command("starting", "wait")
    /\ Idly /\ UNCHANGED <<running, front, listed, auto, suppress, closing, stopped, mirror>>

ClickDisconnect ==
    /\ Click
    /\ Command("stopping", "disconnect")
    /\ CallStop
    /\ Idly /\ UNCHANGED <<front, listed, auto, suppress, closing, mirror>>

\* RefreshClients asks the server for the list and waits for the reply on the
\* UI thread; a failure of any kind leaves the old list.
ClickRefresh ==
    /\ Click
    /\ Command("listing", "refresh")
    /\ Idly /\ UNCHANGED <<running, front, listed, auto, suppress, closing, stopped, mirror>>

ListReturns ==
    /\ ui = "listing"
    /\ ui' = "idle"
    /\ listed' \in BOOLEAN
    /\ Idly /\ UNCHANGED <<running, front, why, auto, suppress, closing, clicks, stopped, mirror>>

\* ConnectSelectedClient: the GUI keeps the end of this run from asking for a
\* new one.
ClickConnect ==
    /\ Click
    /\ listed
    /\ Command("stopping", "connect")
    /\ CallStop
    /\ suppress' = Gui
    /\ pending' = FALSE
    /\ Idly /\ UNCHANGED <<front, listed, auto, closing, shown>>

\* OnAutoWaitChanged, in the GUI.
ToggleAuto ==
    /\ Click
    /\ ui = "idle"
    /\ auto' = ~auto
    /\ pending' = (Gui /\ auto' /\ (pending \/ shown \in Terminal))
    /\ Idly /\ UNCHANGED <<running, front, ui, why, listed, suppress, closing, stopped, shown>>

Close ==
    /\ Click
    /\ Command("stopping", "close")
    /\ closing' = TRUE
    /\ pending' = FALSE
    /\ CallStop
    /\ Idly /\ UNCHANGED <<front, listed, auto, suppress, shown>>

\* The timer ticks; the retry delay is over.
ProcessAutoWait ==
    /\ auto
    /\ shown \in Terminal
    /\ Gui => pending
    /\ ~running
    /\ Command("starting", "auto")
    /\ Idly /\ UNCHANGED <<running, front, listed, auto, suppress, closing, clicks, stopped, mirror>>

\* Start joins the previous worker, if any, and starts another.
Launch ==
    /\ ui = "starting"
    /\ WorkerGone
    /\ running' = TRUE
    /\ state' = "Connecting"
    /\ OnStateChanged("Connecting")
    /\ worker' = "open"
    /\ data' = [t \in DataThreads |-> "none"]
    /\ calls' = (why = "connect")
    /\ answered' = FALSE
    /\ tries' = MaxTries
    /\ heard' = FALSE /\ stopped' = FALSE
    /\ ui' = "started"
    /\ UNCHANGED <<telling, front, why, listed, auto, suppress, closing, clicks>>

\* What the caller of Start does once it has returned, with the worker
\* already running: the automatic wait of the GUI has been served.
Started ==
    /\ ui = "started"
    /\ ui' = "idle"
    /\ pending' = (pending /\ why # "auto")
    /\ Idly /\ UNCHANGED <<running, front, why, listed, auto, suppress, closing, clicks, stopped, shown>>

\* Stop has joined the worker; what its caller does then.
Stopped ==
    /\ ui = "stopping"
    /\ WorkerGone
    /\ \/ why = "disconnect" /\ ui' = "idle" /\ OnStateChanged("Disconnected")
       \/ why = "connect" /\ ui' = "starting" /\ UNCHANGED mirror
       \/ why = "close" /\ ui' = "gone" /\ IF Gui THEN OnStateChanged("Disconnected")
                                                  ELSE UNCHANGED mirror
    /\ suppress' = FALSE
    /\ Idly /\ UNCHANGED <<running, front, why, listed, auto, closing, clicks, stopped>>

UserStep == ClickWait \/ ClickDisconnect \/ ClickRefresh \/ ClickConnect \/ ToggleAuto \/ Close
UiReturn == Launch \/ Started \/ Stopped \/ ListReturns

Next ==
    \/ WorkerStep
    \/ \E t \in DataThreads : Break(t) \/ StopRunning(t) \/ SeeStop(t)
    \/ PeerClose
    \/ \E t \in Threads : Callback(t)
    \/ UserStep \/ UiReturn \/ ProcessAutoWait

Spec == Init /\ [][Next]_vars

\* Threads that can run do run, and deadlines pass.  Nothing makes the worker
\* find a peer, nor a data-plane loop end, while the engine runs; the user need
\* not do anything.
Fairness ==
    /\ WF_vars(WorkerStep /\ (worker = "select" => ~running))
    /\ WF_vars(Unanswered) /\ WF_vars(SelectionOverdue)
    /\ \A t \in DataThreads : WF_vars(StopRunning(t) \/ SeeStop(t))
    /\ \A t \in Threads : WF_vars(Callback(t))
    /\ WF_vars(UiReturn)
    /\ WF_vars(ProcessAutoWait)

FairSpec == Spec /\ Fairness

-----------------------------------------------------------------------------
(* Properties. *)

\* Data-plane threads live inside the worker only, and only they and the
\* worker have anything to tell.
TypeOK ==
    /\ running \in BOOLEAN /\ auto \in BOOLEAN /\ pending \in BOOLEAN
    /\ answered \in BOOLEAN /\ listed \in BOOLEAN
    /\ suppress \in BOOLEAN /\ closing \in BOOLEAN /\ stopped \in BOOLEAN /\ heard \in BOOLEAN
    /\ state \in Terminal \cup Active /\ shown \in Terminal \cup Active
    /\ worker \in {"none", "open", "select", "try", "strategy", "failed", "tun",
                   "spawn", "data", "join", "leave", "final", "done"}
    /\ data \in [DataThreads -> {"none", "loop", "stopping", "done"}]
    /\ telling \in [Threads -> Terminal \cup Active \cup {Nothing}]
    /\ worker \notin {"data", "join"} => \A t \in DataThreads : data[t] \in {"none", "done"}

\* A worker that has returned, for whatever reason, leaves an engine that can
\* be started and a front end that says so: Start would refuse, or Disconnect
\* be offered for a tunnel that is not there.
AtRest ==
    WorkerGone =>
        /\ ~running
        /\ {state, shown} \subseteq Terminal

\* What is over is shown for what it was: Disconnected is where a run ends that
\* the user stopped or the peer closed, and every failure ends as Error, whichever
\* thread met it and whatever the others stored meanwhile (doc/state-machine.md).
EndExplained ==
    (worker = "done" /\ WorkerGone /\ "Disconnected" \in {state, shown}) => stopped \/ heard

\* A front end that has shown the end of a run shows an active tunnel again
\* only when a new one is started: no callback of an ended run comes late.
NoRevival ==
    [][(shown \in Terminal /\ shown' \in Active) => (ui = "starting" /\ ui' = "started")]_vars

\* Stop returns: the UI thread, which waits in it, does not freeze.
StopReturns == ui = "stopping" ~> ui # "stopping"

\* A run leaves the selection, unless it waits for a call and the server has
\* answered: of the two deadlines one always applies (ResponseTimedOut,
\* HasResponded and the selection deadline).
SelectionEnds ==
    (worker = "select" /\ (calls \/ ~answered))
        ~> (worker # "select" \/ (answered /\ ~calls))

\* Nobody waits for ever: neither the user in Stop nor a run in the selection.
NobodyWaits == StopReturns /\ SelectionEnds

\* With the automatic wait on, a front end whose tunnel has ended starts
\* another (README.md, doc/tui.md).
Retries(f) ==
    (front = f /\ auto /\ shown \in Terminal)
        ~> (shown \in Active \/ ~auto \/ closing)

\* In the TUI.
TuiRetries == Retries("tui")

\* In the GUI.
GuiRetries == Retries("gui")
=============================================================================

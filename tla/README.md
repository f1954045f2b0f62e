# EasyTunnel: verification project

EasyTunnel connects two hosts through a virtual network interface. Two clients
meet at a *rendezvous server*, learn of each other there, and then try one
strategy after the other (NAT punching, IPv6, a relay run by the server) until
they have a UDP path, over which the tunnel forwards IP packets. This directory
holds TLA+ models of the parts whose behaviour depends on the order of events,
the TLC configurations that check them on small instances, and TLAPS proofs for
every value of the constants.

## 1. The system

| component (source) | state it keeps | operations | met by |
|---|---|---|---|
| **Rendezvous registry** `rendezvous/registry.cpp` | per room: a `Client` record per node (endpoint, partner, session, attempt, token, report, flags), the next attempt id | `REG` `CONNECT` `UNREG` `NAT_INFO` `NAT_ARMED` `NAT_RETRY` `V6_JOIN` `RELAY_JOIN` `TUN_IP` `LIST`, expiry | one datagram at a time from the server loop |
| **Server loop** `rendezvous/server.cpp` | the socket, a snapshot for the UI | receive (1 s timeout), handle, purge and snapshot | datagrams of all clients |
| **Relay application** `rendezvous/ipv4_relay_app.cpp` | a session (port, socket, thread) per pair | join, remove a peer, clean up; a worker thread per session | registry (calls), workers (`finished`) |
| **Rendezvous client, peer selection** `rendezvous_client.cpp`, `peer_selection.cpp` | the control socket, deadlines | `REG`/`CONNECT` every 500 ms, parse answers | server |
| **Adaptive NAT traversal** `adaptive_nat_traversal.cpp` | the attempt, the plan, the barrier | STUN, `NAT_INFO`, `NAT_ARMED`, punch, `NAT_RETRY` | server, peer |
| **Punch handshake** `nat_punch_handshake.cpp` | role, selected path, nonce, complete | `Handle` of PUNCH, PUNCH_ACK, PUNCH_CONFIRM | punch loop, peer |
| **Data-plane control** `nat_traversal.cpp` | – | answers PUNCH and PUNCH_ACK in the tunnel | peer |
| **STUN client, punch plan** `stun_client.cpp`, `nat_punch_plan.cpp` | transaction ids; none | query two servers, classify the NAT, ports and limits of a plan | one attempt |
| **Punch scheduler, socket pool, transport** `nat_punch_scheduler.cpp`, `nat_punch_socket_pool.cpp`, `nat_punch_transport.cpp` | cursor and due time of the wave; sockets; counters | next batch, grow, send with a TTL, release the winner | punch loop |
| **IPv6 and relay fallback** `ipv6_fallback.cpp`, `ipv4_relay_fallback.cpp` | their own control socket, deadline | `V6_JOIN`, `V6_PUNCH`; `RELAY_JOIN`, `HELLO` | server, peer, relay |
| **Tunnel engine** `tunnel_engine.cpp` | `running_`, `state_`, worker, two data-plane threads | Start, Stop, order of the strategies, forwarding | UI threads, all of the above |
| Configuration, codec, histories, TUN adapters, GUI, TUI, logging | – | parsing, system calls, presentation | – |

What makes it hard: every exchange is UDP, repeated every 500 ms or faster by
both sides without sequence numbers, so old copies of everything keep arriving;
the server writes two client records per operation and clears them one at a
time; registrations expire in the middle of exchanges; a process may be killed
and restarted, and is then handed the *same* session again; three fallbacks
share one pairing; the punch runs over many paths at once, and at a pace that a
budget, a deadline and Stop cut into; relay ports are used again by the next
session while datagrams of the last one are on their way.

What must hold: partners agree on session, attempt and token; nobody outside a
pair disturbs it; a barrier opens for both or for none; no pairing outlives its
partner; both tunnels are on the same path; a side that leaves early does not
strand the other; the plans of the two sides, made separately, fit; what a relay
forwards stays within a session; whatever ends, ends with its sockets closed,
its threads joined and its user told. `PROJECT.json` lists these as hazards, each at its line, with
the properties that cover it, or why none does.

## 2. The modules

| module | models | composed with |
|---|---|---|
| `Registry` | one room of the registry, the server loop's turn, which pairs own a relay session | – |
| `RegistryFair` | nodes that fall silent for good, and what the loop alone does about it | `Registry` |
| `RegistryProofs` | proofs about `Registry`: its invariants | `Registry` |
| `RegistryStepProofs` | proofs about `Registry`: what a step may never do, the bound on the room | `RegistryProofs` |
| `NatSession` | the clients of a NAT punch: selection, reports, barrier, attempts, giving up | `Registry`; implements `AttemptBarrier` |
| `NatSessionProofs` | proofs about `NatSession`, over those about `Registry` | `RegistryStepProofs` |
| `PunchPlan` | the pure functions of `nat_punch_plan.cpp` and the classification of NATs | – |
| `PunchScheduler` | the pure functions of `NatPunchScheduler` | – |
| `PunchAttempt` | one side of one attempt: STUN, plan, pre-punch, barrier, waves, deadline, Stop, sockets | `PunchPlan`, `PunchScheduler` |
| `RelaySession` | the relay's sessions and workers, and the clients that join, tunnel, die and come back | – |
| `Ipv6Fallback` | two clients that connect over IPv6, the server's part of it, and their tunnel | – |
| `PunchAttemptProofs`, `RelaySessionProofs`, `Ipv6FallbackProofs` | proofs about the three above | each its module |
| `AttemptBarrier` | abstract: nobody passes before both have armed, nobody moves on before both have asked | – |
| `PathSelection` | abstract: one side selects a path, the other settles on a selected one | – |
| `PunchHandshake` | the handshake of one attempt, both roles, punch loop and tunnel | implements `PathSelection` |
| `PunchHandshakeProofs` | proofs about `PunchHandshake` | `PunchHandshake` |
| `TunnelEngine` | Start, Stop, the worker, the data-plane threads, the front end and its automatic wait | – |
| `TunnelEngineProofs` | proofs about `TunnelEngine` | `TunnelEngine` |

The `MC*` modules hold the instances that need definitions; `TunnelEngine` needs
none and is checked as it is.

### Registry

`room` is `rooms[roomId]`, one record per node (`NoClient` when absent); the
fields have the names of `struct Client`. One action is one turn of
`RendezvousServer::Run`: a datagram is handled and the snapshot that follows
purges the room again (`Turn`, `Settle`). A handler that purges on entry works
on `Live`. The actions are named after the handlers, with one action per
outcome: `ConnectRefused`, `ConnectAgain`, `ConnectPair`; `NatInfo`, `NatArmed`;
`NatRetryStale`, `NatRetryWait`, `NatRetryOpen`; `V6Refused`, `V6Join`; …

The network is not a variable: any datagram a client could have sent with what
the server has handed out so far may arrive at any turn. That covers loss,
delay, reordering, duplication, and clients of any age at once.

Abstractions:
- a session id and a punch token are random numbers in the code; here they are
  the number of the attempt they are drawn with: what is used of them is that
  they differ. A failing random source is a nondeterministic refusal.
- time is the set `stale` of registrations whose last datagram is older than
  the timeout; the numbers of the timeout are not modelled.
- addresses, mapped endpoints and TUN addresses are opaque; `reported` is
  `report # NoReport`.
- malformed, unauthorized or wrong-version datagrams change no record; they are
  turns without effect (`Tick`).
- rooms share only the attempt counter; one room is modelled. The 64-bit wrap
  of the counter is out of reach.
- a finished relay session is joined and erased before any use, so finishing
  and erasing are one action, `RelayFinish`.
- `V6_JOIN`, `RELAY_JOIN` and `NAT_*` name another node than their sender, as
  every client does; `CONNECT` may name anybody.
- `replies` and `handled` are written and never read; the runs fingerprint the
  state without them (`VIEW ServerState`).

### RegistryFair

Adds `silent`, the nodes from which nothing comes any more. Fairness: the
receive loop turns (its socket has a receive timeout of one second, so a turn
comes even without a datagram) and the registration of a silent node gets old
(the clock advances). Nothing is assumed about the other nodes: they may do
anything or nothing, and may repeat a join that names the silent node.

### PunchHandshake

A *path* stands for a pair of local sockets with the mapped endpoints that go
with it. `net` is the set of datagrams that may still arrive: in `Spec` nothing
leaves it, which makes every datagram late, duplicated or, when never received,
lost. `Select`, `Lock` and `Confirmed` are the three accepting branches of
`NatPunchHandshake::Handle` with what the punch loop does about them;
`TunnelAnswers` is `HandlePeerControl`, which answers in place of a side whose
loop has returned. `Deadline` is the end of the attempt, `Restart` the end of
the process and its return within the same session: CONNECT of an existing pair
hands out the stored session and token (`ConnectAgain` of `Registry`), and an
unchanged report leaves the barrier as it is.

`PathAgreement` is stated for executions in which at most one of the two
processes is replaced. With both replaced it does not hold: a Receiver restarted
between two Senders may be completed by datagrams of the first of them.
`MCPunchHandshake` therefore checks the executions in which one process stays
(`OneStays`), with two lives of the other; the proofs have no such bound.

`PatientSpec` adds loss and fairness. The two liveness properties speak of
attempts that neither run into their deadline nor are started again
(`Undisturbed`): a wave of datagrams can be lost for as long as the deadline
lasts. Its fairness
(repeated sends are repeated, and of what is sent again and again something
arrives) stands for an attempt that is given the time it needs on paths that
work in both directions; it is an assumption about the network, not about the
code. The repeats themselves are the code's: the schedule's waves, the ACK
every 100 ms, the tunnel's answer to each ACK.

### NatSession and AttemptBarrier

`Registry` lets any datagram arrive at any turn; `NatSession` lets arrive what
the clients of the code send, so that what holds only because both sides follow
the protocol can be stated. It extends `Registry`: the handlers are the same
operators, applied to a datagram of `requests`, and what they reply goes to
`inbox`. `client[n]` is the state of the worker thread of `n`: its phase
(`select`, `info`, `barrier`, `punch`, `retry`, `tunnel`, `left`), the
`NatPunchSession` it holds, the number of the attempt, its own report and the
peer's. `SendProbe` and `SendRequest` are the repeats every 500 ms, the `Take*`
actions the branches on the events of `RendezvousClient::HandlePacket`,
`AttemptTimeout` the retryable outcomes, `Leave` the others, Stop included.

- `requests` and `inbox` never lose a member in `SessionSpec`: a datagram may be
  taken late, twice or never.
- STUN and the exchange of reports are one phase, `info`. A new attempt opens a
  new socket, hence its report differs from that of the attempt before.
- PEER_NOT_FOUND, NAT_WAIT, NAT_ARMED_ACK and NAT_RETRY_WAIT only refresh the
  client's own deadlines; they are left out, and a deadline may come any time.
- an ERROR names no session and no attempt, and ends whatever phase it meets.
- `ready`, `punched` and `asked` are histories, which the refinement maps to the
  barrier. `Succeed` stands for the handshake of `PunchHandshake`.

`PatientSpec` is for liveness: only the first attempt may time out, random draws
succeed, replies are lost though not for ever, and no request outlives its
attempt. The last restriction is needed: the server may answer a repeated
NAT_RETRY with a second copy of NAT_ATTEMPT, and `RequestNextNatPunchAttempt`
ends the *next* retry on it, as its attempt is not newer. With an attempt limit
of two, as here, there is no next retry. `BarrierOpens` speaks of pairs in which
both know of each other: PEER goes once to the side that waits, and when that
copy is lost the waiting side learns of nothing. Not modelled: a client that
restarts within its session (the handshake has it).

### PunchPlan, PunchScheduler, PunchAttempt

`PunchPlan` and `PunchScheduler` are functions only: what a plan is made of is
arguments, the draws of the random walk included, and a scheduler is a record.
`PunchAttempt` runs them. `scenario` is what the attempt is made for: the two
NATs, who initiated, the number of the attempt. `phase` is where
`PunchAdaptiveNat` is (`stun`, `info`, `prepunch`, `barrier`, `punch`, `done`),
`now` a clock that any step may fall behind of, `running` the engine's flag,
cleared by `Stop` at any time. `StunAnswer` takes one of the answers that are
still on their way, in any of the forms `ParseStunBindingResponse` tells apart;
`Take` is `NextBatch`, `SendProbe` and `ProbeStuck` the outcomes of
`SendNatPunchProbe`, `Cut` the tests of the flag and of the deadline before each
probe. What the peer and the server say may come at any time (`PeerInfo`,
`BarrierOpens`, `Lock`, `Complete`): `NatSession` and `PunchHandshake` have their
order.

- `RandomTargets` is the loop of `BuildRandomPortTargets`: the walk of the ports
  from the drawn start in the drawn step, raised until it shares no factor with
  their number (`CoprimeStep`), passing over those already listed (`Walked`).
- the retries of a STUN query, milliseconds and profile limits are scaled
  down in the instance (`MCPolicy`); the formulas are the code's.
- a query does not look at the clock, nor at Stop; what time it took is drawn
  when it ends.
- `PlansMeet` compares the plan with the one the peer derives from the mappings
  the NAT really has. It holds for true mappings only because answers of an
  earlier server or transaction are not taken. One side may be left without a
  plan: when the port it predicts for the other is not a port.
- `Ends` is for a thread that is scheduled and a clock that goes on.

### RelaySession

`sessions` is `Impl::sessions`, one record per pair, `turn` the RELAY_JOIN that
`HandleJoin` is in the middle of: `CleanupFinished` comes first, and a worker may
end before the session is looked up (`Join`, `AnswerJoin`). A session's worker is
`TakeHello` (HELLO with the credentials of a side binds it, to whatever endpoint
it comes from), `Expire`, and `Reaches`, which says where it forwards what a
tunnel sends. `client` is the process of each node: `SendHello`, `TakeReady`,
`Leave` with UNREG, `Crash` without. An endpoint is a node and the life of its
process. Whether the registry lets a join through is a choice (`Refuse`); the
rules are those of `Registry`.

Ports are used again by the next session, so a late HELLO or READY may meet
another one; ids and keys are drawn per session and are one id here. An id is
drawn among those that nobody holds (`HeldIds`: offers, sessions, datagrams under
way), so the number of sessions has no bound. `Rejected` is the end of the mode by
ERROR: the process says nothing more, though it may go on. A session expires when its older side has been silent (`Silent`); an unready one
expires by its age alone, `HalfWay`, which counts as a fault as it takes 60 s of a
side that is there but does not get through. A client in its tunnel sends neither
JOIN nor HELLO; when its session has gone, or its peer has been restarted, it stays
until `peer_timeout` of `netToTun` (tunnel_engine.cpp:471): `Deserted`, for which
the fairness has it leave.

`Meets` is for two that want each other and stay: joins reach the server again and
again (they are repeated every 500 ms), hence SF of `Join`, and finitely many
faults. It rests on the timeout just named: without it, one that stays in a dead
tunnel is joined by nobody, however often the other is offered a new session.
`SessionEnds` is about a session one side of which has gone or has been refused.
A RELAY_OFFER arrives at once or never; in the code a late one would put a client
back to an earlier session until its next JOIN is answered.

### Ipv6Fallback

Two processes that a rendezvous has made a pair go through the IPv6 mode
(`Begin` is the probe of an own global address, `Join` a V6_JOIN with its
answers, `SendPunch` and `TakePunch` the punch, `Fail` the deadline or ERROR with
UNREG), into the tunnel (`Wake`, `TakeControl`: `netToTun` with
`HandlePeerControl`) or on to the next mode (`AskNat`). `room` holds the two
records of the server, with the socket each endpoint is of: V6_JOIN moves the
registration to the mode's own socket, and UNREG is taken from there only.

Time is ticks, in each of which every tunnel wakes up once and what is on its way
arrives or is lost; a keepalive interval and the timeout are some of them.
`lossy` is drawn at the start. `Restart` is REG and CONNECT of the new process; on
a lossy network REG may be lost, and the IPv6 endpoint of the dead process then stays
joined. `known` is whether a record has capabilities, which V6_JOIN does not bring:
CONNECT is refused to a peer without them, and their first arrival ends a pairing.
`AliveKept` is about networks that lose nothing,
and unequal intervals: a side with a long timeout and few keepalives of its own
must not look dead to the other, which is why a keepalive is acknowledged.

`ipv6_order` is a disagreement between the code and doc/ipv6-fallback.md:6 and
:10. The mode's UNREG erases the client and unpairs its peer, whether the mode
has succeeded or failed; a NAT punch that comes after a failed IPv6 connection is
turned away (`invalid-nat-session`), as neither client registers again.

### TunnelEngine

One process: the UI thread (`ui`, and `why` it is in Start or Stop), the worker
(`worker` is where it is in `WorkerThread`), the two data-plane threads (`data`)
and the atomics they share (`running`, `state`). `SetState` is two steps, because
the state is stored before the callback is called under `cbMutex_`: `telling[t]`
is what thread `t` has stored and not yet told, and `Callback(t)` tells it.
`front` chooses between the GUI, which keeps the flags `pending` and `suppress`,
and the TUI, which looks at its state when its timer ticks. `Launch` is the part
of Start after the join, `Started` what the caller of Start does afterwards while
the worker already runs, `Stopped` what the caller of Stop does.

The selection is a step per turn of `SelectPeer`'s loop: `PeerFound`, `Refused`,
`Answered`, the failure of the socket, and two deadlines of which `answered`
(`RendezvousClient::HasResponded`) chooses one: 5 s for a first reply, then the
deadline of the selection, which a client that waits does not have.

A strategy, its attempts included, is one step that succeeds or fails, at most
`MaxTries` times (`NatSession`, `PunchAttempt`, `Ipv6Fallback` and `RelaySession`
look inside). `ClickRefresh` asks for the client list on the UI thread; only a
client that is listed can be called. The
configuration is valid; delays of the automatic wait are over at any time; a Start
that is refused changes nothing; any button may be clicked at any time. The
callback of the front end is one step. Whether PEER_CLOSE could be sent at the
end of a tunnel makes no difference to the process (`CloseData`); what the other end
makes of it, or of its loss, is in `Ipv6Fallback`. `stopped` is a history variable:
Stop has been called in this run. `waitingForPeer_`, which only words what
is shown, is left out.

Fairness: threads that can run do run, and deadlines pass. The worker need not find a peer and the
data-plane loops need not end while `running` is set; once it is cleared,
every blocking call of theirs returns (receive timeouts of one second, the poll of
200 ms, `ShutdownSocket`, the read timeout of the adapter). The timer ticks. The
user may do nothing, and does at most `MaxClicks` things: one who clicks
Disconnect for ever postpones the retry for ever.

`gui_retries` is a disagreement between the code and README.md:254:
`MainWindow::ProcessAutoWait` clears `autoWaitPending_` after Start has returned,
and so overwrites the request of a run that has failed in the meantime. The
automatic wait then never retries. The TUI keeps no such flag, and does retry.

## 3. The runs

| run | instance | shows |
|---|---|---|
| `clients` | 3 nodes that register, call, list, leave and join either fallback; one attempt, one relay port, one overdue registration at a time | sessions belong to exactly two partners that agree; no pairing outlives its partner; a third node never touches a pair |
| `pair` | 2 nodes, 2 sockets each, 2 reports, 2 attempts, IPv6 joins between | CONNECT reuses one session; a changed report disarms both; attempts advance in one step for both; NAT_START addresses both |
| `silence` | 3 nodes for 2 slots, any of them may fall silent | capacity is kept; partners and slots of silent nodes are released |
| `handshake` | 2 paths, 2 lives of either process, loss and replay | one path, the Sender first, refinement of `PathSelection`; the Receiver follows; an undisturbed attempt succeeds |
| `session` | one client calls, one waits; two attempts each | same secrets, current reports, refinement of `AttemptBarrier` |
| `session_patient` | the same, replies lost though not for ever | the barrier opens; a retry reaches the punch |
| `attempt` | 7 NATs on each side, 2 attempts, short waves and budget | plans complement each other; waves are whole and within the budget; no burst after a stall; a low TTL stays low; sockets are closed; the attempt ends |
| `relay` | 2 nodes, one of them restarted once, any number of sessions on 1 port, 1 fault | tunnels are isolated by session; two that stay meet; an abandoned session ends |
| `ipv6` | unequal intervals, one process restarted once, both kinds of network | a tunnel is with a process that has had one's endpoint; a peer that is there is kept; a lone tunnel ends |
| `ipv6_order` | the same | violated: the NAT punch after a failed IPv6 mode is refused |
| `engine` | both front ends, 2 tries, 4 commands of the user | comes to rest and says so, Disconnected only where the user or the peer ended it and Error otherwise, no revival, nobody waits for ever in Stop or the selection, the TUI retries |
| `gui_retries` | GUI, 1 try, 1 command | violated: the GUI's automatic wait may stop retrying |

Bounds. Three nodes are a pair and an intruder, and every property speaks of at
most two records and the sender of a datagram. Two attempts are one retry, hence
one obsolete attempt to quote. One overdue registration at a time is enough to
lose either partner or the third; `silence`, whose subject it is, has no bound.
Two reports are a change, two sockets a registration that moves. Two paths are
a right one and a wrong one; two lives leave an old nonce and a current one.
`Kinds` leaves out of an instance the datagram types its question does not
involve. The NATs of `attempt` are one of each behaviour, with steps up and down
and predictions on either side of the first and of the last port; a budget of
seven holds a wave of the narrow plans several times, of the ranges once, and less
than one of a range over two sockets; a deadline of five ticks is longer than the barrier
and the delay together, or not. One relay port is used again at once;
seven ids are more than two nodes and what is under way can hold (`EnoughIds`), so
there is always one for the next session. Two tries are a failed
strategy and another; four commands are a refresh, a call, a stop and something
in between. Deadlock is not checked: clients may all be gone, a handshake or an
attempt may be over, a program closed.

## 4. The proofs

`RegistryProofs` proves `Spec => []IInv` for any set of nodes, sockets,
capabilities and reports, any limits, from the named assumptions of `Registry`
only (node ids are positive numbers, the markers are not values). `IInv` is
`TypeOK` together with what the properties lack to be inductive: a pairing names
a present client; a session id is one already handed out, and a client that
holds one is paired with a client that names it back, holds the same session and
agrees with it; modes are negotiated only under a session; an armed client has
the reports of both. The weight is carried by two facts: sessions are drawn
fresh (`natSessionId < nextNatAttemptId`), so a new pair can share one with
nobody; and the handlers that clear one side are followed by a purge that clears
the other. From it follow `TypeCorrectness`, `SessionsAgree`,
`ReusedPairsAgree`, `BarrierSafe` and `PartnersPresent`.

`PunchHandshakeProofs` proves `Spec => []IInv` for any set of paths and any
number of lives. `PathAgreement` is not inductive: the reason the Receiver may
trust a CONFIRM is that its nonce was on an ACK the Sender of that nonce had
accepted, so the invariant says of every ACK and CONFIRM on the wire where its
nonce can have come from. `PathsAgree`, `SenderIsFirst` and `PathsFixed` (which
no run repeats) follow, and `ImplementsSelection`, the refinement step by step.
Each lemma about a step is of `[PatientNext]_vars`, the steps of `Next` and the
loss of a datagram, so `LossyAgrees` says the same of `PatientSpec`: losing a
datagram takes away what could be received, and takes nobody to another path.

`TunnelEngineProofs` proves `Spec => []IInv` for either front end and any bound.
`AtRest` and `NoRevival` are not inductive: why no callback revives an ended run
is that an active state is told only by the worker, and only before a thread
lives that could end the run (`RisingIsActive`, `TellingAgrees`); why a worker
that is gone has been reported is that a terminal state is either shown or still
to be told by a thread the worker has yet to join (`ShownFollows`). `EndExplained`
needs to know what every path of a run that nobody ended has stored:
whoever clears `running_`, or leaves by a failure, has stored Error first, and
Disconnected is neither stored nor about to be told (`Failing`). `TypeOK` (threads
live inside the worker only) follows as well.

`RegistryStepProofs` proves what a step may never do, again for any nodes and
limits. A turn is a purge, one handler, and the purge and replies that follow.
Each part is shown to spare the couples its sender is not one of, and to register
nobody but the sender, and only where there is room; four turns that write to a
session are told from all others. `PairIsolation`, `ReportChangeDisarms`,
`AttemptAdvancesTogether` and `StartReachesBoth` follow. `CapacityKept` holds
although the set of nodes may be infinite: the invariant adds that the set of
the registered ones is not.

`NatSessionProofs` proves `SecretsMatch`, `PlansMatch` and that `NatSession`
implements `AttemptBarrier`. What two clients hold is spread over the registry,
datagrams under way and the clients, each perhaps of another attempt. The
invariant `LInv` says that there is a *ledger* all of them agree with: for each
attempt handed out its session and the two it was given to, and the report each
of them made for it. The code keeps none; it exists, and is only ever added to, so
what was sent long ago agrees with the ledger of today. The attempts of one
session are of the same two clients, and all but the last were asked to end by
both, which is what the barrier needs. `LossyAgrees` is the same for
`PatientSpec`, and `RegistryServes` carries the promises of `Registry` over to a
registry that serves these clients.

`PunchAttemptProofs` proves `Spec => []IInv` for any NATs, policies, draws and
times. `Quiet` compares two probes of different phases, so the invariant says
what each phase can have sent: nothing before there is a plan, nothing loud
before the barrier, and a low TTL only where the role and the number of the
attempt, which then stay, ask for one. `NothingLeftOpen` is that no stuck socket
is kept; `Paced` is that `nextSend` is an interval past the last batch, for every
outcome of `AfterBatch`. Two more invariants are built on it:

- `PInv`, for `PlansMeet`: the mappings accepted so far are those of the NAT, server
  by server, as late answers are not taken, hence a plan is `BuildPlan` of what the
  two NATs do. What remains is about the functions of `PunchPlan`: the table of modes
  gives the two sides opposite roles, a range contains the port that is
  predicted, and no list has a port twice. For the random walk that takes some
  number theory: a step without a factor in common with the number of ports
  comes back to a port only after all of them (`CoprimeWalk`), so the list is filled
  whatever was drawn (`RandomTargetsFilled`). Its inductions go by the
  least number that is a counterexample (`LeastNumber`, from the library's
  `WFMin`), as the theorems of induction themselves take an operator.
- `WaveInv`, for `WavesWhole`: `n` waves were taken whole, and of one more the probes
  below the cursor; the `n`-th began so late that the time left is not more than
  what the waves left in the budget take, at an interval each. A wave that
  begins, begins before the deadline, so there is one in the budget for it. That
  is where the division in `ComputeNatPunchWaveIntervalMs` must round up.

Two assumptions came with these proofs, both facts of the code: the random ports
end at or before 65535, and no policy asks for more of them than there are
(`nat_punch_plan.cpp:16` and `:201`); a mapping has a port other than 0
(`ParseXorMappedAddress`).

`RelaySessionProofs` proves `Spec => []IInv` for any nodes, ports, ids, restarts
and faults, and any number of sessions. `Isolation` is not about ports, which are
used again: an id is drawn when nobody knows it, a client is offered sessions of the
pair it wants only, and one session at a time is served for a pair. So a process
that is there and has said HELLO for a served session, or is bound to it, holds
its offer (`HellosOK`, `BoundOK`); two sides bound to one session, both in the
tunnel, hold its id as their latest offer and want each other. `Ipv6FallbackProofs` proves, for any network and restarts, that a punch in
flight was sent by a process that the server had told of the endpoint it is aimed
at; `AimedAt` follows. `AInv` is about the timers: of two ends that are in the
tunnel, one that has not heard from the other for an interval of its own has its
keepalive, or the answer to one, on its way, and both are of the processes that
run; `AliveKept` follows for every two intervals and timeouts, since a timeout is
longer than the interval of the same side.

Every invariant named here held in TLC, on the instance of the component's run,
before it was proved. Every safety invariant and action property that a run
checks, and every refinement, is proved for all values of the constants.

Only model-checked: the liveness properties (`PartnerReleased`, `SlotReleased`,
`ReceiverFollows`, `Succeeds`, `RetryReachesPunch`, `BarrierOpens`, `NobodyWaits`,
`TuiRetries`, `Ends`, `LoneTunnelEnds`, `Meets`, `SessionEnds`), which rest on
fairness and `ENABLED`, out of the prover's reach; and the two disagreements.

## 5. Not modelled, and what is left

- parsing and encoding of datagrams and of configuration files, authorization,
  resolution of names: sequential functions of their input without state. Where
  a form of a message matters to the control (STUN attributes and error texts),
  the model has it.
- system calls (TUN and Wintun adapters, sockets, TTL, autostart), settings, GUI,
  TUI and the server's dashboard as far as they only show things, histories,
  logging, utilities: nothing in them waits for, or is read by, another actor.
- packets in the tunnel, statistics, dummy traffic: forwarding changes no state
  the properties speak of. Where a relay would send them is `Reaches`.
- the configured order of the strategies as such: each is modelled alone, with
  what it leaves behind for the next (`ipv6_order`), and the engine takes their
  results in any order. Two clients with different orders or limits wait for each
  other until a deadline passes; the code promises nothing else.
- a path that works in one direction only: the Receiver locks on it and the
  attempt fails by its deadline.

Left for proofs: the safety part of what the liveness properties rest on (which
step is enabled in which state, and what it brings nearer), as far as it can be
said without `ENABLED`.

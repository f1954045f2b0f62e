--------------------------- MODULE AttemptBarrier ---------------------------
(***************************************************************************)
(* What the rendezvous promises two clients that punch together: nobody    *)
(* punches in an attempt before both have armed for it, and nobody leaves  *)
(* an attempt for a later one before both have asked for it.               *)
(***************************************************************************)
EXTENDS Naturals

CONSTANT Clients

VARIABLES
    at,         \* the attempt each client works in; 0 is none yet
    armed,      \* <<client, attempt>>: who has armed for what
    through,    \* <<client, attempt>>: who has passed the barrier of what
    asked       \* <<client, attempt>>: who has asked to leave what

barrier == <<at, armed, through, asked>>

BarrierInit ==
    /\ at = [c \in Clients |-> 0]
    /\ armed = {}
    /\ through = {}
    /\ asked = {}

Enter(c) ==
    /\ at[c] = 0
    /\ at'[c] \in Nat \ {0}
    /\ at' = [at EXCEPT ![c] = at'[c]]
    /\ UNCHANGED <<armed, through, asked>>

Arm(c) ==
    /\ at[c] # 0
    /\ armed' = armed \cup {<<c, at[c]>>}
    /\ UNCHANGED <<at, through, asked>>

\* Two clients share an attempt: the other one is whoever else is in the set.
Both(c, set) ==
    /\ <<c, at[c]>> \in set
    /\ \E d \in Clients \ {c} : <<d, at[c]>> \in set

Pass(c) ==
    /\ Both(c, armed)
    /\ through' = through \cup {<<c, at[c]>>}
    /\ UNCHANGED <<at, armed, asked>>

Ask(c) ==
    /\ at[c] # 0
    /\ asked' = asked \cup {<<c, at[c]>>}
    /\ UNCHANGED <<at, armed, through>>

Advance(c) ==
    /\ Both(c, asked)
    /\ at'[c] > at[c]
    /\ at' = [at EXCEPT ![c] = at'[c]]
    /\ UNCHANGED <<armed, through, asked>>

BarrierNext ==
    \E c \in Clients : Enter(c) \/ Arm(c) \/ Pass(c) \/ Ask(c) \/ Advance(c)

BarrierSpec == BarrierInit /\ [][BarrierNext]_barrier
=============================================================================

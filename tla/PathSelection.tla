---------------------------- MODULE PathSelection ----------------------------
(***************************************************************************)
(* What the punch handshake promises: the sending side selects a path, and *)
(* the receiving side only ever settles on a path that was selected.       *)
(* Either side may leave (its process ends) and select or settle again.    *)
(***************************************************************************)
CONSTANTS
    Paths,
    NoPath      \* no path; not one of Paths

VARIABLES
    chosen,     \* the paths selected so far
    leader,     \* the path the sending side is on, if any
    follower    \* the path the receiving side is on, if any

selection == <<chosen, leader, follower>>

SelectionInit ==
    /\ chosen = {}
    /\ leader = NoPath
    /\ follower = NoPath

Lead(path) ==
    /\ leader = NoPath
    /\ leader' = path
    /\ chosen' = chosen \cup {path}
    /\ UNCHANGED follower

Follow(path) ==
    /\ follower = NoPath
    /\ follower' = path
    /\ UNCHANGED <<chosen, leader>>

LeaderLeaves ==
    /\ leader' = NoPath
    /\ UNCHANGED <<chosen, follower>>

FollowerLeaves ==
    /\ follower' = NoPath
    /\ UNCHANGED <<chosen, leader>>

SelectionNext ==
    \/ \E path \in Paths : Lead(path)
    \/ \E path \in chosen : Follow(path)
    \/ LeaderLeaves
    \/ FollowerLeaves

SelectionSpec == SelectionInit /\ [][SelectionNext]_selection
=============================================================================

----------------------------- MODULE RoundRobin ------------------------------
(***************************************************************************)
(* What the scheduler promises: the tasks stand in a ring, and the         *)
(* processor goes from each to the one behind it, whoever gives it away.   *)
(***************************************************************************)
CONSTANTS Task, None

VARIABLES
    ring,   \* of each task in the ring, the next one; nothing, until it stands
    turn    \* whose turn it is

vars == <<ring, turn>>

\* f goes through all of its domain before it comes back.
Ring(f) ==
    \A S \in SUBSET DOMAIN f :
        S # {} /\ (\A t \in S : f[t] \in S) => S = DOMAIN f

Init == ring \in [{} -> Task] /\ turn = None

Start ==
    /\ DOMAIN ring = {}
    /\ \E S \in SUBSET Task : ring' \in [S -> S] /\ Ring(ring') /\ turn' \in S

Pass ==
    /\ turn \in DOMAIN ring
    /\ turn' = ring[turn]
    /\ UNCHANGED ring

Spec == Init /\ [][Start \/ Pass]_vars
=============================================================================

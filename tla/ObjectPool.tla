----------------------------- MODULE ObjectPool ------------------------------
(***************************************************************************)
(* What kmalloc and kfree promise for one object of a size class: memory   *)
(* that overlaps no other object, and nullptr only when there is no room.  *)
(* A block of pages belongs to one size class as long as it has objects,   *)
(* and perhaps longer: when it is given up is left open.                   *)
(***************************************************************************)
CONSTANTS Block, Cache, Object, None

VARIABLES
    claim,   \* of each block: the size class it belongs to, or None
    live,    \* the objects handed out: pairs <<block, object>>
    asked    \* the size class of the request being served, or None

vars == <<claim, live, asked>>

Unused(b) == {i \in Object : <<b, i>> \notin live}

Init ==
    /\ claim = [b \in Block |-> None]
    /\ live = {}
    /\ asked = None

Ask(c) ==
    /\ asked = None
    /\ asked' = c
    /\ UNCHANGED <<claim, live>>

Claim(b) ==
    /\ asked # None /\ claim[b] = None
    /\ claim' = [claim EXCEPT ![b] = asked]
    /\ UNCHANGED <<live, asked>>

Grant(b) ==
    /\ asked # None /\ claim[b] = asked
    /\ \E i \in Unused(b) : live' = live \union {<<b, i>>}
    /\ asked' = None
    /\ UNCHANGED claim

Refuse ==
    /\ asked # None
    /\ \A b \in Block : claim[b] # None /\ (claim[b] = asked => Unused(b) = {})
    /\ asked' = None
    /\ UNCHANGED <<claim, live>>

\* A block that loses its last object may be given up.
Free(o) ==
    /\ asked = None
    /\ live' = live \ {o}
    /\ \/ UNCHANGED claim
       \/ /\ \A p \in live' : p[1] # o[1]
          /\ claim' = [claim EXCEPT ![o[1]] = None]
    /\ UNCHANGED asked

Next ==
    \/ \E c \in Cache : Ask(c)
    \/ \E b \in Block : Claim(b) \/ Grant(b)
    \/ Refuse
    \/ \E o \in live : Free(o)

Spec == Init /\ [][Next]_vars
=============================================================================

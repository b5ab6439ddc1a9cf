----------------------------- MODULE ListClient ------------------------------
(***************************************************************************)
(* One util::list_base and a client that calls its operations in any order *)
(* its preconditions allow: a node is pushed when the list does not have   *)
(* it, and pop_node is given a node the list has ("List must have obj").   *)
(* The kernel's lists are all used this way, with the one exception that   *)
(* module Slub shows.                                                      *)
(***************************************************************************)
EXTENDS IntrusiveList

CONSTANT Node

ASSUME NodeAssumption == Null \notin Node

VARIABLES
    l,       \* the list: head, tail and every link word
    member,  \* the nodes the client has put in and not taken out
    mode     \* "run", or "fault" once an operation went through null

clientVars == <<l, member, mode>>

ClientInit ==
    /\ l \in [head : {Null}, tail : {Null},
              nxt : [Node -> {Null}], prv : [Node -> {Null}]]
    /\ member = {}
    /\ mode = "run"

\* An operation returns with the list it leaves, or faults and leaves the
\* kernel in its panic loop.
Call(faults, after, memberAfter) ==
    /\ mode = "run"
    /\ IF faults
       THEN mode' = "fault" /\ UNCHANGED <<l, member>>
       ELSE l' = after /\ member' = memberAfter /\ UNCHANGED mode

CallPushFront(n) ==
    /\ n \notin member
    /\ Call(FALSE, PushFront(l, n), member \union {n})

CallPushBack(n) ==
    /\ n \notin member
    /\ Call(FALSE, PushBack(l, n), member \union {n})

CallPopFront ==
    Call(PopFrontFaults(l), PopFront(l), member \ {l.head})

CallPopBack ==
    Call(FALSE, PopBack(l), member \ {l.tail})

CallPopNode(n) ==
    /\ n \in member
    /\ Call(PopNodeFaults(l, n), PopNode(l, n), member \ {n})

Halted == mode = "fault" /\ UNCHANGED clientVars

ClientNext ==
    \/ \E n \in Node : CallPushFront(n) \/ CallPushBack(n) \/ CallPopNode(n)
    \/ CallPopFront
    \/ CallPopBack
    \/ Halted

ClientSpec == ClientInit /\ [][ClientNext]_clientVars

-----------------------------------------------------------------------------
ClientTypeOK ==
    /\ l \in [head : Node \union {Null}, tail : Node \union {Null},
              nxt : [Node -> Node \union {Null}],
              prv : [Node -> Node \union {Null}]]
    /\ member \in SUBSET Node
    /\ mode \in {"run", "fault"}

\* Whatever sequence of calls ran, also one that lost next links: head, tail
\* and the prev links are a list of exactly the members, and a next link
\* that is not null is right.  This is what pop_node and pop_front_node rely
\* on when they unlink a node.
WellFormed == ListInv(l, member)
=============================================================================

---------------------------- MODULE MCListClient -----------------------------
(***************************************************************************)
(* ListClient with the sequence that the prev links spell, which is what   *)
(* the pointers mean.                                                      *)
(***************************************************************************)
EXTENDS ListClient, Integers, FiniteSets, Sequences

ASSUME FiniteAssumption == IsFiniteSet(Node)

\* Whoever goes back from the tail until a prev link is null meets the nodes
\* of q, the last one first.
ReadBack(list, q) ==
    /\ list.tail = IF q = <<>> THEN Null ELSE q[Len(q)]
    /\ \A i \in DOMAIN q : list.prv[q[i]] = IF i = 1 THEN Null ELSE q[i - 1]

\* There is one such sequence, and it has each node once at most.
Readings(list, k) == {q \in [1 .. k -> Node] : ReadBack(list, q)}

Reading(list) ==
    LET length == CHOOSE k \in 0 .. Cardinality(Node) : Readings(list, k) # {}
    IN  CHOOSE q \in Readings(list, length) : TRUE

Backward == Reading(l)

\* The list read from its tail is a double ended queue: every call that
\* returns does to it what push_front, push_back, pop_front, pop_back or
\* pop_node promise, and no call loses or duplicates a node.
Queue == INSTANCE Deque WITH items <- Backward
ActsAsDeque == Queue!Spec
=============================================================================

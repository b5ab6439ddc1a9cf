---------------------------- MODULE IntrusiveList ----------------------------
(***************************************************************************)
(* The intrusive doubly linked list util::list_base of                     *)
(* kernel/lib/include/datastruc/list.h, at the level of its pointers.      *)
(* The buddy allocator keeps its free blocks in it, the slab allocator its *)
(* slabs, the scheduler its tasks, the process table its state queues.     *)
(*                                                                         *)
(* A list value is a record: head and tail are the two members of the      *)
(* class, nxt and prv are the link words of every node there is, in any    *)
(* list or in none, because a link word survives the removal of its node   *)
(* and the code may read it again.                                         *)
(*                                                                         *)
(* An operation that would go through a null pointer does not return: the  *)
(* access faults.  ...Faults tells when; the operator itself is meant to   *)
(* be used only where the fault does not happen.                           *)
(***************************************************************************)
CONSTANT Null

Empty(l) == l.head = Null

\* Mutant: a list of two passes for a list of one.
OrphanOfTwo(l) ==
    l.tail = l.head \/ (l.tail # Null /\ l.prv[l.tail] = l.head)
Orphan(l) == l.tail = l.head

JoinList(l, backpos, afterpos) ==
    [head |-> l.head, tail |-> l.tail,
     nxt  |-> [l.nxt EXCEPT ![backpos] = afterpos],
     prv  |-> [l.prv EXCEPT ![afterpos] = backpos]]

\* The first node of an empty list, whichever end it is pushed at.
Singleton(l, n) ==
    [head |-> n, tail |-> n,
     nxt  |-> [l.nxt EXCEPT ![n] = Null],
     prv  |-> [l.prv EXCEPT ![n] = Null]]

Cleared(l) == [head |-> Null, tail |-> Null, nxt |-> l.nxt, prv |-> l.prv]

\* join_list(n, head), and then the link of n that looks out of the list.
PushFront(l, n) ==
    IF Empty(l)
    THEN Singleton(l, n)
    ELSE [head |-> n, tail |-> l.tail,
          nxt  |-> [l.nxt EXCEPT ![n] = l.head],
          prv  |-> [l.prv EXCEPT ![l.head] = n, ![n] = Null]]

PushBack(l, n) ==
    IF Empty(l)
    THEN Singleton(l, n)
    ELSE [head |-> l.head, tail |-> n,
          nxt  |-> [l.nxt EXCEPT ![l.tail] = n, ![n] = Null],
          prv  |-> [l.prv EXCEPT ![n] = l.tail]]

PopFrontFaults(l) == ~Empty(l) /\ ~Orphan(l) /\ l.nxt[l.head] = Null

\* Mutant: the prev link of the new head is not cleared.
PopFrontKeepsPrev(l) ==
    IF ~Empty(l) /\ ~Orphan(l)
    THEN [head |-> l.nxt[l.head], tail |-> l.tail,
          nxt  |-> l.nxt, prv |-> l.prv]
    ELSE Cleared(l)
PopFront(l) ==
    IF ~Empty(l) /\ ~Orphan(l)
    THEN [head |-> l.nxt[l.head], tail |-> l.tail,
          nxt  |-> l.nxt,
          prv  |-> [l.prv EXCEPT ![l.nxt[l.head]] = Null]]
    ELSE Cleared(l)

\* pop_back_node moves tail one node back and then clears the next link of
\* the HEAD, as the source does.
PopBack(l) ==
    IF ~Empty(l) /\ ~Orphan(l)
    THEN [head |-> l.head, tail |-> l.prv[l.tail],
          nxt  |-> [l.nxt EXCEPT ![l.head] = Null],
          prv  |-> l.prv]
    ELSE Cleared(l)

PopNodeFaults(l, n) ==
    \/ n = l.head /\ PopFrontFaults(l)
    \/ n # l.head /\ n # l.tail /\ (l.prv[n] = Null \/ l.nxt[n] = Null)

PopNode(l, n) ==
    IF n = l.head THEN PopFront(l)
    ELSE IF n = l.tail THEN PopBack(l)
    ELSE JoinList(l, l.prv[n], l.nxt[n])

-----------------------------------------------------------------------------
(***************************************************************************)
(* What the pointers of a list always satisfy, S being its members.  The   *)
(* prev links are the list read backwards.  A next link is either the      *)
(* inverse of a prev link or null: pop_back_node really does lose next     *)
(* links, so nothing stronger is true of them.                             *)
(***************************************************************************)
ListInv(l, S) ==
    /\ l.head = Null <=> l.tail = Null
    /\ l.head # Null => l.head \in S /\ l.tail \in S /\ l.prv[l.head] = Null
    /\ \A n \in S : n # l.head => l.prv[n] \in S \ {l.tail}
    /\ \A m, n \in S : /\ m # l.head /\ n # l.head
                       /\ l.prv[m] = l.prv[n]
                       => m = n
    /\ \A n \in S : n # l.tail =>
          \/ l.nxt[n] = Null
          \/ l.nxt[n] \in S \ {l.head} /\ l.prv[l.nxt[n]] = n

\* Whoever goes back along the prev links comes to the head: no members form
\* a circle of their own, so an empty list has no members.
Rooted(l, S) ==
    \A U \in SUBSET S :
        U # {} /\ (\A n \in U \ {l.head} : l.prv[n] \in U) => l.head \in U

\* A list whose next links lead from every member to the tail, and from the
\* head to every member.  ListInv does not say so: links that are lost or go
\* in a circle behind the head satisfy it.  It stays true as long as
\* pop_back_node takes no tail off three nodes or more.
Chained(l, S) ==
    /\ \A n \in S \ {l.tail} : l.nxt[n] \in S
    /\ \A U \in SUBSET S : (\A n \in U \ {l.tail} : l.nxt[n] \in U) =>
          /\ U # {} => l.tail \in U
          /\ l.head \in U => U = S
=============================================================================

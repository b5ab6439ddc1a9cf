------------------------------- MODULE MCSlub --------------------------------
(***************************************************************************)
(* Slub for TLC, with the properties that count and follow chains.         *)
(***************************************************************************)
EXTENDS Slub

Slabs == {s \in Slab : flag[s] = "slab"}
LiveOf(s) == {i \in Object : <<s, i>> \in live}

(***************************************************************************)
(* TLC may treat two states as one when they differ only in words nothing  *)
(* reads before it is written again: the first word of an object that is   *)
(* handed out (it is the owner's; PutObject writes it), and the fields of  *)
(* a block that is not a slab (NewSlab writes them).                       *)
(***************************************************************************)
View ==
    <<flag, lists, pc, IF pc = "alloc" THEN want ELSE Null, hist,
      [s \in Slabs |-> <<owner[s], in_use[s], free[s],
                         [i \in Object \ LiveOf(s) |-> cell[s][i]]>>]>>

\* From free_offset the words lead through every object of a slab that is not
\* handed out, once, and no further.
NoObjectLost ==
    \A s \in Slabs :
        LET rest == Object \ LiveOf(s)
            n == Cardinality(rest)
        IN  \E q \in [1 .. n -> rest] :
                /\ \A j, k \in 1 .. n : q[j] = q[k] => j = k
                /\ free[s] = IF n = 0 THEN Null ELSE q[1]
                /\ \A k \in 1 .. n : cell[s][q[k]] = IF k = n THEN Null ELSE q[k + 1]

\* in_use counts the objects handed out until the slab is retired for the
\* first time.  Retiring sets it to in_use_max, and from then on it is that
\* much too high: it never comes down to zero again.
InUseExact ==
    \A s \in Slabs :
        in_use[s] = Cardinality(LiveOf(s))
                    + (IF s \in retired THEN InUseMax - Objects ELSE 0)

\* The free list threaded through a slab and its counter (slub.cpp:6-43) tell
\* the same objects apart, whichever was handed out or given back last.
ObjectsAccounted == NoObjectLost /\ InUseExact

Pool == INSTANCE ObjectPool WITH
    Block <- Slab,
    None  <- Null,
    claim <- [s \in Slab |-> IF flag[s] = "slab" THEN owner[s] ELSE Null],
    asked <- IF pc = "alloc" THEN want ELSE Null
ImplementsObjectPool == Pool!Spec

\* An access can only fault when an object of an exhausted slab is freed: the
\* slab that KfreeLast takes off partial is always the front one, so that
\* list never loses a link, and alloc and every other free run through.
OnlyExhaustedFaults ==
    [][ pc' = "fault" /\ pc # "fault" =>
            \E o \in live \ live' : Exhausted(o[1]) ]_vars

\* list.h:124, "List must have obj": the slab that free() takes off full
\* (slub.cpp:82-86) is on it.
ListMustHaveObj ==
    [][ \A o \in live \ live' : Exhausted(o[1]) => o[1] \in onfull ]_vars

\* A bound on the calls alloc still makes of itself.
CallsLeft ==
    IF pc # "alloc" THEN 0
    ELSE IF Empty(Partial) THEN 2
    ELSE IF Exhausted(FrontSlab) THEN 2 + Cardinality(On(want, "partial"))
    ELSE 1

\* alloc, which calls itself after it retired a slab and after it made one,
\* comes nearer to its return each time.
AllocEnds == [][ (pc = "alloc") => CallsLeft' < CallsLeft ]_vars
=============================================================================

-------------------------------- MODULE Slub ---------------------------------
(***************************************************************************)
(* memory::SlubAllocator (kernel/src/memory/slub.cpp): objects of one size *)
(* cut from blocks of pages.  kmalloc (mm.cpp) has one allocator per size  *)
(* class; all of them take their blocks from the page allocator.           *)
(*                                                                         *)
(* Every size class asks for 128 objects a block and gets them exactly:    *)
(* the sizes are powers of two.  An object is its number in its slab; its  *)
(* first word, while it is free, holds the number of the next free one.    *)
(* The page allocator is the promise of module BlockAllocator: a block     *)
(* nobody uses, or none if there is none left.                             *)
(***************************************************************************)
EXTENDS Integers, FiniteSets, IntrusiveList

CONSTANTS
    Slab,      \* the blocks of pages, as slabs: SlubBlock pointers
    Cache,     \* the size classes: memory::slubs
    Objects,   \* how many objects a slab has
    InUseMax   \* in_use_max, the largest value of the 16 bit counter

ASSUME SlubAssumption ==
    /\ Null \notin Slab \union Nat \union Cache
    /\ IsFiniteSet(Slab)
    /\ Objects \in Nat \ {0}
    /\ InUseMax \in Nat /\ Objects < InUseMax

Object == 0 .. Objects - 1

VARIABLES
    flag,          \* of each block: "free" or "slab"
    owner,         \* of each slab: its SlubAllocator
    in_use, free,  \* of each slab: in_use and free_offset
    cell,          \* the first word of each object
    nxt, prv,      \* of each slab: next_block and prev_block
    head, tail,    \* of each size class: its lists "partial" and "full"
    pc,            \* "idle", "alloc" or "fault"
    want,          \* the size class alloc() is running for
    live,          \* history: the objects handed out
    onfull,        \* history: the slabs that are on a list full
    retired        \* history: the slabs that have been on it

slabs == <<flag, owner, in_use, free, cell>>
lists == <<nxt, prv, head, tail>>
hist  == <<live, onfull, retired>>
vars  == <<slabs, lists, pc, want, hist>>

-----------------------------------------------------------------------------
Which == {"partial", "full"}

List(c, w) == [head |-> head[c][w], tail |-> tail[c][w], nxt |-> nxt, prv |-> prv]

\* After these changes of links the list w of class c is a, and the list v of
\* the same class is b, which knows of the changes to a.
SetLists(c, w, a, v, b) ==
    /\ head' = [head EXCEPT ![c][w] = a.head, ![c][v] = b.head]
    /\ tail' = [tail EXCEPT ![c][w] = a.tail, ![c][v] = b.tail]
    /\ nxt' = b.nxt
    /\ prv' = b.prv

SetList(c, w, a) ==
    /\ head' = [head EXCEPT ![c][w] = a.head]
    /\ tail' = [tail EXCEPT ![c][w] = a.tail]
    /\ nxt' = a.nxt
    /\ prv' = a.prv

\* The list v of class c when the links are already those of a.
With(a, c, v) ==
    [head |-> head[c][v], tail |-> tail[c][v], nxt |-> a.nxt, prv |-> a.prv]

Exhausted(s) == free[s] = Null

\* ++ and -- of the counter, which wraps.
Up(n)   == IF n = InUseMax THEN 0 ELSE n + 1
Down(n) == IF n = 0 THEN InUseMax ELSE n - 1

-----------------------------------------------------------------------------
Init ==
    /\ flag = [s \in Slab |-> "free"]
    /\ owner \in [Slab -> Cache]
    /\ \A s, t \in Slab : owner[s] = owner[t]
    /\ in_use = [s \in Slab |-> 0]
    /\ free = [s \in Slab |-> 0]
    /\ cell = [s \in Slab |-> [i \in Object |-> Null]]
    /\ nxt = [s \in Slab |-> Null]
    /\ prv = [s \in Slab |-> Null]
    /\ head = [c \in Cache |-> [w \in Which |-> Null]]
    /\ tail = [c \in Cache |-> [w \in Which |-> Null]]
    /\ pc = "idle"
    /\ want \in Cache
    /\ live = {} /\ onfull = {} /\ retired = {}

\* kmalloc, having chosen the size class.
Kmalloc(c) ==
    /\ pc = "idle"
    /\ pc' = "alloc" /\ want' = c
    /\ UNCHANGED <<slabs, lists, hist>>

Partial == List(want, "partial")
FrontSlab == head[want]["partial"]

\* Mutant: the object is not counted.
TakeUncounted ==
    /\ pc = "alloc" /\ ~Empty(Partial) /\ ~Exhausted(FrontSlab)
    /\ live' = live \union {<<FrontSlab, free[FrontSlab]>>}
    /\ free' = [free EXCEPT ![FrontSlab] = cell[FrontSlab][free[FrontSlab]]]
    /\ pc' = "idle"
    /\ UNCHANGED <<flag, owner, in_use, cell, lists, want, onfull, retired>>

\* alloc_in_oneblock for the front slab of partial.
TakeObject ==
    /\ pc = "alloc" /\ ~Empty(Partial) /\ ~Exhausted(FrontSlab)
    /\ live' = live \union {<<FrontSlab, free[FrontSlab]>>}
    /\ free' = [free EXCEPT ![FrontSlab] = cell[FrontSlab][free[FrontSlab]]]
    /\ in_use' = [in_use EXCEPT ![FrontSlab] = Up(in_use[FrontSlab])]
    /\ pc' = "idle"
    /\ UNCHANGED <<flag, owner, cell, lists, want, onfull, retired>>

\* Mutant: the slab goes to the back of partial.
RetireToPartial ==
    /\ pc = "alloc" /\ ~Empty(Partial) /\ Exhausted(FrontSlab)
    /\ IF PopFrontFaults(Partial)
       THEN pc' = "fault" /\ UNCHANGED <<in_use, lists>>
       ELSE /\ SetList(want, "partial", PushBack(PopFront(Partial), FrontSlab))
            /\ in_use' = [in_use EXCEPT ![FrontSlab] = InUseMax]
            /\ UNCHANGED pc
    /\ UNCHANGED <<flag, owner, free, cell, want, hist>>

\* The front slab has no object left: it goes to full, and alloc calls itself.
Retire ==
    /\ pc = "alloc" /\ ~Empty(Partial) /\ Exhausted(FrontSlab)
    /\ IF PopFrontFaults(Partial)
       THEN pc' = "fault" /\ UNCHANGED <<in_use, lists, onfull, retired>>
       ELSE /\ LET p == PopFront(Partial)
               IN  SetLists(want, "partial", p,
                            "full", PushBack(With(p, want, "full"), FrontSlab))
            /\ in_use' = [in_use EXCEPT ![FrontSlab] = InUseMax]
            /\ onfull' = onfull \union {FrontSlab}
            /\ retired' = retired \union {FrontSlab}
            /\ UNCHANGED pc
    /\ UNCHANGED <<flag, owner, free, cell, want, live>>

\* alloc_pages, make_slabs, and alloc calls itself.  make_slabs leaves in_use
\* and free_offset alone: they are zero because they lie over the prev link
\* of the free block, which is null (FreshHeader of module Buddy).
NewSlab(s) ==
    /\ pc = "alloc" /\ Empty(Partial)
    /\ flag[s] = "free"
    /\ flag' = [flag EXCEPT ![s] = "slab"]
    /\ owner' = [owner EXCEPT ![s] = want]
    /\ in_use' = [in_use EXCEPT ![s] = 0]
    /\ free' = [free EXCEPT ![s] = 0]
    /\ cell' = [cell EXCEPT ![s] =
                   [i \in Object |-> IF i = Objects - 1 THEN Null ELSE i + 1]]
    /\ SetList(want, "partial", PushFront(Partial, s))
    /\ UNCHANGED <<pc, want, hist>>

\* Mutant: alloc gives up when its slabs are used up.
NoPagesEarly ==
    /\ pc = "alloc" /\ Empty(Partial)
    /\ pc' = "idle"
    /\ UNCHANGED <<slabs, lists, want, hist>>

\* alloc_pages returns nullptr.
NoPages ==
    /\ pc = "alloc" /\ Empty(Partial)
    /\ \A s \in Slab : flag[s] # "free"
    /\ pc' = "idle"
    /\ UNCHANGED <<slabs, lists, want, hist>>

-----------------------------------------------------------------------------
\* free_in_oneblock.
PutObject(s, i) ==
    /\ cell' = [cell EXCEPT ![s][i] = free[s]]
    /\ free' = [free EXCEPT ![s] = i]
    /\ in_use' = [in_use EXCEPT ![s] = Down(in_use[s])]

\* kfree of an object, in free() of the slab's allocator.
Kfree(s, i) ==
    /\ pc = "idle"
    /\ <<s, i>> \in live
    /\ live' = live \ {<<s, i>>}
    /\ UNCHANGED <<owner, want, retired>>

\* Mutants: the slab is not taken off full; it goes to the front of partial.
KfreeExhaustedStays(s, i) ==
    /\ Exhausted(s)
    /\ Kfree(s, i)
    /\ PutObject(s, i)
    /\ SetList(owner[s], "partial", PushBack(List(owner[s], "partial"), s))
    /\ onfull' = onfull \ {s}
    /\ UNCHANGED <<flag, pc>>
KfreeExhaustedFront(s, i) ==
    /\ Exhausted(s)
    /\ Kfree(s, i)
    /\ PutObject(s, i)
    /\ LET full == List(owner[s], "full")
           f == PopNode(full, s)
       IN  IF PopNodeFaults(full, s)
           THEN pc' = "fault" /\ UNCHANGED <<lists, onfull>>
           ELSE /\ SetLists(owner[s], "full", f,
                            "partial", PushFront(With(f, owner[s], "partial"), s))
                /\ onfull' = onfull \ {s}
                /\ UNCHANGED pc
    /\ UNCHANGED flag

\* The slab had no free object: it is taken off full, without a look at
\* whether it is there, and goes to the back of partial.
KfreeExhausted(s, i) ==
    /\ Exhausted(s)
    /\ Kfree(s, i)
    /\ PutObject(s, i)
    /\ LET full == List(owner[s], "full")
           f == PopNode(full, s)
       IN  IF PopNodeFaults(full, s)
           THEN pc' = "fault" /\ UNCHANGED <<lists, onfull>>
           ELSE /\ SetLists(owner[s], "full", f,
                            "partial", PushBack(With(f, owner[s], "partial"), s))
                /\ onfull' = onfull \ {s}
                /\ UNCHANGED pc
    /\ UNCHANGED flag

\* The slab is on partial and stays there.
KfreePartial(s, i) ==
    /\ ~Exhausted(s) /\ Down(in_use[s]) # 0
    /\ Kfree(s, i)
    /\ PutObject(s, i)
    /\ UNCHANGED <<flag, lists, pc, onfull>>

\* in_use is down to zero: the block goes back to the page allocator.
KfreeLast(s, i) ==
    /\ ~Exhausted(s) /\ Down(in_use[s]) = 0
    /\ Kfree(s, i)
    /\ PutObject(s, i)
    /\ LET partial == List(owner[s], "partial")
       IN  IF PopNodeFaults(partial, s)
           THEN pc' = "fault" /\ UNCHANGED <<flag, lists>>
           ELSE /\ SetList(owner[s], "partial", PopNode(partial, s))
                /\ flag' = [flag EXCEPT ![s] = "free"]
                /\ UNCHANGED pc
    /\ UNCHANGED onfull

Halted == pc = "fault" /\ UNCHANGED vars

AllocStep ==
    \/ TakeObject
    \/ Retire
    \/ \E s \in Slab : NewSlab(s)
    \/ NoPages

Next ==
    \/ \E c \in Cache : Kmalloc(c)
    \/ AllocStep
    \/ \E o \in live : \/ KfreeExhausted(o[1], o[2])
                       \/ KfreePartial(o[1], o[2])
                       \/ KfreeLast(o[1], o[2])
    \/ Halted

Spec == Init /\ [][Next]_vars

-----------------------------------------------------------------------------
InUse == 0 .. InUseMax

TypeOK ==
    /\ flag \in [Slab -> {"free", "slab"}]
    /\ owner \in [Slab -> Cache]
    /\ in_use \in [Slab -> InUse]
    /\ free \in [Slab -> Object \union {Null}]
    /\ cell \in [Slab -> [Object -> Object \union {Null}]]
    /\ nxt \in [Slab -> Slab \union {Null}]
    /\ prv \in [Slab -> Slab \union {Null}]
    /\ head \in [Cache -> [Which -> Slab \union {Null}]]
    /\ tail \in [Cache -> [Which -> Slab \union {Null}]]
    /\ pc \in {"idle", "alloc", "fault"}
    /\ want \in Cache
    /\ live \subseteq Slab \X Object
    /\ onfull \in SUBSET Slab
    /\ retired \in SUBSET Slab

\* The slabs that belong on the list w of class c.
On(c, w) ==
    {s \in Slab : flag[s] = "slab" /\ owner[s] = c /\ (s \in onfull <=> w = "full")}

\* Until an access faults, the two lists of each size class hold the slabs
\* of that class, each on one of them: lists that share their link words
\* and move slabs from one to the other stay apart.
SlabLists ==
    pc # "fault" => \A c \in Cache, w \in Which : ListInv(List(c, w), On(c, w))

\* The object a slab would hand out next is one that nobody has.
NextObjectUnused ==
    \A s \in Slab : flag[s] = "slab" /\ ~Exhausted(s) => <<s, free[s]>> \notin live

-----------------------------------------------------------------------------
(***************************************************************************)
(* The inductive invariant behind both.                                    *)
(***************************************************************************)

FreeObjects(s) == {i \in Object : <<s, i>> \notin live}

\* What in_use of a slab was set to when it had no free object.
Ceiling(s) == IF s \in retired THEN InUseMax ELSE Objects

\* The n free objects of s in the order of its free list, q.
FreeList(s, n, q) ==
    /\ \A k \in 1 .. n : q[k] \in FreeObjects(s)
    /\ \A i \in FreeObjects(s) : \E k \in 1 .. n : q[k] = i
    /\ \A j, k \in 1 .. n : q[j] = q[k] => j = k
    /\ free[s] = IF n = 0 THEN Null ELSE q[1]
    /\ \A k \in 1 .. n : cell[s][q[k]] = IF k = n THEN Null ELSE q[k + 1]
    /\ in_use[s] = Ceiling(s) - n

FreeLists ==
    \A s \in Slab : flag[s] = "slab" =>
        \E n \in 0 .. Objects : \E q \in [1 .. n -> Object] : FreeList(s, n, q)

\* No object outlives its slab, and what is written down about full slabs.
InSlabs ==
    /\ \A o \in live : flag[o[1]] = "slab"
    /\ \A s \in retired : flag[s] = "slab"
    /\ onfull \subseteq retired

\* A slab with no free object is on full or is the front of partial.
ExhaustedPlace ==
    pc # "fault" =>
        \A s \in Slab :
            /\ s \in onfull => Exhausted(s)
            /\ flag[s] = "slab" /\ Exhausted(s) /\ s \notin onfull
                  => head[owner[s]]["partial"] = s

IInv ==
    /\ TypeOK
    /\ SlabLists
    /\ FreeLists
    /\ InSlabs
    /\ ExhaustedPlace

\* No link of a list partial is lost, and a slab that was never on full is the
\* front: it joined the list when that was empty, all others at the back.
PartialSound(c) ==
    /\ Chained(List(c, "partial"), On(c, "partial"))
    /\ \A s \in On(c, "partial") \ retired : s = head[c]["partial"]

PartialInv == pc # "fault" => \A c \in Cache : PartialSound(c)
=============================================================================

-------------------------------- MODULE Buddy --------------------------------
(***************************************************************************)
(* memory::BuddyAllocator (kernel/src/memory/buddy.cpp), the page          *)
(* descriptors it keeps its state in (kernel/include/memory/pageframe.h)   *)
(* and makeBuddy of kernel/src/memory/mm.cpp, which gives it its memory.   *)
(*                                                                         *)
(* A page descriptor is its index in the table pd_base points at.  The two *)
(* recursions of the code are loops here, one action per level:            *)
(* allocateWithOrder goes up through empty lists (Climb) and comes back    *)
(* down (Split); deallocateBlock and tryMergeAndGet call each other        *)
(* (Merge).  The kernel calls the allocator from one flow of control at a  *)
(* time, so nothing else runs between the levels.                          *)
(***************************************************************************)
EXTENDS Integers, IntrusiveList

CONSTANTS
    MaxOrder,  \* BuddyAllocator::MaxOrder
    Span,      \* Span[k]: the pages of a block of order k, 1 << k
    Tops,      \* how many blocks of the largest order memory consists of
    PageType,  \* what a caller may ask pages for: pt_kernel, pt_slab, ...
    Scribble   \* what an owner may leave where a free block has its links

\* Span is 1 << k: it doubles from order to order, so every size divides the
\* largest.
ASSUME SpanAssumption ==
    /\ MaxOrder \in Nat
    /\ Span \in [0 .. MaxOrder -> Nat \ {0}]
    /\ Span[0] = 1
    /\ \A k \in 0 .. MaxOrder :
          /\ k # MaxOrder => Span[k + 1] = 2 * Span[k]
          /\ \E q \in 1 .. Span[MaxOrder] : Span[MaxOrder] = q * Span[k]

ASSUME MemoryAssumption ==
    /\ Tops \in Nat
    /\ Null \notin Nat
    /\ PageType \intersect {"free", "tails", "reserved", "raw"} = {}

Order == 0 .. MaxOrder
Page  == 0 .. (Tops * Span[MaxOrder] - 1)
Flag  == PageType \union {"free", "tails", "reserved", "raw"}

Cells(n, k) == n .. (n + Span[k] - 1)

VARIABLES
    flag, ord,   \* of each descriptor: flags() and orders()
    nxt, prv,    \* of each descriptor: the FreeBlock links
    head, tail,  \* of each order: the ends of freelist[order]
    count,       \* of each order: count[order]
    pc,          \* "boot", "idle", "climb", "split", "merge" or "fault"
    req, type,   \* the arguments of the allocateWithOrder being served
    lvl,         \* the order at which allocateWithOrder is looking
    blk,         \* ptr, big or b: the block in hand
    booted,      \* how many blocks makeBuddy has gone over
    live         \* history: the blocks handed out, <<first page, order>>

descriptors == <<flag, ord, nxt, prv>>
lists == <<head, tail, count>>
call  == <<req, type, lvl>>
vars  == <<descriptors, lists, pc, call, blk, booted, live>>

-----------------------------------------------------------------------------
FreeList(k) == [head |-> head[k], tail |-> tail[k], nxt |-> nxt, prv |-> prv]

\* freelist[k] and the link words become those of the list l, while the
\* number of free blocks becomes c.
SetFreeList(k, l, c) ==
    /\ head'  = [head EXCEPT ![k] = l.head]
    /\ tail'  = [tail EXCEPT ![k] = l.tail]
    /\ count' = [count EXCEPT ![k] = c]
    /\ nxt' = l.nxt
    /\ prv' = l.prv

\* buddyof flips bit k of the index, get_primary takes the bitwise and of
\* two indices that differ in one bit.
BuddyOf(n, k) ==
    IF (n \div Span[k]) % 2 = 0 THEN n + Span[k] ELSE n - Span[k]
Primary(m, n) == IF m < n THEN m ELSE n

\* The locals of a call that has returned are gone.
Return == pc' = "idle" /\ req' = 0 /\ lvl' = 0 /\ blk' = Null

\* An access through null does not return: the page fault handler prints a
\* message and loops for ever.
Fault ==
    /\ pc' = "fault"
    /\ UNCHANGED <<descriptors, lists, call, blk, booted, live>>

-----------------------------------------------------------------------------
Init ==
    /\ flag  = [n \in Page |-> "raw"]
    /\ ord   = [n \in Page |-> 0]
    /\ nxt   = [n \in Page |-> Null]
    /\ prv   = [n \in Page |-> Null]
    /\ head  = [k \in Order |-> Null]
    /\ tail  = [k \in Order |-> Null]
    /\ count = [k \in Order |-> 0]
    /\ pc = "boot"
    /\ req = 0 /\ lvl = 0 /\ type \in PageType
    /\ blk = Null
    /\ booted = 0
    /\ live = {}

\* Mutant: the loop over the tails ends one page early.
MarkPagesShort(n, f, k) ==
    /\ flag' = [m \in Page |-> IF m = n THEN f
                               ELSE IF m \in n .. n + Span[k] - 2 THEN "tails"
                               ELSE flag[m]]
    /\ ord' = [ord EXCEPT ![n] = k]

\* mark_pages.
MarkPages(n, f, k) ==
    /\ flag' = [m \in Page |-> IF m = n THEN f
                               ELSE IF m \in Cells(n, k) THEN "tails"
                               ELSE flag[m]]
    /\ ord' = [ord EXCEPT ![n] = k]

\* One turn of makeBuddy's loop: the next 2 MB are free memory or not.
Boot ==
    /\ pc = "boot" /\ booted < Tops
    /\ LET n == booted * Span[MaxOrder]
       IN  \/ /\ MarkPages(n, "free", MaxOrder)
              /\ SetFreeList(MaxOrder, PushBack(FreeList(MaxOrder), n),
                             count[MaxOrder] + 1)
           \/ /\ MarkPages(n, "reserved", MaxOrder)
              /\ UNCHANGED <<nxt, prv, lists>>
    /\ booted' = booted + 1
    /\ UNCHANGED <<pc, call, blk, live>>

BootDone ==
    /\ pc = "boot" /\ booted = Tops
    /\ pc' = "idle"
    /\ UNCHANGED <<descriptors, lists, call, blk, booted, live>>

-----------------------------------------------------------------------------
(* allocateWithOrder: req and type are the caller's arguments, lvl the     *)
(* order the innermost instance has reached.                               *)

Alloc(k, t) ==
    /\ pc = "idle"
    /\ pc' = "climb"
    /\ req' = k /\ lvl' = k /\ type' = t
    /\ UNCHANGED <<descriptors, lists, blk, booted, live>>

\* The instance of allocateWithOrder that looks for order k has the block n
\* and returns it to its caller, which is the user or the instance for k - 1.
HandOver(n, k) ==
    IF k = req
    THEN live' = live \union {<<n, k>>} /\ Return
    ELSE /\ pc' = "split" /\ lvl' = k /\ blk' = n
         /\ UNCHANGED <<req, live>>

\* Every instance but the outermost was called with pt_free.
MarkAs(k) == IF k = req THEN type ELSE "free"

\* Mutant: the largest order is refused.
ClimbFailsEarly ==
    /\ pc = "climb" /\ lvl >= MaxOrder
    /\ Return
    /\ UNCHANGED <<descriptors, lists, type, booted, live>>

\* order > MaxOrder: nullptr goes back through every instance.
ClimbFails ==
    /\ pc = "climb" /\ lvl > MaxOrder
    /\ Return
    /\ UNCHANGED <<descriptors, lists, type, booted, live>>

\* The list is empty: the call for the next order.
ClimbOn ==
    /\ pc = "climb" /\ lvl <= MaxOrder /\ Empty(FreeList(lvl))
    /\ lvl' = lvl + 1
    /\ UNCHANGED <<descriptors, lists, pc, req, type, blk, booted, live>>

\* Mutant: the block comes from the back of the list.
TakeFromBack ==
    /\ pc = "climb" /\ lvl <= MaxOrder /\ ~Empty(FreeList(lvl))
    /\ SetFreeList(lvl, PopBack(FreeList(lvl)), count[lvl] - 1)
    /\ flag' = [flag EXCEPT ![tail[lvl]] = MarkAs(lvl)]
    /\ ord' = [ord EXCEPT ![tail[lvl]] = lvl]
    /\ HandOver(tail[lvl], lvl)
    /\ UNCHANGED <<type, booted>>
Take ==
    /\ pc = "climb" /\ lvl <= MaxOrder /\ ~Empty(FreeList(lvl))
    /\ IF PopFrontFaults(FreeList(lvl))
       THEN Fault
       ELSE /\ SetFreeList(lvl, PopFront(FreeList(lvl)), count[lvl] - 1)
            /\ flag' = [flag EXCEPT ![head[lvl]] = MarkAs(lvl)]
            /\ ord' = [ord EXCEPT ![head[lvl]] = lvl]
            /\ HandOver(head[lvl], lvl)
            /\ UNCHANGED <<type, booted>>

\* splitBlock, and the rest of the instance that called it.
Split ==
    /\ pc = "split"
    /\ LET k == ord[blk] - 1
           buddy == BuddyOf(blk, k)
       IN  /\ SetFreeList(k, PushBack(FreeList(k), buddy), count[k] + 1)
           /\ flag' = [flag EXCEPT ![buddy] = "free", ![blk] = MarkAs(k)]
           /\ ord' = [ord EXCEPT ![buddy] = k, ![blk] = k]
           /\ HandOver(blk, k)
    /\ UNCHANGED <<type, booted>>

-----------------------------------------------------------------------------
(* deallocateBlock and tryMergeAndGet. *)

\* Mutant: the block is not marked free.
FreeUnmarked(n, k, x, y) ==
    /\ pc = "idle"
    /\ <<n, k>> \in live
    /\ live' = live \ {<<n, k>>}
    /\ nxt' = [nxt EXCEPT ![n] = x]
    /\ prv' = [prv EXCEPT ![n] = y]
    /\ blk' = n
    /\ pc' = "merge"
    /\ UNCHANGED <<flag, ord, lists, call, booted>>

\* The owner gives back a block.  The words of the links are whatever the
\* owner made of them: a slab keeps its own fields there.
Free(n, k, x, y) ==
    /\ pc = "idle"
    /\ <<n, k>> \in live
    /\ live' = live \ {<<n, k>>}
    /\ flag' = [flag EXCEPT ![n] = "free"]
    /\ nxt' = [nxt EXCEPT ![n] = x]
    /\ prv' = [prv EXCEPT ![n] = y]
    /\ blk' = n
    /\ pc' = "merge"
    /\ UNCHANGED <<ord, lists, call, booted>>

\* Mutants: blocks merge one order less, a buddy that is free in parts is taken
\* for free.
MergeableBelow(n, k) ==
    /\ k < MaxOrder - 1
    /\ flag[BuddyOf(n, k)] = "free"
    /\ ord[BuddyOf(n, k)] = k
MergeableAnyOrder(n, k) ==
    /\ k < MaxOrder
    /\ flag[BuddyOf(n, k)] = "free"
Mergeable(n, k) ==
    /\ k < MaxOrder
    /\ flag[BuddyOf(n, k)] = "free"
    /\ ord[BuddyOf(n, k)] = k

\* tryMergeAndGet when the buddy is free, up to the deallocateBlock it calls.
Merge ==
    /\ pc = "merge"
    /\ LET k == ord[blk]
           buddy == BuddyOf(blk, k)
           big == Primary(blk, buddy)
       IN  /\ Mergeable(blk, k)
           /\ IF PopNodeFaults(FreeList(k), buddy)
              THEN Fault
              ELSE /\ SetFreeList(k, PopNode(FreeList(k), buddy), count[k] - 1)
                   /\ flag' = [flag EXCEPT ![BuddyOf(big, k)] = "tails",
                                           ![big] = "free"]
                   /\ ord' = [ord EXCEPT ![big] = k + 1]
                   /\ blk' = big
                   /\ UNCHANGED <<pc, call, booted, live>>

\* tryMergeAndGet when it is not.
Keep ==
    /\ pc = "merge"
    /\ LET k == ord[blk]
       IN  /\ ~Mergeable(blk, k)
           /\ SetFreeList(k, PushFront(FreeList(k), blk), count[k] + 1)
    /\ Return
    /\ UNCHANGED <<flag, ord, type, booted, live>>

Halted == pc = "fault" /\ UNCHANGED vars

AllocStep == ClimbFails \/ ClimbOn \/ Take \/ Split
FreeStep == Merge \/ Keep
Step == Boot \/ BootDone \/ AllocStep \/ FreeStep

Next ==
    \/ Step
    \/ \E k \in 0 .. MaxOrder + 1, t \in PageType : Alloc(k, t)
    \/ \E b \in live, x, y \in Scribble : Free(b[1], b[2], x, y)
    \/ Halted

Spec == Init /\ [][Next]_vars

-----------------------------------------------------------------------------
TypeOK ==
    /\ flag \in [Page -> Flag]
    /\ ord \in [Page -> Order]
    /\ nxt \in [Page -> Page \union {Null} \union Scribble]
    /\ prv \in [Page -> Page \union {Null} \union Scribble]
    /\ head \in [Order -> Page \union {Null}]
    /\ tail \in [Order -> Page \union {Null}]
    /\ count \in [Order -> Int]
    /\ pc \in {"boot", "idle", "climb", "split", "merge", "fault"}
    /\ req \in 0 .. MaxOrder + 1
    /\ lvl \in 0 .. MaxOrder + 1
    /\ type \in PageType
    /\ blk \in Page \union {Null}
    /\ booted \in 0 .. Tops
    /\ live \subseteq Page \X Order

\* The block a running call has taken off its list and not yet put on one.
InHand == {blk} \ {Null}

\* The free blocks of order k, as the descriptors tell them.
FreeOf(k) == {n \in Page : flag[n] = "free" /\ ord[n] = k} \ InHand

\* The pointers of freelist[k] are those of a list of the free blocks of
\* order k: the descriptors, which tryMergeAndGet looks at, and the lists,
\* which it changes on the strength of them, say the same at every level of
\* both recursions.
ListsWellFormed ==
    \A k \in Order : ListInv(FreeList(k), FreeOf(k))

\* Two blocks that are handed out never share a page, nor does one that is
\* handed out with one that is free: splitBlock and tryMergeAndGet find the
\* other half of a block by its number alone.
NoOverlap ==
    \A b \in live :
        /\ Cells(b[1], b[2]) \subseteq Page
        /\ \A c \in live :
              b # c => Cells(b[1], b[2]) \intersect Cells(c[1], c[2]) = {}
        /\ \A k \in Order : \A n \in FreeOf(k) :
              Cells(b[1], b[2]) \intersect Cells(n, k) = {}

\* tryMergeAndGet leaves no two free buddies behind, whatever the order in
\* which blocks were given back.
NoFreeBuddies ==
    pc = "idle" =>
        \A k \in Order \ {MaxOrder} : \A n \in FreeOf(k) :
            BuddyOf(n, k) \notin FreeOf(k)

\* The block that is handed out keeps the descriptor a free block has: its
\* prev link is null, wherever on its list or in a bigger block it was.
\* SlubAllocator::make_slabs does not set in_use and free_offset, which lie
\* over that link, and counts on it.
FreshHeader ==
    [][ \A b \in live' \ live :
            prv'[b[1]] = Null /\ flag'[b[1]] = type /\ ord'[b[1]] = b[2] ]_vars

\* A bound on the levels a call still has to go through.
LevelsLeft ==
    IF pc = "climb" THEN 2 * MaxOrder + 2 - lvl
    ELSE IF pc = "split" THEN ord[blk]
    ELSE IF pc = "merge" THEN MaxOrder + 1 - ord[blk]
    ELSE 0

\* Both recursions end: each of their steps brings the call nearer to its
\* return, also when allocateWithOrder turns from climbing to splitting and
\* when deallocateBlock goes on with the other half.
CallsEnd ==
    [][ (pc \in {"climb", "split", "merge"}) => LevelsLeft' < LevelsLeft ]_vars

-----------------------------------------------------------------------------
(***************************************************************************)
(* The inductive invariant behind the properties above, and behind the     *)
(* promise of BlockAllocator that a request is refused only when it must.  *)
(***************************************************************************)

\* Page n is the first of a place for a block of order k.
Aligned(n, k) == \E q \in 0 .. n : n = q * Span[k]

\* A descriptor that is neither a tail nor untouched heads a block, and the
\* rest of its block is tails.  Two such blocks cannot meet: the head of one
\* would be a tail of the other.
Blocks ==
    \A n \in Page : flag[n] \notin {"tails", "raw"} =>
        /\ Aligned(n, ord[n])
        /\ \A m \in Cells(n, ord[n]) \ {n} : flag[m] = "tails"

\* makeBuddy has touched the blocks it went over and no other.
BootFrontier ==
    /\ pc = "boot" => live = {}
    /\ \A n \in Page : flag[n] = "raw" <=> n >= booted * Span[MaxOrder]

\* The descriptor of a block that is handed out says so.
LiveMarked ==
    \A b \in live : flag[b[1]] \in PageType /\ ord[b[1]] = b[2]

\* Where a call is, with the block it has in hand.
CallInv ==
    /\ pc \in {"boot", "idle", "climb"} => blk = Null
    /\ pc = "climb" => req <= lvl
    /\ pc = "split" => /\ blk \in Page /\ flag[blk] = "free" /\ ord[blk] > req
                       /\ prv[blk] = Null
    /\ pc = "merge" => blk \in Page /\ flag[blk] = "free"

\* The free blocks are all on their lists, also those no request has met yet.
ListsRooted ==
    \A k \in Order : Rooted(FreeList(k), FreeOf(k))

\* No two free buddies, at every level of both recursions.
BuddiesApart ==
    \A k \in Order \ {MaxOrder} : \A n \in FreeOf(k) : BuddyOf(n, k) \notin FreeOf(k)

\* Every page makeBuddy went over is in a block, and a block that is neither
\* free nor reserved is handed out.
PagesAccounted ==
    /\ \A p \in Page : flag[p] # "raw" =>
          \E h \in Page : flag[h] \notin {"tails", "raw"} /\ p \in Cells(h, ord[h])
    /\ \A n \in Page : flag[n] \in PageType => <<n, ord[n]>> \in live
    /\ \A n \in Page : flag[n] = "reserved" => ord[n] = MaxOrder

\* allocateWithOrder has seen that the orders below lvl have no block for it.
NoneBelow ==
    pc = "climb" => \A j \in Order : req <= j /\ j < lvl => FreeOf(j) = {}

IInv ==
    /\ TypeOK
    /\ ListsWellFormed
    /\ ListsRooted
    /\ Blocks
    /\ BootFrontier
    /\ LiveMarked
    /\ CallInv
    /\ BuddiesApart
    /\ PagesAccounted
    /\ NoneBelow

=============================================================================

------------------------------- MODULE MCBuddy -------------------------------
(***************************************************************************)
(* Buddy for TLC, with the properties that need more than the module.      *)
(***************************************************************************)
EXTENDS Buddy, FiniteSets, Powers

SpanOf == [k \in 0 .. MaxOrder |-> 2^k]

(***************************************************************************)
(* TLC may treat two states as one when they differ only in words nothing  *)
(* reads before it is written again: the links of a page that is on no     *)
(* list (push and Free write both) and the order of a tail (Merge and      *)
(* Split write it, Mergeable looks at the flag first).                     *)
(***************************************************************************)
Listed == UNION {FreeOf(k) : k \in Order}
View ==
    <<flag, [n \in {m \in Page : flag[m] # "tails"} |-> ord[n]],
      [n \in Listed |-> <<nxt[n], prv[n]>>], lists, pc, call, blk, booted, live>>

\* memory::kfree (mm.cpp:228-235) goes from the page of the pointer to the
\* head of its block by clearing the lowest bit of the index until it meets
\* a descriptor that is not a tail.
HeadOf[n \in Page] ==
    IF flag[n] # "tails" THEN n ELSE HeadOf[LowestBitOff(n)]

\* From every page of a block that is handed out, kfree finds the first page
\* of that block, never that of another: tails are marked at boot and when
\* blocks merge, never when a block is handed out.
KfreeFindsHead ==
    \A b \in live : \A n \in Cells(b[1], b[2]) : HeadOf[n] = b[1]

\* The allocator with its lists and descriptors does what BlockAllocator
\* promises.  Room is what a user could have been given, so this also says
\* that nullptr is the answer only when splitting and merging left no block of
\* that order.  It does not say that a call returns: a page fault in the middle
\* of one is a step to `down`, and happens only with memory still free.
Managed ==
    (0 .. booted * Span[MaxOrder] - 1)
    \ UNION {Cells(n, MaxOrder) : n \in {m \in Page : flag[m] = "reserved"}}

Places == {b \in Page \X Order : Aligned(b[1], b[2])}

\* A request is being served, also when Take has faulted in the middle of it
\* (Merge faults with a block in hand).
Serving ==
    pc \in {"climb", "split"} \/ (pc = "fault" /\ blk = Null)
Asked == IF Serving THEN req ELSE Null

GivingBack == pc = "merge" \/ (pc = "fault" /\ blk # Null)

Abstract == INSTANCE BlockAllocator WITH
    Order <- 0 .. MaxOrder + 1,
    Block <- Places,
    None  <- Null,
    area  <- Managed,
    asked <- Asked,
    freeing <- GivingBack,
    down  <- (pc = "fault")
ImplementsBlockAllocator == Abstract!Spec

\* A request for pages is answered, with a block or with nullptr: pop_front_node
\* (list.h:198-201) goes on from the head of a list whose ends differ, and
\* list.h:222-226 says of these that the head has a next node.  pop_back_node,
\* by which a merge takes the last block off a list (buddy.cpp:45), clears the
\* next link of the head, so it does not hold: with free blocks on the list the
\* request goes through null and the kernel stops.
RequestsReturn == ~(pc = "fault" /\ blk = Null)
=============================================================================

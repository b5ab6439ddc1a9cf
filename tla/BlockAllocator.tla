--------------------------- MODULE BlockAllocator ----------------------------
(***************************************************************************)
(* What the page allocator promises (memory::alloc_pages and free_pages):  *)
(* blocks of 2^order pages, aligned to their size, never two over the same *)
(* page, and nullptr only when no such block is left.  What it does not    *)
(* promise is to return: a call may go through a link that was lost, which *)
(* stops the kernel, but only while several free blocks are there.  This   *)
(* is the user's view: it has no lists, no descriptors and no splitting.   *)
(***************************************************************************)
CONSTANTS
    Order,       \* the orders a caller may ask for
    Cells(_, _), \* Cells(n, k): the pages of the block of order k at page n
    Block,       \* the blocks there are: pairs <<first page, order>>
    None         \* no request

VARIABLES
    area,        \* the pages the allocator manages
    live,        \* the blocks handed out and not yet freed
    asked,       \* the order of the request being served, or None
    freeing,     \* a block is being given back
    down         \* the kernel has stopped in a page fault

vars == <<area, live, asked, freeing, down>>

Used == UNION {Cells(b[1], b[2]) : b \in live}

\* The blocks of order k that could be handed out.
Room(k) ==
    {b \in Block : b[2] = k /\ Cells(b[1], k) \subseteq area \ Used}

Init == area = {} /\ live = {} /\ asked = None /\ freeing = FALSE /\ down = FALSE

Idle == asked = None /\ ~freeing

\* Memory is given to the allocator before it is used.
Grow ==
    /\ live = {} /\ Idle
    /\ \E b \in Block : area' = area \union Cells(b[1], b[2])
    /\ UNCHANGED <<live, asked, freeing>>

Ask(k) ==
    /\ Idle
    /\ asked' = k
    /\ UNCHANGED <<area, live, freeing>>

Grant ==
    /\ asked # None
    /\ \E b \in Room(asked) : live' = live \union {b}
    /\ asked' = None
    /\ UNCHANGED <<area, freeing>>

Refuse ==
    /\ asked # None /\ Room(asked) = {}
    /\ asked' = None
    /\ UNCHANGED <<area, live, freeing>>

Free(b) ==
    /\ Idle
    /\ live' = live \ {b}
    /\ freeing' = TRUE
    /\ UNCHANGED <<area, asked>>

Freed ==
    /\ freeing
    /\ freeing' = FALSE
    /\ UNCHANGED <<area, live, asked>>

\* A request stops the kernel, although at least two blocks could be given.
RequestPanics ==
    /\ asked # None
    /\ \E b, c \in Room(asked) : b # c
    /\ UNCHANGED <<area, live, asked, freeing>>

\* Giving a block back does, with it and two others of some order free.
FreePanics ==
    /\ freeing
    /\ \E k \in Order : \E b, c, d \in Room(k) : b # c /\ b # d /\ c # d
    /\ UNCHANGED <<area, live, asked, freeing>>

Returning ==
    \/ Grow
    \/ \E k \in Order : Ask(k)
    \/ Grant
    \/ Refuse
    \/ \E b \in live : Free(b)
    \/ Freed

Next ==
    /\ ~down
    /\ \/ Returning /\ down' = FALSE
       \/ (RequestPanics \/ FreePanics) /\ down' = TRUE

Spec == Init /\ [][Next]_vars
=============================================================================

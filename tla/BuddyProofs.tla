----------------------------- MODULE BuddyProofs -----------------------------
(***************************************************************************)
(* The buddy allocator never hands out a page twice, leaves no two buddies *)
(* free and refuses a request only when it cannot be met: it implements    *)
(* BlockAllocator, for any number of orders, any amount of memory and any  *)
(* sequence of calls.  The loop of kfree finds the head of every block.    *)
(***************************************************************************)
EXTENDS MCBuddy, LibraryProofs

-----------------------------------------------------------------------------
(* The arithmetic of buddies. *)

LEMMA SpanNat ==
    /\ MaxOrder \in Order /\ Order \subseteq Nat
    /\ \A k \in Order : Span[k] \in Nat \ {0}
    /\ \A k \in Order \ {MaxOrder} : k + 1 \in Order /\ Span[k + 1] = 2 * Span[k]
<1>1. MaxOrder \in Nat /\ MaxOrder \in Order /\ Order \subseteq Nat
  BY SpanAssumption DEF Order
<1>2. ASSUME NEW k \in Order PROVE Span[k] \in Nat \ {0}
  BY SpanAssumption DEF Order
<1>3. ASSUME NEW k \in Order \ {MaxOrder}
      PROVE  k + 1 \in Order /\ Span[k + 1] = 2 * Span[k]
  BY <1>1, SpanAssumption DEF Order
<1> QED
  BY <1>1, <1>2, <1>3

\* The bound in Aligned is there for TLC.
LEMMA AlignedMultiple ==
    ASSUME NEW k \in Order, NEW q \in Nat
    PROVE  q * Span[k] \in Nat /\ Aligned(q * Span[k], k)
<1> DEFINE s == Span[k]
<1>1. s \in Nat \ {0}
  BY SpanNat
<1> HIDE DEF s
<1>2. PICK e \in Nat : s = e + 1
  BY <1>1, s - 1 \in Nat, s = (s - 1) + 1
<1>3. q * s = q * e + q /\ q * e \in Nat
  BY <1>2
<1>4. q \in 0 .. q * s /\ q * s \in Nat
  BY <1>3
<1> QED
  BY <1>4 DEF Aligned, s

\* buddyof pairs the two halves of every place of the next order.
LEMMA BuddyOfLower ==
    ASSUME NEW k \in Order \ {MaxOrder}, NEW m \in Nat, Aligned(m, k + 1)
    PROVE  /\ BuddyOf(m, k) = m + Span[k]
           /\ BuddyOf(m + Span[k], k) = m
           /\ Aligned(m, k) /\ Aligned(m + Span[k], k)
<1> DEFINE s == Span[k]
<1>1. s \in Nat \ {0} /\ Span[k + 1] = 2 * s
  BY SpanNat
<1> HIDE DEF s
<1>2. PICK p \in Nat : m = p * (2 * s)
  BY <1>1 DEF Aligned
<1>3. m = (2 * p) * s /\ m + s = (2 * p + 1) * s
  BY <1>1, <1>2
<1>4. m \div s = 2 * p /\ (m + s) \div s = 2 * p + 1
  BY <1>1, <1>3, DivProduct
<1>5. (2 * p) % 2 = 0 /\ (2 * p + 1) % 2 = 1
  OBVIOUS
<1>6. Aligned(m, k) /\ Aligned(m + s, k)
  BY <1>3, 2 * p \in Nat, 2 * p + 1 \in Nat, AlignedMultiple DEF s
<1> QED
  BY <1>1, <1>4, <1>5, <1>6 DEF BuddyOf, s

LEMMA BuddyOfAny ==
    ASSUME NEW k \in Order \ {MaxOrder}, NEW n \in Nat, Aligned(n, k)
    PROVE  \E m \in Nat : /\ Aligned(m, k + 1)
                          /\ \/ n = m /\ BuddyOf(n, k) = m + Span[k]
                             \/ n = m + Span[k] /\ BuddyOf(n, k) = m
<1> DEFINE s == Span[k]
<1>1. s \in Nat \ {0} /\ Span[k + 1] = 2 * s
  BY SpanNat
<1>2. PICK q \in Nat : n = q * s
  BY DEF Aligned
<1>3. PICK p \in Nat : q = 2 * p \/ q = 2 * p + 1
  BY q = 2 * (q \div 2) \/ q = 2 * (q \div 2) + 1, q \div 2 \in Nat
<1>4. p * (2 * s) \in Nat /\ Aligned(p * (2 * s), k + 1)
  BY <1>1, SpanNat, AlignedMultiple
<1>5. n = p * (2 * s) \/ n = p * (2 * s) + s
  BY <1>1, <1>2, <1>3
<1> QED
  BY <1>4, <1>5, BuddyOfLower

\* A place that begins in memory ends in it.
LEMMA PlaceInMemory ==
    ASSUME NEW k \in Order, NEW n \in Page, Aligned(n, k)
    PROVE  Cells(n, k) \subseteq Page
<1> DEFINE s == Span[k]
<1>1. s \in Nat \ {0} /\ Tops \in Nat
  BY SpanNat, MemoryAssumption
<1>2. PICK q \in Nat : n = q * s
  BY DEF Aligned
<1>3. PICK d \in Nat : Span[MaxOrder] = d * s
  BY SpanAssumption DEF Order
<1>4. Tops * Span[MaxOrder] = (Tops * d) * s
  BY <1>1, <1>3
<1> DEFINE t == Tops * d
<1>5. t \in Nat /\ n < t * s
  BY <1>1, <1>4 DEF Page
<1> HIDE DEF t, s
<1>6. q < t
  BY <1>1, <1>2, <1>5, ProductOrder
<1>7. n + s <= t * s
  BY <1>1, <1>2, <1>5, <1>6, ProductStep
<1>8. t * s = Tops * Span[MaxOrder] /\ n \in Nat
  BY <1>4 DEF Page, t
<1>9. Tops * Span[MaxOrder] \in Nat
  BY <1>1, <1>5, <1>8
<1> DEFINE all == Tops * Span[MaxOrder]
<1>10. Page = 0 .. all - 1 /\ Cells(n, k) = n .. n + s - 1
  BY DEF Cells, Page, s
<1>11. n + s <= all /\ all \in Nat /\ n \in Nat
  BY <1>7, <1>8, <1>9
<1> HIDE DEF all
<1> QED
  BY <1>1, <1>10, <1>11

-----------------------------------------------------------------------------
(* The lists. *)

\* The values of a link word.
Link == Page \union {Null} \union Scribble

LEMMA PageNat == Page \subseteq Nat /\ Null \notin Page
BY MemoryAssumption DEF Page

LEMMA FreeListType ==
    ASSUME TypeOK, NEW k \in Order
    PROVE  /\ FreeList(k) \in Lists(Page, Link)
           /\ Null \notin Page /\ Page \union {Null} \subseteq Link
           /\ FreeOf(k) \in SUBSET Page
BY PageNat DEF TypeOK, FreeList, Lists, Link, FreeOf

\* When an operation on freelist[k] touches no link word of another list
\* and the free blocks of the other orders stay what they are, all lists are
\* well formed if this one is.
LEMMA ListStep ==
    ASSUME TypeOK, ListsWellFormed, ListsRooted,
           NEW k \in Order, NEW r \in Lists(Page, Link), NEW c, SetFreeList(k, r, c),
           NEW S \in SUBSET Page, SameOutside(FreeList(k), r, Page, S),
           FreeOf(k)' \in SUBSET Page, ListInv(r, FreeOf(k)'), Rooted(r, FreeOf(k)'),
           \A j \in Order \ {k} : FreeOf(j)' = FreeOf(j) /\ FreeOf(j) \intersect S = {}
    PROVE  /\ ListsWellFormed' /\ ListsRooted'
           /\ nxt' \in [Page -> Link] /\ prv' \in [Page -> Link]
           /\ head' \in [Order -> Page \union {Null}]
           /\ tail' \in [Order -> Page \union {Null}]
<1>1. /\ nxt' = r.nxt /\ prv' = r.prv
      /\ head' = [head EXCEPT ![k] = r.head] /\ tail' = [tail EXCEPT ![k] = r.tail]
  BY DEF SetFreeList
<1>2. r.nxt \in [Page -> Link] /\ r.prv \in [Page -> Link]
  BY DEF Lists
<1>3. r.head \in Page \union {Null} /\ r.tail \in Page \union {Null}
  BY DEF ListInv
<1>4. head \in [Order -> Page \union {Null}] /\ tail \in [Order -> Page \union {Null}]
  BY DEF TypeOK
<1>5. ASSUME NEW j \in Order
      PROVE  ListInv(FreeList(j)', FreeOf(j)') /\ Rooted(FreeList(j)', FreeOf(j)')
  <2>1. CASE j = k
    <3>1. /\ FreeList(j)'.head = r.head /\ FreeList(j)'.tail = r.tail
          /\ FreeList(j)'.nxt = r.nxt /\ FreeList(j)'.prv = r.prv
      BY <1>1, <1>4, <2>1 DEF FreeList
    <3> QED
      BY <2>1, <3>1, PageNat, ListInvFrame, RootedFrame
  <2>2. CASE j # k
    <3>1. /\ FreeList(j)'.head = FreeList(j).head
          /\ FreeList(j)'.tail = FreeList(j).tail
          /\ FreeList(j)'.nxt = r.nxt /\ FreeList(j)'.prv = r.prv
      BY <1>1, <1>4, <2>2 DEF FreeList
    <3>2. /\ FreeOf(j)' = FreeOf(j) /\ FreeOf(j) \in SUBSET (Page \ S)
      BY <2>2, FreeListType
    <3>3. \A m \in FreeOf(j) : r.nxt[m] = nxt[m] /\ r.prv[m] = prv[m]
      BY <3>2 DEF SameOutside, FreeList
    <3>4. \A m \in FreeOf(j) : /\ FreeList(j)'.nxt[m] = FreeList(j).nxt[m]
                               /\ FreeList(j)'.prv[m] = FreeList(j).prv[m]
      BY <3>1, <3>3 DEF FreeList
    <3>5. /\ ListInv(FreeList(j), FreeOf(j)) /\ Rooted(FreeList(j), FreeOf(j))
          /\ Null \notin FreeOf(j)
      BY <3>2, PageNat DEF ListsWellFormed, ListsRooted
    <3>6. ListInv(FreeList(j)', FreeOf(j)) /\ Rooted(FreeList(j)', FreeOf(j))
      BY <3>1, <3>4, <3>5, ListInvFrame, RootedFrame
    <3> QED
      BY <3>2, <3>6
  <2> QED BY <2>1, <2>2
<1>6. ListsWellFormed' /\ ListsRooted'
  BY <1>5 DEF ListsWellFormed, ListsRooted
<1> QED
  BY <1>1, <1>2, <1>3, <1>4, <1>6

-----------------------------------------------------------------------------
(* The invariant holds at first, and every action keeps it. *)

LEMMA InitInv == Init => IInv
<1> SUFFICES ASSUME Init PROVE IInv
  OBVIOUS
<1>1. TypeOK
  BY SpanAssumption, MemoryAssumption DEF Init, TypeOK, Order, Flag
<1>2. ListsWellFormed /\ ListsRooted
  BY DEF Init, ListsWellFormed, ListsRooted, ListInv, Rooted, FreeList, FreeOf
<1>3. Blocks /\ LiveMarked /\ CallInv /\ BuddiesApart /\ NoneBelow
  BY DEF Init, Blocks, LiveMarked, CallInv, BuddiesApart, NoneBelow, FreeOf
<1>3a. PagesAccounted
  BY MemoryAssumption DEF Init, PagesAccounted
<1>4. 0 * Span[MaxOrder] = 0
  BY SpanNat
<1>5. BootFrontier
  BY <1>4, PageNat DEF Init, BootFrontier
<1> QED
  BY <1>1, <1>2, <1>3, <1>3a, <1>5 DEF IInv

\* Steps that only move the program counter and the arguments.
LEMMA ControlKeeps ==
    ASSUME IInv, UNCHANGED <<descriptors, lists, blk, live>>,
           TypeOK', BootFrontier', CallInv', NoneBelow'
    PROVE  IInv'
<1>1. flag' = flag /\ ord' = ord /\ nxt' = nxt /\ prv' = prv
      /\ head' = head /\ tail' = tail /\ blk' = blk /\ live' = live
  BY DEF descriptors, lists
<1>2. ListsWellFormed' /\ ListsRooted' /\ BuddiesApart'
  <2>1. \A j \in Order : FreeOf(j)' = FreeOf(j) /\ FreeList(j)' = FreeList(j)
    BY <1>1 DEF FreeList, FreeOf, InHand
  <2> QED
    BY <2>1 DEF IInv, ListsWellFormed, ListsRooted, BuddiesApart
<1>3. Blocks' /\ LiveMarked' /\ PagesAccounted'
  BY <1>1 DEF IInv, Blocks, LiveMarked, PagesAccounted
<1> QED
  BY <1>2, <1>3 DEF IInv

LEMMA BootDoneInv == IInv /\ BootDone => IInv'
<1> SUFFICES ASSUME IInv, BootDone PROVE IInv'
  OBVIOUS
<1>1. TypeOK' /\ BootFrontier' /\ CallInv' /\ NoneBelow'
  BY DEF IInv, BootDone, TypeOK, BootFrontier, CallInv, NoneBelow,
         descriptors, lists, call
<1> QED
  BY <1>1, ControlKeeps DEF BootDone

LEMMA AllocInv ==
    ASSUME IInv, NEW k \in 0 .. MaxOrder + 1, NEW t \in PageType, Alloc(k, t)
    PROVE  IInv'
<1>1. TypeOK' /\ BootFrontier' /\ CallInv'
  BY DEF IInv, Alloc, TypeOK, BootFrontier, CallInv,
         descriptors, lists, call
<1>2. NoneBelow'
  BY SpanNat DEF Alloc, NoneBelow, Order
<1> QED
  BY <1>1, <1>2, ControlKeeps DEF Alloc

LEMMA ClimbFailsInv == IInv /\ ClimbFails => IInv'
<1> SUFFICES ASSUME IInv, ClimbFails PROVE IInv'
  OBVIOUS
<1>0. blk = Null
  BY DEF IInv, CallInv, ClimbFails
<1>1. TypeOK' /\ BootFrontier' /\ CallInv' /\ NoneBelow'
  BY SpanNat DEF IInv, ClimbFails, Return, TypeOK, BootFrontier, CallInv, NoneBelow,
                 PagesAccounted, descriptors, lists
<1> QED
  BY <1>0, <1>1, ControlKeeps DEF ClimbFails, Return

LEMMA ClimbOnInv == IInv /\ ClimbOn => IInv'
<1> SUFFICES ASSUME IInv, ClimbOn PROVE IInv'
  OBVIOUS
<1>1. TypeOK' /\ BootFrontier' /\ CallInv'
  BY SpanNat DEF IInv, ClimbOn, TypeOK, BootFrontier, CallInv, PagesAccounted,
                 descriptors, lists
<1>2. PICK k \in Order : k = lvl
  BY SpanNat DEF IInv, ClimbOn, TypeOK, Order
\* The list of this order is empty, and so there is no free block of it.
<1>3. FreeOf(k) = {}
  <2>1. ListInv(FreeList(k), FreeOf(k)) /\ Rooted(FreeList(k), FreeOf(k))
    BY DEF IInv, ListsWellFormed, ListsRooted
  <2>2. Null \notin FreeOf(k) /\ Empty(FreeList(k))
    BY <1>2, PageNat DEF ClimbOn, FreeOf
  <2> QED
    BY <2>1, <2>2, RootedEmpty
<1>4. NoneBelow'
  <2>1. \A j \in Order : FreeOf(j)' = FreeOf(j)
    BY DEF ClimbOn, FreeOf, InHand, descriptors
  <2>2. \A j \in Order : req <= j /\ j < k + 1 => FreeOf(j) = {}
    BY <1>2, <1>3, SpanNat DEF IInv, NoneBelow, ClimbOn, Order
  <2> QED
    BY <1>2, <2>1, <2>2 DEF NoneBelow, ClimbOn
<1> QED
  BY <1>1, <1>4, ControlKeeps DEF ClimbOn

LEMMA FaultInv == IInv /\ Fault => IInv'
<1> SUFFICES ASSUME IInv, Fault PROVE IInv'
  OBVIOUS
<1>1. TypeOK' /\ BootFrontier' /\ CallInv' /\ NoneBelow'
  BY DEF IInv, Fault, TypeOK, BootFrontier, CallInv, NoneBelow, descriptors, lists, call
<1> QED
  BY <1>1, ControlKeeps DEF Fault

\* A descriptor whose order does not change keeps the shape of its block.
LEMMA BlocksKept ==
    ASSUME TypeOK, Blocks, NEW n \in Page, flag[n] \notin {"tails", "raw"},
           NEW f \in PageType \union {"free"},
           flag' = [flag EXCEPT ![n] = f], ord' = ord
    PROVE  Blocks'
<1>1. \A m \in Page : flag'[m] = IF m = n THEN f ELSE flag[m]
  BY DEF TypeOK
<1>2. f \notin {"tails", "raw"}
  BY MemoryAssumption
<1>3. ASSUME NEW m \in Page, flag'[m] \notin {"tails", "raw"}
      PROVE  /\ Aligned(m, ord[m])
             /\ \A x \in Cells(m, ord[m]) \ {m} : flag'[x] = "tails"
  <2>1. flag[m] \notin {"tails", "raw"}
    BY <1>1, <1>3
  <2>2. /\ Aligned(m, ord[m])
        /\ \A x \in Cells(m, ord[m]) \ {m} : flag[x] = "tails"
    BY <2>1 DEF Blocks
  <2>3. ASSUME NEW x \in Cells(m, ord[m]) \ {m} PROVE flag'[x] = "tails"
    BY <2>2, <2>3 DEF TypeOK
  <2> QED
    BY <2>2, <2>3
<1> QED
  BY <1>3 DEF Blocks

\* The same with the pages accounted for, when the block's new owner is known.
LEMMA AccountedKept ==
    ASSUME TypeOK, PagesAccounted, NEW n \in Page, flag[n] \notin {"tails", "raw"},
           NEW f \in PageType \union {"free"},
           flag' = [flag EXCEPT ![n] = f], ord' = ord,
           live \ {<<n, ord[n]>>} \subseteq live',
           f # "free" => <<n, ord[n]>> \in live'
    PROVE  PagesAccounted'
<1>1. \A m \in Page : flag'[m] = IF m = n THEN f ELSE flag[m]
  BY DEF TypeOK
<1>2. f \notin {"tails", "raw", "reserved"} /\ "free" \notin PageType
  BY MemoryAssumption
<1>3. ASSUME NEW p \in Page, flag'[p] # "raw"
      PROVE  \E h \in Page : flag'[h] \notin {"tails", "raw"} /\ p \in Cells(h, ord[h])
  <2>1. PICK h \in Page : flag[h] \notin {"tails", "raw"} /\ p \in Cells(h, ord[h])
    BY <1>1, <1>3 DEF PagesAccounted
  <2> QED BY <1>1, <1>2, <2>1
<1>4. \A m \in Page : flag'[m] \in PageType => <<m, ord[m]>> \in live'
  BY <1>1, <1>2 DEF PagesAccounted
<1>5. \A m \in Page : flag'[m] = "reserved" => ord[m] = MaxOrder
  BY <1>1, <1>2 DEF PagesAccounted
<1> QED
  BY <1>3, <1>4, <1>5 DEF PagesAccounted

\* No two free buddies come about where blocks only stop to be free, or where
\* the one that becomes free has no free buddy.
LEMMA ApartFewer ==
    ASSUME BuddiesApart, \A j \in Order : FreeOf(j)' \subseteq FreeOf(j)
    PROVE  BuddiesApart'
BY DEF BuddiesApart

LEMMA BuddyTwice ==
    ASSUME NEW k \in Order \ {MaxOrder}, NEW n \in Nat, Aligned(n, k)
    PROVE  BuddyOf(n, k) # n /\ BuddyOf(BuddyOf(n, k), k) = n
<1>1. PICK m \in Nat : /\ Aligned(m, k + 1)
                       /\ \/ n = m /\ BuddyOf(n, k) = m + Span[k]
                          \/ n = m + Span[k] /\ BuddyOf(n, k) = m
  BY BuddyOfAny
<1>2. BuddyOf(m, k) = m + Span[k] /\ BuddyOf(m + Span[k], k) = m
  BY <1>1, BuddyOfLower
<1>3. m + Span[k] # m
  BY <1>1, SpanNat
<1> QED BY <1>1, <1>2, <1>3

LEMMA ApartOneMore ==
    ASSUME Blocks, BuddiesApart, NEW k \in Order, NEW u \in Page, Aligned(u, k),
           k # MaxOrder => BuddyOf(u, k) \notin FreeOf(k),
           \A j \in Order :
               FreeOf(j)' = IF j = k THEN FreeOf(j) \union {u} ELSE FreeOf(j)
    PROVE  BuddiesApart'
<1> SUFFICES ASSUME NEW j \in Order \ {MaxOrder}, NEW n \in FreeOf(j)'
             PROVE  BuddyOf(n, j) \notin FreeOf(j)'
  BY DEF BuddiesApart
<1>1. CASE j # k
  BY <1>1 DEF BuddiesApart
<1>2. CASE j = k /\ n = u
  BY <1>2, PageNat, BuddyTwice
<1>3. CASE j = k /\ n # u
  <2>1. n \in FreeOf(k)
    BY <1>3
  <2>2. n \in Nat /\ Aligned(n, k)
    BY <2>1, PageNat DEF FreeOf, Blocks
  <2>3. BuddyOf(BuddyOf(n, k), k) = n
    BY <1>3, <2>2, BuddyTwice
  <2>4. BuddyOf(n, k) # u /\ BuddyOf(n, k) \notin FreeOf(k)
    BY <1>3, <2>1, <2>3 DEF BuddiesApart
  <2> QED BY <1>3, <2>4
<1> QED BY <1>1, <1>2, <1>3

LEMMA TakeInv == IInv /\ Take => IInv'
<1> SUFFICES ASSUME IInv, Take PROVE IInv'
  OBVIOUS
\* The level and the block the step is about, as constants: lvl and head
\* change with the step.
<1>0. PICK k \in Order : k = lvl
  BY SpanNat DEF IInv, Take, TypeOK, Order
<1> PICK n : n = head[k]
  OBVIOUS
<1> DEFINE L == FreeList(k)
<1>1. TypeOK /\ ListsWellFormed /\ ListsRooted /\ Blocks /\ LiveMarked
      /\ BuddiesApart /\ PagesAccounted /\ BootFrontier
      /\ pc = "climb" /\ blk = Null /\ req <= k /\ ~Empty(L)
  BY <1>0 DEF IInv, CallInv, Take
<1>2. CASE PopFrontFaults(L)
  BY <1>0, <1>2, FaultInv DEF Take
<1>3. CASE ~PopFrontFaults(L)
  <2> DEFINE r == PopFront(L)
             f == MarkAs(k)
  <2> HIDE DEF L, r, f
  <2>1. /\ SetFreeList(k, r, count[k] - 1)
        /\ flag' = [flag EXCEPT ![n] = f]
        /\ ord' = [ord EXCEPT ![n] = k]
        /\ HandOver(n, k)
        /\ type' = type /\ booted' = booted
    BY <1>0, <1>3 DEF Take, SetFreeList, HandOver, MarkAs, L, r, f
  <2>2. /\ L \in Lists(Page, Link) /\ FreeOf(k) \in SUBSET Page
        /\ ListInv(L, FreeOf(k)) /\ L.head = n
        /\ Null \notin Page /\ Page \union {Null} \subseteq Link
    BY <1>0, <1>1, FreeListType DEF ListsWellFormed, FreeList, L
  <2>3. /\ n \in FreeOf(k)
        /\ r \in Lists(Page, Link)
        /\ ListInv(r, FreeOf(k) \ {n})
        /\ SameOutside(L, r, Page, FreeOf(k))
        /\ r.prv[n] = Null
    <3>1. ~Empty(L)
      BY <1>1
    <3>2. /\ L.head \in FreeOf(k)
          /\ PopFront(L) \in Lists(Page, Link)
          /\ ListInv(PopFront(L), FreeOf(k) \ {L.head})
          /\ SameOutside(L, PopFront(L), Page, FreeOf(k))
          /\ PopFront(L).prv[L.head] = Null
      BY <1>3, <2>2, <3>1, PopFrontKeeps
    <3> QED
      BY <2>2, <3>2 DEF r
  <2>3a. Rooted(r, FreeOf(k) \ {n})
    <3>1. Rooted(L, FreeOf(k))
      BY <1>0, <1>1 DEF ListsRooted, L
    <3> QED
      BY <1>1, <1>3, <2>2, <3>1, PopFrontRooted DEF r
  <2>4. n \in Page /\ flag[n] = "free" /\ ord[n] = k /\ n # Null
    BY <2>2, <2>3 DEF FreeOf
  <2>5. f \in PageType \union {"free"} /\ (k = req => f = type /\ f # "free")
        /\ (k # req => f = "free")
    BY <1>1, MemoryAssumption DEF MarkAs, TypeOK, f
  <2>6. ord' = ord
    BY <1>0, <1>1, <2>1, <2>4 DEF TypeOK
  <2>7. \A m \in Page : flag'[m] = IF m = n THEN f ELSE flag[m]
    BY <1>1, <2>1 DEF TypeOK
  <2>8. /\ k = req => /\ live' = live \union {<<n, k>>}
                      /\ pc' = "idle" /\ req' = 0 /\ lvl' = 0 /\ blk' = Null
        /\ k # req => /\ pc' = "split" /\ lvl' = k /\ blk' = n
                      /\ req' = req /\ live' = live
    BY <2>1 DEF HandOver, Return
  <2>9. \A j \in Order : FreeOf(j)' = IF j = k THEN FreeOf(j) \ {n} ELSE FreeOf(j)
    <3>1. CASE k = req
      BY <1>1, <2>4, <2>5, <2>6, <2>7, <2>8, <3>1 DEF FreeOf, InHand
    <3>2. CASE k # req
      BY <1>1, <2>4, <2>5, <2>6, <2>7, <2>8, <3>2 DEF FreeOf, InHand
    <3> QED BY <3>1, <3>2
  <2>10. \A j \in Order \ {k} : FreeOf(j) \intersect FreeOf(k) = {}
    BY DEF FreeOf
  <2>11. /\ ListsWellFormed' /\ ListsRooted'
         /\ nxt' \in [Page -> Link] /\ prv' \in [Page -> Link]
         /\ head' \in [Order -> Page \union {Null}]
         /\ tail' \in [Order -> Page \union {Null}]
    <3> DEFINE S == FreeOf(k)
    <3>1. FreeOf(k)' = S \ {n} /\ S \ {n} \in SUBSET Page
      BY <1>1, <2>2, <2>9
    <3>2. \A j \in Order \ {k} : FreeOf(j)' = FreeOf(j) /\ FreeOf(j) \intersect S = {}
      BY <2>9, <2>10
    <3>3. SameOutside(FreeList(k), r, Page, S)
      BY <2>3 DEF L
    <3>4. TypeOK /\ ListsWellFormed /\ ListsRooted /\ SetFreeList(k, r, count[k] - 1)
      BY <1>1, <2>1
    <3>5. /\ r \in Lists(Page, Link) /\ ListInv(r, S \ {n}) /\ Rooted(r, S \ {n})
          /\ S \in SUBSET Page /\ k \in Order
      BY <1>0, <2>2, <2>3, <2>3a
    <3> HIDE DEF S
    <3> QED
      BY <3>1, <3>2, <3>3, <3>4, <3>5, ListStep
  <2>12. TypeOK'
    <3>0. count' \in [Order -> Int]
      BY <1>0, <1>1, <2>1 DEF TypeOK, SetFreeList
    <3>1. flag' \in [Page -> Flag]
      BY <1>1, <2>1, <2>5 DEF TypeOK, Flag
    <3>2. req' \in 0 .. MaxOrder + 1 /\ lvl' \in 0 .. MaxOrder + 1
          /\ blk' \in Page \union {Null} /\ live' \subseteq Page \X Order
          /\ pc' \in {"boot", "idle", "climb", "split", "merge", "fault"}
      BY <1>1, <2>4, <2>8, SpanNat DEF TypeOK, Order
    <3> QED
      BY <1>1, <2>1, <2>6, <2>11, <3>0, <3>1, <3>2 DEF TypeOK, Link
  <2>13. Blocks'
    BY <1>1, <2>1, <2>4, <2>5, <2>6, BlocksKept
  <2>14. BootFrontier'
    <3>1. pc' # "boot"
      BY <2>8
    <3>2. \A m \in Page : flag'[m] = "raw" <=> flag[m] = "raw"
      BY <2>4, <2>5, <2>7, MemoryAssumption
    <3> QED
      BY <1>1, <2>1, <3>1, <3>2 DEF BootFrontier
  <2>15. LiveMarked'
    <3>1. \A b \in live : b[1] \in Page /\ b[1] # n
      BY <1>1, <2>4, MemoryAssumption DEF LiveMarked, TypeOK
    <3>2. CASE k = req
      BY <1>1, <2>4, <2>5, <2>6, <2>7, <2>8, <3>1, <3>2 DEF LiveMarked, TypeOK
    <3>3. CASE k # req
      BY <1>1, <2>4, <2>5, <2>6, <2>7, <2>8, <3>1, <3>3 DEF LiveMarked
    <3> QED BY <3>2, <3>3
  <2>16. CallInv'
    <3>1. prv'[n] = Null
      BY <2>1, <2>3 DEF SetFreeList
    <3> QED
      BY <1>1, <2>4, <2>5, <2>6, <2>7, <2>8, <3>1, SpanNat DEF CallInv, TypeOK
  <2>17. BuddiesApart'
    BY <1>1, <2>9, ApartFewer
  <2>18. PagesAccounted'
    <3>1. live \subseteq live' /\ (f # "free" => <<n, ord[n]>> \in live')
      BY <2>4, <2>5, <2>8
    <3> QED
      BY <1>1, <2>1, <2>4, <2>5, <2>6, <3>1, AccountedKept
  <2>19. NoneBelow'
    BY <2>8 DEF NoneBelow
  <2> QED
    BY <2>11, <2>12, <2>13, <2>14, <2>15, <2>16, <2>17, <2>18, <2>19 DEF IInv
<1> QED BY <1>2, <1>3

\* Two blocks share no page.
LEMMA BlocksDisjoint ==
    ASSUME TypeOK, Blocks, NEW m \in Page, NEW n \in Page, m # n,
           flag[m] \notin {"tails", "raw"}, flag[n] \notin {"tails", "raw"}
    PROVE  Cells(m, ord[m]) \intersect Cells(n, ord[n]) = {}
<1> SUFFICES ASSUME NEW x \in Cells(m, ord[m]) \intersect Cells(n, ord[n])
             PROVE  FALSE
  OBVIOUS
<1>1. /\ m \in Nat /\ n \in Nat
      /\ Span[ord[m]] \in Nat /\ Span[ord[n]] \in Nat
  BY PageNat, SpanNat DEF TypeOK
<1>2. m \in Cells(n, ord[n]) \/ n \in Cells(m, ord[m])
  BY <1>1 DEF Cells
<1> QED
  BY <1>2 DEF Blocks

\* The page numbers in the two halves of a place.
LEMMA Halves ==
    ASSUME NEW k \in Order \ {MaxOrder}, NEW m \in Nat
    PROVE  /\ m + Span[k] \in Cells(m, k + 1) \ Cells(m, k)
           /\ m + Span[k] # m
           /\ Cells(m, k + 1) = Cells(m, k) \union Cells(m + Span[k], k)
           /\ m \in Cells(m, k) /\ m \notin Cells(m + Span[k], k)
<1>1. Span[k] \in Nat \ {0} /\ Span[k + 1] = 2 * Span[k]
  BY SpanNat
<1> QED
  BY <1>1 DEF Cells

LEMMA KeepInv == IInv /\ Keep => IInv'
<1> SUFFICES ASSUME IInv, Keep PROVE IInv'
  OBVIOUS
<1>0. PICK b \in Page : b = blk
  BY DEF IInv, CallInv, Keep
<1>1. PICK k \in Order : k = ord[b]
  BY DEF IInv, TypeOK
<1> DEFINE L == FreeList(k)
           r == PushFront(L, b)
<1> HIDE DEF L, r
<1>2. /\ TypeOK /\ ListsWellFormed /\ ListsRooted /\ Blocks /\ LiveMarked
      /\ BuddiesApart /\ PagesAccounted /\ BootFrontier
      /\ pc = "merge" /\ flag[b] = "free" /\ b # Null /\ ~Mergeable(b, k)
  BY <1>0, <1>1, PageNat DEF IInv, CallInv, Keep
<1>3. /\ SetFreeList(k, r, count[k] + 1)
      /\ pc' = "idle" /\ req' = 0 /\ lvl' = 0 /\ blk' = Null
      /\ flag' = flag /\ ord' = ord /\ type' = type
      /\ booted' = booted /\ live' = live
  BY <1>0, <1>1 DEF Keep, SetFreeList, Return, L, r
<1>4. /\ L \in Lists(Page, Link) /\ FreeOf(k) \in SUBSET Page
      /\ ListInv(L, FreeOf(k))
      /\ Null \notin Page /\ Page \union {Null} \subseteq Link
  BY <1>1, <1>2, FreeListType DEF ListsWellFormed, L
<1>5. b \notin FreeOf(k)
  BY <1>0, <1>2 DEF FreeOf, InHand
<1>6. /\ r \in Lists(Page, Link)
      /\ ListInv(r, FreeOf(k) \union {b})
      /\ SameOutside(L, r, Page, FreeOf(k) \union {b})
  BY <1>0, <1>4, <1>5, PushFrontKeeps DEF r
<1>6a. Rooted(r, FreeOf(k) \union {b})
  <2>1. Rooted(L, FreeOf(k))
    BY <1>1, <1>2 DEF ListsRooted, L
  <2> QED
    BY <1>0, <1>4, <1>5, <2>1, PushFrontRooted DEF r
<1>7. \A j \in Order : FreeOf(j)' = IF j = k THEN FreeOf(j) \union {b} ELSE FreeOf(j)
  BY <1>0, <1>1, <1>2, <1>3 DEF FreeOf, InHand
<1>8. \A j \in Order \ {k} : FreeOf(j) \intersect (FreeOf(k) \union {b}) = {}
  BY <1>1 DEF FreeOf
<1>9. /\ ListsWellFormed' /\ ListsRooted'
      /\ nxt' \in [Page -> Link] /\ prv' \in [Page -> Link]
      /\ head' \in [Order -> Page \union {Null}]
      /\ tail' \in [Order -> Page \union {Null}]
  <2> DEFINE S == FreeOf(k) \union {b}
  <2>1. FreeOf(k)' = S /\ S \in SUBSET Page
    BY <1>1, <1>4, <1>7
  <2>2. \A j \in Order \ {k} : FreeOf(j)' = FreeOf(j) /\ FreeOf(j) \intersect S = {}
    BY <1>7, <1>8
  <2>3. SameOutside(FreeList(k), r, Page, S)
    BY <1>6 DEF L
  <2>4. TypeOK /\ ListsWellFormed /\ ListsRooted /\ SetFreeList(k, r, count[k] + 1)
    BY <1>2, <1>3
  <2>5. r \in Lists(Page, Link) /\ ListInv(r, S) /\ Rooted(r, S)
    BY <1>6, <1>6a
  <2> HIDE DEF S
  <2> QED
    BY <1>1, <2>1, <2>2, <2>3, <2>4, <2>5, ListStep
<1>10. TypeOK'
  <2>1. count' \in [Order -> Int]
    BY <1>1, <1>2, <1>3 DEF TypeOK, SetFreeList
  <2>2. req' \in 0 .. MaxOrder + 1 /\ lvl' \in 0 .. MaxOrder + 1
    BY <1>3, SpanNat
  <2> QED
    BY <1>2, <1>3, <1>9, <2>1, <2>2 DEF TypeOK, Link
<1>11. Blocks' /\ LiveMarked'
  BY <1>2, <1>3 DEF Blocks, LiveMarked
<1>12. BootFrontier' /\ CallInv' /\ NoneBelow'
  BY <1>2, <1>3 DEF BootFrontier, CallInv, NoneBelow
\* The buddy, which tryMergeAndGet has looked at, is not free.
<1>13. BuddiesApart'
  <2>1. Aligned(b, k)
    BY <1>1, <1>2 DEF Blocks
  <2>2. k # MaxOrder => BuddyOf(b, k) \notin FreeOf(k)
    BY <1>2, SpanNat DEF Mergeable, FreeOf, Order
  <2> QED
    BY <1>2, <1>7, <2>1, <2>2, ApartOneMore
<1>14. PagesAccounted'
  BY <1>2, <1>3 DEF PagesAccounted
<1> QED
  BY <1>9, <1>10, <1>11, <1>12, <1>13, <1>14 DEF IInv

LEMMA FreeInv ==
    ASSUME IInv, NEW b \in live, NEW x \in Scribble, NEW y \in Scribble,
           Free(b[1], b[2], x, y)
    PROVE  IInv'
<1>1. /\ TypeOK /\ ListsWellFormed /\ ListsRooted /\ Blocks /\ LiveMarked
      /\ BuddiesApart /\ PagesAccounted /\ BootFrontier
      /\ pc = "idle" /\ blk = Null
  BY DEF IInv, CallInv, Free
<1>2. PICK n \in Page : n = b[1]
  BY <1>1 DEF TypeOK
<1>3. flag[n] \in PageType /\ flag[n] # "free" /\ ord[n] = b[2] /\ n # Null
      /\ flag[n] \notin {"tails", "raw"}
  BY <1>1, <1>2, MemoryAssumption, PageNat DEF LiveMarked
<1>4. /\ live' = live \ {<<n, ord[n]>>}
      /\ flag' = [flag EXCEPT ![n] = "free"]
      /\ nxt' = [nxt EXCEPT ![n] = x] /\ prv' = [prv EXCEPT ![n] = y]
      /\ blk' = n /\ pc' = "merge" /\ ord' = ord
      /\ head' = head /\ tail' = tail /\ count' = count
      /\ req' = req /\ type' = type /\ lvl' = lvl /\ booted' = booted
  BY <1>2, <1>3 DEF Free, lists, call
<1>5. \A j \in Order : FreeOf(j)' = FreeOf(j) /\ n \notin FreeOf(j)
  BY <1>1, <1>3, <1>4 DEF FreeOf, InHand, TypeOK
<1>6. ListsWellFormed' /\ ListsRooted'
  <2>1. ASSUME NEW j \in Order
        PROVE  ListInv(FreeList(j)', FreeOf(j)') /\ Rooted(FreeList(j)', FreeOf(j)')
    <3>1. /\ FreeList(j)'.head = FreeList(j).head
          /\ FreeList(j)'.tail = FreeList(j).tail
          /\ FreeList(j)'.nxt = [nxt EXCEPT ![n] = x]
          /\ FreeList(j)'.prv = [prv EXCEPT ![n] = y]
      BY <1>4 DEF FreeList
    <3>2. FreeOf(j) \subseteq Page \ {n} /\ Null \notin FreeOf(j)
      BY <1>5, PageNat DEF FreeOf
    <3>3. \A m \in FreeOf(j) : /\ FreeList(j)'.nxt[m] = FreeList(j).nxt[m]
                               /\ FreeList(j)'.prv[m] = FreeList(j).prv[m]
      BY <1>1, <3>1, <3>2 DEF FreeList, TypeOK
    <3>4. ListInv(FreeList(j), FreeOf(j)) /\ Rooted(FreeList(j), FreeOf(j))
      BY <1>1 DEF ListsWellFormed, ListsRooted
    <3>5. ListInv(FreeList(j)', FreeOf(j))
      BY <3>1, <3>2, <3>3, <3>4 DEF ListInv
    <3>6. Rooted(FreeList(j)', FreeOf(j))
      <4>1. PICK l : l = FreeList(j)
        OBVIOUS
      <4>2. PICK r : r = FreeList(j)'
        OBVIOUS
      <4>3. Rooted(l, FreeOf(j)) /\ r.head = l.head
            /\ \A m \in FreeOf(j) : r.prv[m] = l.prv[m]
        BY <3>1, <3>3, <3>4, <4>1, <4>2
      <4>4. Rooted(r, FreeOf(j))
        BY <4>3, RootedFrame
      <4> QED BY <4>2, <4>4
    <3> QED
      BY <1>5, <3>5, <3>6
  <2> QED
    BY <2>1 DEF ListsWellFormed, ListsRooted
<1>7. TypeOK'
  BY <1>1, <1>4 DEF TypeOK, Flag
<1>8. Blocks'
  BY <1>1, <1>3, <1>4, BlocksKept
<1>9. LiveMarked'
  <2>1. ASSUME NEW c \in live' PROVE flag'[c[1]] \in PageType /\ ord'[c[1]] = c[2]
    <3>1. /\ c \in live /\ c # <<n, ord[n]>>
          /\ c[1] \in Page /\ c = <<c[1], c[2]>>
          /\ flag[c[1]] \in PageType /\ ord[c[1]] = c[2]
      BY <1>1, <1>4 DEF LiveMarked, TypeOK
    <3>2. c[1] # n
      BY <3>1
    <3> QED
      BY <1>1, <1>4, <3>1, <3>2 DEF TypeOK
  <2> QED
    BY <2>1 DEF LiveMarked
<1>10. BootFrontier' /\ CallInv' /\ NoneBelow'
  <2>1. \A m \in Page : flag'[m] = "raw" <=> flag[m] = "raw"
    BY <1>1, <1>3, <1>4 DEF TypeOK
  <2>2. BootFrontier'
    BY <1>1, <1>4, <2>1 DEF BootFrontier
  <2>3. CallInv' /\ NoneBelow'
    BY <1>1, <1>4 DEF CallInv, NoneBelow, TypeOK
  <2> QED BY <2>2, <2>3
<1>11. BuddiesApart'
  BY <1>1, <1>5, ApartFewer
<1>12. PagesAccounted'
  BY <1>1, <1>3, <1>4, AccountedKept
<1> QED
  BY <1>6, <1>7, <1>8, <1>9, <1>10, <1>11, <1>12 DEF IInv

\* Where a block in hand is split: the upper half is a tail until then.
LEMMA SplitPlace ==
    ASSUME IInv, pc = "split", NEW b \in Page, b = blk
    PROVE  \E k \in Order \ {MaxOrder} : \E u \in Page :
               /\ k = ord[b] - 1 /\ ord[b] = k + 1 /\ k >= req
               /\ u = BuddyOf(b, k) /\ u = b + Span[k] /\ u # b
               /\ flag[u] = "tails" /\ Aligned(b, k) /\ Aligned(u, k)
               /\ Cells(b, k + 1) \subseteq Page
<1>1. /\ Blocks /\ flag[b] = "free" /\ b \in Nat
      /\ req \in Nat /\ ord[b] \in Order /\ ord[b] > req
  BY PageNat DEF IInv, CallInv, TypeOK
<1>2. PICK k \in Order \ {MaxOrder} : k = ord[b] - 1 /\ ord[b] = k + 1 /\ k >= req
  BY <1>1, SpanNat, ord[b] - 1 \in Order \ {MaxOrder} DEF Order
<1>3. Aligned(b, k + 1)
  BY <1>1, <1>2 DEF Blocks
<1>4. /\ BuddyOf(b, k) = b + Span[k]
      /\ Aligned(b, k) /\ Aligned(b + Span[k], k)
  BY <1>1, <1>3, BuddyOfLower
<1>5. Cells(b, k + 1) \subseteq Page
  BY <1>2, <1>3, PlaceInMemory, SpanNat
<1>6. b + Span[k] \in Cells(b, k + 1) /\ b + Span[k] # b
  BY <1>1, Halves
<1>7. flag[b + Span[k]] = "tails"
  BY <1>1, <1>2, <1>6 DEF Blocks
<1> QED
  BY <1>2, <1>4, <1>5, <1>6, <1>7

LEMMA SplitInv == IInv /\ Split => IInv'
<1> SUFFICES ASSUME IInv, Split PROVE IInv'
  OBVIOUS
<1>0. PICK b \in Page : b = blk
  BY DEF IInv, CallInv, Split
<1>1. /\ TypeOK /\ ListsWellFormed /\ ListsRooted /\ Blocks /\ LiveMarked
      /\ BuddiesApart /\ PagesAccounted /\ BootFrontier
      /\ pc = "split" /\ flag[b] = "free" /\ b # Null /\ prv[b] = Null
      /\ req \in Nat /\ ord[b] \in Order /\ ord[b] > req
  BY <1>0, PageNat DEF IInv, CallInv, Split, TypeOK
<1>2. PICK k \in Order \ {MaxOrder} : \E u \in Page :
          /\ k = ord[b] - 1 /\ ord[b] = k + 1 /\ k >= req
          /\ u = BuddyOf(b, k) /\ u = b + Span[k] /\ u # b
          /\ flag[u] = "tails" /\ Aligned(b, k) /\ Aligned(u, k)
          /\ Cells(b, k + 1) \subseteq Page
  BY <1>0, <1>1, SplitPlace
<1>2a. k \in Order /\ k + 1 \in Order /\ k \in Nat /\ k <= MaxOrder /\ MaxOrder \in Nat
  BY SpanNat DEF Order
<1>3. PICK u \in Page : /\ u = BuddyOf(b, k) /\ u = b + Span[k] /\ u # b
                        /\ flag[u] = "tails" /\ Aligned(b, k) /\ Aligned(u, k)
                        /\ Cells(b, k + 1) \subseteq Page
  BY <1>2
<1>3a. u # b /\ flag[u] = "tails" /\ u # Null
  BY <1>3, PageNat
<1> DEFINE L == FreeList(k)
           r == PushBack(L, u)
           f == MarkAs(k)
<1> HIDE DEF L, r, f
<1>4. /\ SetFreeList(k, r, count[k] + 1)
      /\ flag' = [flag EXCEPT ![u] = "free", ![b] = f]
      /\ ord' = [ord EXCEPT ![u] = k, ![b] = k]
      /\ k = req => /\ live' = live \union {<<b, k>>}
                    /\ pc' = "idle" /\ req' = 0 /\ lvl' = 0 /\ blk' = Null
      /\ k # req => /\ pc' = "split" /\ lvl' = k /\ blk' = b
                    /\ req' = req /\ live' = live
      /\ type' = type /\ booted' = booted
  BY <1>0, <1>2, <1>3 DEF Split, SetFreeList, HandOver, Return, MarkAs, L, r, f
<1>5. f \in PageType \union {"free"} /\ (k = req => f = type /\ f # "free")
      /\ (k # req => f = "free") /\ f \notin {"tails", "raw"}
  BY <1>1, MemoryAssumption DEF MarkAs, TypeOK, f
<1>6. /\ \A m \in Page : flag'[m] = IF m = b THEN f
                                    ELSE IF m = u THEN "free" ELSE flag[m]
      /\ \A m \in Page : ord'[m] = IF m = b \/ m = u THEN k ELSE ord[m]
  BY <1>1, <1>2, <1>4 DEF TypeOK
<1>7. /\ L \in Lists(Page, Link) /\ FreeOf(k) \in SUBSET Page
      /\ ListInv(L, FreeOf(k))
      /\ Null \notin Page /\ Page \union {Null} \subseteq Link
  BY <1>1, <1>2, FreeListType DEF ListsWellFormed, L
<1>8. \A j \in Order : u \notin FreeOf(j) /\ b \notin FreeOf(j)
  BY <1>0, <1>1, <1>3 DEF FreeOf, InHand
<1>9. /\ r \in Lists(Page, Link)
      /\ ListInv(r, FreeOf(k) \union {u})
      /\ SameOutside(L, r, Page, FreeOf(k) \union {u})
  BY <1>2, <1>3, <1>7, <1>8, PushBackKeeps DEF r
<1>9a. Rooted(r, FreeOf(k) \union {u})
  <2>1. Rooted(L, FreeOf(k))
    BY <1>1, <1>2 DEF ListsRooted, L
  <2> QED
    BY <1>2, <1>3, <1>7, <1>8, <2>1, PushBackRooted DEF r
<1>10. \A j \in Order : FreeOf(j)' = IF j = k THEN FreeOf(j) \union {u} ELSE FreeOf(j)
  <2>1. CASE k = req
    <3>1. InHand = {b} /\ InHand' = {} /\ f # "free"
      BY <1>0, <1>1, <1>4, <1>5, <2>1 DEF InHand
    <3> QED
      BY <1>3a, <1>6, <3>1 DEF FreeOf
  <2>2. CASE k # req
    <3>1. InHand = {b} /\ InHand' = {b} /\ f = "free"
      BY <1>0, <1>1, <1>4, <1>5, <2>2 DEF InHand
    <3> QED
      BY <1>3a, <1>6, <3>1 DEF FreeOf
  <2> QED BY <2>1, <2>2
<1>11. /\ ListsWellFormed' /\ ListsRooted'
       /\ nxt' \in [Page -> Link] /\ prv' \in [Page -> Link]
       /\ head' \in [Order -> Page \union {Null}]
       /\ tail' \in [Order -> Page \union {Null}]
  <2> DEFINE S == FreeOf(k) \union {u}
  <2>1. FreeOf(k)' = S /\ S \in SUBSET Page
    BY <1>2, <1>3, <1>7, <1>10
  <2>2. \A j \in Order \ {k} : FreeOf(j)' = FreeOf(j) /\ FreeOf(j) \intersect S = {}
    BY <1>8, <1>10 DEF FreeOf
  <2>3. SameOutside(FreeList(k), r, Page, S)
    BY <1>9 DEF L
  <2>4. TypeOK /\ ListsWellFormed /\ ListsRooted /\ SetFreeList(k, r, count[k] + 1)
    BY <1>1, <1>4
  <2>5. r \in Lists(Page, Link) /\ ListInv(r, S) /\ Rooted(r, S)
    BY <1>9, <1>9a
  <2> HIDE DEF S
  <2> QED
    BY <1>2a, <2>1, <2>2, <2>3, <2>4, <2>5, ListStep
<1>12. TypeOK'
  <2>1. count' \in [Order -> Int]
    BY <1>1, <1>2a, <1>4 DEF TypeOK, SetFreeList
  <2>2. flag' \in [Page -> Flag]
    BY <1>1, <1>4, <1>5 DEF TypeOK, Flag
  <2>3. ord' \in [Page -> Order]
    BY <1>1, <1>2, <1>4 DEF TypeOK
  <2>4. req' \in 0 .. MaxOrder + 1 /\ lvl' \in 0 .. MaxOrder + 1
        /\ blk' \in Page \union {Null} /\ live' \subseteq Page \X Order
        /\ pc' \in {"boot", "idle", "climb", "split", "merge", "fault"}
    <3>1. k \in 0 .. MaxOrder + 1 /\ 0 \in 0 .. MaxOrder + 1
      BY <1>2a
    <3>2. CASE k = req
      BY <1>0, <1>1, <1>2a, <1>4, <3>1, <3>2 DEF TypeOK
    <3>3. CASE k # req
      BY <1>0, <1>1, <1>2a, <1>4, <3>1, <3>3 DEF TypeOK
    <3> QED BY <3>2, <3>3
  <2> QED
    BY <1>1, <1>4, <1>11, <2>1, <2>2, <2>3, <2>4 DEF TypeOK, Link
<1>13. Blocks'
  <2> SUFFICES ASSUME NEW m \in Page, flag'[m] \notin {"tails", "raw"}
               PROVE  /\ Aligned(m, ord'[m])
                      /\ \A x \in Cells(m, ord'[m]) \ {m} : flag'[x] = "tails"
    BY DEF Blocks
  <2>1. /\ b \in Nat
        /\ \A x \in Cells(b, k + 1) \ {b} : flag[x] = "tails" /\ x \in Page
        /\ Cells(b, k + 1) = Cells(b, k) \union Cells(u, k)
        /\ u \notin Cells(b, k) /\ b \notin Cells(u, k) /\ u \in Cells(b, k + 1)
    <3>1. /\ b \in Nat
          /\ Cells(b, k + 1) = Cells(b, k) \union Cells(u, k)
          /\ u \notin Cells(b, k) /\ b \notin Cells(u, k) /\ u \in Cells(b, k + 1)
      BY <1>3, PageNat, Halves
    <3>2. \A x \in Cells(b, k + 1) \ {b} : flag[x] = "tails"
      BY <1>1, <1>2 DEF Blocks
    <3> QED
      BY <1>3, <3>1, <3>2
  <2>2. CASE m = b
    BY <1>3, <1>6, <2>1, <2>2
  <2>3. CASE m = u
    BY <1>3, <1>6, <2>1, <2>3
  <2>4. CASE m # b /\ m # u
    <3>1. flag[m] \notin {"tails", "raw"} /\ ord'[m] = ord[m] /\ flag'[m] = flag[m]
      BY <1>6, <2>4
    <3>2. /\ Aligned(m, ord[m]) /\ Cells(m, ord[m]) \subseteq Page
          /\ \A x \in Cells(m, ord[m]) \ {m} : flag[x] = "tails"
      BY <1>1, <3>1, PlaceInMemory DEF Blocks, TypeOK
    <3>3. Cells(m, ord[m]) \intersect Cells(b, k + 1) = {}
      BY <1>1, <1>2, <2>4, <3>1, BlocksDisjoint
    <3> QED
      BY <1>1, <1>6, <2>1, <3>1, <3>2, <3>3
  <2> QED BY <2>2, <2>3, <2>4
<1>14. LiveMarked'
  <2>1. \A c \in live : c[1] \in Page /\ c[1] # b /\ c[1] # u
    BY <1>1, <1>3, MemoryAssumption DEF LiveMarked, TypeOK
  <2>2. CASE k = req
    BY <1>1, <1>4, <1>5, <1>6, <2>1, <2>2 DEF LiveMarked, TypeOK
  <2>3. CASE k # req
    <3>1. live' = live
      BY <1>4, <2>3
    <3> QED
      BY <1>1, <1>6, <2>1, <3>1 DEF LiveMarked
  <2> QED BY <2>2, <2>3
<1>15. prv'[b] = Null
  BY <1>1, <1>3a, <1>4 DEF PushBack, Singleton, SetFreeList, FreeList, TypeOK, L, r
<1>16. CallInv'
  <2>1. CASE k = req
    BY <1>4, <2>1 DEF CallInv
  <2>2. CASE k # req
    <3>1. pc' = "split" /\ blk' = b /\ req' = req /\ flag'[b] = "free" /\ ord'[b] = k
      BY <1>4, <1>5, <1>6, <2>2
    <3>2. k > req
      BY <1>1, <1>2, <1>2a, <2>2
    <3> QED
      BY <1>15, <3>1, <3>2 DEF CallInv
  <2> QED BY <2>1, <2>2
\* The buddy of the upper half is the block in hand.
<1>17. BuddiesApart'
  <2>1. BuddyOf(u, k) = b
    BY <1>2, <1>3, PageNat, BuddyTwice
  <2> QED
    BY <1>1, <1>2, <1>3, <1>8, <1>10, <2>1, ApartOneMore
<1>18. PagesAccounted'
  <2>1. ASSUME NEW p \in Page, flag'[p] # "raw"
        PROVE  \E h \in Page : flag'[h] \notin {"tails", "raw"} /\ p \in Cells(h, ord'[h])
    <3>1. PICK h \in Page : flag[h] \notin {"tails", "raw"} /\ p \in Cells(h, ord[h])
      BY <1>1, <1>3a, <1>6, <2>1 DEF PagesAccounted
    <3>2. CASE h = b
      <4>1. Cells(b, k + 1) = Cells(b, k) \union Cells(u, k)
        BY <1>3, PageNat, Halves
      <4>2. p \in Cells(b, k) \/ p \in Cells(u, k)
        BY <1>2, <3>1, <3>2, <4>1
      <4> QED BY <1>3a, <1>5, <1>6, <4>2
    <3>3. CASE h # b
      BY <1>3a, <1>6, <3>1, <3>3
    <3> QED BY <3>2, <3>3
  <2>2. \A m \in Page : flag'[m] \in PageType => <<m, ord'[m]>> \in live'
    BY <1>1, <1>4, <1>5, <1>6, MemoryAssumption DEF PagesAccounted
  <2>3. \A m \in Page : flag'[m] = "reserved" => ord'[m] = MaxOrder
    BY <1>1, <1>5, <1>6, MemoryAssumption DEF PagesAccounted
  <2> QED
    BY <2>1, <2>2, <2>3 DEF PagesAccounted
<1>19. NoneBelow'
  BY <1>4 DEF NoneBelow
<1>20. BootFrontier'
  <2>1. pc' # "boot"
    BY <1>4
  <2>2. \A m \in Page : flag'[m] = "raw" <=> flag[m] = "raw"
    BY <1>1, <1>3a, <1>5, <1>6
  <2> QED
    BY <1>1, <1>4, <2>1, <2>2 DEF BootFrontier
<1> QED
  BY <1>11, <1>12, <1>13, <1>14, <1>16, <1>17, <1>18, <1>19, <1>20 DEF IInv

\* Page b begins one of the two halves of a bigger block, m the lower half and
\* u the upper.
LEMMA TwoHalves ==
    ASSUME NEW k \in Order \ {MaxOrder}, NEW b \in Page, Aligned(b, k)
    PROVE  \E m, u \in Page :
              /\ u = m + Span[k] /\ u # m /\ m < u
              /\ Aligned(m, k + 1) /\ Cells(m, k + 1) \subseteq Page
              /\ BuddyOf(m, k) = u
              /\ \/ b = m /\ BuddyOf(b, k) = u
                 \/ b = u /\ BuddyOf(b, k) = m
<1>1. PICK m \in Nat : /\ Aligned(m, k + 1)
                       /\ \/ b = m /\ BuddyOf(b, k) = m + Span[k]
                          \/ b = m + Span[k] /\ BuddyOf(b, k) = m
  BY PageNat, BuddyOfAny
<1>2. Span[k] \in Nat \ {0} /\ b \in Nat
  BY PageNat, SpanNat
<1>3. m \in Page
  BY <1>1, <1>2, SpanNat, MemoryAssumption DEF Page
<1>4. Cells(m, k + 1) \subseteq Page
  BY <1>1, <1>3, SpanNat, PlaceInMemory
<1>5. m + Span[k] \in Page
  BY <1>4, Halves
<1> QED
  BY <1>1, <1>2, <1>3, <1>4, <1>5, BuddyOfLower

LEMMA MergeInv == IInv /\ Merge => IInv'
<1> SUFFICES ASSUME IInv, Merge PROVE IInv'
  OBVIOUS
<1>0. PICK b \in Page : b = blk
  BY DEF IInv, CallInv, Merge
<1>1. /\ TypeOK /\ ListsWellFormed /\ ListsRooted /\ Blocks /\ LiveMarked
      /\ BuddiesApart /\ PagesAccounted /\ BootFrontier
      /\ pc = "merge" /\ flag[b] = "free" /\ b # Null /\ b \in Nat
      /\ Mergeable(b, ord[b])
  BY <1>0, PageNat DEF IInv, CallInv, Merge
<1>2. PICK k \in Order \ {MaxOrder} : k = ord[b]
  <2>1. ord[b] \in Order /\ ord[b] < MaxOrder
    BY <1>1 DEF Mergeable, TypeOK
  <2>2. ord[b] \in Nat /\ MaxOrder \in Nat
    BY <2>1, SpanNat
  <2>3. ord[b] # MaxOrder
    BY <2>1, <2>2
  <2> QED
    BY <2>1, <2>3
\* The two halves of the bigger block: m the lower, u the upper.
<1>3. PICK m \in Page, u \in Page :
          /\ u = m + Span[k] /\ u # m /\ m < u
          /\ Aligned(m, k + 1) /\ Cells(m, k + 1) \subseteq Page
          /\ BuddyOf(m, k) = u
          /\ \/ b = m /\ BuddyOf(b, k) = u
             \/ b = u /\ BuddyOf(b, k) = m
  <2>1. Aligned(b, k)
    BY <1>1, <1>2 DEF Blocks
  <2> QED
    BY <2>1, TwoHalves
<1>4. PICK w \in {m, u} : w = BuddyOf(b, k) /\ w # b
  BY <1>3
<1>5. flag[w] = "free" /\ ord[w] = k /\ w \in Page /\ Primary(b, w) = m
      /\ {b, w} = {m, u}
  BY <1>1, <1>2, <1>3, <1>4, PageNat DEF Mergeable, Primary
<1> DEFINE L == FreeList(k)
           r == PopNode(L, w)
<1> HIDE DEF L, r
<1>6. CASE PopNodeFaults(L, w)
  BY <1>0, <1>2, <1>4, <1>6, FaultInv DEF Merge, L
<1>7. CASE ~PopNodeFaults(L, w)
  <2>1. /\ SetFreeList(k, r, count[k] - 1)
        /\ flag' = [flag EXCEPT ![u] = "tails", ![m] = "free"]
        /\ ord' = [ord EXCEPT ![m] = k + 1]
        /\ blk' = m /\ pc' = pc /\ req' = req /\ lvl' = lvl /\ type' = type
        /\ booted' = booted /\ live' = live
    BY <1>0, <1>2, <1>3, <1>4, <1>5, <1>7 DEF Merge, SetFreeList, call, L, r
  <2>2. k + 1 \in Order
    BY SpanNat
  <2>3. /\ \A n \in Page : flag'[n] = IF n = m THEN "free"
                                      ELSE IF n = u THEN "tails" ELSE flag[n]
        /\ \A n \in Page : ord'[n] = IF n = m THEN k + 1 ELSE ord[n]
    BY <1>1, <1>3, <2>1, <2>2 DEF TypeOK
  <2>4. /\ L \in Lists(Page, Link) /\ FreeOf(k) \in SUBSET Page
        /\ ListInv(L, FreeOf(k))
        /\ Null \notin Page /\ Page \union {Null} \subseteq Link
    BY <1>1, <1>2, FreeListType DEF ListsWellFormed, L
  <2>5. w \in FreeOf(k)
    BY <1>0, <1>4, <1>5 DEF FreeOf, InHand
  <2>6. /\ r \in Lists(Page, Link)
        /\ ListInv(r, FreeOf(k) \ {w})
        /\ SameOutside(L, r, Page, FreeOf(k))
    BY <1>7, <2>4, <2>5, PopNodeKeeps DEF r
  <2>6a. Rooted(r, FreeOf(k) \ {w})
    <3>1. Rooted(L, FreeOf(k))
      BY <1>1, <1>2 DEF ListsRooted, L
    <3> QED
      BY <1>7, <2>4, <2>5, <3>1, PopNodeRooted DEF r
  <2>7. \A j \in Order : FreeOf(j)' = IF j = k THEN FreeOf(j) \ {w} ELSE FreeOf(j)
    <3>1. InHand = {b} /\ InHand' = {m}
      BY <1>0, <1>1, <1>3, <2>1, PageNat DEF InHand
    <3>2. w \in Page /\ w # b /\ {b, w} = {m, u} /\ ord[b] = k /\ ord[w] = k
      BY <1>2, <1>4, <1>5
    <3> QED
      BY <2>3, <3>1, <3>2 DEF FreeOf
  <2>8. /\ ListsWellFormed' /\ ListsRooted'
        /\ nxt' \in [Page -> Link] /\ prv' \in [Page -> Link]
        /\ head' \in [Order -> Page \union {Null}]
        /\ tail' \in [Order -> Page \union {Null}]
    <3> DEFINE S == FreeOf(k)
    <3>1. FreeOf(k)' = S \ {w} /\ S \ {w} \in SUBSET Page
      BY <1>2, <2>4, <2>7
    <3>2. \A j \in Order \ {k} : FreeOf(j)' = FreeOf(j) /\ FreeOf(j) \intersect S = {}
      BY <2>7 DEF FreeOf
    <3>3. SameOutside(FreeList(k), r, Page, S)
      BY <2>6 DEF L
    <3>4. TypeOK /\ ListsWellFormed /\ ListsRooted /\ SetFreeList(k, r, count[k] - 1)
      BY <1>1, <2>1
    <3>5. /\ r \in Lists(Page, Link) /\ ListInv(r, S \ {w}) /\ Rooted(r, S \ {w})
          /\ S \in SUBSET Page /\ k \in Order
      BY <1>2, <2>4, <2>6, <2>6a
    <3> HIDE DEF S
    <3> QED
      BY <3>1, <3>2, <3>3, <3>4, <3>5, ListStep
  <2>9. TypeOK'
    <3>1. count' \in [Order -> Int]
      BY <1>1, <1>2, <2>1 DEF TypeOK, SetFreeList
    <3>2. flag' \in [Page -> Flag] /\ ord' \in [Page -> Order]
      BY <1>1, <2>1, <2>2 DEF TypeOK, Flag
    <3> QED
      BY <1>1, <1>3, <2>1, <2>8, <3>1, <3>2 DEF TypeOK, Link
  <2>10. Blocks'
    <3> SUFFICES ASSUME NEW n \in Page, flag'[n] \notin {"tails", "raw"}
                 PROVE  /\ Aligned(n, ord'[n])
                        /\ \A x \in Cells(n, ord'[n]) \ {n} : flag'[x] = "tails"
      BY DEF Blocks
    <3>1. /\ \A x \in Cells(m, k) \ {m} : flag[x] = "tails"
          /\ \A x \in Cells(u, k) \ {u} : flag[x] = "tails"
      BY <1>1, <1>2, <1>3, <1>5 DEF Blocks
    <3>2. Cells(m, k + 1) = Cells(m, k) \union Cells(u, k)
      BY <1>3, PageNat, Halves
    <3>3. CASE n = m
      BY <1>3, <2>3, <3>1, <3>2, <3>3
    <3>4. CASE n # m
      <4>1. n # u /\ flag[n] \notin {"tails", "raw"} /\ ord'[n] = ord[n]
        BY <2>3, <3>4
      <4>2. /\ Aligned(n, ord[n]) /\ Cells(n, ord[n]) \subseteq Page
            /\ \A x \in Cells(n, ord[n]) \ {n} : flag[x] = "tails"
        BY <1>1, <4>1, PlaceInMemory DEF Blocks, TypeOK
      <4>3. flag[m] = "free"
        BY <1>1, <1>5
      <4> QED
        BY <2>3, <4>1, <4>2, <4>3
    <3> QED BY <3>3, <3>4
  <2>11. LiveMarked'
    <3>1. \A c \in live : c[1] \in Page /\ c[1] # m /\ c[1] # u
      BY <1>1, <1>5, MemoryAssumption DEF LiveMarked, TypeOK
    <3> QED
      BY <1>1, <2>1, <2>3, <3>1 DEF LiveMarked
  <2>12. BootFrontier' /\ CallInv'
    <3>1. \A n \in Page : flag'[n] = "raw" <=> flag[n] = "raw"
      BY <1>1, <1>3, <1>5, <2>3
    <3>2. BootFrontier'
      BY <1>1, <2>1, <3>1 DEF BootFrontier
    <3> QED
      BY <1>1, <1>3, <2>1, <2>3, <3>2 DEF CallInv
  <2>13. BuddiesApart'
    BY <1>1, <2>7, ApartFewer
  <2>14. PagesAccounted'
    <3>1. ASSUME NEW p \in Page, flag'[p] # "raw"
          PROVE  \E h \in Page : flag'[h] \notin {"tails", "raw"} /\ p \in Cells(h, ord'[h])
      <4>1. PICK h \in Page : flag[h] \notin {"tails", "raw"} /\ p \in Cells(h, ord[h])
        BY <1>1, <1>5, <2>3, <3>1 DEF PagesAccounted
      <4>2. CASE h \in {m, u}
        <5>1. p \in Cells(m, k + 1)
          BY <1>2, <1>3, <1>5, <4>1, <4>2, PageNat, Halves
        <5> QED BY <2>3, <5>1
      <4>3. CASE h \notin {m, u}
        BY <2>3, <4>1, <4>3
      <4> QED BY <4>2, <4>3
    <3>2. \A n \in Page : flag'[n] \in PageType => <<n, ord'[n]>> \in live'
      BY <1>1, <2>1, <2>3, MemoryAssumption DEF PagesAccounted
    <3>3. \A n \in Page : flag'[n] = "reserved" => ord'[n] = MaxOrder
      BY <1>1, <2>3 DEF PagesAccounted
    <3> QED
      BY <3>1, <3>2, <3>3 DEF PagesAccounted
  <2>15. NoneBelow'
    BY <1>1, <2>1 DEF NoneBelow
  <2> QED
    BY <2>8, <2>9, <2>10, <2>11, <2>12, <2>13, <2>14, <2>15 DEF IInv
<1> QED BY <1>6, <1>7

LEMMA BootInv == IInv /\ Boot => IInv'
<1> SUFFICES ASSUME IInv, Boot PROVE IInv'
  OBVIOUS
<1>1. /\ TypeOK /\ ListsWellFormed /\ ListsRooted /\ Blocks /\ BootFrontier
      /\ BuddiesApart /\ PagesAccounted
      /\ pc = "boot" /\ blk = Null /\ live = {}
      /\ booted \in Nat /\ booted < Tops /\ Tops \in Nat
  BY MemoryAssumption DEF IInv, CallInv, BootFrontier, Boot, TypeOK
<1> PICK k : k = MaxOrder
  OBVIOUS
<1>2. k \in Order /\ Span[k] \in Nat \ {0}
  BY SpanNat
<1>3. PICK n \in Page : /\ n = booted * Span[k] /\ Aligned(n, k)
                        /\ Cells(n, k) \subseteq Page
                        /\ (booted + 1) * Span[k] = n + Span[k]
  <2> DEFINE n == booted * Span[k]
  <2>1. n \in Nat /\ Aligned(n, k)
    BY <1>1, <1>2, AlignedMultiple
  <2>2. (booted + 1) * Span[k] = n + Span[k]
    BY <1>1, <1>2
  <2>3. booted * Span[k] + Span[k] <= Tops * Span[k]
    BY <1>1, <1>2, ProductStep
  <2>4. Tops * Span[k] \in Nat
    BY <1>1, <1>2
  <2>5. n \in Page
    BY <1>2, <2>1, <2>3, <2>4 DEF Page
  <2> QED
    BY <1>2, <2>1, <2>2, <2>5, PlaceInMemory
<1>4. /\ n # Null /\ n \in Nat /\ n \in Cells(n, k)
      /\ \A m \in Page : m \in Cells(n, k) <=> m >= n /\ m < n + Span[k]
      /\ \A m \in Page : flag[m] = "raw" <=> m >= n
  BY <1>1, <1>2, <1>3, PageNat DEF Cells, BootFrontier
<1>5. PICK f \in {"free", "reserved"} :
          /\ flag' = [m \in Page |-> IF m = n THEN f
                                     ELSE IF m \in Cells(n, k) THEN "tails"
                                     ELSE flag[m]]
          /\ ord' = [ord EXCEPT ![n] = k]
          /\ \/ f = "free" /\ SetFreeList(k, PushBack(FreeList(k), n), count[k] + 1)
             \/ f = "reserved" /\ UNCHANGED <<nxt, prv, lists>>
          /\ booted' = booted + 1
          /\ pc' = pc /\ req' = req /\ type' = type /\ lvl' = lvl
          /\ blk' = blk /\ live' = live
  BY <1>3 DEF Boot, MarkPages, SetFreeList, call
<1>6. /\ \A m \in Page : flag'[m] = IF m = n THEN f
                                    ELSE IF m \in Cells(n, k) THEN "tails"
                                    ELSE flag[m]
      /\ \A m \in Page : ord'[m] = IF m = n THEN k ELSE ord[m]
  BY <1>1, <1>2, <1>5 DEF TypeOK
<1>7. \A j \in Order :
          FreeOf(j)' = IF j = k /\ f = "free" THEN FreeOf(j) \union {n} ELSE FreeOf(j)
  <2>1. InHand = {} /\ InHand' = {}
    BY <1>1, <1>5 DEF InHand
  <2>2. \A m \in Cells(n, k) : m \in Page /\ flag[m] = "raw"
    BY <1>3, <1>4
  <2> SUFFICES ASSUME NEW j \in Order, NEW m \in Page
               PROVE  m \in FreeOf(j)' <=> \/ m = n /\ j = k /\ f = "free"
                                          \/ m \in FreeOf(j)
    BY <1>3 DEF FreeOf
  <2>3. CASE m = n
    BY <1>4, <1>6, <2>1, <2>3 DEF FreeOf
  <2>4. CASE m # n /\ m \in Cells(n, k)
    BY <1>6, <2>1, <2>2, <2>4 DEF FreeOf
  <2>5. CASE m \notin Cells(n, k)
    BY <1>4, <1>6, <2>1, <2>5 DEF FreeOf
  <2> QED BY <2>3, <2>4, <2>5
<1>8. \A j \in Order : n \notin FreeOf(j)
  BY <1>4 DEF FreeOf
<1>9. /\ ListsWellFormed' /\ ListsRooted'
      /\ nxt' \in [Page -> Link] /\ prv' \in [Page -> Link]
      /\ head' \in [Order -> Page \union {Null}]
      /\ tail' \in [Order -> Page \union {Null}]
      /\ count' \in [Order -> Int]
  <2>1. CASE f = "free"
    <3> DEFINE L == FreeList(k)
               r == PushBack(L, n)
               S == FreeOf(k) \union {n}
    <3> HIDE DEF L, r
    <3>1. SetFreeList(k, r, count[k] + 1)
      BY <1>5, <2>1 DEF L, r
    <3>2. /\ L \in Lists(Page, Link) /\ FreeOf(k) \in SUBSET Page
          /\ ListInv(L, FreeOf(k))
          /\ Null \notin Page /\ Page \union {Null} \subseteq Link
      BY <1>1, <1>2, FreeListType DEF ListsWellFormed, L
    <3>3. /\ r \in Lists(Page, Link)
          /\ ListInv(r, S)
          /\ SameOutside(L, r, Page, S)
      BY <1>3, <1>8, <3>2, <1>2, PushBackKeeps DEF r
    <3>3a. Rooted(r, S)
      <4>1. Rooted(L, FreeOf(k))
        BY <1>1, <1>2 DEF ListsRooted, L
      <4> QED
        BY <1>2, <1>3, <1>8, <3>2, <4>1, PushBackRooted DEF r
    <3>4. FreeOf(k)' = S /\ S \in SUBSET Page
      BY <1>2, <1>3, <1>7, <2>1, <3>2
    <3>5. \A j \in Order \ {k} : FreeOf(j)' = FreeOf(j) /\ FreeOf(j) \intersect S = {}
      BY <1>7, <1>8 DEF FreeOf
    <3>6. SameOutside(FreeList(k), r, Page, S)
      BY <3>3 DEF L
    <3>7. count' \in [Order -> Int]
      BY <1>1, <1>2, <3>1 DEF TypeOK, SetFreeList
    <3>8. TypeOK /\ ListsWellFormed /\ ListsRooted /\ k \in Order
      BY <1>1, <1>2
    <3>9. r \in Lists(Page, Link) /\ ListInv(r, S) /\ Rooted(r, S)
      BY <3>3, <3>3a
    <3> HIDE DEF S
    <3> QED
      BY <3>1, <3>4, <3>5, <3>6, <3>7, <3>8, <3>9, ListStep
  <2>2. CASE f = "reserved"
    <3>1. nxt' = nxt /\ prv' = prv /\ head' = head /\ tail' = tail /\ count' = count
      BY <1>5, <2>2 DEF lists
    <3>2. \A j \in Order : FreeOf(j)' = FreeOf(j) /\ FreeList(j)' = FreeList(j)
      BY <1>7, <2>2, <3>1 DEF FreeList
    <3>3. ListsWellFormed' /\ ListsRooted'
      BY <1>1, <3>2 DEF ListsWellFormed, ListsRooted
    <3> QED
      BY <1>1, <3>1, <3>3 DEF TypeOK, Link
  <2> QED BY <2>1, <2>2
<1>10. TypeOK'
  <2>1. flag' \in [Page -> Flag]
    BY <1>1, <1>5 DEF TypeOK, Flag
  <2>2. ord' \in [Page -> Order]
    BY <1>1, <1>2, <1>5 DEF TypeOK
  <2>3. booted' \in 0 .. Tops
    BY <1>1, <1>5
  <2> QED
    BY <1>1, <1>5, <1>9, <2>1, <2>2, <2>3 DEF TypeOK, Link
<1>11. Blocks'
  <2> SUFFICES ASSUME NEW m \in Page, flag'[m] \notin {"tails", "raw"}
               PROVE  /\ Aligned(m, ord'[m])
                      /\ \A x \in Cells(m, ord'[m]) \ {m} : flag'[x] = "tails"
    BY DEF Blocks
  <2>1. CASE m = n
    BY <1>3, <1>6, <2>1
  <2>2. CASE m # n
    <3>1. flag[m] \notin {"tails", "raw"} /\ ord'[m] = ord[m]
      BY <1>6, <2>2
    <3>2. /\ Aligned(m, ord[m]) /\ Cells(m, ord[m]) \subseteq Page
          /\ \A x \in Cells(m, ord[m]) \ {m} : flag[x] = "tails"
      BY <1>1, <3>1, PlaceInMemory DEF Blocks, TypeOK
    <3>3. ASSUME NEW x \in Cells(m, ord[m]) \ {m} PROVE flag'[x] = "tails"
      \* x is no longer raw, so it lies before the block that is added.
      <4>1. x \in Page /\ flag[x] = "tails" /\ x # n
        BY <1>4, <3>2, PageNat
      <4> QED
        BY <1>6, <4>1
    <3> QED
      BY <3>1, <3>2, <3>3
  <2> QED BY <2>1, <2>2
<1>12. BootFrontier'
  <2>1. \A m \in Page : flag'[m] = "raw" <=> m >= (booted + 1) * Span[k]
    <3> SUFFICES ASSUME NEW m \in Page
                 PROVE  flag'[m] = "raw" <=> m >= n + Span[k]
      BY <1>3
    <3>1. m \in Nat /\ n \in Nat /\ Span[k] \in Nat \ {0}
      BY <1>2, <1>4, PageNat
    <3>2. CASE m \in Cells(n, k)
      BY <1>4, <1>6, <3>1, <3>2
    <3>3. CASE m \notin Cells(n, k)
      BY <1>4, <1>6, <3>1, <3>3
    <3> QED BY <3>2, <3>3
  <2> QED
    BY <1>1, <1>5, <2>1 DEF BootFrontier
<1>13. LiveMarked' /\ CallInv' /\ NoneBelow'
  BY <1>1, <1>5 DEF LiveMarked, CallInv, NoneBelow
<1>14. BuddiesApart'
  <2>1. CASE f = "free"
    <3>1. \A j \in Order : FreeOf(j)' = IF j = k THEN FreeOf(j) \union {n} ELSE FreeOf(j)
      BY <1>7, <2>1
    <3> QED
      BY <1>1, <1>2, <1>3, <3>1, ApartOneMore
  <2>2. CASE f = "reserved"
    BY <1>1, <1>7, <2>2, ApartFewer
  <2> QED BY <2>1, <2>2
<1>15. PagesAccounted'
  <2>1. ASSUME NEW p \in Page, flag'[p] # "raw"
        PROVE  \E h \in Page : flag'[h] \notin {"tails", "raw"} /\ p \in Cells(h, ord'[h])
    <3>1. CASE p \in Cells(n, k)
      BY <1>6, <3>1
    <3>2. CASE p \notin Cells(n, k)
      <4>1. PICK h \in Page : flag[h] \notin {"tails", "raw"} /\ p \in Cells(h, ord[h])
        BY <1>1, <1>4, <1>6, <2>1, <3>2 DEF PagesAccounted
      <4>2. h # n /\ h \notin Cells(n, k)
        BY <1>4, <4>1
      <4> QED BY <1>6, <4>1, <4>2
    <3> QED BY <3>1, <3>2
  <2>2. \A m \in Page : flag'[m] \in PageType => <<m, ord'[m]>> \in live'
    BY <1>1, <1>5, <1>6, MemoryAssumption DEF PagesAccounted
  <2>3. \A m \in Page : flag'[m] = "reserved" => ord'[m] = MaxOrder
    BY <1>1, <1>6 DEF PagesAccounted
  <2> QED
    BY <1>1, <1>5, <2>1, <2>2, <2>3 DEF PagesAccounted
<1> QED
  BY <1>9, <1>10, <1>11, <1>12, <1>13, <1>14, <1>15 DEF IInv

-----------------------------------------------------------------------------
LEMMA NextInv == IInv /\ [Next]_vars => IInv'
<1> SUFFICES ASSUME IInv, [Next]_vars PROVE IInv'
  OBVIOUS
<1>1. CASE Step
  BY <1>1, BootInv, BootDoneInv, ClimbFailsInv, ClimbOnInv, TakeInv, SplitInv,
     MergeInv, KeepInv DEF Step, AllocStep, FreeStep
<1>2. ASSUME NEW k \in 0 .. MaxOrder + 1, NEW t \in PageType, Alloc(k, t)
      PROVE  IInv'
  BY <1>2, AllocInv
<1>3. ASSUME NEW b \in live, NEW x \in Scribble, NEW y \in Scribble,
             Free(b[1], b[2], x, y)
      PROVE  IInv'
  BY <1>3, FreeInv
<1>4. CASE UNCHANGED vars
  <2>1. UNCHANGED <<descriptors, lists, blk, live>> /\ UNCHANGED <<pc, call, booted>>
    BY <1>4 DEF vars
  <2>2. TypeOK' /\ BootFrontier' /\ CallInv' /\ NoneBelow'
    BY <2>1 DEF IInv, TypeOK, BootFrontier, CallInv, NoneBelow, PagesAccounted,
                FreeOf, InHand, descriptors, lists, call
  <2> QED
    BY <2>1, <2>2, ControlKeeps
<1> QED
  BY <1>1, <1>2, <1>3, <1>4 DEF Next, Halted

\* Everything the invariant says holds of every state the allocator reaches.
THEOREM BuddyInvariant == Spec => []IInv
BY InitInv, NextInv, PTL DEF Spec

\* The types of the variables.
THEOREM BuddyTypeCorrect == Spec => []TypeOK
<1>1. IInv => TypeOK
  BY DEF IInv
<1> QED
  BY <1>1, BuddyInvariant, PTL

\* The lists and the descriptors agree at every level of both recursions.
THEOREM BuddyListsWellFormed == Spec => []ListsWellFormed
<1>1. IInv => ListsWellFormed
  BY DEF IInv
<1> QED
  BY <1>1, BuddyInvariant, PTL

\* No page is in two blocks that are handed out, or in one that is handed
\* out and one that is free.
THEOREM BuddyNoOverlap == Spec => []NoOverlap
<1>1. IInv => NoOverlap
  <2> SUFFICES ASSUME IInv, NEW b \in live
               PROVE  /\ Cells(b[1], b[2]) \subseteq Page
                      /\ \A c \in live :
                            b # c => Cells(b[1], b[2]) \intersect Cells(c[1], c[2]) = {}
                      /\ \A k \in Order : \A n \in FreeOf(k) :
                            Cells(b[1], b[2]) \intersect Cells(n, k) = {}
    BY DEF NoOverlap
  <2>1. TypeOK /\ Blocks
    BY DEF IInv
  <2>2. \A c \in live : /\ c[1] \in Page /\ c = <<c[1], c[2]>>
                        /\ ord[c[1]] = c[2] /\ flag[c[1]] # "free"
                        /\ flag[c[1]] \notin {"tails", "raw"}
    BY MemoryAssumption DEF IInv, LiveMarked, TypeOK
  <2>3. Cells(b[1], b[2]) \subseteq Page
    BY <2>1, <2>2, PlaceInMemory DEF Blocks, TypeOK
  <2>4. ASSUME NEW c \in live, b # c
        PROVE  Cells(b[1], b[2]) \intersect Cells(c[1], c[2]) = {}
    <3>1. b[1] # c[1]
      BY <2>2, <2>4
    <3> QED
      BY <2>1, <2>2, <3>1, BlocksDisjoint
  <2>5. ASSUME NEW k \in Order, NEW n \in FreeOf(k)
        PROVE  Cells(b[1], b[2]) \intersect Cells(n, k) = {}
    <3>1. n \in Page /\ flag[n] = "free" /\ ord[n] = k
      BY DEF FreeOf
    <3> QED
      BY <2>1, <2>2, <3>1, BlocksDisjoint
  <2> QED
    BY <2>3, <2>4, <2>5
<1> QED
  BY <1>1, BuddyInvariant, PTL

\* Between two calls no two free blocks are buddies, for any number of orders:
\* what was given back has become the largest blocks it can make.
THEOREM BuddyNoFreeBuddies == Spec => []NoFreeBuddies
<1>1. IInv => NoFreeBuddies
  BY DEF IInv, BuddiesApart, NoFreeBuddies
<1> QED
  BY <1>1, BuddyInvariant, PTL

\* A block that is handed out has a null prev link and the type and the order
\* that were asked for: what make_slabs relies on.
THEOREM BuddyFreshHeader == Spec => FreshHeader
<1> DEFINE Fresh == \A b \in live' \ live :
                prv'[b[1]] = Null /\ flag'[b[1]] = type /\ ord'[b[1]] = b[2]
<1>1. IInv /\ [Next]_vars => [Fresh]_vars
  <2> SUFFICES ASSUME IInv, Next PROVE Fresh
    OBVIOUS
  <2>1. TypeOK /\ ListsWellFormed
    BY DEF IInv
  <2>2. CASE Take
    <3>1. PICK k \in Order : k = lvl
      BY <2>1, <2>2, SpanNat DEF Take, TypeOK, Order
    <3>2. PICK n : n = head[k]
      OBVIOUS
    <3> DEFINE L == FreeList(k)
    <3> HIDE DEF L
    <3>3. CASE PopFrontFaults(L)
      BY <2>2, <3>1, <3>3 DEF Take, Fault, L
    <3>4. CASE ~PopFrontFaults(L)
      <4>1. /\ prv' = PopFront(L).prv /\ ~Empty(L) /\ L.head = n
            /\ flag' = [flag EXCEPT ![n] = MarkAs(k)]
            /\ ord' = [ord EXCEPT ![n] = k]
            /\ live' = IF k = req THEN live \union {<<n, k>>} ELSE live
        BY <2>2, <3>1, <3>2, <3>4 DEF Take, SetFreeList, HandOver, MarkAs, FreeList, L
      <4>2. /\ L \in Lists(Page, Link) /\ FreeOf(k) \in SUBSET Page
            /\ ListInv(L, FreeOf(k))
            /\ Null \notin Page /\ Page \union {Null} \subseteq Link
        BY <2>1, <3>1, FreeListType DEF ListsWellFormed, L
      <4>3. n \in FreeOf(k) /\ PopFront(L).prv[n] = Null
        BY <3>4, <4>1, <4>2, PopFrontKeeps
      <4> QED
        BY <2>1, <3>1, <4>1, <4>2, <4>3 DEF TypeOK, MarkAs
    <3> QED BY <3>3, <3>4
  <2>3. CASE Split
    <3>1. PICK b \in Page : b = blk /\ prv[b] = Null
      BY <2>3 DEF IInv, CallInv, Split
    <3>2. PICK k \in Order \ {MaxOrder} : \E u \in Page :
              k = ord[b] - 1 /\ u = BuddyOf(b, k) /\ u # b
      BY <2>3, <3>1, SplitPlace DEF Split
    <3>3. PICK u \in Page : u = BuddyOf(b, k) /\ u # b
      BY <3>2
    <3>4. /\ prv' = PushBack(FreeList(k), u).prv
          /\ flag' = [flag EXCEPT ![u] = "free", ![b] = MarkAs(k)]
          /\ ord' = [ord EXCEPT ![u] = k, ![b] = k]
          /\ live' = IF k = req THEN live \union {<<b, k>>} ELSE live
      BY <2>3, <3>1, <3>2, <3>3 DEF Split, SetFreeList, HandOver, MarkAs
    <3>5. prv'[b] = Null
      BY <2>1, <3>1, <3>3, <3>4 DEF PushBack, Singleton, FreeList, TypeOK
    <3> QED
      BY <2>1, <3>1, <3>4, <3>5 DEF TypeOK, MarkAs
  <2>4. CASE ~Take /\ ~Split
    <3>1. live' \subseteq live
      BY <2>4 DEF Next, Step, AllocStep, FreeStep, Boot, BootDone, Alloc, Free,
                  ClimbFails, ClimbOn, Merge, Keep, Fault, Halted, vars
    <3> QED
      BY <3>1
  <2> QED
    BY <2>2, <2>3, <2>4
<1> QED
  BY <1>1, BuddyInvariant, PTL DEF Spec, FreshHeader

\* Both recursions of the allocator end, whatever the lists hold.
THEOREM BuddyCallsEnd == Spec => CallsEnd
<1> DEFINE Nearer == (pc \in {"climb", "split", "merge"}) => LevelsLeft' < LevelsLeft
<1>1. IInv /\ [Next]_vars => [Nearer]_vars
  <2> SUFFICES ASSUME IInv, Next, pc \in {"climb", "split", "merge"}
               PROVE  LevelsLeft' < LevelsLeft
    OBVIOUS
  <2>1. /\ MaxOrder \in Nat /\ lvl \in 0 .. MaxOrder + 1 /\ req \in Nat
        /\ ord \in [Page -> Order] /\ blk \in Page \union {Null}
        /\ pc = "split" => blk \in Page /\ ord[blk] > req
        /\ pc = "merge" => blk \in Page
    <3>1. /\ MaxOrder \in Nat /\ lvl \in 0 .. MaxOrder + 1 /\ req \in 0 .. MaxOrder + 1
          /\ ord \in [Page -> Order] /\ blk \in Page \union {Null}
      BY SpanAssumption DEF IInv, TypeOK
    <3>2. /\ pc = "split" => blk \in Page /\ ord[blk] > req
          /\ pc = "merge" => blk \in Page
      BY DEF IInv, CallInv
    <3> QED BY <3>1, <3>2
  <2>2. CASE ClimbFails
    BY <2>1, <2>2 DEF ClimbFails, Return, LevelsLeft
  <2>3. CASE ClimbOn
    BY <2>1, <2>3 DEF ClimbOn, LevelsLeft
  <2>4. CASE Take
    <3>1. LevelsLeft \in Nat /\ LevelsLeft > MaxOrder
      BY <2>1, <2>4 DEF Take, LevelsLeft
    <3>2. pc' \in {"idle", "fault"} => LevelsLeft' = 0
      BY DEF LevelsLeft
    <3>3. CASE pc' = "split"
      <4>1. ord' = [ord EXCEPT ![blk'] = lvl] /\ blk' = head[lvl] /\ lvl \in Order
        BY <2>1, <2>4, <3>3 DEF Take, HandOver, Fault, Return, Order
      <4>2. TypeOK' /\ CallInv'
        BY NextInv DEF IInv
      <4>3. blk' \in Page /\ ord' \in [Page -> Order]
        BY <3>3, <4>2 DEF TypeOK, CallInv
      <4>4. PICK k \in Order : k = ord'[blk']
        BY <4>3
      <4>5. LevelsLeft' = k
        BY <3>3, <4>4 DEF LevelsLeft
      <4>6. k \in Nat /\ k <= MaxOrder
        BY <2>1 DEF Order
      <4> QED BY <2>1, <3>1, <4>5, <4>6
    <3>4. pc' \in {"idle", "fault", "split"}
      BY <2>4 DEF Take, Fault, HandOver, Return
    <3> QED BY <2>1, <3>1, <3>2, <3>3, <3>4
  <2>5. CASE Split
    <3>1. pc = "split" /\ blk \in Page /\ ord[blk] \in Nat /\ ord[blk] > 0
      BY <2>1, <2>5 DEF Split, Order
    <3>2. LevelsLeft = ord[blk]
      BY <3>1 DEF LevelsLeft
    <3>3. CASE pc' = "idle"
      BY <3>1, <3>2, <3>3 DEF LevelsLeft
    <3>4. CASE pc' = "split"
      <4>1. blk' = blk /\ ord'[blk] = ord[blk] - 1
        BY <2>1, <2>5, <3>1, <3>4 DEF Split, HandOver, Return
      <4> QED BY <3>1, <3>2, <3>4, <4>1 DEF LevelsLeft
    <3> QED BY <2>5, <3>3, <3>4 DEF Split, HandOver, Return
  <2>6. CASE Merge
    <3>1. pc = "merge" /\ blk \in Page /\ ord[blk] \in Nat /\ ord[blk] < MaxOrder
      BY <2>1, <2>6 DEF Merge, Mergeable, Order
    <3>2. LevelsLeft = MaxOrder + 1 - ord[blk]
      BY <3>1 DEF LevelsLeft
    <3>3. CASE pc' = "fault"
      BY <2>1, <3>1, <3>2, <3>3 DEF LevelsLeft
    <3>4. CASE pc' = "merge"
      <4>1. blk' \in Page
        <5>1. IInv'
          BY NextInv
        <5> QED BY <5>1, <3>4 DEF IInv, CallInv
      <4>2. ord'[blk'] = ord[blk] + 1
        BY <2>1, <2>6, <3>1, <3>4, <4>1 DEF Merge, Fault
      <4> QED BY <2>1, <3>1, <3>2, <3>4, <4>2 DEF LevelsLeft
    <3>5. pc' \in {"merge", "fault"}
      BY <2>6 DEF Merge, Fault
    <3> QED BY <3>3, <3>4, <3>5
  <2>7. CASE Keep
    BY <2>1, <2>7 DEF Keep, Return, LevelsLeft, Order
  <2>8. \/ ClimbFails \/ ClimbOn \/ Take \/ Split \/ Merge \/ Keep
    BY DEF Next, Step, AllocStep, FreeStep, Boot, BootDone, Alloc, Free, Halted
  <2> QED BY <2>2, <2>3, <2>4, <2>5, <2>6, <2>7, <2>8
<1> QED
  BY <1>1, BuddyInvariant, PTL DEF Spec, CallsEnd
-----------------------------------------------------------------------------
(* What a request can be given.                                            *)

\* Span doubles from order to order, so each size is a multiple of those below.
LEMMA SpanMultiple ==
    ASSUME NEW j \in Order, NEW k \in Order, j <= k
    PROVE  \E d \in Nat : Span[k] = d * Span[j]
<1> DEFINE Bad == {i \in Order : j <= i /\ ~ \E d \in Nat : Span[i] = d * Span[j]}
<1>0. j \in Nat /\ k \in Nat /\ MaxOrder \in Nat /\ Order = 0 .. MaxOrder
      /\ \A i \in Order : Span[i] \in Nat
  BY SpanNat DEF Order
<1>1. SUFFICES ASSUME Bad # {} PROVE FALSE
  OBVIOUS
<1>2. PICK i \in Bad : \A m \in Bad : i <= m
  <2>1. Bad \in SUBSET Nat
    BY <1>0
  <2> HIDE DEF Bad
  <2> QED
    BY <1>1, <2>1, LeastNumber
<1>3. i # j
  BY <1>0, <1>2, Span[j] = 1 * Span[j]
<1>4. i - 1 \in Order \ {MaxOrder} /\ j <= i - 1 /\ i - 1 \notin Bad /\ i = (i - 1) + 1
  BY <1>0, <1>2, <1>3
<1>5. PICK d \in Nat : Span[i - 1] = d * Span[j]
  BY <1>4
<1>6. Span[i] = 2 * Span[i - 1]
  BY <1>4, SpanNat
<1>7. Span[i] = (2 * d) * Span[j]
  BY <1>0, <1>5, <1>6
<1> QED
  BY <1>2, <1>7, 2 * d \in Nat

LEMMA FirstCell ==
    ASSUME NEW k \in Order, NEW n \in Nat
    PROVE  n \in Cells(n, k)
BY SpanNat DEF Cells

\* Two places that meet are one within the other.
LEMMA PlacesNest ==
    ASSUME NEW j \in Order, NEW k \in Order, j <= k,
           NEW m \in Nat, NEW n \in Nat, Aligned(m, j), Aligned(n, k),
           NEW x \in Nat, x \in Cells(m, j), x \in Cells(n, k)
    PROVE  Cells(m, j) \subseteq Cells(n, k)
<1> DEFINE s == Span[j]
<1>1. s \in Nat \ {0}
  BY SpanNat
<1>2. PICK d \in Nat : Span[k] = d * s
  BY SpanMultiple
<1>3. PICK p \in Nat : m = p * s
  BY DEF Aligned
<1>4. PICK q \in Nat : n = q * (d * s)
  BY <1>2 DEF Aligned
<1> DEFINE a == q * d
           z == q * d + d
<1>5. a \in Nat /\ z \in Nat /\ n = a * s /\ n + Span[k] = z * s
  BY <1>1, <1>2, <1>4
<1>6a. p * s \in Nat /\ a * s \in Nat /\ z * s \in Nat /\ (p + 1) * s = p * s + s
  BY <1>1, <1>5
<1> HIDE DEF a, z
<1>6. /\ Cells(m, j) = p * s .. p * s + s - 1
      /\ Cells(n, k) = a * s .. z * s - 1
  <2>1. Cells(m, j) = m .. m + s - 1 /\ Cells(n, k) = n .. (n + Span[k]) - 1
    BY SpanNat DEF Cells
  <2> HIDE DEF s
  <2> QED BY <1>3, <1>5, <2>1
<1> HIDE DEF s
<1>7. p * s <= x /\ x < p * s + s /\ a * s <= x /\ x < z * s
  BY <1>1, <1>6, <1>6a
<1>8. p < z
  BY <1>1, <1>5, <1>6a, <1>7, ProductOrder
<1>9. p * s + s <= z * s
  BY <1>1, <1>5, <1>8, ProductStep
<1>10. a < p + 1
  BY <1>1, <1>5, <1>6a, <1>7, p + 1 \in Nat, ProductOrder
<1>11. a * s <= p * s
  <2>1. CASE a = p
    BY <1>6a, <2>1
  <2>2. CASE a < p
    <3>1. a * s + s <= p * s
      BY <1>1, <1>5, <2>2, ProductStep
    <3> QED BY <1>1, <1>6a, <3>1
  <2> QED BY <1>5, <1>10, <2>1, <2>2
<1> QED
  BY <1>1, <1>6, <1>6a, <1>9, <1>11

\* When every page of a place is free, a block of that order or a larger one is.
\* Else take a free block of the least order in the place: its buddy is in the
\* place too and free, so it is in a free block; that has the same order, and
\* then two buddies are free, or a larger one, and then it has both halves.
LEMMA FreePlaceHasBlock ==
    ASSUME IInv, NEW k \in Order, NEW n \in Page, Aligned(n, k),
           \A x \in Cells(n, k) :
               \E h \in Page : h \in FreeOf(ord[h]) /\ x \in Cells(h, ord[h])
    PROVE  \E j \in Order : k <= j /\ FreeOf(j) # {}
<1> SUFFICES ASSUME \A j \in Order : k <= j => FreeOf(j) = {}
             PROVE  FALSE
  OBVIOUS
<1>1. /\ Blocks /\ BuddiesApart /\ ord \in [Page -> Order]
      /\ Order \subseteq Nat /\ Page \subseteq Nat
      /\ \A j \in Order : Span[j] \in Nat \ {0}
  BY PageNat, SpanNat DEF IInv, TypeOK
<1>2. \A h \in Page : h \in FreeOf(ord[h]) =>
          /\ ord[h] \in Order /\ ord[h] < k
          /\ flag[h] = "free" /\ Aligned(h, ord[h])
  <2> SUFFICES ASSUME NEW h \in Page, h \in FreeOf(ord[h])
               PROVE  /\ ord[h] \in Order /\ ord[h] < k
                      /\ flag[h] = "free" /\ Aligned(h, ord[h])
    OBVIOUS
  <2>1. ord[h] \in Order /\ flag[h] = "free"
    BY <1>1 DEF FreeOf
  <2>2. ~(k <= ord[h])
    BY <2>1
  <2>3. ord[h] \in Nat /\ k \in Nat
    BY <1>1, <2>1
  <2> QED
    BY <1>1, <2>1, <2>2, <2>3 DEF Blocks
<1> DEFINE T == {j \in Order : \E h \in Cells(n, k) : h \in FreeOf(j)}
<1>3. T # {}
  <2>1. n \in Cells(n, k) /\ n \in Nat
    BY <1>1, FirstCell
  <2>2. PICK h \in Page : h \in FreeOf(ord[h]) /\ n \in Cells(h, ord[h])
    BY <2>1
  <2>3. PICK i \in Order : i = ord[h] /\ i <= k /\ Aligned(h, i) /\ h \in Nat
    <3>1. ord[h] \in Order /\ ord[h] < k /\ Aligned(h, ord[h])
      BY <1>2, <2>2
    <3>2. ord[h] \in Nat /\ k \in Nat /\ h \in Nat
      BY <1>1, <3>1
    <3> QED BY <3>1, <3>2
  <2>4. Cells(h, i) \subseteq Cells(n, k)
    BY <2>1, <2>2, <2>3, PlacesNest
  <2>5. h \in Cells(h, i)
    BY <2>3, FirstCell
  <2> QED
    BY <2>2, <2>3, <2>4, <2>5
<1>4. PICK j \in T : \A i \in T : j <= i
  BY <1>1, <1>3, LeastNumber
<1>5. PICK h \in Cells(n, k) : h \in FreeOf(j)
  BY <1>4
<1>6. /\ h \in Page /\ h \in Nat /\ ord[h] = j /\ flag[h] = "free"
      /\ j \in Order \ {MaxOrder} /\ j < k /\ Aligned(h, j)
  <2>1. h \in Page /\ ord[h] = j /\ h \in FreeOf(ord[h])
    BY <1>5 DEF FreeOf
  <2>2. j # MaxOrder
    BY <1>2, <2>1, SpanNat DEF Order
  <2> QED
    BY <1>1, <1>2, <2>1, <2>2
\* m is the place of h and its buddy w together.
<1>7. PICK m \in Nat, w \in Nat :
          /\ w = BuddyOf(h, j) /\ w # h /\ Aligned(m, j + 1)
          /\ h \in Cells(m, j + 1) /\ w \in Cells(m, j + 1)
  <2>1. PICK m \in Nat : /\ Aligned(m, j + 1)
                         /\ \/ h = m /\ BuddyOf(h, j) = m + Span[j]
                            \/ h = m + Span[j] /\ BuddyOf(h, j) = m
    BY <1>6, BuddyOfAny
  <2>2. m \in Cells(m, j + 1) /\ m + Span[j] \in Cells(m, j + 1)
        /\ m + Span[j] # m /\ m + Span[j] \in Nat
    BY <1>1, <1>6, <2>1, Halves
  <2> QED
    BY <2>1, <2>2
<1>8. j + 1 \in Order /\ j + 1 \in Nat /\ k \in Nat /\ j + 1 <= k
  BY <1>1, <1>6, SpanNat
<1>9. Cells(m, j + 1) \subseteq Cells(n, k)
  BY <1>1, <1>5, <1>6, <1>7, <1>8, PlacesNest
<1>10. PICK g \in Page : g \in FreeOf(ord[g]) /\ w \in Cells(g, ord[g])
  BY <1>7, <1>9
<1>11. PICK i \in Order : i = ord[g] /\ i < k /\ Aligned(g, i) /\ i \in Nat
  BY <1>1, <1>2, <1>10
<1>12. Cells(g, i) \subseteq Cells(n, k)
  BY <1>1, <1>7, <1>9, <1>10, <1>11, PlacesNest
<1>13. i \in T
  <2>1. g \in Cells(g, i)
    BY <1>1, <1>11 DEF Cells
  <2> QED
    BY <1>10, <1>11, <1>12, <2>1
<1>14. CASE i = j
  \* Both are places of order j, so g is w.
  <2>1. Aligned(w, j)
    BY <1>6, <1>7, BuddyOfAny, BuddyOfLower
  <2>2. w \in Cells(w, j)
    BY <1>1, <1>6, <1>7 DEF Cells
  <2>3. Cells(w, j) \subseteq Cells(g, j) /\ Cells(g, j) \subseteq Cells(w, j)
    BY <1>1, <1>6, <1>7, <1>10, <1>11, <1>14, <2>1, <2>2, PlacesNest
  <2>4. g \in Cells(g, j)
    BY <1>1, <1>6 DEF Cells
  <2>5. g = w
    BY <1>1, <1>6, <1>7, <2>2, <2>3, <2>4 DEF Cells
  <2> QED
    BY <1>1, <1>5, <1>6, <1>7, <1>10, <1>11, <1>14, <2>5 DEF BuddiesApart
<1>15. CASE i # j
  <2>1. j + 1 <= i
    BY <1>1, <1>4, <1>6, <1>11, <1>13, <1>15
  <2>2. Cells(m, j + 1) \subseteq Cells(g, i)
    BY <1>1, <1>7, <1>8, <1>10, <1>11, <2>1, PlacesNest
  <2>3. h \in Cells(g, i) /\ h # g
    BY <1>6, <1>7, <1>11, <1>15, <2>2
  <2>4. flag[g] = "free"
    BY <1>2, <1>10
  <2> QED
    BY <1>1, <1>6, <1>11, <2>3, <2>4 DEF Blocks
<1> QED BY <1>14, <1>15

-----------------------------------------------------------------------------
(* The lists and descriptors implement BlockAllocator.                     *)

\* The pages of the area are those makeBuddy has gone over and not reserved.
LEMMA ManagedPages ==
    ASSUME IInv, NEW x \in Page
    PROVE  x \in Managed <=>
             /\ flag[x] # "raw"
             /\ \A m \in Page : flag[m] = "reserved" => x \notin Cells(m, MaxOrder)
<1> DEFINE z == booted * Span[MaxOrder]
<1>1. x \in Nat /\ z \in Nat /\ (flag[x] = "raw" <=> x >= z)
  BY PageNat, SpanNat, MemoryAssumption DEF IInv, TypeOK, BootFrontier
<1>2. Managed = (0 .. z - 1)
                  \ UNION {Cells(m, MaxOrder) : m \in {e \in Page : flag[e] = "reserved"}}
  BY DEF Managed
<1> HIDE DEF z
<1>3. x \in 0 .. z - 1 <=> flag[x] # "raw"
  BY <1>1
<1> QED
  BY <1>2, <1>3

LEMMA ManagedKept ==
    ASSUME booted' = booted,
           \A n \in Page : flag'[n] = "reserved" <=> flag[n] = "reserved"
    PROVE  Managed' = Managed
<1>1. {m \in Page : flag'[m] = "reserved"} = {m \in Page : flag[m] = "reserved"}
  OBVIOUS
<1> QED
  BY <1>1 DEF Managed

\* The pages of a free block, in hand or not, or of a part of it, can be given.
LEMMA FreePagesFit ==
    ASSUME IInv, NEW n \in Page, flag[n] = "free",
           NEW k \in Order, k <= ord[n], Aligned(n, k)
    PROVE  <<n, k>> \in Abstract!Room(k)
<1>1. /\ TypeOK /\ Blocks /\ LiveMarked /\ PagesAccounted
      /\ ord[n] \in Order /\ n \in Nat /\ Aligned(n, ord[n])
      /\ Cells(n, ord[n]) \subseteq Page
  <2>1. Aligned(n, ord[n]) /\ ord[n] \in Order
    BY DEF IInv, TypeOK, Blocks
  <2> QED
    BY <2>1, PageNat, PlaceInMemory DEF IInv
<1>2. Cells(n, k) \subseteq Cells(n, ord[n])
  <2>1. n \in Cells(n, k) /\ n \in Cells(n, ord[n])
    BY <1>1, FirstCell
  <2> QED
    BY <1>1, <2>1, PlacesNest
<1>3. ASSUME NEW x \in Cells(n, ord[n]) PROVE x \in Managed
  <2>1. x \in Page /\ flag[x] # "raw"
    BY <1>1, <1>3 DEF Blocks
  <2>2. ASSUME NEW m \in Page, flag[m] = "reserved" PROVE x \notin Cells(m, MaxOrder)
    <3>1. ord[m] = MaxOrder /\ m # n
      BY <1>1, <2>2 DEF PagesAccounted
    <3>2. Cells(m, ord[m]) \intersect Cells(n, ord[n]) = {}
      BY <1>1, <2>2, <3>1, BlocksDisjoint
    <3> QED BY <1>3, <3>1, <3>2
  <2> QED
    BY <2>1, <2>2, ManagedPages
<1>4. ASSUME NEW c \in live, NEW x \in Cells(c[1], c[2])
      PROVE  x \notin Cells(n, ord[n])
  <2>1. /\ c[1] \in Page /\ ord[c[1]] = c[2] /\ c[1] # n
        /\ flag[c[1]] \notin {"tails", "raw"}
    BY <1>1, MemoryAssumption DEF TypeOK, LiveMarked
  <2>2. Cells(c[1], ord[c[1]]) \intersect Cells(n, ord[n]) = {}
    BY <1>1, <2>1, BlocksDisjoint
  <2> QED BY <1>4, <2>1, <2>2
<1>5. Cells(n, k) \subseteq Managed \ Abstract!Used
  BY <1>2, <1>3, <1>4 DEF Abstract!Used
<1>6. <<n, k>> \in Places
  BY DEF Places
<1> QED
  BY <1>5, <1>6 DEF Abstract!Room

\* nullptr is the answer only when nothing could have been given: the orders
\* from the one that is asked for have been seen empty.
LEMMA NoRoom ==
    ASSUME IInv, pc = "climb", lvl > MaxOrder
    PROVE  Abstract!Room(req) = {}
<1> SUFFICES ASSUME NEW b \in Places, b[2] = req,
                    Cells(b[1], req) \subseteq Managed \ Abstract!Used
             PROVE  FALSE
  BY DEF Abstract!Room
<1>1. PICK k \in Order, n \in Page : k = req /\ b = <<n, k>> /\ Aligned(n, k)
  BY DEF Places
<1>2. Cells(n, k) \subseteq Page
  BY <1>1, PlaceInMemory
<1>3. ASSUME NEW x \in Cells(n, k)
      PROVE  \E h \in Page : h \in FreeOf(ord[h]) /\ x \in Cells(h, ord[h])
  <2>1. x \in Page /\ x \in Managed /\ x \notin Abstract!Used
    BY <1>1, <1>2, <1>3
  <2>2. PICK h \in Page : flag[h] \notin {"tails", "raw"} /\ x \in Cells(h, ord[h])
    BY <2>1, ManagedPages DEF IInv, PagesAccounted
  <2>3. flag[h] # "reserved"
    BY <2>1, <2>2, ManagedPages DEF IInv, PagesAccounted
  <2>4. flag[h] \notin PageType
    <3>1. SUFFICES ASSUME flag[h] \in PageType PROVE FALSE
      OBVIOUS
    <3>2. <<h, ord[h]>> \in live
      BY <3>1 DEF IInv, PagesAccounted
    <3> QED
      BY <2>1, <2>2, <3>2 DEF Abstract!Used
  <2>5. flag[h] = "free" /\ InHand = {}
    BY <2>2, <2>3, <2>4 DEF IInv, TypeOK, Flag, CallInv, InHand
  <2> QED
    BY <2>2, <2>5 DEF FreeOf
<1>4. PICK j \in Order : k <= j /\ FreeOf(j) # {}
  BY <1>1, <1>3, FreePlaceHasBlock
<1>5. j < lvl
  BY SpanNat DEF IInv, TypeOK, Order
<1> QED
  BY <1>1, <1>4, <1>5 DEF IInv, NoneBelow

-----------------------------------------------------------------------------
(* A step of the code is a step of BlockAllocator, or leaves the user's     *)
(* view as it is.                                                          *)

Unseen ==
    /\ Managed' = Managed /\ live' = live /\ Asked' = Asked
    /\ GivingBack' <=> GivingBack
    /\ pc # "fault" /\ pc' # "fault"

LEMMA GivingBackOrNot == GivingBack \in BOOLEAN /\ GivingBack' \in BOOLEAN
BY DEF GivingBack

\* A block that is free, in hand or not, can be given in parts, too.
LEMMA FreePartFits ==
    ASSUME IInv, NEW n \in Page, flag[n] = "free",
           NEW j \in Order, j <= ord[n]
    PROVE  <<n, j>> \in Abstract!Room(j)
<1>1. PICK k \in Order : k = ord[n] /\ Aligned(n, k)
  BY DEF IInv, TypeOK, Blocks
<1>2. PICK d \in Nat : Span[k] = d * Span[j]
  BY <1>1, SpanMultiple
<1>3. PICK q \in 0 .. n : n = q * Span[k]
  BY <1>1 DEF Aligned
<1>4. n \in Nat /\ Span[j] \in Nat \ {0} /\ Span[k] \in Nat \ {0}
  BY PageNat, SpanNat
<1>5. (q * d) * Span[j] = n /\ q * d \in Nat
  <2> DEFINE s == Span[j]
  <2>1. s \in Nat /\ q \in Nat /\ d \in Nat /\ n = q * (d * s)
    BY <1>2, <1>3, <1>4
  <2> HIDE DEF s
  <2>2. q * (d * s) = (q * d) * s
    BY <2>1
  <2> QED
    BY <2>1, <2>2 DEF s
<1>6. Aligned(n, j)
  BY <1>4, <1>5, AlignedMultiple
<1> QED
  BY <1>6, FreePagesFit

\* A list whose ends differ has two blocks to give.
LEMMA TwoEnds ==
    ASSUME NEW l, NEW S, ListInv(l, S), ~Empty(l), ~Orphan(l)
    PROVE  l.head \in S /\ l.tail \in S /\ l.head # l.tail
BY DEF ListInv, Empty, Orphan

LEMMA BootAbstract ==
    ASSUME IInv, Boot
    PROVE  Abstract!Grow \/ Unseen
<1>0. pc = "boot" /\ pc' = "boot" /\ ~GivingBack /\ ~GivingBack'
  BY DEF Boot, GivingBack
<1>1. /\ TypeOK /\ Blocks /\ BootFrontier /\ PagesAccounted
      /\ pc = "boot" /\ blk = Null /\ live = {}
      /\ booted \in Nat /\ booted < Tops /\ Tops \in Nat
      /\ Asked = Null /\ Asked' = Null /\ live' = live
  BY MemoryAssumption DEF IInv, CallInv, BootFrontier, Boot, TypeOK, Asked, Serving
<1> PICK k : k = MaxOrder
  OBVIOUS
<1>2. k \in Order /\ Span[k] \in Nat \ {0}
  BY SpanNat
<1>3. PICK z \in Nat, n \in Nat :
          /\ n = booted * Span[k] /\ z = (booted + 1) * Span[k]
          /\ z = n + Span[k] /\ Aligned(n, k) /\ n \in Page
  <2>1. booted * Span[k] \in Nat /\ Aligned(booted * Span[k], k)
    BY <1>1, <1>2, AlignedMultiple
  <2>2. (booted + 1) * Span[k] = booted * Span[k] + Span[k]
    BY <1>1, <1>2
  <2>3. booted * Span[k] + Span[k] <= Tops * Span[k] /\ Tops * Span[k] \in Nat
    BY <1>1, <1>2, ProductStep
  <2> QED
    BY <1>2, <2>1, <2>2, <2>3 DEF Page
<1> DEFINE Kept == {m \in Page : flag[m] = "reserved"}
           Away == UNION {Cells(m, k) : m \in Kept}
<1>4. /\ Managed = (0 .. n - 1) \ Away
      /\ Cells(n, k) = n .. z - 1
      /\ 0 .. z - 1 = (0 .. n - 1) \union Cells(n, k)
      /\ <<n, k>> \in Places
  <2>1. Cells(n, k) = n .. (n + Span[k] - 1)
    BY DEF Cells
  <2>2. 0 .. z - 1 = (0 .. n - 1) \union (n .. z - 1)
    BY <1>2, <1>3
  <2> QED
    BY <1>2, <1>3, <2>1, <2>2 DEF Managed, Places
<1>5. \A m \in Page : flag[m] = "raw" <=> m >= n
  BY <1>1, <1>3 DEF BootFrontier
<1>6. Away \intersect Cells(n, k) = {}
  <2> SUFFICES ASSUME NEW m \in Kept, NEW x \in Cells(m, k), x \in Cells(n, k)
               PROVE  FALSE
    OBVIOUS
  <2>1. m \in Page /\ flag[m] = "reserved" /\ ord[m] = k /\ Aligned(m, k)
    BY <1>1 DEF PagesAccounted, Blocks
  <2>2. x \in Page
    BY <1>2, <2>1, PlaceInMemory
  <2>3. flag[x] # "raw"
    <3>1. \A y \in Cells(m, k) \ {m} : flag[y] = "tails"
      BY <1>1, <2>1 DEF Blocks
    <3> QED BY <2>1, <3>1
  <2> QED
    BY <1>2, <1>3, <1>4, <1>5, <2>2, <2>3, PageNat
<1>7. PICK f \in {"free", "reserved"} :
          /\ flag' = [m \in Page |-> IF m = n THEN f
                                     ELSE IF m \in Cells(n, k) THEN "tails"
                                     ELSE flag[m]]
          /\ booted' = booted + 1
  BY <1>3 DEF Boot, MarkPages
<1>8. \A m \in Cells(n, k) : m \in Page => flag[m] = "raw"
  BY <1>3, <1>4, <1>5, PageNat
<1>9. n \in Cells(n, k)
  BY <1>2, FirstCell
<1> DEFINE Kept2 == {m \in Page : flag'[m] = "reserved"}
<1>10. Managed' = (0 .. z - 1) \ UNION {Cells(m, k) : m \in Kept2}
  BY <1>3, <1>7 DEF Managed
<1>11. CASE f = "free"
  <2>1. Kept2 = Kept
    BY <1>7, <1>8, <1>9, <1>11
  <2>2. Managed' = Managed \union Cells(n, k)
    BY <1>4, <1>6, <1>10, <2>1
  <2> QED
    BY <1>0, <1>1, <1>4, <2>2, GivingBackOrNot
       DEF Abstract!Grow, Abstract!Idle
<1>12. CASE f = "reserved"
  <2>1. Kept2 = Kept \union {n}
    BY <1>3, <1>7, <1>8, <1>9, <1>12
  <2>2. UNION {Cells(m, k) : m \in Kept2} = Away \union Cells(n, k)
    BY <2>1
  <2>3. (0 .. n - 1) \intersect Cells(n, k) = {}
    BY <1>3, <1>4
  <2>4. Managed' = Managed
    BY <1>4, <1>10, <2>2, <2>3
  <2> QED
    BY <1>0, <1>1, <2>4 DEF Unseen
<1> QED BY <1>11, <1>12

LEMMA TakeAbstract ==
    ASSUME IInv, Take
    PROVE  \/ Abstract!Grant /\ pc' # "fault"
           \/ Unseen
           \/ Abstract!RequestPanics /\ pc' = "fault"
<1>0. PICK k \in Order : k = lvl
  BY SpanNat DEF IInv, Take, TypeOK, Order
<1> PICK n : n = head[k]
  OBVIOUS
<1> DEFINE L == FreeList(k)
<1> HIDE DEF L
<1>1. /\ TypeOK /\ ListsWellFormed /\ Blocks
      /\ pc = "climb" /\ blk = Null /\ ~Empty(L) /\ Asked = req /\ req \in Nat
      /\ ~GivingBack /\ req <= k
  BY <1>0 DEF IInv, CallInv, Take, TypeOK, Asked, Serving, GivingBack, L
<1>2. CASE PopFrontFaults(L)
  <2>1. /\ Fault /\ pc' = "fault" /\ blk' = Null /\ req' = req
        /\ flag' = flag /\ booted' = booted /\ live' = live
    BY <1>0, <1>1, <1>2 DEF Take, Fault, descriptors, call, L
  <2>2. /\ Managed' = Managed /\ Asked' = Asked
        /\ ~GivingBack'
    BY <1>1, <2>1, ManagedKept DEF Asked, Serving, GivingBack
  \* Both ends of the list are blocks the request could have been given.
  <2>3. PICK m \in FreeOf(k) : L.head \in FreeOf(k) /\ L.head # m
    <3>1. ListInv(L, FreeOf(k)) /\ ~Orphan(L)
      BY <1>1, <1>2 DEF ListsWellFormed, PopFrontFaults, L
    <3> QED BY <1>1, <3>1, TwoEnds
  <2>4. PICK h \in Page : h = L.head /\ h # m /\ flag[h] = "free" /\ ord[h] = k
                        /\ m \in Page /\ flag[m] = "free" /\ ord[m] = k
    BY <2>3 DEF FreeOf
  <2>5. req \in Order
    BY <1>0, <1>1, SpanNat DEF Order
  <2>6. <<h, req>> \in Abstract!Room(req) /\ <<m, req>> \in Abstract!Room(req)
    BY <1>1, <2>4, <2>5, FreePartFits
  <2>7. <<h, req>> # <<m, req>> /\ Asked # Null
    BY <1>1, <2>4, MemoryAssumption
  <2> QED
    BY <1>1, <2>1, <2>2, <2>6, <2>7, GivingBackOrNot
       DEF Abstract!RequestPanics
<1>3. CASE ~PopFrontFaults(L)
  <2>1. /\ flag' = [flag EXCEPT ![n] = MarkAs(k)]
        /\ booted' = booted
        /\ k = req => live' = live \union {<<n, k>>} /\ pc' = "idle"
        /\ k # req => live' = live /\ pc' = "split" /\ req' = req
        /\ pc' # "fault" /\ ~GivingBack'
    BY <1>0, <1>3 DEF Take, HandOver, Return, GivingBack, L
  <2>2. L.head \in FreeOf(k) /\ L.head = n
    <3>1. /\ L \in Lists(Page, Link) /\ FreeOf(k) \in SUBSET Page
          /\ ListInv(L, FreeOf(k)) /\ L.head = n
          /\ Null \notin Page /\ Page \union {Null} \subseteq Link
      BY <1>0, <1>1, FreeListType DEF ListsWellFormed, FreeList, L
    <3>2. L.head \in FreeOf(k)
      BY <1>1, <1>3, <3>1, PopFrontKeeps
    <3> QED BY <3>1, <3>2
  <2>3. n \in Page /\ flag[n] = "free" /\ ord[n] = k
    BY <2>2 DEF FreeOf
  <2>4. Managed' = Managed
    <3>1. MarkAs(k) # "reserved"
      BY <1>1, MemoryAssumption DEF MarkAs, TypeOK
    <3>2. \A m \in Page : flag'[m] = "reserved" <=> flag[m] = "reserved"
      BY <1>1, <2>1, <2>3, <3>1 DEF TypeOK
    <3> QED BY <2>1, <3>2, ManagedKept
  <2>5. CASE k = req
    <3>1. <<n, k>> \in Abstract!Room(Asked)
      <4>1. Aligned(n, k) /\ k <= ord[n]
        BY <1>1, <2>3, SpanNat DEF Blocks
      <4> QED
        BY <1>1, <2>3, <2>5, <4>1, FreePagesFit
    <3>2. Asked' = Null /\ Asked # Null
      BY <1>1, <2>1, <2>5, MemoryAssumption DEF Asked, Serving
    <3> QED
      BY <1>1, <2>1, <2>4, <2>5, <3>1, <3>2, GivingBackOrNot DEF Abstract!Grant
  <2>6. CASE k # req
    BY <1>1, <2>1, <2>4, <2>6 DEF Unseen, Asked, Serving
  <2> QED BY <2>5, <2>6
<1> QED BY <1>2, <1>3

LEMMA SplitAbstract ==
    ASSUME IInv, Split
    PROVE  \/ Abstract!Grant /\ pc' # "fault"
           \/ Unseen
<1>0. PICK b \in Page : b = blk
  BY DEF IInv, CallInv, Split
<1>1. /\ TypeOK /\ pc = "split" /\ flag[b] = "free" /\ Asked = req /\ req \in Nat
      /\ b \in Nat /\ ord[b] \in Nat /\ ~GivingBack
  <2>1. TypeOK /\ pc = "split" /\ flag[b] = "free" /\ Asked = req
    BY <1>0 DEF IInv, CallInv, Split, Asked, Serving
  <2>2. req \in Nat /\ ord[b] \in Order
    BY <2>1 DEF TypeOK
  <2> QED BY <2>1, <2>2, PageNat, SpanNat DEF GivingBack
<1>2. PICK k \in Order \ {MaxOrder} : \E u \in Page :
          /\ k = ord[b] - 1 /\ u = BuddyOf(b, k) /\ u # b
          /\ flag[u] = "tails" /\ Aligned(b, k)
  BY <1>0, <1>1, SplitPlace
<1>3. PICK u \in Page : u = BuddyOf(b, k) /\ u # b /\ flag[u] = "tails" /\ Aligned(b, k)
  BY <1>2
<1>4. /\ flag' = [flag EXCEPT ![u] = "free", ![b] = MarkAs(k)]
      /\ booted' = booted
      /\ k = req => live' = live \union {<<b, k>>} /\ pc' = "idle"
      /\ k # req => live' = live /\ pc' = "split" /\ req' = req
      /\ pc' # "fault" /\ ~GivingBack'
  BY <1>0, <1>2, <1>3 DEF Split, HandOver, Return, GivingBack
<1>5. Managed' = Managed
  <2>1. MarkAs(k) # "reserved"
    BY <1>1, MemoryAssumption DEF MarkAs, TypeOK
  <2>2. \A m \in Page : flag'[m] = "reserved" <=> flag[m] = "reserved"
    BY <1>1, <1>3, <1>4, <2>1 DEF TypeOK
  <2> QED BY <1>4, <2>2, ManagedKept
<1>6. CASE k = req
  <2>1. <<b, k>> \in Abstract!Room(Asked)
    <3>1. k <= ord[b] /\ k \in Order
      BY <1>1, <1>2
    <3> QED
      BY <1>1, <1>3, <1>6, <3>1, FreePagesFit
  <2>2. Asked' = Null /\ Asked # Null
    BY <1>1, <1>4, <1>6, MemoryAssumption DEF Asked, Serving
  <2> QED
    BY <1>1, <1>4, <1>5, <1>6, <2>1, <2>2, GivingBackOrNot DEF Abstract!Grant
<1>7. CASE k # req
  BY <1>1, <1>4, <1>5, <1>7 DEF Unseen, Asked, Serving
<1> QED BY <1>6, <1>7

LEMMA FreeAbstract ==
    ASSUME IInv, NEW b \in live, NEW x \in Scribble, NEW y \in Scribble,
           Free(b[1], b[2], x, y)
    PROVE  Abstract!Free(b) /\ pc # "fault" /\ pc' # "fault"
<1>1. b[1] \in Page /\ b = <<b[1], b[2]>> /\ flag[b[1]] \in PageType
      /\ flag \in [Page -> Flag]
  BY DEF IInv, TypeOK, LiveMarked
<1>2. \A m \in Page : flag'[m] = "reserved" <=> flag[m] = "reserved"
  BY <1>1, MemoryAssumption DEF Free
<1>3. Managed' = Managed
  BY <1>2, ManagedKept DEF Free
<1>4. /\ Asked = Null /\ Asked' = Null
      /\ ~GivingBack /\ GivingBack'
      /\ pc # "fault" /\ pc' # "fault"
  BY DEF Free, Asked, Serving, GivingBack
<1> QED
  BY <1>1, <1>3, <1>4 DEF Free, Abstract!Free, Abstract!Idle

\* A merge stops the kernel only in pop_node, for the buddy.
LEMMA MergeFaults ==
    ASSUME IInv, Merge, pc' = "fault"
    PROVE  \E k \in Order \ {MaxOrder} : \E n \in FreeOf(k) :
               k = ord[blk] /\ PopNodeFaults(FreeList(k), n)
<1> DEFINE n == BuddyOf(blk, ord[blk])
<1>1. /\ PopNodeFaults(FreeList(ord[blk]), n)
      /\ flag[n] = "free" /\ ord[n] = ord[blk] /\ ord[blk] < MaxOrder
  BY DEF Merge, Mergeable
<1>2. blk \in Page /\ ord[blk] \in Order /\ Aligned(blk, ord[blk])
  BY DEF IInv, TypeOK, CallInv, Merge, Blocks
<1>3. ord[blk] # MaxOrder
  BY <1>1, <1>2, SpanNat
<1>4. n \in Page /\ n # blk
  BY <1>2, <1>3, TwoHalves
<1>5. n \in FreeOf(ord[blk])
  BY <1>1, <1>4 DEF FreeOf, InHand
<1> QED BY <1>1, <1>2, <1>3, <1>5

\* pop_node goes through null only in a list of two or more.
LEMMA TwoBeside ==
    ASSUME IInv, NEW k \in Order, NEW n \in FreeOf(k), PopNodeFaults(FreeList(k), n)
    PROVE  \E x, y \in FreeOf(k) : x # y
<1> DEFINE L == FreeList(k)
<1>1. ListInv(L, FreeOf(k)) /\ Rooted(L, FreeOf(k))
  BY DEF IInv, ListsWellFormed, ListsRooted
<1> HIDE DEF L
<1>2. CASE PopFrontFaults(L)
  BY <1>1, <1>2, TwoEnds DEF PopFrontFaults
<1>3. CASE n # L.head
  <2>1. L.head \in FreeOf(k)
    BY <1>1 DEF ListInv, Rooted
  <2> QED BY <1>3, <2>1
<1> QED BY <1>2, <1>3 DEF PopNodeFaults, L

LEMMA FreeStepAbstract ==
    ASSUME IInv, FreeStep
    PROVE  \/ Abstract!Freed /\ pc' # "fault"
           \/ Unseen
           \/ Abstract!FreePanics /\ pc' = "fault"
<1>0. PICK b \in Page : b = blk /\ flag[b] = "free" /\ pc = "merge" /\ b # Null
  BY PageNat DEF IInv, CallInv, FreeStep, Merge, Keep
<1>1. Asked = Null /\ flag \in [Page -> Flag] /\ GivingBack /\ pc # "fault"
  BY <1>0 DEF Asked, Serving, GivingBack, IInv, TypeOK
<1>2. CASE Keep
  <2>1. flag' = flag /\ booted' = booted /\ live' = live /\ pc' = "idle"
    BY <1>2 DEF Keep, Return
  <2>2. Managed' = Managed /\ Asked' = Null /\ ~GivingBack'
    BY <2>1, ManagedKept DEF Asked, Serving, GivingBack
  <2> QED
    BY <1>1, <2>1, <2>2 DEF Abstract!Freed
<1>3. CASE Merge /\ pc' = "fault"
  <2>1. Fault
    BY <1>0, <1>3 DEF Merge
  <2>2. flag' = flag /\ booted' = booted /\ live' = live /\ blk' = b
    BY <1>0, <2>1 DEF Fault, descriptors
  <2>3. /\ Managed' = Managed /\ Asked' = Asked
        /\ GivingBack'
    BY <1>0, <1>1, <1>3, <2>2, ManagedKept DEF Asked, Serving, GivingBack
  <2>4. PICK k \in Order \ {MaxOrder} : \E n \in FreeOf(k) :
            k = ord[b] /\ PopNodeFaults(FreeList(k), n)
    BY <1>0, <1>3, MergeFaults
  <2>5. PICK m \in FreeOf(k), n \in FreeOf(k) : m # n
    BY <2>4, TwoBeside
  <2>6. /\ m \in Page /\ flag[m] = "free" /\ ord[m] = k /\ m # b
        /\ n \in Page /\ flag[n] = "free" /\ ord[n] = k /\ n # b
    BY <1>0, <2>5 DEF FreeOf, InHand
  <2>7. /\ <<b, k>> \in Abstract!Room(k) /\ <<m, k>> \in Abstract!Room(k)
        /\ <<n, k>> \in Abstract!Room(k)
    <3>1. k <= k
      BY SpanNat
    <3> QED BY <1>0, <2>4, <2>6, <3>1, FreePartFits
  <2>8. <<b, k>> # <<m, k>> /\ <<b, k>> # <<n, k>> /\ <<m, k>> # <<n, k>>
    BY <2>5, <2>6
  <2>9. k \in 0 .. MaxOrder + 1
    BY SpanNat DEF Order
  <2> QED
    BY <1>1, <1>3, <2>2, <2>3, <2>7, <2>8, <2>9 DEF Abstract!FreePanics
<1>4. CASE Merge /\ pc' # "fault"
  <2>1. PICK k \in Order \ {MaxOrder} : k = ord[b] /\ Mergeable(b, k) /\ Aligned(b, k)
    <3>1. ord[b] \in Order /\ ord[b] < MaxOrder /\ Mergeable(b, ord[b]) /\ Aligned(b, ord[b])
      BY <1>0, <1>4 DEF Merge, Mergeable, IInv, TypeOK, Blocks
    <3>2. ord[b] # MaxOrder
      BY <3>1, SpanNat
    <3> QED BY <3>1, <3>2
  <2>2. PICK w : w = BuddyOf(b, k)
    OBVIOUS
  <2>3. BuddyOf(w, k) = b /\ b \in Nat
    BY <1>0, <2>1, <2>2, PageNat, BuddyTwice
  <2>4. PICK m \in {b, w}, u \in {b, w} :
            flag' = [flag EXCEPT ![u] = "tails", ![m] = "free"]
            /\ booted' = booted /\ live' = live /\ pc' = "merge"
    BY <1>0, <1>4, <2>1, <2>2, <2>3 DEF Merge, Fault, Primary
  <2>5. flag[w] = "free"
    BY <2>1, <2>2 DEF Mergeable
  <2>6. \A n \in Page : flag'[n] = "reserved" <=> flag[n] = "reserved"
    BY <1>0, <1>1, <2>4, <2>5
  <2>7. Managed' = Managed
    BY <2>4, <2>6, ManagedKept
  <2> QED
    BY <1>1, <2>4, <2>7 DEF Unseen, Asked, Serving, GivingBack
<1> QED BY <1>2, <1>3, <1>4 DEF FreeStep

\* Whoever asks for a block and is answered is given one that is free and whole,
\* and nullptr only when there is none: splitting and merging lose no memory, for
\* any number of orders, any memory and any sequence of calls.  Page faults are
\* part of it: a request stops the kernel only where it had two blocks to choose
\* from, and giving a block back only next to two others of its size.
THEOREM BuddyImplementsBlockAllocator == Spec => ImplementsBlockAllocator
<1>1. Init => Abstract!Init
  <2> SUFFICES ASSUME Init PROVE Abstract!Init
    OBVIOUS
  <2>1. booted * Span[MaxOrder] = 0
    BY SpanNat DEF Init
  <2> QED
    BY <2>1 DEF Init, Abstract!Init, Managed, Asked, Serving, GivingBack
<1>2. IInv /\ [Next]_vars => [Abstract!Next]_(Abstract!vars)
  <2> SUFFICES ASSUME IInv, [Next]_vars PROVE [Abstract!Next]_(Abstract!vars)
    OBVIOUS
  <2>0. CASE Unseen
    BY <2>0, GivingBackOrNot DEF Unseen, Abstract!vars
  <2>1. CASE Boot
    <3>1. pc # "fault" /\ pc' # "fault"
      BY <2>1 DEF Boot
    <3> QED
      BY <2>0, <2>1, <3>1, BootAbstract DEF Abstract!Next, Abstract!Returning
  <2>2. CASE BootDone
    <3>1. flag' = flag /\ booted' = booted /\ live' = live
      BY <2>2 DEF BootDone, descriptors
    <3>2. Unseen
      BY <2>2, <3>1, ManagedKept DEF BootDone, Unseen, Asked, Serving, GivingBack
    <3> QED BY <2>0, <3>2
  <2>3. CASE ClimbFails
    <3>1. flag' = flag /\ booted' = booted /\ live' = live
      BY <2>3 DEF ClimbFails, descriptors
    <3>2. /\ Asked = req /\ req # Null /\ Asked' = Null /\ pc = "climb"
          /\ lvl > MaxOrder /\ ~GivingBack /\ ~GivingBack' /\ pc' # "fault"
      BY <2>3, MemoryAssumption, SpanNat
         DEF ClimbFails, Return, Asked, Serving, GivingBack, IInv, TypeOK
    <3>3. Managed' = Managed
      BY <3>1, ManagedKept
    <3>4. Abstract!Room(req) = {}
      BY <3>2, NoRoom
    <3>5. Abstract!Refuse
      BY <3>1, <3>2, <3>3, <3>4, GivingBackOrNot DEF Abstract!Refuse
    <3> QED
      BY <3>2, <3>5 DEF Abstract!Next, Abstract!Returning
  <2>4. CASE ClimbOn
    <3>1. flag' = flag /\ booted' = booted /\ live' = live
      BY <2>4 DEF ClimbOn, descriptors
    <3>2. Unseen
      BY <2>4, <3>1, ManagedKept DEF ClimbOn, Unseen, Asked, Serving, GivingBack
    <3> QED BY <2>0, <3>2
  <2>5. CASE Take
    <3>1. pc # "fault"
      BY <2>5 DEF Take
    <3> QED
      BY <2>0, <2>5, <3>1, TakeAbstract DEF Abstract!Next, Abstract!Returning
  <2>6. CASE Split
    <3>1. pc # "fault"
      BY <2>6 DEF Split
    <3> QED
      BY <2>0, <2>6, <3>1, SplitAbstract DEF Abstract!Next, Abstract!Returning
  <2>7. CASE FreeStep
    <3>1. pc # "fault"
      BY <2>7 DEF FreeStep, Merge, Keep
    <3> QED
      BY <2>0, <2>7, <3>1, FreeStepAbstract DEF Abstract!Next, Abstract!Returning
  <2>8. ASSUME NEW k \in 0 .. MaxOrder + 1, NEW t \in PageType, Alloc(k, t)
        PROVE  Abstract!Next
    <3>1. flag' = flag /\ booted' = booted /\ live' = live
      BY <2>8 DEF Alloc, descriptors
    <3>2. /\ Asked = Null /\ Asked' = k /\ ~GivingBack /\ ~GivingBack'
          /\ pc # "fault" /\ pc' # "fault"
      BY <2>8 DEF Alloc, Asked, Serving, GivingBack
    <3>3. Managed' = Managed
      BY <3>1, ManagedKept
    <3>4. Abstract!Ask(k)
      BY <3>1, <3>2, <3>3, GivingBackOrNot DEF Abstract!Ask, Abstract!Idle
    <3> QED
      BY <3>2, <3>4 DEF Abstract!Next, Abstract!Returning
  <2>9. ASSUME NEW b \in live, NEW x \in Scribble, NEW y \in Scribble,
               Free(b[1], b[2], x, y)
        PROVE  Abstract!Next
    BY <2>9, FreeAbstract DEF Abstract!Next, Abstract!Returning
  <2>10. CASE UNCHANGED vars
    <3>1. /\ Managed' = Managed /\ live' = live /\ Asked' = Asked
          /\ pc' = pc /\ blk' = blk
      BY <2>10 DEF vars, descriptors, call, Managed, Asked, Serving
    <3> QED
      BY <3>1 DEF GivingBack, Abstract!vars
  <2> QED
    BY <2>1, <2>2, <2>3, <2>4, <2>5, <2>6, <2>7, <2>8, <2>9, <2>10
       DEF Next, Step, AllocStep, Halted
<1> QED
  BY <1>1, <1>2, BuddyInvariant, PTL DEF Spec, ImplementsBlockAllocator, Abstract!Spec

-----------------------------------------------------------------------------
(* The way from a page back to the head of its block. *)

\* The size of a block is a power of two.
LEMMA SpanPower ==
    ASSUME NEW k \in Order
    PROVE  PowerOfTwo(Span[k])
<1> DEFINE Bad == {j \in Order : ~PowerOfTwo(Span[j])}
<1> SUFFICES ASSUME Bad # {} PROVE FALSE
  OBVIOUS
<1>1. Bad \in SUBSET Nat
  BY SpanNat
<1>2. PICK j \in Bad : \A i \in Bad : j <= i
  BY <1>1, LeastNumber
<1>3. j \in Order /\ j \in Nat /\ ~PowerOfTwo(Span[j])
  BY <1>1, <1>2
<1>4. j # 0
  BY <1>3, SpanAssumption DEF PowerOfTwo
<1>5. PICK i \in Order : i = j - 1 /\ i # MaxOrder /\ i < j
  BY <1>3, <1>4, SpanAssumption DEF Order
<1>6. PowerOfTwo(Span[i]) /\ Span[i] \in Nat \ {0}
  BY <1>2, <1>3, <1>5, SpanNat
<1>7. Span[j] = 2 * Span[i]
  <2>1. j = i + 1 /\ Span[i + 1] = 2 * Span[i]
    BY <1>3, <1>5, SpanNat
  <2> QED BY <2>1
<1> QED BY <1>3, <1>6, <1>7, PowerDouble

\* The lowest bit of a page number, switched off, leads nearer to the head
\* of the block and not past it.
LEMMA LowestBitOffInBlock ==
    ASSUME NEW k \in Order, NEW h \in Nat, Aligned(h, k), NEW n \in Cells(h, k) \ {h}
    PROVE  LowestBitOff(n) \in Cells(h, k) /\ LowestBitOff(n) < n /\ n \in Nat
<1>1. PICK s \in Nat \ {0} : s = Span[k]
  BY SpanNat
<1>2. n \in Nat /\ h < n /\ n < h + s
  BY <1>1 DEF Cells
<1>3. PowerOfTwo(s)
  BY <1>1, SpanPower
<1>4. PICK q \in Nat : h = s * q
  BY <1>1 DEF Aligned
<1>5. h % s = 0
  BY <1>4, Divides
<1>6. LowestBitOff(n) \in h .. n - 1
  BY <1>2, <1>3, <1>5, LowestBitOffStays
<1> QED BY <1>1, <1>2, <1>6 DEF Cells

\* Two blocks with a page in common are one.
LEMMA OneBlock ==
    ASSUME TypeOK, Blocks, NEW g \in Page, NEW h \in Page,
           flag[g] \notin {"tails", "raw"}, flag[h] \notin {"tails", "raw"},
           NEW n \in Page, n \in Cells(g, ord[g]), n \in Cells(h, ord[h])
    PROVE  g = h
<1>1. /\ g \in Nat /\ h \in Nat /\ n \in Nat
      /\ Span[ord[g]] \in Nat \ {0} /\ Span[ord[h]] \in Nat \ {0}
  BY PageNat, SpanNat DEF TypeOK
<1>2. g < h => h \in Cells(g, ord[g]) \ {g}
  BY <1>1 DEF Cells
<1>3. h < g => g \in Cells(h, ord[h]) \ {h}
  BY <1>1 DEF Cells
<1> QED BY <1>1, <1>2, <1>3 DEF Blocks

\* A tail, with the head of its block and what is next on the way there.
LEMMA TailInBlock ==
    ASSUME IInv, NEW n \in Page, flag[n] = "tails"
    PROVE  \E h \in Page : /\ flag[h] \notin {"tails", "raw"} /\ n \in Cells(h, ord[h])
                           /\ LowestBitOff(n) \in Cells(h, ord[h])
                           /\ LowestBitOff(n) \in Page /\ LowestBitOff(n) < n
<1>0. TypeOK /\ Blocks /\ PagesAccounted
  BY DEF IInv
<1>1. PICK h \in Page : flag[h] \notin {"tails", "raw"} /\ n \in Cells(h, ord[h])
  BY <1>0 DEF PagesAccounted
<1>2. ord[h] \in Order /\ h \in Nat /\ Aligned(h, ord[h]) /\ n # h
  BY <1>0, <1>1, PageNat DEF TypeOK, Blocks
<1>3. LowestBitOff(n) \in Cells(h, ord[h]) /\ LowestBitOff(n) < n
  BY <1>1, <1>2, LowestBitOffInBlock
<1>4. Cells(h, ord[h]) \subseteq Page
  BY <1>2, PlaceInMemory
<1> QED BY <1>1, <1>3, <1>4

\* The recursive definition of HeadOf has a solution: the heads themselves.
LEMMA HeadOfEquation ==
    ASSUME IInv
    PROVE  \A n \in Page : HeadOf[n] = IF flag[n] # "tails" THEN n
                                       ELSE HeadOf[LowestBitOff(n)]
<1> DEFINE Heads(n) == {h \in Page : flag[h] \notin {"tails", "raw"} /\ n \in Cells(h, ord[h])}
           f == [n \in Page |-> IF flag[n] # "tails" THEN n ELSE CHOOSE h \in Heads(n) : TRUE]
           Turn(g) == [n \in Page |-> IF flag[n] # "tails" THEN n ELSE g[LowestBitOff(n)]]
<1>0. TypeOK /\ Blocks
  BY DEF IInv
<1>1. ASSUME NEW n \in Page, flag[n] = "tails" PROVE f[n] = f[LowestBitOff(n)]
  <2>1. PICK h \in Page : /\ flag[h] \notin {"tails", "raw"} /\ n \in Cells(h, ord[h])
                          /\ LowestBitOff(n) \in Cells(h, ord[h])
                          /\ LowestBitOff(n) \in Page
    BY <1>1, TailInBlock
  <2>2. PICK m \in Page : m = LowestBitOff(n) /\ m \in Cells(h, ord[h])
    BY <2>1
  <2>3. \A x \in Page : x \in Cells(h, ord[h]) => Heads(x) = {h}
    BY <1>0, <2>1, OneBlock
  <2>4. \A x \in Page : x \in Cells(h, ord[h]) /\ flag[x] = "tails" => f[x] = h
    BY <2>3
  <2>5. flag[m] # "tails" => m = h
    <3>1. h \in Nat /\ m \in Nat /\ (m # h => flag[m] = "tails")
      BY <1>0, <2>1, <2>2, PageNat DEF Blocks
    <3> QED BY <3>1
  <2>6. f[m] = h
    BY <2>2, <2>4, <2>5
  <2> QED BY <1>1, <2>1, <2>2, <2>4, <2>6
<1>2. f = Turn(f)
  <2>1. \A n \in Page : f[n] = IF flag[n] # "tails" THEN n ELSE f[LowestBitOff(n)]
    BY <1>1
  <2>2. f = [n \in Page |-> f[n]]
    OBVIOUS
  <2> HIDE DEF f
  <2> QED BY <2>1, <2>2
<1> HIDE DEF f
<1>3. HeadOf = CHOOSE g : g = Turn(g)
  BY DEF HeadOf
<1> HIDE DEF Turn
<1>4. HeadOf = Turn(HeadOf)
  BY <1>2, <1>3
<1> USE DEF Turn
<1> QED BY <1>4

\* From any page of a block that is handed out the loop of kfree (mm.cpp:231)
\* gets to the head of that block, for any number of orders and any memory.
THEOREM BuddyKfreeFindsHead == Spec => []KfreeFindsHead
<1>1. IInv => KfreeFindsHead
  <2> SUFFICES ASSUME IInv, NEW b \in live
               PROVE  \A n \in Cells(b[1], b[2]) : HeadOf[n] = b[1]
    BY DEF KfreeFindsHead
  <2>1. PICK h \in Page : /\ h = b[1] /\ b[2] = ord[h] /\ ord[h] \in Order /\ h \in Nat
                          /\ flag[h] \in PageType
    BY PageNat DEF IInv, TypeOK, LiveMarked
  <2>2. flag[h] \notin {"tails", "raw"}
    BY <2>1, MemoryAssumption
  <2>3. /\ Aligned(h, ord[h]) /\ Cells(h, ord[h]) \subseteq Page
        /\ \A m \in Cells(h, ord[h]) \ {h} : flag[m] = "tails"
    BY <2>1, <2>2, PlaceInMemory DEF IInv, Blocks
  <2> DEFINE Astray == {n \in Cells(h, ord[h]) : HeadOf[n] # h}
  <2> SUFFICES ASSUME Astray # {} PROVE FALSE
    BY <2>1
  <2>4. Astray \in SUBSET Nat
    BY <2>3, PageNat
  <2>5. PICK n \in Astray : \A m \in Astray : n <= m
    BY <2>4, LeastNumber
  <2>6. n \in Page /\ n \in Cells(h, ord[h]) /\ n \in Nat /\ HeadOf[n] # h
    BY <2>3, <2>5, PageNat
  <2> HIDE DEF Astray
  <2>7. n # h
    BY <2>1, <2>2, <2>6, HeadOfEquation
  <2>8. HeadOf[n] = HeadOf[LowestBitOff(n)]
    BY <2>3, <2>6, <2>7, HeadOfEquation
  <2>9. PICK m \in Nat : m = LowestBitOff(n) /\ m \in Cells(h, ord[h]) /\ m < n
    BY <2>1, <2>3, <2>6, <2>7, LowestBitOffInBlock, PageNat
  <2>10. m \notin Astray
    BY <2>5, <2>6, <2>9
  <2> QED BY <2>6, <2>8, <2>9, <2>10 DEF Astray
<1> QED
  BY <1>1, BuddyInvariant, PTL
=============================================================================

------------------------------- MODULE Kmalloc --------------------------------
(***************************************************************************)
(* kmalloc and kfree, with operator new and delete on top of them          *)
(* (kernel/src/memory/mm.cpp): the choice of the size class, requests of   *)
(* whole pages, the way from a pointer back to its block, and every panic. *)
(*                                                                         *)
(* An address counts bytes from the start of memory, where the first word  *)
(* is nullptr too: to_phys takes the upper bits off.  What is below kmalloc *)
(* is there as its promises: alloc_pages gives any free block that is      *)
(* aligned (BlockAllocator), a size class any object nobody has            *)
(* (ObjectPool).  A slab without objects may stay: one that was full does. *)
(***************************************************************************)
EXTENDS Integers, FiniteSets

CONSTANTS
    Bits,       \* of a size_t
    Bit,        \* 1 << k for each k up to that
    PageSize,   \* smallest_page_size
    Smallest,   \* the 32 of the first size class
    Slubs,      \* how many size classes there are
    Objects,    \* the 128 of alloc
    MaxOrder,   \* BuddyAllocator::MaxOrder
    Pages,      \* pages there are ...
    Kernel,     \* ... the first of which are the kernel's
    PdBase,     \* where the page descriptors are
    PdSize,     \* sizeof(PageDescriptor)
    Raw,        \* what memory may hold where nobody has set a flag
    Sizes,      \* what is asked for
    MaxLive     \* bound on the requests outstanding

Frame == 0 .. Pages - 1
Address == 0 .. Pages * PageSize - 1
nullptr == 0
Descriptor(n) == PdBase + n * PdSize
TablePages == {a \div PageSize : a \in Descriptor(0) .. Descriptor(Pages) - 1}
Largest == PageSize * Bit[MaxOrder]    \* 2_MB

ilog2(n) == CHOOSE k \in 0 .. Bits - 1 : Bit[k] <= n /\ n < Bit[k + 1]

\* An order has eight bits.
calculOrder(size) == (ilog2(size) - ilog2(PageSize)) % 256

\* makePool.
object_size(i) == Smallest * Bit[i]

\* Mutant: the size itself instead of the last byte's number.
IndexOfSize(size) == ilog2(IF size < Smallest THEN Smallest ELSE size) - ilog2(Smallest)

Index(size) == ilog2((IF size < Smallest THEN Smallest ELSE size) - 1) - ilog2(Smallest - 1)

ASSUME BitAssumption ==
    /\ Bits \in 1 .. 256 /\ Bit \in [0 .. Bits -> Nat]
    /\ Bit[0] = 1 /\ \A k \in 0 .. Bits - 1 : Bit[k + 1] = 2 * Bit[k]

ASSUME KmallocAssumption ==
    /\ {PageSize, Slubs, Objects, Pages, Kernel, PdSize, MaxLive} \subseteq Nat \ {0}
    /\ Smallest \in {Bit[k] : k \in 1 .. Bits} /\ PdBase \in Nat
    /\ MaxOrder \in Slubs - 1 .. Bits /\ Largest < Bit[Bits] /\ Pages <= Bit[Bits]
    /\ 2 * object_size(Slubs - 1) = PageSize /\ Smallest * Objects = PageSize
    /\ Kernel < Pages /\ TablePages \subseteq 1 .. Kernel - 1
    /\ Sizes \subseteq Nat

VARIABLES
    flags,   \* of each descriptor: flags()
    owner,   \* of each slab: the number of its size class
    live,    \* history: what was handed out, [ptr, size]
    state    \* "run", "panic", or "wild" when something is freed that is not a block

kmallocVars == <<flags, owner, live, state>>

KmallocInit ==
    /\ \E raw \in [TablePages -> Raw] :
          flags = [n \in Frame |-> IF n \in TablePages THEN raw[n]
                                  ELSE IF n < Kernel THEN "kernel" ELSE "free"]
    /\ owner = [n \in Frame |-> 0]
    /\ live = {} /\ state = "run"

-----------------------------------------------------------------------------
(* Below kmalloc. *)

Cells(n, k) == n .. n + Bit[k] - 1

\* The blocks alloc_pages may return; none is nullptr.
alloc_pages(k) ==
    {n \in Kernel .. Pages - 1 : k <= MaxOrder /\ n % Bit[k] = 0 /\ n + Bit[k] <= Pages
                                 /\ \A m \in Cells(n, k) : flags[m] = "free"}

MarkPages(n, k, type) ==
    [m \in Frame |-> IF m = n THEN type ELSE IF m \in Cells(n, k) THEN "tails" ELSE flags[m]]

SlabOrder(i) == calculOrder(object_size(i) * Objects)

\* make_slabs: the objects of a slab of class i that begins with the page n.
Places(n, i) ==
    {n * PageSize + j * object_size(i) :
        j \in 0 .. (Bit[SlabOrder(i)] * PageSize) \div object_size(i) - 1}

Slabs(i) == {n \in Kernel .. Pages - 1 : flags[n] = "slab" /\ owner[n] = i}
Pointers == {g.ptr : g \in live}
Unused(i) == (UNION {Places(n, i) : n \in Slabs(i)}) \ Pointers

-----------------------------------------------------------------------------
(* kmalloc. *)

Grant(p, size) == live' = live \union {[ptr |-> p, size |-> size]}
Requested(size) == state = "run" /\ Cardinality(live) < MaxLive /\ size \in Sizes

KmallocPanic(size) ==
    /\ Requested(size) /\ (size = 0 \/ size > Largest)
    /\ state' = "panic"
    /\ UNCHANGED <<flags, owner, live>>

\* What is returned is not the block but its descriptor.
KmallocPages(size) ==
    /\ Requested(size) /\ object_size(Slubs - 1) < size /\ size <= Largest
    /\ LET k == calculOrder(size)
       IN  \E n \in alloc_pages(k) :
              /\ flags' = MarkPages(n, k, "kernel")
              /\ Grant(Descriptor(n), size)
    /\ UNCHANGED <<owner, state>>

KmallocObject(size) ==
    /\ Requested(size) /\ size \in 1 .. object_size(Slubs - 1)
    /\ \E p \in Unused(Index(size)) : Grant(p, size)
    /\ UNCHANGED <<flags, owner, state>>

\* The size class takes a block first.
KmallocSlab(size) ==
    /\ Requested(size) /\ size \in 1 .. object_size(Slubs - 1)
    /\ LET i == Index(size)
       IN  /\ Unused(i) = {}
           /\ \E n \in alloc_pages(SlabOrder(i)) :
                 /\ flags' = MarkPages(n, SlabOrder(i), "slab")
                 /\ owner' = [owner EXCEPT ![n] = i]
                 /\ \E p \in Places(n, i) : Grant(p, size)
    /\ UNCHANGED state

-----------------------------------------------------------------------------
(* kfree. *)

\* index & (index - 1), until a descriptor is not a tail: n with more and
\* more of its lowest bits off.  Descriptor 0 is none, mark_kernel_area marked
\* it.
HeadOf(n) ==
    LET Heads == {m \in {n - (n % Bit[k]) : k \in 0 .. Bits} : flags[m] # "tails"}
    IN  CHOOSE m \in Heads : \A x \in Heads : x <= m

\* The slab may be given back when this was its last object.
KfreeObject(p) ==
    /\ state = "run"
    /\ LET n == HeadOf(p \div PageSize)
       IN  /\ flags[n] = "slab" /\ n >= Kernel
           /\ live' = {g \in live : g.ptr # p}
           /\ \/ UNCHANGED flags
              \/ /\ Places(n, owner[n]) \intersect (Pointers \ {p}) = {}
                 /\ flags' = [m \in Frame |-> IF m \in Cells(n, SlabOrder(owner[n])) THEN "free"
                                             ELSE flags[m]]
    /\ UNCHANGED <<owner, state>>

\* "free through wrong allocator", "double free", "invalid pointer".
KfreePanic(p) ==
    /\ state = "run"
    /\ LET n == HeadOf(p \div PageSize)
       IN  flags[n] \notin {"kernel", "slab"} \/ (flags[n] = "kernel" /\ n # p \div PageSize)
    /\ state' = "panic"
    /\ UNCHANGED <<flags, owner, live>>

\* Pages of the kernel, of the descriptor table for one, are given away, or
\* what lies in a descriptor nobody wrote is taken for a slab's owner.
KfreeWild(p) ==
    /\ state = "run"
    /\ LET n == HeadOf(p \div PageSize)
       IN  n < Kernel /\ (flags[n] = "slab" \/ (flags[n] = "kernel" /\ n = p \div PageSize))
    /\ state' = "wild"
    /\ UNCHANGED <<flags, owner, live>>

\* A request that cannot be met gets nullptr.
Refused(size) ==
    \/ size \in object_size(Slubs - 1) + 1 .. Largest /\ alloc_pages(calculOrder(size)) = {}
    \/ /\ size \in 1 .. object_size(Slubs - 1)
       /\ Unused(Index(size)) = {} /\ alloc_pages(SlabOrder(Index(size))) = {}

\* A caller may give it back: address 0 is in the first block of the kernel.
KfreeRefused(size) == Requested(size) /\ Refused(size) /\ KfreeWild(nullptr)

KmallocOver == state # "run" /\ UNCHANGED kmallocVars

KmallocNext ==
    \/ \E size \in Sizes : \/ KmallocPanic(size) \/ KmallocPages(size)
                           \/ KmallocObject(size) \/ KmallocSlab(size)
                           \/ KfreeRefused(size)
    \/ \E p \in Pointers : KfreeObject(p) \/ KfreePanic(p) \/ KfreeWild(p)
    \/ KmallocOver

KmallocSpec == KmallocInit /\ [][KmallocNext]_kmallocVars

-----------------------------------------------------------------------------
KmallocTypeOK ==
    /\ flags \in [Frame -> Raw \union {"free", "kernel", "slab", "tails"}]
    /\ owner \in [Frame -> 0 .. Slubs - 1]
    /\ live \subseteq [ptr : Address, size : Sizes]
    /\ state \in {"run", "panic", "wild"}

Small == {g \in live : g.size <= object_size(Slubs - 1)}
Bytes(g) == g.ptr .. g.ptr + g.size - 1

\* mm.cpp:224: an object has room for every byte that was asked for, inside
\* a slab that is not the kernel's, and apart from all other objects: the
\* class chosen by the logarithm of a size is neither too small for it nor
\* beyond the last, and its slabs have room for the objects they are cut into.
ObjectsHold ==
    \A g \in Small :
        /\ \A a \in Bytes(g) : \E n \in Kernel .. Pages - 1 :
              flags[n] = "slab" /\ a \div PageSize \in Cells(n, SlabOrder(owner[n]))
        /\ \A h \in Small \ {g} : Bytes(g) \intersect Bytes(h) = {}

\* mm.cpp:231: from an object in any page of its slab kfree gets to that slab,
\* and to the size class the object was cut by; it never panics over one.
KfreeFindsSlab ==
    \A g \in Small :
        LET n == HeadOf(g.ptr \div PageSize)
        IN  /\ n >= Kernel /\ flags[n] = "slab" /\ owner[n] = Index(g.size)
            /\ g.ptr \in Places(n, owner[n])

\* The way down from a size to an object and the way back from its pointer
\* (mm.cpp:218-260) agree, whatever else is handed out.
KmallocSound == ObjectsHold /\ KfreeFindsSlab

\* mm.cpp:220, "Too big to alloc" is said of what is above 2 MB: anything
\* else that is handed out is memory nobody else has, the kernel included.
GrantIsMemory ==
    \A g \in live :
        /\ Bytes(g) \subseteq Address /\ \A a \in Bytes(g) : a \div PageSize >= Kernel
        /\ \A h \in live \ {g} : Bytes(g) \intersect Bytes(h) = {}
=============================================================================

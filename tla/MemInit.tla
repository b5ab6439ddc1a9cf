------------------------------- MODULE MemInit -------------------------------
(***************************************************************************)
(* memory::init: from the firmware's memory map to the first free blocks   *)
(* of the page allocator and to the kernel's page tables.  The map comes   *)
(* from BIOS through the boot loader; init runs once, before interrupts    *)
(* and tasks.  Addresses are counted in a unit the constants choose.       *)
(***************************************************************************)
EXTENDS Integers, Sequences, FiniteSets, Powers

CONSTANTS
    Page,        \* smallest_page_size
    Top,         \* pages of a largest block: 1 << MaxOrder, 512
    Desc,        \* sizeof(PageDescriptor)
    TableStart,  \* pd_base: IST_END, aligned to a descriptor
    PerTable,    \* entries of a page table: 512
    Maps         \* what the firmware may report: sets of entries

Block == Page * Top

\* e820MmapEntry.  The other RegionTypes are treated alike.
Entry == [base : Nat, length : Nat \ {0}, type : {"Free", "Reserved"}]
End(e) == e.base + e.length

ASSUME UnitAssumption ==
    /\ Page \in Nat \ {0} /\ Top \in Nat /\ Top > 1 /\ Top % 2 = 0
    /\ Desc \in Nat \ {0} /\ TableStart \in Nat \ {0}
    /\ PerTable \in Nat \ {0}

\* Entries do not overlap, some memory is free (CheckMemoryEnough), so that
\* there is a last free entry, and one entry begins at 0: the upper half of
\* the 64-bit entry count lies over its base (memscan.h:63).
ASSUME MapsAssumption ==
    \A m \in Maps :
        /\ m \subseteq Entry /\ IsFiniteSet(m)
        /\ \A d, e \in m : d # e => End(d) <= e.base \/ End(e) <= d.base
        /\ \E e \in m : /\ e.type = "Free"
                        /\ \A d \in m : d.type = "Free" => d.base <= e.base
        /\ \E e \in m : e.base = 0

VARIABLES
    pc,        \* the function init is in; "panic" and "wild" are ends
    map,       \* the entries, once sorted
    begin,     \* makeBuddy's index into map
    start,     \* the first address not yet handled
    cur,       \* cur_pd: the descriptor of the page there
    kernel,    \* the end of the kernel area
    flag,      \* page type of each page descriptor that has been written
    freelist,  \* freelist[MaxOrder]: the first pages of its blocks
    total,     \* TotalMemoryBlockCount
    tables,    \* where makeKernelPTE puts the tables of each level
    word       \* the entries of page tables that have been written

pageVars == <<kernel, flag, freelist, total>>
mapVars == <<tables, word>>
vars == <<pc, map, begin, start, cur, pageVars, mapVars>>

\* address_base::align
Align(a) == ((a + Block - 1) \div Block) * Block

\* Mutant: a block that ends with its entry is inside.
RangeInClosed(e, f, l) == e.base <= f /\ l <= End(e)

\* e820MmapEntry::range_in.  The end l has to lie inside as well.
RangeIn(e, f, l) == e.base <= f /\ l < End(e)

\* mark_pages: one head and its tails.  The heads' orders are not told apart.
Mark(f, p, type, n) ==
    [i \in DOMAIN f \union p .. p + n - 1 |->
        IF i = p THEN type ELSE IF i \in p .. p + n - 1 THEN "tails" ELSE f[i]]

\* The first entry from i on that contains a, or one past the last entry.
FirstWith(a, i) ==
    LET With == {j \in i .. Len(map) : RangeIn(map[j], a, a)}
    IN  IF With = {} THEN Len(map) + 1 ELSE CHOOSE j \in With : \A k \in With : j <= k
-----------------------------------------------------------------------------
\* insertion_sort has run: the bases are all different, so there is one result.
Init ==
    /\ pc = "kernel"
    /\ \E m \in Maps :
           \E s \in [1 .. Cardinality(m) -> m] :
               /\ {s[i] : i \in DOMAIN s} = m
               /\ \A i, j \in DOMAIN s : i < j => s[i].base < s[j].base
               /\ map = s
    /\ begin = 0 /\ start = 0 /\ cur = 0 /\ kernel = 0
    /\ flag = <<>> /\ freelist = <<>> /\ total = 0
    /\ tables = <<>> /\ word = <<>>

\* Mutant: the first free entry is taken for the last.
FirstFree ==
    End(map[CHOOSE i \in DOMAIN map :
                /\ map[i].type = "Free"
                /\ \A j \in DOMAIN map : map[j].type = "Free" => i <= j])

\* calculatePageDescriptorSize: the end of the last free entry.
LastFree ==
    End(map[CHOOSE i \in DOMAIN map :
                /\ map[i].type = "Free"
                /\ \A j \in DOMAIN map : map[j].type = "Free" => j <= i])

\* getFreeMemoryStart: the table has one descriptor for each page up to there.
TableEnd == TableStart + (LastFree \div Page) * Desc

\* mark_kernel_area.  The half blocks are marked one descriptor apart, not one
\* half block apart: a half block's head is its predecessor's first tail.
KernelArea ==
    /\ pc = "kernel"
    /\ LET Halves == (2 * Align(TableEnd)) \div Block
       IN  flag' = [i \in 0 .. Halves + Top \div 2 - 2 |->
                       IF i < Halves THEN "kernel" ELSE "tails"]
    /\ kernel' = Align(TableEnd)
    /\ start' = kernel'
    /\ total' = kernel' \div Block
    /\ pc' = "find"
    /\ UNCHANGED <<map, begin, cur, freelist, mapVars>>

\* makeBuddy up to its loop.
Find ==
    /\ pc = "find"
    /\ cur' = start \div Page
    /\ begin' = FirstWith(start, 1)
    /\ pc' = IF begin' > Len(map) THEN "panic" ELSE "make"
    /\ UNCHANGED <<map, start, pageVars, mapVars>>

\* One round of makeBuddy's loop gives the next block this type.
Handle(type) ==
    /\ flag' = Mark(flag, cur, type, Top)
    /\ cur' = cur + Top
    /\ start' = start + Block
    /\ total' = total + 1

Inside == RangeIn(map[begin], start, start + Block)

\* The block is inside a free entry.
Give ==
    /\ pc = "make" /\ Inside /\ map[begin].type = "Free"
    /\ Handle("free")
    /\ freelist' = Append(freelist, cur)
    /\ UNCHANGED <<pc, map, begin, kernel, mapVars>>

\* It is inside another entry.
Reserve ==
    /\ pc = "make" /\ Inside /\ map[begin].type # "Free"
    /\ Handle("reserved")
    /\ UNCHANGED <<pc, map, begin, kernel, freelist, mapVars>>

\* The entry ends before the block or with it: on to the entry that contains
\* the next block's first byte.  Where there is none, makeBuddy is done.
Advance ==
    /\ pc = "make" /\ ~Inside
    /\ Handle("reserved")
    /\ begin' = FirstWith(start', begin)
    /\ pc' = IF begin' > Len(map) THEN "pte" ELSE "make"
    /\ UNCHANGED <<map, kernel, freelist, mapVars>>
-----------------------------------------------------------------------------
\* size_of_mapping: the greatest end, less one.
EndPosition ==
    LET Ends == {End(map[i]) : i \in DOMAIN map}
    IN  (CHOOSE x \in Ends : \A y \in Ends : y <= x) - 1

PteCount == (EndPosition \div Block) \div PerTable + 1
PudCount == (PteCount - 1) \div PerTable + 1
PgdCount == (PudCount - 1) \div PerTable + 1

\* calculOrder rounds down: what alloc_pages_kma(n * 4_KB) asks for.
Asked(n) == HighestBit(n)

FreePages == UNION {p .. p + Top - 1 : p \in {freelist[i] : i \in DOMAIN freelist}}

\* Where n pages come from while nothing was freed yet: the lists hand out
\* their front, a split its lower half, so the lowest aligned pages are next.
Fits(n, taken) ==
    {p \in FreePages : p % n = 0 /\ p .. p + n - 1 \subseteq FreePages \ taken}
Lowest(n, taken) == CHOOSE p \in Fits(n, taken) : \A q \in Fits(n, taken) : p <= q

\* makeKernelPTE allocates the tables of each level, the lowest level first.
TableCount == <<PteCount, PudCount, PgdCount>>
Taken == UNION {tables[l] .. tables[l] + Asked(TableCount[l]) - 1 : l \in DOMAIN tables}

\* "we not support memory above 512GB."
TooMuch ==
    /\ pc = "pte" /\ PteCount > PerTable
    /\ pc' = "panic"
    /\ UNCHANGED <<map, begin, start, cur, pageVars, mapVars>>

AllocTables ==
    /\ pc = "pte" /\ PteCount <= PerTable /\ Len(tables) < 3
    /\ LET n == Asked(TableCount[Len(tables) + 1])
       IN  /\ Fits(n, Taken) # {}
           /\ tables' = Append(tables, Lowest(n, Taken))
    /\ UNCHANGED <<pc, map, begin, start, cur, pageVars, word>>

\* The allocator returns null, and the tables go to an address made of it.
AllocNothing ==
    /\ pc = "pte" /\ PteCount <= PerTable /\ Len(tables) < 3
    /\ Fits(Asked(TableCount[Len(tables) + 1]), Taken) = {}
    /\ pc' = "wild"
    /\ UNCHANGED <<map, begin, start, cur, pageVars, mapVars>>

\* The entries written, level by level and one after the other: a later
\* level writes over an earlier one where their pages are the same.
Blocks == {b \in 0 .. EndPosition \div Block : b * Block < EndPosition}
PteWords == [x \in {<<tables[1] + b \div PerTable, b % PerTable>> : b \in Blocks} |->
                [level |-> "block", to |-> (x[1] - tables[1]) * PerTable + x[2]]]

\* Mutant: every entry points to the first table.
PudWordsFirst == [x \in {<<tables[2] + i \div PerTable, i % PerTable>> : i \in 0 .. PteCount - 1} |->
                     [level |-> "table", to |-> tables[1]]]

PudWords == [x \in {<<tables[2] + i \div PerTable, i % PerTable>> : i \in 0 .. PteCount - 1} |->
                [level |-> "table", to |-> tables[1] + (x[1] - tables[2]) * PerTable + x[2]]]
PgdWords == [x \in {<<tables[3], i + PerTable \div 2>> : i \in 0 .. PudCount - 1} |->
                [level |-> "table", to |-> tables[2] + x[2] - PerTable \div 2]]

MakeKernelPTE ==
    /\ pc = "pte" /\ Len(tables) = 3
    /\ word' = [x \in DOMAIN PteWords \union DOMAIN PudWords \union DOMAIN PgdWords |->
                   IF x \in DOMAIN PgdWords THEN PgdWords[x]
                   ELSE IF x \in DOMAIN PudWords THEN PudWords[x] ELSE PteWords[x]]
    /\ pc' = "done"
    /\ UNCHANGED <<map, begin, start, cur, pageVars, tables>>

\* memory::init has returned, or nothing more happens.
Ended ==
    /\ pc \in {"done", "panic", "wild"}
    /\ UNCHANGED vars

Next ==
    \/ KernelArea \/ Find
    \/ Give \/ Reserve \/ Advance
    \/ TooMuch \/ AllocTables \/ AllocNothing \/ MakeKernelPTE
    \/ Ended

Spec == Init /\ [][Next]_vars
-----------------------------------------------------------------------------
\* The type invariant.
TypeOK ==
    /\ pc \in {"kernel", "find", "make", "pte", "done", "panic", "wild"}
    /\ map \in Seq(Entry)
    /\ begin \in 0 .. Len(map) + 1
    /\ start \in Nat /\ cur \in Nat /\ kernel \in Nat /\ total \in Nat
    /\ DOMAIN flag \subseteq Nat
    /\ \A i \in DOMAIN flag : flag[i] \in {"kernel", "tails", "free", "reserved"}
    /\ freelist \in Seq(Nat)

\* What a block, by its number, has to be to get to the free list: the first
\* address of each block from the kernel area up to it is in some entry, and
\* it lies in a free entry and does not reach the end of that.
Listed(a) == \E i \in DOMAIN map : map[i].base <= a /\ a < End(map[i])
Given(k) ==
    /\ kernel <= k * Block
    /\ \A j \in 0 .. k : kernel <= j * Block => Listed(j * Block)
    /\ \E i \in DOMAIN map :
           /\ map[i].type = "Free"
           /\ map[i].base <= k * Block /\ (k + 1) * Block < End(map[i])

\* When makeBuddy has run, the free list holds exactly the blocks that are
\* Given, each of them once.
GivenExactly ==
    pc \in {"pte", "done", "wild"} =>
        /\ {freelist[i] : i \in DOMAIN freelist} =
               {k * Top : k \in {k \in 0 .. LastFree : Given(k)}}
        /\ \A i, j \in DOMAIN freelist : i # j => freelist[i] # freelist[j]

\* The table calculatePageDescriptorSize makes room for holds all descriptors
\* of the blocks on the free list, and neither it nor the kernel area below
\* is part of one: what the allocator hands out never is its own table.
DescriptorsInTable ==
    \A i \in DOMAIN freelist :
        /\ kernel <= freelist[i] * Page
        /\ TableStart + (freelist[i] + Top) * Desc <= TableEnd
        /\ TableEnd <= kernel

\* The walk through the tables for the upper half address of a block.
MapsTo(b) ==
    LET pgd == word[<<tables[3], PerTable \div 2>>]
        pud == word[<<pgd.to, b \div PerTable>>]
    IN  pud.level = "table" /\ word[<<pud.to, b % PerTable>>].level = "block"
        /\ word[<<pud.to, b % PerTable>>].to = b

\* The blocks whose tables calculOrder did not round away are mapped to
\* themselves.
AllocatedMapsRight ==
    pc = "done" =>
        \A b \in Blocks : b \div PerTable < Asked(PteCount) => MapsTo(b)

\* mm.cpp:131: up to 512GB, all memory is mapped.
AllMapsRight == pc = "done" => \A b \in Blocks : MapsTo(b)
=============================================================================

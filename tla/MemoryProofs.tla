---------------------------- MODULE MemoryProofs -----------------------------
(***************************************************************************)
(* What works on memory without a call of the others.                      *)
(*                                                                         *)
(* ListClient: its list is well formed and a double ended queue, for any   *)
(* number of nodes and whatever next links were lost.                      *)
(*                                                                         *)
(* MemInit: what memory::init gives to the page allocator, for every       *)
(* memory map and every size of pages, blocks and descriptors: exactly the *)
(* blocks that GivenExactly describes, their descriptors inside the table; *)
(* and that the page tables it has written map what they should.           *)
(*                                                                         *)
(* Kmalloc: the way from a size to an object and the way back from its     *)
(* pointer to its slab agree, for any memory and any requests.             *)
(*                                                                         *)
(* StringUtil: memset, memcpy, memcmp and strlen do what they should for   *)
(* any length, by whichever heads, words and tails.                        *)
(*                                                                         *)
(* ComString: where a string has its text, and its end, after any calls.   *)
(*                                                                         *)
(* AcpiTables: the searches find what they should, for any firmware.       *)
(***************************************************************************)
EXTENDS MCListClient, StringUtil, MemInit, Kmalloc, ComString, AcpiTables,
        LibraryProofs, FiniteSetTheorems, SequenceTheorems, TLAPS

-----------------------------------------------------------------------------
(* The list. *)

\* The values of a link word or of an end of the list.
Link == Node \union {Null}

\* A call that keeps the list and the members in step keeps the invariant,
\* whether it returns or faults.
LEMMA CallKeeps ==
    ASSUME ClientTypeOK, WellFormed,
           NEW faults \in BOOLEAN, NEW after, NEW m, Call(faults, after, m),
           ~faults => /\ after \in Lists(Node, Link)
                      /\ m \in SUBSET Node
                      /\ ListInv(after, m)
    PROVE  ClientTypeOK' /\ WellFormed'
<1>1. CASE faults
  BY <1>1 DEF Call, ClientTypeOK, WellFormed
<1>2. CASE ~faults
  BY <1>2 DEF Call, ClientTypeOK, WellFormed, Lists, Link
<1> QED BY <1>1, <1>2

\* The client's list is well formed after any sequence of calls: what
\* pop_back_node loses never makes another operation unlink a wrong node.
THEOREM ListClientCorrect == ClientSpec => [](ClientTypeOK /\ WellFormed)
<1> DEFINE Inv == ClientTypeOK /\ WellFormed
<1>1. ClientInit => Inv
  BY NodeAssumption DEF ClientInit, ClientTypeOK, WellFormed, ListInv
<1>2. Inv /\ [ClientNext]_clientVars => Inv'
  <2> SUFFICES ASSUME ClientTypeOK, WellFormed, [ClientNext]_clientVars PROVE Inv'
    OBVIOUS
  <2>0. /\ l \in Lists(Node, Link) /\ member \in SUBSET Node
        /\ ListInv(l, member)
        /\ Null \notin Node /\ Node \union {Null} \subseteq Link
    BY NodeAssumption DEF ClientTypeOK, WellFormed, Lists, Link
  <2>1. ASSUME NEW n \in Node, CallPushFront(n) PROVE Inv'
    <3>1. n \in Node \ member /\ Call(FALSE, PushFront(l, n), member \union {n})
      BY <2>1 DEF CallPushFront
    <3>2. /\ PushFront(l, n) \in Lists(Node, Link)
          /\ ListInv(PushFront(l, n), member \union {n})
      BY <2>0, <3>1, PushFrontKeeps
    <3>3. member \union {n} \in SUBSET Node
      BY <2>0
    <3> QED BY <3>1, <3>2, <3>3, CallKeeps
  <2>2. ASSUME NEW n \in Node, CallPushBack(n) PROVE Inv'
    <3>1. n \in Node \ member /\ Call(FALSE, PushBack(l, n), member \union {n})
      BY <2>2 DEF CallPushBack
    <3>2. /\ PushBack(l, n) \in Lists(Node, Link)
          /\ ListInv(PushBack(l, n), member \union {n})
      BY <2>0, <3>1, PushBackKeeps
    <3>3. member \union {n} \in SUBSET Node
      BY <2>0
    <3> QED BY <3>1, <3>2, <3>3, CallKeeps
  <2>3. ASSUME NEW n \in Node, CallPopNode(n) PROVE Inv'
    <3>1. n \in member /\ Call(PopNodeFaults(l, n), PopNode(l, n), member \ {n})
      BY <2>3 DEF CallPopNode
    <3>2. ~PopNodeFaults(l, n) => /\ PopNode(l, n) \in Lists(Node, Link)
                                  /\ ListInv(PopNode(l, n), member \ {n})
      BY <2>0, <3>1, PopNodeKeeps
    <3>3. member \ {n} \in SUBSET Node
      BY <2>0
    <3>4. PopNodeFaults(l, n) \in BOOLEAN
      BY DEF PopNodeFaults
    <3> QED BY <3>1, <3>2, <3>3, <3>4, CallKeeps
  <2>4. ASSUME CallPopFront PROVE Inv'
    <3>1. Call(PopFrontFaults(l), PopFront(l), member \ {l.head})
      BY <2>4 DEF CallPopFront
    <3>2. ~PopFrontFaults(l) => /\ PopFront(l) \in Lists(Node, Link)
                                /\ ListInv(PopFront(l), member \ {l.head})
      <4>1. CASE Empty(l)
        BY <2>0, <4>1 DEF PopFront, Cleared, Empty, ListInv, Lists
      <4>2. CASE ~Empty(l)
        BY <2>0, <4>2, PopFrontKeeps
      <4> QED BY <4>1, <4>2
    <3>3. member \ {l.head} \in SUBSET Node
      BY <2>0
    <3>4. PopFrontFaults(l) \in BOOLEAN
      BY DEF PopFrontFaults
    <3> QED BY <3>1, <3>2, <3>3, <3>4, CallKeeps
  <2>5. ASSUME CallPopBack PROVE Inv'
    <3>1. Call(FALSE, PopBack(l), member \ {l.tail})
      BY <2>5 DEF CallPopBack
    <3>2. PopBack(l) \in Lists(Node, Link) /\ ListInv(PopBack(l), member \ {l.tail})
      <4>1. CASE Empty(l)
        BY <2>0, <4>1 DEF PopBack, Cleared, Empty, ListInv, Lists
      <4>2. CASE ~Empty(l)
        BY <2>0, <4>2, PopBackKeeps
      <4> QED BY <4>1, <4>2
    <3>3. member \ {l.tail} \in SUBSET Node
      BY <2>0
    <3> QED BY <3>1, <3>2, <3>3, CallKeeps
  <2>6. CASE UNCHANGED clientVars
    BY <2>6 DEF clientVars, ClientTypeOK, WellFormed
  <2> QED
    BY <2>1, <2>2, <2>3, <2>4, <2>5, <2>6 DEF ClientNext, Halted
<1> QED
  BY <1>1, <1>2, PTL DEF ClientSpec

-----------------------------------------------------------------------------
(* The list as a double ended queue. *)

\* What the pointers of a list have to do with the sequence of its members:
\* the prev links spell it from the tail, and a next link that is not lost
\* leads on in it.
Spells(list, S, q) ==
    /\ q \in Seq(Node) /\ S = {q[i] : i \in 1 .. Len(q)}
    /\ \A i, j \in 1 .. Len(q) : q[i] = q[j] => i = j
    /\ Len(q) = 0 => list.head = Null /\ list.tail = Null
    /\ Len(q) # 0 => list.head = q[1] /\ list.tail = q[Len(q)] /\ list.prv[q[1]] = Null
    /\ \A i \in 2 .. Len(q) : list.prv[q[i]] = q[i - 1]
    /\ \A i \in 1 .. Len(q) - 1 : list.nxt[q[i]] \in {Null, q[i + 1]}

\* It is not longer than there are nodes.
LEMMA SpelledIsReading ==
    ASSUME NEW list, NEW S, NEW q, Spells(list, S, q)
    PROVE  /\ q \in Seq(Node) /\ ReadBack(list, q)
           /\ Len(q) \in 0 .. Cardinality(Node)
<1>1. /\ Len(q) \in Nat /\ q \in [1 .. Len(q) -> Node] /\ DOMAIN q = 1 .. Len(q)
      /\ q = <<>> <=> Len(q) = 0
  <2>1. q \in Seq(Node)
    BY DEF Spells
  <2> QED BY <2>1, LenProperties, EmptySeq
<1>2. Len(q) <= Cardinality(Node)
  <2>1. q \in Injection(1 .. Len(q), Node)
    BY <1>1 DEF Spells, Injection, IsInjective
  <2>2. Cardinality(1 .. Len(q)) <= Cardinality(Node)
    BY <2>1, FS_Injection, FiniteAssumption
  <2>3. Cardinality(1 .. Len(q)) = IF 1 > Len(q) THEN 0 ELSE Len(q) - 1 + 1
    BY <1>1, FS_Interval
  <2> QED BY <1>1, <2>2, <2>3
<1>3. Cardinality(Node) \in Nat
  BY FiniteAssumption, FS_CardinalityType
<1>4. q \in Seq(Node) /\ Len(q) \in 0 .. Cardinality(Node)
  BY <1>1, <1>2, <1>3 DEF Spells
<1>5. list.tail = IF q = <<>> THEN Null ELSE q[Len(q)]
  BY <1>1 DEF Spells
<1>6. ASSUME NEW i \in DOMAIN q PROVE list.prv[q[i]] = IF i = 1 THEN Null ELSE q[i - 1]
  BY <1>1 DEF Spells
<1> QED BY <1>4, <1>5, <1>6 DEF ReadBack

LEMMA ReadingType ==
    ASSUME NEW q \in Seq(Node)
    PROVE  /\ Len(q) \in Nat /\ q \in [1 .. Len(q) -> Node] /\ DOMAIN q = 1 .. Len(q)
           /\ q = <<>> <=> Len(q) = 0
BY LenProperties, EmptySeq

\* Two readings of a list agree, seen from the tail.
LEMMA ReadingsAgree ==
    ASSUME NEW list, NEW q \in Seq(Node), NEW r \in Seq(Node), ReadBack(list, q), ReadBack(list, r),
           NEW k \in Nat, k < Len(q), k < Len(r)
    PROVE  q[Len(q) - k] = r[Len(r) - k]
<1> DEFINE T == {x \in Nat : x < Len(q) /\ x < Len(r) /\ q[Len(q) - x] # r[Len(r) - x]}
<1> SUFFICES ASSUME T # {} PROVE FALSE
  OBVIOUS
<1>1. PICK x \in T : \A y \in T : x <= y
  BY LeastNumber
<1>2. PICK a \in Nat, b \in Nat : a = Len(q) /\ b = Len(r)
  BY ReadingType
<1>3. x \in Nat /\ x < a /\ x < b /\ q[a - x] # r[b - x]
  BY <1>1, <1>2
<1>4. x # 0
  <2>1. q # <<>> /\ r # <<>>
    BY <1>2, <1>3, ReadingType
  <2>2. q[a] = list.tail /\ r[b] = list.tail
    BY <1>2, <2>1 DEF ReadBack
  <2>3. x = 0 => a - x = a /\ b - x = b
    BY <1>2
  <2> QED BY <1>3, <2>2, <2>3
<1>5. x - 1 \in Nat /\ ~(x <= x - 1)
  BY <1>3, <1>4
<1>6. q[a - (x - 1)] = r[b - (x - 1)]
  <2>1. x - 1 \notin T
    BY <1>1, <1>5
  <2>2. x - 1 < a /\ x - 1 < b
    BY <1>3
  <2> QED BY <1>2, <1>5, <2>1, <2>2
<1>7. PICK i \in Nat, j \in Nat : /\ i = a - x /\ j = b - x /\ i + 1 = a - (x - 1) /\ j + 1 = b - (x - 1)
                                  /\ i + 1 # 1 /\ j + 1 # 1 /\ (i + 1) - 1 = i /\ (j + 1) - 1 = j
  BY <1>3, a - x \in Nat, b - x \in Nat
<1>8. i + 1 \in DOMAIN q /\ j + 1 \in DOMAIN r
  BY <1>2, <1>3, <1>5, <1>7, ReadingType
<1>9. list.prv[q[i + 1]] = q[i] /\ list.prv[r[j + 1]] = r[j]
  <2>1. /\ list.prv[q[i + 1]] = IF i + 1 = 1 THEN Null ELSE q[(i + 1) - 1]
        /\ list.prv[r[j + 1]] = IF j + 1 = 1 THEN Null ELSE r[(j + 1) - 1]
    BY <1>8, Zenon DEF ReadBack
  <2> QED BY <1>7, <2>1
<1> QED BY <1>3, <1>6, <1>7, <1>9

LEMMA ReadingNotLonger ==
    ASSUME NEW list, NEW q \in Seq(Node), NEW r \in Seq(Node), ReadBack(list, q), ReadBack(list, r)
    PROVE  ~(Len(q) < Len(r))
<1> SUFFICES ASSUME Len(q) < Len(r) PROVE FALSE
  OBVIOUS
<1>1. PICK a \in Nat, b \in Nat : a = Len(q) /\ b = Len(r)
  BY ReadingType
<1>2. \A j \in 1 .. b : r[j] \in Node
  BY <1>1, ReadingType
<1>3. CASE a = 0
  <2>1. list.tail = Null
    BY <1>1, <1>3, ReadingType DEF ReadBack
  <2>2. r # <<>> /\ b \in 1 .. b
    BY <1>1, ReadingType
  <2>3. list.tail = r[b]
    BY <1>1, <2>2 DEF ReadBack
  <2> QED BY <1>2, <2>1, <2>2, <2>3, NodeAssumption
<1>4. CASE a # 0
  <2>1. a - 1 \in Nat /\ a - 1 < a /\ a - 1 < b /\ a - (a - 1) = 1
    BY <1>1, <1>4
  <2>2. q[1] = r[b - (a - 1)]
    BY <1>1, <2>1, ReadingsAgree
  <2>3. PICK j \in Nat : j = b - (a - 1) /\ j # 1 /\ j \in 1 .. b /\ j - 1 \in 1 .. b
    <3>1. a \in Nat \ {0} /\ b \in Nat /\ a < b
      BY <1>1, <1>4
    <3>2. b - (a - 1) \in Nat /\ b - (a - 1) # 1 /\ b - (a - 1) \in 1 .. b
          /\ (b - (a - 1)) - 1 \in 1 .. b
      BY ONLY <3>1
    <3> QED BY <3>2
  <2>4. list.prv[q[1]] = Null
    BY <1>1, <1>4, ReadingType, 1 \in 1 .. a DEF ReadBack
  <2>5. list.prv[r[j]] = r[j - 1]
    BY <1>1, <2>3, ReadingType DEF ReadBack
  <2> QED BY <1>2, <2>2, <2>3, <2>4, <2>5, NodeAssumption
<1> QED BY <1>3, <1>4

\* So a list has one reading at most.
LEMMA ReadingIs ==
    ASSUME NEW list, NEW S, NEW q, Spells(list, S, q)
    PROVE  Reading(list) = q
<1>1. q \in Seq(Node) /\ ReadBack(list, q) /\ Len(q) \in 0 .. Cardinality(Node)
  BY SpelledIsReading
<1>2. ASSUME NEW r \in Seq(Node), ReadBack(list, r) PROVE r = q
  <2>1. Len(q) \in Nat /\ Len(r) \in Nat
    BY <1>1, ReadingType
  <2>2. ~(Len(q) < Len(r)) /\ ~(Len(r) < Len(q))
    BY <1>1, <1>2, ReadingNotLonger
  <2>3. Len(q) = Len(r)
    BY <2>1, <2>2
  <2>4. /\ q \in [1 .. Len(q) -> Node] /\ r \in [1 .. Len(q) -> Node]
    BY <1>1, <2>3, ReadingType
  <2>5. ASSUME NEW i \in 1 .. Len(q) PROVE q[i] = r[i]
    <3>1. Len(q) - i \in Nat /\ Len(q) - i < Len(q) /\ Len(q) - (Len(q) - i) = i
      BY <2>1
    <3> QED BY <1>1, <1>2, <2>3, <3>1, ReadingsAgree
  <2> QED BY <2>4, <2>5
<1>3. q \in Readings(list, Len(q))
  BY <1>1, ReadingType DEF Readings
<1>4. ASSUME NEW k \in 0 .. Cardinality(Node), NEW r \in Readings(list, k) PROVE r = q /\ k = Len(q)
  <2>1. Cardinality(Node) \in Nat
    BY FiniteAssumption, FS_CardinalityType
  <2>2. k \in Nat /\ r \in [1 .. k -> Node] /\ ReadBack(list, r)
    BY <2>1 DEF Readings
  <2>3. r \in Seq(Node) /\ Len(r) = k
    <3>1. r \in Seq(Node)
      BY <2>2, SeqDef
    <3>2. Len(r) \in Nat /\ DOMAIN r = 1 .. Len(r) /\ DOMAIN r = 1 .. k
      BY <2>2, <3>1, ReadingType
    <3> QED BY <2>2, <3>1, <3>2
  <2> QED BY <1>2, <2>2, <2>3
<1> DEFINE length == CHOOSE k \in 0 .. Cardinality(Node) : Readings(list, k) # {}
<1>5. length = Len(q)
  <2>1. \A k \in 0 .. Cardinality(Node) : Readings(list, k) # {} => k = Len(q)
    BY <1>4
  <2>2. Readings(list, Len(q)) # {}
    BY <1>3
  <2> QED BY <1>1, <2>1, <2>2
<1>6. \A r \in Readings(list, Len(q)) : r = q
  BY <1>1, <1>4
<1>7. Reading(list) = CHOOSE r \in Readings(list, length) : TRUE
  BY DEF Reading
<1> HIDE DEF length
<1> QED BY <1>3, <1>5, <1>6, <1>7

\* The sequences that a push and a removal make.
LEMMA InFront ==
    ASSUME NEW q \in Seq(Node), NEW n \in Node
    PROVE  /\ <<n>> \o q \in Seq(Node) /\ Len(<<n>> \o q) = Len(q) + 1
           /\ (<<n>> \o q)[1] = n
           /\ \A i \in 1 .. Len(q) : (<<n>> \o q)[i + 1] = q[i]
<1>1. <<n>> \in Seq(Node) /\ Len(<<n>>) = 1 /\ <<n>>[1] = n
  OBVIOUS
<1>2. Len(q) \in Nat
  BY LenProperties
<1>3. /\ <<n>> \o q \in Seq(Node) /\ Len(<<n>> \o q) = 1 + Len(q)
      /\ \A i \in 1 .. 1 + Len(q) : (<<n>> \o q)[i] = IF i <= 1 THEN <<n>>[i] ELSE q[i - 1]
  BY <1>1, ConcatProperties
<1>4. ASSUME NEW i \in 1 .. Len(q) PROVE (<<n>> \o q)[i + 1] = q[i]
  <2>1. i + 1 \in 1 .. 1 + Len(q) /\ ~(i + 1 <= 1) /\ (i + 1) - 1 = i
    BY <1>2
  <2>2. (<<n>> \o q)[i + 1] = IF i + 1 <= 1 THEN <<n>>[i + 1] ELSE q[(i + 1) - 1]
    BY <1>3, <2>1
  <2> QED BY <2>1, <2>2
<1> QED BY <1>1, <1>2, <1>3, <1>4

Without(q, k) == SubSeq(q, 1, k - 1) \o SubSeq(q, k + 1, Len(q))

LEMMA WithoutIs ==
    ASSUME NEW q \in Seq(Node), NEW k \in 1 .. Len(q)
    PROVE  /\ Without(q, k) \in Seq(Node) /\ Len(Without(q, k)) = Len(q) - 1
           /\ \A i \in 1 .. k - 1 : Without(q, k)[i] = q[i]
           /\ \A i \in k .. Len(q) - 1 : Without(q, k)[i] = q[i + 1]
<1>1. PICK n \in Nat : n = Len(q)
  BY LenProperties
<1>2. \A i \in 1 .. n : q[i] \in Node
  BY <1>1, ElementOfSeq
<1> DEFINE f == SubSeq(q, 1, k - 1)
           b == SubSeq(q, k + 1, n)
<1>3. k \in Int /\ k - 1 \in Int /\ k + 1 \in Int /\ 1 <= k /\ k <= n
  BY <1>1
<1>4. f \in Seq(Node) /\ Len(f) = k - 1 /\ \A i \in 1 .. k - 1 : f[i] = q[i]
  <2>1. \A i \in 1 .. k - 1 : q[i] \in Node
    BY <1>2, <1>3
  <2>2. /\ f \in Seq(Node) /\ Len(f) = IF 1 <= k - 1 THEN (k - 1) - 1 + 1 ELSE 0
        /\ \A i \in 1 .. (k - 1) - 1 + 1 : f[i] = q[1 + i - 1]
    BY <1>3, <2>1, SubSeqProperties
  <2> HIDE DEF f
  <2>3. ASSUME NEW i \in 1 .. k - 1 PROVE f[i] = q[i]
    <3>1. i \in 1 .. (k - 1) - 1 + 1 /\ 1 + i - 1 = i
      BY <1>3
    <3> QED BY <2>2, <3>1
  <2> QED BY <1>3, <2>2, <2>3
<1>5. b \in Seq(Node) /\ Len(b) = n - k /\ \A i \in 1 .. n - k : b[i] = q[k + i]
  <2>1. \A i \in k + 1 .. n : q[i] \in Node
    BY <1>2, <1>3
  <2>2. /\ b \in Seq(Node) /\ Len(b) = IF k + 1 <= n THEN n - (k + 1) + 1 ELSE 0
        /\ \A i \in 1 .. n - (k + 1) + 1 : b[i] = q[(k + 1) + i - 1]
    BY <1>1, <1>3, <2>1, SubSeqProperties
  <2> HIDE DEF b
  <2>3. ASSUME NEW i \in 1 .. n - k PROVE b[i] = q[k + i]
    <3>1. i \in 1 .. n - (k + 1) + 1 /\ (k + 1) + i - 1 = k + i
      BY <1>1, <1>3
    <3> QED BY <2>2, <3>1
  <2> QED BY <1>1, <1>3, <2>2, <2>3
<1>6. Without(q, k) = f \o b
  BY <1>1 DEF Without
<1> HIDE DEF f, b
<1>7. /\ f \o b \in Seq(Node) /\ Len(f \o b) = (k - 1) + (n - k)
      /\ \A i \in 1 .. (k - 1) + (n - k) : (f \o b)[i] = IF i <= k - 1 THEN f[i] ELSE b[i - (k - 1)]
  <2>1. /\ f \o b \in Seq(Node) /\ Len(f \o b) = Len(f) + Len(b)
        /\ \A i \in 1 .. Len(f) + Len(b) : (f \o b)[i] = IF i <= Len(f) THEN f[i] ELSE b[i - Len(f)]
    BY <1>4, <1>5, ConcatProperties
  <2>2. Len(f) = k - 1 /\ Len(b) = n - k
    BY <1>4, <1>5
  <2> QED BY <2>1, <2>2, Zenon
<1>8. ASSUME NEW i \in 1 .. k - 1 PROVE (f \o b)[i] = q[i]
  BY <1>1, <1>3, <1>4, <1>7
<1>9. ASSUME NEW i \in k .. n - 1 PROVE (f \o b)[i] = q[i + 1]
  <2>1. /\ i \in 1 .. (k - 1) + (n - k) /\ ~(i <= k - 1)
        /\ i - (k - 1) \in 1 .. n - k /\ k + (i - (k - 1)) = i + 1
    BY <1>1, <1>3
  <2>2. (f \o b)[i] = b[i - (k - 1)]
    BY <1>7, <2>1
  <2>3. b[i - (k - 1)] = q[k + (i - (k - 1))]
    BY <1>5, <2>1
  <2> QED BY <2>1, <2>2, <2>3
<1>10. (k - 1) + (n - k) = n - 1
  BY <1>1, <1>3
<1> QED BY <1>1, <1>6, <1>7, <1>8, <1>9, <1>10

-----------------------------------------------------------------------------
(* What a call does to the sequence: first for any list in which the links *)
(* around the place have been set as they must, then for each operation.   *)

LEMMA SpelledLinks ==
    ASSUME NEW list, NEW S, NEW q, Spells(list, S, q)
    PROVE  /\ q \in Seq(Node) /\ Len(q) \in Nat
           /\ \A i \in 1 .. Len(q) : q[i] \in S /\ q[i] \in Node /\ q[i] # Null
           /\ \A m \in S : \E i \in 1 .. Len(q) : m = q[i]
           /\ S \subseteq Node
<1>1. q \in Seq(Node) /\ S = {q[i] : i \in 1 .. Len(q)}
  BY DEF Spells
<1>2. Len(q) \in Nat /\ \A i \in 1 .. Len(q) : q[i] \in Node
  BY <1>1, LenProperties, ElementOfSeq
<1> QED BY <1>1, <1>2, NodeAssumption

LEMMA FrontSpelled ==
    ASSUME NEW list, NEW S, NEW q, Spells(list, S, q), NEW n \in Node \ S, NEW r,
           r.head = n, r.prv[n] = Null,
           Len(q) = 0 => r.tail = n,
           Len(q) # 0 => r.tail = list.tail /\ r.prv[list.head] = n /\ r.nxt[n] = list.head,
           \A m \in S : r.nxt[m] = list.nxt[m] /\ (m # list.head => r.prv[m] = list.prv[m])
    PROVE  Spells(r, S \union {n}, <<n>> \o q)
<1>1. PICK p : p = <<n>> \o q
  OBVIOUS
<1>2. PICK k \in Nat : k = Len(q)
  BY SpelledLinks
<1>3. q \in Seq(Node) /\ \A i \in 1 .. k : q[i] \in S /\ q[i] # n
  BY <1>2, SpelledLinks
<1>4. /\ p \in Seq(Node) /\ Len(p) = k + 1 /\ p[1] = n
      /\ \A i \in 1 .. k : p[i + 1] = q[i]
  BY <1>1, <1>2, <1>3, InFront
<1>5. \A i \in 2 .. k + 1 : i - 1 \in 1 .. k /\ p[i] = q[i - 1]
  <2> SUFFICES ASSUME NEW i \in 2 .. k + 1 PROVE i - 1 \in 1 .. k /\ p[i] = q[i - 1]
    OBVIOUS
  <2>1. PICK j \in 1 .. k : j = i - 1 /\ i = j + 1
    BY <1>2
  <2> QED BY <1>4, <2>1
<1>6. \A i \in 1 .. k + 1 : i = 1 \/ i \in 2 .. k + 1
  BY <1>2
<1>7. S \union {n} = {p[i] : i \in 1 .. Len(p)}
  <2>1. S = {q[i] : i \in 1 .. k}
    BY <1>2 DEF Spells
  <2>2. \A i \in 1 .. k : i + 1 \in 1 .. k + 1
    BY <1>2
  <2>3. 1 \in 1 .. k + 1
    BY <1>2
  <2>4. ASSUME NEW m \in S \union {n} PROVE m \in {p[i] : i \in 1 .. k + 1}
    BY <1>4, <2>1, <2>2, <2>3
  <2>5. ASSUME NEW i \in 1 .. k + 1 PROVE p[i] \in S \union {n}
    BY <1>3, <1>4, <1>5, <1>6
  <2> QED BY <1>4, <2>4, <2>5
<1>8. ASSUME NEW i \in 1 .. Len(p), NEW j \in 1 .. Len(p), p[i] = p[j] PROVE i = j
  <2>1. \A x, y \in 1 .. k : q[x] = q[y] => x = y
    BY <1>2 DEF Spells
  <2>2. CASE i = 1 \/ j = 1
    BY <1>3, <1>4, <1>5, <1>6, <1>8, <2>2
  <2>3. CASE i \in 2 .. k + 1 /\ j \in 2 .. k + 1
    <3>1. i - 1 = j - 1
      BY <1>5, <1>8, <2>1, <2>3
    <3> QED BY <2>3, <3>1
  <2> QED BY <1>4, <1>6, <2>2, <2>3
<1>9. r.head = p[1] /\ r.prv[p[1]] = Null
  BY <1>4
<1>10. r.tail = p[k + 1]
  <2>1. CASE k = 0
    BY <1>2, <1>4, <2>1
  <2>2. CASE k # 0
    <3>1. list.tail = q[k] /\ k \in 1 .. k
      BY <1>2, <2>2 DEF Spells
    <3> QED BY <1>2, <1>4, <2>2, <3>1
  <2> QED BY <2>1, <2>2
<1>11. ASSUME NEW i \in 2 .. k + 1 PROVE r.prv[p[i]] = p[i - 1]
  <2>1. PICK j \in 1 .. k : j = i - 1 /\ p[i] = q[j]
    BY <1>5
  <2>2. k # 0
    BY <1>2, <2>1
  <2>3. list.head = q[1]
    BY <1>2, <2>2 DEF Spells
  <2>4. CASE j = 1
    BY <1>2, <1>4, <2>1, <2>2, <2>3, <2>4
  <2>5. CASE j # 1
    <3>1. j \in 2 .. k /\ 1 \in 1 .. k /\ i - 1 \in 2 .. k + 1
      BY <1>2, <2>1, <2>5
    <3>2. q[j] # list.head
      BY <1>2, <2>3, <2>5, <3>1 DEF Spells
    <3>3. r.prv[q[j]] = list.prv[q[j]]
      BY <1>3, <3>2
    <3>4. list.prv[q[j]] = q[j - 1]
      BY <1>2, <3>1 DEF Spells
    <3>5. p[i - 1] = q[j - 1]
      BY <1>5, <2>1, <3>1
    <3> QED BY <2>1, <3>3, <3>4, <3>5
  <2> QED BY <2>4, <2>5
<1>12. ASSUME NEW i \in 1 .. k PROVE r.nxt[p[i]] \in {Null, p[i + 1]}
  <2>1. p[i + 1] = q[i] /\ k # 0
    BY <1>2, <1>4
  <2>2. CASE i = 1
    <3>1. list.head = q[1]
      BY <1>2, <2>1 DEF Spells
    <3> QED BY <1>2, <1>4, <2>1, <2>2, <3>1
  <2>3. CASE i # 1
    <3>1. PICK j \in 1 .. k - 1 : j = i - 1 /\ i = j + 1 /\ j \in 1 .. k
      BY <1>2, <2>3
    <3>2. p[i] = q[j]
      BY <1>4, <3>1
    <3>3. r.nxt[q[j]] = list.nxt[q[j]]
      BY <1>3, <3>1
    <3>4. list.nxt[q[j]] \in {Null, q[j + 1]}
      BY <1>2, <3>1 DEF Spells
    <3> QED BY <2>1, <3>1, <3>2, <3>3, <3>4
  <2> QED BY <2>2, <2>3
<1>13. Len(p) # 0 /\ Len(p) - 1 = k
  BY <1>2, <1>4
<1>14. /\ \A i \in 2 .. Len(p) : r.prv[p[i]] = p[i - 1]
       /\ \A i \in 1 .. Len(p) - 1 : r.nxt[p[i]] \in {Null, p[i + 1]}
  BY <1>4, <1>11, <1>12, <1>13
<1>15. r.tail = p[Len(p)]
  BY <1>4, <1>10
<1>16. Spells(r, S \union {n}, p)
  BY <1>4, <1>7, <1>8, <1>9, <1>13, <1>14, <1>15 DEF Spells
<1> QED BY <1>1, <1>16

LEMMA BackSpelled ==
    ASSUME NEW list, NEW S, NEW q, Spells(list, S, q), Len(q) # 0, NEW n \in Node \ S, NEW r,
           r.head = list.head, r.tail = n, r.prv[n] = list.tail, r.nxt[list.tail] = n,
           \A m \in S : r.prv[m] = list.prv[m] /\ (m # list.tail => r.nxt[m] = list.nxt[m])
    PROVE  Spells(r, S \union {n}, Append(q, n))
<1>1. PICK p : p = Append(q, n)
  OBVIOUS
<1>2. PICK k \in Nat : k = Len(q) /\ k # 0
  BY SpelledLinks
<1>3. q \in Seq(Node) /\ \A i \in 1 .. k : q[i] \in S /\ q[i] # n
  BY <1>2, SpelledLinks
<1>4. /\ p \in Seq(Node) /\ Len(p) = k + 1 /\ p[k + 1] = n
      /\ \A i \in 1 .. k : p[i] = q[i]
  BY <1>1, <1>2, <1>3, AppendProperties
<1>5. 1 \in 1 .. k /\ k \in 1 .. k /\ \A i \in 1 .. k + 1 : i \in 1 .. k \/ i = k + 1
  BY <1>2
<1>6. list.head = q[1] /\ list.tail = q[k] /\ list.prv[q[1]] = Null
  BY <1>2 DEF Spells
<1>7. S \union {n} = {p[i] : i \in 1 .. Len(p)}
  <2>1. S = {q[i] : i \in 1 .. k}
    BY <1>2 DEF Spells
  <2>2. \A i \in 1 .. k : i \in 1 .. k + 1
    BY <1>2
  <2>3. k + 1 \in 1 .. k + 1
    BY <1>2
  <2>4. ASSUME NEW m \in S \union {n} PROVE m \in {p[i] : i \in 1 .. k + 1}
    BY <1>4, <2>1, <2>2, <2>3
  <2>5. ASSUME NEW i \in 1 .. k + 1 PROVE p[i] \in S \union {n}
    BY <1>3, <1>4, <1>5
  <2> QED BY <1>4, <2>4, <2>5
<1>8. ASSUME NEW i \in 1 .. Len(p), NEW j \in 1 .. Len(p), p[i] = p[j] PROVE i = j
  <2>1. \A x, y \in 1 .. k : q[x] = q[y] => x = y
    BY <1>2 DEF Spells
  <2> QED BY <1>3, <1>4, <1>5, <1>8, <2>1
<1>9. r.head = p[1] /\ r.prv[p[1]] = Null
  BY <1>3, <1>4, <1>5, <1>6
<1>10. ASSUME NEW i \in 2 .. k + 1 PROVE r.prv[p[i]] = p[i - 1]
  <2>1. i - 1 \in 1 .. k /\ p[i - 1] = q[i - 1]
    BY <1>2, <1>4
  <2>2. CASE i = k + 1
    BY <1>2, <1>4, <1>6, <2>1, <2>2
  <2>3. CASE i # k + 1
    <3>1. i \in 1 .. k /\ i \in 2 .. Len(q)
      BY <1>2, <2>3
    <3>2. list.prv[q[i]] = q[i - 1]
      BY <3>1 DEF Spells
    <3> QED BY <1>3, <1>4, <2>1, <3>1, <3>2
  <2> QED BY <2>2, <2>3
<1>11. ASSUME NEW i \in 1 .. k PROVE r.nxt[p[i]] \in {Null, p[i + 1]}
  <2>1. CASE i = k
    BY <1>4, <1>6, <2>1
  <2>2. CASE i # k
    <3>1. i + 1 \in 1 .. k /\ i \in 1 .. Len(q) - 1
      BY <1>2, <2>2
    <3>2. q[i] # list.tail
      BY <1>2, <1>5, <1>6, <2>2 DEF Spells
    <3>3. list.nxt[q[i]] \in {Null, q[i + 1]}
      BY <3>1 DEF Spells
    <3> QED BY <1>3, <1>4, <3>1, <3>2, <3>3
  <2> QED BY <2>1, <2>2
<1>12. Len(p) # 0 /\ Len(p) - 1 = k
  BY <1>2, <1>4
<1>13. /\ \A i \in 2 .. Len(p) : r.prv[p[i]] = p[i - 1]
       /\ \A i \in 1 .. Len(p) - 1 : r.nxt[p[i]] \in {Null, p[i + 1]}
  BY <1>4, <1>10, <1>11, <1>12
<1>14. r.tail = p[Len(p)]
  BY <1>4
<1>15. Spells(r, S \union {n}, p)
  BY <1>4, <1>7, <1>8, <1>9, <1>12, <1>13, <1>14 DEF Spells
<1> QED BY <1>1, <1>15

\* The k-th is taken out.
LEMMA WithoutSpelled ==
    ASSUME NEW list, NEW S, NEW q, Spells(list, S, q), NEW k \in 1 .. Len(q), NEW r,
           Len(q) = 1 => r.head = Null /\ r.tail = Null,
           Len(q) # 1 => /\ r.head = IF k = 1 THEN q[2] ELSE q[1]
                         /\ r.tail = IF k = Len(q) THEN q[k - 1] ELSE q[Len(q)],
           k # Len(q) => r.prv[q[k + 1]] = IF k = 1 THEN Null ELSE q[k - 1],
           k # 1 /\ k # Len(q) => r.nxt[q[k - 1]] \in {Null, q[k + 1]},
           \A i \in 1 .. Len(q) : i # k + 1 => r.prv[q[i]] = list.prv[q[i]],
           \A i \in 1 .. Len(q) : i # k - 1 => r.nxt[q[i]] \in {Null, list.nxt[q[i]]}
    PROVE  Spells(r, S \ {q[k]}, Without(q, k))
<1>1. PICK p : p = Without(q, k)
  OBVIOUS
<1>2. PICK n \in Nat : n = Len(q)
  BY SpelledLinks
<1>3. k \in 1 .. n /\ k \in Nat /\ q \in Seq(Node)
  BY <1>2, SpelledLinks
<1>4. /\ p \in Seq(Node) /\ Len(p) = n - 1 /\ n - 1 \in Nat
      /\ \A i \in 1 .. k - 1 : p[i] = q[i]
      /\ \A i \in k .. n - 1 : p[i] = q[i + 1]
  <2>1. /\ Without(q, k) \in Seq(Node) /\ Len(Without(q, k)) = Len(q) - 1
        /\ \A i \in 1 .. k - 1 : Without(q, k)[i] = q[i]
        /\ \A i \in k .. Len(q) - 1 : Without(q, k)[i] = q[i + 1]
    BY <1>3, WithoutIs
  <2>2. n - 1 \in Nat
    BY <1>2, <1>3
  <2> QED BY <1>1, <1>2, <2>1, <2>2, Zenon
<1>5. /\ S = {q[i] : i \in 1 .. n}
      /\ \A x, y \in 1 .. n : q[x] = q[y] => x = y
      /\ list.prv[q[1]] = Null
      /\ \A i \in 2 .. n : list.prv[q[i]] = q[i - 1]
      /\ \A i \in 1 .. n - 1 : list.nxt[q[i]] \in {Null, q[i + 1]}
  BY <1>2, <1>3 DEF Spells
\* Where what is left was.
<1> DEFINE was(i) == IF i < k THEN i ELSE i + 1
<1>6. \A i \in 1 .. n - 1 : was(i) \in 1 .. n /\ was(i) # k /\ p[i] = q[was(i)]
  <2> SUFFICES ASSUME NEW i \in 1 .. n - 1 PROVE was(i) \in 1 .. n /\ was(i) # k /\ p[i] = q[was(i)]
    OBVIOUS
  <2>1. CASE i < k
    <3>1. i \in 1 .. k - 1
      BY <1>3, <2>1
    <3> QED BY <1>2, <1>4, <2>1, <3>1
  <2>2. CASE ~(i < k)
    <3>1. i \in k .. n - 1 /\ i + 1 \in 1 .. n /\ i + 1 # k
      BY <1>2, <1>3, <2>2
    <3> QED BY <1>4, <2>2, <3>1
  <2> QED BY <2>1, <2>2
<1>7. S \ {q[k]} = {p[i] : i \in 1 .. Len(p)}
  <2>1. ASSUME NEW m \in S \ {q[k]} PROVE m \in {p[i] : i \in 1 .. n - 1}
    <3>1. PICK i \in 1 .. n : m = q[i] /\ i # k
      BY <1>5
    <3>2. CASE i < k
      <4>1. i \in 1 .. k - 1 /\ i \in 1 .. n - 1
        BY <1>2, <1>3, <3>2
      <4> QED BY <1>4, <3>1, <4>1
    <3>3. CASE ~(i < k)
      <4>1. i - 1 \in k .. n - 1 /\ i - 1 \in 1 .. n - 1 /\ (i - 1) + 1 = i
        BY <1>2, <1>3, <3>1, <3>3
      <4>2. p[i - 1] = q[(i - 1) + 1]
        BY <1>4, <4>1
      <4> QED BY <3>1, <4>1, <4>2
    <3> QED BY <3>2, <3>3
  <2>2. ASSUME NEW i \in 1 .. n - 1 PROVE p[i] \in S \ {q[k]}
    BY <1>3, <1>5, <1>6
  <2> QED BY <1>4, <2>1, <2>2
<1>8. ASSUME NEW i \in 1 .. n - 1, NEW j \in 1 .. n - 1, p[i] = p[j] PROVE i = j
  <2>1. was(i) = was(j)
    <3>1. /\ was(i) \in 1 .. n /\ was(j) \in 1 .. n
          /\ p[i] = q[was(i)] /\ p[j] = q[was(j)]
      BY <1>6
    <3> HIDE DEF was
    <3> QED BY <1>5, <1>8, <3>1, Zenon
  <2> QED BY <1>2, <1>3, <2>1
<1>9. n - 1 = 0 => r.head = Null /\ r.tail = Null
  BY <1>2
<1>10. ASSUME n - 1 # 0 PROVE r.head = p[1] /\ r.tail = p[n - 1] /\ r.prv[p[1]] = Null
  <2>1. n # 1 /\ 1 \in 1 .. n - 1 /\ n - 1 \in 1 .. n - 1 /\ 1 + 1 = 2 /\ (n - 1) + 1 = n
    BY <1>2, <1>3, <1>10
  <2>2. CASE k = 1
    <3>1. k # n /\ p[1] = q[2] /\ k + 1 = 2
      BY <1>6, <2>1, <2>2
    <3>2. r.head = p[1] /\ r.prv[p[1]] = Null /\ r.tail = q[n]
      BY <1>2, <2>1, <2>2, <3>1
    <3>3. was(n - 1) = n
      BY <1>2, <2>1, <2>2
    <3> QED BY <1>6, <2>1, <3>2, <3>3
  <2>3. CASE k # 1
    <3>1. 1 < k /\ 1 # k + 1
      BY <1>3, <2>3
    <3>2. p[1] = q[1] /\ r.head = p[1] /\ r.prv[p[1]] = Null
      BY <1>2, <1>5, <1>6, <2>1, <2>3, <3>1, 1 \in 1 .. n
    <3>3. CASE k = n
      <4>1. was(n - 1) = k - 1
        BY <1>2, <3>3
      <4> QED BY <1>2, <1>6, <2>1, <3>2, <3>3, <4>1
    <3>4. CASE k # n
      <4>1. was(n - 1) = n
        BY <1>2, <1>3, <3>4
      <4> QED BY <1>2, <1>6, <2>1, <3>2, <3>4, <4>1
    <3> QED BY <3>3, <3>4
  <2> QED BY <2>2, <2>3
<1>11. ASSUME NEW i \in 2 .. n - 1 PROVE r.prv[p[i]] = p[i - 1]
  <2>1. i \in 1 .. n - 1 /\ i - 1 \in 1 .. n - 1
    BY <1>2
  <2>2. p[i] = q[was(i)] /\ p[i - 1] = q[was(i - 1)]
    BY <1>6, <2>1
  <2>3. CASE i = k
    <3>1. was(i) = k + 1 /\ was(i - 1) = k - 1 /\ k # 1 /\ k # n
      BY <1>2, <1>3, <2>1, <2>3
    <3> QED BY <1>2, <2>2, <3>1
  <2>4. CASE i # k
    <3>1. /\ was(i) # k + 1 /\ was(i) \in 2 .. n /\ was(i) \in 1 .. n
          /\ was(i) - 1 = was(i - 1)
      <4>1. CASE i < k
        BY ONLY <1>2, <1>3, <4>1, i \in 2 .. n - 1
      <4>2. CASE k < i
        BY ONLY <1>2, <1>3, <4>2, i \in 2 .. n - 1
      <4> QED BY <1>3, <2>4, <4>1, <4>2
    <3> HIDE DEF was
    <3>2. r.prv[q[was(i)]] = list.prv[q[was(i)]]
      BY <1>2, <3>1
    <3>3. list.prv[q[was(i)]] = q[was(i) - 1]
      BY <1>5, <3>1
    <3> QED BY <2>2, <3>1, <3>2, <3>3
  <2> QED BY <2>3, <2>4
<1>12. ASSUME NEW i \in 1 .. (n - 1) - 1 PROVE r.nxt[p[i]] \in {Null, p[i + 1]}
  <2>1. i \in 1 .. n - 1 /\ i + 1 \in 1 .. n - 1
    BY <1>2
  <2>2. p[i] = q[was(i)] /\ p[i + 1] = q[was(i + 1)]
    BY <1>6, <2>1
  <2>3. CASE i = k - 1
    <3>1. was(i) = k - 1 /\ was(i + 1) = k + 1 /\ k # 1 /\ k # n
      BY <1>2, <1>3, <2>1, <2>3
    <3> QED BY <1>2, <2>2, <3>1
  <2>4. CASE i # k - 1
    <3>1. /\ was(i) # k - 1 /\ was(i) \in 1 .. n - 1 /\ was(i) \in 1 .. n
          /\ was(i) + 1 = was(i + 1)
      BY <1>2, <1>3, <2>1, <2>4
    <3> HIDE DEF was
    <3>2. r.nxt[q[was(i)]] \in {Null, list.nxt[q[was(i)]]}
      BY <1>2, <3>1
    <3>3. list.nxt[q[was(i)]] \in {Null, q[was(i) + 1]}
      BY <1>5, <3>1
    <3> QED BY <2>2, <3>1, <3>2, <3>3
  <2> QED BY <2>3, <2>4
<1> HIDE DEF was
<1>13. Spells(r, S \ {q[k]}, p)
  BY <1>4, <1>7, <1>8, <1>9, <1>10, <1>11, <1>12 DEF Spells
<1> QED BY <1>1, <1>13

LEMMA SpelledEnds ==
    ASSUME NEW list \in Lists(Node, Link), NEW S, NEW q, Spells(list, S, q)
    PROVE  /\ Len(q) \in Nat
           /\ Empty(list) <=> Len(q) = 0
           /\ ~Empty(list) => (Orphan(list) <=> Len(q) = 1)
           /\ list.nxt \in [Node -> Link] /\ list.prv \in [Node -> Link]
<1>1. list.nxt \in [Node -> Link] /\ list.prv \in [Node -> Link]
  BY DEF Lists
<1>2. Len(q) \in Nat /\ \A i \in 1 .. Len(q) : q[i] # Null
  BY SpelledLinks
<1>3. Empty(list) <=> Len(q) = 0
  BY <1>2 DEF Spells, Empty
<1>4. ASSUME Len(q) # 0 PROVE Orphan(list) <=> Len(q) = 1
  <2>1. list.head = q[1] /\ list.tail = q[Len(q)] /\ 1 \in 1 .. Len(q) /\ Len(q) \in 1 .. Len(q)
    BY <1>2, <1>4 DEF Spells
  <2>2. q[1] = q[Len(q)] <=> 1 = Len(q)
    BY <2>1 DEF Spells
  <2> QED BY <2>1, <2>2 DEF Orphan
<1> QED BY <1>1, <1>2, <1>3, <1>4

LEMMA PushFrontSpells ==
    ASSUME NEW list \in Lists(Node, Link), NEW S, NEW q, Spells(list, S, q), NEW n \in Node \ S
    PROVE  Spells(PushFront(list, n), S \union {n}, <<n>> \o q)
<1>1. PICK r : r = PushFront(list, n)
  OBVIOUS
<1>2. /\ list.nxt \in [Node -> Link] /\ list.prv \in [Node -> Link]
      /\ Empty(list) <=> Len(q) = 0
  BY SpelledEnds
<1>3. S \subseteq Node /\ (Len(q) # 0 => list.head \in S)
  <2>1. Len(q) # 0 => list.head = q[1] /\ 1 \in 1 .. Len(q)
    BY SpelledLinks DEF Spells
  <2> QED BY <2>1, SpelledLinks
<1>4. CASE Len(q) = 0
  <2>1. /\ r.head = n /\ r.tail = n
        /\ r.nxt = [list.nxt EXCEPT ![n] = Null] /\ r.prv = [list.prv EXCEPT ![n] = Null]
    BY <1>1, <1>2, <1>4 DEF PushFront, Singleton
  <2>2. r.prv[n] = Null /\ \A m \in S : r.nxt[m] = list.nxt[m] /\ r.prv[m] = list.prv[m]
    BY <1>2, <1>3, <2>1
  <2>3. /\ Len(q) = 0 => r.tail = n
        /\ Len(q) # 0 => r.tail = list.tail /\ r.prv[list.head] = n /\ r.nxt[n] = list.head
        /\ \A m \in S : r.nxt[m] = list.nxt[m] /\ (m # list.head => r.prv[m] = list.prv[m])
    BY <1>4, <2>1, <2>2
  <2>4. Spells(r, S \union {n}, <<n>> \o q)
    BY <2>1, <2>2, <2>3, FrontSpelled, Zenon
  <2> QED BY <1>1, <2>4
<1>5. CASE Len(q) # 0
  <2>1. /\ r.head = n /\ r.tail = list.tail
        /\ r.nxt = [list.nxt EXCEPT ![n] = list.head]
        /\ r.prv = [list.prv EXCEPT ![list.head] = n, ![n] = Null]
    BY <1>1, <1>2, <1>5 DEF PushFront
  <2>2. /\ r.prv[n] = Null /\ r.prv[list.head] = n /\ r.nxt[n] = list.head
        /\ \A m \in S : r.nxt[m] = list.nxt[m] /\ (m # list.head => r.prv[m] = list.prv[m])
    BY <1>2, <1>3, <1>5, <2>1
  <2>3. /\ Len(q) = 0 => r.tail = n
        /\ Len(q) # 0 => r.tail = list.tail /\ r.prv[list.head] = n /\ r.nxt[n] = list.head
    BY <1>5, <2>1, <2>2
  <2>4. Spells(r, S \union {n}, <<n>> \o q)
    BY <2>1, <2>2, <2>3, FrontSpelled, Zenon
  <2> QED BY <1>1, <2>4
<1> QED BY <1>4, <1>5

\* On an empty list push_back_node does what push_front_node does.
LEMMA PushBackSpells ==
    ASSUME NEW list \in Lists(Node, Link), NEW S, NEW q, Spells(list, S, q), NEW n \in Node \ S
    PROVE  \E p \in {<<n>> \o q, Append(q, n)} : Spells(PushBack(list, n), S \union {n}, p)
<1>1. PICK r : r = PushBack(list, n)
  OBVIOUS
<1>2. /\ list.nxt \in [Node -> Link] /\ list.prv \in [Node -> Link]
      /\ Empty(list) <=> Len(q) = 0
  BY SpelledEnds
<1>3. S \subseteq Node /\ (Len(q) # 0 => list.tail \in S)
  <2>1. Len(q) # 0 => list.tail = q[Len(q)] /\ Len(q) \in 1 .. Len(q)
    BY SpelledLinks DEF Spells
  <2> QED BY <2>1, SpelledLinks
<1>4. CASE Len(q) = 0
  <2>1. PushBack(list, n) = PushFront(list, n)
    BY <1>2, <1>4 DEF PushBack, PushFront
  <2>2. Spells(PushFront(list, n), S \union {n}, <<n>> \o q)
    BY PushFrontSpells
  <2> QED BY <2>1, <2>2
<1>5. CASE Len(q) # 0
  <2>1. /\ r.head = list.head /\ r.tail = n
        /\ r.nxt = [list.nxt EXCEPT ![list.tail] = n, ![n] = Null]
        /\ r.prv = [list.prv EXCEPT ![n] = list.tail]
    BY <1>1, <1>2, <1>5 DEF PushBack
  <2>2. /\ r.prv[n] = list.tail /\ r.nxt[list.tail] = n
        /\ \A m \in S : r.prv[m] = list.prv[m] /\ (m # list.tail => r.nxt[m] = list.nxt[m])
    BY <1>2, <1>3, <1>5, <2>1
  <2>3. Spells(r, S \union {n}, Append(q, n))
    BY <1>5, <2>1, <2>2, BackSpelled
  <2> QED BY <1>1, <2>3
<1> QED BY <1>4, <1>5

LEMMA PopFrontSpells ==
    ASSUME NEW list \in Lists(Node, Link), NEW S, NEW q, Spells(list, S, q),
           ~Empty(list), ~PopFrontFaults(list)
    PROVE  /\ 1 \in 1 .. Len(q) /\ list.head = q[1]
           /\ Spells(PopFront(list), S \ {q[1]}, Without(q, 1))
<1>1. PICK r : r = PopFront(list)
  OBVIOUS
<1>2. PICK n \in Nat : n = Len(q) /\ n # 0 /\ (Orphan(list) <=> n = 1)
  BY SpelledEnds
<1>3. list.nxt \in [Node -> Link] /\ list.prv \in [Node -> Link]
  BY SpelledEnds
<1>4. /\ list.head = q[1] /\ list.tail = q[n] /\ 1 \in 1 .. n
      /\ \A i, j \in 1 .. n : q[i] = q[j] => i = j
  BY <1>2 DEF Spells
<1>5. \A i \in 1 .. n : q[i] \in Node
  BY <1>2, SpelledLinks
<1>6. CASE n = 1
  <2>1. r.head = Null /\ r.tail = Null /\ r.nxt = list.nxt /\ r.prv = list.prv
    BY <1>1, <1>2, <1>6 DEF PopFront, Cleared
  <2>2. Spells(r, S \ {q[1]}, Without(q, 1))
    BY <1>2, <1>4, <1>6, <2>1, WithoutSpelled
  <2> QED BY <1>1, <1>2, <1>4, <2>2
<1>7. CASE n # 1
  <2>1. 1 \in 1 .. n - 1 /\ 2 \in 1 .. n /\ 1 + 1 = 2
    BY <1>2, <1>7
  <2>2. list.nxt[q[1]] = q[2]
    <3>1. list.nxt[q[1]] \in {Null, q[1 + 1]}
      BY <1>2, <2>1 DEF Spells
    <3> QED BY <1>2, <1>4, <1>7, <2>1, <3>1 DEF PopFrontFaults
  <2>3. /\ r.head = q[2] /\ r.tail = q[n] /\ r.nxt = list.nxt
        /\ r.prv = [list.prv EXCEPT ![q[2]] = Null]
    BY <1>1, <1>2, <1>4, <1>7, <2>2 DEF PopFront
  <2>4. r.prv[q[2]] = Null /\ \A i \in 1 .. n : i # 2 => r.prv[q[i]] = list.prv[q[i]]
    BY <1>3, <1>4, <1>5, <2>1, <2>3
  <2>5. /\ Len(q) # 1 /\ 1 # Len(q) /\ 1 \in 1 .. Len(q)
        /\ \A i \in 1 .. Len(q) : i # 1 + 1 => r.prv[q[i]] = list.prv[q[i]]
        /\ \A i \in 1 .. Len(q) : i # 1 - 1 => r.nxt[q[i]] \in {Null, list.nxt[q[i]]}
    BY <1>2, <1>4, <1>7, <2>1, <2>3, <2>4
  <2>6. Spells(r, S \ {q[1]}, Without(q, 1))
    BY <1>2, <2>1, <2>3, <2>4, <2>5, WithoutSpelled
  <2> QED BY <1>1, <1>2, <1>4, <2>6
<1> QED BY <1>6, <1>7

LEMMA PopBackSpells ==
    ASSUME NEW list \in Lists(Node, Link), NEW S, NEW q, Spells(list, S, q), ~Empty(list)
    PROVE  /\ Len(q) \in 1 .. Len(q) /\ list.tail = q[Len(q)]
           /\ Spells(PopBack(list), S \ {q[Len(q)]}, Without(q, Len(q)))
<1>1. PICK r : r = PopBack(list)
  OBVIOUS
<1>2. PICK n \in Nat : n = Len(q) /\ n # 0 /\ (Orphan(list) <=> n = 1)
  BY SpelledEnds
<1>3. list.nxt \in [Node -> Link] /\ list.prv \in [Node -> Link]
  BY SpelledEnds
<1>4. list.head = q[1] /\ list.tail = q[n] /\ 1 \in 1 .. n /\ n \in 1 .. n
  BY <1>2 DEF Spells
<1>5. \A i \in 1 .. n : q[i] \in Node
  BY <1>2, SpelledLinks
<1>6. CASE n = 1
  <2>1. r.head = Null /\ r.tail = Null /\ r.nxt = list.nxt /\ r.prv = list.prv
    BY <1>1, <1>2, <1>6 DEF PopBack, Cleared
  <2>2. Spells(r, S \ {q[n]}, Without(q, n))
    BY <1>2, <1>4, <1>6, <2>1, WithoutSpelled
  <2> QED BY <1>1, <1>2, <1>4, <2>2
<1>7. CASE n # 1
  <2>1. n \in 2 .. Len(q)
    BY <1>2, <1>7
  <2>2. list.prv[q[n]] = q[n - 1]
    BY <2>1 DEF Spells
  <2>3. /\ r.head = q[1] /\ r.tail = q[n - 1] /\ r.prv = list.prv
        /\ r.nxt = [list.nxt EXCEPT ![q[1]] = Null]
    BY <1>1, <1>2, <1>4, <1>7, <2>2 DEF PopBack
  <2>4. \A i \in 1 .. n : r.nxt[q[i]] \in {Null, list.nxt[q[i]]}
    BY <1>3, <1>4, <1>5, <2>3
  <2>5. Spells(r, S \ {q[n]}, Without(q, n))
    BY <1>2, <1>4, <1>7, <2>3, <2>4, WithoutSpelled
  <2> QED BY <1>1, <1>2, <1>4, <2>5
<1> QED BY <1>6, <1>7

LEMMA PopNodeSpells ==
    ASSUME NEW list \in Lists(Node, Link), NEW S, NEW q, Spells(list, S, q),
           NEW n \in S, ~PopNodeFaults(list, n)
    PROVE  \E k \in 1 .. Len(q) : Spells(PopNode(list, n), S \ {n}, Without(q, k))
<1>1. PICK k \in 1 .. Len(q) : n = q[k]
  BY SpelledLinks
<1>2. Len(q) \in Nat /\ n # Null /\ Len(q) # 0
  BY <1>1, SpelledLinks
<1>3. ~Empty(list) /\ list.nxt \in [Node -> Link] /\ list.prv \in [Node -> Link]
  BY <1>2, SpelledEnds
<1>4. list.head = q[1] /\ list.tail = q[Len(q)]
  BY <1>2 DEF Spells
<1>5. CASE n = list.head
  <2>1. PopNode(list, n) = PopFront(list) /\ ~PopFrontFaults(list)
    BY <1>5 DEF PopNode, PopNodeFaults
  <2> QED BY <1>3, <1>4, <1>5, <2>1, PopFrontSpells
<1>6. CASE n # list.head /\ n = list.tail
  <2>1. PopNode(list, n) = PopBack(list)
    BY <1>6 DEF PopNode
  <2> QED BY <1>3, <1>4, <1>6, <2>1, PopBackSpells
<1>7. CASE n # list.head /\ n # list.tail
  <2>1. PICK r : r = PopNode(list, n)
    OBVIOUS
  <2>2. k # 1 /\ k # Len(q)
    BY <1>1, <1>4, <1>7
  <2>3. /\ k \in 2 .. Len(q) /\ k \in 1 .. Len(q) - 1
        /\ k - 1 \in 1 .. Len(q) /\ k + 1 \in 1 .. Len(q) /\ Len(q) # 1
    BY ONLY <1>2, <2>2, k \in 1 .. Len(q)
  <2>4. list.prv[n] = q[k - 1]
    BY <1>1, <2>3 DEF Spells
  <2>5. list.nxt[n] = q[k + 1]
    <3>1. list.nxt[n] \in {Null, q[k + 1]}
      BY <1>1, <2>3 DEF Spells
    <3> QED BY <1>7, <3>1 DEF PopNodeFaults
  <2>6. /\ r.head = q[1] /\ r.tail = q[Len(q)]
        /\ r.nxt = [list.nxt EXCEPT ![q[k - 1]] = q[k + 1]]
        /\ r.prv = [list.prv EXCEPT ![q[k + 1]] = q[k - 1]]
    BY <1>4, <1>7, <2>1, <2>4, <2>5 DEF PopNode, JoinList
  <2>7. \A i \in 1 .. Len(q) : q[i] \in Node
    BY SpelledLinks
  <2>8. \A i, j \in 1 .. Len(q) : q[i] = q[j] => i = j
    BY DEF Spells
  <2>9. /\ r.nxt[q[k - 1]] = q[k + 1] /\ r.prv[q[k + 1]] = q[k - 1]
        /\ \A i \in 1 .. Len(q) : i # k + 1 => r.prv[q[i]] = list.prv[q[i]]
        /\ \A i \in 1 .. Len(q) : i # k - 1 => r.nxt[q[i]] = list.nxt[q[i]]
    BY <1>3, <2>3, <2>6, <2>7, <2>8
  <2>10. Spells(r, S \ {q[k]}, Without(q, k))
    <3>1. /\ r.head = IF k = 1 THEN q[2] ELSE q[1]
          /\ r.tail = IF k = Len(q) THEN q[k - 1] ELSE q[Len(q)]
          /\ r.prv[q[k + 1]] = IF k = 1 THEN Null ELSE q[k - 1]
          /\ r.nxt[q[k - 1]] \in {Null, q[k + 1]}
          /\ \A i \in 1 .. Len(q) : i # k - 1 => r.nxt[q[i]] \in {Null, list.nxt[q[i]]}
      BY <2>2, <2>6, <2>9
    <3> QED BY <2>3, <2>9, <3>1, WithoutSpelled
  <2> QED BY <1>1, <2>1, <2>10
<1> QED BY <1>5, <1>6, <1>7

-----------------------------------------------------------------------------
(* The calls. *)

\* What Deque lets a step do to its items.
Serves(q, p) ==
    \/ p = q
    \/ \E n \in Node : (\A i \in DOMAIN q : q[i] # n) /\ p \in {<<n>> \o q, Append(q, n)}
    \/ \E k \in DOMAIN q : p = Without(q, k)

LEMMA CallServes ==
    ASSUME NEW faults \in BOOLEAN, NEW after, NEW m, Call(faults, after, m),
           NEW q, Spells(l, member, q),
           ~faults => \E p : Spells(after, m, p) /\ Serves(q, p)
    PROVE  \E p : Spells(l', member', p) /\ Serves(q, p)
<1>1. CASE faults
  BY <1>1 DEF Call, Serves
<1>2. CASE ~faults
  BY <1>2 DEF Call
<1> QED BY <1>1, <1>2

LEMMA NextServes ==
    ASSUME ClientTypeOK, [ClientNext]_clientVars, NEW q, Spells(l, member, q)
    PROVE  \E p : Spells(l', member', p) /\ Serves(q, p)
<1>0. /\ l \in Lists(Node, Link) /\ member \in SUBSET Node
      /\ DOMAIN q = 1 .. Len(q) /\ \A i \in 1 .. Len(q) : q[i] \in member
  <2>1. q \in Seq(Node)
    BY SpelledLinks
  <2> QED BY <2>1, LenProperties, SpelledLinks DEF ClientTypeOK, Lists, Link
<1>1. ASSUME NEW n \in Node, CallPushFront(n)
      PROVE  \E p : Spells(l', member', p) /\ Serves(q, p)
  <2>1. n \in Node \ member /\ Call(FALSE, PushFront(l, n), member \union {n})
    BY <1>1 DEF CallPushFront
  <2>2. Spells(PushFront(l, n), member \union {n}, <<n>> \o q)
    BY <1>0, <2>1, PushFrontSpells
  <2>3. Serves(q, <<n>> \o q)
    BY <1>0, <2>1 DEF Serves
  <2> QED BY <2>1, <2>2, <2>3, CallServes
<1>2. ASSUME NEW n \in Node, CallPushBack(n)
      PROVE  \E p : Spells(l', member', p) /\ Serves(q, p)
  <2>1. n \in Node \ member /\ Call(FALSE, PushBack(l, n), member \union {n})
    BY <1>2 DEF CallPushBack
  <2>2. PICK p \in {<<n>> \o q, Append(q, n)} : Spells(PushBack(l, n), member \union {n}, p)
    BY <1>0, <2>1, PushBackSpells
  <2>3. Serves(q, p)
    BY <1>0, <2>1 DEF Serves
  <2> QED BY <2>1, <2>2, <2>3, CallServes
<1>3. ASSUME NEW n \in Node, CallPopNode(n)
      PROVE  \E p : Spells(l', member', p) /\ Serves(q, p)
  <2>1. n \in member /\ Call(PopNodeFaults(l, n), PopNode(l, n), member \ {n})
    BY <1>3 DEF CallPopNode
  <2>2. ASSUME ~PopNodeFaults(l, n)
        PROVE  \E p : Spells(PopNode(l, n), member \ {n}, p) /\ Serves(q, p)
    <3>1. PICK k \in 1 .. Len(q) : Spells(PopNode(l, n), member \ {n}, Without(q, k))
      BY <1>0, <2>1, <2>2, PopNodeSpells
    <3> QED BY <1>0, <3>1 DEF Serves
  <2>3. PopNodeFaults(l, n) \in BOOLEAN
    BY DEF PopNodeFaults
  <2> QED BY <2>1, <2>2, <2>3, CallServes
<1>4. ASSUME Empty(l)
      PROVE  Spells(Cleared(l), member \ {l.head}, q) /\ Spells(Cleared(l), member \ {l.tail}, q)
  <2>1. Len(q) = 0 /\ l.head = Null /\ l.tail = Null /\ Null \notin member
    <3>1. Len(q) = 0
      BY <1>0, <1>4, SpelledEnds
    <3> QED BY <1>0, <3>1, NodeAssumption DEF Spells
  <2>2. member \ {l.head} = member /\ member \ {l.tail} = member
    BY <2>1
  <2>3. /\ Cleared(l).head = l.head /\ Cleared(l).tail = l.tail
        /\ Cleared(l).nxt = l.nxt /\ Cleared(l).prv = l.prv
    BY <2>1 DEF Cleared
  <2>4. Spells(Cleared(l), member, q)
    BY <2>3 DEF Spells
  <2> QED BY <2>2, <2>4
<1>5. ASSUME CallPopFront PROVE \E p : Spells(l', member', p) /\ Serves(q, p)
  <2>1. Call(PopFrontFaults(l), PopFront(l), member \ {l.head})
    BY <1>5 DEF CallPopFront
  <2>2. ASSUME ~PopFrontFaults(l)
        PROVE  \E p : Spells(PopFront(l), member \ {l.head}, p) /\ Serves(q, p)
    <3>1. CASE Empty(l)
      BY <1>4, <3>1 DEF PopFront, Serves
    <3>2. CASE ~Empty(l)
      <4>1. /\ 1 \in 1 .. Len(q) /\ l.head = q[1]
            /\ Spells(PopFront(l), member \ {q[1]}, Without(q, 1))
        BY <1>0, <2>2, <3>2, PopFrontSpells
      <4> QED BY <1>0, <4>1 DEF Serves
    <3> QED BY <3>1, <3>2
  <2>3. PopFrontFaults(l) \in BOOLEAN
    BY DEF PopFrontFaults
  <2> QED BY <2>1, <2>2, <2>3, CallServes
<1>6. ASSUME CallPopBack PROVE \E p : Spells(l', member', p) /\ Serves(q, p)
  <2>1. Call(FALSE, PopBack(l), member \ {l.tail})
    BY <1>6 DEF CallPopBack
  <2>2. \E p : Spells(PopBack(l), member \ {l.tail}, p) /\ Serves(q, p)
    <3>1. CASE Empty(l)
      BY <1>4, <3>1 DEF PopBack, Serves
    <3>2. CASE ~Empty(l)
      <4>1. /\ Len(q) \in 1 .. Len(q) /\ l.tail = q[Len(q)]
            /\ Spells(PopBack(l), member \ {q[Len(q)]}, Without(q, Len(q)))
        BY <1>0, <3>2, PopBackSpells
      <4> QED BY <1>0, <4>1 DEF Serves
    <3> QED BY <3>1, <3>2
  <2> QED BY <2>1, <2>2, CallServes
<1>7. CASE UNCHANGED clientVars
  BY <1>7 DEF clientVars, Serves
<1> QED BY <1>1, <1>2, <1>3, <1>5, <1>6, <1>7 DEF ClientNext, Halted

\* The members are always spelled by the prev links.
Spelled == \E q : Spells(l, member, q)

\* Each call that returns is a step of a double ended queue, one that faults
\* is none, whatever next links are lost.
THEOREM ListClientIsDeque == ClientSpec => ActsAsDeque
<1>1. ClientInit => Spells(l, member, <<>>)
  BY EmptySeq DEF ClientInit, Spells
<1>2. ClientInit => Spelled /\ Queue!Init
  <2> SUFFICES ASSUME ClientInit PROVE Spelled /\ Queue!Init
    OBVIOUS
  <2>1. Backward = <<>>
    BY <1>1, ReadingIs DEF Backward
  <2> QED BY <1>1, <2>1 DEF Spelled, Queue!Init
<1>3. ASSUME ClientTypeOK, Spelled, [ClientNext]_clientVars
      PROVE  Spelled' /\ [Queue!Next]_Backward
  <2>1. PICK q : Spells(l, member, q)
    BY <1>3 DEF Spelled
  <2>2. PICK p : Spells(l', member', p) /\ Serves(q, p)
    BY <1>3, <2>1, NextServes
  <2>3. Backward = q /\ Backward' = p
    BY <2>1, <2>2, ReadingIs DEF Backward
  <2>4. Spelled'
    BY <2>2 DEF Spelled
  <2>5. [Queue!Next]_Backward
    BY <2>2, <2>3 DEF Serves, Without, Queue!Next, Queue!Push, Queue!TakeOut
  <2> QED BY <2>4, <2>5
<1>4. ClientSpec => []ClientTypeOK
  BY ListClientCorrect, PTL
<1> QED BY <1>2, <1>3, <1>4, PTL DEF ClientSpec, ActsAsDeque, Queue!Spec

-----------------------------------------------------------------------------
(* memory::init. *)

\* Arithmetic.
LEMMA DivLower ==
    ASSUME NEW n \in Nat, NEW x \in Nat, NEW d \in Nat \ {0}, n * d <= x
    PROVE  n <= x \div d
  OBVIOUS

LEMMA DivExact ==
    ASSUME NEW n \in Nat, NEW d \in Nat \ {0}
    PROVE  (n * d) \div d = n
  OBVIOUS

LEMMA DivType ==
    ASSUME NEW x \in Nat, NEW d \in Nat \ {0}
    PROVE  x \div d \in Nat
  OBVIOUS

LEMMA DivRest ==
    ASSUME NEW x \in Nat, NEW d \in Nat \ {0}
    PROVE  /\ x = (d * (x \div d)) + (x % d)
           /\ x \div d \in Nat /\ x % d \in 0 .. d - 1
  OBVIOUS

LEMMA RoundUp ==
    ASSUME NEW x \in Nat, NEW d \in Nat \ {0}
    PROVE  x <= ((x + d - 1) \div d) * d
  OBVIOUS

LEMMA Scaled ==
    ASSUME NEW j \in Nat, NEW k \in Nat, NEW d \in Nat \ {0}
    PROVE  /\ j * d \in Nat
           /\ (k + 1) * d = k * d + d
           /\ j <= k => j * d <= k * d
           /\ j < k => j * d + d <= k * d
           /\ j <= j * d
  OBVIOUS

LEMMA Assoc ==
    ASSUME NEW k \in Nat, NEW p \in Nat, NEW t \in Nat
    PROVE  k * (p * t) = (k * t) * p
  OBVIOUS

LEMMA BlockType == Block \in Nat \ {0}
  BY UnitAssumption DEF Block

\* A block's first page, by its address and by its descriptor.
LEMMA FirstPage ==
    ASSUME NEW k \in Nat
    PROVE  /\ k * Block = (k * Top) * Page
           /\ (k * Block) \div Page = k * Top
  <1>1. k * Block = (k * Top) * Page
    BY Assoc, UnitAssumption DEF Block
  <1>2. k * Top \in Nat
    BY Scaled, UnitAssumption
  <1> QED
    BY <1>1, <1>2, DivExact, UnitAssumption
-----------------------------------------------------------------------------
\* The map after sorting: entries in order, none overlapping the next, and a
\* last free one.
LastFreeIndex(m, i) ==
    /\ i \in DOMAIN m /\ m[i].type = "Free"
    /\ \A j \in DOMAIN m : m[j].type = "Free" => j <= i
Sorted(m) ==
    /\ m \in Seq(Entry)
    /\ \A i, j \in DOMAIN m : i < j => End(m[i]) <= m[j].base
    /\ \E i \in DOMAIN m : LastFreeIndex(m, i)

\* What makeBuddy has come to when it looks at block b: the first address of
\* every block up to b is in an entry, that of b in the current one, and the
\* free list has exactly the blocks below b that are Given.
At(b) ==
    /\ b \in Nat /\ start = b * Block /\ cur = b * Top /\ kernel <= start
    /\ begin \in DOMAIN map /\ RangeIn(map[begin], start, start)
    /\ \A j \in 0 .. b : kernel <= j * Block => Listed(j * Block)
    /\ \A i \in DOMAIN freelist : \E k \in Nat : k < b /\ Given(k) /\ freelist[i] = k * Top
    /\ \A k \in Nat : k < b /\ Given(k) => \E i \in DOMAIN freelist : freelist[i] = k * Top

\* The same at the end.
Finished ==
    /\ \A i \in DOMAIN freelist : \E k \in Nat : Given(k) /\ freelist[i] = k * Top
    /\ \A k \in Nat : Given(k) => \E i \in DOMAIN freelist : freelist[i] = k * Top

Once == \A i, j \in DOMAIN freelist : i # j => freelist[i] # freelist[j]

IInv ==
    /\ Sorted(map)
    /\ freelist \in Seq(Nat)
    /\ Once
    /\ pc \in {"kernel", "find"} => freelist = <<>>
    /\ pc # "kernel" => kernel = Align(TableEnd)
    /\ pc = "find" => start = kernel
    /\ pc = "make" => \E b \in Nat : At(b)
    /\ pc \in {"pte", "done", "wild"} => Finished
    /\ pc \in {"kernel", "find", "make", "pte", "done", "panic", "wild"}
    /\ pc = "panic" => freelist = <<>> \/ Finished
-----------------------------------------------------------------------------
\* At most one entry contains an address.
LEMMA OneEntry ==
    ASSUME NEW m, Sorted(m), NEW a \in Nat,
           NEW i \in DOMAIN m, NEW j \in DOMAIN m,
           m[i].base <= a, a < End(m[i]), m[j].base <= a, a < End(m[j])
    PROVE  i = j
  <1>1. m[i] \in Entry /\ m[j] \in Entry /\ i \in Nat /\ j \in Nat
    BY DEF Sorted
  <1>2. i < j => End(m[i]) <= m[j].base
    BY DEF Sorted
  <1>3. j < i => End(m[j]) <= m[i].base
    BY DEF Sorted
  <1>4. /\ m[i].base \in Nat /\ m[j].base \in Nat
        /\ End(m[i]) \in Nat /\ End(m[j]) \in Nat
    BY <1>1 DEF Entry, End
  <1> QED
    BY <1>1, <1>2, <1>3, <1>4

\* FirstWith finds the entry, if there is one from i on.
LEMMA FirstWithFinds ==
    ASSUME Sorted(map), NEW a \in Nat, NEW i \in Nat, 1 <= i
    PROVE  \/ /\ FirstWith(a, i) = Len(map) + 1
              /\ \A j \in DOMAIN map : i <= j => ~RangeIn(map[j], a, a)
           \/ /\ FirstWith(a, i) \in DOMAIN map
              /\ i <= FirstWith(a, i)
              /\ RangeIn(map[FirstWith(a, i)], a, a)
  <1> DEFINE W == {j \in i .. Len(map) : RangeIn(map[j], a, a)}
  <1>0. Len(map) \in Nat /\ DOMAIN map = 1 .. Len(map)
    BY DEF Sorted
  <1>1. CASE W = {}
    <2>1. FirstWith(a, i) = Len(map) + 1
      BY <1>1 DEF FirstWith
    <2> QED
      BY <1>0, <1>1, <2>1
  <1>2. CASE W # {}
    <2>1. PICK j \in W : TRUE
      BY <1>2
    <2>2. \A k \in W : k = j
      <3> SUFFICES ASSUME NEW k \in W PROVE k = j
        OBVIOUS
      <3>1. j \in DOMAIN map /\ k \in DOMAIN map
        BY <1>0
      <3> QED
        BY <3>1, OneEntry DEF RangeIn
    <2>3. FirstWith(a, i) = CHOOSE x \in W : \A k \in W : x <= k
      BY <1>2 DEF FirstWith
    <2>4. j \in Nat
      BY <1>0
    <2>5. FirstWith(a, i) \in W
      BY <2>1, <2>2, <2>3, <2>4
    <2> QED
      BY <2>5, <1>0
  <1> QED
    BY <1>1, <1>2
-----------------------------------------------------------------------------
\* What the last free entry bounds.
LEMMA LastFreeBounds ==
    ASSUME Sorted(map)
    PROVE  /\ LastFree \in Nat
           /\ \A i \in DOMAIN map : map[i].type = "Free" => End(map[i]) <= LastFree
  <1>1. PICK n \in DOMAIN map : LastFreeIndex(map, n)
    BY DEF Sorted
  <1>2. DOMAIN map \subseteq Nat
    BY DEF Sorted
  <1>3. \A i \in DOMAIN map :
           (map[i].type = "Free" /\ \A j \in DOMAIN map : map[j].type = "Free" => j <= i)
               => i = n
    BY <1>1, <1>2 DEF LastFreeIndex
  <1>4. LastFree = End(map[n])
    BY <1>1, <1>3 DEF LastFree, LastFreeIndex
  <1>5. \A i \in DOMAIN map : map[i] \in Entry
    BY DEF Sorted
  <1>6. \A i \in DOMAIN map : map[i].base \in Nat /\ End(map[i]) \in Nat
                              /\ map[i].base <= End(map[i])
    BY <1>5 DEF Entry, End
  <1>7. ASSUME NEW i \in DOMAIN map, map[i].type = "Free"
        PROVE  End(map[i]) <= LastFree
    <2>1. i <= n
      BY <1>1, <1>7 DEF LastFreeIndex
    <2>2. CASE i = n
      BY <2>2, <1>4, <1>6
    <2>3. CASE i < n
      <3>1. End(map[i]) <= map[n].base
        BY <2>3, <1>1 DEF Sorted, LastFreeIndex
      <3> QED
        BY <3>1, <1>4, <1>6, <1>1
    <2> QED
      BY <2>1, <2>2, <2>3, <1>2
  <1> QED
    BY <1>4, <1>6, <1>7, <1>1

LEMMA KernelEnd ==
    ASSUME Sorted(map)
    PROVE  /\ TableEnd \in Nat
           /\ TableEnd <= Align(TableEnd)
           /\ \E b \in Nat : Align(TableEnd) = b * Block
  <1>1. LastFree \div Page \in Nat
    BY LastFreeBounds, DivType, UnitAssumption
  <1>2. (LastFree \div Page) * Desc \in Nat
    BY <1>1, Scaled, UnitAssumption
  <1>3. TableEnd \in Nat
    BY <1>2, UnitAssumption DEF TableEnd
  <1>4. TableEnd + Block - 1 \in Nat
    BY <1>3, BlockType
  <1>5. (TableEnd + Block - 1) \div Block \in Nat
    BY <1>4, BlockType, DivType
  <1>6. TableEnd <= Align(TableEnd)
    BY <1>3, BlockType, RoundUp DEF Align
  <1> QED
    BY <1>3, <1>5, <1>6 DEF Align
-----------------------------------------------------------------------------
\* The firmware's entries, sorted.
LEMMA InitSorted == Init => Sorted(map)
  <1> SUFFICES ASSUME Init PROVE Sorted(map)
    OBVIOUS
  <1>1. PICK m \in Maps :
            /\ map \in [1 .. Cardinality(m) -> m]
            /\ {map[i] : i \in DOMAIN map} = m
            /\ \A i, j \in DOMAIN map : i < j => map[i].base < map[j].base
    BY DEF Init
  <1>2. /\ m \subseteq Entry /\ IsFiniteSet(m)
        /\ \A d, e \in m : d # e => End(d) <= e.base \/ End(e) <= d.base
        /\ \E e \in m : e.type = "Free" /\ \A d \in m : d.type = "Free" => d.base <= e.base
    BY MapsAssumption
  <1>3. Cardinality(m) \in Nat
    BY <1>2, FS_CardinalityType
  <1>4. map \in Seq(Entry)
    BY <1>1, <1>2, <1>3
  <1>5. DOMAIN map \subseteq Nat
    BY <1>4
  <1>6. \A i \in DOMAIN map : map[i] \in m
    BY <1>1
  <1>7. \A i \in DOMAIN map : map[i].base \in Nat /\ End(map[i]) \in Nat
                              /\ map[i].base < End(map[i])
    <2> SUFFICES ASSUME NEW i \in DOMAIN map
                 PROVE  map[i].base \in Nat /\ End(map[i]) \in Nat /\ map[i].base < End(map[i])
      OBVIOUS
    <2>1. map[i] \in Entry
      BY <1>6, <1>2
    <2> QED
      BY <2>1 DEF Entry, End
  <1>8. ASSUME NEW i \in DOMAIN map, NEW j \in DOMAIN map, i < j
        PROVE  End(map[i]) <= map[j].base
    <2>1. map[i].base < map[j].base
      BY <1>1, <1>8
    <2>2. map[i] # map[j]
      BY <2>1, <1>7
    <2>3. End(map[i]) <= map[j].base \/ End(map[j]) <= map[i].base
      BY <2>2, <1>2, <1>6
    <2> QED
      BY <2>1, <2>3, <1>7
  <1>9. \E i \in DOMAIN map : LastFreeIndex(map, i)
    <2>1. PICK e \in m : e.type = "Free" /\ \A d \in m : d.type = "Free" => d.base <= e.base
      BY <1>2
    <2>2. PICK i \in DOMAIN map : map[i] = e
      BY <1>1
    <2>3. ASSUME NEW j \in DOMAIN map, map[j].type = "Free" PROVE j <= i
      <3>1. map[j].base <= map[i].base
        BY <2>1, <2>2, <2>3, <1>6
      <3>2. i < j => map[i].base < map[j].base
        BY <1>1
      <3> QED
        BY <3>1, <3>2, <1>5, <1>7
    <2> QED
      BY <2>1, <2>2, <2>3 DEF LastFreeIndex
  <1> QED
    BY <1>4, <1>8, <1>9 DEF Sorted

LEMMA InitIInv == Init => IInv
  <1> SUFFICES ASSUME Init PROVE IInv
    OBVIOUS
  <1>1. pc = "kernel" /\ freelist = <<>>
    BY DEF Init
  <1>2. freelist \in Seq(Nat) /\ Once
    BY <1>1 DEF Once
  <1> QED
    BY <1>1, <1>2, InitSorted DEF IInv
-----------------------------------------------------------------------------
\* Given and Listed speak of the map and the kernel area only.
LEMMA GivenFixed ==
    ASSUME UNCHANGED <<map, kernel>>, NEW k
    PROVE  Given(k)' <=> Given(k)
  BY DEF Given, Listed

\* The block makeBuddy looks at goes to the free list exactly when it should.
LEMMA GivenNow ==
    ASSUME Sorted(map), kernel \in Nat, NEW b, At(b)
    PROVE  Given(b) <=> Inside /\ map[begin].type = "Free"
  <1>1. /\ b \in Nat /\ start = b * Block /\ kernel <= start
        /\ begin \in DOMAIN map /\ map[begin].base <= start /\ start < End(map[begin])
        /\ \A j \in 0 .. b : kernel <= j * Block => Listed(j * Block)
    BY DEF At, RangeIn
  <1>2. start \in Nat /\ (b + 1) * Block = start + Block
    BY <1>1, Scaled, BlockType
  <1>3. ASSUME Inside, map[begin].type = "Free" PROVE Given(b)
    BY <1>1, <1>2, <1>3 DEF Given, Inside, RangeIn
  <1>4. ASSUME Given(b) PROVE Inside /\ map[begin].type = "Free"
    <2>1. PICK i \in DOMAIN map : /\ map[i].type = "Free"
                                  /\ map[i].base <= start
                                  /\ start + Block < End(map[i])
      BY <1>1, <1>2, <1>4 DEF Given
    <2>2. map[i] \in Entry
      BY DEF Sorted
    <2>3. End(map[i]) \in Nat
      BY <2>2 DEF Entry, End
    <2>4. start < End(map[i])
      BY <2>1, <2>3, <1>2, BlockType
    <2>5. i = begin
      BY <1>1, <1>2, <2>1, <2>4, OneEntry
    <2> QED
      BY <2>1, <2>5, <1>1 DEF Inside, RangeIn
  <1> QED
    BY <1>3, <1>4

\* The free list after a round.
LEMMA ListAfter ==
    ASSUME freelist \in Seq(Nat), NEW b, At(b),
           IF Given(b) THEN freelist' = Append(freelist, cur) ELSE freelist' = freelist
    PROVE  /\ \A i \in DOMAIN freelist' :
                  \E k \in Nat : k < b + 1 /\ Given(k) /\ freelist'[i] = k * Top
           /\ \A k \in Nat : k < b + 1 /\ Given(k) =>
                  \E i \in DOMAIN freelist' : freelist'[i] = k * Top
  <1>1. /\ b \in Nat /\ cur = b * Top
        /\ \A i \in DOMAIN freelist : \E k \in Nat : k < b /\ Given(k) /\ freelist[i] = k * Top
        /\ \A k \in Nat : k < b /\ Given(k) => \E i \in DOMAIN freelist : freelist[i] = k * Top
    BY DEF At
  <1>2. CASE ~Given(b)
    <2>1. freelist' = freelist
      BY <1>2
    <2>2. ASSUME NEW i \in DOMAIN freelist'
          PROVE  \E k \in Nat : k < b + 1 /\ Given(k) /\ freelist'[i] = k * Top
      <3>1. PICK k \in Nat : k < b /\ Given(k) /\ freelist[i] = k * Top
        BY <1>1, <2>1, <2>2
      <3> QED
        BY <1>1, <2>1, <3>1
    <2>3. ASSUME NEW k \in Nat, k < b + 1, Given(k)
          PROVE  \E i \in DOMAIN freelist' : freelist'[i] = k * Top
      <3>1. k # b
        BY <1>2, <2>3
      <3>2. k < b
        BY <1>1, <2>3, <3>1
      <3> QED
        BY <1>1, <2>1, <2>3, <3>2
    <2> QED
      BY <2>2, <2>3
  <1>3. CASE Given(b)
    <2>1. freelist' = Append(freelist, cur)
      BY <1>3
    <2>2. /\ DOMAIN freelist' = 1 .. Len(freelist) + 1
          /\ DOMAIN freelist = 1 .. Len(freelist) /\ Len(freelist) \in Nat
          /\ \A i \in DOMAIN freelist : freelist'[i] = freelist[i]
          /\ freelist'[Len(freelist) + 1] = cur
      BY <2>1, <1>1
    <2>3. ASSUME NEW i \in DOMAIN freelist'
          PROVE  \E k \in Nat : k < b + 1 /\ Given(k) /\ freelist'[i] = k * Top
      <3>1. CASE i \in DOMAIN freelist
        <4>1. PICK k \in Nat : k < b /\ Given(k) /\ freelist[i] = k * Top
          BY <1>1, <3>1
        <4> QED
          BY <1>1, <2>2, <3>1, <4>1
      <3>2. CASE i = Len(freelist) + 1
        <4>1. freelist'[i] = b * Top
          BY <3>2, <2>2, <1>1
        <4>2. b < b + 1
          BY <1>1
        <4> QED
          BY <1>1, <1>3, <4>1, <4>2
      <3> QED
        BY <2>2, <3>1, <3>2
    <2>4. ASSUME NEW k \in Nat, k < b + 1, Given(k)
          PROVE  \E i \in DOMAIN freelist' : freelist'[i] = k * Top
      <3>1. CASE k < b
        <4>1. PICK i \in DOMAIN freelist : freelist[i] = k * Top
          BY <1>1, <3>1, <2>4
        <4>2. i \in DOMAIN freelist' /\ freelist'[i] = k * Top
          BY <2>2, <4>1
        <4> QED
          BY <4>2
      <3>2. CASE k = b
        <4>1. Len(freelist) + 1 \in DOMAIN freelist'
          BY <2>2
        <4>2. freelist'[Len(freelist) + 1] = k * Top
          BY <3>2, <2>2, <1>1
        <4> QED
          BY <4>1, <4>2
      <3> QED
        BY <1>1, <2>4, <3>1, <3>2
    <2> QED
      BY <2>3, <2>4
  <1> QED
    BY <1>2, <1>3

\* No block is put on the list twice.
LEMMA OnceAfter ==
    ASSUME freelist \in Seq(Nat), Once, NEW b, At(b),
           freelist' \in {freelist, Append(freelist, cur)}
    PROVE  freelist' \in Seq(Nat) /\ Once'
  <1>1. b \in Nat /\ cur = b * Top
    BY DEF At
  <1>2. cur \in Nat
    BY <1>1, Scaled, UnitAssumption
  <1>3. \A i \in DOMAIN freelist : freelist[i] # cur
    <2> SUFFICES ASSUME NEW i \in DOMAIN freelist PROVE freelist[i] # cur
      OBVIOUS
    <2>1. PICK k \in Nat : k < b /\ freelist[i] = k * Top
      BY DEF At
    <2>2. k * Top + Top <= b * Top /\ k * Top \in Nat
      BY <2>1, <1>1, Scaled, UnitAssumption
    <2> QED
      BY <2>1, <2>2, <1>1, <1>2, UnitAssumption
  <1>4. CASE freelist' = freelist
    BY <1>4 DEF Once
  <1>5. CASE freelist' = Append(freelist, cur)
    <2>1. /\ DOMAIN freelist' = 1 .. Len(freelist) + 1
          /\ DOMAIN freelist = 1 .. Len(freelist) /\ Len(freelist) \in Nat
          /\ \A i \in DOMAIN freelist : freelist'[i] = freelist[i]
          /\ freelist'[Len(freelist) + 1] = cur
      BY <1>5, <1>2
    <2>2. freelist' \in Seq(Nat)
      BY <1>5, <1>2
    <2>3. \A i, j \in DOMAIN freelist' : i # j => freelist'[i] # freelist'[j]
      BY <2>1, <1>3 DEF Once
    <2> QED
      BY <2>2, <2>3 DEF Once
  <1> QED
    BY <1>4, <1>5
-----------------------------------------------------------------------------
\* A round that goes on.
LEMMA RoundOn ==
    ASSUME Sorted(map), kernel \in Nat, freelist \in Seq(Nat), NEW b, At(b),
           IF Given(b) THEN freelist' = Append(freelist, cur) ELSE freelist' = freelist,
           start' = start + Block, cur' = cur + Top, UNCHANGED <<map, kernel>>,
           begin' \in DOMAIN map, RangeIn(map[begin'], start', start')
    PROVE  At(b + 1)'
  <1>1. /\ b \in Nat /\ start = b * Block /\ cur = b * Top /\ kernel <= start
        /\ \A j \in 0 .. b : kernel <= j * Block => Listed(j * Block)
    BY DEF At
  <1>2. b + 1 \in Nat /\ start' = (b + 1) * Block /\ cur' = (b + 1) * Top
    BY <1>1, Scaled, BlockType, UnitAssumption
  <1>3. kernel' <= start'
    BY <1>1, Scaled, BlockType
  <1>4. Listed((b + 1) * Block)
    BY <1>2 DEF Listed, RangeIn
  <1>5. \A j \in 0 .. b + 1 : kernel <= j * Block => Listed(j * Block)
    BY <1>1, <1>4
  <1>6. \A j \in 0 .. b + 1 : kernel' <= j * Block => Listed(j * Block)'
    BY <1>5 DEF Listed
  <1>7. \A k : Given(k)' <=> Given(k)
    BY GivenFixed
  <1>8. \A i \in DOMAIN freelist' :
            \E k \in Nat : k < b + 1 /\ Given(k)' /\ freelist'[i] = k * Top
    BY ListAfter, <1>7
  <1>9. \A k \in Nat : k < b + 1 /\ Given(k)' =>
            \E i \in DOMAIN freelist' : freelist'[i] = k * Top
    BY ListAfter, <1>7
  <1>10. begin' \in DOMAIN map' /\ RangeIn(map'[begin'], start', start')
    OBVIOUS
  <1> QED
    BY <1>2, <1>3, <1>6, <1>8, <1>9, <1>10 DEF At

\* A round that finds no further entry.
LEMMA RoundEnds ==
    ASSUME Sorted(map), kernel \in Nat, freelist \in Seq(Nat), NEW b, At(b),
           IF Given(b) THEN freelist' = Append(freelist, cur) ELSE freelist' = freelist,
           start' = start + Block, UNCHANGED <<map, kernel>>,
           \A j \in DOMAIN map : begin <= j => ~RangeIn(map[j], start', start')
    PROVE  Finished'
  <1>1. /\ b \in Nat /\ start = b * Block /\ kernel <= start
        /\ begin \in DOMAIN map /\ map[begin].base <= start
    BY DEF At, RangeIn
  <1>2. start' = (b + 1) * Block /\ start' \in Nat /\ start \in Nat /\ start < start'
    <2>1. b * Block \in Nat /\ (b + 1) * Block = b * Block + Block
      BY ONLY <1>1, Scaled, BlockType
    <2>2. PICK x \in Nat, y \in Nat \ {0} : x = b * Block /\ y = Block
      BY <2>1, BlockType
    <2>3. start = x /\ start' = x + y /\ (b + 1) * Block = x + y
      BY <1>1, <2>1, <2>2
    <2> QED BY ONLY <2>3, x \in Nat, y \in Nat \ {0}
  <1>3. ~Listed(start')
    <2> SUFFICES ASSUME NEW j \in DOMAIN map, map[j].base <= start', start' < End(map[j])
                 PROVE  FALSE
      BY DEF Listed
    <2>1. j < begin
      <3>1. DOMAIN map \subseteq Nat
        BY DEF Sorted
      <3> QED
        BY <1>1, <3>1 DEF RangeIn
    <2>2. End(map[j]) <= map[begin].base
      BY <2>1, <1>1 DEF Sorted
    <2>3. map[j] \in Entry /\ map[begin] \in Entry
      BY <1>1 DEF Sorted
    <2>4. End(map[j]) \in Nat /\ map[begin].base \in Nat
      BY <2>3 DEF Entry, End
    <2> QED
      BY <1>1, <1>2, <2>2, <2>4
  <1>4. ASSUME NEW k \in Nat, Given(k) PROVE k < b + 1
    <2> SUFFICES ASSUME b + 1 <= k PROVE FALSE
      BY <1>1
    <2>1. b + 1 \in 0 .. k
      BY <1>1
    <2>2. kernel <= (b + 1) * Block
      BY <1>1, <1>2
    <2>3. Listed((b + 1) * Block)
      BY <2>1, <2>2, <1>4 DEF Given
    <2> QED
      BY <2>3, <1>2, <1>3
  <1>5. \A k : Given(k)' <=> Given(k)
    BY GivenFixed
  <1>6. \A i \in DOMAIN freelist' : \E k \in Nat : Given(k)' /\ freelist'[i] = k * Top
    BY ListAfter, <1>5
  <1>7. \A k \in Nat : Given(k)' => \E i \in DOMAIN freelist' : freelist'[i] = k * Top
    BY ListAfter, <1>4, <1>5
  <1> QED
    BY <1>6, <1>7 DEF Finished
-----------------------------------------------------------------------------
\* A step keeps the map, and the kernel area once it is marked.
LEMMA MapKept ==
    ASSUME [Next]_vars
    PROVE  map' = map /\ (pc # "kernel" => kernel' = kernel)
  BY DEF Next, vars, pageVars, mapVars, KernelArea, Find, Give, Reserve, Advance, Handle,
         TooMuch, AllocTables, AllocNothing, MakeKernelPTE, Ended

LEMMA TableEndKept ==
    ASSUME UNCHANGED map
    PROVE  Align(TableEnd)' = Align(TableEnd)
  BY DEF Align, TableEnd, LastFree

\* makeBuddy's three ways through a round.
LEMMA RoundIInv ==
    ASSUME IInv, Give \/ Reserve \/ Advance
    PROVE  IInv'
  <1>1. /\ Sorted(map) /\ freelist \in Seq(Nat) /\ Once /\ pc = "make"
        /\ kernel = Align(TableEnd) /\ UNCHANGED <<map, kernel>>
        /\ start' = start + Block /\ cur' = cur + Top
    BY DEF IInv, Give, Reserve, Advance, Handle
  <1>2. kernel \in Nat
    BY <1>1, KernelEnd, Scaled, BlockType
  <1>3. PICK b \in Nat : At(b)
    BY <1>1 DEF IInv
  <1>4. Given(b) <=> Inside /\ map[begin].type = "Free"
    BY <1>1, <1>2, <1>3, GivenNow
  <1>5. IF Given(b) THEN freelist' = Append(freelist, cur) ELSE freelist' = freelist
    BY <1>4 DEF Give, Reserve, Advance
  <1>6. freelist' \in Seq(Nat) /\ Once'
    BY <1>1, <1>3, <1>5, OnceAfter
  <1>7. start \in Nat /\ start' \in Nat
    <2>1. start = b * Block
      BY <1>3 DEF At
    <2> QED
      BY <2>1, <1>1, Scaled, BlockType
  <1>8. kernel' = Align(TableEnd)'
    BY <1>1, TableEndKept
  <1>9. CASE pc' = "make"
    <2>1. begin' \in DOMAIN map /\ RangeIn(map[begin'], start', start')
      <3>1. CASE Give \/ Reserve
        <4>1. begin' = begin /\ Inside
          BY <3>1 DEF Give, Reserve
        <4>2. begin \in DOMAIN map
          BY <1>3 DEF At
        <4>3. map[begin] \in Entry
          BY <4>2, <1>1 DEF Sorted
        <4>4. map[begin].base \in Nat
          BY <4>3 DEF Entry
        <4>5. map[begin].base <= start /\ start + Block < End(map[begin])
          BY <4>1 DEF Inside, RangeIn
        <4> QED
          BY <4>1, <4>2, <4>4, <4>5, <1>1, <1>7, BlockType DEF RangeIn
      <3>2. CASE Advance
        <4>1. begin' = FirstWith(start', begin) /\ begin' <= Len(map)
          <5>1. /\ begin' = FirstWith(start', begin)
                /\ pc' = IF begin' > Len(map) THEN "pte" ELSE "make"
            BY <3>2 DEF Advance
          <5>2. ~(begin' > Len(map))
            BY <5>1, <1>9
          <5>3. begin \in Nat /\ 1 <= begin /\ Len(map) \in Nat /\ DOMAIN map = 1 .. Len(map)
            BY <1>1, <1>3 DEF At, Sorted
          <5>4. begin' \in Nat
            BY <5>1, <5>3, <1>1, <1>7, FirstWithFinds
          <5> QED
            BY <5>1, <5>2, <5>3, <5>4
        <4>2. begin \in Nat /\ 1 <= begin /\ Len(map) \in Nat
          BY <1>1, <1>3 DEF At, Sorted
        <4> QED
          BY <4>1, <4>2, <1>1, <1>7, FirstWithFinds
      <3> QED
        BY <3>1, <3>2
    <2>2. At(b + 1)'
      BY <1>1, <1>2, <1>3, <1>5, <2>1, RoundOn
    <2>3. b + 1 \in Nat
      OBVIOUS
    <2> QED
      BY <1>1, <1>6, <1>8, <1>9, <2>2, <2>3 DEF IInv
  <1>10. CASE pc' = "pte"
    <2>1. Advance
      BY <1>10, <1>1 DEF Give, Reserve
    <2>2. /\ begin' = FirstWith(start', begin) /\ begin' > Len(map)
      <3>1. /\ begin' = FirstWith(start', begin)
            /\ pc' = IF begin' > Len(map) THEN "pte" ELSE "make"
        BY <2>1 DEF Advance
      <3> QED
        BY <3>1, <1>10
    <2>3. begin \in Nat /\ 1 <= begin /\ Len(map) \in Nat /\ DOMAIN map = 1 .. Len(map)
      BY <1>1, <1>3 DEF At, Sorted
    <2>4. \A j \in DOMAIN map : begin <= j => ~RangeIn(map[j], start', start')
      BY <2>2, <2>3, <1>1, <1>7, FirstWithFinds
    <2>5. Finished'
      BY <1>1, <1>2, <1>3, <1>5, <2>4, RoundEnds
    <2> QED
      BY <1>1, <1>6, <1>8, <1>10, <2>5 DEF IInv
  <1>11. pc' \in {"make", "pte"}
    BY <1>1 DEF Give, Reserve, Advance
  <1> QED
    BY <1>9, <1>10, <1>11

LEMMA NextIInv == IInv /\ [Next]_vars => IInv'
  <1> SUFFICES ASSUME IInv, [Next]_vars PROVE IInv'
    OBVIOUS
  <1>1. Sorted(map) /\ freelist \in Seq(Nat) /\ Once
    BY DEF IInv
  <1>2. map' = map /\ (pc # "kernel" => kernel' = kernel)
    BY MapKept
  <1>3. Align(TableEnd)' = Align(TableEnd)
    BY <1>2, TableEndKept
  <1>4. CASE KernelArea
    <2>1. /\ pc' = "find" /\ freelist' = <<>> /\ start' = kernel' /\ kernel' = Align(TableEnd)
      BY <1>4 DEF KernelArea, IInv
    <2>2. Once'
      BY <2>1 DEF Once
    <2>3. freelist' \in Seq(Nat)
      BY <2>1
    <2> QED
      BY <1>1, <1>2, <1>3, <2>1, <2>2, <2>3 DEF IInv
  <1>5. CASE Find
    <2>1. /\ pc = "find" /\ freelist = <<>> /\ start = kernel /\ kernel = Align(TableEnd)
          /\ UNCHANGED <<start, freelist, kernel>> /\ cur' = start \div Page
          /\ begin' = FirstWith(start, 1)
          /\ pc' = IF begin' > Len(map) THEN "panic" ELSE "make"
      BY <1>5 DEF Find, IInv, pageVars
    <2>2. PICK b \in Nat : start = b * Block
      BY <1>1, <2>1, KernelEnd
    <2>3. start \in Nat /\ cur' = b * Top
      BY <2>1, <2>2, Scaled, BlockType, FirstPage
    <2>4. CASE pc' = "panic"
      BY <1>1, <1>2, <1>3, <2>1, <2>4 DEF IInv, Once
    <2>5. CASE pc' = "make"
      <3>1. begin' <= Len(map)
        <4>1. Len(map) \in Nat
          BY <1>1 DEF Sorted
        <4>2. begin' \in Nat
          BY <1>1, <2>1, <2>3, <4>1, FirstWithFinds DEF Sorted
        <4> QED
          BY <2>1, <2>5, <4>1, <4>2
      <3>2. begin' \in DOMAIN map /\ RangeIn(map[begin'], start, start)
        <4>1. Len(map) \in Nat
          BY <1>1 DEF Sorted
        <4> QED
          BY <1>1, <2>1, <2>3, <3>1, <4>1, FirstWithFinds
      <3>3. \A k \in Nat : (kernel <= k * Block) => b <= k
        <4> SUFFICES ASSUME NEW k \in Nat, kernel <= k * Block, k < b PROVE FALSE
          OBVIOUS
        <4> QED
          BY <2>1, <2>2, Scaled, BlockType
      <3>4. Listed(b * Block)
        BY <3>2, <2>2 DEF Listed, RangeIn
      <3>5. \A j \in 0 .. b : kernel <= j * Block => Listed(j * Block)
        <4> SUFFICES ASSUME NEW j \in 0 .. b, kernel <= j * Block PROVE Listed(j * Block)
          OBVIOUS
        <4>1. j = b
          BY <3>3
        <4> QED
          BY <4>1, <3>4
      <3>6. \A j \in 0 .. b : kernel' <= j * Block => Listed(j * Block)'
        BY <3>5, <2>1, <1>2 DEF Listed
      <3>7. \A k \in Nat : ~(k < b /\ Given(k)')
        <4> SUFFICES ASSUME NEW k \in Nat, k < b, Given(k)' PROVE FALSE
          OBVIOUS
        <4>1. kernel <= k * Block
          BY <2>1 DEF Given
        <4> QED
          BY <4>1, <3>3
      <3>8. At(b)'
        BY <2>1, <2>2, <2>3, <3>2, <3>6, <3>7, <1>2 DEF At
      <3> QED
        BY <1>1, <1>2, <1>3, <2>1, <2>5, <3>8 DEF IInv, Once
    <2> QED
      BY <2>1, <2>4, <2>5
  <1>6. CASE Give \/ Reserve \/ Advance
    BY <1>6, RoundIInv
  <1>7. CASE TooMuch \/ AllocTables \/ AllocNothing \/ MakeKernelPTE
    <2>1. /\ pc = "pte" /\ UNCHANGED <<map, freelist, kernel>>
          /\ pc' \in {"pte", "done", "panic", "wild"}
      BY <1>7 DEF TooMuch, AllocTables, AllocNothing, MakeKernelPTE, pageVars
    <2>2. Finished
      BY <2>1 DEF IInv
    <2>3. \A k : Given(k)' <=> Given(k)
      BY <2>1, GivenFixed
    <2>4. Finished'
      BY <2>1, <2>2, <2>3 DEF Finished
    <2>5. kernel' = Align(TableEnd)' /\ Once'
      BY <2>1, <1>1, <1>3 DEF IInv, Once
    <2> QED
      BY <1>1, <2>1, <2>4, <2>5 DEF IInv
  <1>8. CASE Ended \/ UNCHANGED vars
    <2>1. UNCHANGED <<pc, map, begin, start, cur, kernel, freelist>>
      BY <1>8 DEF Ended, vars, pageVars
    <2>2. \A k : Given(k)' <=> Given(k)
      BY <2>1, GivenFixed
    <2>3. Finished' <=> Finished
      BY <2>1, <2>2 DEF Finished
    <2>4. \A b : At(b)' <=> At(b)
      BY <2>1, <2>2 DEF At, Listed
    <2>5. Once'
      BY <1>1, <2>1 DEF Once
    <2> QED
      BY <1>3, <2>1, <2>3, <2>4, <2>5 DEF IInv
  <1> QED
    BY <1>4, <1>5, <1>6, <1>7, <1>8 DEF Next
-----------------------------------------------------------------------------
\* What is inductive about memory::init.
THEOREM MemInitInvariant == Spec => []IInv
  BY InitIInv, NextIInv, PTL DEF Spec

\* The free list holds exactly the blocks that lie inside a free entry and
\* that no hole cuts off from the kernel area, once each.
THEOREM MemInitGivenExactly == Spec => []GivenExactly
  <1>1. IInv => GivenExactly
    <2> SUFFICES ASSUME IInv, pc \in {"pte", "done", "wild"}
                 PROVE  /\ {freelist[i] : i \in DOMAIN freelist} =
                               {k * Top : k \in {k \in 0 .. LastFree : Given(k)}}
                        /\ Once
      BY DEF GivenExactly, Once
    <2>1. Finished /\ Once /\ Sorted(map)
      BY DEF IInv
    <2>2. ASSUME NEW k \in Nat, Given(k) PROVE k \in 0 .. LastFree
      <3>1. PICK i \in DOMAIN map : map[i].type = "Free" /\ (k + 1) * Block < End(map[i])
        BY <2>2 DEF Given
      <3>2. map[i] \in Entry
        BY <2>1 DEF Sorted
      <3>3. End(map[i]) \in Nat /\ End(map[i]) <= LastFree /\ LastFree \in Nat
        BY <2>1, <3>1, <3>2, LastFreeBounds DEF Entry, End
      <3>4. k + 1 \in Nat
        OBVIOUS
      <3>5. k + 1 <= (k + 1) * Block /\ (k + 1) * Block \in Nat
        BY <3>4, Scaled, BlockType
      <3> QED
        BY <3>1, <3>3, <3>5
    <2>3. LastFree \in Nat
      BY <2>1, LastFreeBounds
    <2>4. ASSUME NEW i \in DOMAIN freelist
          PROVE  \E k \in {k \in 0 .. LastFree : Given(k)} : freelist[i] = k * Top
      BY <2>1, <2>2 DEF Finished
    <2>5. ASSUME NEW k \in {k \in 0 .. LastFree : Given(k)}
          PROVE  \E i \in DOMAIN freelist : freelist[i] = k * Top
      <3>1. k \in Nat /\ Given(k)
        BY <2>3
      <3> QED
        BY <3>1, <2>1 DEF Finished
    <2> QED
      BY <2>1, <2>4, <2>5
  <1> QED
    BY <1>1, MemInitInvariant, PTL

\* The descriptors of the blocks on the free list are in the table, the table
\* is in the kernel area, and that is in none of the blocks.
THEOREM MemInitDescriptorsInTable == Spec => []DescriptorsInTable
  <1>1. IInv => DescriptorsInTable
    <2> SUFFICES ASSUME IInv, NEW i \in DOMAIN freelist
                 PROVE  /\ kernel <= freelist[i] * Page
                        /\ TableStart + (freelist[i] + Top) * Desc <= TableEnd
                        /\ TableEnd <= kernel
      BY DEF DescriptorsInTable
    <2>1. Sorted(map) /\ pc \notin {"kernel", "find"} /\ kernel = Align(TableEnd)
      BY DEF IInv
    <2>2. PICK k \in Nat : Given(k) /\ freelist[i] = k * Top
      <3>1. CASE pc = "make"
        <4>1. PICK b \in Nat : At(b)
          BY <3>1 DEF IInv
        <4> QED
          BY <4>1 DEF At
      <3>2. CASE pc # "make"
        BY <3>2, <2>1 DEF IInv, Finished
      <3> QED
        BY <3>1, <3>2
    <2>3. kernel <= freelist[i] * Page
      BY <2>2, FirstPage DEF Given
    <2>4. PICK j \in DOMAIN map : map[j].type = "Free" /\ (k + 1) * Block < End(map[j])
      BY <2>2 DEF Given
    <2>5. map[j] \in Entry
      BY <2>1 DEF Sorted
    <2>6. End(map[j]) \in Nat /\ End(map[j]) <= LastFree /\ LastFree \in Nat
      BY <2>1, <2>4, <2>5, LastFreeBounds DEF Entry, End
    <2>7. k + 1 \in Nat /\ (k + 1) * Top = k * Top + Top /\ (k + 1) * Top \in Nat
      BY Scaled, UnitAssumption
    <2>8. (k + 1) * Block = ((k + 1) * Top) * Page /\ (k + 1) * Block \in Nat
      BY <2>7, FirstPage, Scaled, BlockType
    <2>9. (k + 1) * Top <= LastFree \div Page
      BY <2>4, <2>6, <2>7, <2>8, DivLower, UnitAssumption
    <2>10. LastFree \div Page \in Nat
      BY <2>6, DivType, UnitAssumption
    <2>11. /\ ((k + 1) * Top) * Desc <= (LastFree \div Page) * Desc
           /\ ((k + 1) * Top) * Desc \in Nat /\ (LastFree \div Page) * Desc \in Nat
      BY <2>7, <2>9, <2>10, Scaled, UnitAssumption
    <2>12. TableStart + (freelist[i] + Top) * Desc <= TableEnd
      BY <2>2, <2>7, <2>11, UnitAssumption DEF TableEnd
    <2>13. TableEnd <= kernel
      BY <2>1, KernelEnd
    <2> QED
      BY <2>3, <2>12, <2>13
  <1> QED
    BY <1>1, MemInitInvariant, PTL

-----------------------------------------------------------------------------
(* The page tables. *)

\* The pages that were allocated for the tables of a level.
Extent(v) == tables[v] .. tables[v] + Asked(TableCount[v]) - 1

\* What is inductive about makeKernelPTE: no level's pages are another's, and
\* there is one table on each of the upper levels.
TablesInv ==
    /\ tables \in Seq(Nat) /\ Len(tables) <= 3
    /\ pc \in {"kernel", "find", "make"} => tables = <<>>
    /\ tables # <<>> => PteCount <= PerTable
    /\ \A v, m \in DOMAIN tables : v # m => Extent(v) \intersect Extent(m) = {}
    /\ pc = "done" =>
          /\ Len(tables) = 3
          /\ word = [x \in DOMAIN PteWords \union DOMAIN PudWords \union DOMAIN PgdWords |->
                        IF x \in DOMAIN PgdWords THEN PgdWords[x]
                        ELSE IF x \in DOMAIN PudWords THEN PudWords[x] ELSE PteWords[x]]

\* The last entry of the map ends last.
LEMMA EndPositionType ==
    ASSUME Sorted(map)
    PROVE  EndPosition \in Nat
<1> DEFINE Ends == {End(map[i]) : i \in DOMAIN map}
<1>1. PICK n \in Nat : n = Len(map) /\ DOMAIN map = 1 .. n /\ n # 0
  BY DEF Sorted, LastFreeIndex
<1>2. \A i \in DOMAIN map : /\ map[i].base \in Nat /\ End(map[i]) \in Nat \ {0}
                            /\ map[i].base <= End(map[i])
  <2> SUFFICES ASSUME NEW i \in DOMAIN map
               PROVE  /\ map[i].base \in Nat /\ End(map[i]) \in Nat \ {0}
                      /\ map[i].base <= End(map[i])
    OBVIOUS
  <2>1. map[i] \in Entry
    BY DEF Sorted
  <2> QED BY <2>1 DEF Entry, End
<1>3. ASSUME NEW i \in DOMAIN map PROVE End(map[i]) <= End(map[n])
  <2>1. n \in DOMAIN map /\ i \in Nat /\ i <= n
    BY <1>1
  <2>2. i < n => End(map[i]) <= map[n].base
    BY <2>1 DEF Sorted
  <2> QED BY <1>2, <2>1, <2>2
<1>4. End(map[n]) \in Ends /\ (\A y \in Ends : y <= End(map[n])) /\ Ends \subseteq Nat \ {0}
  BY <1>1, <1>2, <1>3
<1>5. EndPosition = (CHOOSE x \in Ends : \A y \in Ends : y <= x) - 1
  BY DEF EndPosition
<1> HIDE DEF Ends
<1>6. (CHOOSE x \in Ends : \A y \in Ends : y <= x) \in Ends
  BY <1>4
<1>7. \A n1 \in Nat \ {0} : n1 - 1 \in Nat
  OBVIOUS
<1> QED BY ONLY <1>4, <1>5, <1>6, <1>7

\* As many tables as a level has entries to put into them, and their pages.
LEMMA Counts ==
    ASSUME Sorted(map)
    PROVE  /\ PteCount \in Nat \ {0} /\ PudCount \in Nat \ {0} /\ PgdCount \in Nat \ {0}
           /\ \A v \in 1 .. 3 : Asked(TableCount[v]) \in Nat \ {0}
           /\ PteCount <= PerTable => PudCount = 1
<1>0. PerTable \in Nat \ {0}
  BY UnitAssumption
<1>1. (EndPosition \div Block) \in Nat
  BY EndPositionType, BlockType, DivType
<1>2. PteCount \in Nat \ {0}
  <2>1. (EndPosition \div Block) \div PerTable \in Nat
    BY <1>0, <1>1, DivType
  <2> QED BY <2>1 DEF PteCount
<1>3. PudCount \in Nat \ {0}
  <2>1. PteCount - 1 \in Nat
    BY <1>2
  <2>2. (PteCount - 1) \div PerTable \in Nat
    BY <1>0, <2>1, DivType
  <2> QED BY <2>2 DEF PudCount
<1>4. PgdCount \in Nat \ {0}
  <2>1. PudCount - 1 \in Nat
    BY <1>3
  <2>2. (PudCount - 1) \div PerTable \in Nat
    BY <1>0, <2>1, DivType
  <2> QED BY <2>2 DEF PgdCount
<1>5. ASSUME NEW v \in 1 .. 3 PROVE Asked(TableCount[v]) \in Nat \ {0}
  <2>1. TableCount[v] \in Nat \ {0}
    BY <1>2, <1>3, <1>4 DEF TableCount
  <2> QED BY <2>1, HighestBitIs DEF Asked
<1>6. ASSUME PteCount <= PerTable PROVE PudCount = 1
  <2>1. PICK c \in Nat : c = PteCount - 1 /\ c < PerTable
    BY <1>0, <1>2, <1>6
  <2>2. c \div PerTable = 0
    BY <1>0, <2>1
  <2> QED BY <2>1, <2>2 DEF PudCount
<1> QED BY <1>2, <1>3, <1>4, <1>5, <1>6

\* What alloc_pages gives for a level is free and no other level's.
LEMMA LowestFits ==
    ASSUME freelist \in Seq(Nat), NEW n \in Nat, NEW taken, Fits(n, taken) # {}
    PROVE  /\ Lowest(n, taken) \in Nat
           /\ (Lowest(n, taken) .. Lowest(n, taken) + n - 1) \intersect taken = {}
<1>1. Fits(n, taken) \in SUBSET Nat
  <2>1. FreePages \subseteq Nat
    BY UnitAssumption DEF FreePages
  <2> QED BY <2>1 DEF Fits
<1>2. Lowest(n, taken) \in Fits(n, taken)
  <2>1. \E p \in Fits(n, taken) : \A q \in Fits(n, taken) : p <= q
    BY <1>1, LeastNumber
  <2> QED BY <2>1 DEF Lowest
<1> QED BY <1>1, <1>2 DEF Fits

LEMMA CountsKept ==
    ASSUME map' = map
    PROVE  /\ PteCount' = PteCount /\ TableCount' = TableCount
           /\ EndPosition' = EndPosition
<1>1. EndPosition' = EndPosition
  BY DEF EndPosition, End
<1> QED BY <1>1 DEF PteCount, PudCount, PgdCount, TableCount

LEMMA AllocTablesInv == IInv /\ TablesInv /\ AllocTables => TablesInv'
<1> SUFFICES ASSUME IInv, TablesInv, AllocTables PROVE TablesInv'
  OBVIOUS
<1>0. Sorted(map) /\ freelist \in Seq(Nat) /\ map' = map /\ pc' = pc /\ pc = "pte"
  BY DEF IInv, AllocTables, pageVars
<1>1. /\ PteCount' = PteCount /\ TableCount' = TableCount
      /\ \A v \in 1 .. 3 : Asked(TableCount[v]) \in Nat \ {0}
  BY <1>0, Counts, CountsKept
<1>2. PICK k \in 0 .. 2 : k = Len(tables)
  <2>1. Len(tables) \in Nat /\ Len(tables) < 3
    BY DEF AllocTables, TablesInv
  <2>2. PICK c \in Nat : c = Len(tables)
    BY <2>1
  <2>3. c \in 0 .. 2
    BY ONLY <2>1, <2>2, c \in Nat
  <2> QED BY <2>2, <2>3
<1>3. PICK n \in Nat : n = Asked(TableCount[k + 1])
  BY <1>1
<1>4. Fits(n, Taken) # {} /\ tables' = Append(tables, Lowest(n, Taken)) /\ PteCount <= PerTable
  BY <1>2, <1>3 DEF AllocTables
<1>5. PICK p \in Nat : p = Lowest(n, Taken) /\ (p .. p + n - 1) \intersect Taken = {}
  BY <1>0, <1>4, LowestFits
<1>6. /\ tables \in Seq(Nat) /\ tables' \in Seq(Nat) /\ Len(tables') = k + 1
      /\ DOMAIN tables = 1 .. k /\ DOMAIN tables' = 1 .. k + 1
      /\ tables'[k + 1] = p /\ \A v \in 1 .. k : tables'[v] = tables[v]
  BY <1>2, <1>4, <1>5 DEF TablesInv
<1>7. \A v \in 1 .. k : Extent(v)' = Extent(v) /\ Extent(v) \subseteq Taken
  BY <1>1, <1>6 DEF Extent, Taken, Asked
<1>8. Extent(k + 1)' = p .. p + n - 1
  BY <1>1, <1>3, <1>6 DEF Extent, Asked
<1>9. ASSUME NEW v \in 1 .. k + 1, NEW m \in 1 .. k + 1, v # m
      PROVE  Extent(v)' \intersect Extent(m)' = {}
  <2>1. CASE v \in 1 .. k /\ m \in 1 .. k
    BY <1>6, <1>7, <1>9, <2>1 DEF TablesInv
  <2>2. CASE v = k + 1 /\ m \in 1 .. k
    BY <1>5, <1>7, <1>8, <2>2
  <2>3. CASE v \in 1 .. k /\ m = k + 1
    BY <1>5, <1>7, <1>8, <2>3
  <2> QED BY <1>9, <2>1, <2>2, <2>3
<1>10. (k + 1 <= 3) /\ \A v, m \in DOMAIN tables' : v # m => Extent(v)' \intersect Extent(m)' = {}
  BY <1>6, <1>9
<1>11. pc' = "pte"
  BY <1>0
<1>12. PteCount' <= PerTable
  BY <1>1, <1>4
<1> QED BY <1>6, <1>10, <1>11, <1>12 DEF TablesInv

LEMMA NextTablesInv == IInv /\ TablesInv /\ [Next]_vars => TablesInv'
<1> SUFFICES ASSUME IInv, TablesInv, [Next]_vars PROVE TablesInv'
  OBVIOUS
<1>1. map' = map
  BY MapKept
<1>2. /\ PteCount' = PteCount /\ TableCount' = TableCount /\ EndPosition' = EndPosition
  BY <1>1, CountsKept
<1>3. CASE AllocTables
  BY <1>3, AllocTablesInv
<1>4. CASE tables' = tables /\ ~MakeKernelPTE /\ ~(Ended \/ UNCHANGED vars)
  <2>1. pc' # "done"
    BY <1>4 DEF Next, KernelArea, Find, Give, Reserve, Advance, TooMuch, AllocTables,
                AllocNothing
  <2>2. pc' \in {"kernel", "find", "make"} => pc \in {"kernel", "find", "make"}
    BY <1>4 DEF Next, KernelArea, Find, Give, Reserve, Advance, TooMuch, AllocTables,
                AllocNothing
  <2>3. \A v \in DOMAIN tables : Extent(v)' = Extent(v)
    BY <1>2, <1>4 DEF Extent, Asked
  <2> QED BY <1>2, <1>4, <2>1, <2>2, <2>3 DEF TablesInv
<1>5. CASE MakeKernelPTE
  <2>1. tables' = tables /\ pc' = "done" /\ Len(tables) = 3
    BY <1>5 DEF MakeKernelPTE
  <2>2. PteWords' = PteWords /\ PudWords' = PudWords /\ PgdWords' = PgdWords
    <3>1. PudCount' = PudCount
      BY <1>2 DEF PudCount
    <3> QED BY <1>2, <2>1, <3>1 DEF PteWords, PudWords, PgdWords, Blocks
  <2>3. \A v \in DOMAIN tables : Extent(v)' = Extent(v)
    BY <1>2, <2>1 DEF Extent, Asked
  <2>4. word' = [x \in DOMAIN PteWords' \union DOMAIN PudWords' \union DOMAIN PgdWords' |->
                    IF x \in DOMAIN PgdWords' THEN PgdWords'[x]
                    ELSE IF x \in DOMAIN PudWords' THEN PudWords'[x] ELSE PteWords'[x]]
    BY <1>5, <2>2 DEF MakeKernelPTE
  <2> QED BY <1>2, <2>1, <2>3, <2>4 DEF TablesInv
<1>6. CASE Ended \/ UNCHANGED vars
  <2>1. tables' = tables /\ pc' = pc /\ word' = word
    BY <1>6 DEF Ended, vars, mapVars
  <2>2. PteWords' = PteWords /\ PudWords' = PudWords /\ PgdWords' = PgdWords
    <3>1. PudCount' = PudCount
      BY <1>2 DEF PudCount
    <3> QED BY <1>2, <2>1, <3>1 DEF PteWords, PudWords, PgdWords, Blocks
  <2>3. \A v \in DOMAIN tables : Extent(v)' = Extent(v)
    BY <1>2, <2>1 DEF Extent, Asked
  <2> QED BY <1>2, <2>1, <2>2, <2>3 DEF TablesInv
<1>7. AllocTables \/ tables' = tables
  BY DEF Next, KernelArea, Find, Give, Reserve, Advance, TooMuch, AllocTables,
         AllocNothing, MakeKernelPTE, Ended, vars, mapVars
<1> QED BY <1>3, <1>4, <1>5, <1>6, <1>7

\* The tables that were allocated are where no other level writes.
THEOREM MemInitTablesApart == Spec => []TablesInv
<1>1. Init => TablesInv
  BY DEF Init, TablesInv
<1> QED BY <1>1, MemInitInvariant, NextTablesInv, PTL DEF Spec

\* Every block whose table was allocated is mapped to itself, however large
\* the map and the tables are: the walk from the top level meets the one entry
\* of the upper levels for it, and neither that nor the block's own entry is
\* written over by a later level.
THEOREM MemInitAllocatedMapsRight == Spec => []AllocatedMapsRight
<1>1. IInv /\ TablesInv => AllocatedMapsRight
  <2> SUFFICES ASSUME IInv, TablesInv, pc = "done",
                      NEW b \in Blocks, b \div PerTable < Asked(PteCount)
               PROVE  MapsTo(b)
    BY DEF AllocatedMapsRight
  <2>1. /\ tables \in Seq(Nat) /\ Len(tables) = 3 /\ Sorted(map)
        /\ PerTable \in Nat \ {0}
    BY UnitAssumption DEF TablesInv, IInv
  <2>2. PICK t1 \in Nat, t2 \in Nat, t3 \in Nat :
           tables[1] = t1 /\ tables[2] = t2 /\ tables[3] = t3
    <3>1. tables[1] \in Nat /\ tables[2] \in Nat /\ tables[3] \in Nat
      BY <2>1
    <3> QED BY <3>1
  <2>3. /\ PteCount \in Nat \ {0} /\ PteCount <= PerTable /\ PudCount = 1
        /\ \A v \in 1 .. 3 : Asked(TableCount[v]) \in Nat \ {0}
    <3>1. tables # <<>>
      <4>1. Len(<<>>) = 0
        OBVIOUS
      <4>2. Len(tables) # 0
        BY <2>1
      <4> QED BY ONLY <4>1, <4>2
    <3> QED BY <2>1, <3>1, Counts DEF TablesInv
  <2>4. PICK a1 \in Nat \ {0}, a2 \in Nat \ {0}, a3 \in Nat \ {0} :
           a1 = Asked(PteCount) /\ a2 = Asked(PudCount) /\ a3 = Asked(PgdCount)
    <3>1. TableCount[1] = PteCount /\ TableCount[2] = PudCount /\ TableCount[3] = PgdCount
      BY DEF TableCount
    <3> QED BY <2>3, <3>1
  <2>5. /\ (t1 .. t1 + a1 - 1) \intersect (t2 .. t2 + a2 - 1) = {}
        /\ (t1 .. t1 + a1 - 1) \intersect (t3 .. t3 + a3 - 1) = {}
        /\ (t2 .. t2 + a2 - 1) \intersect (t3 .. t3 + a3 - 1) = {}
    <3>1. 1 \in DOMAIN tables /\ 2 \in DOMAIN tables /\ 3 \in DOMAIN tables
      BY <2>1
    <3>2. /\ Extent(1) = t1 .. t1 + a1 - 1 /\ Extent(2) = t2 .. t2 + a2 - 1
          /\ Extent(3) = t3 .. t3 + a3 - 1
      BY <2>2, <2>4 DEF Extent, TableCount
    <3>3. \A v, m \in DOMAIN tables : v # m => Extent(v) \intersect Extent(m) = {}
      BY DEF TablesInv
    <3>4. 1 # 2 /\ 1 # 3 /\ 2 # 3
      OBVIOUS
    <3>5. /\ Extent(1) \intersect Extent(2) = {} /\ Extent(1) \intersect Extent(3) = {}
          /\ Extent(2) \intersect Extent(3) = {}
      BY ONLY <3>1, <3>3, <3>4
    <3> QED BY ONLY <3>2, <3>5
  <2>6. PICK i \in Nat, j \in Nat : /\ i = b \div PerTable /\ j = b % PerTable
                                    /\ b = (i * PerTable) + j /\ j < PerTable
    <3>1. b \in Nat
      BY EndPositionType, BlockType, DivType, <2>1 DEF Blocks
    <3>2. b = PerTable * (b \div PerTable) + (b % PerTable) /\ b \div PerTable \in Nat
          /\ b % PerTable \in 0 .. PerTable - 1
      BY <2>1, <3>1, DivRest
    <3> QED BY <2>1, <3>2
  <2>7. i < a1 /\ i < PteCount /\ i < PerTable
    <3>1. a1 <= PteCount
      BY <2>3, <2>4, HighestBitIs DEF Asked
    <3>2. i < a1
      BY <2>4, <2>6
    <3>3. PICK c \in Nat : c = PteCount
      BY <2>3
    <3>4. a1 <= c /\ c <= PerTable
      BY <2>3, <3>1, <3>3
    <3>5. i < c /\ i < PerTable
      BY <2>1, <3>2, <3>4
    <3> QED BY <3>2, <3>3, <3>5
  <2>8. t1 + i \notin {t2, t3} /\ t2 # t3
    <3>1. /\ t1 + i \in t1 .. t1 + a1 - 1 /\ t2 \in t2 .. t2 + a2 - 1
          /\ t3 \in t3 .. t3 + a3 - 1
      BY <2>7
    <3> QED BY ONLY <2>5, <3>1
  <2>9. /\ \A x \in DOMAIN PgdWords : x[1] = t3
        /\ \A x \in DOMAIN PudWords : x[1] = t2
    <3>1. \A x \in DOMAIN PgdWords : x[1] = t3
      BY <2>2 DEF PgdWords
    <3>2. ASSUME NEW n \in 0 .. PteCount - 1 PROVE n \div PerTable = 0 /\ n % PerTable = n
      <4>1. n \in Nat /\ n < PerTable
        BY <2>1, <2>3
      <4> QED BY <2>1, <4>1
    <3>3. \A n \in 0 .. PteCount - 1 : t2 + n \div PerTable = t2
      BY <2>2, <3>2
    <3> QED BY <2>2, <3>1, <3>3 DEF PudWords
  <2>10. PICK h \in Nat : h = PerTable \div 2
    BY <2>1, DivType
  <2>11. word[<<t3, h>>] = [level |-> "table", to |-> t2]
    <3>1. <<t3, h>> \in DOMAIN PgdWords
      <4>1. 0 \in 0 .. PudCount - 1 /\ <<t3, h>> = <<tables[3], 0 + PerTable \div 2>>
        BY <2>2, <2>3, <2>10
      <4> QED BY <4>1 DEF PgdWords
    <3>2. PgdWords[<<t3, h>>] = [level |-> "table", to |-> t2 + h - h]
      BY <2>2, <2>10, <3>1 DEF PgdWords
    <3> QED BY <3>1, <3>2 DEF TablesInv
  <2>12. word[<<t2, i>>] = [level |-> "table", to |-> t1 + i]
    <3>1. <<t2, i>> \in DOMAIN PudWords
      <4>1. i \in 0 .. PteCount - 1 /\ i \div PerTable = 0 /\ i % PerTable = i
        <5>1. i \div PerTable = 0 /\ i % PerTable = i
          BY <2>1, <2>7
        <5> QED BY <2>3, <2>7, <5>1
      <4>2. <<t2, i>> = <<tables[2] + i \div PerTable, i % PerTable>>
        BY <2>2, <4>1
      <4> QED BY <4>1, <4>2 DEF PudWords
    <3>2. PudWords[<<t2, i>>] = [level |-> "table", to |-> t1 + ((t2 - t2) * PerTable) + i]
      BY <2>2, <3>1 DEF PudWords
    <3>3. (t2 - t2) * PerTable = 0
      BY <2>1
    <3>4. <<t2, i>> \notin DOMAIN PgdWords
      BY <2>8, <2>9
    <3> QED BY <3>1, <3>2, <3>3, <3>4 DEF TablesInv
  <2>13. word[<<t1 + i, j>>] = [level |-> "block", to |-> b]
    <3>1. <<t1 + i, j>> \in DOMAIN PteWords
      <4>1. <<t1 + i, j>> = <<tables[1] + b \div PerTable, b % PerTable>>
        BY <2>2, <2>6
      <4> QED BY <4>1 DEF PteWords
    <3>2. PteWords[<<t1 + i, j>>] = [level |-> "block", to |-> (((t1 + i) - t1) * PerTable) + j]
      BY <2>2, <3>1 DEF PteWords
    <3>3. (t1 + i) - t1 = i
      OBVIOUS
    <3>4. <<t1 + i, j>> \notin DOMAIN PgdWords /\ <<t1 + i, j>> \notin DOMAIN PudWords
      BY <2>8, <2>9
    <3> QED BY <2>6, <3>1, <3>2, <3>3, <3>4 DEF TablesInv
  <2> QED BY <2>2, <2>6, <2>10, <2>11, <2>12, <2>13 DEF MapsTo
<1> QED BY <1>1, MemInitInvariant, MemInitTablesApart, PTL

-----------------------------------------------------------------------------
(* kmalloc. *)

\* A remainder is what is left.
LEMMA RestOf ==
    ASSUME NEW b \in Nat \ {0}, NEW d \in Nat, NEW r \in 0 .. b - 1
    PROVE  ((b * d) + r) % b = r
<1>1. PICK q \in Nat, t \in 0 .. b - 1 : (b * d) + r = (b * q) + t /\ t = ((b * d) + r) % b
  BY DivRest, (b * d) + r \in Nat
<1>2. q = d
  <2>1. q * b < (d + 1) * b /\ d * b < (q + 1) * b
    BY <1>1
  <2>2. q < d + 1 /\ d < q + 1
    BY <2>1, ProductOrder, d + 1 \in Nat, q + 1 \in Nat
  <2> QED BY <2>2
<1> QED BY <1>1, <1>2

\* What 1 << k is, by induction on k.
LEMMA BitType == \A k \in 0 .. Bits : Bit[k] \in Nat \ {0}
<1> DEFINE Bad == {k \in 0 .. Bits : Bit[k] = 0}
<1>0. Bits \in Nat /\ \A k \in 0 .. Bits : Bit[k] \in Nat
  <2>1. Bits \in 1 .. 256 /\ Bit \in [0 .. Bits -> Nat]
    BY BitAssumption, Zenon
  <2> QED BY <2>1
<1>1. SUFFICES ASSUME Bad # {} PROVE FALSE
  BY <1>0
<1>2. PICK k \in Bad : \A m \in Bad : k <= m
  BY <1>0, <1>1, LeastNumber, Bad \in SUBSET Nat
<1>3. k # 0
  BY <1>2, BitAssumption
<1>4. k - 1 \in 0 .. Bits - 1 /\ k - 1 \notin Bad
  BY <1>0, <1>2, <1>3
<1>5. Bit[k] = 2 * Bit[k - 1]
  <2>1. Bit[(k - 1) + 1] = 2 * Bit[k - 1]
    BY <1>4, BitAssumption
  <2> QED BY <2>1, <1>0, <1>2
<1> QED BY <1>0, <1>2, <1>4, <1>5

\* The next is the double.
LEMMA BitNext ==
    ASSUME NEW k \in 0 .. Bits - 1
    PROVE  Bit[k + 1] = 2 * Bit[k] /\ Bit[k] \in Nat \ {0} /\ Bit[k + 1] \in Nat \ {0}
<1>1. k \in 0 .. Bits /\ k + 1 \in 0 .. Bits
  BY BitAssumption
<1> QED BY <1>1, BitAssumption, BitType

\* A product that is not above all of them is one of them.
LEMMA BitSum ==
    ASSUME NEW j \in 0 .. Bits, NEW k \in 0 .. Bits, Bit[j] * Bit[k] <= Bit[Bits]
    PROVE  j + k <= Bits /\ Bit[j] * Bit[k] = Bit[j + k]
<1> DEFINE Good(m) == j + m <= Bits /\ Bit[j] * Bit[m] = Bit[j + m]
           Bad == {m \in 0 .. Bits : Bit[j] * Bit[m] <= Bit[Bits] /\ ~Good(m)}
<1>0. Bits \in Nat /\ Bit[j] \in Nat \ {0} /\ Bit[Bits] \in Nat
  BY BitAssumption, BitType
<1>1. SUFFICES ASSUME Bad # {} PROVE FALSE
  OBVIOUS
<1>2. PICK m \in Bad : \A x \in Bad : m <= x
  BY <1>0, <1>1, LeastNumber, Bad \in SUBSET Nat
<1>3. m # 0
  <2>1. Good(0)
    BY <1>0, BitAssumption
  <2> QED BY <1>2, <2>1
<1>4. PICK b \in 0 .. Bits - 1 : m = b + 1 /\ b < m
  BY <1>0, <1>2, <1>3, m - 1 \in 0 .. Bits - 1, m = (m - 1) + 1
<1>5. Bit[m] = 2 * Bit[b] /\ Bit[b] \in Nat
  BY <1>4, BitNext
<1>6. Bit[j] * Bit[m] = 2 * (Bit[j] * Bit[b]) /\ Bit[j] * Bit[b] \in Nat
  BY <1>0, <1>5
<1>7. Good(b)
  <2>1. Bit[j] * Bit[b] <= Bit[Bits]
    BY <1>0, <1>2, <1>6
  <2>2. b \notin Bad /\ b \in 0 .. Bits
    BY <1>0, <1>2, <1>4
  <2> QED BY <2>1, <2>2
<1>8. j + b # Bits
  <2>1. SUFFICES ASSUME j + b = Bits PROVE FALSE
    OBVIOUS
  <2>2. Bit[j] * Bit[b] = Bit[Bits] /\ Bit[Bits] # 0
    BY <1>0, <1>7, <2>1, BitType
  <2> QED BY <1>0, <1>2, <1>6, <2>2
<1>9. j + b \in 0 .. Bits - 1
  BY <1>0, <1>7, <1>8
<1>10. Bit[j + m] = Bit[j] * Bit[m]
  <2>1. Bit[(j + b) + 1] = 2 * Bit[j + b]
    BY <1>9, BitNext
  <2>2. (j + b) + 1 = j + m
    BY <1>4, <1>9
  <2> QED BY <1>6, <1>7, <2>1, <2>2
<1>11. j + m <= Bits
  BY <1>0, <1>4, <1>9
<1> QED BY <1>2, <1>10, <1>11

\* They are in order, and the lesser divides the greater.
LEMMA BitOrder ==
    ASSUME NEW j \in 0 .. Bits, NEW k \in 0 .. Bits, j <= k
    PROVE  Bit[k] % Bit[j] = 0 /\ Bit[j] <= Bit[k]
<1> DEFINE Bad == {m \in 0 .. Bits : j <= m /\ ~(Bit[m] % Bit[j] = 0)}
<1>0. Bits \in Nat /\ Bit[j] \in Nat \ {0} /\ Bit[k] \in Nat \ {0}
  <2>1. Bit[j] \in Nat \ {0} /\ Bit[k] \in Nat \ {0}
    BY BitType
  <2> QED BY <2>1, BitAssumption
<1>1. Bad = {}
  <2> SUFFICES ASSUME Bad # {} PROVE FALSE
    OBVIOUS
  <2>1. PICK m \in Bad : \A x \in Bad : m <= x
    BY <1>0, LeastNumber, Bad \in SUBSET Nat
  <2>2. m # j
    BY <1>0, <2>1
  <2>3. PICK b \in 0 .. Bits - 1 : m = b + 1 /\ b < m /\ j <= b
    BY <1>0, <2>1, <2>2, m - 1 \in 0 .. Bits - 1, m = (m - 1) + 1
  <2>4. Bit[m] = 2 * Bit[b] /\ Bit[b] \in Nat
    BY <2>3, BitNext
  <2>5. Bit[b] % Bit[j] = 0
    <3>1. b \in 0 .. Bits /\ b \notin Bad
      BY <1>0, <2>1, <2>3
    <3> QED BY <2>3, <3>1
  <2>6. (2 * Bit[b]) % Bit[j] = 0
    BY <1>0, <2>4, <2>5, DividesProduct, 2 \in Nat
  <2> QED BY <2>1, <2>4, <2>6
<1>2. Bit[k] % Bit[j] = 0
  BY <1>1
<1>3. PICK e \in Nat : Bit[k] = Bit[j] * e
  BY <1>0, <1>2, Divides
<1>4. e # 0
  BY <1>0, <1>3
<1>5. PICK d \in Nat : e = d + 1
  BY <1>4, e - 1 \in Nat, e = (e - 1) + 1
<1>6. Bit[k] = Bit[j] * d + Bit[j] /\ Bit[j] * d \in Nat
  BY <1>0, <1>3, <1>5
<1> QED BY <1>0, <1>2, <1>6

\* ilog2.
LEMMA Ilog2Is ==
    ASSUME NEW n \in Nat \ {0}, n < Bit[Bits]
    PROVE  /\ ilog2(n) \in 0 .. Bits - 1
           /\ Bit[ilog2(n)] <= n /\ n < Bit[ilog2(n) + 1]
           /\ \A k \in 0 .. Bits - 1 : Bit[k] <= n /\ n < Bit[k + 1] => ilog2(n) = k
<1> DEFINE Between(k) == Bit[k] <= n /\ n < Bit[k + 1]
           Above == {k \in 0 .. Bits : n < Bit[k]}
<1>0. Bits \in Nat \ {0} /\ Bits \in Above
  BY BitAssumption
<1>1. PICK t \in Above : \A x \in Above : t <= x
  BY <1>0, LeastNumber, Above \in SUBSET Nat
<1>2. t # 0
  BY <1>1, BitAssumption
<1>3. PICK b \in 0 .. Bits - 1 : t = b + 1 /\ b < t
  BY <1>0, <1>1, <1>2, t - 1 \in 0 .. Bits - 1, t = (t - 1) + 1
<1>4. Between(b)
  <2>1. b \in 0 .. Bits /\ b \notin Above
    BY <1>0, <1>1, <1>3
  <2>2. Bit[b] \in Nat
    BY <2>1, BitType
  <2> QED BY <1>1, <1>3, <2>1, <2>2
<1>5. PICK z \in 0 .. Bits - 1 : z = ilog2(n) /\ Between(z)
  BY <1>3, <1>4 DEF ilog2
<1>6. ASSUME NEW x \in 0 .. Bits - 1, NEW y \in 0 .. Bits - 1, Between(x), Between(y)
      PROVE  ~(x < y)
  <2> SUFFICES ASSUME x < y PROVE FALSE
    OBVIOUS
  <2>1. x + 1 \in 0 .. Bits /\ y \in 0 .. Bits /\ x + 1 <= y
    BY <1>0
  <2>2. Bit[x + 1] <= Bit[y] /\ Bit[x + 1] \in Nat /\ Bit[y] \in Nat
    BY <2>1, BitOrder, BitType
  <2> QED BY <1>6, <2>2
<1>7. ASSUME NEW k \in 0 .. Bits - 1, Between(k) PROVE z = k
  <2>1. ~(z < k) /\ ~(k < z)
    BY <1>5, <1>6, <1>7
  <2> QED BY <1>0, <2>1
<1> QED BY <1>5, <1>7

\* The logarithm of 1 << k is k.
LEMMA Ilog2OfBit ==
    ASSUME NEW k \in 0 .. Bits - 1
    PROVE  ilog2(Bit[k]) = k
<1>1. Bit[k + 1] = 2 * Bit[k] /\ Bit[k] \in Nat \ {0} /\ k + 1 \in 0 .. Bits
  BY BitNext, BitAssumption
<1>2. Bit[k + 1] <= Bit[Bits] /\ Bits \in 0 .. Bits /\ Bit[Bits] \in Nat
  BY <1>1, BitOrder, BitAssumption, BitType
<1>3. Bit[k] < Bit[Bits]
  BY <1>1, <1>2
<1>4. Bit[k] <= Bit[k] /\ Bit[k] < Bit[k + 1]
  BY <1>1
<1> QED BY <1>1, <1>3, <1>4, Ilog2Is

\* The sizes of a page and of what the classes have objects of are powers of
\* two, with room for the greatest request.
LEMMA Units ==
    /\ PageSize \in Nat \ {0} /\ Smallest \in Nat \ {0} /\ Objects \in Nat \ {0}
    /\ Pages \in Nat \ {0} /\ Kernel \in 1 .. Pages - 1 /\ Slubs \in Nat \ {0}
    /\ MaxOrder \in Slubs - 1 .. Bits /\ Slubs - 1 \in 0 .. Bits /\ MaxOrder \in 0 .. Bits
    /\ Pages <= Bit[Bits] /\ Bits \in 1 .. 256
<1>1. /\ {PageSize, Slubs, Objects, Pages, Kernel, PdSize, MaxLive} \subseteq Nat \ {0}
      /\ MaxOrder \in Slubs - 1 .. Bits /\ Kernel < Pages /\ Pages <= Bit[Bits]
  BY KmallocAssumption, Zenon
<1>2. /\ PageSize \in Nat \ {0} /\ Objects \in Nat \ {0} /\ Pages \in Nat \ {0}
      /\ Kernel \in Nat \ {0} /\ Slubs \in Nat \ {0}
  BY <1>1, Zenon
<1>3. Bits \in 1 .. 256
  BY BitAssumption, Zenon
<1>4. Smallest \in Nat \ {0}
  <2>1. PICK s \in 1 .. Bits : Smallest = Bit[s]
    BY KmallocAssumption, Zenon
  <2>2. s \in 0 .. Bits
    BY <1>3
  <2> QED BY <2>1, <2>2, BitType
<1> QED BY <1>1, <1>2, <1>3, <1>4

\* So are the sizes of the objects and slabs of each class, and its slab has
\* room for exactly Objects of them.
LEMMA ClassSizes ==
    \E s \in 1 .. Bits :
       /\ Smallest = Bit[s] /\ s + Slubs + MaxOrder <= Bits - 1 /\ PageSize = Bit[s + Slubs]
       /\ \A i \in 0 .. Slubs - 1 :
             /\ object_size(i) = Bit[s + i] /\ object_size(i) \in Nat \ {0}
             /\ object_size(i) * Objects = Bit[s + Slubs + i]
             /\ Bit[i] * PageSize = object_size(i) * Objects
<1>0. /\ PageSize \in Nat \ {0} /\ Smallest \in Nat \ {0} /\ Objects \in Nat \ {0}
      /\ Slubs \in Nat \ {0} /\ Bits \in 1 .. 256
      /\ MaxOrder \in Slubs - 1 .. Bits /\ Slubs - 1 \in 0 .. Bits /\ MaxOrder \in 0 .. Bits
  BY Units
<1>1. PICK s \in 1 .. Bits : Smallest = Bit[s]
  BY KmallocAssumption, Zenon
<1>2. PICK w \in 0 .. Bits : w = Slubs - 1
  BY <1>0
<1>3. s \in 0 .. Bits /\ Bit[w] \in Nat \ {0} /\ Bit[MaxOrder] \in Nat \ {0}
  BY <1>0, BitType
<1>4. /\ PageSize = 2 * (Bit[s] * Bit[w]) /\ Smallest * Objects = PageSize
      /\ PageSize * Bit[MaxOrder] < Bit[Bits]
  BY KmallocAssumption, <1>1, <1>2, Zenon DEF object_size, Largest
<1>5. Bits \in 0 .. Bits /\ Bit[Bits] \in Nat \ {0}
  BY <1>0, BitType
<1>6. PageSize <= PageSize * Bit[MaxOrder]
  BY <1>0, <1>3
<1>7. PageSize < Bit[Bits] /\ Bit[s] * Bit[w] <= PageSize
  <2>1. Bit[s] * Bit[w] \in Nat
    BY <1>0, <1>1, <1>3
  <2> QED BY <1>0, <1>3, <1>4, <1>5, <1>6, <2>1
<1>8. s + w <= Bits /\ Bit[s] * Bit[w] = Bit[s + w]
  <2>1. Bit[s] * Bit[w] <= Bit[Bits]
    BY <1>0, <1>1, <1>3, <1>5, <1>7
  <2> QED BY <1>3, <2>1, BitSum
<1>9. s + w < Bits
  <2>1. SUFFICES ASSUME s + w = Bits PROVE FALSE
    BY <1>0, <1>8
  <2>2. Bit[s] * Bit[w] = Bit[Bits]
    BY <1>8, <2>1
  <2> QED BY <1>0, <1>4, <1>5, <1>7, <2>2
<1>10. s + Slubs \in 1 .. Bits /\ PageSize = Bit[s + Slubs]
  <2>1. s + w \in 0 .. Bits - 1 /\ (s + w) + 1 = s + Slubs
    BY <1>0, <1>2, <1>9
  <2>2. Bit[s + w + 1] = 2 * Bit[s + w]
    BY <2>1, BitNext
  <2> QED BY <1>0, <1>4, <1>8, <2>1, <2>2
<1>11. s + Slubs + MaxOrder <= Bits - 1
  <2>1. Bit[s + Slubs] * Bit[MaxOrder] <= Bit[Bits]
    BY <1>0, <1>3, <1>4, <1>5, <1>10
  <2>2. PICK u \in 0 .. Bits : u = s + Slubs
    BY <1>10
  <2>3. u + MaxOrder <= Bits /\ Bit[u] * Bit[MaxOrder] = Bit[u + MaxOrder]
    BY <1>0, <2>1, <2>2, BitSum
  <2>4. u + MaxOrder # Bits
    BY <1>0, <1>4, <1>5, <1>10, <2>2, <2>3
  <2> QED BY <1>0, <2>2, <2>3, <2>4
<1>12. ASSUME NEW i \in 0 .. Slubs - 1
       PROVE  /\ object_size(i) = Bit[s + i] /\ object_size(i) \in Nat \ {0}
              /\ object_size(i) * Objects = Bit[s + Slubs + i]
              /\ Bit[i] * PageSize = object_size(i) * Objects
  <2>1. i \in 0 .. Bits /\ i <= MaxOrder /\ s + Slubs \in 0 .. Bits
    BY <1>0, <1>10
  <2>2. Bit[i] \in Nat \ {0} /\ Bit[i] <= Bit[MaxOrder] /\ object_size(i) = Smallest * Bit[i]
    BY <1>0, <2>1, BitType, BitOrder DEF object_size
  <2>3. PageSize * Bit[i] <= PageSize * Bit[MaxOrder] /\ Smallest * Bit[i] \in Nat
    BY <1>0, <1>3, <2>2
  <2>4. (s + Slubs) + i <= Bits /\ PageSize * Bit[i] = Bit[(s + Slubs) + i]
    <3>1. Bit[s + Slubs] * Bit[i] <= Bit[Bits]
      BY <1>0, <1>3, <1>4, <1>5, <1>10, <2>2, <2>3
    <3> QED BY <1>10, <2>1, <3>1, BitSum
  <2>5. (Smallest * Bit[i]) * Objects = PageSize * Bit[i]
    <3>1. (Smallest * Bit[i]) * Objects = (Smallest * Objects) * Bit[i]
      BY <1>0, <2>2
    <3> QED BY <1>4, <3>1
  <2>6. Bit[s] * Bit[i] <= Bit[Bits]
    <3>1. Smallest * Bit[i] <= (Smallest * Bit[i]) * Objects
      BY <1>0, <2>3
    <3> QED BY <1>0, <1>1, <1>3, <1>4, <1>5, <2>2, <2>3, <2>5, <3>1
  <2>7. object_size(i) = Bit[s + i] /\ s + i \in 0 .. Bits
    BY <1>0, <1>1, <1>3, <2>1, <2>2, <2>6, BitSum
  <2>8. object_size(i) \in Nat \ {0}
    BY <2>7, BitType
  <2>9. Bit[i] * PageSize = PageSize * Bit[i]
    BY <1>0, <2>2
  <2> QED BY <2>2, <2>4, <2>5, <2>7, <2>8, <2>9
<1> QED BY <1>1, <1>10, <1>11, <1>12

\* The class chosen for a size is one of them, and has objects of that size.
LEMMA IndexIs ==
    ASSUME NEW size \in 1 .. object_size(Slubs - 1)
    PROVE  Index(size) \in 0 .. Slubs - 1 /\ size <= object_size(Index(size))
<1>0. /\ Slubs \in Nat \ {0} /\ Bits \in 1 .. 256 /\ MaxOrder \in 0 .. Bits
      /\ Slubs - 1 \in 0 .. Slubs - 1
  BY Units
<1>1. PICK s \in 1 .. Bits :
         /\ Smallest = Bit[s] /\ s + Slubs + MaxOrder <= Bits - 1
         /\ \A i \in 0 .. Slubs - 1 : object_size(i) = Bit[s + i]
  BY ClassSizes
<1>2. PICK r \in 0 .. Bits - 1 : s = r + 1 /\ r = s - 1
  BY <1>0, s - 1 \in 0 .. Bits - 1, s = (s - 1) + 1
<1>3. Bit[s] = 2 * Bit[r] /\ Bit[r] \in Nat \ {0} /\ Bit[s] \in Nat \ {0}
  BY <1>2, BitNext
<1>4. s \in 0 .. Bits /\ s + Slubs - 1 \in 0 .. Bits /\ Bits \in 0 .. Bits
  BY <1>0, <1>1
<1>5. /\ Bit[s] <= Bit[s + Slubs - 1] /\ Bit[s + Slubs - 1] <= Bit[Bits]
      /\ Bit[s + Slubs - 1] \in Nat \ {0} /\ Bit[Bits] \in Nat \ {0}
  BY <1>0, <1>4, BitOrder, BitType
<1>6. object_size(Slubs - 1) = Bit[s + Slubs - 1]
  BY <1>0, <1>1
<1>7. ilog2(Bit[s] - 1) = r
  <2>1. Bit[s] - 1 \in Nat \ {0} /\ Bit[s] - 1 < Bit[Bits] /\ Bit[r] <= Bit[s] - 1
        /\ Bit[s] - 1 < Bit[r + 1]
    BY <1>2, <1>3, <1>5
  <2> QED BY <2>1, Ilog2Is
<1>8. PICK m \in Nat \ {0} : /\ m = (IF size < Smallest THEN Smallest ELSE size) - 1
                             /\ size <= m + 1 /\ Bit[s] - 1 <= m /\ m < Bit[s + Slubs - 1]
  <2>1. CASE size < Smallest
    BY <1>1, <1>3, <1>5, <2>1, Bit[s] - 1 \in Nat \ {0}
  <2>2. CASE ~(size < Smallest)
    BY <1>1, <1>3, <1>5, <1>6, <2>2, size - 1 \in Nat \ {0}
  <2> QED BY <2>1, <2>2
<1>9. PICK e \in 0 .. Bits - 1 : e = ilog2(m) /\ Bit[e] <= m /\ m < Bit[e + 1]
  <2>1. m < Bit[Bits]
    BY <1>5, <1>8
  <2>2. /\ ilog2(m) \in 0 .. Bits - 1 /\ Bit[ilog2(m)] <= m /\ m < Bit[ilog2(m) + 1]
    BY <1>8, <2>1, Ilog2Is
  <2> QED BY <2>2
<1>10. /\ Bit[e] \in Nat /\ Bit[e + 1] \in Nat
       /\ e \in 0 .. Bits /\ e + 1 \in 0 .. Bits
  BY <1>0, BitNext
<1>11. r <= e
  <2>1. SUFFICES ASSUME e + 1 <= r PROVE FALSE
    BY <1>0
  <2>2. r \in 0 .. Bits /\ Bit[e + 1] <= Bit[r]
    BY <1>0, <1>10, <2>1, BitOrder
  <2>3. Bit[r] <= m
    BY <1>3, <1>8
  <2> QED BY <1>3, <1>9, <1>10, <2>2, <2>3
<1>12. e + 1 <= s + Slubs - 1
  <2>1. SUFFICES ASSUME s + Slubs - 1 <= e PROVE FALSE
    BY <1>0
  <2>2. Bit[s + Slubs - 1] <= Bit[e]
    BY <1>4, <1>10, <2>1, BitOrder
  <2> QED BY <1>5, <1>8, <1>9, <1>10, <2>2
<1>13. Index(size) = e - r
  BY <1>1, <1>7, <1>8, <1>9 DEF Index
<1>14. e - r \in 0 .. Slubs - 1 /\ s + (e - r) = e + 1
  BY <1>0, <1>2, <1>11, <1>12
<1>15. object_size(e - r) = Bit[e + 1]
  BY <1>1, <1>14
<1>16. size <= Bit[e + 1]
  BY <1>8, <1>9, <1>10
<1> QED BY <1>13, <1>14, <1>15, <1>16

\* A slab of class i is a block of order i.
LEMMA SlabOrderIs ==
    ASSUME NEW i \in 0 .. Slubs - 1
    PROVE  SlabOrder(i) = i
<1>0. Slubs \in Nat \ {0} /\ Bits \in 1 .. 256 /\ MaxOrder \in Slubs - 1 .. Bits
  BY Units
<1>1. PICK s \in 1 .. Bits :
         /\ s + Slubs + MaxOrder <= Bits - 1 /\ PageSize = Bit[s + Slubs]
         /\ object_size(i) * Objects = Bit[s + Slubs + i]
  BY ClassSizes
<1>2. s + Slubs \in 0 .. Bits - 1 /\ s + Slubs + i \in 0 .. Bits - 1
  BY <1>0, <1>1
<1>3. ilog2(PageSize) = s + Slubs /\ ilog2(object_size(i) * Objects) = s + Slubs + i
  BY <1>1, <1>2, Ilog2OfBit
<1>4. (s + Slubs + i) - (s + Slubs) = i /\ i % 256 = i
  BY <1>0, <1>2
<1> QED BY <1>3, <1>4 DEF SlabOrder, calculOrder

\* Where the objects of a slab are, and that they are in it.
LEMMA PlacesAre ==
    ASSUME NEW n \in Nat, NEW i \in 0 .. Slubs - 1
    PROVE  Places(n, i) = {n * PageSize + j * object_size(i) : j \in 0 .. Objects - 1}
<1>0. /\ object_size(i) \in Nat \ {0} /\ Objects \in Nat \ {0}
      /\ Bit[i] * PageSize = object_size(i) * Objects /\ SlabOrder(i) = i
  BY ClassSizes, Units, SlabOrderIs
<1>1. object_size(i) * Objects = Objects * object_size(i)
  BY <1>0
<1>2. (Bit[SlabOrder(i)] * PageSize) \div object_size(i) = Objects
  BY <1>0, <1>1, DivProduct
<1> QED BY <1>2 DEF Places

\* Every byte of an object is in the pages of its slab.
LEMMA PlaceInside ==
    ASSUME NEW n \in Nat, NEW i \in 0 .. Slubs - 1, NEW p \in Places(n, i),
           NEW a \in p .. p + object_size(i) - 1
    PROVE  /\ p \in Nat /\ a \in Nat /\ a \div PageSize \in Cells(n, i)
           /\ \A m \in Nat : n + Bit[i] <= m => a < m * PageSize
<1>0. /\ PageSize \in Nat \ {0} /\ Objects \in Nat \ {0} /\ object_size(i) \in Nat \ {0}
      /\ Bit[i] * PageSize = object_size(i) * Objects
  BY Units, ClassSizes
<1>1. Bit[i] \in Nat \ {0}
  BY Units, BitType, i \in 0 .. Bits
<1>2. PICK j \in 0 .. Objects - 1 : p = n * PageSize + j * object_size(i)
  BY PlacesAre
<1>3. PICK x \in Nat, y \in Nat, z \in Nat, o \in Nat \ {0} :
         /\ x = n * PageSize /\ y = j * object_size(i) /\ z = Objects * object_size(i)
         /\ o = object_size(i) /\ y + o <= z
  <2>1. j * object_size(i) + object_size(i) <= Objects * object_size(i)
    BY <1>0, ProductStep
  <2>2. n * PageSize \in Nat /\ j * object_size(i) \in Nat /\ Objects * object_size(i) \in Nat
    BY <1>0
  <2> QED BY <1>0, <2>1, <2>2
<1>4. p = x + y /\ p \in Nat /\ a \in Nat /\ x <= a /\ a < x + z
  BY <1>2, <1>3
<1>5. x + z = (n + Bit[i]) * PageSize
  <2>1. z = Bit[i] * PageSize
    BY <1>0, <1>3
  <2>2. (n + Bit[i]) * PageSize = n * PageSize + Bit[i] * PageSize
    BY <1>0, <1>1
  <2> QED BY <1>3, <2>1, <2>2
<1>6. PICK q \in Nat : q = a \div PageSize /\ q * PageSize <= a /\ a < (q + 1) * PageSize
  BY <1>0, <1>4
<1>7. n <= q
  <2>1. n * PageSize < (q + 1) * PageSize
    BY <1>3, <1>4, <1>6, <1>0
  <2>2. n < q + 1
    BY <1>0, <2>1, ProductOrder, q + 1 \in Nat
  <2> QED BY <2>2
<1>8. q < n + Bit[i]
  <2>1. q * PageSize < (n + Bit[i]) * PageSize
    BY <1>0, <1>1, <1>3, <1>4, <1>5, <1>6
  <2> QED BY <1>0, <1>1, <2>1, ProductOrder, n + Bit[i] \in Nat
<1>9. ASSUME NEW m \in Nat, n + Bit[i] <= m PROVE a < m * PageSize
  <2>1. (n + Bit[i]) * PageSize <= m * PageSize
    BY <1>0, <1>1, <1>9
  <2> QED BY <1>0, <1>1, <1>3, <1>4, <1>5, <2>1
<1>10. q \in Cells(n, i)
  BY <1>1, <1>7, <1>8 DEF Cells
<1> QED BY <1>4, <1>6, <1>9, <1>10

\* Beside their types: descriptor 0 is the kernel's; a slab is an aligned
\* block, and no other head is in it; every object is in a slab of its class,
\* and at a place of its own.
SlabsWhole ==
    \A n \in Kernel .. Pages - 1 :
        flags[n] = "slab" => /\ n % Bit[owner[n]] = 0 /\ n + Bit[owner[n]] <= Pages
                             /\ \A m \in Cells(n, owner[n]) \ {n} : flags[m] = "tails"

ObjectOf(g, n) ==
    /\ n \in Kernel .. Pages - 1 /\ flags[n] = "slab"
    /\ owner[n] = Index(g.size) /\ g.ptr \in Places(n, owner[n])

ObjectsPlaced == \A g \in Small : g.size # 0 /\ \E n \in Kernel .. Pages - 1 : ObjectOf(g, n)

ObjectsApart == \A g, h \in Small : g.ptr = h.ptr => g = h

KmallocInv ==
    KmallocTypeOK /\ flags[0] = "kernel" /\ SlabsWhole /\ ObjectsPlaced /\ ObjectsApart

\* Two slabs have no page in common.
LEMMA SlabsDisjoint ==
    ASSUME KmallocInv, NEW n \in Kernel .. Pages - 1, NEW k \in Kernel .. Pages - 1,
           flags[n] = "slab", flags[k] = "slab", n # k
    PROVE  Cells(n, owner[n]) \intersect Cells(k, owner[k]) = {}
<1> SUFFICES ASSUME NEW a \in Kernel .. Pages - 1, NEW b \in Kernel .. Pages - 1,
                    flags[a] = "slab", flags[b] = "slab", a < b
             PROVE  Cells(a, owner[a]) \intersect Cells(b, owner[b]) = {}
  BY Units
<1>0. Kernel \in Nat /\ Pages \in Nat /\ Slubs \in Nat /\ Slubs - 1 <= Bits
      /\ owner[a] \in 0 .. Slubs - 1 /\ owner[b] \in 0 .. Slubs - 1
  BY Units DEF KmallocInv, KmallocTypeOK, Frame
<1>1. Bit[owner[a]] \in Nat \ {0} /\ Bit[owner[b]] \in Nat \ {0}
  BY <1>0, BitType, Units
<1>2. b \notin Cells(a, owner[a])
  BY DEF KmallocInv, SlabsWhole
<1> QED BY <1>0, <1>1, <1>2 DEF Cells

\* From any page of a slab kfree gets to its head.
LEMMA HeadOfSlab ==
    ASSUME KmallocInv, NEW n \in Kernel .. Pages - 1, flags[n] = "slab",
           NEW c \in Cells(n, owner[n])
    PROVE  HeadOf(c) = n
<1> DEFINE Heads == {m \in {c - (c % Bit[k]) : k \in 0 .. Bits} : flags[m] # "tails"}
<1>0. Kernel \in Nat /\ Pages \in Nat /\ Slubs \in Nat /\ Slubs - 1 <= Bits
      /\ owner[n] \in 0 .. Slubs - 1 /\ owner[n] \in 0 .. Bits
  BY Units DEF KmallocInv, KmallocTypeOK, Frame
<1>1. PICK i \in 0 .. Bits : i = owner[n]
  BY <1>0
<1>2. PICK b \in Nat \ {0} : b = Bit[i]
  BY BitType
<1>3. n \in Nat /\ n % b = 0 /\ c \in n .. n + b - 1 /\ c \in Nat
  BY <1>0, <1>1, <1>2 DEF KmallocInv, SlabsWhole, Cells
<1>4. \A m \in n .. n + b - 1 : m # n => flags[m] # "slab" /\ flags[m] = "tails"
  BY <1>1, <1>2 DEF KmallocInv, SlabsWhole, Cells
<1>5. PICK d \in Nat : n = b * d
  BY <1>2, <1>3, Divides
<1>6. n \in Heads
  <2>1. PICK r \in 0 .. b - 1 : c = n + r
    BY <1>2, <1>3, c - n \in 0 .. b - 1, c = n + (c - n)
  <2>2. c = (b * d) + r
    BY <1>5, <2>1
  <2>3. c % b = r
    <3>1. ((b * d) + r) % b = r
      BY RestOf
    <3> QED BY ONLY <2>2, <3>1, Zenon
  <2>4. c - (c % b) = n
    BY <1>3, <2>1, <2>3
  <2> QED BY <1>2, <2>4
<1>7. ASSUME NEW x \in Heads PROVE x <= n /\ x \in Nat
  <2>1. PICK k \in 0 .. Bits : x = c - (c % Bit[k])
    OBVIOUS
  <2>2. PICK e \in Nat \ {0} : e = Bit[k]
    BY BitType
  <2>3. PICK q \in Nat, t \in 0 .. e - 1 : c = (e * q) + t /\ t = c % e
    BY <1>3, <2>2, DivRest
  <2>4. x = e * q /\ x \in Nat /\ x <= c
    <3>1. x = c - t
      BY <2>1, <2>2, <2>3
    <3>2. PICK z \in Nat : z = e * q /\ c = z + t
      BY <2>2, <2>3
    <3>3. c - t = z /\ z <= c
      BY <1>3, <3>2
    <3> QED BY <3>1, <3>2, <3>3
  <2>5. x % e = 0
    BY <2>2, <2>4, Divides
  <2>6. CASE i <= k
    <3>1. e % b = 0
      BY <1>2, <2>2, <2>6, BitOrder
    <3>2. x % b = 0
      <4>1. x = q * e
        BY <2>2, <2>3, <2>4
      <4> QED BY <1>2, <2>2, <2>3, <3>1, <4>1, DividesProduct
    <3>3. PICK y \in Nat : x = b * y
      BY <1>2, <2>4, <3>2, Divides
    <3>4. y * b < (d + 1) * b
      <4>1. (d + 1) * b = n + b /\ y * b = x
        BY <1>2, <1>5, <3>3
      <4> QED BY <1>2, <1>3, <2>4, <4>1
    <3>5. y < d + 1
      BY <1>2, <1>5, <3>4, ProductOrder, d + 1 \in Nat
    <3>6. b * y <= b * d
      BY <1>2, <1>5, <3>3, <3>5
    <3> QED BY <1>5, <2>4, <3>3, <3>6
  <2>7. CASE k < i
    <3>1. b % e = 0
      BY <1>2, <2>2, <2>7, BitOrder
    <3>2. n % e = 0
      <4>1. n = d * b
        BY <1>2, <1>5
      <4> QED BY <1>2, <1>5, <2>2, <3>1, <4>1, DividesProduct
    <3>3. PICK y \in Nat : n = e * y
      BY <1>3, <2>2, <3>2, Divides
    <3>4. n <= x
      <4>1. y * e < (q + 1) * e
        <5>1. (q + 1) * e = x + e /\ y * e = n
          BY <2>2, <2>4, <3>3
        <5> QED BY <1>3, <2>2, <2>3, <2>4, <5>1
      <4>2. y < q + 1
        BY <2>2, <2>3, <3>3, <4>1, ProductOrder, q + 1 \in Nat
      <4>3. e * y <= e * q
        BY <2>2, <2>3, <3>3, <4>2
      <4> QED BY <2>4, <3>3, <4>3
    <3>5. x \in n .. n + b - 1
      BY <1>3, <2>4, <3>4
    <3>6. x = n
      BY <1>4, <3>5
    <3> QED BY <1>3, <3>6
  <2> QED BY <2>6, <2>7
<1>8. HeadOf(c) = CHOOSE m \in Heads : \A x \in Heads : x <= m
  BY DEF HeadOf
<1>9. \A m \in Heads : (\A x \in Heads : x <= m) <=> m = n
  <2> SUFFICES ASSUME NEW m \in Heads PROVE (\A x \in Heads : x <= m) <=> m = n
    OBVIOUS
  <2>1. m \in Nat /\ m <= n
    BY <1>7
  <2>2. ASSUME \A x \in Heads : x <= m PROVE m = n
    <3>1. n <= m
      BY <1>6, <2>2
    <3> QED BY <1>3, <2>1, <3>1
  <2>3. \A x \in Heads : x <= n
    BY <1>7
  <2> QED BY <2>2, <2>3
<1> HIDE DEF Heads
<1> QED BY <1>6, <1>8, <1>9

\* From any page at all it gets to a page.
LEMMA HeadOfFrame ==
    ASSUME KmallocInv, NEW c \in Frame
    PROVE  HeadOf(c) \in Frame
<1> DEFINE Heads == {m \in {c - (c % Bit[k]) : k \in 0 .. Bits} : flags[m] # "tails"}
           Below == {t \in 0 .. c : c - t \in Heads}
<1>0. Pages \in Nat /\ Bits \in 0 .. Bits /\ Pages <= Bit[Bits] /\ c \in Nat /\ c < Pages
      /\ Bit[Bits] \in Nat \ {0}
  BY Units, BitType DEF Frame
<1>1. 0 \in Heads
  <2>1. c % Bit[Bits] = c
    BY <1>0
  <2>2. c - (c % Bit[Bits]) = 0 /\ flags[0] # "tails"
    BY <1>0, <2>1 DEF KmallocInv
  <2> QED BY <1>0, <2>2
<1>2. ASSUME NEW x \in Heads PROVE x \in 0 .. c
  <2>1. PICK k \in 0 .. Bits : x = c - (c % Bit[k])
    OBVIOUS
  <2>2. PICK e \in Nat \ {0} : e = Bit[k]
    BY BitType
  <2>3. c % e \in 0 .. c
    BY <1>0, <2>2
  <2> QED BY <1>0, <2>1, <2>2, <2>3
<1>3. HeadOf(c) = CHOOSE m \in Heads : \A x \in Heads : x <= m
  BY DEF HeadOf
<1> HIDE DEF Heads
<1>4. c \in Below
  BY <1>0, <1>1
<1>5. PICK t \in Below : \A u \in Below : t <= u
  BY <1>0, <1>4, LeastNumber, Below \in SUBSET Nat
<1>6. c - t \in Heads /\ \A x \in Heads : x <= c - t
  <2>1. c - t \in Heads /\ t \in 0 .. c
    BY <1>5
  <2>2. ASSUME NEW x \in Heads PROVE x <= c - t
    <3>1. x \in 0 .. c
      BY <1>2
    <3>2. c - x \in Below
      BY <1>0, <3>1, c - (c - x) = x
    <3>3. t <= c - x
      BY <1>5, <3>2
    <3> QED BY <1>0, <2>1, <3>1, <3>3
  <2> QED BY <2>1, <2>2
<1>7. HeadOf(c) \in Heads
  BY <1>3, <1>6
<1> QED BY <1>0, <1>2, <1>7 DEF Frame

\* Where the object of a small grant is.
LEMMA ObjectInside ==
    ASSUME KmallocInv, NEW g \in Small, NEW n, ObjectOf(g, n)
    PROVE  /\ n \in Nat /\ n \in Kernel .. Pages - 1 /\ flags[n] = "slab"
           /\ owner[n] = Index(g.size) /\ owner[n] \in 0 .. Slubs - 1
           /\ g.ptr \in Places(n, owner[n])
           /\ g.size \in 1 .. object_size(owner[n]) /\ g.ptr \in Nat
           /\ \A a \in Bytes(g) : a \in Nat /\ a \div PageSize \in Cells(n, owner[n])
           /\ g.ptr \div PageSize \in Cells(n, owner[n])
<1>1. n \in Nat /\ n \in Kernel .. Pages - 1 /\ flags[n] = "slab" /\ owner[n] = Index(g.size)
      /\ g.ptr \in Places(n, owner[n])
  BY Units DEF ObjectOf
<1>2. g.size \in 1 .. object_size(Slubs - 1)
  <2>1. g \in live /\ g.size \in Nat /\ g.size <= object_size(Slubs - 1) /\ g.size # 0
    BY KmallocAssumption DEF KmallocInv, KmallocTypeOK, ObjectsPlaced, Small
  <2>2. object_size(Slubs - 1) \in Nat
    BY ClassSizes, Units, Slubs - 1 \in 0 .. Slubs - 1
  <2> QED BY <2>1, <2>2
<1>3. owner[n] \in 0 .. Slubs - 1 /\ g.size <= object_size(owner[n])
  BY <1>1, <1>2, IndexIs
<1>4. PICK o \in Nat \ {0} : o = object_size(owner[n])
  BY <1>3, ClassSizes
<1>5. \A a \in g.ptr .. g.ptr + o - 1 :
         g.ptr \in Nat /\ a \in Nat /\ a \div PageSize \in Cells(n, owner[n])
  BY <1>1, <1>3, <1>4, PlaceInside
<1>6. g.ptr \in Int
  <2>1. PICK j \in 0 .. Objects - 1 : g.ptr = n * PageSize + j * o
    BY <1>1, <1>3, <1>4, PlacesAre
  <2> QED BY <1>1, <1>4, <2>1, Units
<1>7. g.ptr \in g.ptr .. g.ptr + o - 1
  BY <1>4, <1>6
<1>8. \A a \in Bytes(g) : a \in g.ptr .. g.ptr + o - 1
  BY <1>2, <1>3, <1>4, <1>6 DEF Bytes
<1> QED BY <1>1, <1>2, <1>3, <1>4, <1>5, <1>7, <1>8

\* Two places of a slab are an object's size apart.
LEMMA PlacesApart ==
    ASSUME NEW n \in Nat, NEW i \in 0 .. Slubs - 1, NEW p \in Places(n, i), NEW q \in Places(n, i),
           p < q
    PROVE  p + object_size(i) <= q
<1>0. PageSize \in Nat \ {0} /\ Objects \in Nat \ {0} /\ object_size(i) \in Nat \ {0}
  BY Units, ClassSizes
<1>1. PICK o \in Nat \ {0} : o = object_size(i)
  BY <1>0
<1>2. PICK j \in 0 .. Objects - 1, k \in 0 .. Objects - 1 :
         p = n * PageSize + j * o /\ q = n * PageSize + k * o
  BY <1>1, PlacesAre
<1>3. PICK x \in Nat, y \in Nat, z \in Nat : x = n * PageSize /\ y = j * o /\ z = k * o
  <2>1. n * PageSize \in Nat /\ j * o \in Nat /\ k * o \in Nat
    BY <1>0, <1>1
  <2> QED BY <2>1
<1>4. p = x + y /\ q = x + z /\ y < z
  BY <1>2, <1>3
<1>5. j < k
  BY <1>0, <1>1, <1>3, <1>4, ProductOrder
<1>6. y + o <= z
  BY <1>0, <1>1, <1>3, <1>5, ProductStep
<1> QED BY <1>1, <1>3, <1>4, <1>6

\* The invariant says where each object is and how kfree finds it.
LEMMA KmallocInvSound == KmallocInv => KmallocSound
<1> SUFFICES ASSUME KmallocInv PROVE KmallocSound
  OBVIOUS
<1>1. ASSUME NEW g \in Small, NEW a \in Bytes(g)
      PROVE  \E n \in Kernel .. Pages - 1 :
                flags[n] = "slab" /\ a \div PageSize \in Cells(n, SlabOrder(owner[n]))
  <2>1. PICK n \in Kernel .. Pages - 1 : ObjectOf(g, n)
    BY DEF KmallocInv, ObjectsPlaced
  <2>2. /\ flags[n] = "slab" /\ owner[n] \in 0 .. Slubs - 1
        /\ a \div PageSize \in Cells(n, owner[n])
    BY <1>1, <2>1, ObjectInside
  <2>3. SlabOrder(owner[n]) = owner[n]
    BY <2>2, SlabOrderIs
  <2> QED BY <2>2, <2>3
<1>2. ASSUME NEW g \in Small, NEW h \in Small, g # h, NEW a \in Bytes(g), a \in Bytes(h)
      PROVE  FALSE
  <2>1. PICK n \in Kernel .. Pages - 1 : ObjectOf(g, n)
    BY DEF KmallocInv, ObjectsPlaced
  <2>2. PICK k \in Kernel .. Pages - 1 : ObjectOf(h, k)
    BY DEF KmallocInv, ObjectsPlaced
  <2>3. /\ n \in Nat /\ flags[n] = "slab" /\ owner[n] \in 0 .. Slubs - 1
        /\ g.ptr \in Places(n, owner[n]) /\ g.size \in 1 .. object_size(owner[n]) /\ g.ptr \in Nat
        /\ a \in Nat /\ a \div PageSize \in Cells(n, owner[n])
    BY <1>2, <2>1, ObjectInside
  <2>4. /\ flags[k] = "slab" /\ owner[k] \in 0 .. Slubs - 1
        /\ h.ptr \in Places(k, owner[k]) /\ h.size \in 1 .. object_size(owner[k]) /\ h.ptr \in Nat
        /\ a \div PageSize \in Cells(k, owner[k])
    BY <1>2, <2>2, ObjectInside
  <2>5. n = k
    BY <2>3, <2>4, SlabsDisjoint
  <2>6. g.ptr # h.ptr
    BY <1>2 DEF KmallocInv, ObjectsApart
  <2>7. PICK o \in Nat \ {0} : o = object_size(owner[n])
    BY <2>3, ClassSizes
  <2>8. g.ptr + o <= h.ptr \/ h.ptr + o <= g.ptr
    <3>1. g.ptr < h.ptr \/ h.ptr < g.ptr
      BY <2>3, <2>4, <2>6
    <3>2. h.ptr \in Places(n, owner[n])
      BY <2>4, <2>5
    <3> QED BY <2>3, <2>7, <3>1, <3>2, PlacesApart
  <2>9. g.size <= o /\ h.size <= o /\ g.size \in Nat /\ h.size \in Nat
    BY <2>3, <2>4, <2>5, <2>7
  <2>10. a >= g.ptr /\ a <= g.ptr + g.size - 1 /\ a >= h.ptr /\ a <= h.ptr + h.size - 1
    BY <1>2, <2>3, <2>4, <2>9 DEF Bytes
  <2> QED BY ONLY <2>3, <2>4, <2>7, <2>8, <2>9, <2>10
<1>3. ObjectsHold
  BY <1>1, <1>2 DEF ObjectsHold
<1>4. ASSUME NEW g \in Small
      PROVE  LET n == HeadOf(g.ptr \div PageSize)
             IN  /\ n >= Kernel /\ flags[n] = "slab" /\ owner[n] = Index(g.size)
                 /\ g.ptr \in Places(n, owner[n])
  <2>1. PICK n \in Kernel .. Pages - 1 : ObjectOf(g, n)
    BY DEF KmallocInv, ObjectsPlaced
  <2>2. /\ flags[n] = "slab" /\ owner[n] = Index(g.size) /\ g.ptr \in Places(n, owner[n])
        /\ g.ptr \div PageSize \in Cells(n, owner[n]) /\ n \in Nat
    BY <1>4, <2>1, ObjectInside
  <2>3. HeadOf(g.ptr \div PageSize) = n
    BY <2>2, HeadOfSlab
  <2>4. n >= Kernel
    BY Units
  <2> QED BY <2>2, <2>3, <2>4
<1>5. KfreeFindsSlab
  BY <1>4 DEF KfreeFindsSlab
<1> QED BY <1>3, <1>5 DEF KmallocSound

\* The descriptors are in the pages of their table.
LEMMA DescriptorIn ==
    ASSUME NEW n \in Frame
    PROVE  Descriptor(n) \in Address /\ Descriptor(n) < Kernel * PageSize /\ Descriptor(n) \in Nat
<1>0. PdBase \in Nat /\ PdSize \in Nat \ {0} /\ TablePages \subseteq 1 .. Kernel - 1
  <2>1. {PageSize, Slubs, Objects, Pages, Kernel, PdSize, MaxLive} \subseteq Nat \ {0}
    BY KmallocAssumption, Zenon
  <2>2. PdSize \in Nat \ {0}
    BY <2>1, Zenon
  <2> QED BY <2>2, KmallocAssumption, Zenon
<1>1. /\ PageSize \in Nat \ {0} /\ Pages \in Nat \ {0} /\ Kernel \in 1 .. Pages - 1 /\ n \in Nat
      /\ n < Pages
  BY Units DEF Frame
<1>2. PICK x \in Nat, z \in Nat : x = n * PdSize /\ z = Pages * PdSize /\ x < z
  <2>1. n * PdSize + PdSize <= Pages * PdSize
    BY <1>0, <1>1, ProductStep
  <2>2. n * PdSize \in Nat /\ Pages * PdSize \in Nat
    BY <1>0, <1>1
  <2> QED BY <1>0, <2>1, <2>2
<1>3. PICK d \in Nat : d = Descriptor(n) /\ d = PdBase + x
  BY <1>0, <1>2 DEF Descriptor
<1>4. d \in Descriptor(0) .. Descriptor(Pages) - 1
  <2>1. Descriptor(0) = PdBase /\ Descriptor(Pages) = PdBase + z
    BY <1>0, <1>2 DEF Descriptor
  <2> QED BY <1>0, <1>2, <1>3, <2>1
<1>5. d \div PageSize \in 1 .. Kernel - 1
  BY <1>0, <1>4 DEF TablePages
<1>6. PICK q \in Nat : q = d \div PageSize /\ d < (q + 1) * PageSize /\ q + 1 <= Kernel
  BY <1>1, <1>3, <1>5
<1>7. (q + 1) * PageSize <= Kernel * PageSize /\ Kernel * PageSize <= Pages * PageSize
      /\ (q + 1) * PageSize \in Nat /\ Kernel * PageSize \in Nat /\ Pages * PageSize \in Nat
  BY <1>1, <1>6
<1>8. d < Kernel * PageSize /\ d < Pages * PageSize
  BY <1>6, <1>7
<1> QED BY <1>3, <1>7, <1>8 DEF Address

-----------------------------------------------------------------------------
\* There is no slab and no object at first.
LEMMA KmallocInitInv == KmallocInit => KmallocInv
<1> SUFFICES ASSUME KmallocInit PROVE KmallocInv
  OBVIOUS
<1>0. TablePages \subseteq 1 .. Kernel - 1 /\ Kernel \in 1 .. Pages - 1 /\ Slubs \in Nat \ {0}
      /\ Pages \in Nat
  <2>1. TablePages \subseteq 1 .. Kernel - 1
    BY KmallocAssumption, Zenon
  <2> QED BY <2>1, Units
<1>1. PICK raw \in [TablePages -> Raw] :
         flags = [n \in Frame |-> IF n \in TablePages THEN raw[n]
                                 ELSE IF n < Kernel THEN "kernel" ELSE "free"]
  BY Zenon DEF KmallocInit
<1>2. owner = [n \in Frame |-> 0] /\ live = {} /\ state = "run"
  BY Zenon DEF KmallocInit
<1>3. flags \in [Frame -> Raw \union {"free", "kernel", "slab", "tails"}]
  BY <1>1
<1>4. owner \in [Frame -> 0 .. Slubs - 1]
  BY <1>0, <1>2
<1>5. flags[0] = "kernel"
  BY <1>0, <1>1 DEF Frame
<1>6. \A n \in Kernel .. Pages - 1 : flags[n] = "free"
  BY <1>0, <1>1 DEF Frame
<1>7. SlabsWhole
  BY <1>6 DEF SlabsWhole
<1>8. Small = {}
  BY <1>2 DEF Small
<1> QED
  BY <1>2, <1>3, <1>4, <1>5, <1>7, <1>8 DEF KmallocInv, KmallocTypeOK, ObjectsPlaced, ObjectsApart

\* What a block of free pages, marked, is to what was there before.
Marks(n, k, type) ==
    /\ n \in Kernel .. Pages - 1 /\ k \in 0 .. MaxOrder /\ n % Bit[k] = 0 /\ n + Bit[k] <= Pages
    /\ n \in Nat /\ n \in Cells(n, k) /\ Cells(n, k) \subseteq Frame
    /\ \A m \in Cells(n, k) : flags[m] = "free"
    /\ flags' \in [Frame -> Raw \union {"free", "kernel", "slab", "tails"}]
    /\ flags'[n] = type /\ \A m \in Cells(n, k) \ {n} : flags'[m] = "tails"
    /\ \A m \in Frame \ Cells(n, k) : flags'[m] = flags[m]
    /\ flags'[0] = "kernel"
    /\ \A m \in Kernel .. Pages - 1 : flags[m] = "slab" =>
          /\ flags'[m] = "slab" /\ m \notin Cells(n, k)
          /\ \A c \in Cells(m, owner[m]) \ {m} : flags'[c] = "tails"

\* mark_pages of what alloc_pages found.
LEMMA Marked ==
    ASSUME KmallocInv, NEW k \in 0 .. 255, NEW n \in alloc_pages(k),
           NEW type \in {"kernel", "slab"}, flags' = MarkPages(n, k, type)
    PROVE  Marks(n, k, type)
<1>0. Kernel \in 1 .. Pages - 1 /\ Pages \in Nat /\ Slubs \in Nat \ {0} /\ MaxOrder \in 0 .. Bits
      /\ Slubs - 1 \in 0 .. Bits
  BY Units
<1>1. /\ n \in Kernel .. Pages - 1 /\ k \in 0 .. MaxOrder /\ n % Bit[k] = 0 /\ n + Bit[k] <= Pages
      /\ \A m \in Cells(n, k) : flags[m] = "free"
  BY <1>0 DEF alloc_pages
<1>2. Bit[k] \in Nat \ {0} /\ n \in Nat
  <2>1. Bits \in Nat /\ k \in 0 .. Bits /\ n \in Nat
    BY <1>0, <1>1, Units
  <2> QED BY <2>1, BitType
<1>3. n \in Cells(n, k) /\ Cells(n, k) \subseteq Frame /\ 0 \notin Cells(n, k) /\ 0 \in Frame
  BY <1>0, <1>1, <1>2 DEF Cells, Frame
<1>4. flags' = [m \in Frame |-> IF m = n THEN type
                               ELSE IF m \in Cells(n, k) THEN "tails" ELSE flags[m]]
  BY DEF MarkPages
<1>5. flags \in [Frame -> Raw \union {"free", "kernel", "slab", "tails"}] /\ flags[0] = "kernel"
  BY DEF KmallocInv, KmallocTypeOK
<1>6. flags' \in [Frame -> Raw \union {"free", "kernel", "slab", "tails"}]
  BY <1>4, <1>5
<1>7. /\ flags'[n] = type /\ \A m \in Cells(n, k) \ {n} : flags'[m] = "tails"
      /\ \A m \in Frame \ Cells(n, k) : flags'[m] = flags[m]
  BY <1>3, <1>4
<1>8. flags'[0] = "kernel"
  BY <1>3, <1>5, <1>7
<1>9. ASSUME NEW m \in Kernel .. Pages - 1, flags[m] = "slab"
      PROVE  /\ flags'[m] = "slab" /\ m \notin Cells(n, k)
             /\ \A c \in Cells(m, owner[m]) \ {m} : flags'[c] = "tails"
  <2>1. m \in Frame /\ m \notin Cells(n, k)
    BY <1>0, <1>1, <1>9 DEF Frame
  <2>2. owner[m] \in 0 .. Slubs - 1
    BY <2>1 DEF KmallocInv, KmallocTypeOK
  <2>3. Bit[owner[m]] \in Nat \ {0}
    <3>1. owner[m] \in 0 .. Bits
      BY <1>0, <2>2, Units
    <3> QED BY <3>1, BitType
  <2>4. m + Bit[owner[m]] <= Pages /\ \A c \in Cells(m, owner[m]) \ {m} : flags[c] = "tails"
    BY <1>9 DEF KmallocInv, SlabsWhole
  <2>5. Cells(m, owner[m]) \subseteq Frame
    BY <1>0, <2>3, <2>4 DEF Cells, Frame
  <2>6. \A c \in Cells(m, owner[m]) \ {m} : c \in Frame \ Cells(n, k)
    BY <1>1, <2>4, <2>5
  <2> QED BY <1>7, <1>9, <2>1, <2>4, <2>6
<1> QED BY <1>1, <1>2, <1>3, <1>6, <1>7, <1>8, <1>9 DEF Marks

\* An order has eight bits.
LEMMA OrderIs ==
    ASSUME NEW size \in 1 .. Largest
    PROVE  calculOrder(size) \in 0 .. 255
<1>0. Bits \in 1 .. 256 /\ PageSize \in Nat \ {0} /\ Bits \in 0 .. Bits /\ Bit[Bits] \in Nat
  BY Units, BitType
<1>1. Largest < Bit[Bits] /\ Largest \in Nat
  <2>1. Largest < Bit[Bits]
    BY KmallocAssumption, Zenon
  <2>2. Bit[MaxOrder] \in Nat
    BY Units, BitType
  <2> QED BY <1>0, <2>1, <2>2 DEF Largest
<1>2. ilog2(size) \in 0 .. Bits - 1
  BY <1>0, <1>1, Ilog2Is
<1>3. PICK s \in 1 .. Bits : s + Slubs + MaxOrder <= Bits - 1 /\ PageSize = Bit[s + Slubs]
  BY ClassSizes
<1>4. ilog2(PageSize) = s + Slubs /\ s + Slubs \in Nat
  BY <1>3, Units, Ilog2OfBit, s + Slubs \in 0 .. Bits - 1
<1>5. PICK x \in Int : x = ilog2(size) - ilog2(PageSize)
  BY <1>0, <1>2, <1>4
<1> QED BY <1>5 DEF calculOrder

\* Pages given to a caller were no slab's.
LEMMA PagesInv ==
    ASSUME KmallocInv, NEW size \in Sizes, KmallocPages(size)
    PROVE  KmallocInv'
<1>0. object_size(Slubs - 1) \in Nat \ {0} /\ Slubs - 1 \in 0 .. Slubs - 1 /\ Slubs \in Nat \ {0}
      /\ Kernel \in 1 .. Pages - 1 /\ Pages \in Nat
  BY ClassSizes, Units, Slubs - 1 \in 0 .. Slubs - 1
<1>1. size \in Nat /\ object_size(Slubs - 1) < size /\ size <= Largest
  BY KmallocAssumption DEF KmallocPages
<1>2. size \in 1 .. Largest
  <2>1. Bit[MaxOrder] \in Nat /\ PageSize \in Nat
    BY Units, BitType
  <2> QED BY <1>0, <1>1, <2>1 DEF Largest
<1>3. PICK k \in 0 .. 255 : k = calculOrder(size)
  BY <1>2, OrderIs
<1>4. PICK n \in alloc_pages(k) :
         flags' = MarkPages(n, k, "kernel") /\ Grant(Descriptor(n), size)
  BY <1>3, Zenon DEF KmallocPages
<1>5. owner' = owner /\ state' = state
  BY Zenon DEF KmallocPages
<1>6. /\ n \in Kernel .. Pages - 1 /\ flags'[n] = "kernel" /\ n \in Frame
      /\ flags' \in [Frame -> Raw \union {"free", "kernel", "slab", "tails"}]
      /\ \A m \in Cells(n, k) \ {n} : flags'[m] = "tails"
      /\ \A m \in Frame \ Cells(n, k) : flags'[m] = flags[m]
      /\ flags'[0] = "kernel"
      /\ \A m \in Kernel .. Pages - 1 : flags[m] = "slab" =>
            /\ flags'[m] = "slab"
            /\ \A c \in Cells(m, owner[m]) \ {m} : flags'[c] = "tails"
  <2>1. "kernel" \in {"kernel", "slab"} /\ flags' = MarkPages(n, k, "kernel")
    BY <1>4
  <2>2. Marks(n, k, "kernel")
    BY <2>1, Marked
  <2> QED BY <2>2 DEF Marks
<1>7. KmallocTypeOK'
  <2>1. Descriptor(n) \in Address
    BY <1>6, DescriptorIn
  <2>2. live' \subseteq [ptr : Address, size : Sizes]
    BY <1>4, <2>1 DEF KmallocInv, KmallocTypeOK, Grant
  <2> QED BY <1>5, <1>6, <2>2 DEF KmallocInv, KmallocTypeOK
<1>8. SlabsWhole'
  <2> SUFFICES ASSUME NEW m \in Kernel .. Pages - 1, flags'[m] = "slab"
               PROVE  /\ m % Bit[owner[m]] = 0 /\ m + Bit[owner[m]] <= Pages
                      /\ \A c \in Cells(m, owner[m]) \ {m} : flags'[c] = "tails"
    BY <1>5 DEF SlabsWhole, Cells
  <2>1. flags[m] = "slab"
    <3>1. m # n /\ m \in Frame
      BY <1>0, <1>6 DEF Frame
    <3>2. m \notin Cells(n, k)
      BY <1>6, <3>1
    <3> QED BY <1>6, <3>1, <3>2
  <2>2. m % Bit[owner[m]] = 0 /\ m + Bit[owner[m]] <= Pages
    BY <2>1 DEF KmallocInv, SlabsWhole
  <2> QED BY <1>6, <2>1, <2>2
<1>9. Small' = Small
  BY <1>0, <1>1, <1>4 DEF Small, Grant
<1>10. ASSUME NEW g \in Small PROVE g.size # 0 /\ \E m \in Kernel .. Pages - 1 : ObjectOf(g, m)'
  <2>1. PICK m \in Kernel .. Pages - 1 : ObjectOf(g, m)
    BY <1>10 DEF KmallocInv, ObjectsPlaced
  <2>2. g.size # 0
    BY <1>10 DEF KmallocInv, ObjectsPlaced
  <2>3. ObjectOf(g, m)'
    BY <1>5, <1>6, <2>1 DEF ObjectOf
  <2> QED BY <2>2, <2>3
<1>11. ObjectsPlaced'
  BY <1>9, <1>10 DEF ObjectsPlaced
<1>12. ObjectsApart'
  BY <1>9 DEF ObjectsApart, KmallocInv
<1> QED BY <1>6, <1>7, <1>8, <1>11, <1>12 DEF KmallocInv

\* Of an object that was given out: it is what nobody has, of its class.
LEMMA ObjectGranted ==
    ASSUME KmallocInv, NEW size \in Sizes, size \in 1 .. object_size(Slubs - 1),
           NEW p, \A g \in Small : g.ptr # p, Grant(p, size)
    PROVE  /\ Small' = Small \union {[ptr |-> p, size |-> size]}
           /\ ObjectsApart'
           /\ p \in Address => live' \subseteq [ptr : Address, size : Sizes]
<1> DEFINE new == [ptr |-> p, size |-> size]
<1>1. live' = live \union {new}
  BY DEF Grant
<1>2. size <= object_size(Slubs - 1)
  BY ClassSizes, Units, Slubs - 1 \in 0 .. Slubs - 1
<1>3. Small' = Small \union {new}
  BY <1>1, <1>2 DEF Small
<1>5. \A g, h \in Small \union {new} : g.ptr = h.ptr => g = h
  <2>1. new.ptr = p
    OBVIOUS
  <2>2. \A g, h \in Small : g.ptr = h.ptr => g = h
    BY DEF KmallocInv, ObjectsApart
  <2> HIDE DEF new
  <2> QED BY <2>1, <2>2
<1>6. ObjectsApart'
  BY <1>3, <1>5 DEF ObjectsApart
<1>7. p \in Address => live' \subseteq [ptr : Address, size : Sizes]
  BY <1>1 DEF KmallocInv, KmallocTypeOK
<1> QED BY <1>3, <1>6, <1>7

\* A place of a slab is an address.
LEMMA PlaceAddress ==
    ASSUME NEW n \in Nat, NEW i \in 0 .. Slubs - 1, NEW p \in Places(n, i), n + Bit[i] <= Pages
    PROVE  p \in Address /\ p \div PageSize \in Cells(n, i)
<1>1. PICK o \in Nat \ {0} : o = object_size(i)
  BY ClassSizes
<1>2. PICK j \in 0 .. Objects - 1 : p = n * PageSize + j * o
  BY <1>1, PlacesAre
<1>3. p \in Int
  <2>1. PageSize \in Nat /\ j \in Int
    BY Units
  <2> QED BY <1>1, <1>2, <2>1
<1>4. p \in p .. p + o - 1
  BY <1>1, <1>3
<1>5. /\ p \in Nat /\ p \div PageSize \in Cells(n, i)
      /\ \A m \in Nat : n + Bit[i] <= m => p < m * PageSize
  BY <1>1, <1>4, PlaceInside
<1>6. p < Pages * PageSize /\ Pages * PageSize \in Nat
  BY <1>5, Units
<1> QED BY <1>5, <1>6 DEF Address

\* An object of a slab that is there.
LEMMA ObjectInv ==
    ASSUME KmallocInv, NEW size \in Sizes, KmallocObject(size)
    PROVE  KmallocInv'
<1>0. size \in 1 .. object_size(Slubs - 1) /\ flags' = flags /\ owner' = owner /\ state' = state
  BY Zenon DEF KmallocObject
<1>1. PICK p \in Unused(Index(size)) : Grant(p, size)
  BY Zenon DEF KmallocObject
<1>2. \A g \in Small : g.ptr # p
  <2>1. p \notin Pointers
    BY DEF Unused
  <2> QED BY <2>1 DEF Small, Pointers
<1>3. PICK n \in Slabs(Index(size)) : p \in Places(n, Index(size))
  BY DEF Unused
<1>4. n \in Kernel .. Pages - 1 /\ flags[n] = "slab" /\ owner[n] = Index(size)
  BY DEF Slabs
<1>5. Index(size) \in 0 .. Slubs - 1
  BY <1>0, IndexIs
<1>6. p \in Address
  <2>1. n \in Nat /\ n + Bit[owner[n]] <= Pages
    BY <1>4, Units DEF KmallocInv, SlabsWhole
  <2> QED BY <1>3, <1>4, <1>5, <2>1, PlaceAddress
<1>7. /\ Small' = Small \union {[ptr |-> p, size |-> size]} /\ ObjectsApart'
      /\ live' \subseteq [ptr : Address, size : Sizes]
  BY <1>0, <1>1, <1>2, <1>6, ObjectGranted
<1>8. KmallocTypeOK' /\ flags'[0] = "kernel"
  BY <1>0, <1>7 DEF KmallocInv, KmallocTypeOK
<1>9. SlabsWhole'
  BY <1>0 DEF KmallocInv, SlabsWhole, Cells
<1>10. ASSUME NEW g \in Small' PROVE g.size # 0 /\ \E m \in Kernel .. Pages - 1 : ObjectOf(g, m)'
  <2>1. CASE g \in Small
    BY <1>0, <2>1 DEF KmallocInv, ObjectsPlaced, ObjectOf
  <2>2. CASE g = [ptr |-> p, size |-> size]
    <3>1. g.ptr = p /\ g.size = size
      BY <2>2
    <3>2. ObjectOf(g, n)'
      BY <1>0, <1>3, <1>4, <3>1 DEF ObjectOf
    <3> QED BY <1>0, <1>4, <3>1, <3>2
  <2> QED BY <1>7, <2>1, <2>2
<1>11. ObjectsPlaced'
  BY <1>10 DEF ObjectsPlaced
<1> QED BY <1>7, <1>8, <1>9, <1>11 DEF KmallocInv

\* An object of a new slab, whose pages nobody had.
LEMMA SlabInv ==
    ASSUME KmallocInv, NEW size \in Sizes, KmallocSlab(size)
    PROVE  KmallocInv'
<1>0. size \in 1 .. object_size(Slubs - 1) /\ state' = state
  BY Zenon DEF KmallocSlab
<1>1. PICK i \in 0 .. Slubs - 1 : i = Index(size)
  BY <1>0, IndexIs
<1>2. SlabOrder(i) = i /\ i \in 0 .. 255 /\ i \in 0 .. Bits
  <2>1. Slubs \in Nat /\ Slubs - 1 <= Bits /\ Bits <= 256 /\ Bits \in Nat
    BY Units
  <2>2. PICK s \in 1 .. Bits : s + Slubs + MaxOrder <= Bits - 1
    BY ClassSizes
  <2>3. i <= 255
    BY <2>1, <2>2, Units
  <2> QED BY <2>1, <2>3, SlabOrderIs
<1>3. PICK n \in alloc_pages(i) :
         /\ flags' = MarkPages(n, i, "slab") /\ owner' = [owner EXCEPT ![n] = i]
         /\ \E p \in Places(n, i) : Grant(p, size)
  BY <1>1, <1>2, Zenon DEF KmallocSlab
<1>4. PICK p \in Places(n, i) : Grant(p, size)
  BY <1>3, Zenon
<1>5. /\ n \in Kernel .. Pages - 1 /\ n % Bit[i] = 0 /\ n + Bit[i] <= Pages
      /\ n \in Nat /\ n \in Cells(n, i) /\ Cells(n, i) \subseteq Frame
      /\ \A m \in Cells(n, i) : flags[m] = "free"
      /\ flags' \in [Frame -> Raw \union {"free", "kernel", "slab", "tails"}]
      /\ flags'[n] = "slab" /\ \A m \in Cells(n, i) \ {n} : flags'[m] = "tails"
      /\ \A m \in Frame \ Cells(n, i) : flags'[m] = flags[m]
      /\ flags'[0] = "kernel"
      /\ \A m \in Kernel .. Pages - 1 : flags[m] = "slab" =>
            /\ flags'[m] = "slab" /\ m \notin Cells(n, i)
            /\ \A c \in Cells(m, owner[m]) \ {m} : flags'[c] = "tails"
  <2>1. "slab" \in {"kernel", "slab"} /\ flags' = MarkPages(n, i, "slab")
    BY <1>3
  <2>2. Marks(n, i, "slab")
    BY <1>2, <2>1, Marked
  <2> QED BY <2>2 DEF Marks
<1>6. /\ owner' \in [Frame -> 0 .. Slubs - 1] /\ owner'[n] = i
      /\ \A m \in Frame \ {n} : owner'[m] = owner[m]
  BY <1>3, <1>5 DEF KmallocInv, KmallocTypeOK
<1>7. p \in Address /\ p \div PageSize \in Cells(n, i)
  BY <1>5, PlaceAddress
<1>8. ASSUME NEW g \in Small PROVE g.ptr # p
  <2> SUFFICES ASSUME g.ptr = p PROVE FALSE
    OBVIOUS
  <2>1. PICK m \in Kernel .. Pages - 1 : ObjectOf(g, m)
    BY DEF KmallocInv, ObjectsPlaced
  <2>2. p \div PageSize \in Cells(m, owner[m]) /\ flags[m] = "slab"
    BY <2>1, ObjectInside
  <2>3. \A c \in Cells(m, owner[m]) : flags[c] \in {"slab", "tails"}
    BY <2>2 DEF KmallocInv, SlabsWhole
  <2> QED BY <1>5, <1>7, <2>2, <2>3
<1>10. /\ Small' = Small \union {[ptr |-> p, size |-> size]} /\ ObjectsApart'
       /\ live' \subseteq [ptr : Address, size : Sizes]
  BY <1>0, <1>4, <1>7, <1>8, ObjectGranted
<1>11. KmallocTypeOK'
  BY <1>0, <1>5, <1>6, <1>10 DEF KmallocInv, KmallocTypeOK
<1>12. SlabsWhole'
  <2> SUFFICES ASSUME NEW m \in Kernel .. Pages - 1, flags'[m] = "slab"
               PROVE  /\ m % Bit[owner'[m]] = 0 /\ m + Bit[owner'[m]] <= Pages
                      /\ \A c \in Cells(m, owner'[m]) \ {m} : flags'[c] = "tails"
    BY DEF SlabsWhole, Cells
  <2>1. CASE m = n
    BY <1>5, <1>6, <2>1
  <2>2. CASE m # n
    <3>1. m \in Frame /\ owner'[m] = owner[m]
      BY <1>6, <2>2, Units DEF Frame
    <3>2. m \notin Cells(n, i)
      BY <1>5, <2>2
    <3>3. flags[m] = "slab"
      BY <1>5, <3>1, <3>2
    <3>4. m % Bit[owner[m]] = 0 /\ m + Bit[owner[m]] <= Pages
      BY <3>3 DEF KmallocInv, SlabsWhole
    <3> QED BY <1>5, <3>1, <3>3, <3>4
  <2> QED BY <2>1, <2>2
<1>13. ASSUME NEW g \in Small' PROVE g.size # 0 /\ \E m \in Kernel .. Pages - 1 : ObjectOf(g, m)'
  <2>1. CASE g \in Small
    <3>1. PICK m \in Kernel .. Pages - 1 : ObjectOf(g, m)
      BY <2>1 DEF KmallocInv, ObjectsPlaced
    <3>2. g.size # 0 /\ flags[m] = "slab" /\ m \in Frame
      BY <2>1, <3>1, Units DEF KmallocInv, ObjectsPlaced, ObjectOf, Frame
    <3>3. flags'[m] = "slab" /\ m # n
      BY <1>5, <3>2
    <3>4. owner'[m] = owner[m]
      BY <1>6, <3>2, <3>3
    <3> QED BY <3>1, <3>2, <3>3, <3>4 DEF ObjectOf
  <2>2. CASE g = [ptr |-> p, size |-> size]
    <3>1. g.ptr = p /\ g.size = size
      BY <2>2
    <3>2. ObjectOf(g, n)'
      BY <1>1, <1>4, <1>5, <1>6, <3>1 DEF ObjectOf
    <3> QED BY <1>0, <1>5, <3>1, <3>2
  <2> QED BY <1>10, <2>1, <2>2
<1>14. ObjectsPlaced'
  BY <1>13 DEF ObjectsPlaced
<1> QED BY <1>5, <1>10, <1>11, <1>12, <1>14 DEF KmallocInv

\* A slab that is given back had no other object; the other slabs stay.
LEMMA FreeInv ==
    ASSUME KmallocInv, NEW p \in Pointers, KfreeObject(p)
    PROVE  KmallocInv'
<1>1. PICK n : n = HeadOf(p \div PageSize)
  OBVIOUS
<1>2. n \in Frame
  <2>1. p \in Address
    BY DEF KmallocInv, KmallocTypeOK, Pointers
  <2>2. p \div PageSize \in Frame
    <3>1. PageSize \in Nat \ {0} /\ Pages \in Nat \ {0} /\ p \in Nat /\ p < Pages * PageSize
      BY <2>1, Units DEF Address
    <3>2. PICK q \in Nat : q = p \div PageSize /\ q * PageSize <= p
      BY <3>1
    <3>3. q * PageSize < Pages * PageSize
      BY <3>1, <3>2
    <3>4. q < Pages
      BY <3>1, <3>2, <3>3, ProductOrder
    <3> QED BY <3>1, <3>2, <3>4 DEF Frame
  <2> QED BY <1>1, <2>2, HeadOfFrame
<1>3. /\ flags[n] = "slab" /\ n >= Kernel /\ live' = {g \in live : g.ptr # p}
      /\ owner' = owner /\ state' = state
      /\ \/ flags' = flags
         \/ /\ Places(n, owner[n]) \intersect (Pointers \ {p}) = {}
            /\ flags' = [m \in Frame |-> IF m \in Cells(n, SlabOrder(owner[n])) THEN "free"
                                        ELSE flags[m]]
  BY <1>1 DEF KfreeObject
<1>4. n \in Kernel .. Pages - 1 /\ owner[n] \in 0 .. Slubs - 1
  BY <1>2, <1>3, Units DEF Frame, KmallocInv, KmallocTypeOK
<1>5. Small' = {g \in Small : g.ptr # p}
  BY <1>3 DEF Small
<1>6. ObjectsApart'
  BY <1>5 DEF KmallocInv, ObjectsApart
<1>7. live' \subseteq [ptr : Address, size : Sizes]
  BY <1>3 DEF KmallocInv, KmallocTypeOK
<1>8. CASE flags' = flags
  <2>1. KmallocTypeOK' /\ flags'[0] = "kernel" /\ SlabsWhole'
    BY <1>3, <1>7, <1>8 DEF KmallocInv, KmallocTypeOK, SlabsWhole, Cells
  <2>2. ObjectsPlaced'
    BY <1>3, <1>5, <1>8 DEF KmallocInv, ObjectsPlaced, ObjectOf
  <2> QED BY <1>6, <2>1, <2>2 DEF KmallocInv
<1>9. CASE /\ Places(n, owner[n]) \intersect (Pointers \ {p}) = {}
           /\ flags' = [m \in Frame |-> IF m \in Cells(n, SlabOrder(owner[n])) THEN "free"
                                       ELSE flags[m]]
  <2>1. flags' = [m \in Frame |-> IF m \in Cells(n, owner[n]) THEN "free" ELSE flags[m]]
    BY <1>4, <1>9, SlabOrderIs
  <2>2. flags \in [Frame -> Raw \union {"free", "kernel", "slab", "tails"}]
    BY DEF KmallocInv, KmallocTypeOK
  <2>3. flags' \in [Frame -> Raw \union {"free", "kernel", "slab", "tails"}]
    BY <2>1, <2>2
  <2>4. 0 \notin Cells(n, owner[n]) /\ 0 \in Frame
    BY <1>4, Units DEF Cells, Frame
  <2>5. flags'[0] = "kernel"
    BY <2>1, <2>4 DEF KmallocInv
  <2>6. n \in Cells(n, owner[n])
    <3>1. Bit[owner[n]] \in Nat \ {0}
      BY <1>4, Units, BitType, owner[n] \in 0 .. Bits
    <3> QED BY <1>4, <3>1, Units DEF Cells
  <2>7. ASSUME NEW m \in Kernel .. Pages - 1, flags'[m] = "slab"
        PROVE  flags[m] = "slab" /\ m # n
    <3>1. m \in Frame
      BY Units DEF Frame
    <3>2. m \notin Cells(n, owner[n])
      BY <2>1, <2>7, <3>1
    <3> QED BY <2>1, <2>6, <2>7, <3>1, <3>2
  <2>8. ASSUME NEW m \in Kernel .. Pages - 1, flags[m] = "slab", m # n
        PROVE  /\ flags'[m] = "slab"
               /\ m % Bit[owner[m]] = 0 /\ m + Bit[owner[m]] <= Pages
               /\ \A c \in Cells(m, owner[m]) \ {m} : flags'[c] = "tails"
    <3>1. /\ m % Bit[owner[m]] = 0 /\ m + Bit[owner[m]] <= Pages
          /\ \A c \in Cells(m, owner[m]) \ {m} : flags[c] = "tails"
      BY <2>8 DEF KmallocInv, SlabsWhole
    <3>2. m \in Frame /\ owner[m] \in 0 .. Slubs - 1
      BY Units DEF Frame, KmallocInv, KmallocTypeOK
    <3>3. Bit[owner[m]] \in Nat \ {0}
      BY <3>2, Units, BitType, owner[m] \in 0 .. Bits
    <3>4. m \in Cells(m, owner[m]) /\ Cells(m, owner[m]) \subseteq Frame
      BY <3>1, <3>3, Units DEF Cells, Frame
    <3>5. Cells(n, owner[n]) \intersect Cells(m, owner[m]) = {}
      BY <1>3, <1>4, <2>8, SlabsDisjoint
    <3>6. \A c \in Cells(m, owner[m]) : flags'[c] = flags[c]
      BY <2>1, <3>4, <3>5
    <3> QED BY <2>8, <3>1, <3>4, <3>6
  <2>9. SlabsWhole'
    BY <1>3, <2>7, <2>8 DEF SlabsWhole, Cells
  <2>10. ASSUME NEW g \in Small'
         PROVE  g.size # 0 /\ \E m \in Kernel .. Pages - 1 : ObjectOf(g, m)'
    <3>1. g \in Small /\ g.ptr # p
      BY <1>5
    <3>2. PICK m \in Kernel .. Pages - 1 : ObjectOf(g, m)
      BY <3>1 DEF KmallocInv, ObjectsPlaced
    <3>3. m # n
      <4>1. g.ptr \in Pointers \ {p}
        BY <3>1 DEF Pointers, Small
      <4> QED BY <1>9, <3>2, <4>1 DEF ObjectOf
    <3>4. flags'[m] = "slab"
      BY <2>8, <3>2, <3>3 DEF ObjectOf
    <3>5. g.size # 0
      BY <3>1 DEF KmallocInv, ObjectsPlaced
    <3> QED BY <1>3, <3>2, <3>4, <3>5 DEF ObjectOf
  <2>11. ObjectsPlaced'
    BY <2>10 DEF ObjectsPlaced
  <2>12. KmallocTypeOK'
    BY <1>3, <1>7, <2>3 DEF KmallocInv, KmallocTypeOK
  <2> QED BY <1>6, <2>5, <2>9, <2>11, <2>12 DEF KmallocInv
<1> QED BY <1>3, <1>8, <1>9

\* A request that panics or is refused, a kfree that does, and the end change
\* nothing of this.
LEMMA KmallocKept ==
    ASSUME KmallocInv, flags' = flags, owner' = owner, live' = live,
           state' \in {"run", "panic", "wild"}
    PROVE  KmallocInv'
<1>1. KmallocTypeOK' /\ flags'[0] = "kernel" /\ SlabsWhole' /\ Small' = Small
  BY DEF KmallocInv, KmallocTypeOK, SlabsWhole, Cells, Small
<1>2. ObjectsPlaced' /\ ObjectsApart'
  BY <1>1 DEF KmallocInv, ObjectsPlaced, ObjectOf, ObjectsApart
<1> QED BY <1>1, <1>2 DEF KmallocInv

\* One step per action.
LEMMA KmallocNextInv == KmallocInv /\ [KmallocNext]_kmallocVars => KmallocInv'
<1> SUFFICES ASSUME KmallocInv, [KmallocNext]_kmallocVars PROVE KmallocInv'
  OBVIOUS
<1>0. state \in {"run", "panic", "wild"}
  BY DEF KmallocInv, KmallocTypeOK
<1>1. ASSUME NEW size \in Sizes, KmallocPanic(size) PROVE KmallocInv'
  BY <1>1, KmallocKept DEF KmallocPanic
<1>2. ASSUME NEW size \in Sizes, KmallocPages(size) PROVE KmallocInv'
  BY <1>2, PagesInv
<1>3. ASSUME NEW size \in Sizes, KmallocObject(size) PROVE KmallocInv'
  BY <1>3, ObjectInv
<1>4. ASSUME NEW size \in Sizes, KmallocSlab(size) PROVE KmallocInv'
  BY <1>4, SlabInv
<1>5. ASSUME NEW size \in Sizes, KfreeRefused(size) PROVE KmallocInv'
  BY <1>5, KmallocKept DEF KfreeRefused, KfreeWild
<1>6. ASSUME NEW p \in Pointers, KfreeObject(p) PROVE KmallocInv'
  BY <1>6, FreeInv
<1>7. ASSUME NEW p \in Pointers, KfreePanic(p) PROVE KmallocInv'
  BY <1>7, KmallocKept DEF KfreePanic
<1>8. ASSUME NEW p \in Pointers, KfreeWild(p) PROVE KmallocInv'
  BY <1>8, KmallocKept DEF KfreeWild
<1>9. CASE UNCHANGED kmallocVars
  BY <1>0, <1>9, KmallocKept DEF kmallocVars
<1>10. CASE KmallocOver
  BY <1>9, <1>10 DEF KmallocOver
<1> QED BY <1>1, <1>2, <1>3, <1>4, <1>5, <1>6, <1>7, <1>8, <1>9, <1>10, Zenon DEF KmallocNext

\* Whatever is asked for and freed, a slab is whole and every object is in one
\* of the class that its size selects.
THEOREM KmallocInvariant == KmallocSpec => []KmallocInv
<1> QED BY KmallocInitInv, KmallocNextInv, PTL DEF KmallocSpec

\* KmallocSound: the way from a size to an object and from a pointer to its
\* slab agree, for any sizes of pages, classes and memory.
THEOREM KmallocSoundAlways == KmallocSpec => []KmallocSound
<1> QED BY KmallocInvariant, KmallocInvSound, PTL

-----------------------------------------------------------------------------
(* The tables of the firmware. *)

LEMMA FirmwareIs ==
    ASSUME firmware \in Firmwares
    PROVE  /\ firmware.tables \in Seq(Table) /\ entry_count \in 0 .. MaxTables
           /\ Present = 1 .. entry_count
           /\ firmware.behind \in Nat /\ firmware.Revision \in {0, 2}
           /\ firmware.signed \in SUBSET (1 .. Ebda + Bios)
<1>1. /\ firmware.signed \in {{}} \union {{p} : p \in 1 .. Ebda + Bios} \union {{1, Ebda + Bios}}
      /\ firmware.tables \in UNION {[1 .. n -> Table] : n \in 0 .. MaxTables}
      /\ firmware.behind \in Behind /\ firmware.Revision \in {0, 2}
  BY DEF Firmwares
<1>2. {Ebda, Bios, MaxTables} \subseteq Nat \ {0} /\ Behind \subseteq Nat
  BY AcpiAssumption
<1>3. PICK n \in 0 .. MaxTables : firmware.tables \in [1 .. n -> Table]
  BY <1>1
<1>4. firmware.tables \in Seq(Table) /\ Len(firmware.tables) = n /\ DOMAIN firmware.tables = 1 .. n
  <2>1. n \in Nat
    BY <1>2, <1>3
  <2> QED BY <1>3, <2>1
<1>5. firmware.signed \in SUBSET (1 .. Ebda + Bios)
  <2>1. 1 \in 1 .. Ebda + Bios /\ Ebda + Bios \in 1 .. Ebda + Bios
    BY <1>2
  <2> QED BY <1>1, <2>1
<1> QED BY <1>1, <1>2, <1>3, <1>4, <1>5 DEF entry_count, Present

\* The list of an RSDT is read from where it is: all its tables, if they are
\* mapped.
LEMMA RsdtEntryIs ==
    ASSUME firmware \in Firmwares, NEW i \in 0 .. entry_count - 1
    PROVE  /\ i + 1 \in Present
           /\ AllLow => /\ IsMapped(RsdtEntry(i)) /\ RsdtEntry(i).lo = i + 1
                        /\ Signature(RsdtEntry(i)) = firmware.tables[i + 1].name
<1>1. /\ entry_count \in 0 .. MaxTables /\ Present = 1 .. entry_count
      /\ MaxTables \in Nat /\ Mapped \in Nat /\ Mapped > MaxTables
  BY FirmwareIs, AcpiAssumption
<1>2. i + 1 \in Present /\ i + 1 < Mapped
  BY <1>1
<1>3. Member(HeaderSize, 4) \div 4 + i = 9 + i /\ ((9 + i) - HeaderSize \div 4) + 1 = i + 1
  BY <1>1 DEF Member, HeaderSize
<1>4. RsdtWord(9 + i) = AddressOf(i + 1)
  BY <1>2, <1>3 DEF RsdtWord
<1>5. RsdtEntry(i) = [lo |-> AddressOf(i + 1), hi |-> 0]
  BY <1>3, <1>4 DEF RsdtEntry
<1>6. ASSUME AllLow PROVE AddressOf(i + 1) = i + 1
  BY <1>2, <1>6 DEF AllLow, AddressOf
<1>7. RsdtEntry(i).lo = AddressOf(i + 1) /\ RsdtEntry(i).hi = 0
  BY <1>5
<1> QED BY <1>2, <1>6, <1>7 DEF IsMapped, Signature

\* That of an XSDT is read four bytes too far on: the upper half of an address
\* comes first, so what is read is not mapped or no table.
LEMMA XsdtEntryIs ==
    ASSUME firmware \in Firmwares, NEW i \in 0 .. entry_count - 1
    PROVE  Signature(XsdtEntry(i)) = "none"
<1>1. entry_count \in Nat /\ Present = 1 .. entry_count
  BY FirmwareIs, AcpiAssumption
<1>2. i + 1 \in Present /\ 0 \notin Present
  BY <1>1
<1>3. Member(HeaderSize, 8) \div 4 + 2 * i = 10 + 2 * i
  BY <1>1 DEF Member, HeaderSize
<1>4. /\ ((10 + 2 * i) - HeaderSize \div 4) \div 2 + 1 = i + 1
      /\ ((10 + 2 * i) - HeaderSize \div 4) % 2 = 1
  BY <1>1 DEF HeaderSize
<1>5. XsdtWord(10 + 2 * i) = 0
  BY <1>2, <1>4 DEF XsdtWord
<1>6. XsdtEntry(i).lo = 0
  BY <1>3, <1>5 DEF XsdtEntry
<1> QED BY <1>2, <1>6 DEF Signature

LEMMA InitAcpiInv == AcpiInit => AcpiInv
<1> SUFFICES ASSUME AcpiInit PROVE AcpiInv
  OBVIOUS
<1>1. /\ firmware \in Firmwares /\ doing = "ebda" /\ index = 1 /\ rsd_ptr = NoTable
      /\ fadt_ptr = NoTable /\ madt_ptr = NoTable /\ given_up = FALSE
  BY DEF AcpiInit
<1>2. 1 \in 1 .. Ebda /\ Ebda + Bios \in Nat
  BY AcpiAssumption
<1>3. \A p \in firmware.signed : 1 <= p
  BY <1>1, <1>2, FirmwareIs
<1>4. AcpiTypeOK
  BY <1>1 DEF AcpiTypeOK
<1>5. RootInv
  BY <1>1, <1>2, <1>3 DEF RootInv
<1>6. SearchInv
  BY <1>1 DEF SearchInv, Searching
<1> QED BY <1>1, <1>4, <1>5, <1>6 DEF AcpiInv

LEMMA RootStep == AcpiInv /\ FindRSDP => AcpiInv'
<1> SUFFICES ASSUME AcpiInv, FindRSDP PROVE AcpiInv'
  OBVIOUS
<1>1. AcpiTypeOK /\ RootInv /\ SearchInv
  BY DEF AcpiInv
<1>2. /\ doing \in {"ebda", "bios"} /\ UNCHANGED <<firmware, fadt_ptr, madt_ptr, given_up>>
      /\ fadt_ptr = NoTable /\ madt_ptr = NoTable /\ rsd_ptr = NoTable
      /\ index \in (IF doing = "ebda" THEN 1 .. Ebda ELSE Ebda + 1 .. Ebda + Bios)
      /\ \A p \in firmware.signed : index <= p
      /\ Ebda \in Nat \ {0} /\ Bios \in Nat \ {0} /\ firmware \in Firmwares
  BY <1>1, AcpiAssumption DEF FindRSDP, RootInv, SearchInv, AcpiTypeOK
<1>3. firmware.signed \in SUBSET (1 .. Ebda + Bios)
  BY <1>2, FirmwareIs
<1>4. CASE index \in firmware.signed
  <2>1. rsd_ptr' = index /\ doing' = "FACP" /\ index' = 0
    BY <1>4 DEF FindRSDP
  <2>2. index # NoTable
    BY <1>2 DEF NoTable
  <2>3. 0 \in 0 .. entry_count /\ entry_count' = entry_count /\ AllLow' = AllLow
    BY <1>2, FirmwareIs, AcpiAssumption DEF entry_count, AllLow, Present
  <2>4. AcpiTypeOK'
    BY <1>1, <1>2, <2>1 DEF AcpiTypeOK, Present
  <2>5. RootInv'
    BY <1>2, <2>1, <2>2 DEF RootInv
  <2>6. SearchInv'
    BY <1>2, <2>1, <2>2, <2>3 DEF SearchInv, Searching
  <2> QED BY <2>1, <2>4, <2>5, <2>6 DEF AcpiInv
<1>5. CASE index \notin firmware.signed
  <2>1. /\ index' = index + 1 /\ rsd_ptr' = rsd_ptr
        /\ doing' = CASE index < Ebda -> "ebda"
                      [] index \in Ebda .. Ebda + Bios - 1 -> "bios"
                      [] index = Ebda + Bios -> "panic"
    BY <1>5 DEF FindRSDP
  <2>2. index \in 1 .. Ebda + Bios
    BY <1>2
  <2>3. \/ doing' = "ebda" /\ index < Ebda
        \/ doing' = "bios" /\ index \in Ebda .. Ebda + Bios - 1
        \/ doing' = "panic" /\ index = Ebda + Bios
    <3>1. CASE index < Ebda
      BY <1>2, <2>1, <2>2, <3>1
    <3>2. CASE index \in Ebda .. Ebda + Bios - 1
      BY <1>2, <2>1, <2>2, <3>2
    <3>3. CASE index = Ebda + Bios
      BY <1>2, <2>1, <2>2, <3>3
    <3> QED BY <1>2, <2>2, <3>1, <3>2, <3>3
  <2>4. \A p \in firmware.signed : p \in Nat /\ p <= Ebda + Bios /\ index + 1 <= p
    BY <1>2, <1>3, <1>5, <2>2
  <2>5. RootInv'
    <3>1. doing' \in {"ebda", "bios"} =>
              index' \in (IF doing' = "ebda" THEN 1 .. Ebda ELSE Ebda + 1 .. Ebda + Bios)
      BY <1>2, <2>1, <2>2, <2>3
    <3>2. doing' = "panic" => firmware.signed = {}
      BY <1>2, <2>2, <2>3, <2>4
    <3> QED BY <1>2, <2>1, <2>4, <3>1, <3>2 DEF RootInv
  <2>6. AcpiTypeOK'
    BY <1>1, <1>2, <2>3 DEF AcpiTypeOK, Present
  <2>7. SearchInv'
    BY <1>2, <2>1, <2>3 DEF SearchInv, Searching
  <2> QED BY <2>3, <2>5, <2>6, <2>7 DEF AcpiInv
<1> QED BY <1>4, <1>5

\* The end of a search for a table, with it or without.
LEMMA FoundKeeps ==
    ASSUME AcpiInv, FindSDT, NEW n, Found(n), n \in {NoTable} \union Present,
           firmware.Revision < 2 /\ AllLow => FirstNamed(n, doing),
           firmware.Revision >= 2 => n = NoTable
    PROVE  AcpiInv'
<1>1. AcpiTypeOK /\ RootInv /\ SearchInv
  BY DEF AcpiInv
<1>2. /\ doing \in {"FACP", "APIC"} /\ UNCHANGED <<firmware, rsd_ptr, given_up>> /\ index' = 0
      /\ rsd_ptr # NoTable /\ madt_ptr = NoTable /\ (doing = "FACP" => fadt_ptr = NoTable)
      /\ firmware \in Firmwares
  BY <1>1 DEF FindSDT, Found, SearchInv, Searching, AcpiTypeOK
<1>3. /\ doing = "FACP" => fadt_ptr' = n /\ doing' = "APIC" /\ madt_ptr' = madt_ptr
      /\ doing = "APIC" => madt_ptr' = n /\ doing' = "keyboard" /\ fadt_ptr' = fadt_ptr
  BY DEF Found
<1>4. /\ entry_count' = entry_count /\ (AllLow' <=> AllLow) /\ Present' = Present
      /\ 0 \in 0 .. entry_count
      /\ \A k, name : FirstNamed(k, name)' <=> FirstNamed(k, name)
  BY <1>2, FirmwareIs, AcpiAssumption DEF entry_count, AllLow, Present, FirstNamed
<1>5. AcpiTypeOK'
  BY <1>1, <1>2, <1>3, <1>4 DEF AcpiTypeOK
<1>6. RootInv'
  BY <1>1, <1>2, <1>3 DEF RootInv
<1>7. SearchInv'
  <2>1. CASE doing = "FACP"
    BY <1>1, <1>2, <1>3, <1>4, <2>1 DEF SearchInv, Searching, FirstNamed
  <2>2. CASE doing = "APIC"
    BY <1>1, <1>2, <1>3, <1>4, <2>2 DEF SearchInv, Searching, FirstNamed
  <2> QED BY <1>2, <2>1, <2>2
<1> QED BY <1>2, <1>3, <1>5, <1>6, <1>7 DEF AcpiInv

LEMMA SearchStep == AcpiInv /\ FindSDT => AcpiInv'
<1> SUFFICES ASSUME AcpiInv, FindSDT PROVE AcpiInv'
  OBVIOUS
<1>1. AcpiTypeOK /\ RootInv /\ SearchInv
  BY DEF AcpiInv
<1>2. /\ doing \in {"FACP", "APIC"} /\ UNCHANGED <<firmware, rsd_ptr, given_up>>
      /\ rsd_ptr # NoTable /\ index \in 0 .. entry_count /\ firmware \in Firmwares
      /\ firmware.Revision \in {0, 2} /\ entry_count \in Nat /\ Present = 1 .. entry_count
  BY <1>1, FirmwareIs, AcpiAssumption DEF FindSDT, SearchInv, Searching, AcpiTypeOK
<1>3. firmware.Revision < 2 /\ AllLow => \A m \in 1 .. index : firmware.tables[m].name # doing
  BY <1>1, <1>2 DEF SearchInv, Searching
<1>4. CASE index = entry_count
  <2>1. Found(NoTable)
    BY <1>4 DEF FindSDT
  <2>2. firmware.Revision < 2 /\ AllLow => FirstNamed(NoTable, doing)
    BY <1>2, <1>3, <1>4 DEF FirstNamed
  <2> QED BY <2>1, <2>2, FoundKeeps
<1>5. CASE index # entry_count
  <2> DEFINE a == SdtEntry(index)
  <2>1. index \in 0 .. entry_count - 1
    BY <1>2, <1>5
  <2>2. /\ index + 1 \in Present
        /\ firmware.Revision < 2 /\ AllLow =>
              IsMapped(a) /\ a.lo = index + 1 /\ Signature(a) = firmware.tables[index + 1].name
    BY <1>2, <2>1, RsdtEntryIs DEF SdtEntry
  <2>3. firmware.Revision >= 2 => Signature(a) = "none"
    BY <1>2, <2>1, XsdtEntryIs DEF SdtEntry
  <2>4. \/ ~IsMapped(a) /\ doing' = "panic" /\ UNCHANGED <<index, fadt_ptr, madt_ptr>>
        \/ IsMapped(a) /\ Signature(a) = doing /\ Found(a.lo)
        \/ IsMapped(a) /\ Signature(a) # doing /\ index' = index + 1 /\ UNCHANGED <<doing, fadt_ptr, madt_ptr>>
    <3>1. CASE ~IsMapped(a)
      BY <1>5, <3>1 DEF FindSDT
    <3>2. CASE IsMapped(a) /\ Signature(a) = doing
      BY <1>5, <3>2 DEF FindSDT
    <3>3. CASE IsMapped(a) /\ Signature(a) # doing
      BY <1>5, <3>3 DEF FindSDT
    <3> QED BY <3>1, <3>2, <3>3
  <2>5. Present' = Present /\ entry_count' = entry_count /\ (AllLow' <=> AllLow)
        /\ \A k, name : FirstNamed(k, name)' <=> FirstNamed(k, name)
    BY <1>2 DEF entry_count, AllLow, Present, FirstNamed
  <2>6. Signature(a) = doing => a.lo \in Present
    BY <1>2 DEF Signature
  <2> HIDE DEF a
  <2>7. CASE ~IsMapped(a) /\ doing' = "panic" /\ UNCHANGED <<index, fadt_ptr, madt_ptr>>
    <3>1. AcpiTypeOK'
      BY <1>1, <1>2, <2>5, <2>7 DEF AcpiTypeOK
    <3>2. RootInv'
      BY <1>1, <1>2, <2>7 DEF RootInv
    <3>3. SearchInv'
      BY <1>1, <1>2, <2>2, <2>5, <2>7 DEF SearchInv, Searching
    <3> QED BY <2>7, <3>1, <3>2, <3>3 DEF AcpiInv
  <2>8. CASE IsMapped(a) /\ Signature(a) = doing /\ Found(a.lo)
    <3>1. a.lo \in Present
      BY <2>6, <2>8
    <3>2. firmware.Revision < 2 /\ AllLow => FirstNamed(a.lo, doing)
      <4>1. ASSUME firmware.Revision < 2, AllLow PROVE FirstNamed(a.lo, doing)
        <5>1. a.lo = index + 1 /\ firmware.tables[index + 1].name = doing
          BY <2>2, <2>8, <4>1
        <5>2. \A m \in 1 .. (index + 1) - 1 : firmware.tables[m].name # doing
          BY <1>2, <1>3, <4>1
        <5>3. index + 1 # NoTable
          BY <1>2 DEF NoTable
        <5> QED BY <5>1, <5>2, <5>3 DEF FirstNamed
      <4> QED BY <4>1
    <3>3. ~(firmware.Revision >= 2)
      BY <1>2, <2>3, <2>8
    <3> QED BY <2>8, <3>1, <3>2, <3>3, FoundKeeps
  <2>9. CASE IsMapped(a) /\ Signature(a) # doing /\ index' = index + 1 /\ UNCHANGED <<doing, fadt_ptr, madt_ptr>>
    <3>1. AcpiTypeOK'
      BY <1>1, <1>2, <2>5, <2>9 DEF AcpiTypeOK
    <3>2. RootInv'
      BY <1>1, <1>2, <2>9 DEF RootInv
    <3>3. firmware.Revision < 2 /\ AllLow => \A m \in 1 .. index' : firmware.tables[m].name # doing
      BY <1>2, <1>3, <2>2, <2>9
    <3>4. index' \in 0 .. entry_count
      BY <1>2, <2>1, <2>9
    <3>5. SearchInv'
      BY <1>1, <1>2, <2>5, <2>9, <3>3, <3>4 DEF SearchInv, Searching
    <3> QED BY <1>2, <2>9, <3>1, <3>2, <3>5 DEF AcpiInv
  <2> QED BY <2>4, <2>7, <2>8, <2>9
<1> QED BY <1>4, <1>5

LEMMA AskStep == AcpiInv /\ AskFADT => AcpiInv'
<1> SUFFICES ASSUME AcpiInv, AskFADT PROVE AcpiInv'
  OBVIOUS
<1>1. AcpiTypeOK /\ RootInv /\ SearchInv
  BY DEF AcpiInv
<1>2. /\ doing = "keyboard" /\ doing' = "done"
      /\ UNCHANGED <<firmware, index, rsd_ptr, fadt_ptr, madt_ptr>>
      /\ given_up' = (fadt_ptr # NoTable /\ firmware.fadt.Revision > 1 /\ ~HasController)
  BY DEF AskFADT
<1>3. ~HasController
  <2>1. Member(FlagsAt, 2) = 110
    BY DEF Member, FlagsAt
  <2>2. FadtByte(110) = 0
    BY DEF FadtByte, FlagsAt
  <2> QED BY <2>1, <2>2 DEF HasController
<1>4. given_up' <=> fadt_ptr # NoTable /\ firmware.fadt.Revision > 1
  BY <1>2, <1>3
<1>5. AcpiTypeOK'
  BY <1>1, <1>2 DEF AcpiTypeOK, Present
<1>6. RootInv'
  BY <1>1, <1>2 DEF RootInv
<1>7. SearchInv'
  BY <1>1, <1>2 DEF SearchInv, Searching, AllLow, FirstNamed, Present
<1> QED BY <1>2, <1>4, <1>5, <1>6, <1>7 DEF AcpiInv

\* The invariant behind the next theorem: what a search (findRSDP and findSDT,
\* rsdt.cpp) has passed is not what it looks for.
THEOREM AcpiInvariant == AcpiSpec => []AcpiInv
<1>1. AcpiInv /\ [AcpiNext]_acpiVars => AcpiInv'
  <2>1. AcpiInv /\ UNCHANGED acpiVars => AcpiInv'
    BY DEF AcpiInv, AcpiTypeOK, RootInv, SearchInv, Searching, AllLow, FirstNamed, Present,
           entry_count, acpiVars
  <2>2. AcpiInv /\ AcpiOver => AcpiInv'
    BY <2>1 DEF AcpiOver
  <2> QED BY <2>1, <2>2, RootStep, SearchStep, AskStep DEF AcpiNext
<1> QED BY <1>1, InitAcpiInv, PTL DEF AcpiSpec

\* acpi::prepareTable and Keyboard::initialize, for any firmware, any number
\* of tables and any sizes of the areas searched: the first root pointer is
\* used; an RSDT gives the first table of a name or none, if there is none; an
\* XSDT gives nothing, but never a wrong table; and the controller is given up
\* over every FADT but the oldest.
THEOREM AcpiTablesFound == AcpiSpec => []TablesFound
<1>1. AcpiInv => TablesFound
  <2> SUFFICES ASSUME AcpiInv PROVE TablesFound
    OBVIOUS
  <2>1. AcpiTypeOK /\ RootInv /\ SearchInv
        /\ (doing = "done" => (given_up <=> fadt_ptr # NoTable /\ firmware.fadt.Revision > 1))
    BY DEF AcpiInv
  <2>2. rsd_ptr # NoTable => \A p \in firmware.signed : rsd_ptr <= p
    BY <2>1 DEF RootInv
  <2>3. firmware.signed # {} /\ firmware.Revision < 2 /\ AllLow => RightTables
    BY <2>1 DEF RightTables, RootInv, SearchInv
  <2>4. firmware.Revision >= 2 => fadt_ptr = NoTable /\ madt_ptr = NoTable
    BY <2>1 DEF SearchInv
  <2> QED BY <2>1, <2>2, <2>3, <2>4 DEF TablesFound
<1> QED BY <1>1, AcpiInvariant, PTL

-----------------------------------------------------------------------------
(* The string of a task's name. *)

LEMMA PlacedIs ==
    ASSUME NEW q \in Seq(Int), NEW i \in Nat, NEW t \in Seq(Int)
    PROVE  /\ Placed(q, i, t) \in Seq(Int) /\ Len(Placed(q, i, t)) = Len(q)
           /\ \A k \in 1 .. Len(q) : k - i \in 1 .. Len(t) => Placed(q, i, t)[k] = t[k - i]
           /\ \A k \in 1 .. Len(q) : k - i \notin 1 .. Len(t) => Placed(q, i, t)[k] = q[k]
<1>1. PICK n \in Nat : n = Len(q) /\ DOMAIN q = 1 .. n
  OBVIOUS
<1>2. \A k \in 1 .. n : (IF k - i \in 1 .. Len(t) THEN t[k - i] ELSE q[k]) \in Int
  BY <1>1
<1>3. Placed(q, i, t) \in [1 .. n -> Int]
  BY <1>1, <1>2 DEF Placed
<1>4. Placed(q, i, t) \in Seq(Int) /\ Len(Placed(q, i, t)) = n
  BY <1>3
<1> QED BY <1>1, <1>4 DEF Placed

\* A text with its end, behind what a piece of memory holds.
LEMMA PlacedText ==
    ASSUME NEW q \in Seq(Int), NEW i \in Nat, NEW t \in Seq(Int), i + Len(t) < Len(q)
    PROVE  LET p == Placed(q, i, t \o <<0>>)
           IN  /\ p \in Seq(Int) /\ Len(p) = Len(q)
               /\ SubSeq(p, 1, i + Len(t)) = SubSeq(q, 1, i) \o t
               /\ p[i + Len(t) + 1] = 0
<1> DEFINE u == t \o <<0>>
           p == Placed(q, i, u)
<1>1. PICK n \in Nat, d \in Nat : n = Len(t) /\ d = Len(q) /\ i + n < d
  OBVIOUS
<1>2. /\ u \in Seq(Int) /\ Len(u) = n + 1 /\ u[n + 1] = 0
      /\ \A k \in 1 .. n : u[k] = t[k]
  BY <1>1
<1> HIDE DEF u
<1>3. p \in Seq(Int) /\ Len(p) = d
  BY <1>1, <1>2, PlacedIs
<1>4. \A k \in 1 .. i : p[k] = q[k]
  <2> SUFFICES ASSUME NEW k \in 1 .. i PROVE p[k] = q[k]
    OBVIOUS
  <2>1. k \in 1 .. Len(q) /\ k - i \notin 1 .. Len(u)
    BY <1>1, <1>2
  <2> QED BY <1>2, <2>1, PlacedIs
<1>13. \A j \in 1 .. Len(q) : j - i \in 1 .. Len(u) => p[j] = u[j - i]
  BY <1>2, PlacedIs, Zenon
<1>5. \A k \in 1 .. n + 1 : p[i + k] = u[k]
  <2> SUFFICES ASSUME NEW k \in 1 .. n + 1 PROVE p[i + k] = u[k]
    OBVIOUS
  <2>1. PICK j \in 1 .. Len(q) : j = i + k /\ j - i = k
    BY <1>1
  <2>2. j - i \in 1 .. Len(u)
    BY <1>2, <2>1
  <2>3. p[j] = u[j - i]
    BY <1>13, <2>2, Zenon
  <2> QED BY <2>1, <2>3
<1> HIDE DEF p
<1>6. p[i + n + 1] = 0
  <2>1. n + 1 \in 1 .. n + 1 /\ i + (n + 1) = i + n + 1
    BY <1>1
  <2> QED BY <1>2, <1>5, <2>1
<1>7. /\ SubSeq(p, 1, i + n) \in Seq(Int) /\ Len(SubSeq(p, 1, i + n)) = i + n
      /\ \A k \in 1 .. i + n : SubSeq(p, 1, i + n)[k] = p[k]
  <2>1. i + n \in Nat /\ i + n <= d
    BY <1>1
  <2> QED BY <1>3, <2>1
<1>8. /\ SubSeq(q, 1, i) \in Seq(Int) /\ Len(SubSeq(q, 1, i)) = i
      /\ \A k \in 1 .. i : SubSeq(q, 1, i)[k] = q[k]
  <2>1. i <= d
    BY <1>1
  <2> QED BY <1>1, <2>1
<1>9. PICK w \in Seq(Int) : w = SubSeq(q, 1, i) /\ Len(w) = i /\ \A k \in 1 .. i : w[k] = q[k]
  BY <1>8
<1>10. /\ w \o t \in Seq(Int) /\ Len(w \o t) = i + n
       /\ \A k \in 1 .. i : (w \o t)[k] = w[k]
       /\ \A k \in 1 .. i + n : (w \o t)[k] = IF k <= i THEN w[k] ELSE t[k - i]
  <2>1. /\ w \o t \in Seq(Int) /\ Len(w \o t) = Len(w) + Len(t)
        /\ \A k \in 1 .. Len(w) + Len(t) : (w \o t)[k] =
               IF k <= Len(w) THEN w[k] ELSE t[k - Len(w)]
    BY ConcatProperties, Zenon
  <2>2. Len(w) = i /\ Len(t) = n
    BY <1>1, <1>9
  <2>3. ASSUME NEW k \in 1 .. i + n
        PROVE  (w \o t)[k] = IF k <= i THEN w[k] ELSE t[k - i]
    BY <2>1, <2>2, Zenon
  <2>4. Len(w \o t) = i + n
    BY <1>1, <1>9
  <2>5. \A k \in 1 .. i : (w \o t)[k] = w[k]
    BY <1>1, <1>9
  <2> QED BY <2>1, <2>3, <2>4, <2>5, Zenon
<1>11. ASSUME NEW k \in 1 .. i + n PROVE SubSeq(p, 1, i + n)[k] = (w \o t)[k]
  <2>1. CASE k <= i
    BY <1>4, <1>7, <1>9, <1>10, <2>1
  <2>2. CASE i < k
    <3>1. PICK m \in 1 .. n : k = i + m /\ m = k - i
      BY <1>1, <2>2, k - i \in 1 .. n, k = i + (k - i)
    <3>2. m \in 1 .. n + 1 /\ ~(k <= i)
      BY <1>1, <2>2, <3>1
    <3>3. p[k] = u[m] /\ u[m] = t[m]
      BY <1>2, <1>5, <3>1, <3>2
    <3>4. (w \o t)[k] = t[m]
      BY <1>10, <3>1, <3>2
    <3> QED BY <1>7, <3>3, <3>4
  <2>3. k <= i \/ i < k
    OBVIOUS
  <2> QED BY ONLY <2>1, <2>2, <2>3
<1>12. SubSeq(p, 1, i + n) = w \o t
  BY <1>7, <1>10, <1>11, SeqEqual
<1> QED BY <1>1, <1>3, <1>6, <1>9, <1>12 DEF p, u

LEMMA TextsAre == \A t \in Texts : t \in Seq(Int) /\ Len(t) \in Nat
<1>1. Nat \ {0} \subseteq Int
  OBVIOUS
<1>2. Seq(Nat \ {0}) \subseteq Seq(Int)
  BY <1>1
<1> QED BY <1>2, ComStringAssumption

\* The memory that is asked for.
LEMMA RoomIs ==
    ASSUME NEW n \in Nat \ {0}
    PROVE  /\ Junks(suitable_size(n)) \in Seq(Int)
           /\ n < Len(Junks(suitable_size(n)))
<1>1. PICK p \in Nat : p = suitable_size(n) /\ n < p
  BY HighestBitIs DEF suitable_size
<1>2. Junks(p) \in [1 .. p -> Int]
  BY DEF Junks, Junk
<1>3. Junks(p) \in Seq(Int) /\ Len(Junks(p)) = p
  BY <1>2
<1> QED BY <1>1, <1>3

LEMMA CoveredIs ==
    ASSUME NEW q \in Seq(Int)
    PROVE  Covered(q) \in Seq(Int) /\ Len(Covered(q)) = Len(q)
<1>1. Overlay \in Nat
  BY ComStringAssumption
<1>2. Junks(Overlay) \in [1 .. Overlay -> Int]
  BY DEF Junks, Junk
<1>3. Junks(Overlay) \in Seq(Int)
  BY <1>1, <1>2
<1> QED BY <1>3, PlacedIs DEF Covered

\* A text with its end in a piece of memory.
LEMMA TerminatedIs ==
    ASSUME NEW q \in Seq(Int), NEW t \in Seq(Int), Len(t) < Len(q)
    PROVE  /\ Terminated(q, t) \in Seq(Int) /\ Len(Terminated(q, t)) = Len(q)
           /\ SubSeq(Terminated(q, t), 1, Len(t)) = t
           /\ Terminated(q, t)[Len(t) + 1] = 0
<1>1. PICK n \in Nat : n = Len(t) /\ 0 + n = n /\ 0 + n < Len(q)
  OBVIOUS
<1>2. SubSeq(q, 1, 0) \o t = t
  <2>1. SubSeq(q, 1, 0) = <<>>
    OBVIOUS
  <2> QED BY <2>1
<1> QED BY <1>1, <1>2, PlacedText DEF Terminated

LEMMA InitStringInv == ComStringInit => StringInv
<1> SUFFICES ASSUME ComStringInit PROVE StringInv
  OBVIOUS
<1>1. [i \in 1 .. little_size |-> 0] \in [1 .. little_size -> Int]
  OBVIOUS
<1>2. m_str \in Seq(Int) /\ Len(m_str) = little_size
  BY <1>1, ComStringAssumption DEF ComStringInit
<1>3. ComStringTypeOK
  <2>1. m_data \in Seq(Int) /\ text \in Seq(Int)
    <3>1. <<>> \in Seq(Int)
      OBVIOUS
    <3> QED BY <3>1 DEF ComStringInit
  <2>2. m_size \in Nat /\ held \in Int
    BY DEF ComStringInit
  <2>3. stage \in {"new", "made", "wild"} /\ flaws \subseteq {"unended", "spilt", "leaky"}
    BY DEF ComStringInit
  <2> QED BY <1>2, <2>1, <2>2, <2>3 DEF ComStringTypeOK
<1> QED BY <1>3 DEF ComStringInit, StringInv, Fresh, StringHolds

LEMMA WildInv == StringInv /\ Wild => StringInv'
  BY DEF StringInv, ComStringTypeOK, Wild, StringHolds

LEMMA DefaultInv == StringInv /\ DefaultConstruct => StringInv'
<1> SUFFICES ASSUME StringInv, DefaultConstruct PROVE StringInv'
  OBVIOUS
<1>1. /\ Fresh /\ stage' = "made"
      /\ UNCHANGED <<m_size, m_str, m_data, text, flaws, held>>
  BY DEF DefaultConstruct, StringInv
<1>2. 0 < little_size /\ little_size \in Nat
  BY ComStringAssumption
<1>3. is_local' /\ data' = m_str
  BY <1>1, <1>2 DEF is_local, data, Fresh
<1>4. SubSeq(m_str, 1, 0) = <<>>
  BY DEF StringInv, ComStringTypeOK
<1>5. m_str[1] = 0 /\ Len(m_str) = little_size /\ Len(<<>>) = 0
  BY <1>1, <1>2 DEF Fresh, StringInv, ComStringTypeOK
<1>6. StringHolds'
  BY <1>1, <1>2, <1>3, <1>4, <1>5 DEF StringHolds, Fresh
<1>7. ComStringTypeOK'
  BY <1>1 DEF StringInv, ComStringTypeOK
<1> QED BY <1>1, <1>3, <1>6, <1>7 DEF StringInv

LEMMA ConstructInv ==
    ASSUME NEW t \in Texts, NEW short \in BOOLEAN, StringInv, Construct(t, short)
    PROVE  StringInv'
<1>0. t \in Seq(Int) /\ Len(t) \in Nat /\ stage = "new" /\ Fresh /\ ComStringTypeOK
  BY TextsAre DEF Construct, StringInv
<1>1. CASE short /\ Len(t) >= little_size
  BY <1>1, WildInv DEF Construct
<1>2. CASE ~(short /\ Len(t) >= little_size) /\ Len(t) < little_size
  <2>1. /\ m_size' = Len(t) /\ text' = t /\ stage' = "made"
        /\ m_str' = Terminated(m_str, t) /\ m_data' = m_data
        /\ held' = (IF short THEN held ELSE held + 1)
        /\ flaws' = (IF ~short /\ Len(t) < little_size THEN {"leaky"} ELSE {})
    BY <1>2 DEF Construct
  <2>2. /\ m_str' \in Seq(Int) /\ Len(m_str') = little_size
        /\ SubSeq(m_str', 1, Len(t)) = t /\ m_str'[Len(t) + 1] = 0
    BY <1>0, <1>2, <2>1, TerminatedIs DEF ComStringTypeOK
  <2>3. is_local' /\ data' = m_str'
    BY <1>2, <2>1 DEF is_local, data
  <2>4. ComStringTypeOK'
    BY <1>0, <2>1, <2>2 DEF ComStringTypeOK
  <2>5. "leaky" \notin flaws' => held' = 0
    BY <1>0, <1>2, <2>1 DEF Fresh
  <2>6. StringHolds'
    BY <1>2, <2>1, <2>2, <2>3, <2>5 DEF StringHolds
  <2> QED BY <2>1, <2>3, <2>4, <2>6 DEF StringInv
<1>3. CASE ~short /\ Len(t) >= little_size
  <2>1. /\ m_size' = Len(t) /\ text' = t /\ stage' = "made"
        /\ m_data' = Terminated(Junks(suitable_size(Len(t))), t) /\ m_str' = Covered(m_str)
        /\ held' = held + 1
    BY <1>0, <1>3, ComStringAssumption DEF Construct
  <2>2. flaws' = {} /\ Len(t) \in Nat \ {0} /\ little_size \in Nat
    BY <1>0, <1>3, ComStringAssumption DEF Construct
  <2>3. /\ Junks(suitable_size(Len(t))) \in Seq(Int)
        /\ Len(t) < Len(Junks(suitable_size(Len(t))))
    BY <2>2, RoomIs
  <2>4. /\ m_data' \in Seq(Int) /\ Len(t) < Len(m_data')
        /\ SubSeq(m_data', 1, Len(t)) = t /\ m_data'[Len(t) + 1] = 0
    BY <1>0, <2>1, <2>3, TerminatedIs
  <2>5. ~is_local' /\ data' = m_data'
    BY <1>0, <1>3, <2>1, <2>2 DEF is_local, data
  <2>6. ComStringTypeOK'
    BY <1>0, <2>1, <2>2, <2>4, CoveredIs DEF ComStringTypeOK
  <2>7. held' = 1
    BY <1>0, <2>1 DEF Fresh
  <2>8. StringHolds'
    BY <2>1, <2>4, <2>5, <2>7 DEF StringHolds
  <2> QED BY <2>1, <2>4, <2>5, <2>6, <2>8 DEF StringInv
<1>4. Len(t) < little_size \/ Len(t) >= little_size
  BY <1>0, ComStringAssumption
<1> QED BY <1>1, <1>2, <1>3, <1>4

LEMMA MoveInv ==
    ASSUME NEW short \in BOOLEAN, StringInv, MoveConstruct(short)
    PROVE  StringInv'
<1>0. stage = "made" /\ ComStringTypeOK /\ little_size \in Nat
  BY ComStringAssumption DEF MoveConstruct, StringInv
<1>1. CASE ~short
  BY <1>1, WildInv DEF MoveConstruct
<1>2. Junks(little_size) \in Seq(Int) /\ Len(Junks(little_size)) = little_size
  <2>1. Junks(little_size) \in [1 .. little_size -> Int]
    BY DEF Junks, Junk
  <2> QED BY <1>0, <2>1
<1>3. CASE short /\ is_local
  <2>1. /\ m_str' = Placed(Junks(little_size), 0, SubSeq(m_str, 1, m_size))
        /\ flaws' = flaws \union {"unended"}
        /\ UNCHANGED <<m_size, m_data, stage, text, held>>
    BY <1>3 DEF MoveConstruct
  <2>2. PICK n \in Nat : n = m_size /\ n < little_size /\ n <= Len(m_str)
    BY <1>0, <1>3 DEF is_local, ComStringTypeOK
  <2>3. PICK u \in Seq(Int) : /\ u = SubSeq(m_str, 1, n) /\ Len(u) = n
                              /\ \A k \in 1 .. n : u[k] = m_str[k]
    <3>1. /\ SubSeq(m_str, 1, n) \in Seq(Int) /\ Len(SubSeq(m_str, 1, n)) = n
          /\ \A k \in 1 .. n : SubSeq(m_str, 1, n)[k] = m_str[k]
      BY <1>0, <2>2 DEF ComStringTypeOK
    <3> QED BY <3>1
  <2>4. /\ m_str' \in Seq(Int) /\ Len(m_str') = little_size
        /\ \A k \in 1 .. n : m_str'[k] = u[k]
    <3>1. m_str' = Placed(Junks(little_size), 0, u)
      BY <2>1, <2>2, <2>3
    <3>2. ASSUME NEW k \in 1 .. n PROVE m_str'[k] = u[k]
      <4>1. k \in 1 .. Len(Junks(little_size)) /\ k - 0 \in 1 .. Len(u) /\ k - 0 = k
        BY <1>2, <2>2, <2>3
      <4>2. m_str'[k] = u[k - 0]
        BY <1>2, <3>1, <4>1, PlacedIs
      <4> QED BY <4>1, <4>2
    <3> QED BY <1>2, <3>1, <3>2, PlacedIs
  <2>5. SubSeq(m_str', 1, n) = u
    <3>1. /\ SubSeq(m_str', 1, n) \in Seq(Int) /\ Len(SubSeq(m_str', 1, n)) = n
          /\ \A k \in 1 .. n : SubSeq(m_str', 1, n)[k] = m_str'[k]
      BY <2>2, <2>4
    <3> QED BY <2>3, <2>4, <3>1, SeqEqual
  <2>6. is_local' /\ data = m_str /\ data' = m_str'
    BY <1>3, <2>1 DEF is_local, data
  <2>7. ComStringTypeOK'
    BY <1>0, <2>1, <2>4 DEF ComStringTypeOK
  <2>8. StringHolds'
    BY <1>0, <1>3, <2>1, <2>2, <2>3, <2>5, <2>6 DEF StringHolds, StringInv
  <2> QED BY <1>0, <2>1, <2>6, <2>7, <2>8 DEF StringInv
<1>4. CASE short /\ ~is_local
  <2>1. /\ m_str' = Junks(little_size)
        /\ UNCHANGED <<m_size, m_data, stage, text, held, flaws>>
    BY <1>4 DEF MoveConstruct
  <2>2. ~is_local' /\ data' = data
    BY <1>4, <2>1 DEF is_local, data
  <2>3. ComStringTypeOK'
    BY <1>0, <1>2, <2>1 DEF ComStringTypeOK
  <2>4. StringHolds'
    BY <1>4, <2>1, <2>2 DEF StringHolds, StringInv
  <2> QED BY <1>0, <1>4, <2>1, <2>2, <2>3, <2>4 DEF StringInv
<1> QED BY <1>1, <1>3, <1>4

LEMMA AssignShortInv ==
    ASSUME NEW t \in Texts, StringInv, AssignShort(t)
    PROVE  StringInv'
<1>0. t \in Seq(Int) /\ Len(t) \in Nat /\ ComStringTypeOK /\ StringHolds
  BY TextsAre DEF StringInv
<1>1. /\ stage = "made" /\ stage' = "made" /\ Len(t) < little_size /\ little_size \in Nat
      /\ m_size' = Len(t) /\ m_str' = Terminated(m_str, t) /\ m_data' = <<>>
      /\ text' = t /\ held' = held
      /\ flaws' = (flaws \ {"unended", "spilt"}) \union (IF is_local THEN {} ELSE {"leaky"})
  BY ComStringAssumption DEF AssignShort
<1>2. /\ m_str' \in Seq(Int) /\ Len(m_str') = little_size
      /\ SubSeq(m_str', 1, Len(t)) = t /\ m_str'[Len(t) + 1] = 0
  BY <1>0, <1>1, TerminatedIs DEF ComStringTypeOK
<1>3. is_local' /\ data' = m_str'
  BY <1>1 DEF is_local, data
<1>4. ComStringTypeOK'
  BY <1>0, <1>1, <1>2 DEF ComStringTypeOK
<1>5. ASSUME "leaky" \notin flaws' PROVE held' = 0
  <2>1. is_local /\ "leaky" \notin flaws
    BY <1>1, <1>5
  <2> QED BY <1>0, <1>1, <2>1 DEF StringHolds
<1>6. StringHolds'
  BY <1>1, <1>2, <1>3, <1>5 DEF StringHolds
<1> QED BY <1>1, <1>3, <1>4, <1>6 DEF StringInv

LEMMA AssignOverInv ==
    ASSUME NEW t \in Texts, StringInv, AssignOver(t)
    PROVE  StringInv'
<1>0. t \in Seq(Int) /\ Len(t) \in Nat /\ ComStringTypeOK /\ StringHolds
  BY TextsAre DEF StringInv
<1>1. /\ stage = "made" /\ stage' = "made" /\ Len(t) >= little_size /\ little_size \in Nat
      /\ ~is_local /\ Len(t) < Len(m_data)
      /\ m_size' = Len(t) /\ m_data' = Terminated(m_data, t) /\ m_str' = m_str
      /\ text' = t /\ held' = held /\ flaws' = flaws \ {"unended", "spilt"}
  BY ComStringAssumption DEF AssignOver
<1>2. /\ m_data' \in Seq(Int) /\ Len(m_data') = Len(m_data)
      /\ SubSeq(m_data', 1, Len(t)) = t /\ m_data'[Len(t) + 1] = 0
  BY <1>0, <1>1, TerminatedIs DEF ComStringTypeOK
<1>3. ~is_local' /\ data' = m_data'
  BY <1>0, <1>1 DEF is_local, data
<1>4. ComStringTypeOK'
  BY <1>0, <1>1, <1>2 DEF ComStringTypeOK
<1>5. "leaky" \notin flaws' => held' = 1
  BY <1>0, <1>1 DEF StringHolds
<1>6. StringHolds'
  BY <1>1, <1>2, <1>3, <1>5 DEF StringHolds
<1> QED BY <1>1, <1>2, <1>3, <1>4, <1>6 DEF StringInv

LEMMA AssignAnewInv ==
    ASSUME NEW t \in Texts, StringInv, AssignAnew(t)
    PROVE  StringInv'
<1>0. t \in Seq(Int) /\ Len(t) \in Nat \ {0} /\ ComStringTypeOK /\ StringHolds
  BY TextsAre, ComStringAssumption DEF StringInv, AssignAnew
<1>1. /\ stage = "made" /\ stage' = "made" /\ Len(t) >= little_size /\ little_size \in Nat
      /\ m_size' = Len(t) /\ m_str' = Covered(m_str)
      /\ m_data' = Terminated(Junks(suitable_size(Len(t))), t)
      /\ text' = t /\ flaws' = flaws \ {"unended", "spilt"}
      /\ held' = IF is_local THEN held + 1 ELSE held
  BY ComStringAssumption DEF AssignAnew
<1>2. /\ Junks(suitable_size(Len(t))) \in Seq(Int)
      /\ Len(t) < Len(Junks(suitable_size(Len(t))))
  BY <1>0, RoomIs
<1>3. /\ m_data' \in Seq(Int) /\ Len(t) < Len(m_data')
      /\ SubSeq(m_data', 1, Len(t)) = t /\ m_data'[Len(t) + 1] = 0
  BY <1>0, <1>1, <1>2, TerminatedIs
<1>4. ~is_local' /\ data' = m_data'
  BY <1>0, <1>1 DEF is_local, data
<1>5. ComStringTypeOK'
  BY <1>0, <1>1, <1>3, CoveredIs DEF ComStringTypeOK
<1>6. "leaky" \notin flaws' => held' = 1
  BY <1>0, <1>1 DEF StringHolds
<1>7. StringHolds'
  BY <1>1, <1>3, <1>4, <1>6 DEF StringHolds
<1> QED BY <1>1, <1>3, <1>4, <1>5, <1>7 DEF StringInv

LEMMA AppendShortInv ==
    ASSUME NEW t \in Texts, StringInv, AppendShort(t)
    PROVE  StringInv'
<1>0. t \in Seq(Int) /\ Len(t) \in Nat /\ ComStringTypeOK /\ StringHolds
  BY TextsAre DEF StringInv
<1>1. /\ stage = "made" /\ stage' = "made" /\ is_local /\ little_size \in Nat
      /\ m_size + Len(t) < little_size
      /\ m_str' = Placed(m_str, m_size, t \o <<0>>) /\ m_size' = m_size + Len(t)
      /\ text' = text \o t /\ flaws' = flaws \ {"unended"}
      /\ m_data' = m_data /\ held' = held
  BY ComStringAssumption DEF AppendShort, Appends
<1>2. /\ m_str' \in Seq(Int) /\ Len(m_str') = little_size
      /\ SubSeq(m_str', 1, m_size + Len(t)) = SubSeq(m_str, 1, m_size) \o t
      /\ m_str'[m_size + Len(t) + 1] = 0
  BY <1>0, <1>1, PlacedText DEF ComStringTypeOK
<1>3. is_local' /\ data' = m_str' /\ data = m_str
  BY <1>1 DEF is_local, data
<1>4. text \o t \in Seq(Int) /\ Len(text \o t) = Len(text) + Len(t)
  BY <1>0 DEF ComStringTypeOK
<1>5. ComStringTypeOK'
  <2>1. m_size' \in Nat
    BY <1>0, <1>1 DEF ComStringTypeOK
  <2>2. flaws' \subseteq {"unended", "spilt", "leaky"}
    BY <1>0, <1>1 DEF ComStringTypeOK
  <2>3. held' \in Int /\ m_data' \in Seq(Int) /\ text' \in Seq(Int)
    BY <1>0, <1>1, <1>4 DEF ComStringTypeOK
  <2> QED BY <1>1, <1>2, <2>1, <2>2, <2>3 DEF ComStringTypeOK
<1>6. "leaky" \notin flaws' => held' = 0
  BY <1>0, <1>1 DEF StringHolds
<1>7. ASSUME "spilt" \notin flaws' PROVE m_size' = Len(text') /\ SubSeq(data', 1, m_size') = text'
  <2>1. m_size = Len(text) /\ SubSeq(m_str, 1, m_size) = text
    BY <1>0, <1>1, <1>3, <1>7 DEF StringHolds
  <2> QED BY <1>1, <1>2, <1>3, <1>4, <2>1
<1>8. StringHolds'
  BY <1>1, <1>2, <1>3, <1>6, <1>7 DEF StringHolds
<1> QED BY <1>1, <1>3, <1>5, <1>8 DEF StringInv

LEMMA AppendSpillInv ==
    ASSUME NEW t \in Texts, StringInv, AppendSpill(t)
    PROVE  StringInv'
<1> DEFINE room == Junks(suitable_size(m_size + Len(t)))
           old == Covered(m_str) \o Junks(m_size + Len(t))
<1>0. /\ t \in Seq(Int) /\ Len(t) \in Nat /\ ComStringTypeOK /\ StringHolds /\ stage = "made"
      /\ is_local /\ m_size + Len(t) >= little_size
  BY TextsAre DEF StringInv, AppendSpill, Appends
<1>1. PICK whole \in Nat \ {0} : whole = m_size + Len(t) /\ whole >= little_size
  BY <1>0, ComStringAssumption DEF ComStringTypeOK
<1>2. CASE Wild
  BY <1>2, WildInv
<1>3. CASE ~Wild
  <2>1. /\ whole + Len(t) < Len(room)
        /\ m_data' = Placed(Placed(room, 0, SubSeq(old, 1, whole)), whole, t \o <<0>>)
        /\ m_size' = whole + Len(t) /\ m_str' = Covered(m_str)
        /\ held' = held + 1 /\ stage' = "made"
        /\ text' = text \o t /\ flaws' = (flaws \ {"unended"}) \union {"spilt"}
    <3>1. room \in Seq(Int)
      BY <1>1, RoomIs
    <3>2. Len(room) \in Nat
      BY <3>1
    <3> QED BY <1>0, <1>1, <1>3, <3>2 DEF AppendSpill
  <2>2. room \in Seq(Int)
    BY <1>1, RoomIs
  <2>3. SubSeq(old, 1, whole) \in Seq(Int)
    <3>1. Junks(m_size + Len(t)) \in Seq(Int)
      <4>1. Junks(whole) \in [1 .. whole -> Int]
        BY DEF Junks, Junk
      <4> QED BY <1>1, <4>1
    <3>2. old \in Seq(Int)
      BY <1>0, <3>1, CoveredIs DEF ComStringTypeOK
    <3> HIDE DEF old
    <3>3. \A k \in 1 .. whole : k \in 1 .. Len(old)
      <4>1. Len(Junks(m_size + Len(t))) = whole
        <5>1. Junks(whole) \in [1 .. whole -> Int]
          BY DEF Junks, Junk
        <5> QED BY <1>1, <5>1
      <4>2. Len(old) = Len(Covered(m_str)) + whole /\ Len(Covered(m_str)) \in Nat
        <5>1. Covered(m_str) \in Seq(Int)
          BY <1>0, CoveredIs DEF ComStringTypeOK
        <5>2. Len(Covered(m_str) \o Junks(m_size + Len(t)))
                 = Len(Covered(m_str)) + Len(Junks(m_size + Len(t)))
          BY <3>1, <5>1, ConcatProperties
        <5> QED BY <4>1, <5>1, <5>2 DEF old
      <4> QED BY <4>2
    <3> QED BY <3>2, <3>3, SubSeqProperties
  <2> HIDE DEF room, old
  <2>4. PICK copied \in Seq(Int) : /\ copied = Placed(room, 0, SubSeq(old, 1, whole))
                                   /\ Len(copied) = Len(room)
    BY <2>2, <2>3, PlacedIs
  <2>5. m_data' \in Seq(Int) /\ whole + Len(t) < Len(m_data')
    <3>1. m_data' = Placed(copied, whole, t \o <<0>>)
      BY <2>1, <2>4
    <3> QED BY <1>0, <2>1, <2>4, <3>1, PlacedText
  <2>6. ~is_local' /\ "spilt" \in flaws'
    BY <1>0, <1>1, <2>1, ComStringAssumption DEF is_local
  <2>7. text' \in Seq(Int)
    BY <1>0, <2>1 DEF ComStringTypeOK
  <2>8. ComStringTypeOK'
    <3>1. m_size' \in Nat /\ held' \in Int
      BY <1>0, <1>1, <2>1 DEF ComStringTypeOK
    <3>2. flaws' \subseteq {"unended", "spilt", "leaky"}
      BY <1>0, <2>1 DEF ComStringTypeOK
    <3>3. m_str' \in Seq(Int) /\ Len(m_str') = little_size
      BY <1>0, <2>1, CoveredIs DEF ComStringTypeOK
    <3> QED BY <2>1, <2>5, <2>7, <3>1, <3>2, <3>3 DEF ComStringTypeOK
  <2>9. "leaky" \notin flaws' => held' = 1
    BY <1>0, <2>1 DEF StringHolds
  <2>10. StringHolds'
    BY <2>6, <2>9 DEF StringHolds
  <2> QED BY <2>1, <2>5, <2>6, <2>8, <2>10 DEF StringInv
<1> QED BY <1>2, <1>3

LEMMA AppendLongInv ==
    ASSUME NEW t \in Texts, StringInv, AppendLong(t)
    PROVE  StringInv'
<1>0. /\ t \in Seq(Int) /\ Len(t) \in Nat /\ ComStringTypeOK /\ StringHolds
      /\ stage = "made" /\ ~is_local /\ m_size < Len(m_data)
  BY TextsAre DEF StringInv, AppendLong, Appends
<1>1. PICK n \in Nat, d \in Nat, whole \in Nat :
          /\ n = m_size /\ d = Len(m_data) /\ whole = n + Len(t) /\ n < d
  <2>1. m_size \in Nat /\ Len(m_data) \in Nat /\ m_size + Len(t) \in Nat
    BY <1>0 DEF ComStringTypeOK
  <2> QED BY <1>0, <2>1
<1>2. n \in Nat \ {0} /\ whole \in Nat \ {0} /\ n <= whole /\ little_size \in Nat /\ little_size <= n
  BY <1>0, <1>1, ComStringAssumption DEF is_local
<1>3. PICK room \in Seq(Int) :
          /\ whole < Len(room) /\ SubSeq(room, 1, n) = SubSeq(m_data, 1, n)
          /\ m_data' = Placed(room, n, t \o <<0>>)
  <2>1. CASE d <= whole
    <3>1. PICK old \in Seq(Int) : /\ old = SubSeq(m_data, 1, n) /\ Len(old) = n
      <4>1. SubSeq(m_data, 1, n) \in Seq(Int) /\ Len(SubSeq(m_data, 1, n)) = n
        BY <1>0, <1>1 DEF ComStringTypeOK
      <4> QED BY <4>1
    <3>2. PICK room \in Seq(Int) : /\ room = Placed(Junks(suitable_size(whole)), 0, old)
                                   /\ whole < Len(room)
                                   /\ \A k \in 1 .. Len(room) : k - 0 \in 1 .. Len(old) => room[k] = old[k - 0]
      <4>1. /\ Junks(suitable_size(whole)) \in Seq(Int)
            /\ whole < Len(Junks(suitable_size(whole)))
        BY <1>2, RoomIs
      <4> QED BY <4>1, PlacedIs
    <3>3. SubSeq(room, 1, n) = old
      <4>1. PICK e \in Nat : e = Len(room) /\ n < e
        BY <1>2, <3>2
      <4>2. /\ SubSeq(room, 1, n) \in Seq(Int) /\ Len(SubSeq(room, 1, n)) = n
            /\ \A k \in 1 .. n : SubSeq(room, 1, n)[k] = room[k]
        BY <1>1, <4>1
      <4>3. ASSUME NEW k \in 1 .. n PROVE room[k] = old[k]
        <5>1. k \in 1 .. Len(room) /\ k - 0 \in 1 .. Len(old) /\ k - 0 = k
          BY <3>1, <4>1
        <5>2. room[k] = old[k - 0]
          BY <3>2, <5>1
        <5> QED BY <5>1, <5>2
      <4> QED BY <3>1, <4>2, <4>3, SeqEqual
    <3>4. m_data' = Placed(room, n, t \o <<0>>)
      BY <1>1, <2>1, <3>1, <3>2 DEF AppendLong
    <3> QED BY <3>1, <3>2, <3>3, <3>4
  <2>2. CASE ~(d <= whole)
    <3>1. m_data' = Placed(m_data, n, t \o <<0>>)
      BY <1>1, <2>2 DEF AppendLong
    <3>2. whole < Len(m_data) /\ m_data \in Seq(Int)
      BY <1>0, <1>1, <2>2 DEF ComStringTypeOK
    <3> QED BY <3>1, <3>2
  <2> QED BY <2>1, <2>2
<1>4. /\ m_size' = whole /\ stage' = "made" /\ text' = text \o t
      /\ flaws' = flaws \ {"unended"} /\ m_str' = m_str /\ held' = held
  BY <1>0, <1>1 DEF AppendLong
<1>5. /\ m_data' \in Seq(Int) /\ whole < Len(m_data')
      /\ SubSeq(m_data', 1, whole) = SubSeq(m_data, 1, n) \o t
      /\ m_data'[whole + 1] = 0
  <2>1. n + Len(t) < Len(room)
    BY <1>1, <1>3
  <2>2. /\ m_data' \in Seq(Int) /\ Len(m_data') = Len(room)
        /\ SubSeq(m_data', 1, n + Len(t)) = SubSeq(room, 1, n) \o t
        /\ m_data'[n + Len(t) + 1] = 0
    BY <1>0, <1>3, <2>1, PlacedText
  <2> QED BY <1>1, <1>3, <2>1, <2>2
<1>6. ~is_local' /\ data' = m_data' /\ data = m_data
  BY <1>0, <1>1, <1>2, <1>4 DEF is_local, data
<1>7. text \in Seq(Int) /\ text \o t \in Seq(Int) /\ Len(text \o t) = Len(text) + Len(t)
  BY <1>0 DEF ComStringTypeOK
<1>8. ComStringTypeOK'
  <2>1. flaws' \subseteq {"unended", "spilt", "leaky"}
    BY <1>0, <1>4 DEF ComStringTypeOK
  <2> QED BY <1>0, <1>2, <1>4, <1>5, <1>7, <2>1 DEF ComStringTypeOK
<1>9. "leaky" \notin flaws' => held' = 1
  BY <1>0, <1>4 DEF StringHolds
<1>10. ASSUME "spilt" \notin flaws' PROVE m_size' = Len(text') /\ SubSeq(data', 1, m_size') = text'
  <2>1. n = Len(text) /\ SubSeq(m_data, 1, n) = text
    BY <1>0, <1>1, <1>4, <1>6, <1>10 DEF StringHolds
  <2> QED BY <1>1, <1>4, <1>5, <1>6, <1>7, <2>1
<1>11. StringHolds'
  BY <1>4, <1>5, <1>6, <1>9, <1>10 DEF StringHolds
<1> QED BY <1>4, <1>5, <1>6, <1>8, <1>11 DEF StringInv

LEMMA ClearInv == StringInv /\ clear => StringInv'
<1> SUFFICES ASSUME StringInv, clear PROVE StringInv'
  OBVIOUS
<1>1. /\ stage = "made" /\ stage' = "made" /\ m_size' = 0 /\ m_data' = <<>> /\ text' = <<>>
      /\ held' = (IF is_local THEN held ELSE held - 1)
      /\ flaws' = (flaws \ {"spilt"}) \union {"unended"} /\ m_str' = m_str
  BY DEF clear
<1>2. 0 < little_size /\ little_size \in Nat /\ ComStringTypeOK /\ StringHolds
  BY ComStringAssumption DEF StringInv
<1>3. is_local' /\ data' = m_str
  BY <1>1, <1>2 DEF is_local, data
<1>4. /\ <<>> \in Seq(Int) /\ Len(<<>>) = 0 /\ SubSeq(m_str, 1, 0) = <<>>
  BY <1>2 DEF ComStringTypeOK
<1>5. ComStringTypeOK'
  <2>1. m_size' \in Nat /\ held' \in Int
    BY <1>1, <1>2 DEF ComStringTypeOK
  <2>2. flaws' \subseteq {"unended", "spilt", "leaky"}
    BY <1>1, <1>2 DEF ComStringTypeOK
  <2> QED BY <1>1, <1>2, <1>4, <2>1, <2>2 DEF ComStringTypeOK
<1>6. ASSUME "leaky" \notin flaws' PROVE held' = 0
  <2>1. "leaky" \notin flaws
    BY <1>1, <1>6
  <2>2. held = (IF is_local THEN 0 ELSE 1)
    BY <1>1, <1>2, <2>1 DEF StringHolds
  <2> QED BY <1>1, <2>2
<1>7. "unended" \in flaws'
  BY <1>1
<1>8. StringHolds'
  BY <1>1, <1>3, <1>4, <1>6, <1>7 DEF StringHolds
<1> QED BY <1>1, <1>3, <1>5, <1>8 DEF StringInv

LEMMA NextStringInv == StringInv /\ [ComStringNext]_comVars => StringInv'
<1> SUFFICES ASSUME StringInv, [ComStringNext]_comVars PROVE StringInv'
  OBVIOUS
<1>1. CASE UNCHANGED comVars
  BY <1>1 DEF StringInv, ComStringTypeOK, Fresh, StringHolds, is_local, data, comVars
<1>2. CASE \E short \in BOOLEAN : MoveConstruct(short) \/ \E t \in Texts : Construct(t, short)
  BY <1>2, MoveInv, ConstructInv
<1>3. CASE \E t \in Texts : AssignShort(t) \/ AssignOver(t) \/ AssignAnew(t)
  BY <1>3, AssignShortInv, AssignOverInv, AssignAnewInv
<1>4. CASE \E t \in Texts : AppendShort(t) \/ AppendSpill(t) \/ AppendLong(t)
  BY <1>4, AppendShortInv, AppendSpillInv, AppendLongInv
<1>5. CASE \E t \in Texts : NoMemory(t)
  BY <1>5, WildInv DEF NoMemory
<1> QED BY <1>1, <1>2, <1>3, <1>4, <1>5, DefaultInv, ClearInv DEF ComStringNext, ComStringStep, Over

\* The invariant behind the next theorem: a text that is not inside the object
\* (com_string.h) lies in memory that is longer than it, so that an append
\* that does not grow stays inside.
THEOREM ComStringInvariant == ComStringSpec => []StringInv
<1> QED BY InitStringInv, NextStringInv, PTL DEF ComStringSpec

\* com_string.cpp, for texts of any characters and lengths, any size of the
\* short text and any overlay: m_size alone says where the text is, it is the
\* text unless append spilt it, its end is behind it unless a move or clear
\* left it without, and there is one piece of memory for each pointer.
THEOREM ComStringHolds == ComStringSpec => []StringHolds
<1>1. StringInv => StringHolds
  BY DEF StringInv
<1> QED BY <1>1, ComStringInvariant, PTL

-----------------------------------------------------------------------------
(* memset, memcpy, memcmp and strlen. *)

\* What is asked for lies in memory, and the two places apart.
CallInv ==
    /\ call.fn \in {"memset", "memcpy", "memcmp", "strlen"}
    /\ call.len \in Lengths /\ (call.same \in Lengths \/ call.same = 0)
    /\ call.src \in Source .. Source + 7 /\ call.dst \in Target .. Target + 7

\* memset has set all but what lies between its pointer and the end, and in
\* its loop all but the last 28 bytes of that.
Set(a) == call.dst <= a /\ a < call.dst + call.len => mem[a] = Filler

SetInv ==
    /\ at \in {"memset", "words", "fill", "done"} /\ seen = {}
    /\ to \in Int /\ left \in Nat
    /\ call.dst <= to /\ to + left <= call.dst + call.len
    /\ \A a \in Cell : a < call.dst \/ call.dst + call.len <= a => mem[a] = a
    /\ at = "memset" => to = call.dst /\ left = call.len
    /\ at \in {"words", "fill"} => left % 4 = 0
    /\ at = "words" => left >= 4 /\ \A a \in Cell : Set(a) \/ (to <= a /\ a < to + left)
    /\ at = "fill" => \A a \in Cell : Set(a) \/ (to <= a /\ a < to + left - 28)
    /\ at = "done" => \A a \in Cell : Set(a)

\* memcpy has written what lies before its pointers and nothing else.
Copied(p) ==
    \A a \in Cell : mem[a] = IF call.dst <= a /\ a < p THEN (a - call.dst) + call.src ELSE a

\* What the bits of n that the tail has still to look at come to.
Rest(b, k) == IF b = 16 THEN k ELSE IF b = 8 THEN k % 16 ELSE IF b = 4 THEN k % 8
              ELSE IF b = 2 THEN k % 4 ELSE IF b = 1 THEN k % 2 ELSE 0

CopyInv ==
    /\ at \in {"memcpy", "blocks", "shift", "shifts", "tail", "done"}
    /\ from \in Int /\ to \in Int /\ left \in Nat
    /\ call.src <= from /\ from - call.src = to - call.dst
    /\ Copied(to)
    /\ \A a \in seen : call.src <= a /\ a < call.src + call.len /\ a \in Int
    /\ at \in {"memcpy", "blocks", "shift", "shifts"} => from + left = call.src + call.len
    /\ at = "shift" => bit = 16 /\ left >= 32 /\ from % 4 = 0 /\ to % 4 # 0
    /\ at = "shifts" => /\ bit = 16 /\ from % 4 # 0
                        /\ kept \in Seq(Int) /\ Len(kept) = 4
                        /\ \A i \in 1 .. 4 : kept[i] = (from - (from % 4)) + i - 1
    /\ at = "tail" => /\ bit \in {16, 8, 4, 2, 1, 0} /\ left < 32
                      /\ from + Rest(bit, left) = call.src + call.len
    /\ at = "done" => from = call.src + call.len

\* memcmp has seen nothing but equal bytes.
CompareInv ==
    /\ at \in {"memcmp", "done"}
    /\ from \in Int /\ to \in Int /\ left \in Nat
    /\ call.src <= from /\ from - call.src = to - call.dst /\ from + left = call.src + call.len
    /\ \A a \in Cell :
          mem[a] = IF call.dst <= a /\ a < call.dst + call.same THEN (a - call.dst) + call.src ELSE a
    /\ \A a \in seen : /\ a \in Int
                       /\ \/ call.src <= a /\ a < call.src + call.len
                          \/ call.dst <= a /\ a < call.dst + call.len
    /\ at = "memcmp" => from - call.src <= call.same /\ result = 0
    /\ at = "done" => (result = 0 <=> call.same >= call.len)

\* strlen has not passed the end.
MeasureInv ==
    /\ at \in {"strlen", "scan", "last", "done"}
    /\ from \in Int /\ call.src <= from /\ from <= call.src + call.len
    /\ \A a \in Cell : mem[a] = IF a = call.src + call.len THEN 0 ELSE a
    /\ \A a \in seen : a \in Int /\ call.src <= a /\ a \div 8 <= (call.src + call.len) \div 8
    /\ at = "scan" => from % 8 = 0
    /\ at = "done" => result = call.len

StringsInv ==
    /\ CallInv
    /\ call.fn = "memset" => SetInv
    /\ call.fn = "memcpy" => CopyInv
    /\ call.fn = "memcmp" => CompareInv
    /\ call.fn = "strlen" => MeasureInv

LEMMA StringPlaces ==
    ASSUME CallInv
    PROVE  /\ call.len \in Nat /\ call.src \in Nat /\ call.dst \in Nat /\ call.same \in Nat
           /\ \A a \in Int : call.src <= a /\ a < call.src + call.len + 8 => a \in Cell
           /\ \A a \in Int : call.dst <= a /\ a < call.dst + call.len + 8 => a \in Cell
           /\ \/ call.src + call.len + 8 <= call.dst
              \/ call.dst + call.len + 8 <= call.src
           /\ \/ call.src + call.len + 8 <= call.dst
              \/ call.dst + call.same + 8 <= call.src
           /\ \A a \in Cell : a \in Nat /\ a # 0 /\ a # Filler
<1>1. PICK k \in Lengths : k = call.len
  BY DEF CallInv
<1>2. /\ k \in Nat /\ Source \in Nat /\ Target \in Nat /\ MemorySize \in Nat
      /\ Filler \notin Cell
  BY StringAssumption
<1>3. /\ {Source, Source + 16 + k, Target, Target + 16 + k} \subseteq Cell
      /\ Source + 16 + k <= Target \/ Target + 16 + k <= Source
  BY StringAssumption
<1>4. /\ 1 <= Source /\ Source + 16 + k <= MemorySize /\ 1 <= Target /\ Target + 16 + k <= MemorySize
  BY <1>2, <1>3 DEF Cell
<1>5. PICK i \in 0 .. 7, j \in 0 .. 7 : call.src = Source + i /\ call.dst = Target + j
  <2>1. call.src \in Source .. Source + 7 /\ call.dst \in Target .. Target + 7
    BY DEF CallInv
  <2>2. call.src - Source \in 0 .. 7 /\ call.src = Source + (call.src - Source)
    BY <1>2, <2>1
  <2>3. call.dst - Target \in 0 .. 7 /\ call.dst = Target + (call.dst - Target)
    BY <1>2, <2>1
  <2> QED BY <2>2, <2>3
<1>6. \A a \in Int : call.src <= a /\ a < call.src + k + 8 => a \in Cell
  BY <1>2, <1>4, <1>5 DEF Cell
<1>7. \A a \in Int : call.dst <= a /\ a < call.dst + k + 8 => a \in Cell
  BY <1>2, <1>4, <1>5 DEF Cell
<1>8. call.src + k + 8 <= call.dst \/ call.dst + k + 8 <= call.src
  BY <1>2, <1>3, <1>5
<1>9. \A a \in Cell : a \in Nat /\ a # 0 /\ a # Filler
  BY <1>2 DEF Cell
<1>10. call.src \in Nat /\ call.dst \in Nat
  BY <1>2, <1>5
<1>11. PICK e \in Nat : /\ e = call.same
                        /\ e = 0 \/ Source + 16 + e <= Target \/ Target + 16 + e <= Source
  BY StringAssumption DEF CallInv
<1>12. call.src + k + 8 <= call.dst \/ call.dst + e + 8 <= call.src
  BY <1>2, <1>3, <1>5, <1>11
<1> QED BY <1>1, <1>2, <1>6, <1>7, <1>8, <1>9, <1>10, <1>11, <1>12

LEMMA StringInitInv == StringInit => StringsInv
<1> SUFFICES ASSUME StringInit PROVE StringsInv
  OBVIOUS
<1>1. CallInv
  <2>1. /\ call.fn \in {"memset", "memcpy", "memcmp", "strlen"}
        /\ call.len \in Lengths /\ (call.same \in Lengths \/ call.same = 0)
    BY StringAssumption DEF StringInit
  <2>2. Source \in Nat /\ Target \in Nat
    BY StringAssumption
  <2>3. call.src \in Source .. Source + 7
    <3>1. \/ call.src \in {Source} \/ call.src \in {Source + i : i \in 0 .. 3}
          \/ call.src \in {Source + i : i \in 0 .. 7}
      BY DEF StringInit
    <3> QED BY <2>2, <3>1
  <2>4. call.dst \in Target .. Target + 7
    <3>1. \/ call.dst \in {Target} \/ call.dst \in {Target + i : i \in 0 .. 3}
          \/ call.dst \in {Target + i : i \in 0 .. 7}
      BY DEF StringInit
    <3> QED BY <2>2, <3>1
  <2> QED BY <2>1, <2>3, <2>4 DEF CallInv
<1>2. /\ call.len \in Nat /\ call.src \in Nat /\ call.dst \in Nat /\ call.same \in Nat
      /\ \A a \in Cell : a \in Nat
  BY <1>1, StringPlaces
<1>3. /\ at = call.fn /\ from = call.src /\ to = call.dst /\ left = call.len
      /\ result = 0 /\ seen = {}
  BY DEF StringInit
<1>4. mem = [a \in Cell |->
                CASE call.fn = "strlen" /\ a = call.src + call.len -> 0
                  [] call.fn = "memcmp" /\ a \in Region(call.dst, call.same)
                        -> (a - call.dst) + call.src
                  [] OTHER -> a]
  BY DEF StringInit
<1>5. ASSUME call.fn = "memset" PROVE SetInv
  BY <1>2, <1>3, <1>4, <1>5 DEF SetInv
<1>6. ASSUME call.fn = "memcpy" PROVE CopyInv
  <2>1. \A a \in Cell : mem[a] = a
    BY <1>4, <1>6
  <2>2. Copied(to)
    BY <1>2, <1>3, <2>1 DEF Copied
  <2> QED BY <1>2, <1>3, <1>6, <2>2 DEF CopyInv
<1>7. ASSUME call.fn = "memcmp" PROVE CompareInv
  <2>1. \A a \in Cell :
          mem[a] = IF call.dst <= a /\ a < call.dst + call.same THEN (a - call.dst) + call.src ELSE a
    BY <1>2, <1>4, <1>7 DEF Region
  <2> QED BY <1>2, <1>3, <1>7, <2>1 DEF CompareInv
<1>8. ASSUME call.fn = "strlen" PROVE MeasureInv
  <2>1. \A a \in Cell : mem[a] = IF a = call.src + call.len THEN 0 ELSE a
    BY <1>4, <1>8
  <2> QED BY <1>2, <1>3, <1>8, <2>1 DEF MeasureInv
<1> QED BY <1>1, <1>5, <1>6, <1>7, <1>8 DEF StringsInv

\* memset.
LEMMA FillIs ==
    ASSUME NEW offsets \in SUBSET Int, to \in Int, Cell \subseteq Int, Fill(offsets)
    PROVE  \A a \in Cell : mem'[a] = IF a - to \in offsets THEN Filler ELSE mem[a]
<1> SUFFICES ASSUME NEW a \in Cell
             PROVE  mem'[a] = IF a - to \in offsets THEN Filler ELSE mem[a]
  OBVIOUS
<1>1. mem'[a] = IF \E i \in offsets : a = to + i THEN Filler ELSE mem[a]
  BY DEF Fill
<1>2. (\E i \in offsets : a = to + i) <=> a - to \in offsets
  <2>1. a \in Int
    OBVIOUS
  <2>2. a = to + (a - to)
    BY <2>1
  <2>3. ASSUME NEW i \in offsets, a = to + i PROVE a - to = i
    BY <2>1, <2>3
  <2> QED BY <2>2, <2>3
<1> QED BY <1>1, <1>2

LEMMA FillBytesInv == CallInv /\ SetInv /\ FillBytes => SetInv'
<1> SUFFICES ASSUME CallInv, SetInv, FillBytes PROVE SetInv'
  OBVIOUS
<1>1. /\ at = "memset" /\ to = call.dst /\ left = call.len /\ call' = call /\ seen' = seen
      /\ seen = {}
      /\ \A a \in Cell : a < call.dst \/ call.dst + call.len <= a => mem[a] = a
  BY DEF FillBytes, SetInv
<1>2. PICK D \in Nat, L \in Nat : D = call.dst /\ L = call.len
  BY StringPlaces
<1>3. \A a \in Cell : a \in Int
  BY StringPlaces
<1> DEFINE offsets == UNION {IF L > 0 THEN {0, L - 1} ELSE {},
                             IF L > 2 THEN {1, 2, L - 2, L - 3} ELSE {},
                             IF L > 6 THEN {3, L - 4} ELSE {}}
<1>4. \A x \in Int : x \in offsets <=> \/ L > 0 /\ (x = 0 \/ x = L - 1)
                                       \/ L > 2 /\ (x = 1 \/ x = 2 \/ x = L - 2 \/ x = L - 3)
                                       \/ L > 6 /\ (x = 3 \/ x = L - 4)
  OBVIOUS
<1>5. offsets \in SUBSET Int /\ Fill(offsets)
  BY <1>1, <1>2 DEF FillBytes
<1> HIDE DEF offsets
<1>6. \A a \in Cell : mem'[a] = IF a - D \in offsets THEN Filler ELSE mem[a]
  BY <1>1, <1>2, <1>3, <1>5, FillIs
<1>7. \A a \in Cell : a < D \/ D + L <= a => mem'[a] = a
  BY <1>1, <1>2, <1>3, <1>4, <1>6
<1>8. CASE L <= 8
  <2>1. at' = "done" /\ to' = D /\ left' = L
    BY <1>1, <1>2, <1>8 DEF FillBytes
  <2>2. ASSUME NEW a \in Cell, D <= a, a < D + L PROVE mem'[a] = Filler
    <3>1. PICK x \in Int : x = a - D /\ 0 <= x /\ x < L
      BY <1>3, <2>2, a - D \in Int
    <3>2. x \in offsets
      BY ONLY <1>4, <1>8, <3>1, L \in Nat, x \in Int
    <3> QED BY <1>6, <3>1, <3>2
  <2> QED BY <1>1, <1>2, <1>7, <2>1, <2>2 DEF SetInv, Set
<1>9. CASE ~(L <= 8)
  <2>1. PICK k \in 0 .. 3 : k = (4 - (D % 4)) % 4
    OBVIOUS
  <2>2. at' = "words" /\ to' = D + k /\ left' = 4 * ((L - k) \div 4)
    BY <1>1, <1>2, <1>9, <2>1 DEF FillBytes
  <2>3. PICK m \in Nat : m = (L - k) \div 4 /\ 4 * m <= L - k /\ L - k < 4 * m + 4
    BY <1>9
  <2>4. left' = 4 * m /\ (4 * m) % 4 = 0 /\ m >= 1
    BY <1>9, <2>2, <2>3
  <2>5. ASSUME NEW a \in Cell, D <= a, a < D + L, a < D + k \/ D + k + 4 * m <= a
        PROVE  mem'[a] = Filler
    <3>1. PICK x \in Int : x = a - D /\ 0 <= x /\ x < L /\ (x < k \/ k + 4 * m <= x)
      BY <1>3, <2>5, a - D \in Int
    <3>2. x < 3 \/ x > L - 4
      BY ONLY <2>3, <3>1, L \in Nat, k \in 0 .. 3, m \in Nat, x \in Int
    <3>3. x \in offsets
      BY ONLY <1>4, <1>9, <3>1, <3>2, L \in Nat, x \in Int
    <3> QED BY <1>6, <3>1, <3>3
  <2>6. \A a \in Cell : Set(a)' \/ (to' <= a /\ a < to' + left')
    BY <1>1, <1>2, <1>3, <2>2, <2>4, <2>5 DEF Set
  <2>7. to' \in Int /\ left' \in Nat /\ D <= to' /\ to' + left' <= D + L
    BY <2>2, <2>3, <2>4
  <2> QED BY <1>1, <1>2, <1>7, <2>2, <2>4, <2>6, <2>7 DEF SetInv
<1> QED BY <1>8, <1>9

LEMMA FillWordsInv == CallInv /\ SetInv /\ FillWords => SetInv'
<1> SUFFICES ASSUME CallInv, SetInv, FillWords PROVE SetInv'
  OBVIOUS
<1>1. /\ at = "words" /\ call' = call /\ seen' = seen /\ seen = {}
      /\ \A a \in Cell : a < call.dst \/ call.dst + call.len <= a => mem[a] = a
  BY DEF FillWords, SetInv
<1>2. PICK D \in Nat, L \in Nat : D = call.dst /\ L = call.len
  BY StringPlaces
<1>3. \A a \in Cell : a \in Int
  BY StringPlaces
<1>4. PICK p \in Int, k \in Nat : /\ p = to /\ k = left /\ k % 4 = 0 /\ k >= 4 /\ D <= p
                                  /\ p + k <= D + L
  BY <1>1, <1>2 DEF SetInv
<1>5. \A a \in Cell : Set(a) \/ (p <= a /\ a < p + k)
  BY <1>1, <1>4 DEF SetInv
<1> DEFINE starts == UNION {{0, k - 4},
                            IF k > 8 THEN {4, 8, k - 12, k - 8} ELSE {},
                            IF k > 24 THEN {12, 16, 20, 24, k - 28, k - 24, k - 20, k - 16}
                            ELSE {}}
           offsets == Words(starts)
<1>6. \A x \in Int : x \in starts <=>
         \/ x = 0 \/ x = k - 4
         \/ k > 8 /\ (x = 4 \/ x = 8 \/ x = k - 12 \/ x = k - 8)
         \/ k > 24 /\ \/ x = 12 \/ x = 16 \/ x = 20 \/ x = 24
                      \/ x = k - 28 \/ x = k - 24 \/ x = k - 20 \/ x = k - 16
  OBVIOUS
<1>7. Fill(offsets) /\ starts \in SUBSET Int
  BY <1>4 DEF FillWords
<1> HIDE DEF starts
<1>8. \A x : x \in offsets <=> \E i \in starts : x \in i .. i + 3
  BY DEF Words
<1>9. offsets \in SUBSET Int
  BY <1>7, <1>8
<1> HIDE DEF offsets
<1>10. \A a \in Cell : mem'[a] = IF a - p \in offsets THEN Filler ELSE mem[a]
  BY <1>3, <1>4, <1>7, <1>9, FillIs
\* The words lie between the pointer and the end.
<1>11. \A x \in offsets : 0 <= x /\ x < k
  <2> SUFFICES ASSUME NEW x \in offsets PROVE 0 <= x /\ x < k
    OBVIOUS
  <2>1. PICK i \in starts : x \in i .. i + 3
    BY <1>8
  <2>2. i \in Int
    BY <1>7
  <2>3. k > 8 => k >= 12
    BY <1>4
  <2>4. k > 24 => k >= 28
    BY <1>4
  <2>5. 0 <= i /\ i + 3 < k
    BY <1>4, <1>6, <2>2, <2>3, <2>4
  <2> QED BY <2>1, <2>2, <2>5
<1>12. \A a \in Cell : a < D \/ D + L <= a => mem'[a] = a
  BY <1>1, <1>2, <1>3, <1>4, <1>10, <1>11
<1>13. \A a \in Cell : Set(a)' \/ (p <= a /\ a < p + k /\ a - p \notin offsets)
  <2> SUFFICES ASSUME NEW a \in Cell
               PROVE  Set(a)' \/ (p <= a /\ a < p + k /\ a - p \notin offsets)
    OBVIOUS
  <2>1. Set(a) \/ (p <= a /\ a < p + k)
    BY <1>5
  <2>2. mem'[a] = IF a - p \in offsets THEN Filler ELSE mem[a]
    BY <1>10
  <2> QED BY <1>1, <2>1, <2>2 DEF Set
\* A byte lies in the words if one starts at most three before it.
<1>14. ASSUME NEW x \in Int, NEW i \in Int, i \in starts, i <= x, x <= i + 3
       PROVE  x \in offsets
  BY <1>8, <1>14
<1>15. CASE k <= 24
  <2>1. at' = "done" /\ to' = p /\ left' = k
    BY <1>4, <1>15 DEF FillWords
  <2>2. ASSUME NEW x \in Int, 0 <= x, x < k PROVE x \in offsets
    <3>1. CASE k <= 8
      <4>1. 0 \in starts /\ k - 4 \in starts
        BY <1>6
      <4>2. x <= 3 \/ (k - 4 <= x /\ x <= (k - 4) + 3)
        BY <2>2, <3>1
      <4> QED BY <1>14, <2>2, <4>1, <4>2
    <3>2. CASE k > 8
      <4>1. /\ 0 \in starts /\ 4 \in starts /\ 8 \in starts
            /\ k - 12 \in starts /\ k - 8 \in starts /\ k - 4 \in starts
        BY <1>6, <3>2
      <4>2. CASE x < 12
        <5>1. (0 <= x /\ x <= 0 + 3) \/ (4 <= x /\ x <= 4 + 3) \/ (8 <= x /\ x <= 8 + 3)
          BY <2>2, <4>2
        <5> QED BY <1>14, <4>1, <5>1
      <4>3. CASE ~(x < 12)
        <5>1. \/ k - 12 <= x /\ x <= (k - 12) + 3
              \/ k - 8 <= x /\ x <= (k - 8) + 3
              \/ k - 4 <= x /\ x <= (k - 4) + 3
          BY <1>15, <2>2, <4>3
        <5> QED BY <1>14, <4>1, <5>1
      <4> QED BY <4>2, <4>3
    <3> QED BY <3>1, <3>2
  <2>3. \A a \in Cell : Set(a)'
    <3> SUFFICES ASSUME NEW a \in Cell PROVE Set(a)'
      OBVIOUS
    <3>1. p <= a /\ a < p + k => a - p \in offsets
      BY <1>3, <2>2
    <3> QED BY <1>13, <3>1
  <2> QED BY <1>1, <1>2, <1>4, <1>12, <2>1, <2>3 DEF SetInv
<1>16. CASE ~(k <= 24)
  <2>1. PICK e \in {24, 28} : e = 24 + (IF p % 8 >= 4 THEN 4 ELSE 0)
    OBVIOUS
  <2>2. at' = "fill" /\ to' = p + e /\ left' = k - e
    BY <1>4, <1>16, <2>1 DEF FillWords
  <2>3. k >= 28 /\ (k - e) % 4 = 0 /\ k - e \in Nat
    BY <1>4, <1>16
  <2>4. ASSUME NEW x \in Int, 0 <= x, x < k, x < 28 \/ k - 28 <= x PROVE x \in offsets
    <3>1. /\ 0 \in starts /\ 4 \in starts /\ 8 \in starts /\ 12 \in starts
          /\ 16 \in starts /\ 20 \in starts /\ 24 \in starts
      BY <1>6, <1>16
    <3>2. /\ k - 28 \in starts /\ k - 24 \in starts /\ k - 20 \in starts /\ k - 16 \in starts
          /\ k - 12 \in starts /\ k - 8 \in starts /\ k - 4 \in starts
      BY <1>6, <1>16
    <3>3. CASE x < 28
      <4>1. \/ (0 <= x /\ x <= 0 + 3) \/ (4 <= x /\ x <= 4 + 3) \/ (8 <= x /\ x <= 8 + 3)
            \/ (12 <= x /\ x <= 12 + 3) \/ (16 <= x /\ x <= 16 + 3) \/ (20 <= x /\ x <= 20 + 3)
            \/ (24 <= x /\ x <= 24 + 3)
        BY <2>4, <3>3
      <4> QED BY <1>14, <3>1, <4>1
    <3>4. CASE k - 28 <= x
      <4>1. \/ (k - 28 <= x /\ x <= (k - 28) + 3) \/ (k - 24 <= x /\ x <= (k - 24) + 3)
            \/ (k - 20 <= x /\ x <= (k - 20) + 3) \/ (k - 16 <= x /\ x <= (k - 16) + 3)
            \/ (k - 12 <= x /\ x <= (k - 12) + 3) \/ (k - 8 <= x /\ x <= (k - 8) + 3)
            \/ (k - 4 <= x /\ x <= (k - 4) + 3)
        BY <2>4, <3>4
      <4> QED BY <1>14, <3>2, <4>1
    <3> QED BY <2>4, <3>3, <3>4
  <2>5. \A a \in Cell : Set(a)' \/ (to' <= a /\ a < to' + left' - 28)
    <3> SUFFICES ASSUME NEW a \in Cell, ~Set(a)' PROVE to' <= a /\ a < to' + left' - 28
      OBVIOUS
    <3>1. PICK x \in Int : x = a - p /\ 0 <= x /\ x < k /\ x \notin offsets
      BY <1>3, <1>13, a - p \in Int
    <3>2. 28 <= x /\ x < k - 28
      BY <2>4, <3>1
    <3>3. a \in Int /\ a = p + x
      BY <1>3, <3>1
    <3> QED BY <2>1, <2>2, <3>2, <3>3
  <2>6. to' \in Int /\ left' \in Nat /\ D <= to' /\ to' + left' <= D + L
    BY <1>4, <2>1, <2>2, <2>3
  <2> QED BY <1>1, <1>2, <1>12, <2>2, <2>3, <2>5, <2>6 DEF SetInv
<1> QED BY <1>15, <1>16

LEMMA FillLoopInv == CallInv /\ SetInv /\ FillLoop => SetInv'
<1> SUFFICES ASSUME CallInv, SetInv, FillLoop PROVE SetInv'
  OBVIOUS
<1>1. /\ at = "fill" /\ call' = call /\ seen' = seen /\ seen = {}
      /\ \A a \in Cell : a < call.dst \/ call.dst + call.len <= a => mem[a] = a
  BY DEF FillLoop, SetInv
<1>2. PICK D \in Nat, L \in Nat : D = call.dst /\ L = call.len
  BY StringPlaces
<1>3. \A a \in Cell : a \in Int
  BY StringPlaces
<1>4. PICK p \in Int, k \in Nat : p = to /\ k = left /\ k % 4 = 0 /\ D <= p /\ p + k <= D + L
  BY <1>1, <1>2 DEF SetInv
<1>5. \A a \in Cell : Set(a) \/ (p <= a /\ a < p + k - 28)
  BY <1>1, <1>4 DEF SetInv
<1>6. CASE k >= 32
  <2>1. Fill(0 .. 31) /\ to' = p + 32 /\ left' = k - 32 /\ at' = "fill"
    BY <1>1, <1>4, <1>6 DEF FillLoop
  <2>2. \A a \in Cell : mem'[a] = IF a - p \in 0 .. 31 THEN Filler ELSE mem[a]
    BY <1>3, <1>4, <2>1, FillIs
  <2>3. \A a \in Cell : a < D \/ D + L <= a => mem'[a] = a
    BY <1>1, <1>2, <1>3, <1>4, <1>6, <2>2
  <2>4. \A a \in Cell : Set(a)' \/ (to' <= a /\ a < to' + left' - 28)
    <3> SUFFICES ASSUME NEW a \in Cell, ~Set(a)' PROVE to' <= a /\ a < to' + left' - 28
      OBVIOUS
    <3>1. mem'[a] = IF a - p \in 0 .. 31 THEN Filler ELSE mem[a]
      BY <2>2
    <3>2. mem'[a] # Filler
      BY DEF Set
    <3>3. ~Set(a)
      BY <1>1, <3>1, <3>2 DEF Set
    <3>4. a \in Int /\ p <= a /\ a < p + k - 28 /\ a - p \notin 0 .. 31
      BY <1>3, <1>5, <3>1, <3>2, <3>3
    <3> QED BY <1>4, <2>1, <3>4
  <2>5. to' \in Int /\ left' \in Nat /\ left' % 4 = 0 /\ D <= to' /\ to' + left' <= D + L
    BY <1>4, <1>6, <2>1
  <2> QED BY <1>1, <1>2, <2>1, <2>3, <2>4, <2>5 DEF SetInv
<1>7. CASE ~(k >= 32)
  <2>1. at' = "done" /\ mem' = mem /\ to' = p /\ left' = k
    BY <1>4, <1>7 DEF FillLoop
  <2>2. k <= 28
    BY <1>4, <1>7
  <2>3. \A a \in Cell : Set(a)
    BY <1>3, <1>4, <1>5, <2>2
  <2>4. \A a \in Cell : Set(a)'
    BY <1>1, <2>1, <2>3 DEF Set
  <2> QED BY <1>1, <1>2, <1>4, <2>1, <2>4 DEF SetInv
<1> QED BY <1>6, <1>7

\* memcpy.  What is stored is what the source has, if that is what it should be.
LEMMA StoreCopies ==
    ASSUME CallInv, CopyInv, NEW k \in Nat, NEW q \in Seq(Int), Len(q) = k,
           \A i \in 1 .. k : q[i] = from + i - 1,
           Store(q), call' = call, to' = to + k
    PROVE  Copied(to)'
<1>1. PICK D \in Nat, b \in Nat : D = call.dst /\ b = call.src
  BY StringPlaces
<1>2. \A a \in Cell : a \in Int
  BY StringPlaces
<1>3. PICK f \in Int, t \in Int : f = from /\ t = to /\ f - b = t - D /\ b <= f
  BY <1>1 DEF CopyInv
<1>4. \A a \in Cell : mem[a] = IF D <= a /\ a < t THEN (a - D) + b ELSE a
  BY <1>1, <1>3 DEF CopyInv, Copied
<1>5. \A a \in Cell : mem'[a] = IF a \in t .. (t + k) - 1 THEN q[(a - t) + 1] ELSE mem[a]
  BY <1>3 DEF Store
<1>6. \A a \in Cell : mem'[a] = IF D <= a /\ a < t + k THEN (a - D) + b ELSE a
  <2> SUFFICES ASSUME NEW a \in Cell
               PROVE  mem'[a] = IF D <= a /\ a < t + k THEN (a - D) + b ELSE a
    OBVIOUS
  <2>1. a \in Int /\ D <= t
    BY <1>2, <1>3
  <2>2. CASE a \in t .. (t + k) - 1
    <3>1. (a - t) + 1 \in 1 .. k
      BY <2>1, <2>2
    <3>2. q[(a - t) + 1] = f + ((a - t) + 1) - 1
      BY <1>3, <3>1
    <3>3. f + ((a - t) + 1) - 1 = (a - D) + b /\ D <= a /\ a < t + k
      BY <1>3, <2>1, <2>2
    <3> QED BY <1>5, <2>2, <3>2, <3>3
  <2>3. CASE a \notin t .. (t + k) - 1
    <3>1. (D <= a /\ a < t + k) <=> (D <= a /\ a < t)
      BY <2>1, <2>3
    <3> QED BY <1>4, <1>5, <2>3, <3>1
  <2> QED BY <2>2, <2>3
<1>7. to' = t + k
  BY <1>3
<1> QED BY <1>1, <1>6, <1>7 DEF Copied

\* A read inside the source, and before that, of memory as it was.
LEMMA ReadIs ==
    ASSUME CallInv, CopyInv, NEW p \in Int, NEW k \in Nat, call.src <= p,
           p + k <= call.src + call.len
    PROVE  /\ Read(p, k) \in Seq(Int) /\ Len(Read(p, k)) = k
           /\ \A i \in 1 .. k : Read(p, k)[i] = p + i - 1
           /\ \A a \in Region(p, k) : a \in Int /\ call.src <= a /\ a < call.src + call.len
<1>1. PICK D \in Nat, b \in Nat, L \in Nat : D = call.dst /\ b = call.src /\ L = call.len
  BY StringPlaces
<1>2. \A a \in Int : b <= a /\ a < b + L + 8 => a \in Cell
  BY <1>1, StringPlaces
<1>3. b + L + 8 <= D \/ D + L + 8 <= b
  BY <1>1, StringPlaces
<1>4. PICK f \in Int, t \in Int : f = from /\ t = to /\ f - b = t - D /\ f <= b + L
  <2>1. from \in Int /\ to \in Int /\ from - b = to - D
    BY <1>1 DEF CopyInv
  <2>2. from <= b + L
    <3>1. at \in {"memcpy", "blocks", "shift", "shifts"} => from + left = b + L /\ left \in Nat
      BY <1>1 DEF CopyInv
    <3>2. at = "tail" => from + Rest(bit, left) = b + L /\ Rest(bit, left) \in Nat
      <4>1. left \in Nat
        BY DEF CopyInv
      <4>2. Rest(bit, left) \in Nat
        BY <4>1 DEF Rest
      <4> QED BY <1>1, <4>2 DEF CopyInv
    <3>3. at = "done" => from = b + L
      BY <1>1 DEF CopyInv
    <3>4. at \in {"memcpy", "blocks", "shift", "shifts", "tail", "done"}
      BY DEF CopyInv
    <3> QED BY <1>1, <2>1, <3>1, <3>2, <3>3, <3>4
  <2> QED BY <2>1, <2>2
<1>5. \A a \in Cell : mem[a] = IF D <= a /\ a < t THEN (a - D) + b ELSE a
  BY <1>1, <1>4 DEF CopyInv, Copied
<1>6. \A a \in Int : b <= a /\ a < b + L => mem[a] = a
  <2> SUFFICES ASSUME NEW a \in Int, b <= a, a < b + L PROVE mem[a] = a
    OBVIOUS
  <2>1. a \in Cell
    BY <1>2
  <2>2. ~(D <= a /\ a < t)
    BY <1>3, <1>4
  <2> QED BY <1>5, <2>1, <2>2
<1>7. ASSUME NEW i \in 1 .. k PROVE mem[(p + i) - 1] = p + i - 1
  <2>1. PICK a \in Int : a = (p + i) - 1 /\ b <= a /\ a < b + L
    BY <1>1, (p + i) - 1 \in Int
  <2> QED BY <1>6, <2>1
<1>8. \A i \in 1 .. k : Read(p, k)[i] = p + i - 1
  BY <1>7 DEF Read
<1>9. Read(p, k) \in [1 .. k -> Int]
  BY <1>7 DEF Read
<1>10. Read(p, k) \in Seq(Int) /\ DOMAIN Read(p, k) = 1 .. k
  BY <1>9, SeqDef
<1>11. Len(Read(p, k)) = k
  <2>1. Len(Read(p, k)) \in Nat /\ DOMAIN Read(p, k) = 1 .. Len(Read(p, k))
    BY <1>10, LenProperties
  <2> QED BY <1>10, <2>1
<1>12. \A a \in Region(p, k) : a \in Int /\ call.src <= a /\ a < call.src + call.len
  BY <1>1 DEF Region
<1> QED BY <1>8, <1>10, <1>11, <1>12

\* A piece of k bytes that is still to be copied.
LEMMA CopyPiece ==
    ASSUME CallInv, CopyInv, NEW k \in Nat, from + k <= call.src + call.len, Move(k), call' = call
    PROVE  /\ Copied(to)' /\ from' = from + k
           /\ from' \in Int /\ to' \in Int /\ call.src <= from'
           /\ from' - call.src = to' - call.dst
<1>1. /\ from \in Int /\ to \in Int /\ call.src <= from /\ from - call.src = to - call.dst
      /\ call.src \in Int /\ call.dst \in Int
  BY StringPlaces DEF CopyInv
<1>2. /\ Read(from, k) \in Seq(Int) /\ Len(Read(from, k)) = k
      /\ \A i \in 1 .. k : Read(from, k)[i] = from + i - 1
  BY <1>1, ReadIs
<1>3. Store(Read(from, k)) /\ from' = from + k /\ to' = to + k
  BY DEF Move
<1>4. Copied(to)'
  BY <1>2, <1>3, StoreCopies
<1>5. /\ from' \in Int /\ to' \in Int /\ call.src <= from'
      /\ from' - call.src = to' - call.dst
  BY <1>1, <1>3
<1> QED BY <1>3, <1>4, <1>5

LEMMA CopyHeadInv == CallInv /\ CopyInv /\ CopyHead => CopyInv'
<1> SUFFICES ASSUME CallInv, CopyInv, CopyHead PROVE CopyInv'
  OBVIOUS
<1>1. at = "memcpy" /\ call' = call /\ kept' = kept
  BY DEF CopyHead
<1>2. PICK b \in Nat, L \in Nat, D \in Nat : b = call.src /\ L = call.len /\ D = call.dst
  BY StringPlaces
<1>3. PICK f \in Int, t \in Int, n \in Nat :
         f = from /\ t = to /\ n = left /\ f + n = b + L /\ b <= f /\ f - b = t - D
  BY <1>1, <1>2 DEF CopyInv
<1>4. \A a \in seen : b <= a /\ a < b + L /\ a \in Int
  BY <1>2 DEF CopyInv
<1>5. CASE f % 4 # 0 /\ n > 0
  <2>1. Move(1) /\ seen' = seen \union Region(f, 1) /\ left' = n - 1 /\ at' = "memcpy"
    BY <1>1, <1>3, <1>5 DEF CopyHead, Copy
  <2>2. /\ Copied(to)' /\ from' = f + 1 /\ from' \in Int /\ to' \in Int /\ call.src <= from'
        /\ from' - call.src = to' - call.dst
    <3>1. from + 1 <= call.src + call.len
      BY <1>2, <1>3, <1>5
    <3> QED BY <1>1, <1>3, <2>1, <3>1, CopyPiece
  <2>3. \A a \in seen' : b <= a /\ a < b + L /\ a \in Int
    BY <1>3, <1>4, <1>5, <2>1 DEF Region
  <2>4. left' \in Nat /\ from' + left' = b + L
    BY <1>3, <1>5, <2>1, <2>2
  <2> QED BY <1>1, <1>2, <2>1, <2>2, <2>3, <2>4 DEF CopyInv
<1>6. CASE ~(f % 4 # 0 /\ n > 0)
  <2>1. /\ UNCHANGED <<mem, seen, from, to, left>> /\ bit' = 16
        /\ at' = CASE t % 4 = 0            -> "blocks"
                   [] t % 4 # 0 /\ n >= 32 -> "shift"
                   [] t % 4 # 0 /\ n < 32  -> "tail"
    BY <1>1, <1>3, <1>6 DEF CopyHead
  <2>2. /\ at' \in {"blocks", "shift", "tail"}
        /\ at' = "shift" => n >= 32 /\ f % 4 = 0 /\ t % 4 # 0
        /\ at' = "tail" => n < 32
    BY <1>3, <1>6, <2>1
  <2>3. Copied(to)'
    BY <1>1, <2>1 DEF CopyInv, Copied
  <2>4. Rest(16, n) = n
    BY DEF Rest
  <2>5. from' = f /\ to' = t /\ left' = n /\ seen' = seen
    BY <1>3, <2>1
  <2> QED BY <1>1, <1>2, <1>3, <1>4, <2>1, <2>2, <2>3, <2>4, <2>5 DEF CopyInv
<1> QED BY <1>5, <1>6

LEMMA CopyBlocksInv == CallInv /\ CopyInv /\ CopyBlocks => CopyInv'
<1> SUFFICES ASSUME CallInv, CopyInv, CopyBlocks PROVE CopyInv'
  OBVIOUS
<1>1. at = "blocks" /\ call' = call /\ kept' = kept
  BY DEF CopyBlocks
<1>2. PICK b \in Nat, L \in Nat, D \in Nat : b = call.src /\ L = call.len /\ D = call.dst
  BY StringPlaces
<1>3. PICK f \in Int, t \in Int, n \in Nat :
         f = from /\ t = to /\ n = left /\ f + n = b + L /\ b <= f /\ f - b = t - D
  BY <1>1, <1>2 DEF CopyInv
<1>4. \A a \in seen : b <= a /\ a < b + L /\ a \in Int
  BY <1>2 DEF CopyInv
<1>5. CASE n >= 16
  <2>1. Move(16) /\ seen' = seen \union Region(f, 16) /\ left' = n - 16 /\ at' = "blocks"
    BY <1>1, <1>3, <1>5 DEF CopyBlocks, Copy
  <2>2. /\ Copied(to)' /\ from' = f + 16 /\ from' \in Int /\ to' \in Int /\ call.src <= from'
        /\ from' - call.src = to' - call.dst
    <3>1. from + 16 <= call.src + call.len
      BY <1>2, <1>3, <1>5
    <3> QED BY <1>1, <1>3, <2>1, <3>1, CopyPiece
  <2>3. \A a \in seen' : b <= a /\ a < b + L /\ a \in Int
    BY <1>3, <1>4, <1>5, <2>1 DEF Region
  <2>4. left' \in Nat /\ from' + left' = b + L
    BY <1>3, <1>5, <2>1, <2>2
  <2> QED BY <1>1, <1>2, <2>1, <2>2, <2>3, <2>4 DEF CopyInv
<1>6. CASE ~(n >= 16)
  <2>1. UNCHANGED <<mem, seen, from, to, left>> /\ bit' = 8 /\ at' = "tail"
    BY <1>1, <1>3, <1>6 DEF CopyBlocks
  <2>2. Copied(to)'
    BY <1>1, <2>1 DEF CopyInv, Copied
  <2>3. Rest(8, n) = n
    BY <1>6 DEF Rest
  <2>4. from' = f /\ to' = t /\ left' = n /\ seen' = seen
    BY <1>3, <2>1
  <2> QED BY <1>1, <1>2, <1>3, <1>4, <1>6, <2>1, <2>2, <2>3, <2>4 DEF CopyInv
<1> QED BY <1>5, <1>6

\* The bytes up to an aligned destination go out, the word they are of is kept.
LEMMA BeginShiftInv == CallInv /\ CopyInv /\ BeginShift => CopyInv'
<1> SUFFICES ASSUME CallInv, CopyInv, BeginShift PROVE CopyInv'
  OBVIOUS
<1>1. at = "shift" /\ call' = call /\ at' = "shifts" /\ kept' = Read(from, 4)
  BY DEF BeginShift
<1>2. PICK b \in Nat, L \in Nat, D \in Nat : b = call.src /\ L = call.len /\ D = call.dst
  BY StringPlaces
<1>3. PICK f \in Int, t \in Int, n \in Nat :
         f = from /\ t = to /\ n = left /\ f + n = b + L /\ b <= f /\ f - b = t - D
  BY <1>1, <1>2 DEF CopyInv
<1>4. \A a \in seen : b <= a /\ a < b + L /\ a \in Int
  BY <1>2 DEF CopyInv
<1>5. bit' = 16 /\ n >= 32 /\ f % 4 = 0 /\ t % 4 # 0
  BY <1>1, <1>3 DEF BeginShift, CopyInv
<1>6. PICK k \in 1 .. 3 : k = 4 - (t % 4)
  BY <1>5
<1>7. Move(k) /\ left' = n - k /\ seen' = seen \union Region(f, 4)
  BY <1>3, <1>6 DEF BeginShift
<1>8. /\ Copied(to)' /\ from' = f + k /\ from' \in Int /\ to' \in Int /\ call.src <= from'
      /\ from' - call.src = to' - call.dst
  <2>1. from + k <= call.src + call.len /\ k \in Nat
    BY <1>2, <1>3, <1>5
  <2> QED BY <1>1, <1>3, <1>7, <2>1, CopyPiece
<1>9. /\ kept' \in Seq(Int) /\ Len(kept') = 4 /\ \A i \in 1 .. 4 : kept'[i] = f + i - 1
  <2>1. call.src <= f /\ f + 4 <= call.src + call.len /\ kept' = Read(f, 4)
    BY <1>1, <1>2, <1>3, <1>5
  <2> QED BY <2>1, ReadIs
<1>10. from' - (from' % 4) = f /\ from' % 4 # 0
  BY <1>5, <1>8
<1>11. \A a \in seen' : b <= a /\ a < b + L /\ a \in Int
  BY <1>3, <1>4, <1>5, <1>7 DEF Region
<1>12. left' \in Nat /\ from' + left' = b + L
  BY <1>3, <1>5, <1>7, <1>8
<1> QED BY <1>1, <1>2, <1>5, <1>8, <1>9, <1>10, <1>11, <1>12 DEF CopyInv

\* Bytes of memory in a row: two pieces of them, and a piece out of them.
LEMMA RowOfTwo ==
    ASSUME NEW u \in Seq(Int), NEW x \in Seq(Int), NEW c \in Int, Len(u) = 4, Len(x) = 16,
           \A i \in 1 .. 4 : u[i] = c + i, \A i \in 1 .. 16 : x[i] = (c + 4) + i
    PROVE  u \o x \in Seq(Int) /\ Len(u \o x) = 20 /\ \A i \in 1 .. 20 : (u \o x)[i] = c + i
<1>1. /\ u \o x \in Seq(Int) /\ Len(u \o x) = 20
      /\ \A i \in 1 .. 20 : (u \o x)[i] = IF i <= 4 THEN u[i] ELSE x[i - 4]
  <2>1. /\ u \o x \in Seq(Int) /\ Len(u \o x) = Len(u) + Len(x)
        /\ \A i \in 1 .. Len(u) + Len(x) :
              (u \o x)[i] = IF i <= Len(u) THEN u[i] ELSE x[i - Len(u)]
    BY ConcatProperties
  <2>2. Len(u) + Len(x) = 20
    OBVIOUS
  <2> QED BY <2>1, <2>2
<1>2. ASSUME NEW i \in 1 .. 20 PROVE (u \o x)[i] = c + i
  <2>1. CASE i <= 4
    <3>1. i \in 1 .. 4
      BY ONLY <2>1, i \in 1 .. 20
    <3> QED BY <1>1, <2>1, <3>1
  <2>2. CASE ~(i <= 4)
    <3>1. i - 4 \in 1 .. 16 /\ (c + 4) + (i - 4) = c + i
      BY ONLY <2>2, i \in 1 .. 20, c \in Int
    <3>2. x[i - 4] = (c + 4) + (i - 4)
      BY <3>1
    <3>3. (u \o x)[i] = x[i - 4]
      BY <1>1, <2>2
    <3> QED BY <3>1, <3>2, <3>3
  <2> QED BY <2>1, <2>2
<1> QED BY <1>1, <1>2

LEMMA PieceOfRow ==
    ASSUME NEW q \in Seq(Int), NEW c \in Int, Len(q) = 20, \A i \in 1 .. 20 : q[i] = c + i,
           NEW j \in 1 .. 20, NEW k \in 1 .. 20, j <= k
    PROVE  /\ SubSeq(q, j, k) \in Seq(Int) /\ Len(SubSeq(q, j, k)) = (k - j) + 1
           /\ \A i \in 1 .. (k - j) + 1 : SubSeq(q, j, k)[i] = ((c + j) + i) - 1
<1>1. \A i \in j .. k : q[i] \in Int
  <2> SUFFICES ASSUME NEW i \in j .. k PROVE q[i] \in Int
    OBVIOUS
  <2>1. i \in 1 .. 20
    BY ONLY i \in j .. k, j \in 1 .. 20, k \in 1 .. 20
  <2>2. q[i] = c + i
    BY <2>1
  <2> QED BY <2>2
<1>2. /\ SubSeq(q, j, k) \in Seq(Int)
      /\ Len(SubSeq(q, j, k)) = (k - j) + 1
      /\ \A i \in 1 .. (k - j) + 1 : SubSeq(q, j, k)[i] = q[j + i - 1]
  <2>1. j \in Int /\ k \in Int
    OBVIOUS
  <2>2. /\ SubSeq(q, j, k) \in Seq(Int)
        /\ Len(SubSeq(q, j, k)) = IF j <= k THEN k - j + 1 ELSE 0
        /\ \A i \in 1 .. k - j + 1 : SubSeq(q, j, k)[i] = q[j + i - 1]
    BY ONLY <1>1, <2>1, SubSeqProperties, SMTT(30)
  <2> QED BY <2>1, <2>2
<1>3. ASSUME NEW i \in 1 .. (k - j) + 1 PROVE SubSeq(q, j, k)[i] = ((c + j) + i) - 1
  <2>1. j + i - 1 \in 1 .. 20
    BY ONLY i \in 1 .. (k - j) + 1, j \in 1 .. 20, k \in 1 .. 20
  <2>2. q[j + i - 1] = c + (j + i - 1)
    BY <2>1
  <2> QED BY <1>2, <2>2
<1> QED BY <1>2, <1>3

\* The last bytes of the word that is kept and the first of those after it.
LEMMA ShiftLoopInv == CallInv /\ CopyInv /\ ShiftLoop => CopyInv'
<1> SUFFICES ASSUME CallInv, CopyInv, ShiftLoop PROVE CopyInv'
  OBVIOUS
<1>1. at = "shifts" /\ call' = call /\ bit' = 16
  BY DEF ShiftLoop, CopyInv
<1>2. PICK b \in Nat, L \in Nat, D \in Nat : b = call.src /\ L = call.len /\ D = call.dst
  BY StringPlaces
<1>3. PICK f \in Int, t \in Int, n \in Nat :
         f = from /\ t = to /\ n = left /\ f + n = b + L /\ b <= f /\ f - b = t - D
  BY <1>1, <1>2 DEF CopyInv
<1>4. \A a \in seen : b <= a /\ a < b + L /\ a \in Int
  BY <1>2 DEF CopyInv
<1>5. /\ f % 4 # 0 /\ kept \in Seq(Int) /\ Len(kept) = 4
      /\ \A i \in 1 .. 4 : kept[i] = (f - (f % 4)) + i - 1
  BY <1>1, <1>3 DEF CopyInv
<1>6. PICK r \in 1 .. 3 : r = 4 - (f % 4)
  BY <1>5
<1>7. CASE ShiftsLeft(r)
  <2>1. PICK x \in Seq(Int) : x = Read(f + r, 16) /\ Len(x) = 16
                              /\ \A i \in 1 .. 16 : x[i] = (f + r) + i - 1
    <3>1. call.src <= f + r /\ (f + r) + 16 <= call.src + call.len /\ f + r \in Int
      <4>1. n >= 16 + r
        BY <1>3, <1>7 DEF ShiftsLeft
      <4> QED BY <1>2, <1>3, <4>1
    <3> QED BY <3>1, ReadIs
  <2>2. PICK c \in Int : c = f - (f % 4) - 1 /\ c = (f + r) - 5
    BY <1>6
  <2>3. PICK q \in Seq(Int) : q = kept \o x /\ Len(q) = 20 /\ \A i \in 1 .. 20 : q[i] = c + i
    <3>1. ASSUME NEW i \in 1 .. 4 PROVE kept[i] = c + i
      <4>1. kept[i] = (f - (f % 4)) + i - 1
        BY <1>5
      <4> QED BY <2>2, <4>1
    <3>2. ASSUME NEW i \in 1 .. 16 PROVE x[i] = (c + 4) + i
      <4>1. x[i] = (f + r) + i - 1
        BY <2>1
      <4> QED BY <2>2, <4>1
    <3> QED BY <1>5, <2>1, <3>1, <3>2, RowOfTwo
  <2>4. /\ Store(Shifted(q, r)) /\ kept' = SubSeq(q, 17, 20)
        /\ seen' = seen \union Region(f + r, 16)
        /\ from' = f + 16 /\ to' = t + 16 /\ left' = n - 16 /\ at' = "shifts"
    <3>1. r = 4 - (from % 4) /\ q = kept \o Read(from + r, 16)
      BY <1>3, <1>6, <2>1, <2>3
    <3> QED BY <1>1, <1>3, <1>7, <3>1 DEF ShiftLoop
  <2>5. PICK z \in Seq(Int) : z = Shifted(q, r) /\ Len(z) = 16 /\ \A i \in 1 .. 16 : z[i] = f + i - 1
    <3>1. PICK j \in 1 .. 20, k \in 1 .. 20 : j = 5 - r /\ k = 20 - r /\ j <= k /\ (k - j) + 1 = 16
      OBVIOUS
    <3>2. /\ SubSeq(q, j, k) \in Seq(Int) /\ Len(SubSeq(q, j, k)) = (k - j) + 1
          /\ \A i \in 1 .. (k - j) + 1 : SubSeq(q, j, k)[i] = ((c + j) + i) - 1
      <4>1. j <= k
        BY <3>1
      <4> QED BY <2>3, <4>1, PieceOfRow
    <3>3. SubSeq(q, j, k) = Shifted(q, r)
      BY <3>1 DEF Shifted
    <3>4. c + j = f
      BY <2>2, <3>1
    <3>5. ASSUME NEW i \in 1 .. 16 PROVE SubSeq(q, j, k)[i] = f + i - 1
      <4>1. SubSeq(q, j, k)[i] = ((c + j) + i) - 1
        BY <3>1, <3>2
      <4> QED BY <3>4, <4>1
    <3> QED BY <3>1, <3>2, <3>3, <3>5
  <2>6. \A i \in 1 .. 16 : z[i] = from + i - 1
    BY <1>3, <2>5
  <2>7. Copied(to)'
    <3>1. to' = to + 16 /\ Store(z)
      BY <1>3, <2>4, <2>5
    <3> QED BY <1>1, <2>5, <2>6, <3>1, StoreCopies
  <2>8. kept' \in Seq(Int) /\ Len(kept') = 4 /\ \A i \in 1 .. 4 : kept'[i] = (c + 16) + i
    <3>1. /\ SubSeq(q, 17, 20) \in Seq(Int) /\ Len(SubSeq(q, 17, 20)) = (20 - 17) + 1
          /\ \A i \in 1 .. (20 - 17) + 1 : SubSeq(q, 17, 20)[i] = ((c + 17) + i) - 1
      <4>1. 17 \in 1 .. 20 /\ 20 \in 1 .. 20 /\ 17 <= 20
        OBVIOUS
      <4> QED BY <2>3, <4>1, PieceOfRow
    <3>2. \A i \in 1 .. 4 : SubSeq(q, 17, 20)[i] = (c + 16) + i
      BY <3>1
    <3> QED BY <2>4, <3>1, <3>2
  <2>9. \A i \in 1 .. 4 : kept'[i] = (from' - (from' % 4)) + i - 1
    <3> SUFFICES ASSUME NEW i \in 1 .. 4 PROVE kept'[i] = (from' - (from' % 4)) + i - 1
      OBVIOUS
    <3>1. kept'[i] = (c + 16) + i
      BY <2>8
    <3>2. (f + 16) % 4 = f % 4
      BY ONLY f \in Int
    <3>3. from' % 4 = f % 4
      BY <2>4, <3>2
    <3> QED BY <2>2, <2>4, <3>1, <3>3
  <2>10. \A a \in seen' : b <= a /\ a < b + L /\ a \in Int
    <3>1. n >= 16 + r
      BY <1>3, <1>7 DEF ShiftsLeft
    <3>2. \A a \in Region(f + r, 16) : b <= a /\ a < b + L /\ a \in Int
      BY <1>3, <3>1 DEF Region
    <3> QED BY <1>4, <2>4, <3>2
  <2>11. /\ left' \in Nat /\ from' + left' = b + L /\ from' % 4 # 0 /\ from' \in Int /\ to' \in Int
         /\ b <= from' /\ from' - b = to' - D
    <3>1. n >= 16 + r
      BY <1>3, <1>7 DEF ShiftsLeft
    <3>2. (f + 16) % 4 = f % 4
      BY ONLY f \in Int
    <3>3. from' % 4 # 0
      BY <1>5, <2>4, <3>2
    <3>4. /\ left' \in Nat /\ from' + left' = b + L /\ from' \in Int /\ to' \in Int
          /\ b <= from' /\ from' - b = to' - D
      <4>1. /\ n - 16 \in Nat /\ (f + 16) + (n - 16) = b + L /\ b <= f + 16
            /\ (f + 16) - b = (t + 16) - D
        BY ONLY <1>3, <3>1, f \in Int, t \in Int, n \in Nat, r \in 1 .. 3, b \in Nat, L \in Nat,
                D \in Nat
      <4> QED BY <2>4, <4>1
    <3> QED BY <3>3, <3>4
  <2> QED BY <1>1, <1>2, <2>4, <2>7, <2>8, <2>9, <2>10, <2>11 DEF CopyInv
<1>8. CASE ~ShiftsLeft(r)
  <2>1. at' = "tail" /\ UNCHANGED <<mem, kept, seen, from, to, left>>
    BY <1>1, <1>3, <1>6, <1>8 DEF ShiftLoop
  <2>2. n < 32
    BY <1>3, <1>8 DEF ShiftsLeft
  <2>3. Copied(to)'
    BY <1>1, <2>1 DEF CopyInv, Copied
  <2>4. from' = f /\ to' = t /\ left' = n /\ seen' = seen /\ bit' = 16 /\ Rest(16, n) = n
    BY <1>1, <1>3, <2>1 DEF Rest
  <2> QED BY <1>1, <1>2, <1>3, <1>4, <2>1, <2>2, <2>3, <2>4 DEF CopyInv
<1> QED BY <1>7, <1>8

\* The bits of what is left, from the highest.
LEMMA RestBits ==
    ASSUME NEW k \in Nat, k < 32, NEW c \in {16, 8, 4, 2, 1}
    PROVE  /\ c \div 2 \in {8, 4, 2, 1, 0}
           /\ (k \div c) % 2 = 1 => Rest(c, k) = c + Rest(c \div 2, k)
           /\ (k \div c) % 2 # 1 => Rest(c, k) = Rest(c \div 2, k)
           /\ Rest(c \div 2, k) \in Nat /\ Rest(c, k) \in Nat
<1>1. CASE c = 16
  <2>1. c \div 2 = 8 /\ Rest(c, k) = k /\ Rest(c \div 2, k) = k % 16
    BY <1>1 DEF Rest
  <2>2. ((k \div 16) % 2 = 1 => k = 16 + (k % 16)) /\ ((k \div 16) % 2 # 1 => k = k % 16)
    OBVIOUS
  <2> QED BY <1>1, <2>1, <2>2
<1>2. CASE c = 8
  <2>1. c \div 2 = 4 /\ Rest(c, k) = k % 16 /\ Rest(c \div 2, k) = k % 8
    BY <1>2 DEF Rest
  <2>2. /\ (k \div 8) % 2 = 1 => k % 16 = 8 + (k % 8)
        /\ (k \div 8) % 2 # 1 => k % 16 = k % 8
    OBVIOUS
  <2> QED BY <1>2, <2>1, <2>2
<1>3. CASE c = 4
  <2>1. c \div 2 = 2 /\ Rest(c, k) = k % 8 /\ Rest(c \div 2, k) = k % 4
    BY <1>3 DEF Rest
  <2>2. /\ (k \div 4) % 2 = 1 => k % 8 = 4 + (k % 4)
        /\ (k \div 4) % 2 # 1 => k % 8 = k % 4
    OBVIOUS
  <2> QED BY <1>3, <2>1, <2>2
<1>4. CASE c = 2
  <2>1. c \div 2 = 1 /\ Rest(c, k) = k % 4 /\ Rest(c \div 2, k) = k % 2
    BY <1>4 DEF Rest
  <2>2. /\ (k \div 2) % 2 = 1 => k % 4 = 2 + (k % 2)
        /\ (k \div 2) % 2 # 1 => k % 4 = k % 2
    OBVIOUS
  <2> QED BY <1>4, <2>1, <2>2
<1>5. CASE c = 1
  <2>1. c \div 2 = 0 /\ Rest(c, k) = k % 2 /\ Rest(c \div 2, k) = 0
    BY <1>5 DEF Rest
  <2>2. k \div 1 = k /\ k % 2 \in {0, 1}
    OBVIOUS
  <2> QED BY <1>5, <2>1, <2>2
<1> QED BY <1>1, <1>2, <1>3, <1>4, <1>5

LEMMA CopyTailInv == CallInv /\ CopyInv /\ CopyTail => CopyInv'
<1> SUFFICES ASSUME CallInv, CopyInv, CopyTail PROVE CopyInv'
  OBVIOUS
<1>1. at = "tail" /\ call' = call /\ left' = left
  BY DEF CopyTail
<1>2. PICK b \in Nat, L \in Nat, D \in Nat : b = call.src /\ L = call.len /\ D = call.dst
  BY StringPlaces
<1>3. PICK f \in Int, t \in Int, n \in Nat :
         f = from /\ t = to /\ n = left /\ b <= f /\ f - b = t - D /\ n < 32
  BY <1>1, <1>2 DEF CopyInv
<1>4. \A a \in seen : b <= a /\ a < b + L /\ a \in Int
  BY <1>2 DEF CopyInv
<1>5. bit \in {16, 8, 4, 2, 1, 0} /\ f + Rest(bit, n) = b + L
  BY <1>1, <1>2, <1>3 DEF CopyInv
<1>6. CASE bit = 0
  <2>1. UNCHANGED <<mem, seen, from, to, bit>> /\ at' = "done"
    BY <1>1, <1>6 DEF CopyTail
  <2>2. Copied(to)'
    BY <1>1, <2>1 DEF CopyInv, Copied
  <2>3. f = b + L
    BY <1>2, <1>3, <1>5, <1>6 DEF Rest
  <2>4. from' = f /\ to' = t /\ left' = n /\ seen' = seen
    BY <1>1, <1>3, <2>1
  <2> QED BY <1>1, <1>2, <1>3, <1>4, <2>1, <2>2, <2>3, <2>4 DEF CopyInv
<1>7. CASE bit # 0
  <2>1. PICK c \in {16, 8, 4, 2, 1} : c = bit
    BY <1>5, <1>7
  <2>2. /\ c \div 2 \in {8, 4, 2, 1, 0}
        /\ (n \div c) % 2 = 1 => Rest(c, n) = c + Rest(c \div 2, n)
        /\ (n \div c) % 2 # 1 => Rest(c, n) = Rest(c \div 2, n)
        /\ Rest(c \div 2, n) \in Nat /\ Rest(c, n) \in Nat
    BY <1>3, RestBits
  <2>3. PICK h \in Nat : h = Rest(c \div 2, n)
    BY <2>2
  <2>4. at' = "tail" /\ bit' = c \div 2
    BY <1>1, <1>7, <2>1 DEF CopyTail
  <2>5. CASE (n \div c) % 2 = 1
    <3>1. Move(c) /\ seen' = seen \union Region(f, c)
      BY <1>3, <1>7, <2>1, <2>5 DEF CopyTail, Copy
    <3>2. c \in Nat /\ f + c + h = b + L
      BY <1>2, <1>3, <1>5, <2>1, <2>2, <2>3, <2>5
    <3>3. /\ Copied(to)' /\ from' = f + c /\ from' \in Int /\ to' \in Int /\ call.src <= from'
          /\ from' - call.src = to' - call.dst
      <4>1. from + c <= call.src + call.len
        BY <1>2, <1>3, <3>2
      <4> QED BY <1>1, <1>3, <3>1, <3>2, <4>1, CopyPiece
    <3>4. \A a \in seen' : b <= a /\ a < b + L /\ a \in Int
      <4>1. \A a \in Region(f, c) : b <= a /\ a < b + L /\ a \in Int
        BY <1>3, <3>2 DEF Region
      <4> QED BY <1>4, <3>1, <4>1
    <3>5. from' + Rest(bit', left') = b + L /\ left' \in Nat /\ left' < 32
      BY <1>1, <1>3, <2>3, <2>4, <3>2, <3>3
    <3> QED BY <1>1, <1>2, <2>2, <2>4, <3>3, <3>4, <3>5 DEF CopyInv
  <2>6. CASE (n \div c) % 2 # 1
    <3>1. UNCHANGED <<mem, seen, from, to>>
      BY <1>3, <1>7, <2>1, <2>6 DEF CopyTail
    <3>2. Copied(to)'
      BY <1>1, <3>1 DEF CopyInv, Copied
    <3>3. f + Rest(bit', left') = b + L
      BY <1>1, <1>3, <1>5, <2>1, <2>2, <2>4, <2>6
    <3>4. from' = f /\ to' = t /\ left' = n /\ seen' = seen
      BY <1>1, <1>3, <3>1
    <3> QED BY <1>1, <1>2, <1>3, <1>4, <2>2, <2>4, <3>2, <3>3, <3>4 DEF CopyInv
  <2> QED BY <2>5, <2>6
<1> QED BY <1>6, <1>7

\* memcmp.
LEMMA CompareStepInv == CallInv /\ call.fn = "memcmp" /\ CompareInv /\ Compare => CompareInv'
<1> SUFFICES ASSUME CallInv, call.fn = "memcmp", CompareInv, Compare PROVE CompareInv'
  OBVIOUS
<1>1. at = "memcmp" /\ call' = call /\ mem' = mem
  BY DEF Compare
<1>2. PICK b \in Nat, L \in Nat, D \in Nat, e \in Nat :
         b = call.src /\ L = call.len /\ D = call.dst /\ e = call.same
  BY StringPlaces
<1>3. PICK f \in Int, t \in Int, n \in Nat :
         /\ f = from /\ t = to /\ n = left /\ b <= f /\ f - b = t - D /\ f + n = b + L
         /\ f - b <= e
  BY <1>1, <1>2 DEF CompareInv
<1>4. \A a \in seen : a \in Int /\ ((b <= a /\ a < b + L) \/ (D <= a /\ a < D + L))
  BY <1>2 DEF CompareInv
<1>5. \A a \in Cell : mem[a] = IF D <= a /\ a < D + e THEN (a - D) + b ELSE a
  BY <1>2 DEF CompareInv
<1>6. \A a \in Cell : mem'[a] = IF D <= a /\ a < D + e THEN (a - D) + b ELSE a
  BY <1>1, <1>5
<1>7. result = 0
  BY <1>1 DEF CompareInv
<1>8. CASE n = 0
  <2>1. at' = "done" /\ from' = f /\ to' = t /\ left' = n /\ result' = 0 /\ seen' = seen
    BY <1>3, <1>7, <1>8 DEF Compare
  <2>2. e >= L
    BY <1>3, <1>8
  <2> QED BY <1>1, <1>2, <1>3, <1>4, <1>6, <2>1, <2>2 DEF CompareInv
<1>9. CASE n # 0
  <2>1. seen' = seen \union {f, t}
    BY <1>3, <1>9 DEF Compare
  <2>2. \A a \in seen' : a \in Int /\ ((b <= a /\ a < b + L) \/ (D <= a /\ a < D + L))
    <3>1. b <= f /\ f < b + L /\ D <= t /\ t < D + L
      BY <1>3, <1>9
    <3> QED BY <1>4, <2>1, <3>1
  <2>3. f \in Cell /\ t \in Cell /\ (b + L <= D \/ D + L <= b)
    <3>1. /\ \A a \in Int : b <= a /\ a < b + L + 8 => a \in Cell
          /\ \A a \in Int : D <= a /\ a < D + L + 8 => a \in Cell
          /\ b + L + 8 <= D \/ D + L + 8 <= b
      BY <1>2, StringPlaces
    <3>2. b <= f /\ f < b + L + 8 /\ D <= t /\ t < D + L + 8
      BY <1>3, <1>9
    <3> QED BY <3>1, <3>2
  <2>4. mem[t] = (IF t < D + e THEN (t - D) + b ELSE t)
    BY <1>2, <1>3, <1>5, <2>3
  \* The byte of the source is itself: the destination does not lie over it.
  <2>5. mem[f] = f
    <3>1. ~(D <= f /\ f < D + e)
      <4>1. b + L + 8 <= D \/ D + e + 8 <= b
        BY <1>2, StringPlaces
      <4> QED BY <1>3, <1>9, <4>1
    <3> QED BY <1>5, <2>3, <3>1
  <2>6. CASE f - b < e
    <3>1. mem[from] = mem[to]
      BY <1>3, <2>4, <2>5, <2>6
    <3>2. at' = "memcmp" /\ from' = f + 1 /\ to' = t + 1 /\ left' = n - 1 /\ result' = 0
      BY <1>1, <1>3, <1>7, <1>9, <3>1 DEF Compare
    <3> QED BY <1>1, <1>2, <1>3, <1>6, <1>9, <2>2, <2>6, <3>2 DEF CompareInv
  <2>7. CASE ~(f - b < e)
    <3>1. f - b = e /\ mem[t] = t /\ f # t /\ e < L
      BY <1>3, <1>9, <2>3, <2>4, <2>7
    <3>2. mem[from] # mem[to] /\ mem[from] - mem[to] = f - t /\ f - t # 0
      BY <1>3, <2>5, <3>1
    <3>3. at' = "done" /\ from' = f /\ to' = t /\ left' = n /\ result' = f - t
      BY <1>1, <1>3, <1>9, <3>2 DEF Compare
    <3> QED BY <1>1, <1>2, <1>3, <1>6, <2>2, <3>1, <3>2, <3>3 DEF CompareInv
  <2> QED BY <2>6, <2>7
<1> QED BY <1>8, <1>9

\* strlen: the end lies in the aligned word that is looked at or after it.
LEMMA MeasureStepInv == CallInv /\ MeasureInv /\ Measure => MeasureInv'
<1> SUFFICES ASSUME CallInv, MeasureInv, Measure PROVE MeasureInv'
  OBVIOUS
<1>1. at \in {"strlen", "scan", "last"} /\ call' = call /\ mem' = mem
  BY DEF Measure
<1>2. PICK b \in Nat, L \in Nat : b = call.src /\ L = call.len
  BY StringPlaces
<1>3. PICK f \in Int : f = from /\ b <= f /\ f <= b + L
  BY <1>2 DEF MeasureInv
<1>4. \A a \in Cell : mem[a] = IF a = b + L THEN 0 ELSE a
  BY <1>2 DEF MeasureInv
<1>5. \A a \in seen : a \in Int /\ b <= a /\ a \div 8 <= (b + L) \div 8
  BY <1>2 DEF MeasureInv
<1>6. \A a \in Int : b <= a /\ a < b + L + 8 => a \in Cell /\ a # 0
  BY <1>2, StringPlaces
<1>7. f \in Cell /\ f # 0
  BY <1>3, <1>6
<1>8. mem[f] = 0 <=> f = b + L
  BY <1>4, <1>7
\* A byte is looked at: the end, or one before it.
<1>9. ASSUME NEW s0, at = s0, s0 # "scan", seen' = seen \union {f},
             IF mem[f] = 0 THEN Measured ELSE from' = f + 1 /\ at' = at
      PROVE  MeasureInv'
  <2>1. \A a \in seen' : a \in Int /\ b <= a /\ a \div 8 <= (b + L) \div 8
    <3>1. f \div 8 <= (b + L) \div 8
      BY ONLY f \in Int, b \in Nat, L \in Nat, <1>3
    <3> QED BY <1>3, <1>5, <1>9, <3>1
  <2>2. CASE f = b + L
    <3>1. at' = "done" /\ result' = f - b /\ from' = f
      BY <1>2, <1>3, <1>8, <1>9, <2>2 DEF Measured
    <3> QED BY <1>1, <1>2, <1>3, <1>4, <2>1, <2>2, <3>1 DEF MeasureInv
  <2>3. CASE f # b + L
    <3>1. from' = f + 1 /\ at' \in {"strlen", "last"}
      BY <1>1, <1>8, <1>9, <2>3
    <3>2. f + 1 <= b + L /\ b <= f + 1
      BY <1>3, <2>3
    <3> QED BY <1>1, <1>2, <1>4, <2>1, <3>1, <3>2 DEF MeasureInv
  <2> QED BY <2>2, <2>3
<1>10. CASE at = "strlen" /\ f % 8 # 0
  <2>1. seen' = seen \union {f} /\ IF mem[f] = 0 THEN Measured ELSE from' = f + 1 /\ at' = at
    BY <1>3, <1>10 DEF Measure
  <2> QED BY <1>9, <1>10, <2>1
<1>11. CASE at = "strlen" /\ f % 8 = 0
  <2>1. at' = "scan" /\ from' = f /\ seen' = seen
    BY <1>3, <1>11 DEF Measure
  <2> QED BY <1>1, <1>2, <1>3, <1>4, <1>5, <1>11, <2>1 DEF MeasureInv
<1>12. CASE at = "scan"
  <2>1. f % 8 = 0
    BY <1>3, <1>12 DEF MeasureInv
  <2>2. /\ seen' = seen \union Region(f, 8)
        /\ IF \E a \in Region(f, 8) : mem[a] = 0 THEN at' = "last" /\ from' = f
           ELSE from' = f + 8 /\ at' = "scan"
    BY <1>3, <1>12 DEF Measure
  <2>3. ASSUME NEW a \in Region(f, 8) PROVE a \in Int /\ b <= a /\ a \div 8 <= (b + L) \div 8
    <3>1. a \in Int /\ f <= a /\ a < f + 8
      BY <2>3 DEF Region
    <3>2. a \div 8 = f \div 8 /\ f \div 8 <= (b + L) \div 8
      BY ONLY <1>3, <2>1, <3>1, f \in Int, a \in Int, b \in Nat, L \in Nat
    <3> QED BY <1>3, <3>1, <3>2
  <2>4. \A a \in seen' : a \in Int /\ b <= a /\ a \div 8 <= (b + L) \div 8
    BY <1>5, <2>2, <2>3
  <2>5. CASE \E a \in Region(f, 8) : mem[a] = 0
    BY <1>1, <1>2, <1>3, <1>4, <2>2, <2>4, <2>5 DEF MeasureInv
  <2>6. CASE ~(\E a \in Region(f, 8) : mem[a] = 0)
    <3>1. b + L \notin Region(f, 8)
      <4>1. b + L \in Cell
        BY <1>2, <1>6
      <4>2. mem[b + L] = 0
        BY <1>4, <4>1
      <4> QED BY <2>6, <4>2
    <3>2. f + 8 <= b + L
      BY <1>3, <3>1 DEF Region
    <3>3. from' = f + 8 /\ at' = "scan" /\ (f + 8) % 8 = 0
      BY <2>1, <2>2, <2>6
    <3> QED BY <1>1, <1>2, <1>3, <1>4, <2>4, <3>2, <3>3 DEF MeasureInv
  <2> QED BY <2>5, <2>6
<1>13. CASE at = "last"
  <2>1. seen' = seen \union {f} /\ IF mem[f] = 0 THEN Measured ELSE from' = f + 1 /\ at' = at
    BY <1>3, <1>13 DEF Measure
  <2> QED BY <1>9, <1>13, <2>1
<1> QED BY <1>1, <1>10, <1>11, <1>12, <1>13

\* Which function is called decides which steps there are.
LEMMA StringStepInv == StringsInv /\ [StringStep \/ Returned]_stringVars => StringsInv'
<1> SUFFICES ASSUME StringsInv, [StringStep \/ Returned]_stringVars PROVE StringsInv'
  OBVIOUS
<1>1. CallInv
  BY DEF StringsInv
<1>2. /\ call.fn = "memset" => SetInv /\ at \in {"memset", "words", "fill", "done"}
      /\ call.fn = "memcpy" =>
            CopyInv /\ at \in {"memcpy", "blocks", "shift", "shifts", "tail", "done"}
      /\ call.fn = "memcmp" => CompareInv /\ at \in {"memcmp", "done"}
      /\ call.fn = "strlen" => MeasureInv /\ at \in {"strlen", "scan", "last", "done"}
      /\ call.fn \in {"memset", "memcpy", "memcmp", "strlen"}
  BY DEF StringsInv, CallInv, SetInv, CopyInv, CompareInv, MeasureInv
<1>3. CASE FillBytes \/ FillWords \/ FillLoop
  <2>1. at \in {"memset", "words", "fill"} /\ call' = call
    BY <1>3 DEF FillBytes, FillWords, FillLoop
  <2>2. call.fn = "memset" /\ SetInv
    BY <1>2, <2>1
  <2>3. SetInv'
    BY <1>1, <1>3, <2>2, FillBytesInv, FillWordsInv, FillLoopInv
  <2> QED BY <1>1, <2>1, <2>2, <2>3 DEF StringsInv, CallInv
<1>4. CASE CopyHead \/ CopyBlocks \/ BeginShift \/ ShiftLoop \/ CopyTail
  <2>1. at \in {"memcpy", "blocks", "shift", "shifts", "tail"} /\ call' = call
    BY <1>4 DEF CopyHead, CopyBlocks, BeginShift, ShiftLoop, CopyTail
  <2>2. call.fn = "memcpy" /\ CopyInv
    BY <1>2, <2>1
  <2>3. CopyInv'
    BY <1>1, <1>4, <2>2, CopyHeadInv, CopyBlocksInv, BeginShiftInv, ShiftLoopInv, CopyTailInv
  <2> QED BY <1>1, <2>1, <2>2, <2>3 DEF StringsInv, CallInv
<1>5. CASE Compare
  <2>1. at = "memcmp" /\ call' = call
    BY <1>5 DEF Compare
  <2>2. call.fn = "memcmp" /\ CompareInv
    BY <1>2, <2>1
  <2>3. CompareInv'
    BY <1>1, <1>5, <2>2, CompareStepInv
  <2> QED BY <1>1, <2>1, <2>2, <2>3 DEF StringsInv, CallInv
<1>6. CASE Measure
  <2>1. at \in {"strlen", "scan", "last"} /\ call' = call
    BY <1>6 DEF Measure
  <2>2. call.fn = "strlen" /\ MeasureInv
    BY <1>2, <2>1
  <2>3. MeasureInv'
    BY <1>1, <1>6, <2>2, MeasureStepInv
  <2> QED BY <1>1, <2>1, <2>2, <2>3 DEF StringsInv, CallInv
<1>7. CASE UNCHANGED stringVars
  <2>1. UNCHANGED <<call, mem, at, from, to, left, bit, kept, result, seen>>
    BY <1>7 DEF stringVars
  <2>2. CallInv'
    BY <1>1, <2>1 DEF CallInv
  <2>3. SetInv => SetInv'
    BY <2>1 DEF SetInv, Set
  <2>4. CopyInv => CopyInv'
    BY <2>1 DEF CopyInv, Copied
  <2>5. CompareInv => CompareInv'
    BY <2>1 DEF CompareInv
  <2>6. MeasureInv => MeasureInv'
    BY <2>1 DEF MeasureInv
  <2> QED BY <2>1, <2>2, <2>3, <2>4, <2>5, <2>6 DEF StringsInv
<1> QED BY <1>3, <1>4, <1>5, <1>6, <1>7 DEF StringStep, Returned

LEMMA StringsRightFrom == StringsInv => StringsRight
<1> SUFFICES ASSUME StringsInv PROVE StringsRight
  OBVIOUS
<1>1. CallInv
  BY DEF StringsInv
<1>2. PICK b \in Nat, L \in Nat, D \in Nat : b = call.src /\ L = call.len /\ D = call.dst
  BY <1>1, StringPlaces
<1>3. \A a \in Cell : a \in Int
  BY <1>1, StringPlaces
<1>4. \A a \in Int : D <= a /\ a < D + L => a \in Cell
  <2>1. \A a \in Int : D <= a /\ a < D + L + 8 => a \in Cell
    BY <1>1, <1>2, StringPlaces
  <2> QED BY <2>1
<1>5. \A a : a \in Region(D, L) <=> a \in Int /\ D <= a /\ a < D + L
  BY DEF Region
<1>6. \A a : a \in Region(b, L) <=> a \in Int /\ b <= a /\ a < b + L
  BY DEF Region
<1>7. CASE call.fn = "memset"
  <2>1. SetInv /\ Destination = Region(D, L)
    BY <1>2, <1>7 DEF StringsInv, Destination
  <2>2. \A a \in Cell : a < D \/ D + L <= a => mem[a] = a
    BY <1>2, <2>1 DEF SetInv
  <2>3. at = "done" => \A a \in Region(D, L) : mem[a] = Filler
    <3> SUFFICES ASSUME at = "done", NEW a \in Region(D, L) PROVE mem[a] = Filler
      OBVIOUS
    <3>1. a \in Int /\ D <= a /\ a < D + L /\ a \in Cell
      BY <1>4, <1>5
    <3> QED BY <1>2, <2>1, <3>1 DEF SetInv, Set
  <2>4. \A a \in Cell \ Region(D, L) : mem[a] = a
    <3> SUFFICES ASSUME NEW a \in Cell, a \notin Region(D, L) PROVE mem[a] = a
      OBVIOUS
    <3>1. a < D \/ D + L <= a
      BY <1>3, <1>5
    <3> QED BY <2>2, <3>1
  <2>5. seen = {}
    BY <2>1 DEF SetInv
  <2> QED BY <1>7, <2>1, <2>3, <2>4, <2>5 DEF StringsRight, StringsExact, StringsInside
<1>8. CASE call.fn = "memcpy"
  <2>1. CopyInv /\ Destination = Region(D, L)
    BY <1>2, <1>8 DEF StringsInv, Destination
  <2>2. PICK f \in Int, t \in Int : f = from /\ t = to /\ f - b = t - D /\ f <= b + L
    <3>1. from \in Int /\ to \in Int /\ from - b = to - D /\ left \in Nat
      BY <1>2, <2>1 DEF CopyInv
    <3>2. Rest(bit, left) \in Nat
      BY <3>1 DEF Rest
    <3>3. \/ from + left = b + L \/ from + Rest(bit, left) = b + L \/ from = b + L
      BY <1>2, <2>1 DEF CopyInv
    <3>4. from <= b + L
      BY <3>1, <3>2, <3>3
    <3> QED BY <3>1, <3>4
  <2>3. \A a \in Cell : mem[a] = IF D <= a /\ a < t THEN (a - D) + b ELSE a
    BY <1>2, <2>1, <2>2 DEF CopyInv, Copied
  <2>4. at = "done" => \A a \in Region(D, L) : mem[a] = (a - D) + b
    <3> SUFFICES ASSUME at = "done", NEW a \in Region(D, L) PROVE mem[a] = (a - D) + b
      OBVIOUS
    <3>1. a \in Int /\ D <= a /\ a < D + L /\ a \in Cell
      BY <1>4, <1>5
    <3>2. f = b + L
      BY <1>2, <2>1, <2>2 DEF CopyInv
    <3>3. a < t
      BY <2>2, <3>1, <3>2
    <3> QED BY <2>3, <3>1, <3>3
  <2>5. \A a \in Cell \ Region(D, L) : mem[a] = a
    <3> SUFFICES ASSUME NEW a \in Cell, a \notin Region(D, L) PROVE mem[a] = a
      OBVIOUS
    <3>1. ~(D <= a /\ a < D + L)
      BY <1>3, <1>5
    <3>2. ~(D <= a /\ a < t)
      BY <1>3, <2>2, <3>1
    <3> QED BY <2>3, <3>2
  <2>6. seen \subseteq Region(b, L)
    BY <1>2, <1>6, <2>1 DEF CopyInv
  <2> QED BY <1>2, <1>8, <2>1, <2>4, <2>5, <2>6 DEF StringsRight, StringsExact, StringsInside
<1>9. CASE call.fn = "memcmp"
  <2>1. CompareInv
    BY <1>9 DEF StringsInv
  <2>2. at = "done" => (result = 0 <=> call.same >= call.len)
    BY <2>1 DEF CompareInv
  <2>3. seen \subseteq Region(b, L) \union Region(D, L)
    BY <1>2, <1>5, <1>6, <2>1 DEF CompareInv
  <2> QED BY <1>2, <1>9, <2>2, <2>3 DEF StringsRight, StringsExact, StringsInside
<1>10. CASE call.fn = "strlen"
  <2>1. MeasureInv
    BY <1>10 DEF StringsInv
  <2>2. at = "done" => result = call.len
    BY <2>1 DEF MeasureInv
  <2>3. \A a \in seen : a >= b /\ a \div 8 <= (b + L) \div 8
    BY <1>2, <2>1 DEF MeasureInv
  <2> QED BY <1>2, <1>10, <2>2, <2>3 DEF StringsRight, StringsExact, StringsInside
<1> QED BY <1>1, <1>7, <1>8, <1>9, <1>10 DEF CallInv

\* Whatever the length, the alignments and, of memcmp, the bytes that are
\* equal: the heads, words, shifts and tails of a function do just what a loop
\* over the bytes would do, and touch nothing else (stringutil.cpp:5-242).
THEOREM StringsRightAlways == StringSpec => []StringsRight
<1>1. StringInit => StringsInv
  BY StringInitInv
<1>2. StringsInv /\ [StringStep \/ Returned]_stringVars => StringsInv'
  BY StringStepInv
<1>3. StringsInv => StringsRight
  BY StringsRightFrom
<1> QED BY <1>1, <1>2, <1>3, PTL DEF StringSpec
=============================================================================

----------------------------- MODULE SlubProofs ------------------------------
(***************************************************************************)
(* Slub for every number of blocks, size classes and objects: the lists of *)
(* slabs are lists of the right slabs, the free list of a slab has every   *)
(* object that is not handed out, once, and in_use agrees with its length. *)
(* The lists partial are taken apart at the front only, so they keep their *)
(* links (PartialInv); with that alloc ends, nothing but a free of an      *)
(* object of an exhausted slab faults, and Slub implements ObjectPool.     *)
(***************************************************************************)
EXTENDS MCSlub, LibraryProofs, FiniteSetTheorems, FunctionTheorems

Link == Slab \union {Null}

LEMMA SlabNull == Null \notin Slab /\ Null \notin Nat /\ Null \notin Object
BY SlubAssumption DEF Object

LEMMA CountType == \A n \in InUse : Up(n) \in InUse /\ Down(n) \in InUse
BY SlubAssumption DEF InUse, Up, Down

LEMMA ListType ==
    ASSUME TypeOK, NEW c \in Cache, NEW w \in Which
    PROVE  List(c, w) \in Lists(Slab, Link) /\ On(c, w) \in SUBSET Slab
BY DEF TypeOK, List, Lists, Link, On

\* Two different lists have no slab in common.
LEMMA OnDisjoint ==
    ASSUME NEW c \in Cache, NEW w \in Which, NEW d \in Cache, NEW u \in Which,
           <<c, w>> # <<d, u>>
    PROVE  On(c, w) \intersect On(d, u) = {}
BY DEF On, Which

-----------------------------------------------------------------------------
(* Changing lists. *)

\* One list changes.
LEMMA OneList ==
    ASSUME TypeOK, SlabLists, pc # "fault", NEW c \in Cache, NEW w \in Which,
           NEW a \in Lists(Slab, Link), SetList(c, w, a),
           NEW S \in SUBSET Slab, SameOutside(List(c, w), a, Slab, S),
           ListInv(a, On(c, w)'), On(c, w)' \in SUBSET Slab,
           \A d \in Cache, u \in Which : <<d, u>> # <<c, w>> =>
               On(d, u)' = On(d, u) /\ On(d, u) \intersect S = {}
    PROVE  /\ SlabLists'
           /\ nxt' \in [Slab -> Link] /\ prv' \in [Slab -> Link]
           /\ head' \in [Cache -> [Which -> Link]]
           /\ tail' \in [Cache -> [Which -> Link]]
<1>1. /\ nxt' = a.nxt /\ prv' = a.prv
      /\ a.nxt \in [Slab -> Link] /\ a.prv \in [Slab -> Link]
      /\ a.head \in Link /\ a.tail \in Link
  BY DEF SetList, Lists
<1>2. /\ head \in [Cache -> [Which -> Link]] /\ tail \in [Cache -> [Which -> Link]]
      /\ head' = [head EXCEPT ![c][w] = a.head]
      /\ tail' = [tail EXCEPT ![c][w] = a.tail]
  BY DEF SetList, TypeOK, Link
<1>3. /\ head' \in [Cache -> [Which -> Link]] /\ tail' \in [Cache -> [Which -> Link]]
  BY <1>1, <1>2
<1>4. ASSUME NEW d \in Cache, NEW u \in Which
      PROVE  ListInv(List(d, u)', On(d, u)')
  <2>1. CASE d = c /\ u = w
    <3>1. /\ List(d, u)'.head = a.head /\ List(d, u)'.tail = a.tail
          /\ List(d, u)'.nxt = a.nxt /\ List(d, u)'.prv = a.prv
      BY <1>1, <1>2, <2>1 DEF List
    <3> QED
      BY <2>1, <3>1, SlabNull, ListInvFrame
  <2>2. CASE ~(d = c /\ u = w)
    <3>1. /\ List(d, u)'.head = List(d, u).head /\ List(d, u)'.tail = List(d, u).tail
          /\ List(d, u)'.nxt = a.nxt /\ List(d, u)'.prv = a.prv
      BY <1>1, <1>2, <2>2 DEF List
    <3>2. On(d, u)' = On(d, u) /\ On(d, u) \in SUBSET (Slab \ S)
      BY <2>2, ListType
    <3>3. \A m \in On(d, u) : a.nxt[m] = nxt[m] /\ a.prv[m] = prv[m]
      BY <3>2 DEF SameOutside, List
    <3>4. \A m \in On(d, u) : /\ List(d, u)'.nxt[m] = List(d, u).nxt[m]
                              /\ List(d, u)'.prv[m] = List(d, u).prv[m]
      BY <3>1, <3>3 DEF List
    <3>5. ListInv(List(d, u), On(d, u)) /\ Null \notin On(d, u)
      BY <3>2, SlabNull DEF SlabLists
    <3>6. ListInv(List(d, u)', On(d, u))
      BY <3>1, <3>4, <3>5, ListInvFrame
    <3> QED
      BY <3>2, <3>6
  <2> QED BY <2>1, <2>2
<1> QED
  BY <1>1, <1>3, <1>4 DEF SlabLists

\* What is pushed to the back of the list v of the class when its list w has
\* become a.
LEMMA SecondList ==
    ASSUME TypeOK, SlabLists, pc # "fault", NEW c \in Cache,
           NEW w \in Which, NEW v \in Which, v # w, NEW s \in On(c, w),
           NEW a \in Lists(Slab, Link), SameOutside(List(c, w), a, Slab, On(c, w))
    PROVE  LET l == With(a, c, v)
               b == PushBack(l, s)
           IN  /\ l \in Lists(Slab, Link) /\ ListInv(l, On(c, v))
               /\ l.head = head[c][v] /\ l.tail = tail[c][v] /\ l.nxt = a.nxt /\ l.prv = a.prv
               /\ On(c, v) \in SUBSET Slab /\ On(c, w) \in SUBSET Slab
               /\ On(c, v) \intersect On(c, w) = {} /\ s \in Slab \ On(c, v)
               /\ \A m \in On(c, v) : a.nxt[m] = nxt[m] /\ a.prv[m] = prv[m]
               /\ b \in Lists(Slab, Link) /\ ListInv(b, On(c, v) \union {s})
               /\ SameOutside(l, b, Slab, On(c, v) \union {s})
<1> DEFINE b == PushBack(With(a, c, v), s)
<1>0. /\ a.nxt \in [Slab -> Link] /\ a.prv \in [Slab -> Link]
      /\ a.head \in Link /\ a.tail \in Link
      /\ head \in [Cache -> [Which -> Link]] /\ tail \in [Cache -> [Which -> Link]]
  BY DEF Lists, TypeOK, Link
<1>1. /\ With(a, c, v).head = head[c][v] /\ With(a, c, v).tail = tail[c][v]
      /\ With(a, c, v).nxt = a.nxt /\ With(a, c, v).prv = a.prv
      /\ With(a, c, v) \in Lists(Slab, Link)
  BY <1>0 DEF With, Lists
<1>2. /\ On(c, v) \in SUBSET Slab /\ On(c, w) \in SUBSET Slab
      /\ On(c, v) \intersect On(c, w) = {} /\ s \in Slab \ On(c, v)
  BY ListType, OnDisjoint
<1>3. \A m \in On(c, v) : a.nxt[m] = nxt[m] /\ a.prv[m] = prv[m]
  BY <1>2 DEF SameOutside, List
<1>4. ListInv(With(a, c, v), On(c, v))
  <2>1. ListInv(List(c, v), On(c, v)) /\ Null \notin On(c, v)
    BY <1>2, SlabNull DEF SlabLists
  <2>2. /\ List(c, v).head = head[c][v] /\ List(c, v).tail = tail[c][v]
        /\ List(c, v).nxt = nxt /\ List(c, v).prv = prv
    BY DEF List
  <2> QED
    BY <1>1, <1>3, <2>1, <2>2, ListInvFrame
<1>5. /\ b \in Lists(Slab, Link) /\ ListInv(b, On(c, v) \union {s})
      /\ SameOutside(With(a, c, v), b, Slab, On(c, v) \union {s})
  BY <1>1, <1>2, <1>4, SlabNull, PushBackKeeps DEF Link
<1> QED BY <1>1, <1>2, <1>3, <1>4, <1>5

\* A slab moves from the list w, which becomes a, to the back of the list v
\* of the same class.
LEMMA MoveSlab ==
    ASSUME TypeOK, SlabLists, pc # "fault", NEW c \in Cache,
           NEW w \in Which, NEW v \in Which, v # w, NEW s \in On(c, w),
           NEW a \in Lists(Slab, Link), ListInv(a, On(c, w) \ {s}),
           SameOutside(List(c, w), a, Slab, On(c, w)),
           SetLists(c, w, a, v, PushBack(With(a, c, v), s)),
           On(c, w)' = On(c, w) \ {s}, On(c, v)' = On(c, v) \union {s},
           \A d \in Cache \ {c}, u \in Which : On(d, u)' = On(d, u)
    PROVE  /\ SlabLists'
           /\ nxt' \in [Slab -> Link] /\ prv' \in [Slab -> Link]
           /\ head' \in [Cache -> [Which -> Link]]
           /\ tail' \in [Cache -> [Which -> Link]]
<1> DEFINE b == PushBack(With(a, c, v), s)
<1>0. /\ a.nxt \in [Slab -> Link] /\ a.prv \in [Slab -> Link]
      /\ a.head \in Link /\ a.tail \in Link
      /\ head \in [Cache -> [Which -> Link]] /\ tail \in [Cache -> [Which -> Link]]
  BY DEF Lists, TypeOK, Link
<1>1. /\ With(a, c, v).nxt = a.nxt /\ With(a, c, v).prv = a.prv
      /\ On(c, v) \in SUBSET Slab /\ On(c, w) \in SUBSET Slab
      /\ On(c, v) \intersect On(c, w) = {} /\ s \in Slab \ On(c, v)
  BY SecondList
<1>5. /\ b \in Lists(Slab, Link) /\ ListInv(b, On(c, v) \union {s})
      /\ SameOutside(With(a, c, v), b, Slab, On(c, v) \union {s})
  BY SecondList
<1>6. /\ nxt' = b.nxt /\ prv' = b.prv
      /\ head' = [head EXCEPT ![c][w] = a.head, ![c][v] = b.head]
      /\ tail' = [tail EXCEPT ![c][w] = a.tail, ![c][v] = b.tail]
  BY DEF SetLists
<1> HIDE DEF b
<1>7. /\ b.nxt \in [Slab -> Link] /\ b.prv \in [Slab -> Link]
      /\ b.head \in Link /\ b.tail \in Link
  BY <1>5 DEF Lists
<1>8. /\ head' \in [Cache -> [Which -> Link]] /\ tail' \in [Cache -> [Which -> Link]]
      /\ head'[c][w] = a.head /\ tail'[c][w] = a.tail
      /\ head'[c][v] = b.head /\ tail'[c][v] = b.tail
      /\ \A d \in Cache \ {c}, u \in Which :
            head'[d][u] = head[d][u] /\ tail'[d][u] = tail[d][u]
  BY <1>0, <1>6, <1>7
<1>9. \A m \in Slab \ (On(c, v) \union {s}) : b.nxt[m] = a.nxt[m] /\ b.prv[m] = a.prv[m]
  BY <1>1, <1>5 DEF SameOutside
<1>10. ASSUME NEW d \in Cache, NEW u \in Which
       PROVE  ListInv(List(d, u)', On(d, u)')
  <2>0. /\ List(d, u)'.head = head'[d][u] /\ List(d, u)'.tail = tail'[d][u]
        /\ List(d, u)'.nxt = b.nxt /\ List(d, u)'.prv = b.prv
    BY <1>6 DEF List
  <2>1. CASE d = c /\ u = v
    <3>1. Null \notin On(c, v) \union {s}
      BY <1>1, SlabNull
    <3>2. ListInv(List(d, u)', On(c, v) \union {s})
      BY <1>5, <1>8, <2>0, <2>1, <3>1, ListInvFrame
    <3> QED
      BY <2>1, <3>2
  <2>2. CASE d = c /\ u = w
    <3>1. \A m \in On(c, w) \ {s} : /\ List(d, u)'.nxt[m] = a.nxt[m]
                                    /\ List(d, u)'.prv[m] = a.prv[m]
      BY <1>1, <1>9, <2>0
    <3>2. Null \notin On(c, w) \ {s}
      BY <1>1, SlabNull
    <3>3. ListInv(List(d, u)', On(c, w) \ {s})
      BY <1>8, <2>0, <2>2, <3>1, <3>2, ListInvFrame
    <3> QED
      BY <2>2, <3>3
  <2>3. CASE d # c
    <3>1. /\ On(d, u) \in SUBSET Slab /\ On(d, u) \intersect On(c, v) = {}
          /\ On(d, u) \intersect On(c, w) = {} /\ On(d, u)' = On(d, u)
      BY <2>3, ListType, OnDisjoint
    <3>2. \A m \in On(d, u) : a.nxt[m] = nxt[m] /\ a.prv[m] = prv[m]
      BY <3>1 DEF SameOutside, List
    <3>3. \A m \in On(d, u) : /\ List(d, u)'.nxt[m] = nxt[m]
                              /\ List(d, u)'.prv[m] = prv[m]
      BY <1>9, <2>0, <3>1, <3>2
    <3>4. /\ List(d, u).head = head[d][u] /\ List(d, u).tail = tail[d][u]
          /\ List(d, u).nxt = nxt /\ List(d, u).prv = prv
      BY DEF List
    <3>5. ListInv(List(d, u), On(d, u)) /\ Null \notin On(d, u)
      BY <3>1, SlabNull DEF SlabLists
    <3>6. ListInv(List(d, u)', On(d, u))
      BY <1>8, <2>0, <2>3, <3>3, <3>4, <3>5, ListInvFrame
    <3> QED
      BY <3>1, <3>6
  <2>4. u = v \/ u = w
    BY DEF Which
  <2> QED
    BY <2>1, <2>2, <2>3, <2>4
<1> QED
  BY <1>6, <1>7, <1>8, <1>10 DEF SlabLists

-----------------------------------------------------------------------------
(* The free list of one slab. *)

LEMMA ObjectCount == IsFiniteSet(Object) /\ Cardinality(Object) = Objects
<1>1. Objects \in Nat \ {0} /\ 0 \in Int /\ Objects - 1 \in Int /\ 1 \in Int
  BY SlubAssumption
<1>2. /\ IsFiniteSet(0 .. Objects - 1)
      /\ Cardinality(0 .. Objects - 1)
             = IF 0 > Objects - 1 THEN 0 ELSE (Objects - 1) - 0 + 1
  BY <1>1, FS_Interval
<1> QED
  BY <1>1, <1>2, SlubAssumption DEF Object

\* As many different objects as there are, or as many as there are at most.
LEMMA InjectionIsOnto ==
    ASSUME NEW n \in Nat, NEW q \in [1 .. n -> Object],
           \A j, k \in 1 .. n : q[j] = q[k] => j = k
    PROVE  /\ n <= Objects
           /\ n = Objects => \A i \in Object : \E k \in 1 .. n : q[k] = i
<1>1. q \in Injection(1 .. n, Object)
  <2> DEFINE N == 1 .. n
  <2>1. q \in [N -> Object] /\ \A a, b \in N : q[a] = q[b] => a = b
    OBVIOUS
  <2> HIDE DEF N
  <2>2. q \in Injection(N, Object)
    BY <2>1, Fun_IsInj
  <2> QED
    BY <2>2 DEF N
<1>2. /\ IsFiniteSet(Object) /\ Cardinality(Object) = Objects
      /\ Cardinality(1 .. n) = n
  <2>1. 1 \in Int /\ n \in Int
    OBVIOUS
  <2>2. Cardinality(1 .. n) = IF 1 > n THEN 0 ELSE n - 1 + 1
    BY <2>1, FS_Interval
  <2> QED
    BY <2>2, ObjectCount
<1>3. n <= Objects /\ (n = Objects <=> q \in Surjection(1 .. n, Object))
  BY <1>1, <1>2, FS_Injection
<1>4. q \in Surjection(1 .. n, Object) => \A i \in Object : \E k \in 1 .. n : q[k] = i
  BY DEF Surjection
<1> QED
  BY <1>3, <1>4

\* alloc_in_oneblock takes the first of the n free objects.
LEMMA TakeList ==
    ASSUME TypeOK, NEW s \in Slab, NEW n \in Nat, NEW q \in [1 .. n -> Object],
           FreeList(s, n, q), ~Exhausted(s),
           \A i \in Object : <<s, i>> \in live' <=> <<s, i>> \in live \/ i = free[s],
           free'[s] = cell[s][free[s]], cell'[s] = cell[s],
           in_use'[s] = Up(in_use[s]), retired' = retired
    PROVE  /\ n > 0
           /\ \E r \in [1 .. n - 1 -> Object] : FreeList(s, n - 1, r)'
<1>1. n # 0 /\ free[s] = q[1]
  BY DEF FreeList, Exhausted
<1> DEFINE r == [k \in 1 .. n - 1 |-> q[k + 1]]
<1>2. /\ r \in [1 .. n - 1 -> Object]
      /\ \A k \in 1 .. n - 1 : r[k] = q[k + 1] /\ k + 1 \in 1 .. n
  BY <1>1
<1> HIDE DEF r
<1>3. FreeObjects(s)' = FreeObjects(s) \ {q[1]}
  BY <1>1 DEF FreeObjects
<1>4. /\ \A k \in 1 .. n : q[k] \in FreeObjects(s)
      /\ \A i \in FreeObjects(s) : \E k \in 1 .. n : q[k] = i
      /\ \A j, k \in 1 .. n : q[j] = q[k] => j = k
      /\ \A k \in 1 .. n : cell[s][q[k]] = IF k = n THEN Null ELSE q[k + 1]
      /\ in_use[s] = Ceiling(s) - n
  BY DEF FreeList
<1>5. \A k \in 1 .. n - 1 : r[k] \in FreeObjects(s)'
  BY <1>1, <1>2, <1>3, <1>4
<1>6. ASSUME NEW i \in FreeObjects(s)' PROVE \E k \in 1 .. n - 1 : r[k] = i
  <2>1. PICK k \in 1 .. n : q[k] = i /\ k # 1
    BY <1>3, <1>4
  <2>2. k - 1 \in 1 .. n - 1 /\ r[k - 1] = q[k]
    BY <1>1, <1>2, <2>1
  <2> QED
    BY <2>1, <2>2
<1>7. \A j, k \in 1 .. n - 1 : r[j] = r[k] => j = k
  BY <1>2, <1>4
<1>8. free'[s] = IF n - 1 = 0 THEN Null ELSE r[1]
  BY <1>1, <1>2, <1>4
<1>9. \A k \in 1 .. n - 1 : cell'[s][r[k]] = IF k = n - 1 THEN Null ELSE r[k + 1]
  <2> TAKE k \in 1 .. n - 1
  <2>1. r[k] = q[k + 1] /\ k + 1 \in 1 .. n
    BY <1>2
  <2>2. cell[s][q[k + 1]] = IF k + 1 = n THEN Null ELSE q[k + 1 + 1]
    BY <1>4, <2>1
  <2>3. k # n - 1 => r[k + 1] = q[k + 1 + 1]
    BY <1>2
  <2> QED
    BY <2>1, <2>2, <2>3
<1>10. in_use'[s] = Ceiling(s)' - (n - 1)
  <2>1. Ceiling(s)' = Ceiling(s) /\ Ceiling(s) \in Nat /\ Ceiling(s) <= InUseMax
    BY SlubAssumption DEF Ceiling
  <2>2. in_use[s] \in 0 .. InUseMax /\ InUseMax \in Nat
    BY SlubAssumption DEF TypeOK, InUse
  <2>3. Up(in_use[s]) = in_use[s] + 1
    BY <1>1, <1>4, <2>1, <2>2 DEF Up
  <2> QED
    BY <1>4, <2>1, <2>2, <2>3
<1>11. FreeList(s, n - 1, r)'
  BY <1>5, <1>6, <1>7, <1>8, <1>9, <1>10 DEF FreeList
<1> QED
  BY <1>1, <1>2, <1>11

\* free_in_oneblock puts an object in front of the n free ones.
LEMMA PutList ==
    ASSUME TypeOK, NEW s \in Slab, NEW i \in Object, <<s, i>> \in live,
           NEW n \in Nat, NEW q \in [1 .. n -> Object], FreeList(s, n, q),
           PutObject(s, i), live' = live \ {<<s, i>>}, retired' = retired
    PROVE  /\ n < Objects
           /\ Down(in_use[s]) = Ceiling(s) - (n + 1)
           /\ \E r \in [1 .. n + 1 -> Object] : FreeList(s, n + 1, r)'
<1> DEFINE r == [k \in 1 .. n + 1 |-> IF k = 1 THEN i ELSE q[k - 1]]
<1>1. /\ r \in [1 .. n + 1 -> Object] /\ r[1] = i
      /\ \A k \in 1 .. n : r[k + 1] = q[k]
      /\ \A k \in 1 .. n + 1 : k = 1 \/ (k - 1 \in 1 .. n /\ r[k] = q[k - 1])
  OBVIOUS
<1> HIDE DEF r
<1>2. /\ FreeObjects(s)' = FreeObjects(s) \union {i} /\ i \notin FreeObjects(s)
  BY DEF FreeObjects
<1>3. /\ \A k \in 1 .. n : q[k] \in FreeObjects(s)
      /\ \A j \in FreeObjects(s) : \E k \in 1 .. n : q[k] = j
      /\ \A j, k \in 1 .. n : q[j] = q[k] => j = k
      /\ free[s] = IF n = 0 THEN Null ELSE q[1]
      /\ \A k \in 1 .. n : cell[s][q[k]] = IF k = n THEN Null ELSE q[k + 1]
      /\ in_use[s] = Ceiling(s) - n
  BY DEF FreeList
<1>4. n < Objects
  <2>0. \A j, k \in 1 .. n : q[j] = q[k] => j = k
    BY <1>3
  <2>1. /\ n <= Objects
        /\ n = Objects => \A j \in Object : \E k \in 1 .. n : q[k] = j
    BY <2>0, InjectionIsOnto
  <2>2. \A k \in 1 .. n : q[k] # i
    BY <1>2, <1>3
  <2>3. n # Objects
    BY <2>1, <2>2
  <2> QED
    BY <2>1, <2>3, SlubAssumption
<1>5. /\ free'[s] = i /\ in_use'[s] = Down(in_use[s])
      /\ \A j \in Object : cell'[s][j] = IF j = i THEN free[s] ELSE cell[s][j]
  BY DEF PutObject, TypeOK
<1>6. /\ Ceiling(s)' = Ceiling(s) /\ Ceiling(s) \in Nat
      /\ Objects <= Ceiling(s) /\ Ceiling(s) <= InUseMax
  BY SlubAssumption DEF Ceiling
<1>7. Down(in_use[s]) = Ceiling(s) - (n + 1)
  <2>1. in_use[s] \in 1 .. InUseMax
    BY <1>3, <1>4, <1>6, SlubAssumption
  <2>2. Down(in_use[s]) = in_use[s] - 1
    BY <2>1 DEF Down
  <2> QED
    BY <1>3, <1>6, <2>2
<1>8. \A k \in 1 .. n + 1 : r[k] \in FreeObjects(s)'
  BY <1>1, <1>2, <1>3
<1>9. \A j \in FreeObjects(s)' : \E k \in 1 .. n + 1 : r[k] = j
  <2> TAKE j \in FreeObjects(s)'
  <2>1. CASE j = i
    BY <1>1, <2>1
  <2>2. CASE j # i
    <3>1. PICK k \in 1 .. n : q[k] = j
      BY <1>2, <1>3, <2>2
    <3> QED
      BY <1>1, <3>1, k + 1 \in 1 .. n + 1
  <2> QED BY <2>1, <2>2
<1>10. \A j, k \in 1 .. n + 1 : r[j] = r[k] => j = k
  BY <1>1, <1>2, <1>3
<1>11. \A k \in 1 .. n + 1 : cell'[s][r[k]] = IF k = n + 1 THEN Null ELSE r[k + 1]
  <2> TAKE k \in 1 .. n + 1
  <2>1. CASE k = 1
    <3>1. n # 0 => r[2] = q[1]
      BY <1>1
    <3> QED
      BY <1>1, <1>3, <1>5, <2>1, <3>1
  <2>2. CASE k # 1
    <3>1. k - 1 \in 1 .. n /\ r[k] = q[k - 1] /\ q[k - 1] \in Object /\ q[k - 1] # i
      BY <1>1, <1>2, <1>3, <2>2
    <3>2. cell[s][q[k - 1]] = IF k - 1 = n THEN Null ELSE q[k - 1 + 1]
      BY <1>3, <3>1
    <3>3. k # n + 1 => r[k + 1] = q[k]
      BY <1>1, <2>2
    <3> QED
      BY <1>5, <3>1, <3>2, <3>3
  <2> QED BY <2>1, <2>2
<1>12. free'[s] = IF n + 1 = 0 THEN Null ELSE r[1]
  BY <1>1, <1>5
<1>13. in_use'[s] = Ceiling(s)' - (n + 1)
  BY <1>5, <1>6, <1>7
<1>14. FreeList(s, n + 1, r)'
  BY <1>8, <1>9, <1>10, <1>11, <1>12, <1>13 DEF FreeList
<1> QED
  BY <1>1, <1>4, <1>7, <1>14

-----------------------------------------------------------------------------
(* What the steps have in common. *)

\* The free lists of slabs outside T are as they were.
LEMMA OtherFreeLists ==
    ASSUME FreeLists, NEW T \in SUBSET Slab,
           \A t \in Slab \ T :
               flag'[t] = "slab" =>
                   /\ flag[t] = "slab" /\ free'[t] = free[t]
                   /\ cell'[t] = cell[t] /\ in_use'[t] = in_use[t]
                   /\ FreeObjects(t)' = FreeObjects(t)
                   /\ t \in retired' <=> t \in retired,
           \A t \in T :
               flag'[t] = "slab" =>
                   \E n \in 0 .. Objects : \E q \in [1 .. n -> Object] : FreeList(t, n, q)'
    PROVE  FreeLists'
<1> SUFFICES ASSUME NEW t \in Slab, flag'[t] = "slab", t \notin T
             PROVE  \E n \in 0 .. Objects : \E q \in [1 .. n -> Object] : FreeList(t, n, q)'
  BY DEF FreeLists
<1>0. PICK n \in 0 .. Objects : \E q \in [1 .. n -> Object] : FreeList(t, n, q)
  BY DEF FreeLists
<1>1. PICK q \in [1 .. n -> Object] : FreeList(t, n, q)
  BY <1>0
<1>2. Ceiling(t)' = Ceiling(t)
  BY DEF Ceiling
<1>3. FreeList(t, n, q)'
  BY <1>1, <1>2 DEF FreeList
<1> QED
  BY <1>1, <1>3

\* Lists that do not change, of slabs that stay where they belong.
LEMMA SameLists ==
    ASSUME SlabLists, pc # "fault", UNCHANGED lists,
           \A c \in Cache, w \in Which : On(c, w)' = On(c, w)
    PROVE  SlabLists'
BY DEF SlabLists, lists, List

\* The front slab of partial, when there is one.
LEMMA Front ==
    ASSUME TypeOK, SlabLists, InSlabs, pc # "fault", NEW c \in Cache,
           head[c]["partial"] # Null
    PROVE  LET s == head[c]["partial"]
           IN  /\ s \in Slab /\ flag[s] = "slab" /\ owner[s] = c /\ s \notin onfull
               /\ s \in On(c, "partial") /\ prv[s] = Null
<1>1. ListInv(List(c, "partial"), On(c, "partial")) /\ "partial" \in Which
  BY DEF SlabLists, Which
<1>2. head[c]["partial"] \in On(c, "partial") /\ prv[head[c]["partial"]] = Null
  BY <1>1 DEF ListInv, List
<1> QED
  BY <1>2 DEF On

\* A slab with no free object has an empty free list.
LEMMA NoneFree ==
    ASSUME NEW s \in Slab, NEW n \in Nat, NEW q \in [1 .. n -> Object],
           FreeList(s, n, q)
    PROVE  Exhausted(s) <=> n = 0
BY SlabNull DEF FreeList, Exhausted

-----------------------------------------------------------------------------
(* kmalloc. *)

LEMMA InitInv == Init => IInv
<1> SUFFICES ASSUME Init PROVE IInv
  OBVIOUS
<1>1. TypeOK
  BY SlubAssumption DEF Init, TypeOK, InUse, Object
<1>2. \A c \in Cache, w \in Which : On(c, w) = {}
  BY DEF Init, On
<1>3. SlabLists
  BY <1>2 DEF Init, SlabLists, ListInv, List
<1>4. FreeLists /\ InSlabs
  BY DEF Init, FreeLists, InSlabs
<1>5. ExhaustedPlace
  BY DEF Init, ExhaustedPlace
<1> QED
  BY <1>1, <1>3, <1>4, <1>5 DEF IInv

\* A step that changes only pc and want.
LEMMA CallStep ==
    ASSUME IInv, pc # "fault", pc' \in {"idle", "alloc"}, want' \in Cache,
           UNCHANGED <<slabs, lists, hist>>
    PROVE  IInv'
<1>1. TypeOK'
  BY DEF IInv, TypeOK, slabs, lists, hist
<1>2. SlabLists'
  BY SameLists DEF IInv, On, slabs, hist
<1>3. FreeLists'
  <2>1. FreeLists /\ {} \in SUBSET Slab
    BY DEF IInv
  <2>2. \A t \in Slab : FreeObjects(t)' = FreeObjects(t)
    BY DEF FreeObjects, hist
  <2> QED
    BY <2>1, <2>2, OtherFreeLists DEF slabs, hist
<1>4. InSlabs' /\ ExhaustedPlace'
  BY DEF IInv, InSlabs, ExhaustedPlace, Exhausted, slabs, lists, hist
<1> QED
  BY <1>1, <1>2, <1>3, <1>4 DEF IInv

LEMMA TakeStep == IInv /\ TakeObject => IInv'
<1> SUFFICES ASSUME IInv, TakeObject PROVE IInv'
  OBVIOUS
<1>0. TypeOK /\ SlabLists /\ FreeLists /\ InSlabs /\ ExhaustedPlace
  BY DEF IInv
<1>1. pc = "alloc" /\ want \in Cache /\ head[want]["partial"] # Null
  BY <1>0 DEF TakeObject, Empty, Partial, List, TypeOK
<1>2. PICK s \in Slab : /\ s = FrontSlab /\ s = head[want]["partial"]
                        /\ flag[s] = "slab" /\ owner[s] = want
  BY <1>0, <1>1, Front DEF FrontSlab
<1>3. /\ live' = live \union {<<s, free[s]>>}
      /\ free' = [free EXCEPT ![s] = cell[s][free[s]]]
      /\ in_use' = [in_use EXCEPT ![s] = Up(in_use[s])]
      /\ UNCHANGED <<flag, owner, cell, nxt, prv, head, tail, want, onfull, retired>>
      /\ ~Exhausted(s) /\ pc' = "idle"
  BY <1>2 DEF TakeObject, lists
<1>5. free[s] \in Object
  BY <1>0, <1>3 DEF TypeOK, Exhausted
<1>6. TypeOK'
  <2>1. Up(in_use[s]) \in InUse
    BY <1>0, CountType DEF TypeOK
  <2>2. cell[s][free[s]] \in Object \union {Null}
    BY <1>0, <1>2, <1>5 DEF TypeOK
  <2>3. free' \in [Slab -> Object \union {Null}] /\ in_use' \in [Slab -> InUse]
    BY <1>0, <1>2, <1>3, <2>1, <2>2 DEF TypeOK
  <2>4. live' \subseteq Slab \X Object
    BY <1>0, <1>2, <1>3, <1>5 DEF TypeOK
  <2> QED
    BY <1>0, <1>1, <1>3, <2>3, <2>4 DEF TypeOK
<1>7. SlabLists'
  BY <1>0, <1>1, <1>3, SameLists DEF On, lists
<1>8. FreeLists'
  <2>0. PICK n \in 0 .. Objects : \E q \in [1 .. n -> Object] : FreeList(s, n, q)
    BY <1>0, <1>2 DEF FreeLists
  <2>1. PICK q \in [1 .. n -> Object] : FreeList(s, n, q)
    BY <2>0
  <2>2. /\ free'[s] = cell[s][free[s]] /\ cell'[s] = cell[s]
        /\ in_use'[s] = Up(in_use[s]) /\ retired' = retired
    BY <1>0, <1>2, <1>3 DEF TypeOK
  <2>3. \A i \in Object : <<s, i>> \in live' <=> <<s, i>> \in live \/ i = free[s]
    BY <1>3
  <2>4. n \in Nat /\ n <= Objects
    BY <2>1, SlubAssumption
  <2>5. n > 0 /\ \E r \in [1 .. n - 1 -> Object] : FreeList(s, n - 1, r)'
    BY <1>0, <1>3, <2>1, <2>2, <2>3, <2>4, TakeList
  <2>6. n - 1 \in 0 .. Objects
    BY <2>4, <2>5, SlubAssumption
  <2>7. \A t \in Slab \ {s} : FreeObjects(t)' = FreeObjects(t)
    BY <1>3 DEF FreeObjects
  <2>8. \A t \in Slab \ {s} : free'[t] = free[t] /\ in_use'[t] = in_use[t]
    BY <1>0, <1>3 DEF TypeOK
  <2>9. \A t \in {s} : \E m \in 0 .. Objects :
            \E r \in [1 .. m -> Object] : FreeList(t, m, r)'
    BY <2>5, <2>6
  <2>10. /\ {s} \in SUBSET Slab
         /\ \A t \in Slab \ {s} :
               /\ flag'[t] = flag[t] /\ free'[t] = free[t]
               /\ cell'[t] = cell[t] /\ in_use'[t] = in_use[t]
               /\ FreeObjects(t)' = FreeObjects(t)
               /\ t \in retired' <=> t \in retired
    BY <1>3, <2>7, <2>8
  <2> QED
    BY <1>0, <2>9, <2>10, OtherFreeLists
<1>9. InSlabs'
  BY <1>0, <1>2, <1>3 DEF InSlabs
<1>10. ExhaustedPlace'
  <2>1. \A t \in Slab \ {s} : Exhausted(t)' <=> Exhausted(t)
    BY <1>0, <1>3 DEF Exhausted, TypeOK
  <2>2. s \notin onfull
    BY <1>0, <1>1, <1>3 DEF ExhaustedPlace
  <2> QED
    BY <1>0, <1>1, <1>2, <1>3, <2>1, <2>2 DEF ExhaustedPlace
<1> QED
  BY <1>6, <1>7, <1>8, <1>9, <1>10 DEF IInv

LEMMA RetireStep == IInv /\ Retire => IInv'
<1> SUFFICES ASSUME IInv, Retire PROVE IInv'
  OBVIOUS
<1>0. TypeOK /\ SlabLists /\ FreeLists /\ InSlabs /\ ExhaustedPlace
  BY DEF IInv
<1>1. pc = "alloc" /\ want \in Cache /\ head[want]["partial"] # Null
  BY <1>0 DEF Retire, Empty, Partial, List, TypeOK
<1>2. PICK s \in Slab : /\ s = FrontSlab /\ s = head[want]["partial"]
                        /\ flag[s] = "slab" /\ owner[s] = want /\ s \notin onfull
                        /\ s \in On(want, "partial")
  BY <1>0, <1>1, Front DEF FrontSlab
<1>3. Exhausted(s) /\ UNCHANGED <<flag, owner, free, cell, want, live>>
  BY <1>2 DEF Retire
<1>4. CASE PopFrontFaults(Partial)
  <2>1. /\ pc' = "fault"
        /\ UNCHANGED <<flag, owner, free, cell, want, live>>
        /\ UNCHANGED <<in_use, nxt, prv, head, tail, onfull, retired>>
    BY <1>3, <1>4 DEF Retire, lists
  <2>2. TypeOK'
    BY <1>0, <2>1 DEF TypeOK
  <2>3. FreeLists' /\ InSlabs'
    BY <1>0, <2>1 DEF FreeLists, FreeList, FreeObjects, Ceiling, InSlabs
  <2>4. SlabLists' /\ ExhaustedPlace'
    BY <2>1 DEF SlabLists, ExhaustedPlace
  <2> QED
    BY <2>2, <2>3, <2>4 DEF IInv
<1>5. CASE ~PopFrontFaults(Partial)
  <2>1. PICK p : p = PopFront(Partial)
    OBVIOUS
  <2>2. /\ SetLists(want, "partial", p, "full", PushBack(With(p, want, "full"), s))
        /\ in_use' = [in_use EXCEPT ![s] = InUseMax]
        /\ onfull' = onfull \union {s}
        /\ retired' = retired \union {s}
        /\ pc' = pc
    BY <1>2, <1>5, <2>1 DEF Retire
  <2>3. /\ p \in Lists(Slab, Link) /\ ListInv(p, On(want, "partial") \ {s})
        /\ SameOutside(List(want, "partial"), p, Slab, On(want, "partial"))
    <3>1. /\ Partial \in Lists(Slab, Link) /\ On(want, "partial") \in SUBSET Slab
          /\ ListInv(Partial, On(want, "partial"))
      BY <1>0, <1>1, ListType DEF Partial, SlabLists, Which
    <3>2. Null \notin Slab /\ Slab \union {Null} \subseteq Link
      BY SlabNull DEF Link
    <3>3. ~Empty(Partial) /\ Partial.head = s
      BY <1>1, <1>2 DEF Empty, Partial, List
    <3> QED
      BY <1>5, <2>1, <3>1, <3>2, <3>3, PopFrontKeeps DEF Partial
  <2>4. /\ On(want, "partial")' = On(want, "partial") \ {s}
        /\ On(want, "full")' = On(want, "full") \union {s}
        /\ \A d \in Cache \ {want}, u \in Which : On(d, u)' = On(d, u)
    BY <1>2, <1>3, <2>2 DEF On
  <2>5. /\ SlabLists'
        /\ nxt' \in [Slab -> Link] /\ prv' \in [Slab -> Link]
        /\ head' \in [Cache -> [Which -> Link]]
        /\ tail' \in [Cache -> [Which -> Link]]
    <3>1. "partial" \in Which /\ "full" \in Which /\ "partial" # "full"
      BY DEF Which
    <3>2. PICK c \in Cache : c = want
      BY <1>1
    <3> QED
      BY <1>0, <1>1, <1>2, <1>3, <2>2, <2>3, <2>4, <3>1, <3>2, MoveSlab
  <2>6. TypeOK'
    <3>1. in_use' \in [Slab -> InUse]
      BY <1>0, <2>2, SlubAssumption DEF TypeOK, InUse
    <3> QED
      BY <1>0, <1>1, <1>2, <1>3, <2>2, <2>5, <3>1 DEF TypeOK, Link
  <2>7. FreeLists'
    <3>1. PICK n \in 0 .. Objects : \E q \in [1 .. n -> Object] : FreeList(s, n, q)
      BY <1>0, <1>2 DEF FreeLists
    <3>2. PICK q \in [1 .. n -> Object] : FreeList(s, n, q)
      BY <3>1
    <3>3. n = 0
      BY <1>3, <3>2, NoneFree, SlubAssumption
    <3>4. /\ FreeObjects(s)' = FreeObjects(s) /\ cell'[s] = cell[s]
          /\ free'[s] = free[s] /\ in_use'[s] = InUseMax
          /\ Ceiling(s)' = InUseMax
      BY <1>0, <1>3, <2>2 DEF TypeOK, FreeObjects, Ceiling
    <3>5. FreeList(s, n, q)'
      BY <3>2, <3>3, <3>4, SlubAssumption DEF FreeList
    <3>6. \A t \in {s} : \E m \in 0 .. Objects :
              \E r \in [1 .. m -> Object] : FreeList(t, m, r)'
      BY <3>5
    <3>7. \A t \in Slab : FreeObjects(t)' = FreeObjects(t)
      BY <1>3 DEF FreeObjects
    <3>8. /\ {s} \in SUBSET Slab
          /\ \A t \in Slab \ {s} :
                /\ flag'[t] = flag[t] /\ free'[t] = free[t]
                /\ cell'[t] = cell[t] /\ in_use'[t] = in_use[t]
                /\ FreeObjects(t)' = FreeObjects(t)
                /\ t \in retired' <=> t \in retired
      BY <1>0, <1>3, <2>2, <3>7 DEF TypeOK
    <3> QED
      BY <1>0, <3>6, <3>8, OtherFreeLists
  <2>8. InSlabs'
    BY <1>0, <1>2, <1>3, <2>2 DEF InSlabs
  <2>9. ExhaustedPlace'
    <3>1. \A t \in Slab : Exhausted(t)' <=> Exhausted(t)
      BY <1>3 DEF Exhausted
    <3>2. \A d \in Cache \ {want} : head'[d] = head[d]
      BY <1>0, <1>1, <2>2 DEF SetLists, TypeOK
    <3>3. \A t \in Slab : owner[t] \in Cache
      BY <1>0 DEF TypeOK
    <3> QED
      BY <1>0, <1>1, <1>2, <1>3, <2>2, <3>1, <3>2, <3>3 DEF ExhaustedPlace
  <2> QED
    BY <2>5, <2>6, <2>7, <2>8, <2>9 DEF IInv
<1> QED
  BY <1>4, <1>5

LEMMA NewSlabStep == ASSUME NEW s \in Slab PROVE IInv /\ NewSlab(s) => IInv'
<1> SUFFICES ASSUME IInv, NewSlab(s) PROVE IInv'
  OBVIOUS
<1>0. TypeOK /\ SlabLists /\ FreeLists /\ InSlabs /\ ExhaustedPlace
  BY DEF IInv
<1>1. PICK c \in Cache : c = want
  BY <1>0 DEF TypeOK
<1>2. /\ pc = "alloc" /\ pc' = pc /\ head[c]["partial"] = Null /\ flag[s] = "free"
      /\ flag' = [flag EXCEPT ![s] = "slab"]
      /\ owner' = [owner EXCEPT ![s] = c]
      /\ in_use' = [in_use EXCEPT ![s] = 0]
      /\ free' = [free EXCEPT ![s] = 0]
      /\ SetList(c, "partial", PushFront(List(c, "partial"), s))
      /\ UNCHANGED <<want, live, onfull, retired>>
  BY <1>1 DEF NewSlab, Partial, Empty, List, hist
<1>3. /\ cell'[s] \in [Object -> Object \union {Null}]
      /\ \A i \in Object : cell'[s][i] = IF i = Objects - 1 THEN Null ELSE i + 1
      /\ cell' \in [Slab -> [Object -> Object \union {Null}]]
      /\ \A t \in Slab \ {s} : cell'[t] = cell[t]
  <2> DEFINE f == [i \in Object |-> IF i = Objects - 1 THEN Null ELSE i + 1]
  <2>1. f \in [Object -> Object \union {Null}]
    BY SlubAssumption DEF Object
  <2>2. \A i \in Object : f[i] = IF i = Objects - 1 THEN Null ELSE i + 1
    OBVIOUS
  <2>3. cell' = [cell EXCEPT ![s] = f] /\ cell \in [Slab -> [Object -> Object \union {Null}]]
    BY <1>0 DEF NewSlab, TypeOK
  <2> HIDE DEF f
  <2> QED
    BY <2>1, <2>2, <2>3
<1>4. s \notin onfull /\ s \notin retired /\ FreeObjects(s) = Object
  BY <1>0, <1>2 DEF InSlabs, FreeObjects
<1>5. /\ On(c, "partial")' = On(c, "partial") \union {s} /\ s \notin On(c, "partial")
      /\ \A d \in Cache, u \in Which : <<d, u>> # <<c, "partial">> =>
             On(d, u)' = On(d, u) /\ s \notin On(d, u)
  BY <1>0, <1>2, <1>4 DEF On, Which, TypeOK
<1>6. PICK a : a = PushFront(List(c, "partial"), s)
  OBVIOUS
<1>7. /\ a \in Lists(Slab, Link)
      /\ ListInv(a, On(c, "partial") \union {s})
      /\ SameOutside(List(c, "partial"), a, Slab, On(c, "partial") \union {s})
  <2>1. /\ List(c, "partial") \in Lists(Slab, Link) /\ On(c, "partial") \in SUBSET Slab
        /\ ListInv(List(c, "partial"), On(c, "partial"))
    BY <1>0, <1>2, ListType DEF SlabLists, Which
  <2>2. Null \notin Slab /\ Slab \union {Null} \subseteq Link
    BY SlabNull DEF Link
  <2>3. s \in Slab \ On(c, "partial")
    BY <1>5
  <2> QED
    BY <1>6, <2>1, <2>2, <2>3, PushFrontKeeps
<1>8. /\ SlabLists'
      /\ nxt' \in [Slab -> Link] /\ prv' \in [Slab -> Link]
      /\ head' \in [Cache -> [Which -> Link]]
      /\ tail' \in [Cache -> [Which -> Link]]
  <2>1. PICK S \in SUBSET Slab : S = On(c, "partial") \union {s}
    BY DEF On
  <2>2. \A d \in Cache, u \in Which : <<d, u>> # <<c, "partial">> =>
            On(d, u)' = On(d, u) /\ On(d, u) \intersect S = {}
    BY <1>5, <2>1, OnDisjoint DEF Which
  <2>3. ListInv(a, On(c, "partial")') /\ On(c, "partial")' \in SUBSET Slab
    BY <1>5, <1>7, <2>1
  <2>4. SetList(c, "partial", a) /\ "partial" \in Which /\ pc # "fault"
    BY <1>2, <1>6 DEF Which
  <2> QED
    BY <1>0, <1>7, <2>1, <2>2, <2>3, <2>4, OneList
<1>9. TypeOK'
  <2>1. 0 \in Object /\ 0 \in InUse
    BY SlubAssumption DEF Object, InUse
  <2> QED
    BY <1>0, <1>2, <1>3, <1>8, <2>1 DEF TypeOK, Link
<1>10. FreeLists'
  <2>1. PICK q : q = [k \in 1 .. Objects |-> k - 1]
    OBVIOUS
  <2>2. /\ q \in [1 .. Objects -> Object]
        /\ \A k \in 1 .. Objects : q[k] = k - 1
        /\ \A i \in Object : i + 1 \in 1 .. Objects
    BY <2>1, SlubAssumption DEF Object
  <2>3. /\ FreeObjects(s)' = Object /\ Ceiling(s)' = Objects
        /\ free'[s] = 0 /\ in_use'[s] = 0
    BY <1>0, <1>2, <1>4 DEF TypeOK, FreeObjects, Ceiling
  <2>4. \A i \in Object : \E k \in 1 .. Objects : q[k] = i
    <3> TAKE i \in Object
    <3>1. i + 1 \in 1 .. Objects /\ q[i + 1] = i
      BY <2>2, SlubAssumption DEF Object
    <3> QED
      BY <3>1
  <2>5. \A k \in 1 .. Objects :
            cell'[s][q[k]] = IF k = Objects THEN Null ELSE q[k + 1]
    <3> TAKE k \in 1 .. Objects
    <3>1. q[k] \in Object /\ q[k] = k - 1
      BY <2>2
    <3>2. cell'[s][q[k]] = IF q[k] = Objects - 1 THEN Null ELSE q[k] + 1
      BY <1>3, <3>1
    <3>3. k # Objects => q[k + 1] = k
      BY <2>2, SlubAssumption
    <3> QED
      BY <3>1, <3>2, <3>3, SlubAssumption
  <2>6. \A j, k \in 1 .. Objects : q[j] = q[k] => j = k
    BY <2>2, SlubAssumption
  <2>7. free'[s] = IF Objects = 0 THEN Null ELSE q[1]
    BY <2>2, <2>3, SlubAssumption
  <2>8. in_use'[s] = Ceiling(s)' - Objects
    BY <2>3, SlubAssumption
  <2>9. \A k \in 1 .. Objects : q[k] \in FreeObjects(s)'
    BY <2>2, <2>3
  <2>10. \A i \in FreeObjects(s)' : \E k \in 1 .. Objects : q[k] = i
    BY <2>3, <2>4
  <2>11. FreeList(s, Objects, q)'
    BY <2>5, <2>6, <2>7, <2>8, <2>9, <2>10 DEF FreeList
  <2>12. Objects \in 0 .. Objects
    BY SlubAssumption
  <2>13. \A t \in {s} : \E m \in 0 .. Objects :
             \E r \in [1 .. m -> Object] : FreeList(t, m, r)'
    BY <2>2, <2>11, <2>12
  <2>14. \A t \in Slab : FreeObjects(t)' = FreeObjects(t)
    BY <1>2 DEF FreeObjects
  <2>15. /\ {s} \in SUBSET Slab
         /\ \A t \in Slab \ {s} :
               /\ flag'[t] = flag[t] /\ free'[t] = free[t]
               /\ cell'[t] = cell[t] /\ in_use'[t] = in_use[t]
               /\ FreeObjects(t)' = FreeObjects(t)
               /\ t \in retired' <=> t \in retired
    BY <1>0, <1>2, <1>3, <2>14 DEF TypeOK
  <2> QED
    BY <1>0, <2>13, <2>15, OtherFreeLists
<1>11. InSlabs'
  BY <1>0, <1>2 DEF InSlabs, TypeOK
<1>12. ExhaustedPlace'
  <2>1. ~Exhausted(s)'
    BY <1>0, <1>2, SlabNull, SlubAssumption DEF Exhausted, TypeOK, Object
  <2>2. \A t \in Slab \ {s} : /\ Exhausted(t)' <=> Exhausted(t)
                              /\ flag'[t] = flag[t] /\ owner'[t] = owner[t]
    BY <1>0, <1>2 DEF Exhausted, TypeOK
  <2>3. \A d \in Cache \ {c} : head'[d] = head[d]
    BY <1>0, <1>2 DEF SetList, TypeOK
  <2>4. \A t \in Slab : owner[t] \in Cache /\ t # Null
    BY <1>0, SlabNull DEF TypeOK
  <2> QED
    BY <1>0, <1>2, <1>4, <2>1, <2>2, <2>3, <2>4 DEF ExhaustedPlace
<1> QED
  BY <1>8, <1>9, <1>10, <1>11, <1>12 DEF IInv

-----------------------------------------------------------------------------
(* kfree. *)

\* What all three ways to free an object do to the slab.
LEMMA PutStep ==
    ASSUME IInv, NEW s, NEW i, Kfree(s, i), PutObject(s, i),
           \A t \in Slab : flag'[t] = "slab" => flag[t] = "slab"
    PROVE  /\ s \in Slab /\ flag[s] = "slab" /\ owner[s] \in Cache
           /\ FreeLists'
           /\ in_use' \in [Slab -> InUse] /\ free' \in [Slab -> Object \union {Null}]
           /\ cell' \in [Slab -> [Object -> Object \union {Null}]]
           /\ live' \subseteq live /\ pc = "idle"
           /\ UNCHANGED <<owner, want, retired>>
           /\ ~Exhausted(s)'
           /\ \A t \in Slab \ {s} : Exhausted(t)' <=> Exhausted(t)
           /\ Down(in_use[s]) = 0 =>
                 s \notin retired /\ \A o \in live' : o[1] # s
<1>0. TypeOK /\ FreeLists /\ InSlabs
  BY DEF IInv
<1>1. /\ pc = "idle" /\ <<s, i>> \in live /\ live' = live \ {<<s, i>>}
      /\ UNCHANGED <<owner, want, retired>>
  BY DEF Kfree
<1>2. s \in Slab /\ i \in Object /\ flag[s] = "slab" /\ owner[s] \in Cache
  BY <1>0, <1>1 DEF TypeOK, InSlabs
<1>3. /\ cell' = [cell EXCEPT ![s][i] = free[s]] /\ free' = [free EXCEPT ![s] = i]
      /\ in_use' = [in_use EXCEPT ![s] = Down(in_use[s])]
  BY DEF PutObject
<1>4. /\ in_use' \in [Slab -> InUse] /\ free' \in [Slab -> Object \union {Null}]
      /\ cell' \in [Slab -> [Object -> Object \union {Null}]]
      /\ free'[s] = i
      /\ \A t \in Slab \ {s} : /\ in_use'[t] = in_use[t] /\ free'[t] = free[t]
                              /\ cell'[t] = cell[t]
  <2>1. Down(in_use[s]) \in InUse
    BY <1>0, <1>2, CountType DEF TypeOK
  <2> QED
    BY <1>0, <1>2, <1>3, <2>1 DEF TypeOK
<1>5. PICK n \in 0 .. Objects : \E q \in [1 .. n -> Object] : FreeList(s, n, q)
  BY <1>0, <1>2 DEF FreeLists
<1>6. PICK q \in [1 .. n -> Object] : FreeList(s, n, q)
  BY <1>5
<1>7. /\ n < Objects /\ Down(in_use[s]) = Ceiling(s) - (n + 1)
      /\ \E r \in [1 .. n + 1 -> Object] : FreeList(s, n + 1, r)'
  <2>1. n \in Nat
    BY <1>5, SlubAssumption
  <2> QED
    BY <1>0, <1>1, <1>2, <1>6, <2>1, PutList
<1>8. PICK r \in [1 .. n + 1 -> Object] : FreeList(s, n + 1, r)'
  BY <1>7
<1>9. n + 1 \in 0 .. Objects
  BY <1>5, <1>7, SlubAssumption
<1>10. FreeLists'
  <2>1. \A t \in {s} : \E m \in 0 .. Objects :
            \E u \in [1 .. m -> Object] : FreeList(t, m, u)'
    BY <1>7, <1>9
  <2>2. \A t \in Slab \ {s} : FreeObjects(t)' = FreeObjects(t)
    BY <1>1 DEF FreeObjects
  <2>3. /\ {s} \in SUBSET Slab
        /\ \A t \in Slab \ {s} :
              /\ flag'[t] = "slab" => flag[t] = "slab" /\ free'[t] = free[t]
              /\ cell'[t] = cell[t] /\ in_use'[t] = in_use[t]
              /\ FreeObjects(t)' = FreeObjects(t)
              /\ t \in retired' <=> t \in retired
    BY <1>1, <1>2, <1>4, <2>2
  <2>4. \A t \in Slab \ {s} : flag'[t] = "slab" =>
              /\ flag[t] = "slab" /\ free'[t] = free[t]
              /\ cell'[t] = cell[t] /\ in_use'[t] = in_use[t]
              /\ FreeObjects(t)' = FreeObjects(t)
              /\ t \in retired' <=> t \in retired
    BY <1>4, <2>3
  <2> QED
    BY <1>0, <2>1, <2>3, <2>4, OtherFreeLists
\* in_use gets to zero only where every object of a slab that was never on
\* full is free again.
<1>11. ASSUME Down(in_use[s]) = 0
       PROVE  s \notin retired /\ \A o \in live' : o[1] # s
  <2>1. n + 1 = Ceiling(s)
    BY <1>5, <1>7, <1>11, SlubAssumption DEF Ceiling
  <2>2. s \notin retired /\ n + 1 = Objects
    BY <1>5, <1>7, <2>1, SlubAssumption DEF Ceiling
  <2>3. /\ \A k \in 1 .. n + 1 : r[k] \in FreeObjects(s)'
        /\ \A j, k \in 1 .. n + 1 : r[j] = r[k] => j = k
    BY <1>8 DEF FreeList
  <2>4. \A j \in Object : \E k \in 1 .. n + 1 : r[k] = j
    <3>1. PICK m \in Nat : m = n + 1
      BY <1>9, SlubAssumption
    <3> QED
      BY <2>2, <2>3, <3>1, InjectionIsOnto
  <2>5. \A j \in Object : <<s, j>> \notin live'
    BY <2>3, <2>4 DEF FreeObjects
  <2>6. \A o \in live' : o = <<o[1], o[2]>> /\ o[2] \in Object
    BY <1>0, <1>1 DEF TypeOK
  <2> QED
    BY <2>2, <2>5, <2>6
<1>12. \A t \in Slab \ {s} : Exhausted(t)' <=> Exhausted(t)
  BY <1>4 DEF Exhausted
<1>13. ~Exhausted(s)'
  BY <1>2, <1>4, SlabNull DEF Exhausted
<1> QED
  BY <1>1, <1>2, <1>4, <1>10, <1>11, <1>12, <1>13

\* What IInv says of a list of a class between two calls and in alloc.
LEMMA ListFacts ==
    ASSUME IInv, pc # "fault", NEW c \in Cache, NEW w \in Which
    PROVE  /\ TypeOK /\ SlabLists /\ FreeLists /\ InSlabs /\ ExhaustedPlace
           /\ List(c, w) \in Lists(Slab, Link) /\ On(c, w) \in SUBSET Slab
           /\ ListInv(List(c, w), On(c, w)) /\ Null \notin On(c, w)
           /\ Null \notin Slab /\ Slab \union {Null} \subseteq Link
           /\ List(c, w).head = head[c][w]
BY ListType, SlabNull DEF IInv, SlabLists, Link, List

\* The slab that is popped off full without a fault was on it: otherwise it
\* would be the front of partial, and pop_node would fault.
LEMMA ExhaustedOnFull ==
    ASSUME IInv, pc # "fault", NEW s \in Slab, flag[s] = "slab", owner[s] \in Cache,
           NEW c \in Cache, c = owner[s], Exhausted(s),
           ~PopNodeFaults(List(c, "full"), s)
    PROVE  s \in onfull
<1> SUFFICES ASSUME s \notin onfull PROVE FALSE
  OBVIOUS
<1>0. /\ TypeOK /\ SlabLists /\ InSlabs /\ ExhaustedPlace
      /\ ListInv(List(c, "full"), On(c, "full"))
  BY ListFacts DEF Which
<1>1. head[c]["partial"] = s
  BY <1>0 DEF ExhaustedPlace
<1>2. prv[s] = Null
  BY <1>0, <1>1, Front, SlabNull
<1>3. s \notin On(c, "full") /\ s # Null
  BY SlabNull DEF On
<1>4. s # List(c, "full").head /\ s # List(c, "full").tail
  BY <1>0, <1>3 DEF ListInv
<1>5. List(c, "full").prv[s] = Null
  BY <1>2 DEF List
<1> QED
  BY <1>4, <1>5 DEF PopNodeFaults

LEMMA KfreeExhaustedStep ==
    ASSUME NEW s, NEW i PROVE IInv /\ KfreeExhausted(s, i) => IInv'
<1> SUFFICES ASSUME IInv, KfreeExhausted(s, i) PROVE IInv'
  OBVIOUS
<1>0. TypeOK /\ SlabLists /\ FreeLists /\ InSlabs /\ ExhaustedPlace
  BY DEF IInv
<1>1. /\ Exhausted(s) /\ Kfree(s, i) /\ PutObject(s, i) /\ flag' = flag
  BY DEF KfreeExhausted
<1>2. /\ s \in Slab /\ flag[s] = "slab" /\ owner[s] \in Cache
      /\ FreeLists'
      /\ in_use' \in [Slab -> InUse] /\ free' \in [Slab -> Object \union {Null}]
      /\ cell' \in [Slab -> [Object -> Object \union {Null}]]
      /\ live' \subseteq live /\ pc = "idle"
      /\ UNCHANGED <<owner, want, retired>>
      /\ ~Exhausted(s)'
      /\ \A t \in Slab \ {s} : Exhausted(t)' <=> Exhausted(t)
  BY <1>1, PutStep
<1>3. PICK c \in Cache : c = owner[s]
  BY <1>2
<1>4. InSlabs' \/ ~(onfull' \subseteq onfull)
  BY <1>0, <1>1, <1>2 DEF InSlabs
<1>5. CASE PopNodeFaults(List(c, "full"), s)
  <2>1. pc' = "fault" /\ UNCHANGED <<nxt, prv, head, tail, onfull>>
    BY <1>3, <1>5 DEF KfreeExhausted, lists
  <2>2. TypeOK'
    BY <1>0, <1>1, <1>2, <2>1 DEF TypeOK
  <2>3. SlabLists' /\ ExhaustedPlace'
    BY <2>1 DEF SlabLists, ExhaustedPlace
  <2> QED
    BY <1>2, <1>4, <2>1, <2>2, <2>3 DEF IInv
<1>6. CASE ~PopNodeFaults(List(c, "full"), s)
  <2>1. PICK f : f = PopNode(List(c, "full"), s)
    OBVIOUS
  <2>2. /\ SetLists(c, "full", f, "partial", PushBack(With(f, c, "partial"), s))
        /\ onfull' = onfull \ {s} /\ pc' = pc
    BY <1>3, <1>6, <2>1 DEF KfreeExhausted
  <2>3. /\ List(c, "full") \in Lists(Slab, Link) /\ On(c, "full") \in SUBSET Slab
        /\ ListInv(List(c, "full"), On(c, "full"))
    BY <1>0, <1>2, ListType DEF SlabLists, Which
  <2>4. s \in onfull
    BY <1>1, <1>2, <1>3, <1>6, ExhaustedOnFull
  <2>5. s \in On(c, "full")
    BY <1>2, <1>3, <2>4 DEF On
  <2>6. /\ f \in Lists(Slab, Link) /\ ListInv(f, On(c, "full") \ {s})
        /\ SameOutside(List(c, "full"), f, Slab, On(c, "full"))
    <3>1. Null \notin Slab /\ Slab \union {Null} \subseteq Link
      BY SlabNull DEF Link
    <3> QED
      BY <1>6, <2>1, <2>3, <2>5, <3>1, PopNodeKeeps
  <2>7. /\ On(c, "full")' = On(c, "full") \ {s}
        /\ On(c, "partial")' = On(c, "partial") \union {s}
        /\ \A d \in Cache \ {c}, u \in Which : On(d, u)' = On(d, u)
    BY <1>1, <1>2, <1>3, <2>2, <2>4 DEF On
  <2>8. /\ SlabLists'
        /\ nxt' \in [Slab -> Link] /\ prv' \in [Slab -> Link]
        /\ head' \in [Cache -> [Which -> Link]]
        /\ tail' \in [Cache -> [Which -> Link]]
    <3>1. "partial" \in Which /\ "full" \in Which /\ "partial" # "full" /\ pc # "fault"
      BY <1>2 DEF Which
    <3> QED
      BY <1>0, <2>2, <2>5, <2>6, <2>7, <3>1, MoveSlab
  <2>9. TypeOK'
    BY <1>0, <1>1, <1>2, <2>2, <2>8 DEF TypeOK, Link
  <2>10. InSlabs'
    BY <1>4, <2>2
  <2>11. ExhaustedPlace'
    <3>1. \A d \in Cache \ {c} : head'[d] = head[d]
      BY <1>0, <2>2 DEF SetLists, TypeOK
    <3>2. \A t \in Slab : owner[t] \in Cache /\ t # Null
      BY <1>0, SlabNull DEF TypeOK
    <3>3. head[c]["partial"] # Null => head'[c]["partial"] = head[c]["partial"]
      BY <1>0, <2>2 DEF SetLists, TypeOK, PushBack, With, Empty, Which
    <3> QED
      BY <1>0, <1>1, <1>2, <1>3, <2>2, <2>4, <3>1, <3>2, <3>3 DEF ExhaustedPlace
  <2> QED
    BY <1>2, <2>8, <2>9, <2>10, <2>11 DEF IInv
<1> QED
  BY <1>5, <1>6

LEMMA KfreePartialStep ==
    ASSUME NEW s, NEW i PROVE IInv /\ KfreePartial(s, i) => IInv'
<1> SUFFICES ASSUME IInv, KfreePartial(s, i) PROVE IInv'
  OBVIOUS
<1>0. TypeOK /\ SlabLists /\ FreeLists /\ InSlabs /\ ExhaustedPlace
  BY DEF IInv
<1>1. /\ ~Exhausted(s) /\ Kfree(s, i) /\ PutObject(s, i)
      /\ UNCHANGED <<flag, nxt, prv, head, tail, pc, onfull>>
  BY DEF KfreePartial, lists
<1>2. /\ s \in Slab /\ flag[s] = "slab" /\ owner[s] \in Cache
      /\ FreeLists'
      /\ in_use' \in [Slab -> InUse] /\ free' \in [Slab -> Object \union {Null}]
      /\ cell' \in [Slab -> [Object -> Object \union {Null}]]
      /\ live' \subseteq live /\ pc = "idle"
      /\ UNCHANGED <<owner, want, retired>>
      /\ ~Exhausted(s)'
      /\ \A t \in Slab \ {s} : Exhausted(t)' <=> Exhausted(t)
  BY <1>1, PutStep
<1>3. TypeOK'
  BY <1>0, <1>1, <1>2 DEF TypeOK
<1>4. SlabLists'
  BY <1>0, <1>1, <1>2, SameLists DEF On, lists
<1>5. InSlabs'
  BY <1>0, <1>1, <1>2 DEF InSlabs
<1>6. ExhaustedPlace'
  BY <1>0, <1>1, <1>2 DEF ExhaustedPlace
<1> QED
  BY <1>2, <1>3, <1>4, <1>5, <1>6 DEF IInv

LEMMA KfreeLastStep ==
    ASSUME NEW s, NEW i PROVE IInv /\ KfreeLast(s, i) => IInv'
<1> SUFFICES ASSUME IInv, KfreeLast(s, i) PROVE IInv'
  OBVIOUS
<1>0. TypeOK /\ SlabLists /\ FreeLists /\ InSlabs /\ ExhaustedPlace
  BY DEF IInv
<1>1. /\ ~Exhausted(s) /\ Down(in_use[s]) = 0 /\ Kfree(s, i) /\ PutObject(s, i)
      /\ onfull' = onfull /\ pc = "idle" /\ s \in Slab
  BY <1>0 DEF KfreeLast, Kfree, TypeOK
<1>2. flag' = flag \/ flag' = [flag EXCEPT ![s] = "free"]
  BY DEF KfreeLast
<1>3. \A t \in Slab : flag'[t] = "slab" => flag[t] = "slab"
  BY <1>0, <1>2 DEF TypeOK
<1>4. /\ s \in Slab /\ flag[s] = "slab" /\ owner[s] \in Cache
      /\ FreeLists'
      /\ in_use' \in [Slab -> InUse] /\ free' \in [Slab -> Object \union {Null}]
      /\ cell' \in [Slab -> [Object -> Object \union {Null}]]
      /\ live' \subseteq live
      /\ UNCHANGED <<owner, want, retired>>
      /\ ~Exhausted(s)'
      /\ \A t \in Slab \ {s} : Exhausted(t)' <=> Exhausted(t)
      /\ s \notin retired /\ \A o \in live' : o[1] # s
  BY <1>1, <1>3, PutStep
<1>5. InSlabs'
  <2>1. \A t \in Slab \ {s} : flag'[t] = flag[t]
    BY <1>0, <1>2 DEF TypeOK
  <2>2. \A o \in live : o[1] \in Slab
    BY <1>0 DEF TypeOK
  <2> QED
    BY <1>0, <1>1, <1>4, <2>1, <2>2 DEF InSlabs, TypeOK
<1>6. flag' \in [Slab -> {"free", "slab"}]
  BY <1>0, <1>2 DEF TypeOK
<1>7. PICK c \in Cache : c = owner[s]
  BY <1>4
<1>8. CASE PopNodeFaults(List(c, "partial"), s)
  <2>1. pc' = "fault" /\ UNCHANGED <<nxt, prv, head, tail>>
    BY <1>7, <1>8 DEF KfreeLast, lists
  <2>2. TypeOK'
    BY <1>0, <1>1, <1>4, <1>6, <2>1 DEF TypeOK
  <2>3. SlabLists' /\ ExhaustedPlace'
    BY <2>1 DEF SlabLists, ExhaustedPlace
  <2> QED
    BY <1>4, <1>5, <2>2, <2>3 DEF IInv
<1>9. CASE ~PopNodeFaults(List(c, "partial"), s)
  <2>1. PICK a : a = PopNode(List(c, "partial"), s)
    OBVIOUS
  <2>2. /\ SetList(c, "partial", a) /\ flag' = [flag EXCEPT ![s] = "free"]
        /\ pc' = pc
    BY <1>7, <1>9, <2>1 DEF KfreeLast
  <2>3. s \notin onfull
    BY <1>0, <1>1 DEF ExhaustedPlace
  <2>4. s \in On(c, "partial")
    BY <1>4, <1>7, <2>3 DEF On
  <2>5. /\ List(c, "partial") \in Lists(Slab, Link) /\ On(c, "partial") \in SUBSET Slab
        /\ ListInv(List(c, "partial"), On(c, "partial"))
    BY <1>0, <1>1, ListType DEF SlabLists, Which
  <2>6. /\ a \in Lists(Slab, Link) /\ ListInv(a, On(c, "partial") \ {s})
        /\ SameOutside(List(c, "partial"), a, Slab, On(c, "partial"))
    <3>1. Null \notin Slab /\ Slab \union {Null} \subseteq Link
      BY SlabNull DEF Link
    <3> QED
      BY <1>9, <2>1, <2>4, <2>5, <3>1, PopNodeKeeps
  <2>7. /\ On(c, "partial")' = On(c, "partial") \ {s}
        /\ \A d \in Cache, u \in Which : <<d, u>> # <<c, "partial">> => On(d, u)' = On(d, u)
    BY <1>0, <1>1, <1>4, <1>7, <2>2, <2>3 DEF On, Which, TypeOK
  <2>8. /\ SlabLists'
        /\ nxt' \in [Slab -> Link] /\ prv' \in [Slab -> Link]
        /\ head' \in [Cache -> [Which -> Link]]
        /\ tail' \in [Cache -> [Which -> Link]]
    <3>1. PICK S \in SUBSET Slab : S = On(c, "partial")
      BY <2>5
    <3>2. \A d \in Cache, u \in Which : <<d, u>> # <<c, "partial">> =>
              On(d, u)' = On(d, u) /\ On(d, u) \intersect S = {}
      BY <2>7, <3>1, OnDisjoint DEF Which
    <3>3. ListInv(a, On(c, "partial")') /\ On(c, "partial")' \in SUBSET Slab
      BY <2>6, <2>7, <3>1
    <3>4. "partial" \in Which /\ pc # "fault"
      BY <1>1 DEF Which
    <3> QED
      BY <1>0, <2>2, <2>6, <3>1, <3>2, <3>3, <3>4, OneList
  <2>9. TypeOK'
    BY <1>0, <1>1, <1>4, <1>6, <2>2, <2>8 DEF TypeOK, Link
  <2>10. ExhaustedPlace'
    <3>1. \A d \in Cache \ {c} : head'[d] = head[d]
      BY <1>0, <2>2 DEF SetList, TypeOK
    <3>2. \A t \in Slab : owner[t] \in Cache
      BY <1>0 DEF TypeOK
    <3>3. head[c]["partial"] # s => head'[c]["partial"] = head[c]["partial"]
      <4>1. head[c]["partial"] # s => a.head = head[c]["partial"]
        BY <2>1 DEF PopNode, PopBack, JoinList, Orphan, Empty, List, Cleared
      <4> QED
        BY <1>0, <2>2, <4>1 DEF SetList, TypeOK, Which
    <3>4. \A t \in Slab \ {s} : flag'[t] = flag[t]
      BY <1>0, <2>2 DEF TypeOK
    <3> QED
      BY <1>0, <1>1, <1>4, <1>7, <2>2, <2>3, <3>1, <3>2, <3>3, <3>4 DEF ExhaustedPlace
  <2> QED
    BY <1>4, <1>5, <2>8, <2>9, <2>10 DEF IInv
<1> QED
  BY <1>8, <1>9

-----------------------------------------------------------------------------
(* The theorems. *)

LEMMA StepInv == IInv /\ [Next]_vars => IInv'
<1> SUFFICES ASSUME IInv, [Next]_vars PROVE IInv'
  OBVIOUS
<1>1. ASSUME NEW c \in Cache, Kmalloc(c) PROVE IInv'
  BY <1>1, CallStep DEF Kmalloc
<1>2. CASE TakeObject
  BY <1>2, TakeStep
<1>3. CASE Retire
  BY <1>3, RetireStep
<1>4. ASSUME NEW s \in Slab, NewSlab(s) PROVE IInv'
  BY <1>4, NewSlabStep
<1>5. CASE NoPages
  BY <1>5, CallStep DEF NoPages, IInv, TypeOK
<1>6. ASSUME NEW o \in live, KfreeExhausted(o[1], o[2]) PROVE IInv'
  BY <1>6, KfreeExhaustedStep
<1>7. ASSUME NEW o \in live, KfreePartial(o[1], o[2]) PROVE IInv'
  BY <1>7, KfreePartialStep
<1>8. ASSUME NEW o \in live, KfreeLast(o[1], o[2]) PROVE IInv'
  BY <1>8, KfreeLastStep
<1>9. CASE UNCHANGED vars
  <2>1. UNCHANGED <<slabs, lists, pc, want, hist>>
    BY <1>9 DEF vars
  <2>2. CASE pc # "fault"
    BY <2>1, <2>2, CallStep DEF IInv, TypeOK
  <2>3. CASE pc = "fault"
    <3>0. UNCHANGED <<flag, owner, in_use, free, cell, nxt, prv, head, tail, pc,
                      want, live, onfull, retired>>
      BY <2>1 DEF slabs, lists, hist
    <3>1. /\ TypeOK' <=> TypeOK
          /\ FreeLists' <=> FreeLists
          /\ InSlabs' <=> InSlabs
      <4>1. TypeOK' <=> TypeOK
        BY <3>0 DEF TypeOK
      <4>2. FreeLists' <=> FreeLists
        BY <3>0 DEF FreeLists, FreeList, FreeObjects, Ceiling
      <4>3. InSlabs' <=> InSlabs
        BY <3>0 DEF InSlabs
      <4> QED
        BY <4>1, <4>2, <4>3
    <3>2. SlabLists' /\ ExhaustedPlace'
      BY <2>1, <2>3 DEF SlabLists, ExhaustedPlace
    <3> QED
      BY <3>1, <3>2 DEF IInv
  <2> QED
    BY <2>2, <2>3
<1> QED
  BY <1>1, <1>2, <1>3, <1>4, <1>5, <1>6, <1>7, <1>8, <1>9 DEF Next, AllocStep, Halted

\* Every reachable state of the allocator satisfies the inductive invariant:
\* alloc and free of slub.cpp keep the lists of slabs and the free lists.
THEOREM SlubInvariant == Spec => []IInv
<1>1. Init => IInv
  BY InitInv
<1>2. IInv /\ [Next]_vars => IInv'
  BY StepInv
<1> QED
  BY <1>1, <1>2, PTL DEF Spec

\* Until a null pointer is followed, partial and full of each size class are
\* sound lists of exactly the slabs that belong on them.
THEOREM SlubSlabLists == Spec => []SlabLists
<1>1. IInv => SlabLists
  BY DEF IInv
<1> QED
  BY <1>1, SlubInvariant, PTL

LEMMA FirstUnused == IInv => NextObjectUnused
<1> SUFFICES ASSUME IInv, NEW s \in Slab, flag[s] = "slab", ~Exhausted(s)
             PROVE  <<s, free[s]>> \notin live
  BY DEF NextObjectUnused
<1>1. PICK n \in 0 .. Objects : \E q \in [1 .. n -> Object] : FreeList(s, n, q)
  BY DEF IInv, FreeLists
<1>2. PICK q \in [1 .. n -> Object] : FreeList(s, n, q)
  BY <1>1
<1>3. n # 0 /\ n \in Nat
  BY <1>1, <1>2, NoneFree, SlubAssumption
<1>4. free[s] = q[1] /\ q[1] \in FreeObjects(s)
  BY <1>2, <1>3 DEF FreeList
<1> QED
  BY <1>4 DEF FreeObjects

\* What alloc_in_oneblock takes is never an object somebody has.
THEOREM SlubNextObjectUnused == Spec => []NextObjectUnused
<1>1. IInv => NextObjectUnused
  BY FirstUnused
<1> QED
  BY <1>1, SlubInvariant, PTL

-----------------------------------------------------------------------------
(* The lists partial keep their links. *)

LEMMA PartialInit == Init => PartialInv
<1> SUFFICES ASSUME Init, NEW c \in Cache PROVE PartialSound(c)
  BY DEF PartialInv
<1>1. On(c, "partial") = {} /\ "partial" \in Which
  BY DEF Init, On, Which
<1>2. List(c, "partial").head = Null
  BY <1>1 DEF Init, List
<1> QED BY <1>1, <1>2 DEF PartialSound, Chained

\* The list partial of a class that the step is not about.
LEMMA OtherPartial ==
    ASSUME NEW d \in Cache, PartialSound(d),
           head'[d]["partial"] = head[d]["partial"], tail'[d]["partial"] = tail[d]["partial"],
           On(d, "partial")' = On(d, "partial"),
           \A m \in On(d, "partial") : nxt'[m] = nxt[m],
           retired \subseteq retired'
    PROVE  PartialSound(d)'
<1>1. /\ List(d, "partial")'.head = List(d, "partial").head
      /\ List(d, "partial")'.tail = List(d, "partial").tail
      /\ \A m \in On(d, "partial") : List(d, "partial")'.nxt[m] = List(d, "partial").nxt[m]
  BY DEF List
<1>2. Chained(List(d, "partial")', On(d, "partial"))
  BY <1>1, ChainedFrame DEF PartialSound
<1>3. \A s \in On(d, "partial") \ retired' : s = head'[d]["partial"]
  BY DEF PartialSound
<1> QED BY <1>2, <1>3 DEF PartialSound

\* A step that leaves the lists alone.
LEMMA PartialKept ==
    ASSUME PartialInv, pc # "fault", UNCHANGED lists, retired' = retired,
           \A c \in Cache : On(c, "partial")' = On(c, "partial")
    PROVE  PartialInv'
BY OtherPartial DEF PartialInv, lists

LEMMA PartialEnds ==
    ASSUME IInv, PartialInv, pc # "fault", NEW c \in Cache
    PROVE  /\ head[c]["partial"] = Null <=> On(c, "partial") = {}
           /\ \A n \in On(c, "partial") : ~PopNodeFaults(List(c, "partial"), n)
<1>1. /\ ListInv(List(c, "partial"), On(c, "partial")) /\ Null \notin On(c, "partial")
      /\ List(c, "partial").head = head[c]["partial"]
  BY ListFacts DEF Which
<1>2. Chained(List(c, "partial"), On(c, "partial"))
  BY DEF PartialInv, PartialSound
<1> QED BY <1>1, <1>2, ChainedEnds

\* Taking the front slab off partial does not fault and keeps the others.
LEMMA PopPartial ==
    ASSUME IInv, PartialInv, pc # "fault", NEW c \in Cache, head[c]["partial"] # Null
    PROVE  LET l == List(c, "partial")
               s == head[c]["partial"]
               a == PopNode(l, s)
           IN  /\ s \in On(c, "partial")
               /\ ~PopNodeFaults(l, s) /\ ~PopFrontFaults(l)
               /\ a = PopFront(l)
               /\ a \in Lists(Slab, Link) /\ ListInv(a, On(c, "partial") \ {s})
               /\ SameOutside(l, a, Slab, On(c, "partial"))
               /\ Chained(a, On(c, "partial") \ {s})
               /\ On(c, "partial") \ {s} \subseteq retired
<1> DEFINE l == List(c, "partial")
           s == head[c]["partial"]
           S == On(c, "partial")
<1>1. /\ l \in Lists(Slab, Link) /\ S \in SUBSET Slab /\ ListInv(l, S) /\ Null \notin S
      /\ Null \notin Slab /\ Slab \union {Null} \subseteq Link /\ l.head = s
  BY ListFacts DEF Which
<1>2. Chained(l, S) /\ S \ {s} \subseteq retired
  BY DEF PartialInv, PartialSound
<1> HIDE DEF l, S
<1>3. s \in S
  BY <1>1 DEF ListInv
<1>4. ~PopNodeFaults(l, s) /\ PopNode(l, s) = PopFront(l) /\ ~PopFrontFaults(l)
  <2>1. ~PopNodeFaults(l, s)
    BY <1>1, <1>2, <1>3, ChainedEnds
  <2> QED BY <1>1, <2>1 DEF PopNode, PopNodeFaults
<1>5. s = l.tail => S \subseteq {l.head, l.tail}
  BY <1>1, <1>2, ChainedEnds
<1>6. Chained(PopNode(l, s), S \ {s})
  BY <1>1, <1>2, <1>3, <1>5, PopNodeChained
<1>7. /\ PopNode(l, s) \in Lists(Slab, Link) /\ ListInv(PopNode(l, s), S \ {s})
      /\ SameOutside(l, PopNode(l, s), Slab, S)
  BY <1>1, <1>3, <1>4, PopNodeKeeps
<1> QED BY <1>2, <1>3, <1>4, <1>6, <1>7 DEF l, S

LEMMA RetirePartial ==
    ASSUME IInv, PartialInv, Retire
    PROVE  PartialInv' /\ pc' = pc /\ ~PopFrontFaults(Partial)
<1>0. TypeOK /\ SlabLists /\ FreeLists /\ InSlabs /\ ExhaustedPlace
  BY DEF IInv
<1>1. pc = "alloc" /\ want \in Cache /\ head[want]["partial"] # Null
  BY <1>0 DEF Retire, Empty, Partial, List, TypeOK
<1>2. PICK c \in Cache : c = want
  BY <1>1
<1>3. PICK s \in Slab : /\ s = FrontSlab /\ s = head[c]["partial"]
                        /\ flag[s] = "slab" /\ owner[s] = c /\ s \notin onfull
  BY <1>0, <1>1, <1>2, Front DEF FrontSlab
<1>4. PICK p : p = PopFront(List(c, "partial"))
  OBVIOUS
<1>5. /\ s \in On(c, "partial") /\ ~PopFrontFaults(Partial)
      /\ p \in Lists(Slab, Link) /\ ListInv(p, On(c, "partial") \ {s})
      /\ SameOutside(List(c, "partial"), p, Slab, On(c, "partial"))
      /\ Chained(p, On(c, "partial") \ {s})
      /\ On(c, "partial") \ {s} \subseteq retired
  BY <1>1, <1>2, <1>3, <1>4, PopPartial DEF Partial
<1>6. /\ SetLists(c, "partial", p, "full", PushBack(With(p, c, "full"), s))
      /\ onfull' = onfull \union {s} /\ retired' = retired \union {s}
      /\ pc' = pc /\ UNCHANGED <<flag, owner>>
  BY <1>2, <1>3, <1>4, <1>5 DEF Retire, Partial
<1>7. PICK l : l = With(p, c, "full")
  OBVIOUS
<1>8. PICK b : b = PushBack(l, s)
  OBVIOUS
<1>9. /\ On(c, "full") \in SUBSET Slab /\ On(c, "partial") \in SUBSET Slab
      /\ On(c, "full") \intersect On(c, "partial") = {}
      /\ SameOutside(l, b, Slab, On(c, "full") \union {s}) /\ l.nxt = p.nxt
  <2>1. PICK w \in Which, v \in Which : w = "partial" /\ v = "full"
    BY DEF Which
  <2>2. /\ v # w /\ pc # "fault" /\ s \in On(c, w) /\ p \in Lists(Slab, Link)
        /\ SameOutside(List(c, w), p, Slab, On(c, w)) /\ l = With(p, c, v)
        /\ TypeOK /\ SlabLists
    BY <1>0, <1>1, <1>5, <1>7, <2>1
  <2>3. /\ On(c, v) \in SUBSET Slab /\ On(c, w) \in SUBSET Slab
        /\ On(c, v) \intersect On(c, w) = {}
        /\ SameOutside(l, b, Slab, On(c, v) \union {s})
    BY <1>8, <2>1, <2>2, SecondList
  <2>4. l.nxt = p.nxt
    BY <1>7 DEF With
  <2> QED BY <2>1, <2>3, <2>4
<1>10. /\ nxt' = b.nxt
      /\ head' = [head EXCEPT ![c]["partial"] = p.head, ![c]["full"] = b.head]
      /\ tail' = [tail EXCEPT ![c]["partial"] = p.tail, ![c]["full"] = b.tail]
  BY <1>6, <1>7, <1>8 DEF SetLists
<1>11. /\ head'[c]["partial"] = p.head /\ tail'[c]["partial"] = p.tail
       /\ \A d \in Cache \ {c} : head'[d] = head[d] /\ tail'[d] = tail[d]
  BY <1>0, <1>10 DEF TypeOK, Which
<1>12. \A d \in Cache : On(d, "partial")' = IF d = c THEN On(c, "partial") \ {s} ELSE On(d, "partial")
  BY <1>3, <1>6 DEF On
<1>13. PartialSound(c)'
  <2>1. \A m \in On(c, "partial") \ {s} : b.nxt[m] = p.nxt[m]
    BY <1>9 DEF SameOutside
  <2>2. /\ List(c, "partial")'.head = p.head /\ List(c, "partial")'.tail = p.tail
        /\ List(c, "partial")'.nxt = b.nxt
    BY <1>10, <1>11 DEF List
  <2>3. Chained(List(c, "partial")', On(c, "partial") \ {s})
    BY <1>5, <2>1, <2>2, ChainedFrame
  <2>4. On(c, "partial")' = On(c, "partial") \ {s}
    BY <1>12
  <2>5. On(c, "partial")' \ retired' = {}
    BY <1>5, <1>6, <2>4
  <2> QED BY <2>3, <2>4, <2>5 DEF PartialSound
<1>14. ASSUME NEW d \in Cache \ {c} PROVE PartialSound(d)'
  <2>1. /\ On(d, "partial") \in SUBSET Slab
        /\ On(d, "partial") \intersect On(c, "partial") = {}
        /\ On(d, "partial") \intersect On(c, "full") = {}
    BY <1>0, ListType, OnDisjoint DEF Which
  <2>2. \A m \in On(d, "partial") : b.nxt[m] = p.nxt[m] /\ p.nxt[m] = nxt[m]
    BY <1>5, <1>9, <2>1 DEF SameOutside, List
  <2>3. PartialSound(d) /\ On(d, "partial")' = On(d, "partial")
    BY <1>1, <1>12 DEF PartialInv
  <2> QED BY <1>6, <1>10, <1>11, <2>2, <2>3, OtherPartial
<1> QED BY <1>5, <1>6, <1>13, <1>14 DEF PartialInv

LEMMA NewSlabPartial ==
    ASSUME IInv, PartialInv, NEW s \in Slab, NewSlab(s)
    PROVE  PartialInv'
<1>0. TypeOK /\ SlabLists /\ FreeLists /\ InSlabs /\ ExhaustedPlace
  BY DEF IInv
<1>1. PICK c \in Cache : c = want
  BY <1>0 DEF TypeOK
<1>2. /\ pc = "alloc" /\ pc' = pc /\ head[c]["partial"] = Null /\ flag[s] = "free"
      /\ flag' = [flag EXCEPT ![s] = "slab"]
      /\ owner' = [owner EXCEPT ![s] = c]
      /\ SetList(c, "partial", PushFront(List(c, "partial"), s))
      /\ UNCHANGED <<want, live, onfull, retired>>
  BY <1>1 DEF NewSlab, Partial, Empty, List, hist
<1>3. s \notin onfull /\ s \notin retired
  BY <1>0, <1>2 DEF InSlabs
<1>4. On(c, "partial") = {}
  BY <1>2, PartialEnds
<1>5. /\ On(c, "partial")' = {s}
      /\ \A d \in Cache \ {c} : On(d, "partial")' = On(d, "partial") /\ s \notin On(d, "partial")
  BY <1>0, <1>2, <1>3, <1>4 DEF On, TypeOK
<1>6. PICK a : a = PushFront(List(c, "partial"), s)
  OBVIOUS
<1>7. /\ Chained(a, {s}) /\ a.head = s
      /\ SameOutside(List(c, "partial"), a, Slab, {s})
  <2>1. /\ List(c, "partial") \in Lists(Slab, Link) /\ ListInv(List(c, "partial"), {})
        /\ Null \notin Slab /\ Slab \union {Null} \subseteq Link
    BY <1>2, <1>4, ListFacts DEF Which
  <2>2. Chained(List(c, "partial"), {})
    BY <1>2, <1>4 DEF PartialInv, PartialSound
  <2>3. {} \in SUBSET Slab /\ s \in Slab \ {} /\ {} \union {s} = {s}
    OBVIOUS
  <2>4. Chained(a, {} \union {s}) /\ a.head = s
    BY <1>6, <2>1, <2>2, <2>3, PushFrontChained
  <2>5. SameOutside(List(c, "partial"), a, Slab, {} \union {s})
    BY <1>6, <2>1, <2>3, PushFrontKeeps
  <2> QED BY <2>3, <2>4, <2>5
<1>8. /\ nxt' = a.nxt /\ head' = [head EXCEPT ![c]["partial"] = a.head]
      /\ tail' = [tail EXCEPT ![c]["partial"] = a.tail]
  BY <1>2, <1>6 DEF SetList
<1>9. /\ head'[c]["partial"] = a.head /\ tail'[c]["partial"] = a.tail
      /\ \A d \in Cache \ {c} : head'[d] = head[d] /\ tail'[d] = tail[d]
  BY <1>0, <1>8 DEF TypeOK, Which
<1>10. PartialSound(c)'
  <2>1. /\ List(c, "partial")'.head = a.head /\ List(c, "partial")'.tail = a.tail
        /\ List(c, "partial")'.nxt = a.nxt
    BY <1>8, <1>9 DEF List
  <2>2. Chained(List(c, "partial")', {s})
    BY <1>7, <2>1, ChainedFrame
  <2> QED BY <1>5, <1>7, <1>9, <2>2 DEF PartialSound
<1>11. ASSUME NEW d \in Cache \ {c} PROVE PartialSound(d)'
  <2>1. On(d, "partial") \in SUBSET (Slab \ {s}) /\ On(d, "partial")' = On(d, "partial")
    BY <1>0, <1>5, ListType DEF Which
  <2>2. \A m \in On(d, "partial") : a.nxt[m] = nxt[m]
    BY <1>7, <2>1 DEF SameOutside, List
  <2>3. PartialSound(d)
    BY <1>2 DEF PartialInv
  <2> QED BY <1>2, <1>8, <1>9, <2>1, <2>2, <2>3, OtherPartial
<1> QED BY <1>10, <1>11 DEF PartialInv

LEMMA KfreeExhaustedPartial ==
    ASSUME IInv, PartialInv, NEW s, NEW i, KfreeExhausted(s, i)
    PROVE  PartialInv'
<1>0. TypeOK /\ SlabLists /\ FreeLists /\ InSlabs /\ ExhaustedPlace
  BY DEF IInv
<1>1. /\ Exhausted(s) /\ Kfree(s, i) /\ PutObject(s, i) /\ flag' = flag
  BY DEF KfreeExhausted
<1>2. /\ s \in Slab /\ flag[s] = "slab" /\ owner[s] \in Cache /\ pc = "idle"
      /\ UNCHANGED <<owner, retired>>
  BY <1>1, PutStep
<1>3. PICK c \in Cache : c = owner[s]
  BY <1>2
<1>4. CASE PopNodeFaults(List(c, "full"), s)
  BY <1>3, <1>4 DEF KfreeExhausted, PartialInv
<1>5. CASE ~PopNodeFaults(List(c, "full"), s)
  <2>1. PICK f : f = PopNode(List(c, "full"), s)
    OBVIOUS
  <2>7. PICK l : l = With(f, c, "partial")
    OBVIOUS
  <2>2. PICK b : b = PushBack(l, s)
    OBVIOUS
  <2>3. /\ SetLists(c, "full", f, "partial", b)
        /\ onfull' = onfull \ {s} /\ pc' = pc
    BY <1>3, <1>5, <2>1, <2>2, <2>7 DEF KfreeExhausted
  <2>4. s \in onfull
    <3>1. "full" \in Which
      BY DEF Which
    <3> QED BY <1>1, <1>2, <1>3, <1>5, <3>1, ExhaustedOnFull
  <2>5. s \in On(c, "full") /\ s \in retired
    BY <1>0, <1>2, <1>3, <2>4 DEF On, InSlabs
  <2>6. /\ f \in Lists(Slab, Link)
        /\ SameOutside(List(c, "full"), f, Slab, On(c, "full"))
    <3>1. /\ List(c, "full") \in Lists(Slab, Link) /\ On(c, "full") \in SUBSET Slab
          /\ ListInv(List(c, "full"), On(c, "full"))
          /\ Null \notin Slab /\ Slab \union {Null} \subseteq Link
      BY <1>2, ListFacts DEF Which
    <3> QED BY <1>5, <2>1, <2>5, <3>1, PopNodeKeeps
  <2>8. /\ l \in Lists(Slab, Link) /\ ListInv(l, On(c, "partial"))
        /\ l.head = head[c]["partial"] /\ l.tail = tail[c]["partial"] /\ l.nxt = f.nxt
        /\ On(c, "partial") \in SUBSET Slab /\ On(c, "full") \in SUBSET Slab
        /\ On(c, "partial") \intersect On(c, "full") = {} /\ s \in Slab \ On(c, "partial")
        /\ \A m \in On(c, "partial") : f.nxt[m] = nxt[m]
        /\ SameOutside(l, b, Slab, On(c, "partial") \union {s})
    <3>1. PICK w \in Which, v \in Which : w = "full" /\ v = "partial"
      BY DEF Which
    <3>2. /\ v # w /\ pc # "fault" /\ s \in On(c, w) /\ f \in Lists(Slab, Link)
          /\ SameOutside(List(c, w), f, Slab, On(c, w)) /\ l = With(f, c, v)
          /\ TypeOK /\ SlabLists
      BY <1>0, <1>2, <2>5, <2>6, <2>7, <3>1
    <3> QED BY <2>2, <3>1, <3>2, SecondList
  <2>9. /\ nxt' = b.nxt
        /\ head' = [head EXCEPT ![c]["full"] = f.head, ![c]["partial"] = b.head]
        /\ tail' = [tail EXCEPT ![c]["full"] = f.tail, ![c]["partial"] = b.tail]
    BY <2>3 DEF SetLists
  <2>10. /\ head'[c]["partial"] = b.head /\ tail'[c]["partial"] = b.tail
         /\ \A d \in Cache \ {c} : head'[d] = head[d] /\ tail'[d] = tail[d]
    BY <1>0, <2>9 DEF TypeOK, Which
  <2>11. \A d \in Cache : On(d, "partial")' =
             IF d = c THEN On(c, "partial") \union {s} ELSE On(d, "partial")
    BY <1>1, <1>2, <1>3, <2>3 DEF On
  <2>12. PartialSound(c)'
    <3>1. Chained(List(c, "partial"), On(c, "partial")) /\ List(c, "partial").nxt = nxt
          /\ List(c, "partial").head = l.head /\ List(c, "partial").tail = l.tail
      BY <1>2, <2>8 DEF PartialInv, PartialSound, List
    <3>2. Chained(l, On(c, "partial"))
      BY <2>8, <3>1, ChainedFrame
    <3>3. Chained(b, On(c, "partial") \union {s})
      <4>1. Null \notin Slab /\ Slab \union {Null} \subseteq Link
        BY SlabNull DEF Link
      <4> QED BY <2>2, <2>7, <2>8, <3>2, <4>1, PushBackChained
    <3>4. /\ List(c, "partial")'.head = b.head /\ List(c, "partial")'.tail = b.tail
          /\ List(c, "partial")'.nxt = b.nxt
      BY <2>9, <2>10 DEF List
    <3>5. Chained(List(c, "partial")', On(c, "partial") \union {s})
      BY <3>3, <3>4, ChainedFrame
    <3>6. ASSUME NEW t \in On(c, "partial")' \ retired' PROVE t = head'[c]["partial"]
      <4>1. t \in On(c, "partial") \ retired
        BY <1>2, <2>5, <2>11
      <4>2. t = l.head
        BY <1>2, <2>8, <4>1 DEF PartialInv, PartialSound
      <4>3. l.head # Null
        BY <2>8, <4>1, <4>2, SlabNull
      <4>4. b.head = l.head
        BY <2>2, <2>7, <4>3 DEF PushBack, Empty
      <4> QED BY <2>10, <4>2, <4>4
    <3>7. On(c, "partial")' = On(c, "partial") \union {s}
      BY <2>11
    <3> QED BY <3>5, <3>6, <3>7 DEF PartialSound
  <2>13. ASSUME NEW d \in Cache \ {c} PROVE PartialSound(d)'
    <3>1. /\ On(d, "partial") \in SUBSET Slab
          /\ On(d, "partial") \intersect On(c, "partial") = {}
          /\ On(d, "partial") \intersect On(c, "full") = {}
          /\ s \notin On(d, "partial")
      BY <1>0, <1>3, ListType, OnDisjoint DEF Which, On
    <3>2. \A m \in On(d, "partial") : b.nxt[m] = f.nxt[m] /\ f.nxt[m] = nxt[m]
      BY <2>6, <2>8, <3>1 DEF SameOutside, List
    <3>3. PartialSound(d) /\ On(d, "partial")' = On(d, "partial")
      BY <1>2, <2>11 DEF PartialInv
    <3> QED BY <1>2, <2>9, <2>10, <3>2, <3>3, OtherPartial
  <2> QED BY <2>12, <2>13 DEF PartialInv
<1> QED BY <1>4, <1>5

\* The last object of a slab is freed: the slab is the front of partial.
LEMMA KfreeLastPartial ==
    ASSUME IInv, PartialInv, NEW s, NEW i, KfreeLast(s, i)
    PROVE  /\ PartialInv' /\ pc' = pc
           /\ s \in Slab /\ flag' = [flag EXCEPT ![s] = "free"]
           /\ \A o \in live' : o[1] # s
<1>0. TypeOK /\ SlabLists /\ FreeLists /\ InSlabs /\ ExhaustedPlace
  BY DEF IInv
<1>1. /\ ~Exhausted(s) /\ Down(in_use[s]) = 0 /\ Kfree(s, i) /\ PutObject(s, i)
      /\ onfull' = onfull
  BY DEF KfreeLast
<1>2. /\ flag' = flag \/ flag' = [flag EXCEPT ![s] = "free"]
      /\ \A t \in Slab : flag'[t] = "slab" => flag[t] = "slab"
  BY <1>0 DEF KfreeLast, TypeOK
<1>3. /\ s \in Slab /\ flag[s] = "slab" /\ owner[s] \in Cache /\ pc = "idle"
      /\ UNCHANGED <<owner, retired>>
      /\ s \notin retired /\ \A o \in live' : o[1] # s
  BY <1>1, <1>2, PutStep
<1>4. PICK c \in Cache : c = owner[s]
  BY <1>3
<1>5. s \in On(c, "partial")
  BY <1>0, <1>1, <1>3, <1>4 DEF On, ExhaustedPlace
<1>6. s = head[c]["partial"] /\ s # Null
  BY <1>3, <1>5, SlabNull DEF PartialInv, PartialSound
<1>7. PICK a : a = PopNode(List(c, "partial"), s)
  OBVIOUS
<1>8. /\ ~PopNodeFaults(List(c, "partial"), s)
      /\ SameOutside(List(c, "partial"), a, Slab, On(c, "partial"))
      /\ Chained(a, On(c, "partial") \ {s})
      /\ On(c, "partial") \ {s} \subseteq retired
  BY <1>3, <1>6, <1>7, PopPartial
<1>9. /\ SetList(c, "partial", a) /\ flag' = [flag EXCEPT ![s] = "free"] /\ pc' = pc
  BY <1>4, <1>7, <1>8 DEF KfreeLast
<1>10. /\ nxt' = a.nxt /\ head' = [head EXCEPT ![c]["partial"] = a.head]
       /\ tail' = [tail EXCEPT ![c]["partial"] = a.tail]
  BY <1>9 DEF SetList
<1>11. /\ head'[c]["partial"] = a.head /\ tail'[c]["partial"] = a.tail
       /\ \A d \in Cache \ {c} : head'[d] = head[d] /\ tail'[d] = tail[d]
  BY <1>0, <1>10 DEF TypeOK, Which
<1>12. \A d \in Cache : On(d, "partial")' =
           IF d = c THEN On(c, "partial") \ {s} ELSE On(d, "partial")
  BY <1>0, <1>1, <1>3, <1>4, <1>9 DEF On, TypeOK
<1>13. PartialSound(c)'
  <2>1. /\ List(c, "partial")'.head = a.head /\ List(c, "partial")'.tail = a.tail
        /\ List(c, "partial")'.nxt = a.nxt
    BY <1>10, <1>11 DEF List
  <2>2. Chained(List(c, "partial")', On(c, "partial") \ {s})
    BY <1>8, <2>1, ChainedFrame
  <2>3. On(c, "partial")' = On(c, "partial") \ {s}
    BY <1>12
  <2>4. On(c, "partial")' \ retired' = {}
    BY <1>3, <1>8, <2>3
  <2> QED BY <2>2, <2>3, <2>4 DEF PartialSound
<1>14. ASSUME NEW d \in Cache \ {c} PROVE PartialSound(d)'
  <2>1. On(d, "partial") \in SUBSET Slab /\ On(d, "partial") \intersect On(c, "partial") = {}
    BY <1>0, ListType, OnDisjoint DEF Which
  <2>2. \A m \in On(d, "partial") : a.nxt[m] = nxt[m]
    BY <1>8, <2>1 DEF SameOutside, List
  <2>3. PartialSound(d) /\ On(d, "partial")' = On(d, "partial")
    BY <1>3, <1>12 DEF PartialInv
  <2> QED BY <1>3, <1>10, <1>11, <2>2, <2>3, OtherPartial
<1> QED BY <1>3, <1>9, <1>13, <1>14 DEF PartialInv

LEMMA PartialStep == IInv /\ PartialInv /\ [Next]_vars => PartialInv'
<1> SUFFICES ASSUME IInv, PartialInv, [Next]_vars PROVE PartialInv'
  OBVIOUS
<1>1. ASSUME NEW c \in Cache, Kmalloc(c) PROVE PartialInv'
  BY <1>1, PartialKept DEF Kmalloc, slabs, hist, On
<1>2. CASE TakeObject
  BY <1>2, PartialKept DEF TakeObject, On
<1>3. CASE Retire
  BY <1>3, RetirePartial
<1>4. ASSUME NEW s \in Slab, NewSlab(s) PROVE PartialInv'
  BY <1>4, NewSlabPartial
<1>5. CASE NoPages
  BY <1>5, PartialKept DEF NoPages, slabs, hist, On
<1>6. ASSUME NEW o \in live, KfreeExhausted(o[1], o[2]) PROVE PartialInv'
  BY <1>6, KfreeExhaustedPartial
<1>7. ASSUME NEW o \in live, KfreePartial(o[1], o[2]) PROVE PartialInv'
  BY <1>7, PartialKept DEF KfreePartial, Kfree, On
<1>8. ASSUME NEW o \in live, KfreeLast(o[1], o[2]) PROVE PartialInv'
  BY <1>8, KfreeLastPartial
<1>9. CASE UNCHANGED vars
  <2>1. UNCHANGED lists /\ UNCHANGED <<pc, flag, owner, onfull, retired>>
    BY <1>9 DEF vars, slabs, hist
  <2>2. CASE pc = "fault"
    BY <2>1, <2>2 DEF PartialInv
  <2>3. CASE pc # "fault"
    BY <2>1, <2>3, PartialKept DEF On
  <2> QED BY <2>2, <2>3
<1> QED
  BY <1>1, <1>2, <1>3, <1>4, <1>5, <1>6, <1>7, <1>8, <1>9 DEF Next, AllocStep, Halted

LEMMA SlubPartialLists == Spec => [](IInv /\ PartialInv)
<1>1. Init => IInv /\ PartialInv
  BY InitInv, PartialInit
<1>2. (IInv /\ PartialInv) /\ [Next]_vars => (IInv /\ PartialInv)'
  BY StepInv, PartialStep
<1> QED BY <1>1, <1>2, PTL DEF Spec

\* A null link is followed only when an object of an exhausted slab is freed:
\* alloc and every other free of slub.cpp run through, for any number of slabs,
\* size classes and objects.
THEOREM SlubOnlyExhaustedFaults == Spec => OnlyExhaustedFaults
<1>1. IInv /\ PartialInv /\ [Next]_vars =>
          [pc' = "fault" /\ pc # "fault" => \E o \in live \ live' : Exhausted(o[1])]_vars
  <2> SUFFICES ASSUME IInv, PartialInv, Next, pc' = "fault", pc # "fault"
               PROVE  \E o \in live \ live' : Exhausted(o[1])
    BY DEF vars
  <2>1. ASSUME NEW o \in live, KfreeExhausted(o[1], o[2])
        PROVE  \E p \in live \ live' : Exhausted(p[1])
    <3>1. o = <<o[1], o[2]>>
      BY DEF IInv, TypeOK
    <3>2. live' = live \ {o} /\ Exhausted(o[1])
      BY <2>1, <3>1 DEF KfreeExhausted, Kfree
    <3> QED BY <3>2
  <2>2. CASE Retire
    BY <2>2, RetirePartial
  <2>3. ASSUME NEW o \in live, KfreeLast(o[1], o[2]) PROVE FALSE
    BY <2>3, KfreeLastPartial
  <2>4. ~TakeObject /\ ~NoPages /\ ~Halted
    BY DEF TakeObject, NoPages, Halted
  <2>5. \A s \in Slab : ~NewSlab(s)
    BY DEF NewSlab
  <2>6. \A c \in Cache : ~Kmalloc(c)
    BY DEF Kmalloc
  <2>7. \A o \in live : ~KfreePartial(o[1], o[2])
    BY DEF KfreePartial
  <2> QED
    BY <2>1, <2>2, <2>3, <2>4, <2>5, <2>6, <2>7 DEF Next, AllocStep
<1> QED
  BY <1>1, SlubPartialLists, PTL DEF Spec, OnlyExhaustedFaults

\* alloc calls itself only finitely often, however many slabs there are: every
\* slab it retires makes partial shorter, and the one it makes has objects.
THEOREM SlubAllocEnds == Spec => AllocEnds
<1>1. IInv /\ PartialInv /\ [Next]_vars => [(pc = "alloc") => CallsLeft' < CallsLeft]_vars
  <2> SUFFICES ASSUME IInv, PartialInv, Next, pc = "alloc" PROVE CallsLeft' < CallsLeft
    BY DEF vars
  <2>0. TypeOK /\ Partial.head = head[want]["partial"] /\ want \in Cache
    BY DEF IInv, TypeOK, Partial, List
  <2>1. CASE TakeObject
    <3>1. CallsLeft = 1 /\ CallsLeft' = 0
      BY <2>1 DEF TakeObject, CallsLeft
    <3> QED BY <3>1
  <2>2. CASE Retire
    <3>1. PICK S : S = On(want, "partial")
      OBVIOUS
    <3>2. head[want]["partial"] # Null
      BY <2>0, <2>2 DEF Retire, Empty
    <3>3. PICK s : s = head[want]["partial"] /\ s \in S
      BY <2>0, <3>1, <3>2, PopPartial
    <3>4. /\ onfull' = onfull \union {s} /\ pc' = pc /\ want' = want
          /\ UNCHANGED <<flag, owner>>
      BY <2>2, <3>3, RetirePartial DEF Retire, FrontSlab
    <3>5. On(want, "partial")' = S \ {s}
      BY <3>1, <3>4 DEF On
    <3>6. /\ IsFiniteSet(S) /\ Cardinality(S) \in Nat
          /\ Cardinality(S \ {s}) = Cardinality(S) - 1 /\ Cardinality(S \ {s}) \in Nat
      <4>1. IsFiniteSet(S)
        BY <3>1, SlubAssumption, FS_Subset DEF On
      <4> QED BY <3>3, <4>1, FS_CardinalityType, FS_RemoveElement
    <3>7. CallsLeft = 2 + Cardinality(S)
      BY <2>2, <3>1 DEF Retire, CallsLeft
    <3>8. CallsLeft' \in {1, 2, 2 + Cardinality(S \ {s})}
      BY <3>4, <3>5 DEF CallsLeft
    <3> QED BY <3>6, <3>7, <3>8
  <2>3. ASSUME NEW s \in Slab, NewSlab(s) PROVE CallsLeft' < CallsLeft
    <3>1. CallsLeft = 2
      BY <2>3 DEF NewSlab, CallsLeft
    <3>2. /\ free'[s] = 0 /\ head' = [head EXCEPT ![want]["partial"] = s]
          /\ pc' = pc /\ want' = want
      BY <2>0, <2>3 DEF NewSlab, SetList, PushFront, Singleton, Empty, TypeOK
    <3>3. head'[want]["partial"] = s
      BY <2>0, <3>2 DEF TypeOK, Which
    <3>4. ~Empty(Partial)' /\ FrontSlab' = s
      BY <3>2, <3>3, SlabNull DEF Empty, Partial, List, FrontSlab
    <3>5. ~Exhausted(FrontSlab)'
      BY <3>2, <3>4, SlabNull DEF Exhausted
    <3>6. CallsLeft' = 1
      BY <3>2, <3>4, <3>5 DEF CallsLeft
    <3> QED BY <3>1, <3>6
  <2>4. CASE NoPages
    <3>1. CallsLeft = 2 /\ CallsLeft' = 0
      BY <2>4 DEF NoPages, CallsLeft
    <3> QED BY <3>1
  <2>5. /\ \A c \in Cache : ~Kmalloc(c)
        /\ \A o \in live : /\ ~KfreeExhausted(o[1], o[2]) /\ ~KfreePartial(o[1], o[2])
                           /\ ~KfreeLast(o[1], o[2])
        /\ ~Halted
    BY DEF Kmalloc, KfreeExhausted, KfreePartial, KfreeLast, Kfree, Halted
  <2> QED
    BY <2>1, <2>2, <2>3, <2>4, <2>5 DEF Next, AllocStep
<1> QED
  BY <1>1, SlubPartialLists, PTL DEF Spec, AllocEnds

\* The free list of each slab has every object that is not handed out, once,
\* and in_use counts the others: exactly at first, and InUseMax - Objects too
\* high from the first time the slab is retired (free_in_oneblock and
\* alloc_in_oneblock of slub.cpp).
THEOREM SlubObjectsAccounted == Spec => []ObjectsAccounted
<1>1. IInv => ObjectsAccounted
  <2> DEFINE Order(s, rest, m) ==
                 \E q \in [1 .. m -> rest] :
                     /\ \A j, k \in 1 .. m : q[j] = q[k] => j = k
                     /\ free[s] = IF m = 0 THEN Null ELSE q[1]
                     /\ \A k \in 1 .. m : cell[s][q[k]] = IF k = m THEN Null ELSE q[k + 1]
             Sum(s) == Cardinality(LiveOf(s))
                       + (IF s \in retired THEN InUseMax - Objects ELSE 0)
  <2>0. /\ NoObjectLost <=> \A s \in Slabs : Order(s, Object \ LiveOf(s),
                                                   Cardinality(Object \ LiveOf(s)))
        /\ InUseExact <=> \A s \in Slabs : in_use[s] = Sum(s)
    BY DEF NoObjectLost, InUseExact
  <2> SUFFICES ASSUME IInv, NEW s \in Slab, flag[s] = "slab",
                      NEW rest, rest = Object \ LiveOf(s)
               PROVE  Order(s, rest, Cardinality(rest)) /\ in_use[s] = Sum(s)
    <3> HIDE DEF Order, Sum
    <3> QED BY <2>0, Zenon DEF ObjectsAccounted, Slabs
  <2>1. PICK n \in 0 .. Objects : \E q \in [1 .. n -> Object] : FreeList(s, n, q)
    BY DEF IInv, FreeLists
  <2>2. PICK q \in [1 .. n -> Object] : FreeList(s, n, q)
    BY <2>1
  <2>3. rest = FreeObjects(s) /\ rest \subseteq Object /\ LiveOf(s) = Object \ rest
    BY DEF FreeObjects, LiveOf
  <2>4. /\ q \in [1 .. n -> rest] /\ n \in Nat /\ n <= Objects
        /\ \A j, k \in 1 .. n : q[j] = q[k] => j = k
        /\ \A i \in rest : \E k \in 1 .. n : q[k] = i
        /\ free[s] = IF n = 0 THEN Null ELSE q[1]
        /\ \A k \in 1 .. n : cell[s][q[k]] = IF k = n THEN Null ELSE q[k + 1]
        /\ in_use[s] = Ceiling(s) - n
    BY <2>1, <2>2, <2>3, SlubAssumption DEF FreeList
  <2>5. IsFiniteSet(Object) /\ Cardinality(Object) = Objects
    BY ObjectCount
  <2>6. Cardinality(rest) = n
    <3>1. /\ IsFiniteSet(1 .. n) /\ Cardinality(1 .. n) = n
      <4>1. Cardinality(1 .. n) = IF 1 > n THEN 0 ELSE n - 1 + 1
        BY <2>4, FS_Interval
      <4>2. IsFiniteSet(1 .. n)
        BY <2>4, FS_Interval
      <4> QED BY <2>4, <4>1, <4>2
    <3>2. PICK N : N = 1 .. n
      OBVIOUS
    <3>3. /\ q \in [N -> rest] /\ \A a, b \in N : q[a] = q[b] => a = b
          /\ \A i \in rest : \E a \in N : q[a] = i
      BY <2>4, <3>2
    <3>4. q \in Bijection(N, rest)
      BY <3>3, Fun_IsBij
    <3> QED BY <3>1, <3>2, <3>4, FS_Bijection DEF ExistsBijection
  <2>7. Cardinality(LiveOf(s)) = Objects - n
    <3>1. Cardinality(Object \ rest) = Cardinality(Object) - Cardinality(Object \intersect rest)
      BY <2>5, FS_Difference
    <3>2. Object \intersect rest = rest
      BY <2>3
    <3> QED BY <2>3, <2>5, <2>6, <3>1, <3>2
  <2>8. in_use[s] = Cardinality(LiveOf(s)) + (IF s \in retired THEN InUseMax - Objects ELSE 0)
    BY <2>4, <2>7, SlubAssumption DEF Ceiling
  <2>9. Order(s, rest, n)
    BY <2>4
  <2> HIDE DEF Order, Sum
  <2> QED BY <2>6, <2>9, <2>8 DEF Sum
<1> QED
  BY <1>1, SlubInvariant, PTL

-----------------------------------------------------------------------------
(* The promise of kmalloc and kfree. *)

Claim == [s \in Slab |-> IF flag[s] = "slab" THEN owner[s] ELSE Null]
Asked == IF pc = "alloc" THEN want ELSE Null
Unseen == Claim' = Claim /\ live' = live /\ Asked' = Asked

LEMMA ClaimKept ==
    ASSUME UNCHANGED <<flag, owner>>
    PROVE  Claim' = Claim
BY DEF Claim

LEMMA TakeGrants == IInv /\ TakeObject => \E s \in Slab : Pool!Grant(s)
<1> SUFFICES ASSUME IInv, TakeObject PROVE \E s \in Slab : Pool!Grant(s)
  OBVIOUS
<1>1. pc = "alloc" /\ want \in Cache /\ head[want]["partial"] # Null
  BY DEF IInv, TypeOK, TakeObject, Empty, Partial, List
<1>2. PICK s \in Slab : s = FrontSlab /\ flag[s] = "slab" /\ owner[s] = want
  BY <1>1, Front DEF IInv, FrontSlab
<1>3. /\ live' = live \union {<<s, free[s]>>} /\ pc' = "idle"
      /\ UNCHANGED <<flag, owner>> /\ ~Exhausted(s)
  BY <1>2 DEF TakeObject
<1>4. free[s] \in Object /\ <<s, free[s]>> \notin live
  BY <1>2, <1>3, FirstUnused DEF IInv, TypeOK, Exhausted, NextObjectUnused
<1>5. /\ Asked = want /\ want # Null /\ Asked' = Null
      /\ Claim' = Claim /\ Claim[s] = want
  BY <1>1, <1>2, <1>3, ClaimKept, SlubAssumption DEF Asked, Claim
<1>6. free[s] \in Pool!Unused(s)
  BY <1>4 DEF Pool!Unused
<1> QED
  BY <1>3, <1>5, <1>6 DEF Pool!Grant, Asked, Claim

\* alloc gives up when no block is free: then partial is empty, and a slab of
\* the size class that is not on partial has no free object.
LEMMA NoPagesRefuses == IInv /\ PartialInv /\ NoPages => Pool!Refuse
<1> SUFFICES ASSUME IInv, PartialInv, NoPages PROVE Pool!Refuse
  OBVIOUS
<1>0. TypeOK /\ FreeLists /\ ExhaustedPlace
  BY DEF IInv
<1>1. /\ pc = "alloc" /\ pc' = "idle" /\ want \in Cache /\ head[want]["partial"] = Null
      /\ \A s \in Slab : flag[s] = "slab"
      /\ UNCHANGED <<flag, owner, live>>
  BY <1>0 DEF TypeOK, NoPages, Empty, Partial, List, slabs, hist
<1>2. On(want, "partial") = {}
  BY <1>1, PartialEnds
<1>3. ASSUME NEW s \in Slab, owner[s] = want PROVE Pool!Unused(s) = {}
  <2>1. s \in onfull /\ Exhausted(s)
    BY <1>0, <1>1, <1>2, <1>3 DEF On, ExhaustedPlace
  <2>2. PICK n \in 0 .. Objects : \E q \in [1 .. n -> Object] : FreeList(s, n, q)
    BY <1>0, <1>1 DEF FreeLists
  <2>3. PICK q \in [1 .. n -> Object] : FreeList(s, n, q)
    BY <2>2
  <2>4. n = 0
    BY <2>1, <2>2, <2>3, NoneFree, SlubAssumption
  <2>5. FreeObjects(s) = {}
    BY <2>3, <2>4 DEF FreeList
  <2> QED BY <2>5 DEF FreeObjects, Pool!Unused
<1>4. \A s \in Slab : Claim[s] = owner[s] /\ owner[s] # Null
  BY <1>0, <1>1, SlubAssumption DEF Claim, TypeOK
<1>5. Asked = want /\ want # Null /\ Asked' = Null /\ Claim' = Claim
  BY <1>1, ClaimKept, SlubAssumption DEF Asked
<1> QED
  BY <1>1, <1>3, <1>4, <1>5 DEF Pool!Refuse, Asked, Claim

LEMMA NewSlabClaims ==
    ASSUME NEW s \in Slab, IInv, NewSlab(s)
    PROVE  Pool!Claim(s)
<1>1. /\ pc = "alloc" /\ pc' = pc /\ want' = want /\ live' = live /\ want \in Cache
      /\ flag[s] = "free" /\ flag' = [flag EXCEPT ![s] = "slab"]
      /\ owner' = [owner EXCEPT ![s] = want]
      /\ flag \in [Slab -> {"free", "slab"}] /\ owner \in [Slab -> Cache]
  BY DEF NewSlab, hist, IInv, TypeOK
<1>2. Asked = want /\ Asked' = Asked /\ want # Null
  BY <1>1, SlubAssumption DEF Asked
<1>3. Claim[s] = Null /\ Claim' = [Claim EXCEPT ![s] = want]
  BY <1>1 DEF Claim
<1> QED
  BY <1>1, <1>2, <1>3 DEF Pool!Claim, Asked, Claim

LEMMA KfreeFrees ==
    ASSUME NEW o \in live, IInv, PartialInv,
           \/ KfreeExhausted(o[1], o[2])
           \/ KfreePartial(o[1], o[2])
           \/ KfreeLast(o[1], o[2])
    PROVE  Pool!Free(o)
<1>1. o = <<o[1], o[2]>>
  BY DEF IInv, TypeOK
<1>2. /\ live' = live \ {o} /\ pc = "idle" /\ pc' \in {"idle", "fault"} /\ owner' = owner
  BY <1>1 DEF KfreeExhausted, KfreePartial, KfreeLast, Kfree
<1>3. Asked = Null /\ Asked' = Asked
  BY <1>2 DEF Asked
<1>4. CASE KfreeExhausted(o[1], o[2]) \/ KfreePartial(o[1], o[2])
  <2>1. Claim' = Claim
    BY <1>2, <1>4, ClaimKept DEF KfreeExhausted, KfreePartial
  <2> QED BY <1>2, <1>3, <2>1 DEF Pool!Free, Claim, Asked
<1>5. CASE KfreeLast(o[1], o[2])
  <2>1. /\ o[1] \in Slab /\ flag' = [flag EXCEPT ![o[1]] = "free"]
        /\ \A p \in live' : p[1] # o[1]
    BY <1>5, KfreeLastPartial
  <2>2. flag \in [Slab -> {"free", "slab"}] /\ owner \in [Slab -> Cache]
    BY DEF IInv, TypeOK
  <2>3. Claim' = [Claim EXCEPT ![o[1]] = Null]
    BY <1>2, <2>1, <2>2 DEF Claim
  <2> QED BY <1>2, <1>3, <2>1, <2>3 DEF Pool!Free, Claim, Asked
<1> QED BY <1>4, <1>5

\* kmalloc hands out memory nobody has, and nullptr only when every block is
\* taken and no slab of the size class has a free object; kfree gives up a
\* block only when all its objects are free.
THEOREM SlubImplementsObjectPool == Spec => ImplementsObjectPool
<1>1. Init => Pool!Init
  BY DEF Init, Pool!Init
<1>2. IInv /\ PartialInv /\ [Next]_vars => [Pool!Next]_(Pool!vars)
  <2> SUFFICES ASSUME IInv, PartialInv, [Next]_vars PROVE Pool!Next \/ Unseen
    BY DEF Pool!vars, Unseen, Claim, Asked
  <2>1. ASSUME NEW c \in Cache, Kmalloc(c) PROVE Pool!Next
    <3>1. /\ pc = "idle" /\ pc' = "alloc" /\ want' = c /\ live' = live
          /\ UNCHANGED <<flag, owner>>
      BY <2>1 DEF Kmalloc, slabs, hist
    <3>2. Asked = Null /\ Asked' = c /\ Claim' = Claim
      BY <3>1, ClaimKept DEF Asked
    <3> QED BY <3>1, <3>2 DEF Pool!Next, Pool!Ask, Asked, Claim
  <2>2. CASE TakeObject
    BY <2>2, TakeGrants DEF Pool!Next
  <2>3. CASE Retire
    <3>1. pc' = pc /\ want' = want /\ live' = live /\ UNCHANGED <<flag, owner>>
      BY <2>3, RetirePartial DEF Retire
    <3> QED BY <3>1, ClaimKept DEF Unseen, Asked
  <2>4. ASSUME NEW s \in Slab, NewSlab(s) PROVE Pool!Next
    BY <2>4, NewSlabClaims DEF Pool!Next
  <2>5. CASE NoPages
    BY <2>5, NoPagesRefuses DEF Pool!Next
  <2>6. ASSUME NEW o \in live,
               \/ KfreeExhausted(o[1], o[2])
               \/ KfreePartial(o[1], o[2])
               \/ KfreeLast(o[1], o[2])
        PROVE  Pool!Next
    BY <2>6, KfreeFrees DEF Pool!Next
  <2>7. CASE UNCHANGED vars
    <3>1. pc' = pc /\ want' = want /\ live' = live /\ UNCHANGED <<flag, owner>>
      BY <2>7 DEF vars, slabs, hist
    <3> QED BY <3>1, ClaimKept DEF Unseen, Asked
  <2> QED
    BY <2>1, <2>2, <2>3, <2>4, <2>5, <2>6, <2>7 DEF Next, AllocStep, Halted
<1> QED
  BY <1>1, <1>2, SlubPartialLists, PTL DEF Spec, ImplementsObjectPool, Pool!Spec
=============================================================================

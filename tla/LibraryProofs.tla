----------------------------- MODULE LibraryProofs ---------------------------
(***************************************************************************)
(* Every operation of util::list_base that does not fault keeps ListInv,   *)
(* with the node it puts in or takes out, and writes no link word of a     *)
(* node outside the list.  In lists that are only pushed, popped and taken *)
(* apart at places that are in them, reading forward gets to every node    *)
(* once and in order (Chained), and reading back gets to the head          *)
(* (Rooted).  The lemmas are about one list value; they hold for any       *)
(* number of nodes and for links that were lost before.                    *)
(*                                                                         *)
(* What is needed of numbers: products, remainders and powers of two, and  *)
(* that a function given by its value at 0 and by a table for its next     *)
(* value exists and is the only one.                                       *)
(***************************************************************************)
EXTENDS IntrusiveList, Powers, WellFoundedInduction, TLAPS

\* The lists whose link words exist for the nodes D and hold values of V.
Lists(D, V) == [head : V, tail : V, nxt : [D -> V], prv : [D -> V]]

\* Apart from the nodes of S, r has the link words that l has.
SameOutside(l, r, D, S) ==
    \A m \in D \ S : r.nxt[m] = l.nxt[m] /\ r.prv[m] = l.prv[m]

-----------------------------------------------------------------------------
\* push_front_node of a node the list does not have puts it in.
LEMMA PushFrontKeeps ==
    ASSUME NEW D, NEW V, Null \notin D, D \union {Null} \subseteq V,
           NEW S \in SUBSET D, NEW l \in Lists(D, V), NEW n \in D \ S,
           ListInv(l, S)
    PROVE  /\ PushFront(l, n) \in Lists(D, V)
           /\ ListInv(PushFront(l, n), S \union {n})
           /\ SameOutside(l, PushFront(l, n), D, S \union {n})
<1> DEFINE r == PushFront(l, n)
<1>0. l.nxt \in [D -> V] /\ l.prv \in [D -> V] /\ l.head \in V /\ l.tail \in V
  BY DEF Lists
<1>1. CASE Empty(l)
  <2>1. /\ r.head = n /\ r.tail = n
        /\ r.nxt = [l.nxt EXCEPT ![n] = Null]
        /\ r.prv = [l.prv EXCEPT ![n] = Null]
        /\ r \in Lists(D, V)
    BY <1>0, <1>1 DEF PushFront, Singleton, Lists
  <2> HIDE DEF r
  <2>2. l.head = Null /\ l.tail = Null
    BY <1>1 DEF Empty, ListInv
  <2>3. /\ \A m \in D : r.nxt[m] = IF m = n THEN Null ELSE l.nxt[m]
        /\ \A m \in D : r.prv[m] = IF m = n THEN Null ELSE l.prv[m]
    BY <1>0, <2>1
  <2>4. ListInv(r, S \union {n})
    BY <2>1, <2>2, <2>3 DEF ListInv
  <2>5. SameOutside(l, r, D, S \union {n})
    BY <2>3 DEF SameOutside
  <2> QED
    BY <2>1, <2>4, <2>5 DEF r
<1>2. CASE ~Empty(l)
  <2>1. /\ l.head \in S /\ l.tail \in S /\ l.prv[l.head] = Null
    BY <1>2 DEF ListInv, Empty
  <2>2. /\ r.head = n /\ r.tail = l.tail
        /\ r.nxt = [l.nxt EXCEPT ![n] = l.head]
        /\ r.prv = [l.prv EXCEPT ![l.head] = n, ![n] = Null]
        /\ r \in Lists(D, V)
    BY <1>0, <1>2, <2>1 DEF PushFront, Lists
  <2> HIDE DEF r
  <2>3. /\ \A m \in D : r.nxt[m] = IF m = n THEN l.head ELSE l.nxt[m]
        /\ \A m \in D : r.prv[m] = IF m = n THEN Null
                                   ELSE IF m = l.head THEN n ELSE l.prv[m]
    BY <1>0, <2>2
  <2>4. ListInv(r, S \union {n})
    BY <2>1, <2>2, <2>3 DEF ListInv
  <2>5. SameOutside(l, r, D, S \union {n})
    BY <2>1, <2>3 DEF SameOutside
  <2> QED
    BY <2>2, <2>4, <2>5 DEF r
<1> QED BY <1>1, <1>2

\* So does push_back_node.
LEMMA PushBackKeeps ==
    ASSUME NEW D, NEW V, Null \notin D, D \union {Null} \subseteq V,
           NEW S \in SUBSET D, NEW l \in Lists(D, V), NEW n \in D \ S,
           ListInv(l, S)
    PROVE  /\ PushBack(l, n) \in Lists(D, V)
           /\ ListInv(PushBack(l, n), S \union {n})
           /\ SameOutside(l, PushBack(l, n), D, S \union {n})
<1> DEFINE r == PushBack(l, n)
<1>0. l.nxt \in [D -> V] /\ l.prv \in [D -> V] /\ l.head \in V /\ l.tail \in V
  BY DEF Lists
<1>1. CASE Empty(l)
  \* On an empty list the two ends are one.
  <2>1. PushBack(l, n) = PushFront(l, n)
    BY <1>1 DEF PushBack, PushFront
  <2> QED
    BY <2>1, PushFrontKeeps
<1>2. CASE ~Empty(l)
  <2>1. /\ l.head \in S /\ l.tail \in S /\ l.prv[l.head] = Null
    BY <1>2 DEF ListInv, Empty
  <2>2. /\ r.head = l.head /\ r.tail = n
        /\ r.nxt = [l.nxt EXCEPT ![l.tail] = n, ![n] = Null]
        /\ r.prv = [l.prv EXCEPT ![n] = l.tail]
        /\ r \in Lists(D, V)
    BY <1>0, <1>2, <2>1 DEF PushBack, Lists
  <2> HIDE DEF r
  <2>3. /\ \A m \in D : r.nxt[m] = IF m = n THEN Null
                                   ELSE IF m = l.tail THEN n ELSE l.nxt[m]
        /\ \A m \in D : r.prv[m] = IF m = n THEN l.tail ELSE l.prv[m]
    BY <1>0, <2>2
  <2>4. ListInv(r, S \union {n})
    BY <2>1, <2>2, <2>3 DEF ListInv
  <2>5. SameOutside(l, r, D, S \union {n})
    BY <2>1, <2>3 DEF SameOutside
  <2> QED
    BY <2>2, <2>4, <2>5 DEF r
<1> QED BY <1>1, <1>2

-----------------------------------------------------------------------------
\* pop_front_node, when it does not fault, takes out the head, whose prev
\* link was null.
LEMMA PopFrontKeeps ==
    ASSUME NEW D, NEW V, Null \notin D, D \union {Null} \subseteq V,
           NEW S \in SUBSET D, NEW l \in Lists(D, V),
           ListInv(l, S), ~Empty(l), ~PopFrontFaults(l)
    PROVE  /\ l.head \in S /\ l.prv[l.head] = Null
           /\ PopFront(l) \in Lists(D, V)
           /\ ListInv(PopFront(l), S \ {l.head})
           /\ PopFront(l).prv[l.head] = Null
           /\ SameOutside(l, PopFront(l), D, S)
<1> DEFINE r == PopFront(l)
<1>0. l.nxt \in [D -> V] /\ l.prv \in [D -> V] /\ l.head \in V /\ l.tail \in V
  BY DEF Lists
<1>1. /\ l.head # Null /\ l.tail # Null
      /\ l.head \in S /\ l.tail \in S /\ l.prv[l.head] = Null
  BY DEF ListInv, Empty
<1>2. CASE Orphan(l)
  <2>1. r.head = Null /\ r.tail = Null /\ r.nxt = l.nxt /\ r.prv = l.prv
    BY <1>2 DEF PopFront, Cleared
  <2>2. r \in Lists(D, V)
    BY <1>0, <1>2 DEF PopFront, Cleared, Lists
  <2> HIDE DEF r
  <2>3. l.tail = l.head
    BY <1>2 DEF Orphan
  <2>4. ListInv(r, S \ {l.head})
    BY <1>1, <2>1, <2>3 DEF ListInv
  <2>5. SameOutside(l, r, D, S) /\ r.prv[l.head] = Null
    BY <1>1, <2>1 DEF SameOutside
  <2> QED
    BY <1>1, <2>2, <2>4, <2>5 DEF r
<1>3. CASE ~Orphan(l)
  <2> DEFINE h == l.nxt[l.head]
  <2>1. l.head # l.tail /\ h # Null
    BY <1>3 DEF Orphan, PopFrontFaults
  <2>2. h \in S \ {l.head} /\ l.prv[h] = l.head
    BY <1>1, <2>1 DEF ListInv
  <2>3. /\ r.head = h /\ r.tail = l.tail /\ r.nxt = l.nxt
        /\ r.prv = [l.prv EXCEPT ![h] = Null]
        /\ r \in Lists(D, V)
    BY <1>0, <1>3, <2>2 DEF PopFront, Lists
  <2> HIDE DEF r, h
  <2>4. \A m \in D : r.prv[m] = IF m = h THEN Null ELSE l.prv[m]
    BY <1>0, <2>3
  <2>5. ListInv(r, S \ {l.head})
    BY <1>1, <2>1, <2>2, <2>3, <2>4 DEF ListInv
  <2>6. SameOutside(l, r, D, S) /\ r.prv[l.head] = Null
    BY <1>1, <2>2, <2>3, <2>4 DEF SameOutside
  <2> QED
    BY <1>1, <2>3, <2>5, <2>6 DEF r
<1> QED BY <1>2, <1>3

\* pop_back_node takes out the tail.  It never faults, and the next link it
\* clears, the head's instead of the new tail's, is the one ListInv allows
\* to be lost.
LEMMA PopBackKeeps ==
    ASSUME NEW D, NEW V, Null \notin D, D \union {Null} \subseteq V,
           NEW S \in SUBSET D, NEW l \in Lists(D, V),
           ListInv(l, S), ~Empty(l)
    PROVE  /\ PopBack(l) \in Lists(D, V)
           /\ ListInv(PopBack(l), S \ {l.tail})
           /\ SameOutside(l, PopBack(l), D, S)
<1> DEFINE r == PopBack(l)
<1>0. l.nxt \in [D -> V] /\ l.prv \in [D -> V] /\ l.head \in V /\ l.tail \in V
  BY DEF Lists
<1>1. /\ l.head # Null /\ l.tail # Null
      /\ l.head \in S /\ l.tail \in S /\ l.prv[l.head] = Null
  BY DEF ListInv, Empty
<1>2. CASE Orphan(l)
  <2>1. PopBack(l) = PopFront(l) /\ ~PopFrontFaults(l) /\ l.tail = l.head
    BY <1>2 DEF PopBack, PopFront, PopFrontFaults, Orphan
  <2>2. /\ PopFront(l) \in Lists(D, V)
        /\ ListInv(PopFront(l), S \ {l.head})
        /\ SameOutside(l, PopFront(l), D, S)
    <3> HIDE DEF r
    <3> QED BY <2>1, PopFrontKeeps, Zenon
  <2> QED
    BY <2>1, <2>2, Zenon
<1>3. CASE ~Orphan(l)
  <2> DEFINE t == l.prv[l.tail]
  <2>1. l.head # l.tail /\ t \in S \ {l.tail}
    BY <1>1, <1>3 DEF Orphan, ListInv
  <2>2. /\ r.head = l.head /\ r.tail = t /\ r.prv = l.prv
        /\ r.nxt = [l.nxt EXCEPT ![l.head] = Null]
        /\ r \in Lists(D, V)
    BY <1>0, <1>1, <1>3, <2>1 DEF PopBack, Lists
  <2> HIDE DEF r, t
  <2>3. \A m \in D : r.nxt[m] = IF m = l.head THEN Null ELSE l.nxt[m]
    BY <1>0, <2>2
  <2>4. t = l.prv[l.tail]
    BY DEF t
  <2>5. ListInv(r, S \ {l.tail})
    BY <1>1, <2>1, <2>2, <2>3, <2>4 DEF ListInv
  <2>6. SameOutside(l, r, D, S)
    BY <1>1, <2>2, <2>3 DEF SameOutside
  <2> QED
    BY <2>2, <2>5, <2>6 DEF r
<1> QED BY <1>2, <1>3

\* pop_node, when it does not fault, takes out the node it is given.
LEMMA PopNodeKeeps ==
    ASSUME NEW D, NEW V, Null \notin D, D \union {Null} \subseteq V,
           NEW S \in SUBSET D, NEW l \in Lists(D, V), NEW n \in S,
           ListInv(l, S), ~PopNodeFaults(l, n)
    PROVE  /\ PopNode(l, n) \in Lists(D, V)
           /\ ListInv(PopNode(l, n), S \ {n})
           /\ SameOutside(l, PopNode(l, n), D, S)
<1>0. l.nxt \in [D -> V] /\ l.prv \in [D -> V] /\ l.head \in V /\ l.tail \in V
  BY DEF Lists
<1>1. n # Null
  OBVIOUS
<1>2. CASE n = l.head
  <2>1. PopNode(l, n) = PopFront(l) /\ ~Empty(l) /\ ~PopFrontFaults(l)
    BY <1>1, <1>2 DEF PopNode, PopNodeFaults, Empty
  <2>2. /\ PopFront(l) \in Lists(D, V)
        /\ ListInv(PopFront(l), S \ {l.head})
        /\ SameOutside(l, PopFront(l), D, S)
    BY <2>1, PopFrontKeeps
  <2> QED
    BY <1>2, <2>1, <2>2
<1>3. CASE n # l.head /\ n = l.tail
  <2>1. PopNode(l, n) = PopBack(l) /\ ~Empty(l)
    BY <1>1, <1>3 DEF PopNode, Empty, ListInv
  <2>2. /\ PopBack(l) \in Lists(D, V)
        /\ ListInv(PopBack(l), S \ {l.tail})
        /\ SameOutside(l, PopBack(l), D, S)
    BY <2>1, PopBackKeeps
  <2> QED
    BY <1>3, <2>1, <2>2
<1>4. CASE n # l.head /\ n # l.tail
  <2> DEFINE r == PopNode(l, n)
             p == l.prv[n]
             x == l.nxt[n]
  <2>1. p \in S \ {l.tail} /\ x # Null
    BY <1>4 DEF ListInv, PopNodeFaults
  <2>2. x \in S \ {l.head} /\ l.prv[x] = n
    BY <1>4, <2>1 DEF ListInv
  <2>3. /\ r.head = l.head /\ r.tail = l.tail
        /\ r.nxt = [l.nxt EXCEPT ![p] = x]
        /\ r.prv = [l.prv EXCEPT ![x] = p]
        /\ r \in Lists(D, V)
    BY <1>0, <1>4, <2>1, <2>2 DEF PopNode, JoinList, Lists
  <2>4. p = l.prv[n] /\ x = l.nxt[n]
    OBVIOUS
  <2> HIDE DEF r, p, x
  <2>5. /\ \A m \in D : r.nxt[m] = IF m = p THEN x ELSE l.nxt[m]
        /\ \A m \in D : r.prv[m] = IF m = x THEN p ELSE l.prv[m]
    BY <1>0, <2>3
  <2>6. ListInv(r, S \ {n})
    BY <1>4, <2>1, <2>2, <2>3, <2>4, <2>5 DEF ListInv
  <2>7. SameOutside(l, r, D, S)
    BY <2>1, <2>2, <2>5 DEF SameOutside
  <2> QED
    BY <2>3, <2>6, <2>7 DEF r
<1> QED BY <1>2, <1>3, <1>4

\* ListInv looks at the link words of the members only.
LEMMA ListInvFrame ==
    ASSUME NEW S, NEW l, NEW r, ListInv(l, S),
           r.head = l.head, r.tail = l.tail, Null \notin S,
           \A m \in S : r.nxt[m] = l.nxt[m] /\ r.prv[m] = l.prv[m]
    PROVE  ListInv(r, S)
BY DEF ListInv

-----------------------------------------------------------------------------
(* Lists whose members are all met on the way back to the head.  Unlike    *)
(* the way forward, pop_back_node leaves it whole.                         *)

\* Such a list has no members when its head is null.
LEMMA RootedEmpty ==
    ASSUME NEW l, NEW S, Null \notin S, ListInv(l, S), Rooted(l, S), Empty(l)
    PROVE  S = {}
<1> SUFFICES ASSUME S # {} PROVE FALSE
  OBVIOUS
<1>1. l.head = Null /\ \A n \in S \ {l.head} : l.prv[n] \in S
  BY DEF Empty, ListInv
<1>2. PICK U \in SUBSET S : U = S
  OBVIOUS
<1>3. l.head \in S
  BY <1>1, <1>2 DEF Rooted
<1> QED BY <1>1, <1>3

LEMMA PushFrontRooted ==
    ASSUME NEW D, NEW V, Null \notin D,
           NEW S \in SUBSET D, NEW l \in Lists(D, V), NEW n \in D \ S,
           ListInv(l, S), Rooted(l, S)
    PROVE  Rooted(PushFront(l, n), S \union {n})
<1> DEFINE r == PushFront(l, n)
<1> HIDE DEF r
<1>1. r.head = n
  BY DEF PushFront, Singleton, r
<1>2. l.prv \in [D -> V] /\ (l.head = Null \/ l.head \in S)
  BY DEF Lists, ListInv
<1>3. \A m \in S : r.prv[m] = IF m = l.head THEN n ELSE l.prv[m]
  <2>1. CASE Empty(l)
    BY <1>2, <2>1 DEF PushFront, Singleton, Empty, r
  <2>2. CASE ~Empty(l)
    BY <1>2, <2>2 DEF PushFront, Empty, r
  <2> QED BY <2>1, <2>2
<1>4. SUFFICES ASSUME NEW U \in SUBSET (S \union {n}), U # {},
                      \A m \in U \ {n} : r.prv[m] \in U, n \notin U
               PROVE  FALSE
  BY <1>1 DEF Rooted, r
\* The head that was would have led to n, so U does not have it.
<1>5. l.head \notin U
  BY <1>3, <1>4
<1>6. PICK W \in SUBSET S : W = U
  BY <1>4
<1>7. \A m \in W \ {l.head} : l.prv[m] \in W
  BY <1>3, <1>4, <1>6
<1> QED
  BY <1>4, <1>5, <1>6, <1>7 DEF Rooted

LEMMA PushBackRooted ==
    ASSUME NEW D, NEW V, Null \notin D,
           NEW S \in SUBSET D, NEW l \in Lists(D, V), NEW n \in D \ S,
           ListInv(l, S), Rooted(l, S)
    PROVE  Rooted(PushBack(l, n), S \union {n})
<1>1. CASE Empty(l)
  <2>1. PushBack(l, n) = PushFront(l, n)
    BY <1>1 DEF PushBack, PushFront
  <2>2. Rooted(PushFront(l, n), S \union {n})
    BY PushFrontRooted
  <2> QED BY <2>1, <2>2
<1>2. CASE ~Empty(l)
  <2> DEFINE r == PushBack(l, n)
  <2> HIDE DEF r
  <2>1. /\ r.head = l.head /\ l.head \in S /\ l.tail \in S
        /\ r.prv[n] = l.tail /\ \A m \in S : r.prv[m] = l.prv[m]
    BY <1>2 DEF PushBack, Lists, ListInv, Empty, r
  <2>2. \A m \in S \ {l.head} : l.prv[m] \in S
    BY DEF ListInv
  <2>3. SUFFICES ASSUME NEW U \in SUBSET (S \union {n}), U # {},
                        \A m \in U \ {l.head} : r.prv[m] \in U
                 PROVE  l.head \in U
    BY <2>1 DEF Rooted, r
  <2>4. PICK W \in SUBSET S : W = U \ {n}
    BY <2>3
  <2>5. W # {}
    BY <2>1, <2>3, <2>4
  <2>6. \A m \in W \ {l.head} : l.prv[m] \in W
    BY <2>1, <2>2, <2>3, <2>4
  <2> QED
    BY <2>4, <2>5, <2>6 DEF Rooted
<1> QED BY <1>1, <1>2

LEMMA PopFrontRooted ==
    ASSUME NEW D, NEW V, Null \notin D,
           NEW S \in SUBSET D, NEW l \in Lists(D, V),
           ListInv(l, S), Rooted(l, S), ~Empty(l), ~PopFrontFaults(l)
    PROVE  Rooted(PopFront(l), S \ {l.head})
<1> DEFINE r == PopFront(l)
<1> HIDE DEF r
<1>1. \A m \in S \ {l.head} : m # r.head => r.prv[m] = l.prv[m]
  <2>1. CASE Orphan(l)
    BY <2>1 DEF PopFront, Cleared, r
  <2>2. CASE ~Orphan(l)
    BY <2>2 DEF PopFront, Lists, r
  <2> QED BY <2>1, <2>2
<1>2. SUFFICES ASSUME NEW U \in SUBSET (S \ {l.head}), U # {},
                      \A m \in U \ {r.head} : r.prv[m] \in U, r.head \notin U
               PROVE  FALSE
  BY DEF Rooted, r
<1>3. PICK W \in SUBSET S : W = U
  BY <1>2
<1>4. \A m \in W \ {l.head} : l.prv[m] \in W
  BY <1>1, <1>2, <1>3
<1> QED
  BY <1>2, <1>3, <1>4 DEF Rooted

LEMMA PopNodeRooted ==
    ASSUME NEW D, NEW V, Null \notin D,
           NEW S \in SUBSET D, NEW l \in Lists(D, V), NEW n \in S,
           ListInv(l, S), Rooted(l, S), ~PopNodeFaults(l, n)
    PROVE  Rooted(PopNode(l, n), S \ {n})
<1>1. CASE n = l.head
  <2>1. PopNode(l, n) = PopFront(l) /\ ~Empty(l) /\ ~PopFrontFaults(l)
    BY <1>1 DEF PopNode, PopNodeFaults, Empty
  <2>2. Rooted(PopFront(l), S \ {l.head})
    BY <2>1, PopFrontRooted
  <2> QED BY <1>1, <2>1, <2>2
<1>2. CASE n # l.head
  <2> DEFINE r == PopNode(l, n)
             x == l.nxt[n]
  <2> HIDE DEF r
  <2>1. r.head = l.head
    BY <1>2 DEF PopNode, PopBack, Orphan, Empty, ListInv, JoinList, r
  \* The link of the next node skips n; the others stay.
  <2>2. \A m \in S \ {n} :
            m # l.head => r.prv[m] = IF l.prv[m] = n THEN l.prv[n] ELSE l.prv[m]
    <3>1. CASE n = l.tail
      <4>1. r.prv = l.prv
        BY <1>2, <3>1 DEF PopNode, PopBack, Orphan, Empty, ListInv, r
      <4>2. \A m \in S \ {l.head} : l.prv[m] # n
        BY <3>1 DEF ListInv
      <4> QED BY <4>1, <4>2
    <3>2. CASE n # l.tail
      <4>1. x \in S \ {l.head} /\ l.prv[x] = n
        BY <1>2, <3>2 DEF ListInv, PopNodeFaults
      <4>2. r.prv = [l.prv EXCEPT ![x] = l.prv[n]]
        BY <1>2, <3>2 DEF PopNode, JoinList, r
      <4>3. \A m \in S \ {l.head} : l.prv[m] = n => m = x
        BY <4>1 DEF ListInv
      <4> HIDE DEF x
      <4>4. \A m \in S : r.prv[m] = IF m = x THEN l.prv[n] ELSE l.prv[m]
        BY <4>1, <4>2 DEF Lists
      <4> QED BY <4>1, <4>3, <4>4
    <3> QED BY <3>1, <3>2
  <2> HIDE DEF x
  <2>3. SUFFICES ASSUME NEW U \in SUBSET (S \ {n}), U # {},
                        \A m \in U \ {l.head} : r.prv[m] \in U
                 PROVE  l.head \in U
    BY <2>1 DEF Rooted, r
  <2>4. CASE \E m \in U \ {l.head} : l.prv[m] = n
    <3>1. l.prv[n] \in U
      BY <2>2, <2>3, <2>4
    <3>2. PICK W \in SUBSET S : W = U \union {n}
      BY <2>3
    <3>3. \A m \in W \ {l.head} : l.prv[m] \in W
      BY <2>2, <2>3, <3>1, <3>2
    <3>4. l.head \in W
      BY <3>2, <3>3 DEF Rooted
    <3> QED BY <1>2, <3>2, <3>4
  <2>5. CASE \A m \in U \ {l.head} : l.prv[m] # n
    <3>1. PICK W \in SUBSET S : W = U
      BY <2>3
    <3>2. \A m \in W \ {l.head} : l.prv[m] \in W
      BY <2>2, <2>3, <2>5, <3>1
    <3> QED
      BY <2>3, <3>1, <3>2 DEF Rooted
  <2> QED BY <2>4, <2>5
<1> QED BY <1>1, <1>2

LEMMA RootedFrame ==
    ASSUME NEW S, NEW l, NEW r, Rooted(l, S),
           r.head = l.head, \A m \in S : r.prv[m] = l.prv[m]
    PROVE  Rooted(r, S)
<1> SUFFICES ASSUME NEW U \in SUBSET S, U # {}, \A n \in U \ {l.head} : r.prv[n] \in U
             PROVE  l.head \in U
  BY DEF Rooted
<1>1. \A n \in U \ {l.head} : l.prv[n] \in U
  OBVIOUS
<1> QED BY <1>1 DEF Rooted

-----------------------------------------------------------------------------
(* Lists that can be read forward.                                         *)

\* Such a list is empty when its head is null, has one node when that is the
\* tail too, and pop_node of a member does not fault.
LEMMA ChainedEnds ==
    ASSUME NEW S, Null \notin S, NEW l, ListInv(l, S), Chained(l, S)
    PROVE  /\ l.head = Null <=> S = {}
           /\ l.head = l.tail => S \subseteq {l.head}
           /\ \A n \in S : ~PopNodeFaults(l, n)
<1>1. S # {} => l.tail \in S
  BY DEF Chained
<1>2. l.head = Null <=> S = {}
  BY <1>1 DEF ListInv
<1>3. ASSUME l.head = l.tail, NEW n \in S PROVE n = l.head
  <2>1. l.head \in S
    BY <1>1, <1>3
  <2>2. PICK U \in SUBSET S : U = {l.head}
    BY <2>1
  <2>3. \A m \in U \ {l.tail} : l.nxt[m] \in U
    BY <1>3, <2>2
  <2>4. U = S
    BY <2>2, <2>3 DEF Chained
  <2> QED BY <2>2, <2>4
<1>4. ASSUME NEW n \in S PROVE ~PopNodeFaults(l, n)
  <2>1. CASE n = l.head
    BY <2>1, <1>4 DEF PopNodeFaults, PopFrontFaults, Empty, Orphan, Chained
  <2>2. CASE n # l.head
    BY <2>2, <1>4 DEF PopNodeFaults, ListInv, Chained
  <2> QED BY <2>1, <2>2
<1> QED BY <1>2, <1>3, <1>4

\* A member other than the tail comes before another.
LEMMA ChainedNext ==
    ASSUME NEW S, Null \notin S, NEW l, ListInv(l, S), Chained(l, S),
           NEW n \in S \ {l.tail}
    PROVE  l.nxt[n] \in S \ {l.head, n}
<1>1. l.nxt[n] \in S
  BY DEF Chained
<1>2. l.nxt[n] # n
  <2> SUFFICES ASSUME l.nxt[n] = n PROVE FALSE
    OBVIOUS
  <2>1. PICK U \in SUBSET S : U = {n}
    OBVIOUS
  <2>2. \A m \in U \ {l.tail} : l.nxt[m] \in U
    BY <2>1
  <2>3. l.tail \in U
    BY <2>1, <2>2 DEF Chained
  <2> QED BY <2>1, <2>3
<1>3. l.nxt[n] # l.head
  BY <1>1 DEF ListInv
<1> QED BY <1>1, <1>2, <1>3

\* push_front_node keeps it, and the null link at the end: the new node comes
\* before all others.
LEMMA PushFrontChained ==
    ASSUME NEW D, NEW V, Null \notin D, D \union {Null} \subseteq V,
           NEW S \in SUBSET D, NEW l \in Lists(D, V), NEW n \in D \ S,
           ListInv(l, S), Chained(l, S), S # {} => l.nxt[l.tail] = Null
    PROVE  /\ Chained(PushFront(l, n), S \union {n})
           /\ PushFront(l, n).head = n
           /\ PushFront(l, n).nxt[PushFront(l, n).tail] = Null
<1> DEFINE r == PushFront(l, n)
<1>0. l.nxt \in [D -> V] /\ l.prv \in [D -> V] /\ l.head \in V /\ l.tail \in V
  BY DEF Lists
<1>1. CASE S = {}
  <2>1. Empty(l)
    BY <1>1 DEF ListInv, Empty
  <2>2. r.head = n /\ r.tail = n /\ r.nxt[n] = Null
    BY <1>0, <2>1 DEF PushFront, Singleton
  <2> HIDE DEF r
  <2>3. Chained(r, S \union {n})
    BY <1>1, <2>2 DEF Chained
  <2> QED BY <1>1, <2>2, <2>3 DEF r
<1>2. CASE S # {}
  <2>1. ~Empty(l) /\ l.head \in S /\ l.tail \in S
    BY <1>2, ChainedEnds DEF ListInv, Empty
  <2>2. r.head = n /\ r.tail = l.tail /\ r.nxt = [l.nxt EXCEPT ![n] = l.head]
    BY <2>1 DEF PushFront
  <2> HIDE DEF r
  <2>3. \A m \in D : r.nxt[m] = IF m = n THEN l.head ELSE l.nxt[m]
    BY <1>0, <2>2
  <2>4. \A m \in (S \union {n}) \ {r.tail} : r.nxt[m] \in S \union {n}
    BY <2>1, <2>2, <2>3 DEF Chained
  <2>5. ASSUME NEW U \in SUBSET (S \union {n}), \A m \in U \ {r.tail} : r.nxt[m] \in U
        PROVE  /\ U # {} => r.tail \in U
               /\ r.head \in U => U = S \union {n}
    <3>1. (U \intersect S) \in SUBSET S
      OBVIOUS
    <3>2. \A m \in (U \intersect S) \ {l.tail} : l.nxt[m] \in U \intersect S
      BY <2>2, <2>3, <2>5 DEF Chained
    <3>3. n \in U => l.head \in U \intersect S
      BY <2>1, <2>2, <2>3, <2>5
    <3>4. /\ U \intersect S # {} => l.tail \in U \intersect S
          /\ l.head \in U \intersect S => U \intersect S = S
      BY <3>1, <3>2 DEF Chained
    <3> QED BY <2>2, <3>3, <3>4
  <2>6. Chained(r, S \union {n})
    BY <2>4, <2>5 DEF Chained
  <2>7. r.nxt[l.tail] = l.nxt[l.tail]
    BY <2>1, <2>3
  <2> QED BY <1>2, <2>2, <2>6, <2>7 DEF r
<1> QED BY <1>1, <1>2

\* So does push_back_node: the new node comes behind all others.
LEMMA PushBackChained ==
    ASSUME NEW D, NEW V, Null \notin D, D \union {Null} \subseteq V,
           NEW S \in SUBSET D, NEW l \in Lists(D, V), NEW n \in D \ S,
           ListInv(l, S), Chained(l, S)
    PROVE  /\ Chained(PushBack(l, n), S \union {n})
           /\ PushBack(l, n).tail = n /\ PushBack(l, n).nxt[n] = Null
<1> DEFINE r == PushBack(l, n)
<1>0. l.nxt \in [D -> V] /\ l.prv \in [D -> V] /\ l.head \in V /\ l.tail \in V
  BY DEF Lists
<1>1. CASE S = {}
  <2>1. Empty(l)
    BY <1>1 DEF ListInv, Empty
  <2>2. r.head = n /\ r.tail = n /\ r.nxt[n] = Null
    BY <1>0, <2>1 DEF PushBack, Singleton
  <2> HIDE DEF r
  <2>3. Chained(r, S \union {n})
    BY <1>1, <2>2 DEF Chained
  <2> QED BY <2>2, <2>3 DEF r
<1>2. CASE S # {}
  <2>1. ~Empty(l) /\ l.head \in S /\ l.tail \in S
    BY <1>2, ChainedEnds DEF ListInv, Empty
  <2>2. /\ r.head = l.head /\ r.tail = n
        /\ r.nxt = [l.nxt EXCEPT ![l.tail] = n, ![n] = Null]
    BY <2>1 DEF PushBack
  <2> HIDE DEF r
  <2>3. \A m \in D : r.nxt[m] = IF m = n THEN Null ELSE IF m = l.tail THEN n ELSE l.nxt[m]
    BY <1>0, <2>2
  <2>4. \A m \in (S \union {n}) \ {r.tail} : r.nxt[m] \in S \union {n}
    BY <2>1, <2>2, <2>3 DEF Chained
  <2>5. ASSUME NEW U \in SUBSET (S \union {n}), \A m \in U \ {r.tail} : r.nxt[m] \in U
        PROVE  /\ U # {} => r.tail \in U
               /\ r.head \in U => U = S \union {n}
    <3>1. (U \intersect S) \in SUBSET S
      OBVIOUS
    <3>2. \A m \in (U \intersect S) \ {l.tail} : l.nxt[m] \in U \intersect S
      BY <2>2, <2>3, <2>5 DEF Chained
    <3>3. l.tail \in U => n \in U
      BY <2>1, <2>2, <2>3, <2>5
    <3>4. /\ U \intersect S # {} => l.tail \in U \intersect S
          /\ l.head \in U \intersect S => U \intersect S = S
      BY <3>1, <3>2 DEF Chained
    <3> QED BY <2>1, <2>2, <3>3, <3>4
  <2>6. Chained(r, S \union {n})
    BY <2>4, <2>5 DEF Chained
  <2>7. r.nxt[n] = Null
    BY <2>3
  <2> QED BY <2>2, <2>6, <2>7 DEF r
<1> QED BY <1>1, <1>2

\* pop_node keeps it, unless it takes the last of three or more.
LEMMA PopNodeChained ==
    ASSUME NEW D, NEW V, Null \notin D, D \union {Null} \subseteq V,
           NEW S \in SUBSET D, NEW l \in Lists(D, V), NEW n \in S,
           ListInv(l, S), Chained(l, S), n = l.tail => S \subseteq {l.head, l.tail}
    PROVE  Chained(PopNode(l, n), S \ {n})
<1> DEFINE r == PopNode(l, n)
           T == S \ {n}
<1>0. l.nxt \in [D -> V] /\ l.prv \in [D -> V] /\ l.head \in V /\ l.tail \in V
  BY DEF Lists
<1>1. ~Empty(l) /\ l.head \in S /\ l.tail \in S /\ n # Null
  BY ChainedEnds DEF ListInv, Empty
<1>2. CASE l.head = l.tail
  <2>1. T = {}
    BY <1>1, <1>2, ChainedEnds
  <2> HIDE DEF r
  <2> QED BY <2>1 DEF Chained, r
<1>3. CASE l.head # l.tail /\ n = l.head
  <2>1. ~Orphan(l)
    BY <1>3 DEF Orphan
  <2>2. r.head = l.nxt[n] /\ r.tail = l.tail /\ r.nxt = l.nxt
    BY <1>1, <1>3, <2>1 DEF PopNode, PopFront
  <2> HIDE DEF r
  <2>3. \A m \in T \ {r.tail} : r.nxt[m] \in T
    <3> SUFFICES ASSUME NEW m \in T \ {r.tail} PROVE l.nxt[m] \in T
      BY <2>2
    <3>1. l.nxt[m] \in S \ {l.head, m}
      BY <2>2, ChainedNext
    <3> QED BY <1>3, <3>1
  <2>4. ASSUME NEW U \in SUBSET T, \A m \in U \ {r.tail} : r.nxt[m] \in U
        PROVE  /\ U # {} => r.tail \in U
               /\ r.head \in U => U = T
    <3>1. U \in SUBSET S /\ \A m \in U \ {l.tail} : l.nxt[m] \in U
      BY <2>2, <2>4
    <3>2. U # {} => r.tail \in U
      BY <2>2, <3>1 DEF Chained
    <3>3. ASSUME r.head \in U PROVE U = T
      <4>1. PICK W \in SUBSET S : W = U \union {n}
        OBVIOUS
      <4>2. \A m \in W \ {l.tail} : l.nxt[m] \in W
        BY <1>3, <2>2, <3>1, <3>3, <4>1
      <4>3. W = S
        BY <1>3, <4>1, <4>2 DEF Chained
      <4> QED BY <4>1, <4>3
    <3> QED BY <3>2, <3>3
  <2> QED BY <2>3, <2>4 DEF Chained, r
<1>4. CASE l.head # l.tail /\ n # l.head /\ n = l.tail
  <2>1. ~Orphan(l)
    BY <1>4 DEF Orphan
  <2>2. r.head = l.head /\ r.tail = l.prv[l.tail]
    BY <1>1, <1>4, <2>1 DEF PopNode, PopBack
  <2> HIDE DEF r
  <2>3. T = {l.head}
    BY <1>1, <1>4
  <2>4. r.tail = l.head
    BY <1>1, <1>4, <2>2 DEF ListInv
  <2>5. Chained(r, {l.head})
    BY <2>2, <2>4 DEF Chained
  <2> QED BY <2>3, <2>5 DEF r
<1>5. CASE l.head # l.tail /\ n # l.head /\ n # l.tail
  <2> DEFINE p == l.prv[n]
             x == l.nxt[n]
  <2>1. p \in S /\ p # l.tail /\ p # n /\ l.nxt[p] = n
    <3>1. p \in S /\ p # l.tail
      BY <1>5 DEF ListInv
    <3>2. l.nxt[p] \in S \ {l.head, p}
      BY <3>1, ChainedNext
    <3>3. l.prv[l.nxt[p]] = p /\ l.nxt[p] # l.head
      BY <1>1, <3>1, <3>2 DEF ListInv
    <3>4. l.nxt[p] = n
      BY <1>5, <3>2, <3>3 DEF ListInv
    <3> QED BY <3>1, <3>2, <3>4
  <2>2. x \in S \ {l.head, n}
    BY <1>5, ChainedNext
  <2>3. /\ r.head = l.head /\ r.tail = l.tail /\ r.nxt = [l.nxt EXCEPT ![p] = x]
    BY <1>5 DEF PopNode, JoinList
  <2>10. x = l.nxt[n]
    OBVIOUS
  <2> HIDE DEF r, p, x
  <2>4. \A m \in D : r.nxt[m] = IF m = p THEN x ELSE l.nxt[m]
    BY <1>0, <2>3
  <2>5. ASSUME NEW m \in T, l.nxt[m] = n, m # l.tail PROVE m = p
    <3>1. l.prv[n] = m
      BY <1>1, <1>5, <2>5 DEF ListInv
    <3> QED BY <3>1 DEF p
  <2>6. \A m \in T \ {r.tail} : r.nxt[m] \in T
    <3> SUFFICES ASSUME NEW m \in T \ {r.tail} PROVE r.nxt[m] \in T
      OBVIOUS
    <3>1. CASE m = p
      BY <2>2, <2>4, <3>1
    <3>2. CASE m # p
      BY <2>3, <2>4, <2>5, <3>2 DEF Chained
    <3> QED BY <3>1, <3>2
  <2>7. ASSUME NEW U \in SUBSET T, \A m \in U \ {r.tail} : r.nxt[m] \in U
        PROVE  /\ U # {} => r.tail \in U
               /\ r.head \in U => U = T
    <3>1. \A m \in U \ {l.tail, p} : l.nxt[m] \in U
      BY <2>3, <2>4, <2>7
    <3>2. CASE p \in U
      <4>1. x \in U
        BY <2>1, <2>3, <2>4, <2>7, <3>2
      <4>2. PICK W \in SUBSET S : W = U \union {n}
        OBVIOUS
      <4>3. \A m \in W \ {l.tail} : l.nxt[m] \in W
        BY <2>1, <2>10, <3>1, <4>1, <4>2
      <4>4. /\ l.tail \in W
            /\ l.head \in W => W = S
        BY <4>2, <4>3 DEF Chained
      <4> QED BY <1>5, <2>3, <4>2, <4>4
    <3>3. CASE p \notin U
      <4>1. U \in SUBSET S /\ \A m \in U \ {l.tail} : l.nxt[m] \in U
        BY <3>1, <3>3
      <4>2. /\ U # {} => l.tail \in U
            /\ l.head \in U => U = S
        BY <4>1 DEF Chained
      <4> QED BY <2>3, <4>2
    <3> QED BY <3>2, <3>3
  <2> QED BY <2>6, <2>7 DEF Chained, r
<1> QED BY <1>2, <1>3, <1>4, <1>5

\* Chained looks at the next links of the members only.
LEMMA ChainedFrame ==
    ASSUME NEW S, NEW l, NEW r, Chained(l, S), r.head = l.head, r.tail = l.tail,
           \A m \in S : r.nxt[m] = l.nxt[m]
    PROVE  Chained(r, S)
<1>1. \A n \in S \ {r.tail} : r.nxt[n] \in S
  BY DEF Chained
<1>2. ASSUME NEW U \in SUBSET S, \A n \in U \ {r.tail} : r.nxt[n] \in U
      PROVE  /\ U # {} => r.tail \in U
             /\ r.head \in U => U = S
  <2>1. \A n \in U \ {l.tail} : l.nxt[n] \in U
    BY <1>2
  <2> QED BY <2>1 DEF Chained
<1> QED BY <1>1, <1>2 DEF Chained

-----------------------------------------------------------------------------
(* Numbers. *)

LEMMA DivProduct ==
    ASSUME NEW q \in Nat, NEW s \in Nat \ {0}
    PROVE  (q * s) \div s = q
  OBVIOUS

LEMMA ProductStep ==
    ASSUME NEW q \in Nat, NEW t \in Nat, NEW s \in Nat, q < t
    PROVE  q * s + s <= t * s
<1>1. PICK e \in Nat : t = q + 1 + e
  BY t - q - 1 \in Nat, t = q + 1 + (t - q - 1)
<1>2. t * s = q * s + s + e * s /\ e * s \in Nat
  BY <1>1
<1> QED
  BY <1>2

LEMMA ProductOrder ==
    ASSUME NEW q \in Nat, NEW t \in Nat, NEW s \in Nat, q * s < t * s
    PROVE  q < t
<1> SUFFICES ASSUME t <= q PROVE FALSE
  OBVIOUS
<1>1. PICK e \in Nat : q = t + e
  BY q - t \in Nat, q = t + (q - t)
<1>2. q * s = t * s + e * s /\ e * s \in Nat
  BY <1>1
<1> QED
  BY <1>2

\* Every set of numbers has a least one: inductions go by the least number for
\* which something fails.
LEMMA LeastNumber ==
    ASSUME NEW T \in SUBSET Nat, T # {}
    PROVE  \E n \in T : \A m \in T : n <= m
<1>1. PICK n \in T : \A m \in T : ~(<<m, n>> \in OpToRel(<, Nat))
  BY NatLessThanWellFounded, WFMin, Zenon
<1>2. \A m \in T : ~(m < n)
  BY <1>1 DEF OpToRel
<1>3. n \in Nat
  OBVIOUS
<1>4. \A m \in T : m \in Nat /\ n <= m
  <2> SUFFICES ASSUME NEW m \in T PROVE m \in Nat /\ n <= m
    OBVIOUS
  <2>1. m \in Nat
    OBVIOUS
  <2>2. ~(m < n)
    BY <1>2
  <2> HIDE <1>1
  <2> QED BY <1>3, <2>1, <2>2, SMT
<1> QED BY <1>4, Zenon

\* A function over Nat by recursion, as a table h of what each step does.
LEMMA Recursion ==
    \A a \in Nat, h \in [Nat -> [Nat -> Nat]], N \in Nat :
        \E g \in [0 .. N -> Nat] :
            g[0] = a /\ \A i \in 1 .. N : g[i] = h[i][g[i - 1]]
<1> SUFFICES ASSUME NEW a \in Nat, NEW h \in [Nat -> [Nat -> Nat]], NEW N \in Nat
             PROVE  \E g \in [0 .. N -> Nat] :
                        g[0] = a /\ \A i \in 1 .. N : g[i] = h[i][g[i - 1]]
  OBVIOUS
<1> DEFINE Good(m) == \E g \in [0 .. m -> Nat] :
                          g[0] = a /\ \A i \in 1 .. m : g[i] = h[i][g[i - 1]]
           T == {m \in Nat : ~Good(m)}
<1>1. SUFFICES ASSUME T # {} PROVE FALSE
  OBVIOUS
<1>2. PICK m \in T : \A k \in T : m <= k
  BY <1>1, LeastNumber
<1>3. m \in Nat /\ ~Good(m) /\ \A k \in Nat : k < m => Good(k)
  <2> HIDE DEF Good
  <2>1. m \in Nat /\ ~Good(m)
    OBVIOUS
  <2>2. ASSUME NEW k \in Nat, k < m PROVE Good(k)
    BY <1>2, <2>1, <2>2
  <2> QED BY <2>1, <2>2
<1>4. Good(0)
  <2>1. PICK g : g = [i \in 0 .. 0 |-> a]
    OBVIOUS
  <2>2. g \in [0 .. 0 -> Nat] /\ g[0] = a /\ \A i \in 1 .. 0 : g[i] = h[i][g[i - 1]]
    BY <2>1
  <2> QED BY <2>2
<1>5. m # 0 /\ m - 1 \in Nat /\ m - 1 < m
  <2> HIDE DEF Good
  <2>1. m # 0
    BY <1>3, <1>4, Zenon
  <2> QED BY ONLY <1>3, <2>1
<1>6. Good(m - 1)
  <2> HIDE DEF Good
  <2> QED BY <1>3, <1>5
<1>7. PICK g \in [0 .. m - 1 -> Nat] :
          g[0] = a /\ \A i \in 1 .. m - 1 : g[i] = h[i][g[i - 1]]
  BY <1>6
<1>8. PICK f : f = [i \in 0 .. m |-> IF i = m THEN h[m][g[m - 1]] ELSE g[i]]
  OBVIOUS
<1>9. f \in [0 .. m -> Nat]
  <2>1. h[m] \in [Nat -> Nat] /\ g[m - 1] \in Nat
    <3>1. m - 1 \in 0 .. m - 1
      BY <1>5
    <3> QED BY <1>3, <3>1
  <2>2. \A i \in 0 .. m : i # m => i \in 0 .. m - 1
    BY <1>3, <1>5
  <2> QED BY <1>7, <1>8, <2>1, <2>2
<1>10. f[0] = a
  BY <1>5, <1>7, <1>8
<1>11. ASSUME NEW i \in 1 .. m PROVE f[i] = h[i][f[i - 1]]
  <2>1. i \in 0 .. m /\ i - 1 \in 0 .. m /\ i - 1 # m /\ (i # m => i \in 1 .. m - 1)
    BY <1>3, <1>5
  <2>2. f[i - 1] = g[i - 1]
    BY <1>8, <2>1
  <2>3. i = m => f[i] = h[i][g[i - 1]]
    BY <1>8, <2>1
  <2>4. i # m => f[i] = h[i][g[i - 1]]
    BY <1>7, <1>8, <2>1
  <2> QED BY <2>2, <2>3, <2>4
<1>12. Good(m)
  BY <1>9, <1>10, <1>11
<1> QED BY <1>3, <1>12

\* There is only one.
LEMMA OneRecursion ==
    \A a \in Nat, h \in [Nat -> [Nat -> Nat]], N \in Nat : \A g \in [0 .. N -> Nat] :
               (g[0] = a /\ \A i \in 1 .. N : g[i] = h[i][g[i - 1]]) =>
               \A f : (/\ f[0] = a
                       /\ \A i \in 1 .. N : f[i - 1] \in Nat => f[i] = h[i][f[i - 1]])
                      => \A i \in 0 .. N : f[i] = g[i]
<1> SUFFICES ASSUME NEW a \in Nat, NEW h \in [Nat -> [Nat -> Nat]], NEW N \in Nat,
                    NEW g \in [0 .. N -> Nat],
                    g[0] = a, \A i \in 1 .. N : g[i] = h[i][g[i - 1]]
             PROVE  \A f : (/\ f[0] = a
                            /\ \A i \in 1 .. N : f[i - 1] \in Nat => f[i] = h[i][f[i - 1]])
                           => \A i \in 0 .. N : f[i] = g[i]
  BY Zenon
<1> SUFFICES ASSUME NEW f, f[0] = a,
                    \A i \in 1 .. N : f[i - 1] \in Nat => f[i] = h[i][f[i - 1]]
             PROVE  \A i \in 0 .. N : f[i] = g[i]
  BY Zenon
<1> DEFINE T == {i \in Nat : i <= N /\ f[i] # g[i]}
<1>1. SUFFICES ASSUME NEW i \in 0 .. N, f[i] # g[i] PROVE FALSE
  OBVIOUS
<1>2. T # {} /\ T \in SUBSET Nat
  <2>1. i \in Nat /\ i <= N
    OBVIOUS
  <2>2. i \in T
    BY <1>1, <2>1
  <2> QED BY <2>2
<1>3. PICK m \in T : \A k \in T : m <= k
  BY <1>2, LeastNumber
<1>4. m \in Nat /\ m <= N /\ f[m] # g[m]
  OBVIOUS
<1>5. \A k \in Nat : k < m /\ k <= N => f[k] = g[k]
  <2> SUFFICES ASSUME NEW k \in Nat, k < m, k <= N, f[k] # g[k] PROVE FALSE
    OBVIOUS
  <2>1. k \in T
    OBVIOUS
  <2>2. m <= k
    BY <1>3, <2>1, Zenon
  <2> QED BY ONLY <1>4, <2>2, k \in Nat, k < m
<1> HIDE DEF T
<1>6. m \in 1 .. N /\ m - 1 \in Nat /\ m - 1 < m /\ m - 1 <= N /\ m - 1 \in 0 .. N
  <2>1. m # 0
    BY <1>4, Zenon
  <2> QED BY ONLY <1>4, <2>1, N \in Nat
<1>7. f[m - 1] = g[m - 1]
  BY <1>5, <1>6, Zenon
<1>8. g[m - 1] \in Nat
  BY <1>6
<1> QED BY <1>4, <1>6, <1>7, <1>8, Zenon

\* n % b = 0, as a product.
LEMMA Divides ==
    ASSUME NEW n \in Nat, NEW b \in Nat \ {0}
    PROVE  n % b = 0 <=> \E e \in Nat : n = b * e
<1>1. n = b * (n \div b) + (n % b) /\ n \div b \in Nat /\ n % b \in 0 .. b - 1
  OBVIOUS
<1>2. ASSUME NEW e \in Nat, n = b * e PROVE n % b = 0
  <2>1. n = e * b
    BY <1>2
  <2> HIDE <1>2
  <2>2. (e * b) \div b = e
    BY DivProduct
  <2>3. b * e = n /\ n \div b = e
    BY <1>2, <2>1, <2>2
  <2> QED BY <1>1, <2>3
<1>3. ASSUME n % b = 0 PROVE \E e \in Nat : n = b * e
  <2>1. PICK q \in Nat : q = n \div b
    BY <1>1
  <2>2. n = b * q
    BY <1>1, <1>3, <2>1
  <2> QED BY <2>2
<1> QED BY <1>2, <1>3

\* What divides two numbers divides their difference.
LEMMA DividesRest ==
    ASSUME NEW b \in Nat \ {0}, NEW h \in Nat, NEW r \in Nat, h % b = 0, (h + r) % b = 0
    PROVE  r % b = 0
<1>1. PICK d \in Nat : h = b * d
  BY Divides
<1>2. PICK e \in Nat : h + r = b * e
  BY Divides
<1>3. r = b * (e - d)
  BY <1>1, <1>2
<1>4. e - d \in Nat
  <2> SUFFICES ASSUME e < d PROVE FALSE
    OBVIOUS
  <2>1. PICK c \in Nat \ {0} : d = e + c
    BY d - e \in Nat \ {0}, d = e + (d - e)
  <2>2. b * d = b * e + b * c /\ b * c \in Nat /\ b * c # 0
    BY <2>1
  <2>3. PICK x \in Nat, y \in Nat \ {0} : x = b * e /\ y = b * c
    BY <2>2
  <2> QED BY <1>1, <1>2, <2>2, <2>3
<1> QED BY <1>3, <1>4, Divides

LEMMA DividesProduct ==
    ASSUME NEW b \in Nat \ {0}, NEW s \in Nat, NEW q \in Nat, s % b = 0
    PROVE  (q * s) % b = 0 /\ q * s \in Nat
<1>1. PICK e \in Nat : s = b * e
  BY Divides
<1>2. q * s = b * (q * e) /\ q * e \in Nat /\ q * s \in Nat
  BY <1>1
<1> QED BY <1>2, Divides

\* A power of two, doubled, is one; and it is one, or twice one.
LEMMA PowerDouble ==
    ASSUME NEW p \in Nat \ {0}, PowerOfTwo(p)
    PROVE  PowerOfTwo(2 * p)
<1> SUFFICES ASSUME NEW d \in 2 .. 2 * p, (2 * p) % d = 0, d % 2 # 0
             PROVE  FALSE
  BY DEF PowerOfTwo
<1>0. d \in Nat \ {0} /\ d >= 2 /\ 2 * p \in Nat
  OBVIOUS
<1>1. PICK q \in Nat : 2 * p = d * q
  BY <1>0, Divides
<1>2. PICK e \in Nat : d = (2 * e) + 1
  <2>1. d = 2 * (d \div 2) + (d % 2) /\ d % 2 = 1 /\ d \div 2 \in Nat
    BY <1>0
  <2> QED BY <2>1
<1>3. d * q = 2 * (e * q) + q /\ e * q \in Nat
  BY <1>2
<1>4. PICK x \in Nat : x = e * q
  BY <1>3
<1>5. PICK c \in Nat : q = 2 * c
  <2>1. 2 * p = 2 * x + q
    BY <1>1, <1>3, <1>4
  <2>2. p - x \in Nat /\ q = 2 * (p - x)
    BY <2>1
  <2> QED BY <2>2
<1>6. 2 * p = 2 * (d * c) /\ d * c \in Nat
  BY <1>0, <1>1, <1>5
<1>7. p = d * c
  <2>1. PICK y \in Nat : y = d * c
    BY <1>6
  <2> QED BY <1>6, <2>1
<1>8. p % d = 0
  BY <1>0, <1>7, Divides
<1>9. d <= p
  <2>1. c # 0
    BY <1>7
  <2>2. PICK b \in Nat : c = b + 1
    BY <2>1, c - 1 \in Nat, c = (c - 1) + 1
  <2>3. p = d * b + d /\ d * b \in Nat
    BY <1>0, <1>7, <2>2
  <2> QED BY <1>0, <2>3
<1> QED BY <1>0, <1>8, <1>9 DEF PowerOfTwo

LEMMA PowerHalf ==
    ASSUME NEW b \in Nat \ {0}, PowerOfTwo(b), b # 1
    PROVE  \E c \in Nat \ {0} : b = 2 * c /\ PowerOfTwo(c)
<1>1. b \in 2 .. b /\ b = b * 1
  OBVIOUS
<1>2. b % b = 0
  BY <1>1, Divides
<1>3. b % 2 = 0
  BY <1>1, <1>2 DEF PowerOfTwo
<1>4. PICK c \in Nat : b = 2 * c
  BY <1>3, Divides
<1>5. c \in Nat \ {0}
  BY <1>4
<1>6. ASSUME NEW d \in 2 .. c, c % d = 0 PROVE d % 2 = 0
  <2>1. d \in Nat \ {0} /\ d \in 2 .. b
    BY <1>4, <1>5
  <2>2. (2 * c) % d = 0
    BY <1>5, <1>6, <2>1, DividesProduct
  <2> QED BY <1>4, <2>1, <2>2 DEF PowerOfTwo
<1> QED BY <1>4, <1>5, <1>6 DEF PowerOfTwo

\* Of two powers of two one divides the other.
LEMMA PowersDivide ==
    ASSUME NEW b \in Nat \ {0}, PowerOfTwo(b), NEW s \in Nat \ {0}, PowerOfTwo(s)
    PROVE  s % b = 0 \/ b % s = 0
<1> DEFINE Bad == {x \in Nat \ {0} : /\ PowerOfTwo(x)
                                     /\ \E y \in Nat \ {0} : PowerOfTwo(y) /\ y % x # 0 /\ x % y # 0}
<1> SUFFICES ASSUME Bad # {} PROVE FALSE
  OBVIOUS
<1>1. Bad \in SUBSET Nat
  OBVIOUS
<1>2. PICK x \in Bad : \A z \in Bad : x <= z
  BY <1>1, LeastNumber
<1>3. x \in Nat \ {0} /\ PowerOfTwo(x)
  OBVIOUS
<1>4. PICK y \in Nat \ {0} : PowerOfTwo(y) /\ y % x # 0 /\ x % y # 0
  BY <1>2
<1>5. x # 1 /\ y # 1
  BY <1>3, <1>4
<1>6. PICK c \in Nat \ {0} : x = 2 * c /\ PowerOfTwo(c)
  BY <1>3, <1>5, PowerHalf
<1>7. PICK t \in Nat \ {0} : y = 2 * t /\ PowerOfTwo(t)
  BY <1>4, <1>5, PowerHalf
<1>8. c \notin Bad
  BY <1>2, <1>6
<1>9. t % c = 0 \/ c % t = 0
  BY <1>6, <1>7, <1>8
<1> HIDE DEF Bad
<1>10. ASSUME NEW u \in Nat \ {0}, NEW v \in Nat \ {0}, u % v = 0
       PROVE  (2 * u) % (2 * v) = 0
  <2>1. PICK e \in Nat : u = v * e
    BY <1>10, Divides
  <2>2. 2 * u = (2 * v) * e /\ 2 * v \in Nat \ {0} /\ 2 * u \in Nat
    BY <2>1
  <2> QED BY <2>2, Divides
<1> QED BY <1>4, <1>6, <1>7, <1>9, <1>10

LEMMA HighestBitIs ==
    ASSUME NEW n \in Nat \ {0}
    PROVE  /\ HighestBit(n) \in 1 .. n /\ n < 2 * HighestBit(n)
           /\ PowerOfTwo(HighestBit(n))
<1> DEFINE T == {n - p : p \in {q \in 1 .. n : PowerOfTwo(q)}}
<1>1. T \in SUBSET Nat
  OBVIOUS
<1>2. 1 \in 1 .. n /\ PowerOfTwo(1)
  BY DEF PowerOfTwo
<1>3. T # {}
  BY <1>2
<1>4. PICK t \in T : \A u \in T : t <= u
  BY <1>1, <1>3, LeastNumber
<1>5. PICK p \in 1 .. n : PowerOfTwo(p) /\ t = n - p
  BY <1>4
<1>6. \A q \in 1 .. n : PowerOfTwo(q) => n - p <= n - q
  BY <1>4, <1>5
<1> HIDE DEF T
<1>7. n < 2 * p
  <2> SUFFICES ASSUME 2 * p <= n PROVE FALSE
    BY <1>5
  <2>1. 2 * p \in 1 .. n /\ PowerOfTwo(2 * p)
    BY <1>5, PowerDouble
  <2>2. n - p <= n - 2 * p
    BY <1>6, <2>1
  <2> QED BY <1>5, <2>2
<1> QED BY <1>5, <1>7 DEF HighestBit

\* Powers of two of one size.
LEMMA PowerBetween ==
    ASSUME NEW p \in Nat \ {0}, NEW q \in Nat \ {0}, PowerOfTwo(p), PowerOfTwo(q),
           p <= q, q < 2 * p
    PROVE  p = q
<1>1. CASE q % p = 0
  <2>1. PICK e \in Nat : q = p * e
    BY <1>1, Divides
  <2>2. e = 1
    <3>1. e = 0 => p * e = 0
      BY <2>1
    <3>2. ASSUME e >= 2 PROVE FALSE
      <4>1. PICK c \in Nat : e = c + 2
        BY <3>2, <2>1, e - 2 \in Nat, e = (e - 2) + 2
      <4>2. p * e = p * c + 2 * p /\ p * c \in Nat
        BY <4>1
      <4>3. PICK x \in Nat : x = p * c
        BY <4>2
      <4> QED BY <2>1, <4>2, <4>3
    <3> QED BY <2>1, <3>1, <3>2
  <2> QED BY <2>1, <2>2
<1>2. CASE p % q = 0
  <2>1. p < q => p % q = p
    OBVIOUS
  <2> QED BY <1>2, <2>1
<1> QED BY <1>1, <1>2, PowersDivide

\* The lowest bit of a number between two multiples of a power of two, switched
\* off, leads nearer to the lower one and not past it.
LEMMA LowestBitOffStays ==
    ASSUME NEW s \in Nat \ {0}, PowerOfTwo(s), NEW h \in Nat, h % s = 0,
           NEW n \in Nat, h < n, n < h + s
    PROVE  LowestBitOff(n) \in h .. n - 1
<1> DEFINE B == {b \in 1 .. n : PowerOfTwo(b) /\ n % b = 0}
<1>3. PICK r \in Nat : n = h + r /\ 0 < r /\ r < s
  BY n - h \in Nat, n = h + (n - h)
<1>4. 1 \in B
  BY DEF PowerOfTwo
<1>5. PICK x \in B : \A y \in B : y <= x
  <2> DEFINE T == {n - b : b \in B}
  <2>1. T \in SUBSET Nat /\ T # {}
    BY <1>4
  <2>2. PICK t \in T : \A u \in T : t <= u
    BY <2>1, LeastNumber
  <2>3. PICK b \in B : t = n - b
    BY <2>2
  <2>4. \A y \in B : n - b <= n - y
    BY <2>2, <2>3
  <2> QED BY <2>3, <2>4
<1>6. PICK b \in B : b = CHOOSE c \in B : \A d \in B : d <= c
  BY <1>5
<1>7. LowestBitOff(n) = n - b
  BY <1>6 DEF LowestBitOff
<1>8. b \in 1 .. n /\ PowerOfTwo(b) /\ n % b = 0
  <2>1. b \in B
    OBVIOUS
  <2> QED BY ONLY <2>1
<1>11. b \in Nat \ {0}
  BY <1>8
<1> HIDE DEF B
<1>9. PICK q \in Nat : h = s * q
  BY Divides
<1>10. b <= r
  <2>1. CASE s % b = 0
    <3>1. h % b = 0
      <4>1. h = q * s
        BY <1>9
      <4> HIDE <1>9
      <4> QED BY <1>11, <4>1, <2>1, DividesProduct
    <3>2. (h + r) % b = 0
      BY <1>3, <1>8
    <3>3. r % b = 0
      BY <1>8, <1>11, <3>1, <3>2, DividesRest
    <3>4. PICK e \in Nat : r = b * e
      BY <1>8, <1>11, <3>3, Divides
    <3> QED BY <1>3, <1>11, <3>4
  <2>2. CASE b % s = 0
    <3>1. PICK d \in Nat : n = b * d
      BY <1>8, <1>11, Divides
    <3>2. n = d * b
      BY <1>8, <1>11, <3>1
    <3>3. n % s = 0
      BY <1>8, <1>11, <2>2, <3>2, DividesProduct
    <3>5. (h + r) % s = 0
      BY <1>3, <3>3
    <3>6. r % s = 0
      BY <3>5, DividesRest
    <3>7. PICK e \in Nat : r = s * e
      BY <3>6, Divides
    <3> QED BY <1>3, <3>7
  <2> QED BY <1>8, <1>11, <2>1, <2>2, PowersDivide
<1> QED
  BY <1>3, <1>7, <1>11, <1>10
=============================================================================

---------------------------- MODULE DriverProofs -----------------------------
(***************************************************************************)
(* The keyboard and the screen for every size of the ring, of the buffer   *)
(* and of the screen, any number of tries, of keys and of characters.      *)
(*                                                                         *)
(* KeyQueue: whichever of its stores pop makes first and wherever the      *)
(* interrupt comes, the ring holds the last codes that arrived, the main   *)
(* task looks at codes in the order of their arrival, and a ring that has  *)
(* never been full loses nothing.                                          *)
(*                                                                         *)
(* Keyboard: no byte gets stuck in the controller unless an interrupt      *)
(* found no handler or a full ring.  However late the devices answer, no   *)
(* answer but an acknowledgement is typed, no more than one of these for   *)
(* each dialogue with the keyboard, and the keys stay in order.            *)
(*                                                                         *)
(* Console: what is printed goes to the cursor, on the screen, to a cell   *)
(* that is blank, but for the operations that are known to go back.        *)
(* The text written comes out of the buffer whole and in order, and a      *)
(* number in it is its numeral: the digits with the number's value, and no *)
(* digit more than that takes.                                             *)
(***************************************************************************)
EXTENDS Keyboard, KeyQueue, Console, LibraryProofs, SequenceTheorems,
        FiniteSetTheorems, TLAPS

LEMMA AfterType == \A i \in Slot : After(i) \in Slot /\ After(i) # i
BY SizeAssumption DEF Slot, After

\* What the operations do to a ring.
LEMMA NewQueueType == NewQueue \in Ring
<1>1. 0 \in Slot /\ FALSE \in BOOLEAN /\ [i \in Slot |-> 0] \in [Slot -> Nat]
  BY SizeAssumption DEF Slot
<1>2. NewQueue = [first |-> 0, last |-> 0, isfull |-> FALSE, data |-> [i \in Slot |-> 0]]
  BY DEF NewQueue, Slot
<1> QED BY <1>1, <1>2 DEF Ring

LEMMA PushType ==
    ASSUME NEW r \in Ring, NEW e \in Nat
    PROVE  /\ Push(r, e) \in Ring
           /\ Push(r, e).first = r.first /\ Push(r, e).last = After(r.last)
           /\ Push(r, e).isfull <=> After(r.last) = r.first
           /\ Push(r, e).data = [r.data EXCEPT ![r.last] = e]
<1>1. r.first \in Slot /\ r.last \in Slot /\ r.isfull \in BOOLEAN /\ r.data \in [Slot -> Nat]
  BY DEF Ring
<1>2. After(r.last) \in Slot
  BY <1>1, AfterType
<1> DEFINE b == After(r.last) = r.first
           d == [r.data EXCEPT ![r.last] = e]
           l == After(r.last)
<1>3. d \in [Slot -> Nat] /\ b \in BOOLEAN /\ l \in Slot
  BY <1>1, <1>2
<1>4. Push(r, e) = [r EXCEPT !.data = d, !.last = l, !.isfull = b]
  BY DEF Push
<1> HIDE DEF b, d, l
<1>5. /\ Push(r, e) \in Ring /\ Push(r, e).first = r.first /\ Push(r, e).last = l
      /\ Push(r, e).data = d
  BY <1>1, <1>3, <1>4 DEF Ring
<1>6. Push(r, e).isfull = b
  BY <1>1, <1>3, <1>4 DEF Ring
<1> QED BY <1>5, <1>6 DEF b, d, l

LEMMA PopType ==
    ASSUME NEW r \in Ring
    PROVE  /\ Advanced(r) \in Ring /\ NotFull(r) \in Ring
           /\ Advanced(r).first = After(r.first) /\ Advanced(r).last = r.last
           /\ Advanced(r).isfull <=> r.isfull
           /\ Advanced(r).data = r.data
           /\ NotFull(r).first = r.first /\ NotFull(r).last = r.last
           /\ ~NotFull(r).isfull
           /\ NotFull(r).data = r.data
<1>1. r.first \in Slot /\ r.last \in Slot /\ r.isfull \in BOOLEAN /\ r.data \in [Slot -> Nat]
  BY DEF Ring
<1>2. After(r.first) \in Slot
  BY <1>1, AfterType
<1>3. /\ Advanced(r) \in Ring /\ Advanced(r).first = After(r.first)
      /\ Advanced(r).last = r.last /\ Advanced(r).data = r.data
  BY <1>1, <1>2 DEF Advanced, Ring
<1>4. Advanced(r).isfull = r.isfull
  BY <1>1, <1>2 DEF Advanced, Ring
<1>5. /\ NotFull(r) \in Ring /\ NotFull(r).first = r.first /\ NotFull(r).last = r.last
      /\ NotFull(r).data = r.data
  BY <1>1 DEF NotFull, Ring
<1>6. ~NotFull(r).isfull
  BY <1>1 DEF NotFull, Ring
<1> QED BY <1>3, <1>4, <1>5, <1>6

\* What the fields of the ring are.
LEMMA Fields ==
    ASSUME TypeOK
    PROVE  /\ q.first \in Slot /\ q.last \in Slot /\ q.isfull \in BOOLEAN
           /\ q.data \in [Slot -> Nat]
           /\ arrived \in Nat /\ Start \in Slot /\ Remaining \in Nat
<1>1. /\ q.first \in Slot /\ q.last \in Slot /\ q.isfull \in BOOLEAN
      /\ q.data \in [Slot -> Nat] /\ arrived \in Nat
  BY KeyQueueAssumption DEF TypeOK, Ring
<1>2. Start \in Slot
  BY <1>1, AfterType DEF Start
<1>3. Remaining \in Nat
  BY <1>1, <1>2, SizeAssumption DEF Remaining, Distance, Slot
<1> QED BY <1>1, <1>2, <1>3

\* What stands in the ring follows from what stands in all places.
LEMMA LatestFromData ==
    ASSUME TypeOK, Lap, RingData, Remaining <= arrived
    PROVE  LatestInRing
<1> SUFFICES ASSUME NEW s \in Slot, Distance(Start, s) < Remaining
             PROVE  q.data[s] = arrived - Remaining + Distance(Start, s) + 1
  BY DEF LatestInRing
<1>1. /\ q.first \in Slot /\ q.last \in Slot /\ arrived \in Nat /\ Start \in Slot
      /\ Size \in Nat /\ Size > 1
  BY Fields, SizeAssumption
<1>2. /\ s < q.last => q.data[s] = arrived - q.last + s + 1
      /\ s >= q.last /\ arrived # q.last => q.data[s] = arrived - q.last + s + 1 - Size
  BY DEF RingData
<1>3. /\ q.first \in Nat /\ q.last \in Nat /\ Start \in Nat /\ s \in Nat /\ q.last < Size
      /\ Start < Size /\ s < Size /\ (arrived = q.last \/ arrived >= q.last + Size)
  BY <1>1 DEF Slot, Lap
<1>4. \/ Remaining = Distance(Start, q.last)
      \/ Remaining = Size /\ Start = q.last
  BY DEF Remaining, Start, EndsMeet
<1>5. CASE Start <= q.last /\ Remaining = q.last - Start
  <2>1. s < q.last /\ Distance(Start, s) = s - Start
    BY <1>1, <1>3, <1>5 DEF Distance
  <2> QED BY <1>1, <1>2, <1>3, <1>5, <2>1
<1>6. CASE Start >= q.last /\ Remaining = q.last - Start + Size
  <2>1. arrived # q.last
    BY <1>1, <1>3, <1>6
  <2>2. CASE s >= Start
    <3>1. Distance(Start, s) = s - Start
      BY <1>1, <1>3, <2>2 DEF Distance
    <3> QED BY <1>1, <1>2, <1>3, <1>6, <2>1, <2>2, <3>1
  <2>3. CASE s < Start
    <3>1. Distance(Start, s) = s - Start + Size
      BY <1>1, <1>3, <2>3 DEF Distance
    <3>2. s < q.last
      BY <1>1, <1>3, <1>6, <2>3, <3>1
    <3> QED BY <1>1, <1>2, <1>3, <1>6, <3>1, <3>2
  <2> QED BY <1>1, <1>3, <2>2, <2>3
<1> QED BY <1>1, <1>3, <1>4, <1>5, <1>6 DEF Distance

\* The numbers that are ordered.
LEMMA CodeNumbers ==
    ASSUME TypeOK
    PROVE  /\ got \in Nat
           /\ \A i \in 1 .. Len(handled) : handled[i] \in Nat
           /\ \A i \in 1 .. Len(buf) : buf[i] \in Nat
BY DEF TypeOK

\* A code that is older than the oldest of the ring stays so.
LEMMA StillBelow ==
    \A a, r, b, s, n \in Nat : a - r <= b - s /\ n <= a - r => n <= b - s
OBVIOUS

LEMMA InitInvariant == Init => IInv
<1> SUFFICES ASSUME Init PROVE IInv
  OBVIOUS
<1>1. /\ q.first = 0 /\ q.last = 0 /\ ~q.isfull /\ q.data = [i \in Slot |-> 0]
      /\ pc = "full" /\ got = 0 /\ buf = <<>> /\ arrived = 0 /\ taken = 0 /\ handled = <<>>
      /\ ~wasFull
  BY DEF Init, NewQueue, Slot
<1>2. q \in Ring
  BY NewQueueType DEF Init
<1>3. TypeOK
  <2>1. wasFull \in BOOLEAN
    BY DEF Init
  <2> QED BY <1>1, <1>2, <2>1, KeyQueueAssumption DEF TypeOK
<1>4. Remaining = 0
  BY <1>1 DEF Remaining, Distance, Start
<1>5. Lap /\ RingData /\ Flag /\ WholeUntilFull
  BY <1>1, <1>4, SizeAssumption DEF Lap, RingData, Flag, WholeUntilFull, Slot
<1>7. Fits
  BY <1>1 DEF Fits
<1>6. Ordered
  BY <1>1 DEF Ordered
<1> QED BY <1>1, <1>3, <1>4, <1>5, <1>6, <1>7 DEF IInv

-----------------------------------------------------------------------------
\* A code that arrives is one more in the ring, or the ring, which is full
\* then, looks empty after pop.  Either way no older one comes back.
LEMMA PressStep == IInv /\ Press => IInv'
<1> SUFFICES ASSUME IInv, Press PROVE IInv'
  OBVIOUS
<1>1. /\ q.first \in Slot /\ q.last \in Slot /\ q.data \in [Slot -> Nat]
      /\ arrived \in Nat /\ Start \in Slot /\ Remaining \in Nat
      /\ Size \in Nat /\ Size > 1 /\ Remaining <= arrived /\ taken \in Nat
      /\ After(q.last) \in Slot /\ After(q.last) # q.last
  BY Fields, SizeAssumption, AfterType DEF IInv, TypeOK
<1>2. q \in Ring /\ q' = Push(q, arrived + 1) /\ arrived + 1 \in Nat
  BY <1>1 DEF Press, IInv, TypeOK
<1>3. /\ q'.first = q.first /\ q'.last = After(q.last)
      /\ q'.isfull <=> After(q.last) = q.first
      /\ q'.data = [q.data EXCEPT ![q.last] = arrived + 1]
      /\ q' \in Ring
  BY <1>2, PushType
<1>4. /\ pc' = pc /\ got' = got /\ buf' = buf /\ taken' = taken /\ handled' = handled
      /\ arrived' = arrived + 1 /\ ~q.isfull
  BY DEF Press, Full
<1>5. /\ wasFull' \in BOOLEAN
      /\ ~wasFull' => ~wasFull /\ ~q'.isfull
  BY DEF Press, Full
<1>6. TypeOK'
  <2>1. arrived' \in 0 .. MaxKeys
    BY <1>1, <1>4, KeyQueueAssumption DEF Press, IInv, TypeOK
  <2> QED BY <1>3, <1>4, <1>5, <2>1 DEF IInv, TypeOK
<1>7. Lap'
  <2>1. Lap /\ Lap' = (arrived + 1 = After(q.last) \/ arrived + 1 >= After(q.last) + Size)
    BY <1>3, <1>4 DEF IInv, Lap
  <2>2. q.last \in Nat /\ q.last < Size
    BY <1>1 DEF Slot
  <2> QED BY <1>1, <2>1, <2>2 DEF Lap, After
<1>8. RingData'
  <2> SUFFICES ASSUME NEW s \in Slot
               PROVE  /\ s < q'.last => q'.data[s] = arrived' - q'.last + s + 1
                      /\ s >= q'.last /\ arrived' # q'.last =>
                            q'.data[s] = arrived' - q'.last + s + 1 - Size
    BY DEF RingData
  <2>1. /\ s < q.last => q.data[s] = arrived - q.last + s + 1
        /\ s >= q.last /\ arrived # q.last => q.data[s] = arrived - q.last + s + 1 - Size
    BY DEF IInv, RingData
  <2>2. q'.data[s] = IF s = q.last THEN arrived + 1 ELSE q.data[s]
    BY <1>1, <1>3
  <2>3. q.data[s] \in Nat /\ s \in Nat /\ s < Size /\ q.last \in Nat /\ q.last < Size
    BY <1>1 DEF Slot
  <2>4. CASE q.last + 1 = Size
    <3>1. q'.last = 0
      BY <1>3, <2>4 DEF After
    <3> QED BY <1>1, <1>4, <2>1, <2>2, <2>3, <2>4, <3>1
  <2>5. CASE q.last + 1 # Size
    <3>1. q'.last = q.last + 1
      BY <1>3, <2>5 DEF After
    <3> QED BY <1>1, <1>4, <2>1, <2>2, <2>3, <3>1
  <2> QED BY <2>4, <2>5
<1>9. Flag'
  <2>1. q'.isfull => EndsMeet(q')
    BY <1>3 DEF EndsMeet
  <2>2. pc' = "pop" => q'.isfull \/ ~EndsMeet(q')
    BY <1>3 DEF EndsMeet
  <2>3. ~wasFull' => ~q'.isfull
    BY <1>5
  <2>4. ~wasFull' => ~EndsMeet(q')
    BY <1>3, <1>5 DEF EndsMeet
  <2> QED BY <2>1, <2>2, <2>3, <2>4 DEF Flag
<1>10. /\ Remaining' \in Nat /\ Remaining' <= Remaining + 1
       /\ ~wasFull' => Remaining' = Remaining + 1
  <2>1. /\ q.first \in Nat /\ q.last \in Nat /\ Start \in Nat /\ q.first < Size /\ q.last < Size
        /\ Start < Size
    BY <1>1 DEF Slot
  <2>2. Start' = Start
    BY <1>3, <1>4 DEF Start
  <2>3. Remaining = Distance(Start, q.last)
    BY <1>4 DEF Remaining
  <2>4. \/ Remaining' = Distance(Start, After(q.last))
        \/ Remaining' = Size /\ q'.isfull /\ Start = q.first
    BY <1>3, <1>4, <2>2 DEF Remaining, Start
  <2>5. CASE Remaining' = Size /\ q'.isfull /\ Start = q.first
    <3>1. After(q.last) = q.first
      BY <1>3, <2>5
    <3>2. Remaining = Size - 1
      BY <1>1, <2>1, <2>3, <2>5, <3>1 DEF Distance, After
    <3> QED BY <1>1, <2>5, <3>2
  <2>6. CASE Remaining' = Distance(Start, After(q.last))
    <3>1. Remaining' \in Nat /\ Remaining' <= Remaining + 1
      BY <1>1, <2>1, <2>3, <2>6 DEF Distance, After
    <3>2. ASSUME ~wasFull'
          PROVE  After(q.last) # Start
      <4>1. After(q.last) # q.first
        BY <1>3, <1>5, <3>2
      <4>2. pc \in {"stores", "advance"} => q.first # q.last
        BY <1>5, <3>2 DEF IInv, Flag, EndsMeet
      <4>3. CASE pc \in {"stores", "advance"}
        BY <1>1, <2>1, <4>2, <4>3 DEF Start, After
      <4> QED BY <4>1, <4>3 DEF Start
    <3>3. After(q.last) # Start => Remaining' = Remaining + 1
      BY <1>1, <2>1, <2>3, <2>6 DEF Distance, After
    <3> QED BY <3>1, <3>2, <3>3
  <2> QED BY <2>4, <2>5, <2>6
<1>11. Remaining' <= arrived'
  BY <1>1, <1>4, <1>10
<1>12. WholeUntilFull'
  <2>1. ~wasFull' => arrived = taken + Remaining
    BY <1>5 DEF IInv, WholeUntilFull
  <2> QED BY <1>1, <1>4, <1>10, <2>1 DEF WholeUntilFull
<1>13. Ordered'
  <2>1. arrived \in Nat /\ Remaining \in Nat /\ arrived' \in Nat /\ Remaining' \in Nat
        /\ arrived - Remaining <= arrived' - Remaining'
    BY <1>1, <1>4, <1>10
  <2>2. ASSUME NEW n \in Nat, n <= arrived - Remaining
        PROVE  n <= arrived' - Remaining'
    BY <2>1, <2>2, StillBelow
  <2>3. /\ \A i \in 1 .. Len(handled) : handled[i] <= arrived' - Remaining'
        /\ \A i \in 1 .. Len(buf) : buf[i] <= arrived' - Remaining'
        /\ pc \in {"stores", "advance", "clear"} => got <= arrived' - Remaining'
    BY <2>2, CodeNumbers DEF IInv, Ordered
  <2> QED BY <1>4, <2>3 DEF IInv, Ordered
<1>14. Fits'
  BY <1>4 DEF IInv, Fits
<1> QED BY <1>6, <1>7, <1>8, <1>9, <1>11, <1>12, <1>13, <1>14 DEF IInv

-----------------------------------------------------------------------------
\* A step of the main task puts nothing into the ring.
LEMMA NothingPut ==
    ASSUME IInv, q' \in Ring, q'.data = q.data, q'.last = q.last, UNCHANGED <<arrived, wasFull>>
    PROVE  Lap' /\ RingData'
BY DEF IInv, Lap, RingData

\* A step that takes nothing out of it either.
LEMMA NothingTaken ==
    ASSUME IInv, Remaining' = Remaining, UNCHANGED <<arrived, taken, wasFull>>
    PROVE  Remaining' <= arrived' /\ WholeUntilFull'
BY DEF IInv, WholeUntilFull

\* The two looks at the ring, of which the second may come late.
LEMMA LookStep == IInv /\ (CheckFull \/ CheckEnds) => IInv'
<1> SUFFICES ASSUME IInv, CheckFull \/ CheckEnds PROVE IInv'
  OBVIOUS
<1>1. UNCHANGED <<q, got, buf, arrived, taken, handled, wasFull>>
  BY DEF CheckFull, CheckEnds
<1>2. /\ pc \in {"full", "ends"} /\ pc' \in {"pop", "ends", "handle"}
      /\ pc' = "pop" => Len(buf) < BufSize
      /\ pc' = "pop" => q.isfull \/ ~EndsMeet(q)
  <2>1. CASE CheckFull
    BY <2>1, Fields DEF CheckFull, Room, Full, IInv, TypeOK
  <2>2. CASE CheckEnds
    BY <2>2, Fields DEF CheckEnds, Room, IInv, TypeOK
  <2> QED BY <2>1, <2>2
<1>3. TypeOK'
  BY <1>1, <1>2 DEF IInv, TypeOK
<1>4. Remaining' = Remaining
  BY <1>1, <1>2 DEF Remaining, Start
<1>5. Flag'
  <2>1. /\ q.isfull => EndsMeet(q) \/ After(q.last) = q.first
        /\ ~wasFull => ~q.isfull
    BY <1>2 DEF IInv, Flag
  <2> QED BY <1>1, <1>2, <2>1 DEF Flag
<1>6. Fits'
  BY <1>1, <1>2 DEF Fits
<1>7. Ordered'
  BY <1>1, <1>2, <1>4 DEF IInv, Ordered
<1>8. q \in Ring
  BY DEF IInv, TypeOK
<1> QED BY <1>1, <1>3, <1>4, <1>5, <1>6, <1>7, <1>8, NothingPut, NothingTaken DEF IInv

\* pop takes the oldest code of the ring.
LEMMA PopStep == IInv /\ Pop => IInv'
<1> SUFFICES ASSUME IInv, Pop PROVE IInv'
  OBVIOUS
<1>1. /\ q.first \in Slot /\ q.last \in Slot /\ q.data \in [Slot -> Nat] /\ q \in Ring
      /\ arrived \in Nat /\ Remaining \in Nat /\ taken \in Nat
      /\ Size \in Nat /\ Size > 1 /\ Remaining <= arrived
  BY Fields, SizeAssumption DEF IInv, TypeOK
<1>2. /\ q.first \in Nat /\ q.last \in Nat /\ q.first < Size /\ q.last < Size
  BY <1>1 DEF Slot
<1>3. /\ pc = "pop" /\ pc' = "stores" /\ got' = q.data[q.first] /\ taken' = taken + 1
      /\ UNCHANGED <<q, buf, arrived, handled, wasFull>>
  BY DEF Pop
<1>4. TypeOK'
  BY <1>1, <1>3 DEF IInv, TypeOK
<1>5. Start = q.first /\ Start' = After(q.first)
  BY <1>3 DEF Start
<1>6. Remaining > 0 /\ Remaining' = Remaining - 1
  <2>1. Remaining' = Distance(After(q.first), q.last)
    BY <1>3, <1>5 DEF Remaining
  <2>2. CASE q.isfull /\ EndsMeet(q)
    <3>1. Remaining = Size /\ q.first = q.last
      BY <1>3, <2>2 DEF Remaining, EndsMeet
    <3> QED BY <1>1, <1>2, <2>1, <3>1 DEF Distance, After
  <2>3. CASE ~(q.isfull /\ EndsMeet(q))
    <3>1. Remaining = Distance(q.first, q.last)
      BY <1>5, <2>3 DEF Remaining
    <3>2. q.first # q.last
      BY <1>3, <2>3 DEF IInv, Flag, EndsMeet
    <3> QED BY <1>1, <1>2, <2>1, <3>1, <3>2 DEF Distance, After
  <2> QED BY <2>2, <2>3
<1>7. got' = arrived - Remaining + 1
  <2>1. LatestInRing
    BY LatestFromData DEF IInv
  <2>2. Distance(Start, q.first) = 0
    BY <1>2, <1>5 DEF Distance
  <2>3. q.data[q.first] = arrived - Remaining + Distance(Start, q.first) + 1
    BY <1>1, <1>6, <2>1, <2>2 DEF LatestInRing
  <2> QED BY <1>1, <1>3, <2>2, <2>3
<1>8. Flag'
  <2>1. /\ q.isfull => EndsMeet(q) \/ After(q.last) = q.first
        /\ ~wasFull => ~q.isfull /\ ~EndsMeet(q)
    BY <1>3 DEF IInv, Flag
  <2> QED BY <1>3, <2>1 DEF Flag
<1>9. Fits'
  BY <1>3 DEF IInv, Fits
<1>10. Remaining' <= arrived' /\ arrived' - Remaining' = arrived - Remaining + 1
  BY <1>1, <1>3, <1>6
<1>11. WholeUntilFull'
  <2>1. ~wasFull => arrived = taken + Remaining
    BY DEF IInv, WholeUntilFull
  <2> QED BY <1>1, <1>3, <1>6, <2>1 DEF WholeUntilFull
<1>12. Ordered'
  <2> DEFINE x == arrived - Remaining
  <2>1. x \in Int /\ got' = x + 1 /\ arrived' - Remaining' = x + 1
    BY <1>1, <1>7, <1>10
  <2>2. /\ \A i \in 1 .. Len(handled) : handled[i] \in Nat /\ handled[i] <= x
        /\ \A i \in 1 .. Len(buf) : buf[i] \in Nat /\ buf[i] <= x
    BY CodeNumbers DEF IInv, Ordered
  <2> HIDE DEF x
  <2>3. /\ \A i \in 1 .. Len(handled) : handled[i] <= x + 1 /\ handled[i] < x + 1
        /\ \A i \in 1 .. Len(buf) : buf[i] <= x + 1 /\ buf[i] < x + 1
    BY <2>1, <2>2
  <2>4. got' <= arrived' - Remaining'
    BY <2>1
  <2>5. /\ \A i, j \in 1 .. Len(handled) : i < j => handled[i] < handled[j]
        /\ \A i, j \in 1 .. Len(buf) : i < j => buf[i] < buf[j]
        /\ \A i \in 1 .. Len(handled), j \in 1 .. Len(buf) : handled[i] < buf[j]
    BY DEF IInv, Ordered
  <2> QED BY <1>3, <2>1, <2>3, <2>4, <2>5 DEF Ordered
<1> QED BY <1>1, <1>3, <1>4, <1>8, <1>9, <1>10, <1>11, <1>12, NothingPut DEF IInv

\* Its first store, whichever it is, leaves what remains.
LEMMA PopStoreStep == IInv /\ PopStore => IInv'
<1> SUFFICES ASSUME IInv, PopStore PROVE IInv'
  OBVIOUS
<1>1. /\ pc = "stores" /\ UNCHANGED <<got, buf, arrived, taken, handled, wasFull>>
      /\ q \in Ring
  BY DEF PopStore, IInv, TypeOK
<1>2. /\ q.isfull => EndsMeet(q) \/ After(q.last) = q.first
      /\ ~wasFull => ~q.isfull /\ ~EndsMeet(q)
  BY <1>1 DEF IInv, Flag
<1>3. /\ q' \in Ring /\ q'.data = q.data /\ q'.last = q.last
      /\ pc' \in {"advance", "clear"}
      /\ Start' = Start
      /\ Flag'
  <2>1. CASE q' = NotFull(q) /\ pc' = "advance"
    <3>1. /\ q' \in Ring /\ q'.data = q.data /\ q'.last = q.last /\ q'.first = q.first
          /\ ~q'.isfull
      BY <1>1, <2>1, PopType
    <3>2. Start' = Start
      BY <1>1, <2>1, <3>1 DEF Start
    <3>3. EndsMeet(q') <=> EndsMeet(q)
      BY <3>1 DEF EndsMeet
    <3> QED BY <1>1, <1>2, <2>1, <3>1, <3>2, <3>3 DEF Flag
  <2>2. CASE q' = Advanced(q) /\ pc' = "clear"
    <3>1. /\ q' \in Ring /\ q'.data = q.data /\ q'.last = q.last
          /\ q'.first = After(q.first) /\ (q'.isfull <=> q.isfull)
      BY <1>1, <2>2, PopType
    <3>2. Start' = Start
      BY <1>1, <2>2, <3>1 DEF Start
    <3> QED BY <1>1, <1>2, <2>2, <3>1, <3>2 DEF Flag
  <2> QED BY <2>1, <2>2 DEF PopStore
<1>4. TypeOK'
  BY <1>1, <1>3 DEF IInv, TypeOK
<1>5. Remaining' = Remaining
  BY <1>1, <1>3 DEF Remaining
<1>6. Fits'
  BY <1>1, <1>3 DEF IInv, Fits
<1>7. Ordered'
  BY <1>1, <1>3, <1>5 DEF IInv, Ordered
<1> QED BY <1>1, <1>3, <1>4, <1>5, <1>6, <1>7, NothingPut, NothingTaken DEF IInv

\* A code put behind older ones keeps them in order.
LEMMA AppendOrdered ==
    ASSUME NEW s \in Seq(Nat), NEW e \in Nat,
           \A i, j \in 1 .. Len(s) : i < j => s[i] < s[j],
           \A i \in 1 .. Len(s) : s[i] < e
    PROVE  /\ Append(s, e) \in Seq(Nat) /\ Len(Append(s, e)) = Len(s) + 1
           /\ \A i, j \in 1 .. Len(Append(s, e)) : i < j => Append(s, e)[i] < Append(s, e)[j]
           /\ \A i \in 1 .. Len(Append(s, e)) :
                 Append(s, e)[i] = e \/ \E j \in 1 .. Len(s) : Append(s, e)[i] = s[j]
<1>1. Append(s, e) \in Seq(Nat) /\ Len(Append(s, e)) = Len(s) + 1 /\ Len(s) \in Nat
  OBVIOUS
<1>2. \A i \in 1 .. Len(s) : Append(s, e)[i] = s[i] /\ s[i] \in Nat
  OBVIOUS
<1>3. Append(s, e)[Len(s) + 1] = e
  OBVIOUS
<1>4. \A i \in 1 .. Len(s) + 1 : i \in 1 .. Len(s) \/ i = Len(s) + 1
  BY <1>1
<1>5. ASSUME NEW i \in 1 .. Len(s) + 1, NEW j \in 1 .. Len(s) + 1, i < j
      PROVE  Append(s, e)[i] < Append(s, e)[j]
  <2>1. i \in 1 .. Len(s)
    BY <1>1, <1>5
  <2> QED BY <1>1, <1>2, <1>3, <1>4, <1>5, <2>1
<1> QED BY <1>1, <1>2, <1>3, <1>4, <1>5

\* Its second store does too: isfull, if it is set with the first store
\* behind it, comes from a push in between and is cleared.
LEMMA PopReturnStep == IInv /\ PopReturn => IInv'
<1> SUFFICES ASSUME IInv, PopReturn PROVE IInv'
  OBVIOUS
<1>1. /\ pc \in {"advance", "clear"} /\ pc' = "full" /\ buf' = Append(buf, got) /\ got' = 0
      /\ UNCHANGED <<arrived, taken, handled, wasFull>>
      /\ q \in Ring /\ q.first \in Slot /\ q.last \in Slot
  BY Fields DEF PopReturn, IInv, TypeOK
<1>2. /\ got \in Nat /\ buf \in Seq(Nat) /\ Len(buf) < BufSize /\ BufSize \in Nat
      /\ \A i, j \in 1 .. Len(buf) : i < j => buf[i] < buf[j]
      /\ \A i \in 1 .. Len(buf) : buf[i] < got
  BY <1>1, KeyQueueAssumption DEF IInv, TypeOK, Fits, Ordered
<1>3. /\ q' \in Ring /\ q'.data = q.data /\ q'.last = q.last
      /\ Start' = Start /\ Remaining' = Remaining
      /\ Flag'
  <2>1. CASE pc = "advance"
    <3>1. /\ q' \in Ring /\ q'.data = q.data /\ q'.last = q.last
          /\ q'.first = After(q.first) /\ (q'.isfull <=> q.isfull)
      BY <1>1, <2>1, PopType DEF PopReturn
    <3>2. Start' = Start
      BY <1>1, <2>1, <3>1 DEF Start
    <3>3. /\ q.isfull => q.first = q.last
          /\ ~wasFull => ~q.isfull
      BY <2>1 DEF IInv, Flag, EndsMeet
    <3>4. After(q.first) # q.first
      BY <1>1, AfterType
    <3>5. q'.isfull => After(q'.last) = q'.first /\ ~EndsMeet(q')
      BY <3>1, <3>3, <3>4 DEF EndsMeet
    <3>6. Remaining' = Remaining
      BY <1>1, <2>1, <3>1, <3>2, <3>5 DEF Remaining
    <3> QED BY <1>1, <3>1, <3>2, <3>3, <3>5, <3>6 DEF Flag
  <2>2. CASE pc = "clear"
    <3>1. /\ q' \in Ring /\ q'.data = q.data /\ q'.last = q.last
          /\ q'.first = q.first /\ ~q'.isfull
      BY <1>1, <2>2, PopType DEF PopReturn
    <3>2. Start' = Start
      BY <1>1, <2>2, <3>1 DEF Start
    <3>3. Remaining' = Remaining
      BY <1>1, <2>2, <3>1, <3>2 DEF Remaining
    <3> QED BY <1>1, <3>1, <3>2, <3>3 DEF Flag
  <2> QED BY <1>1, <2>1, <2>2
<1>4. /\ buf' \in Seq(Nat) /\ Len(buf') = Len(buf) + 1
      /\ \A i, j \in 1 .. Len(buf') : i < j => buf'[i] < buf'[j]
      /\ \A i \in 1 .. Len(buf') : buf'[i] = got \/ \E j \in 1 .. Len(buf) : buf'[i] = buf[j]
  BY <1>1, <1>2, AppendOrdered
<1>5. TypeOK'
  <2>1. Len(buf') <= BufSize
    BY <1>2, <1>4
  <2> QED BY <1>1, <1>3, <1>4, <2>1 DEF IInv, TypeOK
<1>6. Fits'
  BY <1>1 DEF Fits
<1>7. Ordered'
  <2>1. /\ got <= arrived - Remaining
        /\ \A i \in 1 .. Len(buf) : buf[i] <= arrived - Remaining
        /\ \A i \in 1 .. Len(handled) : handled[i] < got
        /\ \A i \in 1 .. Len(handled), j \in 1 .. Len(buf) : handled[i] < buf[j]
    BY <1>1 DEF IInv, Ordered
  <2>2. \A i \in 1 .. Len(buf') : buf'[i] <= arrived - Remaining
    BY <1>4, <2>1
  <2>3. \A i \in 1 .. Len(handled), j \in 1 .. Len(buf') : handled[i] < buf'[j]
    BY <1>4, <2>1
  <2>4. /\ \A i, j \in 1 .. Len(handled) : i < j => handled[i] < handled[j]
        /\ \A i \in 1 .. Len(handled) : handled[i] <= arrived - Remaining
    BY DEF IInv, Ordered
  <2> QED BY <1>1, <1>3, <1>4, <2>2, <2>3, <2>4 DEF Ordered
<1> QED BY <1>1, <1>3, <1>5, <1>6, <1>7, NothingPut, NothingTaken DEF IInv

\* loop looks at one code of the buffer, which is newer than those before.
LEMMA HandleStep == IInv /\ Handle => IInv'
<1> SUFFICES ASSUME IInv, Handle PROVE IInv'
  OBVIOUS
<1>1. /\ pc = "handle" /\ pc' = "full" /\ buf' = <<>>
      /\ handled' = IF buf = <<>> THEN handled ELSE Append(handled, buf[1])
      /\ UNCHANGED <<q, got, arrived, taken, wasFull>>
      /\ q \in Ring /\ handled \in Seq(Nat) /\ buf \in Seq(Nat)
  BY DEF Handle, IInv, TypeOK
<1>2. Start' = Start /\ Remaining' = Remaining
  BY <1>1 DEF Remaining, Start
<1>3. Flag'
  <2>1. /\ q.isfull => EndsMeet(q) \/ After(q.last) = q.first
        /\ ~wasFull => ~q.isfull
    BY <1>1 DEF IInv, Flag
  <2> QED BY <1>1, <2>1 DEF Flag
<1>4. Fits'
  BY <1>1 DEF Fits
<1>5. /\ \A i, j \in 1 .. Len(handled) : i < j => handled[i] < handled[j]
      /\ \A i \in 1 .. Len(handled) : handled[i] <= arrived - Remaining
      /\ \A i \in 1 .. Len(handled), j \in 1 .. Len(buf) : handled[i] < buf[j]
      /\ \A i \in 1 .. Len(buf) : buf[i] <= arrived - Remaining
  BY DEF IInv, Ordered
<1>6. /\ handled' \in Seq(Nat)
      /\ \A i, j \in 1 .. Len(handled') : i < j => handled'[i] < handled'[j]
      /\ \A i \in 1 .. Len(handled') : handled'[i] <= arrived - Remaining
  <2>1. CASE buf = <<>>
    BY <1>1, <1>5, <2>1
  <2>2. CASE buf # <<>>
    <3>1. 1 \in 1 .. Len(buf) /\ buf[1] \in Nat
      BY <1>1, <2>2
    <3>2. buf[1] <= arrived - Remaining /\ \A i \in 1 .. Len(handled) : handled[i] < buf[1]
      BY <1>5, <3>1
    <3>3. handled' = Append(handled, buf[1])
      BY <1>1, <2>2
    <3>4. /\ handled' \in Seq(Nat)
          /\ \A i, j \in 1 .. Len(handled') : i < j => handled'[i] < handled'[j]
          /\ \A i \in 1 .. Len(handled') :
                handled'[i] = buf[1] \/ \E j \in 1 .. Len(handled) : handled'[i] = handled[j]
      BY <1>1, <1>5, <3>1, <3>2, <3>3, AppendOrdered
    <3> QED BY <1>5, <3>2, <3>4
  <2> QED BY <2>1, <2>2
<1>7. TypeOK'
  <2>1. <<>> \in Seq(Nat) /\ Len(<<>>) <= BufSize
    BY KeyQueueAssumption
  <2> QED BY <1>1, <1>6, <2>1 DEF IInv, TypeOK
<1>8. Ordered'
  <2>1. 1 .. Len(buf') = {} /\ pc' \notin {"stores", "advance", "clear"}
    BY <1>1
  <2>2. arrived' - Remaining' = arrived - Remaining
    BY <1>1, <1>2
  <2> QED BY ONLY <1>6, <2>1, <2>2 DEF Ordered
<1> QED BY <1>1, <1>2, <1>3, <1>4, <1>7, <1>8, NothingPut, NothingTaken DEF IInv

LEMMA StutterStep == IInv /\ UNCHANGED vars => IInv'
BY DEF IInv, TypeOK, Lap, RingData, Flag, Fits, WholeUntilFull, Ordered, Remaining, Start, vars

-----------------------------------------------------------------------------
\* The inductive invariant holds in every reachable state.
THEOREM KeyQueueInvariant == Spec => []IInv
<1>1. IInv /\ [Next]_vars => IInv'
  BY PressStep, LookStep, PopStep, PopStoreStep, PopReturnStep, HandleStep, StutterStep
     DEF Next, Reading
<1> QED BY InitInvariant, <1>1, PTL DEF Spec

\* The codes in the ring are the last that arrived, in order (CircularQueue's
\* push and pop, with the interrupt anywhere between the stores of pop).
THEOREM KeyQueueLatestInRing == Spec => []LatestInRing
<1>1. IInv => LatestInRing
  BY LatestFromData DEF IInv
<1> QED BY KeyQueueInvariant, <1>1, PTL

\* loop sees codes in the order of their arrival, each at most once
\* (Keyboard::read and loop against the interrupt handler).
THEOREM KeyQueueHandledInOrder == Spec => []HandledInOrder
<1>1. IInv => HandledInOrder
  <2> SUFFICES ASSUME IInv, NEW i \in 1 .. Len(handled) - 1
               PROVE  handled[i] < handled[i + 1]
    BY DEF HandledInOrder
  <2>1. Len(handled) \in Nat
    BY DEF IInv, TypeOK
  <2>2. i \in 1 .. Len(handled) /\ i + 1 \in 1 .. Len(handled) /\ i < i + 1
    BY <2>1
  <2> QED BY <2>2 DEF IInv, Ordered
<1> QED BY KeyQueueInvariant, <1>1, PTL

\* A ring that has never been full has lost nothing (the loss needs a push
\* on a full ring between the two stores of pop).
THEOREM KeyQueueWholeUntilFull == Spec => []WholeUntilFull
<1>1. IInv => WholeUntilFull
  BY DEF IInv
<1> QED BY KeyQueueInvariant, <1>1, PTL

-----------------------------------------------------------------------------
(* Keyboard, with the devices in every detail. *)

LEMMA Rounds == Len(Dialogue) = 10 /\ Dialogue[2] = "configure" /\ Dialogue[7] = "configure"
BY DEF Dialogue

LEMMA FieldOf == \A a, b : [interrupt |-> a, rest |-> b].interrupt = a
OBVIOUS

LEMMA InitStuckInv == KeyboardInit => StuckInv
BY DEF KeyboardInit, StuckInv, Requested, InterruptEnabled

\* Reading the port leaves no byte behind.
LEMMA ReadKeeps ==
    ASSUME StuckInv, ReadPort
    PROVE  Requested' /\ conf' = conf
BY DEF ReadPort, Requested, StuckInv

\* A round that ends after a read goes on to the next one.
LEMMA ContinueKeeps ==
    ASSUME StuckInv, ipc \in {"read", "second"}, NEW ok, Continue(ok), conf' = conf
    PROVE  InterruptEnabled'
<1>1. /\ round \in 1 .. 10 /\ round \notin {2, 7}
      /\ round > 7 => conf.interrupt
  BY DEF StuckInv, InterruptEnabled
<1>2. /\ ipc' = IF ~ok THEN "off" ELSE IF round = 10 THEN "register" ELSE "send"
      /\ round' = IF ok /\ round < 10 THEN round + 1 ELSE round
  BY Rounds DEF Continue
<1> QED BY <1>1, <1>2 DEF InterruptEnabled

LEMMA SendKeeps == StuckInv /\ Send => StuckInv'
<1> SUFFICES ASSUME StuckInv, Send PROVE StuckInv'
  OBVIOUS
<1>1. /\ round \in 1 .. 10
      /\ round > 7 => conf.interrupt
      /\ ipc = "send" /\ full' = full /\ missed' = missed
  BY DEF StuckInv, InterruptEnabled, Send, Main
<1>2. CASE Command = "configure"
  <2>1. /\ conf' = Configured /\ round' = round + 1 /\ ipc' = ipc
        /\ irr' = (irr \/ (full /\ conf'.interrupt /\ ~conf.interrupt))
    BY <1>2 DEF Send
  <2>2. conf'.interrupt = (round # 2)
    BY <2>1, FieldOf, Zenon DEF Configured
  <2>3. round # 10
    BY <1>2 DEF Command, Dialogue
  <2>4. Requested'
    BY <1>1, <2>1 DEF Requested, StuckInv
  <2>5. InterruptEnabled'
    <3>1. round' \in 1 .. 10 /\ ipc' = "send" /\ (round' > 7 => round # 2)
      BY <1>1, <2>1, <2>3
    <3>2. round' > 7 => conf'.interrupt
      BY <2>2, <3>1
    <3> QED BY <3>1, <3>2 DEF InterruptEnabled
  <2> QED BY <2>4, <2>5 DEF StuckInv
<1>3. CASE Command # "configure"
  <2>1. round \notin {2, 7}
    BY <1>3, Rounds DEF Command
  <2>2. ipc' = "read" /\ conf' = conf /\ irr' = irr /\ round' = round
    BY <1>3 DEF Send
  <2> QED BY <1>1, <2>1, <2>2 DEF StuckInv, Requested, InterruptEnabled
<1> QED BY <1>2, <1>3

LEMMA ReceiveKeeps == StuckInv /\ Receive => StuckInv'
<1> SUFFICES ASSUME StuckInv, Receive PROVE StuckInv'
  OBVIOUS
<1>1. Requested' /\ conf' = conf /\ ipc = "read"
  BY ReadKeeps DEF Receive, Main
<1>2. CASE Command = "reset"
  <2>1. ipc' = "second" /\ round' = round
    BY <1>2 DEF Receive
  <2> QED BY <1>1, <2>1 DEF StuckInv, InterruptEnabled
<1>3. CASE Command # "reset"
  <2>1. Continue(Accepts(Command, data))
    BY <1>3 DEF Receive
  <2> QED BY <1>1, <2>1, ContinueKeeps DEF StuckInv
<1> QED BY <1>2, <1>3

LEMMA ReceiveSecondKeeps == StuckInv /\ ReceiveSecond => StuckInv'
<1> SUFFICES ASSUME StuckInv, ReceiveSecond PROVE StuckInv'
  OBVIOUS
<1>1. ipc = "second"
  BY DEF ReceiveSecond, Main
<1>2. CASE full
  <2>1. Requested' /\ conf' = conf /\ Continue(held.kind = "AA" \/ data.kind = "AA")
    BY <1>2, ReadKeeps DEF ReceiveSecond
  <2> QED BY <1>1, <2>1, ContinueKeeps DEF StuckInv
<1>3. CASE ~full
  <2>1. Continue(held.kind = "AA") /\ UNCHANGED port /\ missed' = missed
    BY <1>3 DEF ReceiveSecond
  <2>2. Requested' /\ conf' = conf
    BY <2>1 DEF StuckInv, Requested, port
  <2> QED BY <1>1, <2>1, <2>2, ContinueKeeps DEF StuckInv
<1> QED BY <1>2, <1>3

\* An interrupt reads the byte, or it is one that was handled in vain.
LEMMA HandlerKeeps == StuckInv /\ Handler => StuckInv'
<1> SUFFICES ASSUME StuckInv, Handler PROVE StuckInv'
  OBVIOUS
<1>1. UNCHANGED <<conf, round, ipc>>
  BY DEF Handler, Interrupt, TopHalf, SendLED, AwaitLED, ReadPort, activation
<1>2. Requested'
  <2>1. CASE Interrupt
    BY <2>1 DEF Interrupt, TopHalf, Requested
  <2>2. CASE SendLED
    BY <2>2 DEF SendLED, Requested, StuckInv, hist
  <2>3. CASE AwaitLED
    BY <2>3, ReadKeeps DEF AwaitLED
  <2> QED BY <2>1, <2>2, <2>3 DEF Handler
<1> QED BY <1>1, <1>2 DEF StuckInv, InterruptEnabled

\* The steps that leave the port alone, or only let a byte in.
LEMMA OtherKeeps ==
    /\ StuckInv /\ Device => StuckInv'
    /\ StuckInv /\ (NotSupported \/ Disable \/ Flush \/ Flushed \/ Register \/ Read) => StuckInv'
    /\ StuckInv /\ UNCHANGED keyboardVars => StuckInv'
<1>1. StuckInv /\ Device => StuckInv'
  <2>1. ASSUME StuckInv, Deliver PROVE StuckInv'
    <3>1. UNCHANGED <<conf, round, ipc, missed>> /\ (irr' <=> irr \/ conf.interrupt)
      BY <2>1 DEF Deliver, activation, hist
    <3> QED BY <2>1, <3>1 DEF StuckInv, Requested, InterruptEnabled
  <2>2. ASSUME StuckInv, PressKey PROVE StuckInv'
    BY <2>2 DEF PressKey, StuckInv, Requested, InterruptEnabled, activation
  <2> QED BY <2>1, <2>2 DEF Device
<1>2. ASSUME StuckInv, NotSupported \/ Disable \/ Flushed \/ Register \/ Read
      PROVE  StuckInv'
  BY <1>2, Rounds DEF NotSupported, Disable, Flushed, Register, Read, Main, StuckInv, Requested,
     InterruptEnabled, port, activation, hist
<1>3. ASSUME StuckInv, Flush PROVE StuckInv'
  BY <1>3, ReadKeeps DEF Flush, StuckInv, InterruptEnabled, activation
<1>4. ASSUME StuckInv, UNCHANGED keyboardVars PROVE StuckInv'
  BY <1>4 DEF keyboardVars, StuckInv, Requested, InterruptEnabled, port, activation, hist
<1> QED BY <1>1, <1>2, <1>3, <1>4

\* In every reachable state a byte in the controller has its request.
THEOREM KeyboardInvariant == KeyboardSpec => []StuckInv
<1>1. StuckInv /\ [KeyboardNext]_keyboardVars => StuckInv'
  <2> SUFFICES ASSUME StuckInv, [KeyboardNext]_keyboardVars PROVE StuckInv'
    OBVIOUS
  <2>1. CASE Device \/ NotSupported \/ Disable \/ Flush \/ Flushed \/ Register \/ Read
    BY <2>1, OtherKeeps
  <2>2. CASE Send \/ Receive \/ ReceiveSecond
    BY <2>2, SendKeeps, ReceiveKeeps, ReceiveSecondKeeps
  <2>3. CASE Handler
    BY <2>3, HandlerKeeps
  <2>4. CASE ReadNothing \/ UNCHANGED keyboardVars
    BY <2>4, OtherKeeps DEF ReadNothing
  <2> QED BY <2>1, <2>2, <2>3, <2>4 DEF KeyboardNext, Driver
<1> QED BY InitStuckInv, <1>1, PTL DEF KeyboardSpec

\* Only an interrupt that found no handler or a full ring leaves a byte in
\* the controller for good (topHalf, and initialize, which registers the
\* handler after activate has let interrupts in).
THEOREM KeyboardStuckOnlyIfMissed == KeyboardSpec => []StuckOnlyIfMissed
<1>1. StuckInv => StuckOnlyIfMissed
  BY DEF StuckInv, Requested, InterruptEnabled, StuckOnlyIfMissed
<1> QED BY KeyboardInvariant, <1>1, PTL
-----------------------------------------------------------------------------
(* The keyboard's bytes and what they answer. *)

LEMMA DialogueIs ==
    /\ Len(Dialogue) = 10 /\ DOMAIN Dialogue = 1 .. 10
    /\ Dialogue[1] = "readConfig" /\ Dialogue[2] = "configure" /\ Dialogue[3] = "testController"
    /\ Dialogue[4] = "testPort" /\ Dialogue[5] = "enable" /\ Dialogue[6] = "readConfig"
    /\ Dialogue[7] = "configure" /\ Dialogue[8] = "reset" /\ Dialogue[9] = "scanSet"
    /\ Dialogue[10] = "setOne"
BY DEF Dialogue

LEMMA ReplyIs ==
    \A k : Reply(k).kind = k /\ Reply(k).n = 0
BY DEF Reply

LEMMA RepliesAreBytes ==
    /\ \A k \in {"55", "00", "FA", "FE", "AA", "FC", "config"} : Reply(k) \in Bytes
    /\ None \in Bytes
BY DEF Bytes, Replies

\* Only the kinds of keys tell keys.
LEMMA KeyKindsAre ==
    \A b \in Bytes : (IsKey(b) <=> b.kind \in KeyKinds) /\ (IsKey(b) => b.n \in 1 .. MaxPresses)
<1> SUFFICES ASSUME NEW b \in Bytes
             PROVE  (IsKey(b) <=> b.kind \in KeyKinds) /\ (IsKey(b) => b.n \in 1 .. MaxPresses)
  OBVIOUS
<1>1. CASE b \in Keys
  <2>1. b.kind \in KeyKinds /\ b.n \in 1 .. MaxPresses
    BY <1>1 DEF Keys, KeyKinds
  <2>2. b.n # 0
    BY <2>1, KeyboardAssumption
  <2> QED BY <2>1, <2>2 DEF IsKey
<1>2. CASE b \in Replies \union {None}
  <2>1. PICK k \in {"55", "00", "FA", "FE", "AA", "FC", "config", "none"} : b = Reply(k)
    BY <1>2 DEF Replies, None
  <2>2. b.n = 0 /\ b.kind = k
    BY <2>1, ReplyIs
  <2> QED BY <2>1, <2>2 DEF IsKey, KeyKinds
<1> QED BY <1>1, <1>2 DEF Bytes

\* What every command is answered with, and which answers count as good.
LEMMA AnswersAre ==
    ASSUME NEW c, NEW a \in Answers(c)
    PROVE  /\ a \in Seq(Bytes)
           /\ c = "readConfig" => Len(a) = 1 /\ a[1].kind = "config"
           /\ c = "testController" =>
                 Len(a) = 1 /\ a[1].kind \in {"55", "FC"} /\ (a[1].kind = "55" => a \in Good(c))
           /\ c = "testPort" =>
                 Len(a) = 1 /\ a[1].kind \in {"00", "FC"} /\ (a[1].kind = "00" => a \in Good(c))
           /\ c = "reset" =>
                 /\ Len(a) = 2 /\ a[1].kind = "FA" /\ a[2].kind \in {"AA", "FC"}
                 /\ a[2].kind = "AA" => a \in Good(c)
           /\ c = "configure" => a = <<>>
           /\ c \notin {"readConfig", "testController", "testPort", "reset", "configure"} =>
                 Len(a) = 1 /\ a[1].kind \in {"FA", "FE"} /\ (a[1].kind = "FA" => a \in Good(c))
<1>0. \A k : k \in {"55", "00", "FA", "FE", "AA", "FC", "config"} =>
          <<Reply(k)>> \in Seq(Bytes) /\ Len(<<Reply(k)>>) = 1 /\ <<Reply(k)>>[1].kind = k
  BY ReplyIs, RepliesAreBytes
<1>1. CASE c = "readConfig"
  <2>1. a = <<Reply("config")>>
    BY <1>1 DEF Answers
  <2> QED BY <1>0, <1>1, <2>1
<1>2. CASE c = "testController"
  <2>1. a = <<Reply("55")>> \/ a = <<Reply("FC")>>
    BY <1>2 DEF Answers
  <2> QED BY <1>0, <1>2, <2>1 DEF Good
<1>3. CASE c = "testPort"
  <2>1. a = <<Reply("00")>> \/ a = <<Reply("FC")>>
    BY <1>3 DEF Answers
  <2> QED BY <1>0, <1>3, <2>1 DEF Good
<1>4. CASE c = "reset"
  <2>1. a = <<Reply("FA"), Reply("AA")>> \/ a = <<Reply("FA"), Reply("FC")>>
    BY <1>4 DEF Answers
  <2>2. a \in Seq(Bytes) /\ Len(a) = 2 /\ a[1] = Reply("FA") /\ a[2] \in {Reply("AA"), Reply("FC")}
    <3>1. PICK f \in Bytes, r \in Bytes :
              f = Reply("FA") /\ r \in {Reply("AA"), Reply("FC")} /\ a = <<f, r>>
      BY <2>1, RepliesAreBytes
    <3>2. <<f, r>> \in Seq(Bytes) /\ Len(<<f, r>>) = 2 /\ <<f, r>>[1] = f /\ <<f, r>>[2] = r
      OBVIOUS
    <3> QED BY <3>1, <3>2
  <2>3. a[2] = Reply("AA") => a \in Good(c)
    <3>1. Reply("AA") # Reply("FC")
      BY ReplyIs
    <3>2. a[2] = Reply("AA") => a = <<Reply("FA"), Reply("AA")>>
      BY <2>1, <3>1
    <3> QED BY <3>2 DEF Good
  <2>4. a[1].kind = "FA" /\ a[2].kind \in {"AA", "FC"} /\ (a[2].kind = "AA" => a[2] = Reply("AA"))
    BY <2>2, ReplyIs
  <2> QED BY <1>4, <2>2, <2>3, <2>4
<1>5. CASE c = "configure"
  <2>1. a = <<>>
    BY <1>5 DEF Answers
  <2> QED BY <1>5, <2>1
<1>6. CASE c \notin {"readConfig", "testController", "testPort", "reset", "configure"}
  <2>1. a = <<Reply("FA")>> \/ a = <<Reply("FE")>>
    BY <1>6 DEF Answers
  <2> QED BY <1>0, <1>6, <2>1 DEF Good
<1> QED BY <1>1, <1>2, <1>3, <1>4, <1>5, <1>6

\* The bytes that are still to be read, and what a read, a delivery and an
\* answer make of them.
LEMMA UnreadIs ==
    ASSUME KeyboardTypeOK
    PROVE  /\ Unread \in Seq(Bytes) /\ Len(Unread) \in Nat /\ DOMAIN Unread = 1 .. Len(Unread)
           /\ \A i \in DOMAIN Unread : Unread[i] \in Bytes
           /\ ~full => Unread = pend
           /\ full => Len(Unread) = Len(pend) + 1 /\ Unread[1] = data /\ Len(Unread) >= 1
           /\ full => \A i \in 1 .. Len(pend) : Unread[i + 1] = pend[i]
<1>1. full \in BOOLEAN /\ data \in Bytes /\ pend \in Seq(Bytes)
  BY DEF KeyboardTypeOK
<1>2. CASE full
  <2>1. Unread = <<data>> \o pend
    BY <1>2 DEF Unread
  <2>2. Unread \in Seq(Bytes) /\ Len(Unread) = 1 + Len(pend) /\ Unread[1] = data
        /\ \A i \in 1 .. Len(pend) : Unread[i + 1] = pend[i]
    BY <1>1, <2>1
  <2> QED BY <1>1, <1>2, <2>2
<1>3. CASE ~full
  <2>1. Unread = pend
    BY <1>1, <1>3 DEF Unread
  <2> QED BY <1>1, <1>3, <2>1
<1> QED BY <1>1, <1>2, <1>3

LEMMA UnreadRead ==
    ASSUME KeyboardTypeOK, ReadPort
    PROVE  /\ full' = FALSE /\ data' = data
           /\ ~full => Unread' = Unread
           /\ full => Len(Unread') = Len(Unread) - 1 /\ Unread' \in Seq(Bytes)
           /\ full => \A i \in 1 .. Len(Unread) - 1 : Unread'[i] = Unread[i + 1]
<1>1. full' = FALSE /\ data' = data /\ pend' = pend /\ pend \in Seq(Bytes)
  BY DEF ReadPort, KeyboardTypeOK
<1>2. Unread' = pend
  BY <1>1 DEF Unread
<1>3. ASSUME full
      PROVE  /\ Len(Unread') = Len(Unread) - 1 /\ Unread' \in Seq(Bytes)
             /\ \A i \in 1 .. Len(Unread) - 1 : Unread'[i] = Unread[i + 1]
  <2>0. Len(pend) \in Nat
    BY <1>1
  <2>1. /\ Len(Unread) = Len(pend) + 1
        /\ \A i \in 1 .. Len(pend) : Unread[i + 1] = pend[i]
    BY <1>3, UnreadIs
  <2>2. Len(Unread) - 1 = Len(pend)
    BY <2>0, <2>1
  <2> QED BY <1>1, <1>2, <2>1, <2>2
<1>4. ~full => Unread' = Unread
  BY <1>2, UnreadIs
<1> QED BY <1>1, <1>3, <1>4

LEMMA UnreadMore ==
    ASSUME KeyboardTypeOK, NEW a \in Seq(Bytes), pend' = pend \o a, full' = full, data' = data
    PROVE  /\ Unread' \in Seq(Bytes) /\ Len(Unread') = Len(Unread) + Len(a)
           /\ \A i \in 1 .. Len(Unread) : Unread'[i] = Unread[i]
           /\ \A i \in 1 .. Len(a) : Unread'[Len(Unread) + i] = a[i]
           /\ Unread' = Unread \o a
<1>1. pend \in Seq(Bytes) /\ data \in Bytes
  BY DEF KeyboardTypeOK
<1>2. Unread' = Unread \o a
  <2>1. CASE full
    <3>1. Unread' = <<data>> \o (pend \o a) /\ Unread = <<data>> \o pend
      BY <2>1 DEF Unread
    <3> QED BY <1>1, <3>1
  <2>2. CASE ~full
    <3>1. Unread' = pend \o a /\ Unread = pend
      BY <1>1, <2>2 DEF Unread
    <3> QED BY <3>1
  <2> QED BY <2>1, <2>2
<1>3. Unread \in Seq(Bytes)
  BY UnreadIs
<1> QED BY <1>2, <1>3

LEMMA UnreadSame ==
    /\ KeyboardTypeOK /\ Deliver => Unread' = Unread
    /\ full' = full /\ data' = data /\ pend' = pend => Unread' = Unread
<1>1. ASSUME KeyboardTypeOK, Deliver PROVE Unread' = Unread
  <2>1. pend \in Seq(Bytes) /\ pend # <<>> /\ ~full /\ full' /\ data' = Head(pend) /\ pend' = Tail(pend)
    BY <1>1 DEF Deliver, KeyboardTypeOK
  <2>2. Unread = pend /\ Unread' = <<Head(pend)>> \o Tail(pend)
    BY <2>1 DEF Unread
  <2> QED BY <2>1, <2>2
<1> QED BY <1>1 DEF Unread

\* Every action keeps the types.
LEMMA TypeInit == KeyboardInit => KeyboardTypeOK
<1> SUFFICES ASSUME KeyboardInit PROVE KeyboardTypeOK
  OBVIOUS
<1>1. None \in Bytes /\ 1 \in 1 .. Len(Dialogue) /\ 0 \in 0 .. Tries /\ 0 \in 0 .. MaxPresses
      /\ Len(<<>>) <= RingSize
  BY RepliesAreBytes, DialogueIs, KeyboardAssumption
<1>2. pend \in Seq(Bytes) /\ ring \in Seq(Bytes) /\ received \in Seq(Bytes)
  BY DEF KeyboardInit
<1> QED BY <1>1, <1>2 DEF KeyboardInit, KeyboardTypeOK

LEMMA TypeDevice == KeyboardTypeOK /\ Device => KeyboardTypeOK'
<1>1. ASSUME KeyboardTypeOK, Deliver PROVE KeyboardTypeOK'
  <2>1. pend \in Seq(Bytes) /\ pend # <<>> /\ irr \in BOOLEAN /\ conf.interrupt \in BOOLEAN
    BY <1>1 DEF Deliver, KeyboardTypeOK
  <2>2. Head(pend) \in Bytes /\ Tail(pend) \in Seq(Bytes)
    BY <2>1
  <2>3. data' \in Bytes /\ pend' \in Seq(Bytes) /\ full' \in BOOLEAN /\ irr' \in BOOLEAN
    BY <1>1, <2>1, <2>2 DEF Deliver
  <2> QED BY <1>1, <2>3 DEF Deliver, KeyboardTypeOK, activation, led, hist
<1>2. ASSUME KeyboardTypeOK, PressKey PROVE KeyboardTypeOK'
  <2>1. pressed \in 0 .. MaxPresses /\ pressed < MaxPresses /\ pressed' = pressed + 1
        /\ pend \in Seq(Bytes) /\ MaxPresses \in Nat
    BY <1>2, KeyboardAssumption DEF PressKey, KeyboardTypeOK
  <2>2. pressed' \in 1 .. MaxPresses /\ pressed' \in 0 .. MaxPresses
    BY <2>1
  <2>3. PICK k \in {"plain", "equal", "lock"} : pend' = Append(pend, [kind |-> k, n |-> pressed'])
    BY <1>2 DEF PressKey
  <2>4. [kind |-> k, n |-> pressed'] \in Bytes
    BY <2>2, <2>3 DEF Bytes, Keys
  <2>5. pend' \in Seq(Bytes)
    BY <2>1, <2>3, <2>4
  <2> QED BY <1>2, <2>2, <2>5 DEF PressKey, KeyboardTypeOK, activation, led
<1> QED BY <1>1, <1>2 DEF Device

LEMMA TypeRead ==
    ASSUME KeyboardTypeOK, ReadPort
    PROVE  /\ full' = FALSE /\ data' = data /\ irr' \in BOOLEAN
           /\ UNCHANGED <<pend, conf, sends>>
BY DEF ReadPort, KeyboardTypeOK

LEMMA TypeLose ==
    ASSUME KeyboardTypeOK, Lose
    PROVE  lost' \in SUBSET (1 .. MaxPresses)
<1>1. data \in Bytes /\ lost \in SUBSET (1 .. MaxPresses)
  BY DEF KeyboardTypeOK
<1>2. IsKey(data) => data.n \in 1 .. MaxPresses
  BY <1>1, KeyKindsAre
<1> QED BY <1>1, <1>2 DEF Lose

\* Where a round leads to.
LEMMA ContinueType ==
    ASSUME KeyboardTypeOK, NEW ok, Continue(ok)
    PROVE  /\ ipc' \in {"off", "send", "register"} /\ round' \in 1 .. Len(Dialogue)
           /\ ~ok => ipc' = "off"
           /\ ok /\ round = 10 => ipc' = "register" /\ round' = round
           /\ ok /\ round # 10 => ipc' = "send" /\ round' = round + 1
<1>1. round \in 1 .. 10 /\ Len(Dialogue) = 10
  BY DialogueIs DEF KeyboardTypeOK
<1>2. /\ ipc' = IF ~ok THEN "off" ELSE IF round = 10 THEN "register" ELSE "send"
      /\ round' = IF ok /\ round < 10 THEN round + 1 ELSE round
  BY <1>1 DEF Continue
<1> QED BY <1>1, <1>2

LEMMA TypeSend == KeyboardTypeOK /\ Send => KeyboardTypeOK'
<1> SUFFICES ASSUME KeyboardTypeOK, Send PROVE KeyboardTypeOK'
  OBVIOUS
<1>1. /\ round \in 1 .. 10 /\ pend \in Seq(Bytes) /\ passed \in SUBSET ToSet(Dialogue)
      /\ conf \in [interrupt : BOOLEAN, rest : BOOLEAN] /\ irr \in BOOLEAN /\ full \in BOOLEAN
      /\ sends \in BOOLEAN
  BY DialogueIs DEF KeyboardTypeOK
<1>2. Command \in ToSet(Dialogue)
  BY <1>1, DialogueIs DEF Command, ToSet
<1>3. PICK a \in Answers(Command) :
          /\ pend' = pend \o a
          /\ passed' = IF a \in Good(Command) THEN passed \union {Command} ELSE passed
  BY DEF Send
<1>4. pend' \in Seq(Bytes)
  <2>1. a \in Seq(Bytes)
    BY AnswersAre
  <2> QED BY <1>1, <1>3, <2>1
<1>5. passed' \in SUBSET ToSet(Dialogue)
  BY <1>1, <1>2, <1>3
<1>6. sends' \in BOOLEAN
  BY <1>1 DEF Send
<1>7. conf' \in [interrupt : BOOLEAN, rest : BOOLEAN] /\ irr' \in BOOLEAN
      /\ round' \in 1 .. 10 /\ ipc' \in {"send", "read"}
  <2>1. CASE Command = "configure"
    <3>1. round # 10
      BY <2>1, DialogueIs DEF Command
    <3>2. conf' = Configured /\ round' = round + 1 /\ ipc' = ipc /\ ipc = "send"
          /\ irr' = (irr \/ (full /\ conf'.interrupt /\ ~conf.interrupt))
      BY <2>1 DEF Send, Main
    <3>3. Configured \in [interrupt : BOOLEAN, rest : BOOLEAN]
      BY <1>1 DEF Configured
    <3>4. conf' \in [interrupt : BOOLEAN, rest : BOOLEAN] /\ irr' \in BOOLEAN
      BY <3>2, <3>3
    <3> QED BY <1>1, <3>1, <3>2, <3>4
  <2>2. CASE Command # "configure"
    <3>1. ipc' = "read" /\ UNCHANGED <<conf, irr, round>>
      BY <2>2 DEF Send
    <3> QED BY <1>1, <3>1
  <2> QED BY <2>1, <2>2
<1> QED BY <1>4, <1>5, <1>6, <1>7, DialogueIs DEF Send, KeyboardTypeOK, led

LEMMA TypeReceive == KeyboardTypeOK /\ (Receive \/ ReceiveSecond) => KeyboardTypeOK'
<1>1. ASSUME KeyboardTypeOK, Receive PROVE KeyboardTypeOK'
  <2>1. /\ full' \in BOOLEAN /\ data' = data /\ irr' \in BOOLEAN /\ lost' \in SUBSET (1 .. MaxPresses)
        /\ UNCHANGED <<pend, conf, sends>>
    BY <1>1, TypeRead, TypeLose DEF Receive
  <2>2. held' \in Bytes
    BY <1>1 DEF Receive, KeyboardTypeOK
  <2>3. ipc' \in {"second", "off", "send", "register"} /\ round' \in 1 .. Len(Dialogue)
    <3>1. CASE Command = "reset"
      BY <1>1, <3>1 DEF Receive, KeyboardTypeOK
    <3>2. CASE Command # "reset"
      <4>1. Continue(Accepts(Command, data))
        BY <1>1, <3>2 DEF Receive
      <4> QED BY <1>1, <4>1, ContinueType
    <3> QED BY <3>1, <3>2
  <2> QED BY <1>1, <2>1, <2>2, <2>3 DEF Receive, KeyboardTypeOK, led
<1>2. ASSUME KeyboardTypeOK, ReceiveSecond PROVE KeyboardTypeOK'
  <2>1. ipc' \in {"off", "send", "register"} /\ round' \in 1 .. Len(Dialogue)
    BY <1>2, ContinueType DEF ReceiveSecond
  <2>2. /\ full' \in BOOLEAN /\ data' = data /\ irr' \in BOOLEAN /\ lost' \in SUBSET (1 .. MaxPresses)
        /\ UNCHANGED <<pend, conf, sends>>
    <3>1. CASE full
      BY <1>2, <3>1, TypeRead, TypeLose DEF ReceiveSecond
    <3>2. CASE ~full
      BY <1>2, <3>2 DEF ReceiveSecond, port, KeyboardTypeOK
    <3> QED BY <3>1, <3>2
  <2> QED BY <1>2, <2>1, <2>2 DEF ReceiveSecond, KeyboardTypeOK, led
<1> QED BY <1>1, <1>2

LEMMA TypeHandler == KeyboardTypeOK /\ Places /\ Handler => KeyboardTypeOK'
<1>1. ASSUME KeyboardTypeOK, Interrupt PROVE KeyboardTypeOK'
  <2>1. CASE ipc = "on" /\ full /\ Len(ring) < RingSize
    <3>1. TopHalf /\ ring \in Seq(Bytes) /\ data \in Bytes /\ Len(ring) \in Nat /\ RingSize \in Nat
      BY <1>1, <2>1, KeyboardAssumption DEF Interrupt, KeyboardTypeOK
    <3>2. ring' = Append(ring, data)
      BY <2>1, <3>1 DEF TopHalf
    <3>3. ring' \in Seq(Bytes) /\ Len(ring') <= RingSize
      BY <2>1, <3>1, <3>2
    <3> QED BY <1>1, <2>1, <3>1, <3>3 DEF TopHalf, Interrupt, KeyboardTypeOK, activation
  <2>2. CASE ~(ipc = "on" /\ full /\ Len(ring) < RingSize)
    <3>1. irr' = FALSE /\ missed' = (missed \/ full) /\ UNCHANGED <<full, data, pend, conf, sends, hpc, ring>>
      BY <1>1, <2>2 DEF Interrupt, TopHalf
    <3>2. missed' \in BOOLEAN
      BY <1>1, <3>1 DEF KeyboardTypeOK
    <3> QED BY <1>1, <3>1, <3>2 DEF Interrupt, KeyboardTypeOK, activation
  <2> QED BY <2>1, <2>2
<1>2. ASSUME KeyboardTypeOK, SendLED PROVE KeyboardTypeOK'
  <2>1. PICK a \in Answers("LED") : pend' = pend \o a
    BY <1>2 DEF SendLED
  <2>2. pend' \in Seq(Bytes)
    <3>1. a \in Seq(Bytes) /\ pend \in Seq(Bytes)
      BY <1>2, AnswersAre DEF KeyboardTypeOK
    <3> QED BY <2>1, <3>1
  <2>3. tries' \in 0 .. Tries
    BY <1>2, KeyboardAssumption DEF SendLED
  <2> QED BY <1>2, <2>2, <2>3 DEF SendLED, KeyboardTypeOK, activation, hist
<1>3. ASSUME KeyboardTypeOK, Places, AwaitLED PROVE KeyboardTypeOK'
  <2>1. /\ full' \in BOOLEAN /\ data' = data /\ irr' \in BOOLEAN /\ lost' \in SUBSET (1 .. MaxPresses)
        /\ UNCHANGED <<pend, conf, sends>>
    BY <1>3, TypeRead, TypeLose DEF AwaitLED
  <2>2. tries' \in 0 .. Tries
    BY <1>3, KeyboardAssumption DEF AwaitLED, KeyboardTypeOK, Places
  <2> QED BY <1>3, <2>1, <2>2 DEF AwaitLED, KeyboardTypeOK, activation
<1> QED BY <1>1, <1>2, <1>3 DEF Handler

\* The rest of the driver's steps.
LEMMA TypeOther ==
    KeyboardTypeOK /\ (NotSupported \/ Disable \/ Flush \/ Flushed \/ Register \/ Read)
        => KeyboardTypeOK'
<1>1. ASSUME KeyboardTypeOK, NotSupported \/ Disable \/ Flushed \/ Register PROVE KeyboardTypeOK'
  BY <1>1 DEF NotSupported, Disable, Flushed, Register, KeyboardTypeOK, port, activation, led, hist
<1>2. ASSUME KeyboardTypeOK, Flush PROVE KeyboardTypeOK'
  <2>1. /\ full' \in BOOLEAN /\ data' = data /\ irr' \in BOOLEAN /\ lost' \in SUBSET (1 .. MaxPresses)
        /\ UNCHANGED <<pend, conf, sends>>
    BY <1>2, TypeRead, TypeLose DEF Flush
  <2> QED BY <1>2, <2>1 DEF Flush, KeyboardTypeOK, activation, led
<1>3. ASSUME KeyboardTypeOK, Read PROVE KeyboardTypeOK'
  <2>1. ring \in Seq(Bytes) /\ ring # <<>> /\ received \in Seq(Bytes) /\ Len(ring) <= RingSize
        /\ RingSize \in Nat
    BY <1>3, KeyboardAssumption DEF Read, KeyboardTypeOK
  <2>2. Head(ring) \in Bytes /\ Tail(ring) \in Seq(Bytes) /\ Len(Tail(ring)) <= RingSize
    BY <2>1
  <2>3. ring' \in Seq(Bytes) /\ Len(ring') <= RingSize /\ received' \in Seq(Bytes)
    BY <1>3, <2>1, <2>2 DEF Read
  <2> QED BY <1>3, <2>3 DEF Read, KeyboardTypeOK, port, activation, led, hist
<1> QED BY <1>1, <1>2, <1>3

LEMMA TypeKeeps ==
    ASSUME KeyboardTypeOK, Places, [KeyboardNext]_keyboardVars
    PROVE  KeyboardTypeOK'
<1>1. CASE UNCHANGED keyboardVars \/ ReadNothing
  <2>1. UNCHANGED <<port, activation, led, ring, received, hist>>
    BY <1>1 DEF ReadNothing, keyboardVars
  <2>2. UNCHANGED <<full, data, pend, conf, sends, irr, ipc, round, held, hpc, tries>>
    BY <2>1 DEF port, activation, led
  <2>3. UNCHANGED <<ring, received, pressed, lost, passed, missed>>
    BY <2>1 DEF hist
  <2> QED BY <2>2, <2>3 DEF KeyboardTypeOK
<1>2. CASE Device \/ Driver \/ Handler
  BY <1>2, TypeDevice, TypeSend, TypeReceive, TypeHandler, TypeOther DEF Driver
<1> QED BY <1>1, <1>2 DEF KeyboardNext

\* The handler and the second look belong to their places.
LEMMA PlacesKeep ==
    ASSUME KeyboardTypeOK, Places, [KeyboardNext]_keyboardVars
    PROVE  Places'
<1>1. CASE UNCHANGED keyboardVars \/ ReadNothing \/ Device
  BY <1>1 DEF ReadNothing, keyboardVars, Device, Deliver, PressKey, Places, activation, led
<1>2. CASE NotSupported \/ Disable \/ Flush \/ Flushed \/ Register \/ Read
  BY <1>2 DEF NotSupported, Disable, Flush, Flushed, Register, Read, Main, Places, activation, led
<1>3. CASE Send
  BY <1>3 DEF Send, Main, Places, led
<1>4. CASE Receive
  <2>1. CASE Command = "reset"
    <3>1. round = 8
      BY <2>1, DialogueIs DEF Command, KeyboardTypeOK
    <3> QED BY <1>4, <2>1, <3>1 DEF Receive, Main, Places, led
  <2>2. CASE Command # "reset"
    <3>1. ipc' \in {"off", "send", "register"}
      BY <1>4, <2>2, ContinueType DEF Receive
    <3> QED BY <1>4, <3>1 DEF Receive, Main, Places, led
  <2> QED BY <2>1, <2>2
<1>5. CASE ReceiveSecond
  <2>1. ipc' \in {"off", "send", "register"}
    BY <1>5, ContinueType DEF ReceiveSecond
  <2> QED BY <1>5, <2>1 DEF ReceiveSecond, Main, Places, led
<1>6. CASE Interrupt
  BY <1>6 DEF Interrupt, InterruptFlag, TopHalf, Places, activation
<1>7. CASE SendLED
  BY <1>7, KeyboardAssumption DEF SendLED, Places, activation
<1>8. CASE AwaitLED
  <2>1. tries \in Nat /\ tries < Tries /\ Tries \in Nat /\ tries' = tries + 1
        /\ UNCHANGED <<ipc, round>> /\ ipc = "on"
    BY <1>8, KeyboardAssumption DEF AwaitLED, KeyboardTypeOK, Places, activation
  <2>2. hpc' \in {"awaitAsk", "awaitSet"} => tries' # Tries
    BY <1>8 DEF AwaitLED
  <2> QED BY <2>1, <2>2 DEF Places
<1> QED BY <1>1, <1>2, <1>3, <1>4, <1>5, <1>6, <1>7, <1>8 DEF KeyboardNext, Driver, Handler

\* Where bytes and dialogue stay as they are, or the first unread byte is
\* delivered.
LEMMA FollowingSame ==
    ASSUME Following, ipc' = ipc, round' = round, held' = held, conf' = conf, passed' = passed,
           sends' = sends, Unread' = Unread, full' \/ (full' = full /\ data' = data)
    PROVE  Following'
<1>1. \A k : (Lacks(k) => Lacks(k)') /\ \A i : OnlyAt(k, i) => OnlyAt(k, i)'
  BY DEF Lacks, OnlyAt
<1>2. \A i : KeysBehind(i) => KeysBehind(i)'
  BY DEF KeysBehind
<1>3. Before'
  BY <1>1 DEF Following, Before
<1>4. InStep => InStep'
  BY DEF InStep
<1>5. FirstRounds'
  BY <1>1, <1>4 DEF Following, FirstRounds
<1>6. EnableRound'
  BY <1>1, <1>2 DEF Following, EnableRound
<1>7. SecondRounds'
  BY <1>1, <1>2 DEF Following, SecondRounds
<1>8. Tested'
  BY DEF Following, Tested
<1> QED BY <1>3, <1>5, <1>6, <1>7, <1>8 DEF Following

\* A key behind the rest.
LEMMA FollowingPress ==
    ASSUME KeyboardTypeOK, Following, PressKey
    PROVE  Following'
<1> DEFINE u == Unread
           w == Unread'
<1>1. PICK b \in Bytes : b.kind \in KeyKinds /\ pend' = Append(pend, b)
  <2>1. pressed \in Nat /\ pressed < MaxPresses /\ pressed' = pressed + 1 /\ MaxPresses \in Nat
    BY KeyboardAssumption DEF PressKey, KeyboardTypeOK
  <2>2. PICK k \in {"plain", "equal", "lock"} : pend' = Append(pend, [kind |-> k, n |-> pressed'])
    BY DEF PressKey
  <2>3. [kind |-> k, n |-> pressed'] \in Bytes /\ [kind |-> k, n |-> pressed'].kind \in KeyKinds
    BY <2>1, <2>2 DEF Bytes, Keys, KeyKinds
  <2> QED BY <2>2, <2>3
<1>2. /\ ipc' = ipc /\ round' = round /\ held' = held /\ conf' = conf /\ passed' = passed
      /\ sends /\ sends' = sends /\ full' = full /\ data' = data
  BY DEF PressKey, activation
<1>3. /\ Len(w) = Len(u) + 1 /\ Len(u) \in Nat /\ DOMAIN u = 1 .. Len(u) /\ DOMAIN w = 1 .. Len(w)
      /\ \A i \in 1 .. Len(u) : w[i] = u[i]
      /\ w[Len(u) + 1] = b
  <2>1. pend \in Seq(Bytes)
    BY DEF KeyboardTypeOK
  <2>2. pend' = pend \o <<b>> /\ <<b>> \in Seq(Bytes) /\ Len(<<b>>) = 1 /\ <<b>>[1] = b
    BY <1>1, <2>1
  <2>3. u \in Seq(Bytes)
    BY UnreadIs
  <2>4. w \in Seq(Bytes) /\ Len(w) = Len(u) + Len(<<b>>) /\ w = u \o <<b>>
    BY <1>2, <2>2, UnreadMore
  <2> HIDE DEF u, w
  <2> QED BY <2>2, <2>3, <2>4
<1>w. u = Unread /\ w = Unread'
  OBVIOUS
<1> HIDE DEF u, w
<1>4. w # <<>>
  BY <1>3
<1>5. ASSUME NEW k \in {"00", "AA"}
      PROVE  (Lacks(k) => Lacks(k)') /\ \A i : OnlyAt(k, i) => OnlyAt(k, i)'
  <2>1. b.kind # k
    BY <1>1 DEF KeyKinds
  <2> QED BY <1>2, <1>3, <1>w, <2>1 DEF Lacks, OnlyAt
<1>6. \A i : i \in DOMAIN u /\ KeysBehind(i) => KeysBehind(i)'
  BY <1>1, <1>3, <1>w DEF KeysBehind
<1>7. Before'
  BY <1>2, <1>5 DEF Following, Before
<1>8. FirstRounds'
  BY <1>2 DEF Following, FirstRounds
<1>9. EnableRound'
  <2>1. u # <<>> => w[1] = u[1] /\ 1 \in DOMAIN u
    BY <1>3
  <2> QED BY <1>2, <1>4, <1>5, <1>6, <1>w, <2>1 DEF Following, EnableRound
<1>10. SecondRounds'
  <2>1. u # <<>> => Len(w) # 1
    BY <1>3
  <2>2. \A i : OnlyAt("AA", i) => i \in DOMAIN u /\ w[i] = u[i] /\ i \in DOMAIN w
    BY <1>3, <1>w DEF OnlyAt
  <2>3. SUFFICES ASSUME ipc \in {"send", "read", "second"}, round \in 6 .. 8 PROVE SecondRounds'
    BY <1>2 DEF SecondRounds
  <2>4. CASE round = 8 /\ ipc # "send"
    <3>1. PICK i \in DOMAIN u :
              /\ OnlyAt("AA", i) /\ KeysBehind(i)
              /\ u[i].kind = "AA" => "reset" \in passed
              /\ ipc = "read" => i > 1 /\ (i = 2 => conf.rest)
              /\ ipc = "second" => held.kind # "AA" /\ (i = 1 => conf.rest)
      BY <1>w, <2>3, <2>4 DEF Following, SecondRounds
    <3>2. i \in DOMAIN w /\ OnlyAt("AA", i)' /\ KeysBehind(i)' /\ w[i] = u[i]
      BY <1>5, <1>6, <2>2, <3>1
    <3> QED BY <1>2, <1>w, <2>4, <3>1, <3>2 DEF SecondRounds
  <2>5. CASE ~(round = 8 /\ ipc # "send")
    BY <1>2, <1>4, <1>5, <1>w, <2>1, <2>3, <2>5 DEF Following, SecondRounds
  <2> QED BY <2>4, <2>5
<1>11. Tested'
  <2>1. ASSUME \A i \in DOMAIN u : u[i].kind \in KeyKinds \union {"FA", "FE"}
        PROVE  \A i \in DOMAIN w : w[i].kind \in KeyKinds \union {"FA", "FE"}
    BY <1>1, <1>3, <2>1
  <2> QED BY <1>2, <1>w, <2>1 DEF Following, Tested
<1> QED BY <1>7, <1>8, <1>9, <1>10, <1>11 DEF Following

\* A command behind the rest.
LEMMA SendFacts ==
    ASSUME KeyboardTypeOK, Send
    PROVE  \E a \in Answers(Command) :
              /\ Len(Unread') = Len(Unread) + Len(a) /\ Len(Unread) \in Nat /\ Len(a) \in Nat
              /\ DOMAIN Unread = 1 .. Len(Unread) /\ DOMAIN Unread' = 1 .. Len(Unread')
              /\ \A i \in 1 .. Len(Unread) : Unread'[i] = Unread[i]
              /\ \A i \in 1 .. Len(a) : Unread'[Len(Unread) + i] = a[i]
              /\ passed \subseteq passed' /\ (a \in Good(Command) => Command \in passed')
              /\ full' = full /\ data' = data /\ held' = held
              /\ Unread \in Seq(Bytes) /\ Unread' \in Seq(Bytes)
<1>1. PICK a \in Answers(Command) :
          /\ pend' = pend \o a
          /\ passed' = IF a \in Good(Command) THEN passed \union {Command} ELSE passed
  BY DEF Send
<1>2. a \in Seq(Bytes)
  BY AnswersAre
<1>3. full' = full /\ data' = data /\ held' = held
  BY DEF Send
<1>4. Unread \in Seq(Bytes)
  BY UnreadIs
<1>5. /\ Unread' \in Seq(Bytes) /\ Len(Unread') = Len(Unread) + Len(a)
      /\ \A i \in 1 .. Len(Unread) : Unread'[i] = Unread[i]
      /\ \A i \in 1 .. Len(a) : Unread'[Len(Unread) + i] = a[i]
  BY <1>1, <1>2, <1>3, UnreadMore
<1>6. Len(Unread) \in Nat /\ Len(a) \in Nat /\ DOMAIN Unread = 1 .. Len(Unread) /\ DOMAIN Unread' = 1 .. Len(Unread')
  BY <1>2, <1>4, <1>5
<1>7. passed \subseteq passed' /\ (a \in Good(Command) => Command \in passed')
  BY <1>1
<1> QED BY <1>1, <1>3, <1>4, <1>5, <1>6, <1>7

LEMMA FollowingSend ==
    ASSUME KeyboardTypeOK, InterruptEnabled, Following, Send
    PROVE  Following'
<1> DEFINE u == Unread
           w == Unread'
<1>1. PICK a \in Answers(Command) :
          /\ Len(w) = Len(u) + Len(a) /\ Len(u) \in Nat /\ Len(a) \in Nat
          /\ DOMAIN u = 1 .. Len(u) /\ DOMAIN w = 1 .. Len(w)
          /\ \A i \in 1 .. Len(u) : w[i] = u[i]
          /\ \A i \in 1 .. Len(a) : w[Len(u) + i] = a[i]
          /\ passed \subseteq passed' /\ (a \in Good(Command) => Command \in passed')
          /\ full' = full /\ data' = data /\ held' = held
          /\ u \in Seq(Bytes) /\ w \in Seq(Bytes)
  BY SendFacts
<1>w. u = Unread /\ w = Unread'
  OBVIOUS
<1> HIDE DEF u, w
<1>2. (u = <<>> <=> Len(u) = 0) /\ (w = <<>> <=> Len(w) = 0)
  BY <1>1
<1>3. ipc = "send" /\ (sends' <=> sends \/ Command = "enable") /\ round \in 1 .. 10
  BY DialogueIs DEF Send, Main, KeyboardTypeOK
<1>4. Before' /\ (round \in 1 .. 4 => ~sends)
  <2>1. ipc' \in {"send", "read"}
    BY <1>3 DEF Send
  <2> QED BY <1>3, <2>1 DEF Following, Before, FirstRounds
<1>5. CASE round \in {2, 7}
  <2>1. Command = "configure"
    BY <1>5, DialogueIs DEF Command
  <2>2. a = <<>> /\ Len(a) = 0
    BY <2>1, AnswersAre
  <2>3. ipc' = "send" /\ round' = round + 1 /\ conf' = Configured
    BY <1>3, <2>1 DEF Send
  <2>4. conf'.rest <=> conf.rest /\ held.kind = "config"
    BY <2>3 DEF Configured
  <2>5. Len(w) = Len(u) /\ (w = <<>> <=> u = <<>>)
    BY <1>1, <1>2, <2>2
  <2>6. ASSUME NEW k PROVE Lacks(k) => Lacks(k)'
    BY <1>1, <1>w, <2>5 DEF Lacks
  <2>7. CASE round = 2
    <3>1. FirstRounds'
      <4>1. ~sends /\ Lacks("00") /\ (Len(u) = 0 => conf.rest /\ held.kind = "config")
        BY <1>3, <1>w, <2>7 DEF Following, FirstRounds, InStep
      <4>2. ~sends' /\ Lacks("00")'
        BY <1>3, <2>1, <2>6, <4>1
      <4> QED BY <1>w, <2>3, <2>4, <2>5, <2>7, <4>1, <4>2 DEF FirstRounds, InStep
    <3>2. EnableRound' /\ SecondRounds' /\ Tested'
      BY <2>3, <2>7 DEF EnableRound, SecondRounds, Tested
    <3> QED BY <1>4, <3>1, <3>2 DEF Following
  <2>8. CASE round = 7
    <3>1. SecondRounds'
      <4>1. Lacks("AA") /\ conf.rest /\ (u = <<>> => held.kind = "config")
        BY <1>3, <1>w, <2>8 DEF Following, SecondRounds
      <4> QED BY <1>w, <2>3, <2>4, <2>5, <2>6, <2>8, <4>1 DEF SecondRounds
    <3>2. FirstRounds' /\ EnableRound'
      BY <2>3, <2>8 DEF EnableRound, FirstRounds
    <3>3. Tested'
      BY <1>1, <1>3, <2>3, <2>8 DEF Following, Tested
    <3> QED BY <1>4, <3>1, <3>2, <3>3 DEF Following
  <2> QED BY <1>5, <2>7, <2>8
<1>6. CASE round \notin {2, 7}
  <2>1. Command # "configure" /\ Command = Dialogue[round]
    BY <1>3, <1>6, DialogueIs DEF Command
  <2>2. ipc' = "read" /\ round' = round /\ conf' = conf
    BY <2>1 DEF Send
  <2>3. ASSUME NEW k, \A i \in 1 .. Len(a) : a[i].kind # k
        PROVE  Lacks(k) => Lacks(k)'
    <3>1. \A j \in DOMAIN w : j \in 1 .. Len(u) \/ \E i \in 1 .. Len(a) : j = Len(u) + i
      <4>1. \A j \in DOMAIN w : j \notin 1 .. Len(u) =>
                j - Len(u) \in 1 .. Len(a) /\ j = Len(u) + (j - Len(u))
        BY <1>1
      <4> QED BY <4>1
    <3>2. ASSUME Lacks(k), NEW j \in DOMAIN w
          PROVE  w[j].kind # k
      <4>1. CASE j \in 1 .. Len(u)
        BY <1>1, <1>w, <3>2, <4>1 DEF Lacks
      <4>2. CASE \E i \in 1 .. Len(a) : j = Len(u) + i
        BY <1>1, <2>3, <4>2
      <4> QED BY <3>1, <4>1, <4>2
    <3> QED BY <1>1, <1>w, <3>2 DEF Lacks
  <2>4. Len(w) = 1 /\ Len(a) = 1 => Len(u) = 0 /\ w[1] = a[1]
    BY <1>1
  <2>5. w # <<>> <=> Len(w) # 0
    BY <1>1
  <2>6. CASE round \in {1, 3}
    <3>1. /\ Len(a) = 1 /\ a[1].kind # "00"
          /\ round = 1 => a[1].kind = "config"
          /\ round = 3 => a[1].kind \in {"55", "FC"} /\ (a[1].kind = "55" => "testController" \in passed')
      BY <1>1, <2>1, <2>6, DialogueIs, AnswersAre
    <3>2. ~sends /\ Lacks("00") /\ (Len(u) = 0 => conf.rest)
      BY <1>3, <1>w, <2>6 DEF Following, FirstRounds, InStep
    <3>3. ~sends' /\ Lacks("00")' /\ w # <<>>
      BY <1>1, <1>3, <2>1, <2>3, <2>5, <2>6, <3>1, <3>2, DialogueIs
    <3>4. FirstRounds'
      BY <1>w, <2>2, <2>4, <2>6, <3>1, <3>2, <3>3 DEF FirstRounds, InStep
    <3>5. EnableRound' /\ SecondRounds' /\ Tested'
      BY <2>2, <2>6 DEF EnableRound, SecondRounds, Tested
    <3> QED BY <1>4, <3>4, <3>5 DEF Following
  <2>7. CASE round = 4
    <3>1. Len(a) = 1 /\ (a[1].kind = "00" => "testPort" \in passed')
      BY <1>1, <2>1, <2>7, DialogueIs, AnswersAre
    <3>2. ~sends /\ Lacks("00") /\ (Len(u) = 0 => conf.rest /\ "testController" \in passed)
      BY <1>3, <1>w, <2>7 DEF Following, FirstRounds, InStep
    <3>3. OnlyAt("00", Len(Unread))'
      BY <1>1, <1>w, <3>1, <3>2 DEF Lacks, OnlyAt
    <3>4. w[Len(w)] = a[1] /\ w # <<>> /\ ~sends'
      BY <1>1, <1>3, <2>1, <2>5, <2>7, <3>1, <3>2, DialogueIs
    <3>5. FirstRounds'
      BY <1>1, <1>w, <2>2, <2>4, <2>7, <3>1, <3>2, <3>3, <3>4 DEF FirstRounds, InStep
    <3>6. EnableRound' /\ SecondRounds' /\ Tested'
      BY <2>2, <2>7 DEF EnableRound, SecondRounds, Tested
    <3> QED BY <1>4, <3>5, <3>6 DEF Following
  <2>8. CASE round = 5
    <3>1. /\ Len(a) = 1 /\ a[1].kind # "AA"
          /\ a[1].kind = "FA" => "enable" \in passed'
      BY <1>1, <2>1, <2>8, DialogueIs, AnswersAre
    <3>2. u = <<>> /\ conf.rest /\ Lacks("AA") /\ (~full => data.kind = "00")
      BY <1>3, <1>w, <2>8 DEF Following, EnableRound
    <3>3. Len(w) = 1 /\ w[1] = a[1] /\ w # <<>>
      BY <1>1, <1>2, <2>5, <3>1, <3>2
    <3>4. KeysBehind(1)' /\ Lacks("AA")'
      BY <1>1, <1>w, <2>3, <3>1, <3>2, <3>3 DEF KeysBehind
    <3>5. EnableRound'
      BY <1>1, <1>w, <2>2, <2>8, <3>1, <3>2, <3>3, <3>4 DEF EnableRound
    <3>6. FirstRounds' /\ SecondRounds'
      BY <2>2, <2>8 DEF FirstRounds, SecondRounds
    <3>7. Tested'
      BY <1>1, <1>3, <2>2, <2>8 DEF Following, Tested
    <3> QED BY <1>4, <3>5, <3>6, <3>7 DEF Following
  <2>9. CASE round = 6
    <3>1. Len(a) = 1 /\ a[1].kind = "config"
      BY <1>1, <2>1, <2>9, DialogueIs, AnswersAre
    <3>2. conf.rest /\ Lacks("AA")
      BY <1>3, <1>w, <2>9 DEF Following, SecondRounds
    <3>3. w # <<>> /\ (Len(w) = 1 => w[1].kind = "config") /\ Lacks("AA")'
      BY <1>1, <2>3, <2>4, <2>5, <3>1, <3>2
    <3>4. SecondRounds'
      BY <1>w, <2>2, <2>9, <3>2, <3>3 DEF SecondRounds
    <3>5. FirstRounds' /\ EnableRound'
      BY <2>2, <2>9 DEF FirstRounds, EnableRound
    <3>6. Tested'
      BY <1>1, <1>3, <2>2, <2>9 DEF Following, Tested
    <3> QED BY <1>4, <3>4, <3>5, <3>6 DEF Following
  <2>10. CASE round = 8
    <3>1. /\ Len(a) = 2 /\ a[1].kind = "FA"
          /\ a[2].kind = "AA" => "reset" \in passed'
      BY <1>1, <2>1, <2>10, DialogueIs, AnswersAre
    <3>2. Lacks("AA") /\ (u = <<>> => conf.rest)
      BY <1>3, <1>w, <2>10 DEF Following, SecondRounds
    <3>9. PICK i \in Nat : i = Len(u) + 2
      BY <1>1
    <3>3. i \in DOMAIN w /\ i = Len(w) /\ w[i] = a[2] /\ w[Len(u) + 1] = a[1] /\ i > 1 /\ (i = 2 => conf.rest)
      BY <1>1, <1>2, <3>1, <3>2, <3>9
    <3>4. OnlyAt("AA", i)'
      <4>1. ASSUME NEW j \in DOMAIN w, j # i PROVE w[j].kind # "AA"
        <5>1. j \in 1 .. Len(u) \/ j = Len(u) + 1
          BY <1>1, <3>1, <3>9, <4>1
        <5>2. j \in 1 .. Len(u) => w[j].kind # "AA"
          BY <1>1, <1>w, <3>2 DEF Lacks
        <5> QED BY <3>1, <3>3, <5>1, <5>2
      <4>2. ~full' => data'.kind # "AA"
        BY <1>1, <3>2 DEF Lacks
      <4> QED BY <1>w, <3>3, <4>1, <4>2 DEF OnlyAt
    <3>5. KeysBehind(i)'
      BY <1>1, <1>w, <3>3 DEF KeysBehind
    <3>6. SecondRounds'
      BY <1>w, <2>2, <2>10, <3>1, <3>3, <3>4, <3>5 DEF SecondRounds
    <3>7. FirstRounds' /\ EnableRound'
      BY <2>2, <2>10 DEF FirstRounds, EnableRound
    <3>8. Tested'
      BY <1>1, <1>3, <2>2, <2>10 DEF Following, Tested
    <3> QED BY <1>4, <3>6, <3>7, <3>8 DEF Following
  <2>11. CASE round \in {9, 10}
    <3>1. Len(a) = 1 /\ a[1].kind \in {"FA", "FE"}
      BY <1>1, <2>1, <2>11, DialogueIs, AnswersAre
    <3>2. \A i \in DOMAIN u : u[i].kind \in KeyKinds \union {"FA", "FE"}
      BY <1>3, <1>w, <2>11 DEF Following, Tested
    <3>3. \A i \in DOMAIN w : w[i].kind \in KeyKinds \union {"FA", "FE"}
      <4>1. \A i \in DOMAIN w : i \in 1 .. Len(u) \/ i = Len(u) + 1
        BY <1>1, <3>1
      <4> QED BY <1>1, <3>1, <3>2, <4>1
    <3>4. FirstRounds' /\ EnableRound' /\ SecondRounds'
      BY <2>2, <2>11 DEF FirstRounds, EnableRound, SecondRounds
    <3>5. Tested'
      BY <1>1, <1>3, <1>w, <2>2, <2>11, <3>3 DEF Following, Tested
    <3> QED BY <1>4, <3>4, <3>5 DEF Following
  <2> QED BY <1>3, <1>6, <2>6, <2>7, <2>8, <2>9, <2>10, <2>11
<1> QED BY <1>5, <1>6

\* A read takes the first unread byte, or the last one again.
LEMMA ReadFacts ==
    ASSUME KeyboardTypeOK, ReadPort
    PROVE  /\ full' = FALSE /\ data' = data /\ conf' = conf /\ sends' = sends
           /\ Len(Unread) \in Nat /\ DOMAIN Unread = 1 .. Len(Unread) /\ DOMAIN Unread' = 1 .. Len(Unread')
           /\ Unread = <<>> <=> Len(Unread) = 0
           /\ Unread' = <<>> <=> Len(Unread') = 0
           /\ ~full => Unread' = Unread
           /\ full => /\ Len(Unread) >= 1 /\ Unread[1] = data /\ Len(Unread') = Len(Unread) - 1
                      /\ \A i \in DOMAIN Unread' : i + 1 \in DOMAIN Unread /\ Unread'[i] = Unread[i + 1]
<1>1. /\ Unread \in Seq(Bytes) /\ (full => Unread[1] = data /\ Len(Unread) >= 1)
  BY UnreadIs
<1>2. /\ full' = FALSE /\ data' = data /\ (~full => Unread' = Unread)
      /\ full => Len(Unread') = Len(Unread) - 1 /\ Unread' \in Seq(Bytes)
      /\ full => \A i \in 1 .. Len(Unread) - 1 : Unread'[i] = Unread[i + 1]
  BY UnreadRead
<1>3. full \in BOOLEAN
  BY DEF KeyboardTypeOK
<1>4. Unread' \in Seq(Bytes)
  BY <1>1, <1>2
<1>5. conf' = conf /\ sends' = sends
  BY DEF ReadPort
<1>6. full => \A i \in DOMAIN Unread' : i + 1 \in DOMAIN Unread /\ Unread'[i] = Unread[i + 1]
  <2> SUFFICES ASSUME full, NEW i \in DOMAIN Unread'
               PROVE  i + 1 \in DOMAIN Unread /\ Unread'[i] = Unread[i + 1]
    OBVIOUS
  <2>1. i \in 1 .. Len(Unread) - 1 /\ Len(Unread) \in Nat
    BY <1>1, <1>2, <1>4
  <2>2. i + 1 \in DOMAIN Unread
    BY <1>1, <2>1
  <2> QED BY <1>2, <2>1, <2>2
<1>7. Len(Unread) \in Nat /\ DOMAIN Unread = 1 .. Len(Unread) /\ (Unread = <<>> <=> Len(Unread) = 0)
  BY <1>1
<1>8. DOMAIN Unread' = 1 .. Len(Unread') /\ (Unread' = <<>> <=> Len(Unread') = 0)
  BY <1>4
<1> QED BY <1>1, <1>2, <1>5, <1>6, <1>7, <1>8

\* A byte of a kind that is not there is not read, and is not there later.
LEMMA ReadLacks ==
    ASSUME KeyboardTypeOK, ReadPort, NEW k, Lacks(k)
    PROVE  data.kind # k /\ Lacks(k)'
<1>1. data.kind # k
  <2>1. CASE full
    <3>1. 1 \in DOMAIN Unread /\ Unread[1] = data
      BY <2>1, ReadFacts
    <3> QED BY <3>1 DEF Lacks
  <2>2. CASE ~full
    BY <2>2 DEF Lacks
  <2> QED BY <2>1, <2>2
<1>2. \A i \in DOMAIN Unread' : Unread'[i].kind # k
  <2>1. CASE full
    BY <2>1, ReadFacts DEF Lacks
  <2>2. CASE ~full
    BY <2>2, ReadFacts DEF Lacks
  <2> QED BY <2>1, <2>2
<1>3. data' = data
  BY ReadFacts
<1> QED BY <1>1, <1>2, <1>3 DEF Lacks

LEMMA FollowingReceive ==
    ASSUME KeyboardTypeOK, InterruptEnabled, Places, Following, Receive
    PROVE  Following'
<1> DEFINE u == Unread
           w == Unread'
<1>1. ReadPort /\ ipc = "read" /\ round \in 1 .. 10 /\ round \notin {2, 7} /\ passed' = passed
  BY DialogueIs DEF Receive, Main, KeyboardTypeOK, InterruptEnabled
<1>2. /\ full' = FALSE /\ data' = data /\ conf' = conf /\ sends' = sends
      /\ Len(u) \in Nat /\ DOMAIN u = 1 .. Len(u) /\ DOMAIN w = 1 .. Len(w)
      /\ u = <<>> <=> Len(u) = 0
      /\ w = <<>> <=> Len(w) = 0
      /\ ~full => w = u
      /\ full => /\ Len(u) >= 1 /\ u[1] = data /\ Len(w) = Len(u) - 1
                 /\ \A i \in DOMAIN w : i + 1 \in DOMAIN u /\ w[i] = u[i + 1]
  BY <1>1, ReadFacts
<1>w. u = Unread /\ w = Unread'
  OBVIOUS
<1> HIDE DEF u, w
<1>3. ipc' \in {"off", "send", "second", "register"}
  <2>1. CASE Command = "reset"
    BY <2>1 DEF Receive
  <2>2. CASE Command # "reset"
    BY <2>2, ContinueType DEF Receive
  <2> QED BY <2>1, <2>2
<1>4. Before'
  BY <1>3 DEF Before
<1>5. CASE ipc' = "off"
  BY <1>4, <1>5 DEF Following, FirstRounds, EnableRound, SecondRounds, Tested
<1>6. CASE round = 8
  <2>1. Command = "reset"
    BY <1>6, DialogueIs DEF Command
  <2>2. ipc' = "second" /\ held' = data /\ round' = round
    BY <2>1 DEF Receive
  <2>3. PICK i \in DOMAIN u :
            /\ OnlyAt("AA", i) /\ KeysBehind(i)
            /\ u[i].kind = "AA" => "reset" \in passed
            /\ i > 1 /\ (i = 2 => conf.rest)
    BY <1>1, <1>w, <1>6 DEF Following, SecondRounds
  <2>9. i \in Nat /\ i > 1
    <3>1. i \in DOMAIN u /\ i > 1
      BY <2>3
    <3>2. DOMAIN u = 1 .. Len(u) /\ Len(u) \in Nat
      BY <1>2
    <3> QED BY <3>1, <3>2
  <2>4. data.kind # "AA"
    <3>1. full => 1 \in DOMAIN u /\ u[1] = data
      BY <1>2
    <3> QED BY <1>w, <2>3, <3>1 DEF OnlyAt
  <2>5. PICK j \in DOMAIN w :
            /\ OnlyAt("AA", j)' /\ KeysBehind(j)'
            /\ w[j].kind = "AA" => "reset" \in passed
            /\ j = 1 => conf.rest
    <3>1. CASE full
      <4>1. PICK j \in DOMAIN w : j = i - 1
        BY <1>2, <2>3, <3>1
      <4>2. w[j] = u[i]
        BY <1>2, <2>3, <3>1, <4>1
      <4>3. \A m \in DOMAIN w : /\ m + 1 \in DOMAIN u /\ w[m] = u[m + 1] /\ (m # j => m + 1 # i)
                                /\ m > j => m + 1 > i
        BY <1>2, <2>3, <3>1, <4>1
      <4>4. OnlyAt("AA", j)'
        BY <1>2, <1>w, <2>3, <2>4, <4>1, <4>3 DEF OnlyAt
      <4>5. KeysBehind(j)'
        BY <1>w, <2>3, <4>3 DEF KeysBehind
      <4>6. j = 1 => conf.rest
        <5>1. j = 1 => i = 2
          BY <2>9, <4>1
        <5> QED BY <2>3, <5>1
      <4> QED BY <2>3, <4>1, <4>2, <4>4, <4>5, <4>6
    <3>2. CASE ~full
      <4>1. w = u
        BY <1>2, <3>2
      <4>2. OnlyAt("AA", i)' /\ KeysBehind(i)'
        BY <1>2, <1>w, <2>3, <2>4, <4>1 DEF OnlyAt, KeysBehind
      <4>3. i # 1
        BY <2>9
      <4> QED BY <2>3, <4>1, <4>2, <4>3
    <3> QED BY <3>1, <3>2
  <2>6. SecondRounds'
    <3>1. /\ w[j].kind = "AA" => "reset" \in passed'
          /\ held'.kind # "AA" /\ (j = 1 => conf'.rest)
      BY <1>1, <1>2, <2>2, <2>4, <2>5
    <3>2. j \in DOMAIN Unread' /\ OnlyAt("AA", j)' /\ KeysBehind(j)'
      BY <1>w, <2>5
    <3>3. ipc' = "second" /\ round' = 8
      BY <1>6, <2>2
    <3> QED BY <1>w, <3>1, <3>2, <3>3 DEF SecondRounds
  <2>7. FirstRounds' /\ EnableRound'
    BY <1>6, <2>2 DEF FirstRounds, EnableRound
  <2>8. Tested'
    BY <1>1, <1>6, <2>2 DEF Following, Tested
  <2> QED BY <1>4, <2>6, <2>7, <2>8 DEF Following
<1>7. CASE round # 8 /\ ipc' # "off"
  <2>1. Command # "reset" /\ Command = Dialogue[round]
    BY <1>1, <1>7, DialogueIs DEF Command
  <2>2. Continue(Accepts(Command, data)) /\ held' = IF Command = "readConfig" THEN data ELSE held
    BY <2>1 DEF Receive
  <2>3. /\ Accepts(Command, data)
        /\ round = 10 => ipc' = "register" /\ round' = round
        /\ round # 10 => ipc' = "send" /\ round' = round + 1
    BY <1>7, <2>2, ContinueType
  <2>4. CASE round = 1
    <3>1. ~sends /\ Lacks("00") /\ u # <<>> /\ (Len(u) = 1 => conf.rest /\ u[1].kind = "config")
      BY <1>1, <1>w, <2>4 DEF Following, FirstRounds, InStep
    <3>2. Lacks("00")'
      BY <1>1, <3>1, ReadLacks
    <3>3. Len(w) = 0 => conf.rest /\ data.kind = "config"
      BY <1>2, <3>1
    <3>4. held' = data
      BY <2>1, <2>2, <2>4, DialogueIs
    <3>5. FirstRounds'
      <4>1. Len(Unread') = 0 => InStep'
        BY <1>2, <1>w, <2>3, <2>4, <3>3, <3>4 DEF InStep
      <4>3. ~sends'
        BY <1>2, <3>1
      <4>4. ipc' = "send" /\ round' = 2
        BY <2>3, <2>4
      <4> QED BY <3>2, <4>1, <4>3, <4>4 DEF FirstRounds
    <3>6. EnableRound' /\ SecondRounds' /\ Tested'
      BY <2>3, <2>4 DEF EnableRound, SecondRounds, Tested
    <3> QED BY <1>4, <3>5, <3>6 DEF Following
  <2>5. CASE round = 3
    <3>1. /\ ~sends /\ Lacks("00") /\ u # <<>>
          /\ Len(u) = 1 => conf.rest /\ u[1].kind \in {"55", "FC"} /\ (u[1].kind = "55" => "testController" \in passed)
      BY <1>1, <1>w, <2>5 DEF Following, FirstRounds, InStep
    <3>2. Lacks("00")'
      BY <1>1, <3>1, ReadLacks
    <3>3. data.kind \in {"55", "equal"}
      BY <2>1, <2>3, <2>5, DialogueIs DEF Accepts
    <3>4. Len(w) = 0 => conf.rest /\ "testController" \in passed
      BY <1>2, <3>1, <3>3
    <3>5. FirstRounds'
      <4>1. Len(Unread') = 0 => InStep'
        BY <1>1, <1>2, <1>w, <2>3, <2>5, <3>4 DEF InStep
      <4>3. ~sends'
        BY <1>2, <3>1
      <4>4. ipc' = "send" /\ round' = 4
        BY <2>3, <2>5
      <4> QED BY <3>2, <4>1, <4>3, <4>4 DEF FirstRounds
    <3>6. EnableRound' /\ SecondRounds' /\ Tested'
      BY <2>3, <2>5 DEF EnableRound, SecondRounds, Tested
    <3> QED BY <1>4, <3>5, <3>6 DEF Following
  <2>6. CASE round = 4
    <3>1. /\ ~sends /\ OnlyAt("00", Len(u)) /\ u # <<>>
          /\ u[Len(u)].kind = "00" => "testPort" \in passed
          /\ Len(u) = 1 => conf.rest /\ "testController" \in passed
      BY <1>1, <1>w, <2>6 DEF Following, FirstRounds, InStep
    <3>2. data.kind = "00"
      BY <2>1, <2>3, <2>6, DialogueIs DEF Accepts
    <3>3. full /\ Len(u) = 1
      <4>1. full
        BY <3>1, <3>2 DEF OnlyAt
      <4>2. 1 \in DOMAIN u /\ u[1].kind = "00"
        BY <1>2, <3>2, <4>1
      <4> QED BY <1>w, <3>1, <4>1, <4>2 DEF OnlyAt
    <3>4. w = <<>> /\ conf.rest /\ {"testController", "testPort"} \subseteq passed
      BY <1>2, <3>1, <3>2, <3>3
    <3>5. Lacks("AA")'
      BY <1>2, <1>w, <3>2, <3>4 DEF Lacks
    <3>6. EnableRound'
      BY <1>2, <1>w, <2>3, <2>6, <3>1, <3>2, <3>4, <3>5 DEF EnableRound
    <3>7. FirstRounds' /\ SecondRounds'
      BY <2>3, <2>6 DEF FirstRounds, SecondRounds
    <3>8. Tested'
      BY <1>1, <2>3, <2>6, <3>4 DEF Tested
    <3> QED BY <1>4, <3>6, <3>7, <3>8 DEF Following
  <2>7. CASE round = 5
    <3>1. /\ conf.rest /\ Lacks("AA") /\ (~full => data.kind = "00") /\ u # <<>>
          /\ u[1].kind = "FA" => "enable" \in passed
      BY <1>1, <1>w, <2>7 DEF Following, EnableRound
    <3>2. data.kind = "FA"
      BY <2>1, <2>3, <2>7, DialogueIs DEF Accepts
    <3>3. "enable" \in passed
      BY <1>2, <3>1, <3>2
    <3>4. Lacks("AA")'
      BY <1>1, <3>1, ReadLacks
    <3>5. SecondRounds'
      <4>1. conf'.rest
        BY <1>2, <3>1
      <4>2. ipc' = "send" /\ round' = 6
        BY <2>3, <2>7
      <4> QED BY <3>4, <4>1, <4>2 DEF SecondRounds
    <3>6. FirstRounds' /\ EnableRound'
      BY <2>3, <2>7 DEF FirstRounds, EnableRound
    <3>7. Tested'
      BY <1>1, <2>3, <2>7, <3>3 DEF Following, Tested
    <3> QED BY <1>4, <3>5, <3>6, <3>7 DEF Following
  <2>8. CASE round = 6
    <3>1. conf.rest /\ Lacks("AA") /\ u # <<>> /\ (Len(u) = 1 => u[1].kind = "config")
      BY <1>1, <1>w, <2>8 DEF Following, SecondRounds
    <3>2. Lacks("AA")'
      BY <1>1, <3>1, ReadLacks
    <3>3. held' = data
      BY <2>1, <2>2, <2>8, DialogueIs
    <3>4. w = <<>> => held'.kind = "config"
      BY <1>2, <3>1, <3>3
    <3>5. SecondRounds'
      BY <1>2, <1>w, <2>3, <2>8, <3>1, <3>2, <3>4 DEF SecondRounds
    <3>6. FirstRounds' /\ EnableRound'
      BY <2>3, <2>8 DEF FirstRounds, EnableRound
    <3>7. Tested'
      BY <1>1, <2>3, <2>8 DEF Following, Tested
    <3> QED BY <1>4, <3>5, <3>6, <3>7 DEF Following
  <2>9. CASE round \in {9, 10}
    <3>1. /\ {"testController", "testPort", "enable", "reset"} \subseteq passed /\ conf.rest
          /\ \A i \in DOMAIN u : u[i].kind \in KeyKinds \union {"FA", "FE"}
      BY <1>1, <1>w, <2>9 DEF Following, Tested
    <3>2. \A i \in DOMAIN w : w[i].kind \in KeyKinds \union {"FA", "FE"}
      BY <1>2, <3>1
    <3>3. Tested'
      BY <1>1, <1>2, <1>w, <3>1, <3>2 DEF Tested
    <3>4. FirstRounds' /\ EnableRound' /\ SecondRounds'
      BY <2>3, <2>9 DEF FirstRounds, EnableRound, SecondRounds
    <3> QED BY <1>4, <3>3, <3>4 DEF Following
  <2> QED BY <1>1, <1>7, <2>4, <2>5, <2>6, <2>7, <2>8, <2>9
<1> QED BY <1>5, <1>6, <1>7

LEMMA FollowingReceiveSecond ==
    ASSUME KeyboardTypeOK, InterruptEnabled, Places, Following, ReceiveSecond
    PROVE  Following'
<1> DEFINE u == Unread
           w == Unread'
<1>1. ipc = "second" /\ round = 8 /\ passed' = passed /\ held' = held
  BY DEF ReceiveSecond, Main, Places
<1>2. PICK i \in DOMAIN u :
          /\ OnlyAt("AA", i) /\ KeysBehind(i)
          /\ u[i].kind = "AA" => "reset" \in passed
          /\ held.kind # "AA" /\ (i = 1 => conf.rest)
  BY <1>1 DEF Following, SecondRounds
<1>3. ipc' \in {"off", "send", "register"}
  BY ContinueType DEF ReceiveSecond
<1>4. Before'
  BY <1>3 DEF Before
<1>5. CASE ipc' = "off"
  BY <1>4, <1>5 DEF Following, FirstRounds, EnableRound, SecondRounds, Tested
<1>6. CASE ipc' # "off"
  <2>1. full
    <3>1. ~full => Continue(held.kind = "AA")
      BY DEF ReceiveSecond
    <3> QED BY <1>2, <1>6, <3>1, ContinueType
  <2>2. ReadPort /\ Continue(held.kind = "AA" \/ data.kind = "AA")
    BY <2>1 DEF ReceiveSecond
  <2>3. data.kind = "AA" /\ ipc' = "send" /\ round' = 9
    <3>1. held.kind = "AA" \/ data.kind = "AA"
      BY <1>6, <2>2, ContinueType
    <3>2. ipc' = "send" /\ round' = round + 1
      BY <1>1, <1>6, <2>2, DialogueIs DEF Continue
    <3> QED BY <1>1, <1>2, <3>1, <3>2
  <2>4. /\ 1 \in DOMAIN u /\ u[1] = data /\ DOMAIN u = 1 .. Len(u) /\ Len(u) \in Nat
        /\ conf' = conf
        /\ \A j \in DOMAIN w : j + 1 \in DOMAIN u /\ w[j] = u[j + 1]
    BY <2>1, <2>2, ReadFacts
  <2>w. u = Unread /\ w = Unread' /\ DOMAIN w = 1 .. Len(w)
    BY <2>2, ReadFacts
  <2> HIDE DEF u, w
  <2>5. i = 1
    BY <1>2, <2>3, <2>4, <2>w DEF OnlyAt
  <2>6. \A j \in DOMAIN w : w[j].kind \in KeyKinds
    <3>1. \A j \in DOMAIN w : j + 1 > 1
      BY <2>w
    <3>2. \A j \in DOMAIN u : j > 1 => u[j].kind \in KeyKinds
      BY <1>2, <2>5, <2>w DEF KeysBehind
    <3> QED BY <2>4, <3>1, <3>2
  <2>7. {"testController", "testPort", "enable", "reset"} \subseteq passed /\ conf.rest
    <3>1. {"testController", "testPort", "enable"} \subseteq passed
      BY <1>1 DEF Following, Tested
    <3>2. "reset" \in passed /\ conf.rest
      BY <1>2, <2>3, <2>4, <2>5
    <3> QED BY <3>1, <3>2
  <2>8. Tested'
    BY <1>1, <2>3, <2>4, <2>6, <2>7, <2>w DEF Tested
  <2>9. FirstRounds' /\ EnableRound' /\ SecondRounds'
    BY <2>3 DEF FirstRounds, EnableRound, SecondRounds
  <2> QED BY <1>4, <2>8, <2>9 DEF Following
<1> QED BY <1>5, <1>6

\* Before the first command the line holds keys, or what an earlier read left.
LEMMA FollowingBefore ==
    ASSUME KeyboardTypeOK, Places, Following, NotSupported \/ Disable \/ Flush \/ Flushed
    PROVE  Following'
<1>1. CASE NotSupported
  BY <1>1 DEF NotSupported, Following, Before, FirstRounds, EnableRound, SecondRounds, Tested
<1>2. CASE Disable
  <2>1. /\ ipc = "start" /\ ipc' = "flush" /\ ~sends' /\ round' = round /\ conf' = conf
        /\ full' = full /\ data' = data /\ pend' = pend
    BY <1>2 DEF Disable, Main
  <2>2. Unread' = Unread
    BY <2>1, UnreadSame
  <2>3. Before'
    BY <2>1, <2>2 DEF Following, Before, Lacks
  <2>4. FirstRounds' /\ EnableRound' /\ SecondRounds' /\ Tested'
    BY <2>1 DEF FirstRounds, EnableRound, SecondRounds, Tested
  <2> QED BY <2>3, <2>4 DEF Following
<1>3. CASE Flush
  <2>1. ipc = "flush" /\ ipc' = "flush" /\ ReadPort /\ round' = round
    BY <1>3 DEF Flush, Main, activation
  <2>2. round = 1 /\ conf.rest /\ ~sends /\ Lacks("00")
    BY <2>1 DEF Following, Before
  <2>3. Lacks("00")' /\ conf' = conf /\ sends' = sends
    BY <2>1, <2>2, ReadLacks, ReadFacts
  <2>4. Before'
    BY <2>1, <2>2, <2>3 DEF Before
  <2>5. FirstRounds' /\ EnableRound' /\ SecondRounds' /\ Tested'
    BY <2>1 DEF FirstRounds, EnableRound, SecondRounds, Tested
  <2> QED BY <2>4, <2>5 DEF Following
<1>4. CASE Flushed
  <2>1. /\ ipc = "flush" /\ ipc' = "send" /\ round' = round /\ conf' = conf /\ sends' = sends
        /\ full' = full /\ data' = data /\ pend' = pend
    BY <1>4 DEF Flushed, Main, port
  <2>2. Unread' = Unread
    BY <2>1, UnreadSame
  <2>3. round = 1 /\ conf.rest /\ ~sends /\ Lacks("00")
    BY <2>1 DEF Following, Before
  <2>4. Lacks("00")'
    BY <2>1, <2>2, <2>3 DEF Lacks
  <2>5. InStep'
    BY <2>1, <2>3 DEF InStep
  <2>6. FirstRounds'
    BY <2>1, <2>3, <2>4, <2>5 DEF FirstRounds
  <2>7. Before' /\ EnableRound' /\ SecondRounds' /\ Tested'
    BY <2>1, <2>3 DEF Before, EnableRound, SecondRounds, Tested
  <2> QED BY <2>6, <2>7 DEF Following
<1> QED BY <1>1, <1>2, <1>3, <1>4

\* Once the driver is registered the ring gets what is unread, and the LED
\* commands have answers of the same kinds as the last rounds.
LEMMA FollowingHandler ==
    ASSUME KeyboardTypeOK, Places, Following, Handler
    PROVE  Following'
<1>1. UNCHANGED <<ipc, round, held, conf, sends, passed>>
  BY DEF Handler, Interrupt, TopHalf, SendLED, AwaitLED, ReadPort, activation, hist
<1>2. CASE Interrupt /\ ~(ipc = "on" /\ full /\ Len(ring) < RingSize)
  <2>1. UNCHANGED <<full, data, pend>>
    BY <1>2 DEF Interrupt, TopHalf
  <2> QED BY <1>1, <2>1, UnreadSame, FollowingSame
<1>3. ASSUME ipc = "on",
             \A i \in DOMAIN Unread' : Unread'[i].kind \in KeyKinds \union {"FA", "FE"}
      PROVE  Following'
  <2>1. Before' /\ FirstRounds' /\ EnableRound' /\ SecondRounds'
    BY <1>1, <1>3 DEF Before, FirstRounds, EnableRound, SecondRounds
  <2>2. Tested'
    BY <1>1, <1>3 DEF Following, Tested
  <2> QED BY <2>1, <2>2 DEF Following
<1>4. ipc = "on" => \A i \in DOMAIN Unread : Unread[i].kind \in KeyKinds \union {"FA", "FE"}
  BY DEF Following, Tested
<1>5. CASE Interrupt /\ ipc = "on" /\ full /\ Len(ring) < RingSize
  <2>1. TopHalf
    BY <1>5 DEF Interrupt
  <2>2. full' = FALSE /\ pend' = pend /\ full
    BY <1>5, <2>1 DEF TopHalf
  <2>3. Unread' = pend /\ pend \in Seq(Bytes)
    BY <2>2 DEF Unread, KeyboardTypeOK
  <2>4. \A i \in 1 .. Len(pend) : i + 1 \in DOMAIN Unread /\ Unread[i + 1] = pend[i]
    <3>1. /\ Len(Unread) = Len(pend) + 1 /\ DOMAIN Unread = 1 .. Len(Unread)
          /\ \A i \in 1 .. Len(pend) : Unread[i + 1] = pend[i]
      BY <2>2, UnreadIs
    <3>2. Len(pend) \in Nat
      BY <2>3
    <3>3. \A i \in 1 .. Len(pend) : i + 1 \in DOMAIN Unread
      BY <3>1, <3>2
    <3> QED BY <3>1, <3>3
  <2>5. DOMAIN Unread' = 1 .. Len(pend)
    BY <2>3
  <2>6. \A i \in DOMAIN Unread' : Unread'[i].kind \in KeyKinds \union {"FA", "FE"}
    BY <1>4, <1>5, <2>3, <2>4, <2>5
  <2> QED BY <1>3, <1>5, <2>6
<1>6. CASE SendLED
  <2>1. ipc = "on" /\ full' = full /\ data' = data
    BY <1>6 DEF SendLED, Places
  <2>2. PICK a \in Answers("LED") : pend' = pend \o a
    BY <1>6 DEF SendLED
  <2>3. a \in Seq(Bytes) /\ Len(a) = 1 /\ a[1].kind \in {"FA", "FE"}
    BY AnswersAre
  <2>4. /\ Unread' \in Seq(Bytes) /\ Len(Unread') = Len(Unread) + Len(a)
        /\ \A i \in 1 .. Len(Unread) : Unread'[i] = Unread[i]
        /\ \A i \in 1 .. Len(a) : Unread'[Len(Unread) + i] = a[i]
    BY <2>1, <2>2, <2>3, UnreadMore
  <2>5. DOMAIN Unread = 1 .. Len(Unread) /\ Len(Unread) \in Nat /\ DOMAIN Unread' = 1 .. Len(Unread')
    <3>1. Unread \in Seq(Bytes)
      BY UnreadIs
    <3> QED BY <2>4, <3>1
  <2>6. Unread'[Len(Unread) + 1] = a[1]
    BY <2>3, <2>4
  <2>7. \A i \in DOMAIN Unread' : i \in DOMAIN Unread \/ i = Len(Unread) + 1
    BY <2>3, <2>4, <2>5
  <2>8. \A i \in DOMAIN Unread' : Unread'[i].kind \in KeyKinds \union {"FA", "FE"}
    BY <1>4, <2>1, <2>3, <2>4, <2>5, <2>6, <2>7
  <2> QED BY <1>3, <2>1, <2>8
<1>7. CASE AwaitLED
  <2>1. ipc = "on" /\ ReadPort
    BY <1>7 DEF AwaitLED, Places
  <2>2. /\ ~full => Unread' = Unread
        /\ full => \A i \in DOMAIN Unread' : i + 1 \in DOMAIN Unread /\ Unread'[i] = Unread[i + 1]
    BY <2>1, ReadFacts
  <2>3. \A i \in DOMAIN Unread' : Unread'[i].kind \in KeyKinds \union {"FA", "FE"}
    <3>1. CASE full
      BY <1>4, <2>1, <2>2, <3>1
    <3>2. CASE ~full
      BY <1>4, <2>1, <2>2, <3>2
    <3> QED BY <3>1, <3>2
  <2> QED BY <1>3, <2>1, <2>3
<1> QED BY <1>2, <1>5, <1>6, <1>7 DEF Handler

LEMMA FollowingKeeps ==
    ASSUME KeyboardTypeOK, InterruptEnabled, Places, Following, [KeyboardNext]_keyboardVars
    PROVE  Following'
<1>1. CASE UNCHANGED keyboardVars \/ ReadNothing \/ Read
  <2>1. UNCHANGED <<ipc, round, held, conf, passed, sends, full, data, pend>>
    BY <1>1 DEF ReadNothing, Read, keyboardVars, port, activation, hist
  <2> QED BY <2>1, UnreadSame, FollowingSame
<1>2. CASE Deliver
  <2>1. UNCHANGED <<ipc, round, held, conf, passed, sends>> /\ full'
    BY <1>2 DEF Deliver, activation, hist
  <2> QED BY <1>2, <2>1, UnreadSame, FollowingSame
<1>3. CASE PressKey
  BY <1>3, FollowingPress
<1>4. CASE NotSupported \/ Disable \/ Flush \/ Flushed
  BY <1>4, FollowingBefore
<1>5. CASE Send
  BY <1>5, FollowingSend
<1>6. CASE Receive
  BY <1>6, FollowingReceive
<1>7. CASE ReceiveSecond
  BY <1>7, FollowingReceiveSecond
<1>8. CASE Register
  <2>1. UNCHANGED <<round, conf, passed, full, data, pend>> /\ ipc = "register" /\ ipc' = "on"
    BY <1>8 DEF Register, Main, port, hist
  <2>2. Unread' = Unread
    BY <2>1, UnreadSame
  <2>3. Tested'
    BY <2>1, <2>2 DEF Following, Tested
  <2>4. Before' /\ FirstRounds' /\ EnableRound' /\ SecondRounds'
    BY <2>1 DEF Before, FirstRounds, EnableRound, SecondRounds
  <2> QED BY <2>3, <2>4 DEF Following
<1>9. CASE Handler
  BY <1>9, FollowingHandler
<1> QED BY <1>1, <1>2, <1>3, <1>4, <1>5, <1>6, <1>7, <1>8, <1>9 DEF KeyboardNext, Device, Driver

-----------------------------------------------------------------------------
(* How many bytes of a sequence are of some kinds. *)

LEMMA HowManyNat ==
    ASSUME NEW s \in Seq(Bytes), NEW K
    PROVE  /\ IsFiniteSet({i \in DOMAIN s : s[i].kind \in K})
           /\ HowMany(s, K) \in Nat
<1>1. DOMAIN s = 1 .. Len(s) /\ Len(s) \in Nat
  OBVIOUS
<1>2. IsFiniteSet(DOMAIN s)
  BY <1>1, FS_Interval
<1>3. IsFiniteSet({i \in DOMAIN s : s[i].kind \in K})
  BY <1>2, FS_Subset
<1> QED BY <1>3, FS_CardinalityType DEF HowMany

LEMMA HowManyNone ==
    ASSUME NEW s \in Seq(Bytes), NEW K, \A i \in DOMAIN s : s[i].kind \notin K
    PROVE  HowMany(s, K) = 0
<1>1. {i \in DOMAIN s : s[i].kind \in K} = {}
  OBVIOUS
<1> QED BY <1>1, FS_EmptySet DEF HowMany

LEMMA HowManyEmpty ==
    \A K : HowMany(<<>>, K) = 0
<1>1. <<>> \in Seq(Bytes) /\ DOMAIN <<>> = {}
  OBVIOUS
<1> QED BY <1>1, HowManyNone

LEMMA HowManyOne ==
    ASSUME NEW s \in Seq(Bytes), NEW K, Len(s) = 1
    PROVE  HowMany(s, K) = IF s[1].kind \in K THEN 1 ELSE 0
<1>1. DOMAIN s = {1}
  OBVIOUS
<1>2. CASE s[1].kind \in K
  <2>1. {i \in DOMAIN s : s[i].kind \in K} = {1}
    BY <1>1, <1>2
  <2> QED BY <1>2, <2>1, FS_Singleton DEF HowMany
<1>3. CASE s[1].kind \notin K
  BY <1>1, <1>3, HowManyNone
<1> QED BY <1>2, <1>3

LEMMA HowManyJoin ==
    ASSUME NEW s \in Seq(Bytes), NEW t \in Seq(Bytes), NEW K
    PROVE  HowMany(s \o t, K) = HowMany(s, K) + HowMany(t, K)
<1> DEFINE st == s \o t
           A == {i \in DOMAIN s : s[i].kind \in K}
           B == {i \in DOMAIN t : t[i].kind \in K}
           C == {i \in DOMAIN st : st[i].kind \in K}
           D == {i \in C : i > Len(s)}
           f == [i \in B |-> i + Len(s)]
<1>1. /\ DOMAIN s = 1 .. Len(s) /\ DOMAIN t = 1 .. Len(t)
      /\ Len(s) \in Nat /\ Len(t) \in Nat
      /\ st \in Seq(Bytes) /\ DOMAIN st = 1 .. Len(s) + Len(t)
      /\ \A i \in 1 .. Len(s) : st[i] = s[i]
      /\ \A i \in 1 .. Len(t) : st[i + Len(s)] = t[i]
  OBVIOUS
<1> HIDE DEF st
<1>2. C = A \union D /\ A \intersect D = {}
  BY <1>1
<1>3. f \in Bijection(B, D)
  <2>1. \A i \in B : f[i] \in D
    BY <1>1
  <2>2. \A i, j \in B : f[i] = f[j] => i = j
    BY <1>1
  <2>3. \A d \in D : \E i \in B : f[i] = d
    <3> SUFFICES ASSUME NEW d \in D PROVE \E i \in B : f[i] = d
      OBVIOUS
    <3>1. d \in Nat /\ d > Len(s) /\ d <= Len(s) + Len(t) /\ st[d].kind \in K
      BY <1>1
    <3>2. d - Len(s) \in 1 .. Len(t) /\ (d - Len(s)) + Len(s) = d
      BY <1>1, <3>1
    <3>3. d - Len(s) \in B
      BY <1>1, <3>1, <3>2
    <3> QED BY <3>2, <3>3
  <2>4. f \in [B -> D]
    BY <2>1
  <2> QED BY <2>2, <2>3, <2>4 DEF Bijection, Injection, Surjection, IsInjective
<1>4. IsFiniteSet(A) /\ IsFiniteSet(B)
  BY HowManyNat
<1>5. IsFiniteSet(D) /\ Cardinality(D) = Cardinality(B)
  BY <1>3, <1>4, FS_Bijection DEF ExistsBijection
<1>6. Cardinality(A) \in Nat /\ Cardinality(B) \in Nat
  BY <1>4, FS_CardinalityType
<1>7. Cardinality(A \union D) = Cardinality(A) + Cardinality(D)
  <2>1. Cardinality(A \union D) = Cardinality(A) + Cardinality(D) - Cardinality(A \intersect D)
    BY <1>4, <1>5, FS_Union
  <2>2. Cardinality(A \intersect D) = 0
    BY <1>2, FS_EmptySet
  <2> QED BY <1>5, <1>6, <2>1, <2>2
<1>8. HowMany(s, K) = Cardinality(A) /\ HowMany(t, K) = Cardinality(B)
      /\ HowMany(st, K) = Cardinality(C)
  BY DEF HowMany
<1> QED BY <1>2, <1>5, <1>6, <1>7, <1>8 DEF st

-----------------------------------------------------------------------------
(* The keys. *)

\* What is put into the ring, and read out of it, is a key or an answer that
\* the driver takes for one.
LEMMA NotTypedKeeps ==
    ASSUME KeyboardTypeOK, Following, OnlyAcksTyped, [KeyboardNext]_keyboardVars
    PROVE  OnlyAcksTyped'
<1> DEFINE Typed(b) == IsKey(b) \/ b.kind \in {"FA", "FE"}
<1>1. /\ ring \in Seq(Bytes) /\ received \in Seq(Bytes)
      /\ \A i \in DOMAIN ring : Typed(ring[i])
      /\ \A i \in DOMAIN received : Typed(received[i])
  BY DEF KeyboardTypeOK, OnlyAcksTyped, ToSet
<1>2. CASE Read
  <2>1. ring # <<>> /\ received' = Append(received, Head(ring)) /\ ring' = Tail(ring)
    BY <1>2 DEF Read
  <2>2. Typed(Head(ring))
    BY <1>1, <2>1
  <2>3. \A i \in DOMAIN ring' : Typed(ring'[i])
    <3>1. \A i \in DOMAIN ring' : i + 1 \in DOMAIN ring /\ ring'[i] = ring[i + 1]
      BY <1>1, <2>1
    <3> QED BY <1>1, <3>1
  <2>4. \A i \in DOMAIN received' : Typed(received'[i])
    <3>1. \A i \in DOMAIN received' :
              \/ i \in DOMAIN received /\ received'[i] = received[i]
              \/ received'[i] = Head(ring)
      BY <1>1, <2>1
    <3> QED BY <1>1, <2>2, <3>1
  <2> QED BY <2>3, <2>4 DEF OnlyAcksTyped, ToSet
<1>3. CASE Interrupt /\ ipc = "on" /\ full /\ Len(ring) < RingSize
  <2>1. received' = received /\ ring' = Append(ring, data) /\ data \in Bytes
    BY <1>3 DEF Interrupt, TopHalf, KeyboardTypeOK
  <2>2. Typed(data)
    <3>1. data.kind \in KeyKinds \union {"FA", "FE"}
      <4>1. 1 \in DOMAIN Unread /\ Unread[1] = data
        <5>1. Len(Unread) >= 1 /\ Unread[1] = data /\ Unread \in Seq(Bytes)
          BY <1>3, UnreadIs
        <5> QED BY <5>1
      <4> QED BY <1>3, <4>1 DEF Following, Tested
    <3> QED BY <2>1, <3>1, KeyKindsAre
  <2>3. \A i \in DOMAIN ring' : Typed(ring'[i])
    <3>1. \A i \in DOMAIN ring' : (i \in DOMAIN ring /\ ring'[i] = ring[i]) \/ ring'[i] = data
      BY <1>1, <2>1
    <3> QED BY <1>1, <2>2, <3>1
  <2> QED BY <1>1, <2>1, <2>3 DEF OnlyAcksTyped, ToSet
<1>4. CASE Interrupt /\ ~(ipc = "on" /\ full /\ Len(ring) < RingSize)
  <2>1. UNCHANGED <<ring, received>>
    BY <1>4 DEF Interrupt, TopHalf
  <2> QED BY <2>1 DEF OnlyAcksTyped, ToSet
<1>5. CASE UNCHANGED <<ring, received>>
  BY <1>5 DEF OnlyAcksTyped, ToSet
<1>6. CASE Device \/ Send \/ Receive \/ ReceiveSecond \/ SendLED \/ AwaitLED
  BY <1>5, <1>6 DEF Device, Deliver, PressKey, Send, Receive, ReceiveSecond, SendLED, AwaitLED
<1>7. CASE NotSupported \/ Disable \/ Flush \/ Flushed \/ Register \/ ReadNothing \/ UNCHANGED keyboardVars
  BY <1>5, <1>7 DEF NotSupported, Disable, Flush, Flushed, Register, ReadNothing, keyboardVars
<1> QED BY <1>2, <1>3, <1>4, <1>6, <1>7 DEF KeyboardNext, Driver, Handler

\* Answers add no key.
LEMMA NoKeysInAnswers ==
    ASSUME NEW c, NEW a \in Answers(c)
    PROVE  a \in Seq(Bytes) /\ \A i \in DOMAIN a : ~IsKey(a[i])
<1>1. a \in Seq(Bytes)
  BY AnswersAre
<1>2. \A i \in DOMAIN a : a[i] \in Bytes
  BY <1>1
<1>3. \A i \in DOMAIN a : a[i].kind \notin KeyKinds
  <2>1. CASE c = "configure"
    BY <2>1, AnswersAre
  <2>2. CASE c = "reset"
    <3>1. Len(a) = 2 /\ a[1].kind = "FA" /\ a[2].kind \in {"AA", "FC"}
      BY <2>2, AnswersAre
    <3>2. \A i \in DOMAIN a : i = 1 \/ i = 2
      BY <1>1, <3>1
    <3> QED BY <3>1, <3>2 DEF KeyKinds
  <2>3. CASE c \notin {"configure", "reset"}
    <3>1. Len(a) = 1 /\ a[1].kind \in {"config", "55", "00", "FC", "FA", "FE"}
      BY <2>3, AnswersAre
    <3>2. \A i \in DOMAIN a : i = 1
      BY <1>1, <3>1
    <3> QED BY <3>1, <3>2 DEF KeyKinds
  <2> QED BY <2>1, <2>2, <2>3
<1> QED BY <1>1, <1>2, <1>3, KeyKindsAre

LEMMA BytesAssociative ==
    \A s1, s2, s3 \in Seq(Bytes) : (s1 \o s2) \o s3 = s1 \o (s2 \o s3)
BY ONLY ConcatAssociative, SMTT(60)

\* Bytes behind the others, none of them a key, or one that is a later key.
LEMMA KeysMore ==
    ASSUME NEW s \in Seq(Bytes), NEW a \in Seq(Bytes), NEW K, KeysAre(s, K),
           \A i \in DOMAIN a : ~IsKey(a[i])
    PROVE  KeysAre(s \o a, K)
<1> DEFINE t == s \o a
<1>1. /\ DOMAIN s \subseteq DOMAIN t /\ DOMAIN t \subseteq Int /\ DOMAIN s = 1 .. Len(s) /\ Len(s) \in Nat
      /\ \A i \in DOMAIN s : t[i] = s[i]
  OBVIOUS
<1>2. \A i \in DOMAIN t : i \notin DOMAIN s => ~IsKey(t[i])
  <2> SUFFICES ASSUME NEW i \in DOMAIN t, i \notin DOMAIN s PROVE ~IsKey(t[i])
    OBVIOUS
  <2>1. i - Len(s) \in DOMAIN a /\ t[i] = a[i - Len(s)]
    OBVIOUS
  <2> QED BY <2>1
<1> HIDE DEF t
<1>3. {i \in DOMAIN t : IsKey(t[i])} = {i \in DOMAIN s : IsKey(s[i])}
  BY <1>1, <1>2
<1>4. {t[i].n : i \in {i \in DOMAIN t : IsKey(t[i])}} = {s[i].n : i \in {i \in DOMAIN s : IsKey(s[i])}}
  BY <1>1, <1>3
<1>5. {t[i].n : i \in {i \in DOMAIN t : IsKey(t[i])}} = K
  BY <1>4 DEF KeysAre
<1>6. \A i, j \in DOMAIN t : i < j /\ IsKey(t[i]) /\ IsKey(t[j]) => t[i].n < t[j].n
  BY <1>1, <1>2 DEF KeysAre
<1>7. KeysAre(t, K)
  BY <1>5, <1>6 DEF KeysAre
<1> QED BY <1>7 DEF t

LEMMA KeyMore ==
    ASSUME NEW s \in Seq(Bytes), NEW b \in Bytes, NEW K, KeysAre(s, K),
           IsKey(b), \A k \in K : k < b.n
    PROVE  KeysAre(s \o <<b>>, K \union {b.n})
<1> DEFINE t == s \o <<b>>
           p == Len(s) + 1
<1>1. /\ DOMAIN t = 1 .. p /\ DOMAIN s = 1 .. Len(s) /\ Len(s) \in Nat
      /\ \A i \in DOMAIN s : t[i] = s[i]
      /\ t[p] = b
  OBVIOUS
<1>2. p \in Int /\ p \in DOMAIN t /\ \A i \in DOMAIN t : i \in DOMAIN s \/ i = p
  BY <1>1
<1>3. \A i \in DOMAIN s : i \in DOMAIN t /\ i < p /\ i # p
  BY <1>1
<1> HIDE DEF t, p
<1>4. {t[i].n : i \in {i \in DOMAIN t : IsKey(t[i])}} = K \union {b.n}
  <2>1. \A k : k \in K <=> \E i \in DOMAIN s : IsKey(s[i]) /\ k = s[i].n
    BY DEF KeysAre
  <2>2. \A k : k \in K \union {b.n} <=> \E i \in DOMAIN t : IsKey(t[i]) /\ k = t[i].n
    BY <1>1, <1>2, <1>3, <2>1
  <2> QED BY <2>2
<1>5. \A i, j \in DOMAIN t : i < j /\ IsKey(t[i]) /\ IsKey(t[j]) => t[i].n < t[j].n
  <2> SUFFICES ASSUME NEW i \in DOMAIN t, NEW j \in DOMAIN t, i < j, IsKey(t[i]), IsKey(t[j])
               PROVE  t[i].n < t[j].n
    OBVIOUS
  <2>1. i \in DOMAIN s
    BY <1>1, <1>2
  <2>2. CASE j \in DOMAIN s
    BY <1>1, <2>1, <2>2 DEF KeysAre
  <2>3. CASE j = p
    <3>1. t[i].n \in K
      BY <1>1, <2>1 DEF KeysAre
    <3> QED BY <1>1, <2>3, <3>1
  <2> QED BY <1>2, <2>2, <2>3
<1>6. KeysAre(t, K \union {b.n})
  BY <1>4, <1>5 DEF KeysAre
<1> QED BY <1>6 DEF t

\* A byte is taken out.
LEMMA KeysLess ==
    ASSUME NEW s \in Seq(Bytes), NEW t \in Seq(Bytes), NEW K, KeysAre(s, K),
           NEW p \in DOMAIN s, Len(t) = Len(s) - 1,
           \A i \in DOMAIN t : t[i] = s[IF i < p THEN i ELSE i + 1]
    PROVE  KeysAre(t, IF IsKey(s[p]) THEN K \ {s[p].n} ELSE K)
<1> DEFINE g(i) == IF i < p THEN i ELSE i + 1
           J == IF IsKey(s[p]) THEN K \ {s[p].n} ELSE K
<1>1. DOMAIN s = 1 .. Len(s) /\ DOMAIN t = 1 .. Len(s) - 1 /\ Len(s) \in Nat /\ p \in Int
  OBVIOUS
<1>2. \A i \in DOMAIN t : g(i) \in DOMAIN s /\ g(i) # p /\ t[i] = s[g(i)]
  BY <1>1
<1>3. \A j \in DOMAIN s : j # p => \E i \in DOMAIN t : j = g(i)
  <2> SUFFICES ASSUME NEW j \in DOMAIN s, j # p PROVE \E i \in DOMAIN t : j = g(i)
    OBVIOUS
  <2>1. CASE j < p
    BY <1>1, <2>1
  <2>2. CASE ~(j < p)
    <3>1. j - 1 \in DOMAIN t /\ g(j - 1) = j
      BY <1>1, <2>2
    <3> QED BY <3>1
  <2> QED BY <2>1, <2>2
<1>4. \A i, j \in DOMAIN t : i < j => g(i) < g(j)
  BY <1>1
<1>5. \A i, j \in DOMAIN s : IsKey(s[i]) /\ IsKey(s[j]) /\ i # j => s[i].n # s[j].n
  <2> SUFFICES ASSUME NEW i \in DOMAIN s, NEW j \in DOMAIN s, IsKey(s[i]), IsKey(s[j]), i # j
               PROVE  s[i].n # s[j].n
    OBVIOUS
  <2>1. s[i] \in Bytes /\ s[j] \in Bytes
    OBVIOUS
  <2>2. s[i].n \in Int /\ s[j].n \in Int
    <3>1. MaxPresses \in Nat
      BY KeyboardAssumption
    <3> QED BY <2>1, <3>1, KeyKindsAre
  <2>3. i < j \/ j < i
    BY <1>1
  <2>4. s[i].n < s[j].n \/ s[j].n < s[i].n
    BY <2>3 DEF KeysAre
  <2> QED BY <2>2, <2>4
<1> HIDE DEF g
<1>6. \A k : k \in K <=> \E i \in DOMAIN s : IsKey(s[i]) /\ k = s[i].n
  BY DEF KeysAre
<1>7. \A k : k \in J <=> \E i \in DOMAIN s : i # p /\ IsKey(s[i]) /\ k = s[i].n
  <2>1. CASE IsKey(s[p])
    BY <1>5, <1>6, <2>1
  <2>2. CASE ~IsKey(s[p])
    BY <1>6, <2>2
  <2> QED BY <2>1, <2>2
<1>8. \A k : k \in J <=> \E i \in DOMAIN t : IsKey(t[i]) /\ k = t[i].n
  <2>1. ASSUME NEW k, NEW j \in DOMAIN s, j # p, IsKey(s[j]), k = s[j].n
        PROVE  \E i \in DOMAIN t : IsKey(t[i]) /\ k = t[i].n
    BY <1>2, <1>3, <2>1
  <2>2. ASSUME NEW k, NEW i \in DOMAIN t, IsKey(t[i]), k = t[i].n
        PROVE  \E j \in DOMAIN s : j # p /\ IsKey(s[j]) /\ k = s[j].n
    BY <1>2, <2>2
  <2> QED BY <1>7, <2>1, <2>2
<1> HIDE DEF J
<1>9. {t[i].n : i \in {i \in DOMAIN t : IsKey(t[i])}} = J
  BY <1>8
<1>10. \A i, j \in DOMAIN t : i < j /\ IsKey(t[i]) /\ IsKey(t[j]) => t[i].n < t[j].n
  BY <1>2, <1>4 DEF KeysAre
<1>11. KeysAre(t, J)
  BY <1>9, <1>10 DEF KeysAre
<1> QED BY <1>11 DEF J


\* A read outside the ring's way takes a key, which is lost then, or none.
LEMMA KeysRead ==
    ASSUME KeyboardTypeOK, ReadPort, Lose, UNCHANGED <<received, ring, pressed>>,
           LostOnlyInDialogues, lost \subseteq 1 .. pressed
    PROVE  LostOnlyInDialogues' /\ lost' \subseteq 1 .. pressed'
<1>1. CASE ~full
  <2>1. Unread' = Unread /\ lost' = lost
    BY <1>1, UnreadRead DEF Lose
  <2> QED BY <2>1 DEF LostOnlyInDialogues
<1>2. CASE full
  <2>1. PICK h \in Seq(Bytes), u \in Seq(Bytes), v \in Seq(Bytes) :
            /\ h = received \o ring /\ u = Unread /\ v = Unread'
            /\ Len(u) >= 1 /\ u[1] = data /\ Len(v) = Len(u) - 1
            /\ \A i \in 1 .. Len(u) - 1 : v[i] = u[i + 1]
    <3>1. received \in Seq(Bytes) /\ ring \in Seq(Bytes)
      BY DEF KeyboardTypeOK
    <3>2. received \o ring \in Seq(Bytes)
      BY <3>1
    <3> QED BY <1>2, <3>2, UnreadIs, UnreadRead
  <2>2. PICK s \in Seq(Bytes), t \in Seq(Bytes), p \in Nat : s = h \o u /\ t = h \o v /\ p = Len(h) + 1
    <3>1. h \o u \in Seq(Bytes) /\ h \o v \in Seq(Bytes)
      BY ConcatProperties
    <3>2. Len(h) + 1 \in Nat
      OBVIOUS
    <3> QED BY <3>1, <3>2
  <2>3. /\ p \in DOMAIN s /\ s[p] = data /\ Len(t) = Len(s) - 1
        /\ \A i \in DOMAIN t : t[i] = s[IF i < p THEN i ELSE i + 1]
    <3>1. Len(s) = Len(h) + Len(u) /\ Len(t) = Len(h) + Len(v) /\ Len(h) \in Nat /\ Len(u) \in Nat
          /\ Len(v) \in Nat
      BY <2>2
    <3>2. p \in DOMAIN s /\ s[p] = data /\ Len(t) = Len(s) - 1
      BY <2>1, <2>2, <3>1
    <3>3. ASSUME NEW i \in DOMAIN t PROVE t[i] = s[IF i < p THEN i ELSE i + 1]
      <4>1. CASE i < p
        BY <2>2, <3>1, <4>1
      <4>2. CASE ~(i < p)
        <5>1. i - Len(h) \in 1 .. Len(v) /\ t[i] = v[i - Len(h)]
          BY <2>2, <3>1, <4>2
        <5>2. v[i - Len(h)] = u[(i - Len(h)) + 1]
          BY <2>1, <5>1
        <5>3. s[i + 1] = u[(i - Len(h)) + 1]
          <6>1. /\ i + 1 \in 1 .. Len(h) + Len(u) /\ ~(i + 1 <= Len(h))
                /\ (i + 1) - Len(h) = (i - Len(h)) + 1
            <7>1. i \in Nat /\ i > Len(h) /\ i <= Len(h) + Len(v)
              BY <2>2, <3>1, <4>2
            <7>2. Len(v) = Len(u) - 1
              BY <2>1
            <7> QED BY <3>1, <7>1, <7>2
          <6>2. s[i + 1] = u[(i + 1) - Len(h)]
            BY <2>2, <6>1, ConcatProperties
          <6> QED BY <6>1, <6>2
        <5> QED BY <4>2, <5>1, <5>2, <5>3
      <4> QED BY <4>1, <4>2
    <3> QED BY <3>2, <3>3
  <2>4. KeysAre(s, (1 .. pressed) \ lost)
    BY <2>1, <2>2 DEF LostOnlyInDialogues
  <2>5. IsKey(data) => data.n \in 1 .. pressed
    BY <2>3, <2>4 DEF KeysAre
  <2>6. lost' = IF IsKey(data) THEN lost \union {data.n} ELSE lost
    BY <1>2 DEF Lose
  <2>7. KeysAre(t, (1 .. pressed') \ lost')
    <3>1. KeysAre(t, IF IsKey(data) THEN ((1 .. pressed) \ lost) \ {data.n} ELSE (1 .. pressed) \ lost)
      BY <2>3, <2>4, KeysLess
    <3>2. pressed' = pressed
      OBVIOUS
    <3>3. (1 .. pressed') \ lost' =
             IF IsKey(data) THEN ((1 .. pressed) \ lost) \ {data.n} ELSE (1 .. pressed) \ lost
      BY <2>6, <3>2
    <3> QED BY <3>1, <3>3
  <2>8. LostOnlyInDialogues'
    BY <2>1, <2>2, <2>7 DEF LostOnlyInDialogues
  <2>9. lost' \subseteq 1 .. pressed'
    BY <2>5, <2>6
  <2> QED BY <2>8, <2>9
<1> QED BY <1>1, <1>2

\* The keys stay in order, wherever they are on their way, and only a
\* dialogue's read takes one.
LEMMA KeysKeep ==
    ASSUME KeyboardTypeOK, LostOnlyInDialogues, lost \subseteq 1 .. pressed,
           [KeyboardNext]_keyboardVars
    PROVE  LostOnlyInDialogues' /\ lost' \subseteq 1 .. pressed'
<1>0. /\ received \in Seq(Bytes) /\ ring \in Seq(Bytes) /\ pend \in Seq(Bytes) /\ data \in Bytes
      /\ Unread \in Seq(Bytes)
  BY UnreadIs DEF KeyboardTypeOK
<1>1. CASE PressKey
  <2>1. PICK b \in Bytes : b \in Keys /\ b.n = pressed + 1 /\ pend' = pend \o <<b>>
    <3>1. pressed' = pressed + 1 /\ pressed' \in 1 .. MaxPresses
      <4>1. pressed \in Nat /\ pressed < MaxPresses /\ MaxPresses \in Nat /\ pressed' = pressed + 1
        BY <1>1, KeyboardAssumption DEF PressKey, KeyboardTypeOK
      <4> QED BY <4>1
    <3>2. PICK k \in {"plain", "equal", "lock"} : pend' = Append(pend, [kind |-> k, n |-> pressed'])
      BY <1>1 DEF PressKey
    <3>3. [kind |-> k, n |-> pressed'] \in Keys
      BY <3>1 DEF Keys
    <3>4. PICK b \in Keys : b = [kind |-> k, n |-> pressed']
      BY <3>3
    <3>5. b \in Bytes /\ b.n = pressed + 1
      BY <3>1, <3>4 DEF Bytes
    <3>6. pend' = pend \o <<b>>
      BY <1>0, <3>2, <3>4, <3>5, AppendIsConcat
    <3> QED BY <3>4, <3>5, <3>6
  <2>2. <<b>> \in Seq(Bytes)
    OBVIOUS
  <2>3. UNCHANGED <<full, data, ring, received, lost>> /\ pressed' = pressed + 1
        /\ pressed \in Nat /\ MaxPresses \in Nat
    BY <1>1, KeyboardAssumption DEF PressKey, KeyboardTypeOK
  <2>4. Unread' = Unread \o <<b>>
    BY <2>1, <2>2, <2>3, UnreadMore
  <2>5. PICK s \in Seq(Bytes) : s = received \o ring \o Unread
    <3>1. received \o ring \in Seq(Bytes)
      BY <1>0, ConcatProperties
    <3>2. received \o ring \o Unread \in Seq(Bytes)
      BY <1>0, <3>1, ConcatProperties
    <3> QED BY <3>2
  <2>6. (received \o ring \o Unread)' = s \o <<b>>
    <3>0. received \o ring \in Seq(Bytes)
      BY <1>0, ConcatProperties
    <3>1. (received \o ring) \o (Unread \o <<b>>) = ((received \o ring) \o Unread) \o <<b>>
      BY <1>0, <3>0, <2>2, BytesAssociative
    <3> QED BY <2>3, <2>4, <2>5, <3>1
  <2>7. KeysAre(s \o <<b>>, ((1 .. pressed) \ lost) \union {b.n})
    <3>1. IsKey(b)
      BY <2>1, <2>3 DEF IsKey
    <3>2. \A k \in (1 .. pressed) \ lost : k < b.n
      BY <2>1, <2>3
    <3>3. KeysAre(s, (1 .. pressed) \ lost)
      BY <2>5 DEF LostOnlyInDialogues
    <3> QED BY <3>1, <3>2, <3>3, KeyMore
  <2>8. ((1 .. pressed) \ lost) \union {b.n} = (1 .. pressed') \ lost'
    BY <2>1, <2>3
  <2>9. LostOnlyInDialogues'
    BY <2>6, <2>7, <2>8 DEF LostOnlyInDialogues
  <2>10. lost' \subseteq 1 .. pressed'
    BY <2>3
  <2> QED BY <2>9, <2>10
<1>2. CASE Send \/ SendLED
  <2>1. PICK a \in Seq(Bytes) : pend' = pend \o a /\ \A i \in DOMAIN a : ~IsKey(a[i])
    <3>1. CASE Send
      <4>1. PICK a \in Answers(Command) : pend' = pend \o a
        BY <3>1 DEF Send
      <4> QED BY <4>1, NoKeysInAnswers
    <3>2. CASE SendLED
      <4>1. PICK a \in Answers("LED") : pend' = pend \o a
        BY <3>2 DEF SendLED
      <4> QED BY <4>1, NoKeysInAnswers
    <3> QED BY <1>2, <3>1, <3>2
  <2>2. UNCHANGED <<full, data, ring, received, lost, pressed>>
    BY <1>2 DEF Send, SendLED, hist
  <2>3. Unread' = Unread \o a
    BY <2>1, <2>2, UnreadMore
  <2>4. PICK s \in Seq(Bytes) : s = received \o ring \o Unread
    <3>1. received \o ring \in Seq(Bytes)
      BY <1>0, ConcatProperties
    <3>2. received \o ring \o Unread \in Seq(Bytes)
      BY <1>0, <3>1, ConcatProperties
    <3> QED BY <3>2
  <2>5. (received \o ring \o Unread)' = s \o a
    <3>0. received \o ring \in Seq(Bytes)
      BY <1>0, ConcatProperties
    <3>1. (received \o ring) \o (Unread \o a) = ((received \o ring) \o Unread) \o a
      <4>1. a \in Seq(Bytes)
        BY <2>1
      <4> QED BY <1>0, <3>0, <4>1, BytesAssociative
    <3> QED BY <2>2, <2>3, <2>4, <3>1
  <2>6. KeysAre(s, (1 .. pressed) \ lost)
    BY <2>4 DEF LostOnlyInDialogues
  <2>7. KeysAre(s \o a, (1 .. pressed) \ lost)
    BY <2>1, <2>6, KeysMore
  <2> QED BY <2>2, <2>5, <2>7 DEF LostOnlyInDialogues
<1>3. CASE Read
  <2>1. /\ ring # <<>> /\ received' = Append(received, Head(ring)) /\ ring' = Tail(ring)
        /\ UNCHANGED <<full, data, pend, pressed, lost>>
    BY <1>3 DEF Read, port, hist
  <2>2. received' \o ring' = received \o ring
    <3>1. Head(ring) \in Bytes /\ Tail(ring) \in Seq(Bytes) /\ ring = <<Head(ring)>> \o Tail(ring)
      BY <1>0, <2>1
    <3>2. Append(received, Head(ring)) = received \o <<Head(ring)>>
      BY <1>0, <3>1, AppendIsConcat
    <3>3. (received \o <<Head(ring)>>) \o Tail(ring) = received \o (<<Head(ring)>> \o Tail(ring))
      BY <1>0, <3>1
    <3> QED BY <2>1, <3>1, <3>2, <3>3
  <2>3. Unread' = Unread
    BY <2>1, UnreadSame
  <2> QED BY <2>1, <2>2, <2>3 DEF LostOnlyInDialogues
<1>4. CASE Interrupt
  <2>1. UNCHANGED <<received, pressed, lost>>
    BY <1>4 DEF Interrupt
  <2>2. CASE ipc = "on" /\ full /\ Len(ring) < RingSize
    <3>1. ring' = Append(ring, data) /\ full' = FALSE /\ pend' = pend
      BY <1>4, <2>2 DEF Interrupt, TopHalf
    <3>2. Unread = <<data>> \o pend /\ Unread' = pend
      BY <1>0, <2>2, <3>1 DEF Unread
    <3>3. received \o ring' \o Unread' = received \o ring \o Unread
      <4>1. ring' = ring \o <<data>>
        BY <1>0, <3>1
      <4>2. (received \o (ring \o <<data>>)) \o pend = (received \o ring) \o (<<data>> \o pend)
        <5>1. <<data>> \in Seq(Bytes) /\ received \o ring \in Seq(Bytes)
          BY <1>0
        <5>2. (received \o ring) \o <<data>> = received \o (ring \o <<data>>)
          BY <1>0, <5>1, BytesAssociative
        <5>3. ((received \o ring) \o <<data>>) \o pend = (received \o ring) \o (<<data>> \o pend)
          BY <1>0, <5>1, BytesAssociative
        <5> QED BY <5>2, <5>3
      <4> QED BY <3>2, <4>1, <4>2
    <3> QED BY <2>1, <3>3 DEF LostOnlyInDialogues
  <2>3. CASE ~(ipc = "on" /\ full /\ Len(ring) < RingSize)
    <3>1. UNCHANGED <<ring, full, data, pend>>
      BY <1>4, <2>3 DEF Interrupt, TopHalf
    <3> QED BY <2>1, <3>1, UnreadSame DEF LostOnlyInDialogues
  <2> QED BY <2>2, <2>3
<1>5. CASE Flush \/ Receive \/ AwaitLED
  BY <1>5, KeysRead DEF Flush, Receive, AwaitLED
<1>6. CASE ReceiveSecond
  <2>1. CASE full
    BY <1>6, <2>1, KeysRead DEF ReceiveSecond
  <2>2. CASE ~full
    <3>1. UNCHANGED <<full, data, pend, received, ring, pressed, lost>>
      BY <1>6, <2>2 DEF ReceiveSecond, port
    <3> QED BY <3>1, UnreadSame DEF LostOnlyInDialogues
  <2> QED BY <2>1, <2>2
<1>7. CASE Deliver
  <2>1. UNCHANGED <<received, ring, pressed, lost>> /\ Unread' = Unread
    BY <1>7, UnreadSame DEF Deliver, hist
  <2> QED BY <2>1 DEF LostOnlyInDialogues
<1>8. CASE NotSupported \/ Disable \/ Flushed \/ Register \/ ReadNothing \/ UNCHANGED keyboardVars
  <2>1. UNCHANGED <<full, data, pend, received, ring, pressed, lost>>
    BY <1>8 DEF NotSupported, Disable, Flushed, Register, ReadNothing, keyboardVars, port, hist
  <2> QED BY <2>1, UnreadSame DEF LostOnlyInDialogues
<1> QED BY <1>1, <1>2, <1>3, <1>4, <1>5, <1>6, <1>7, <1>8 DEF KeyboardNext, Device, Driver, Handler

-----------------------------------------------------------------------------
(* The acknowledgements. *)

\* A read takes an acknowledgement or something else, or nothing.
LEMMA ReadCounts ==
    ASSUME KeyboardTypeOK, ReadPort
    PROVE  /\ full' = FALSE /\ data' = data
           /\ HowMany(Unread, Acks) \in Nat /\ HowMany(Unread', Acks) \in Nat
           /\ ~full => HowMany(Unread', Acks) = HowMany(Unread, Acks)
           /\ full => HowMany(Unread, Acks)
                        = HowMany(Unread', Acks) + (IF data.kind \in Acks THEN 1 ELSE 0)
<1>1. full' = FALSE /\ data' = data /\ pend' = pend /\ pend \in Seq(Bytes) /\ data \in Bytes
      /\ Unread \in Seq(Bytes) /\ full \in BOOLEAN
  BY UnreadIs DEF ReadPort, KeyboardTypeOK
<1>2. Unread' = pend
  BY <1>1 DEF Unread
<1>3. HowMany(Unread, Acks) \in Nat /\ HowMany(pend, Acks) \in Nat
  BY <1>1, HowManyNat
<1>4. CASE full
  <2>0. <<data>> \in Seq(Bytes) /\ Len(<<data>>) = 1 /\ <<data>>[1] = data
    BY <1>1
  <2>1. PICK d \in Seq(Bytes) : d = <<data>> /\ Len(d) = 1 /\ d[1] = data
    BY <2>0
  <2>2. Unread = d \o pend
    BY <1>4, <2>1 DEF Unread
  <2>3. HowMany(d \o pend, Acks) = HowMany(d, Acks) + HowMany(pend, Acks)
    BY <1>1, HowManyJoin
  <2>4. HowMany(d, Acks) = IF data.kind \in Acks THEN 1 ELSE 0
    BY <2>1, HowManyOne
  <2> QED BY <1>1, <1>2, <1>3, <1>4, <2>2, <2>3, <2>4
<1>5. CASE ~full
  <2>1. Unread' = Unread
    BY <1>2, <1>5, UnreadIs
  <2> QED BY <1>1, <1>2, <1>3, <1>5, <2>1
<1> QED BY <1>1, <1>4, <1>5

LEMMA MoreCounts ==
    ASSUME KeyboardTypeOK, NEW a \in Seq(Bytes), pend' = pend \o a, full' = full, data' = data
    PROVE  /\ HowMany(Unread, Acks) \in Nat /\ HowMany(a, Acks) \in Nat
           /\ HowMany(Unread', Acks) = HowMany(Unread, Acks) + HowMany(a, Acks)
<1>1. Unread \in Seq(Bytes) /\ Unread' = Unread \o a
  BY UnreadIs, UnreadMore
<1> QED BY <1>1, HowManyNat, HowManyJoin

\* Steps that move no byte but into the data register.
LEMMA AcksSame ==
    ASSUME AcksInv, UNCHANGED <<ipc, round, hpc, received, ring>>,
           HowMany(Unread', Acks) = HowMany(Unread, Acks),
           full' \/ UNCHANGED <<full, data>>
    PROVE  AcksInv'
BY DEF AcksInv, AcksOut, Dialogues

\* Before the handler is registered there is nothing in the ring, and only the
\* last two rounds count acknowledgements.
LEMMA AcksEarly ==
    ASSUME AcksInv, ipc # "on", ipc' \notin {"register", "on"}, hpc' = "no",
           UNCHANGED <<received, ring>>, ipc' \in {"send", "read"} => round' \notin 9 .. 10
    PROVE  AcksInv'
<1>1. round' # 9
  \/ ipc' \notin {"send", "read"}
  OBVIOUS
<1> QED BY <1>1 DEF AcksInv

LEMMA AcksSend ==
    ASSUME KeyboardTypeOK, InterruptEnabled, Places, AcksInv, Send
    PROVE  AcksInv'
<1>1. /\ ipc = "send" /\ hpc = "no" /\ hpc' = "no"
      /\ UNCHANGED <<received, ring, full, data>>
      /\ round \in 1 .. 10
  BY DEF Send, Main, led, InterruptEnabled
<1>2. CASE round \in 9 .. 10
  <2>1. Command \notin {"readConfig", "testController", "testPort", "reset", "configure"}
    BY <1>2, DialogueIs DEF Command
  <2>2. PICK a \in Answers(Command) : pend' = pend \o a
    BY DEF Send
  <2>3. a \in Seq(Bytes) /\ Len(a) = 1
    BY <2>1, AnswersAre
  <2>4. HowMany(a, Acks) <= 1
    BY <2>3, HowManyOne
  <2>5. HowMany(Unread', Acks) = HowMany(Unread, Acks) + HowMany(a, Acks)
        /\ HowMany(Unread, Acks) \in Nat /\ HowMany(a, Acks) \in Nat
    BY <1>1, <2>2, <2>3, MoreCounts
  <2>6. ipc' = "read" /\ round' = round
    BY <2>1 DEF Send
  <2>7. HowMany(Unread, Acks) <= 0
    BY <1>1, <1>2 DEF AcksInv
  <2>8. HowMany(Unread', Acks) <= 1
    BY <2>4, <2>5, <2>7
  <2> QED BY <1>1, <1>2, <2>6, <2>8 DEF AcksInv
<1>3. CASE round \notin 9 .. 10
  <2>1. ipc' \in {"send", "read"} /\ (round' = round \/ (Command = "configure" /\ round' = round + 1))
    BY <1>1 DEF Send
  <2>2. Command = "configure" => round \in {2, 7}
    BY <1>1, DialogueIs DEF Command
  <2>3. round' \notin 9 .. 10
    BY <1>1, <1>3, <2>1, <2>2
  <2> QED BY <1>1, <2>1, <2>3, AcksEarly
<1> QED BY <1>2, <1>3

LEMMA AcksReceive ==
    ASSUME KeyboardTypeOK, InterruptEnabled, Places, AcksInv, Receive
    PROVE  AcksInv'
<1>1. /\ ipc = "read" /\ hpc = "no" /\ hpc' = "no" /\ UNCHANGED <<received, ring>>
      /\ round \in 1 .. 10 /\ ring = <<>> /\ received = <<>>
  BY DEF Receive, Main, led, InterruptEnabled, AcksInv
<1>2. /\ full' = FALSE /\ data' = data
      /\ HowMany(Unread, Acks) \in Nat /\ HowMany(Unread', Acks) \in Nat
      /\ ~full => HowMany(Unread', Acks) = HowMany(Unread, Acks)
      /\ full => HowMany(Unread, Acks)
                   = HowMany(Unread', Acks) + (IF data.kind \in Acks THEN 1 ELSE 0)
  BY ReadCounts DEF Receive
<1>3. CASE round = 8
  <2>1. ipc' = "second" /\ round' = 8
    BY <1>3, DialogueIs DEF Receive, Command
  <2> QED BY <1>1, <2>1, AcksEarly
<1>4. CASE round # 8
  <2>1. Command # "reset"
    BY <1>1, <1>4, DialogueIs DEF Command
  <2>2. Continue(Accepts(Command, data))
    BY <2>1 DEF Receive
  <2>3. CASE ~Accepts(Command, data)
    BY <1>1, <2>2, <2>3, AcksEarly DEF Continue
  <2>4. CASE Accepts(Command, data) /\ round < 8
    <3>1. ipc' = "send" /\ round' = round + 1
      BY <1>1, <2>2, <2>4, DialogueIs DEF Continue
    <3> QED BY <1>1, <2>4, <3>1, AcksEarly
  <2>5. CASE Accepts(Command, data) /\ round \in 9 .. 10
    <3>1. Command \notin {"readConfig", "testController", "testPort", "enable"}
      BY <2>5, DialogueIs DEF Command
    <3>2. data.kind \in Acks
      BY <2>2, <2>5, <3>1 DEF Accepts, Acks
    <3>3. HowMany(Unread, Acks) <= 1 /\ (round = 9 /\ ~full => data.kind \notin Acks)
      BY <1>1, <2>5 DEF AcksInv
    <3>4. CASE round = 9
      <4>1. full
        BY <3>2, <3>3, <3>4
      <4>2. HowMany(Unread', Acks) <= 0
        BY <1>2, <3>2, <3>3, <4>1
      <4>3. ipc' = "send" /\ round' = 10
        BY <2>2, <2>5, <3>4, DialogueIs DEF Continue
      <4> QED BY <1>1, <4>2, <4>3 DEF AcksInv
    <3>5. CASE round = 10
      <4>1. ipc' = "register"
        BY <2>2, <2>5, <3>5, DialogueIs DEF Continue
      <4>2. HowMany(Unread', Acks) <= 1
        BY <1>2, <3>3
      <4>3. HowMany(<<>>, Acks) = 0 /\ HowMany(<<>>, {"lock"}) = 0
        BY HowManyEmpty
      <4>4. AcksOut' <= 1 /\ Dialogues' = 0
        BY <1>1, <1>2, <4>2, <4>3 DEF AcksOut, Dialogues
      <4>5. AcksOut' + 0 <= 1 + Dialogues'
        <5>1. AcksOut' = HowMany(Unread', Acks)
          BY <1>1, <1>2, <4>3 DEF AcksOut
        <5> QED BY <1>2, <4>2, <4>4, <5>1
      <4> QED BY <1>1, <4>1, <4>5 DEF AcksInv
    <3> QED BY <2>5, <3>4, <3>5
  <2> QED BY <1>1, <1>4, <2>3, <2>4, <2>5
<1> QED BY <1>3, <1>4

LEMMA AcksReceiveSecond ==
    ASSUME KeyboardTypeOK, Places, Following, AcksInv, ReceiveSecond
    PROVE  AcksInv'
<1>1. /\ ipc = "second" /\ hpc = "no" /\ hpc' = "no" /\ UNCHANGED <<received, ring>>
      /\ ring = <<>> /\ received = <<>> /\ round = 8
  BY DEF ReceiveSecond, Main, led, AcksInv, Places
<1>2. PICK i \in DOMAIN Unread : OnlyAt("AA", i) /\ KeysBehind(i) /\ held.kind # "AA"
  BY <1>1 DEF Following, SecondRounds
<1>3. CASE full /\ data.kind = "AA"
  <2>1. ReadPort /\ Continue(TRUE)
    BY <1>3 DEF ReceiveSecond
  <2>2. /\ full' = FALSE /\ data' = data /\ DOMAIN Unread = 1 .. Len(Unread) /\ Len(Unread) \in Nat
        /\ Unread[1] = data /\ Len(Unread) >= 1
        /\ \A j \in DOMAIN Unread' : j + 1 \in DOMAIN Unread /\ Unread'[j] = Unread[j + 1]
        /\ DOMAIN Unread' = 1 .. Len(Unread')
    BY <1>3, <2>1, ReadFacts
  <2>3. i = 1
    BY <1>2, <1>3, <2>2 DEF OnlyAt
  <2>4. \A j \in DOMAIN Unread' : Unread'[j].kind \in KeyKinds
    BY <1>2, <2>2, <2>3 DEF KeysBehind
  <2>5. Unread' \in Seq(Bytes)
    BY <1>3, <2>1, UnreadRead
  <2>6. HowMany(Unread', Acks) = 0
    BY <2>4, <2>5, HowManyNone DEF KeyKinds, Acks
  <2>7. ipc' = "send" /\ round' = 9
    BY <1>1, <2>1, DialogueIs DEF Continue
  <2>8. data'.kind \notin Acks
    BY <1>3, <2>2 DEF Acks
  <2> QED BY <1>1, <2>6, <2>7, <2>8 DEF AcksInv
<1>4. CASE ~(full /\ data.kind = "AA")
  <2>1. Continue(FALSE)
    BY <1>2, <1>4 DEF ReceiveSecond, Continue
  <2> QED BY <1>1, <2>1, AcksEarly DEF Continue
<1> QED BY <1>3, <1>4

\* loop moves a byte, of whatever kind, from the ring to what was received.
LEMMA AcksRead ==
    ASSUME KeyboardTypeOK, Places, AcksInv, Read
    PROVE  AcksInv'
<1>1. /\ ipc = "on" /\ ipc' = "on" /\ hpc' = "no" /\ ring # <<>>
      /\ ring \in Seq(Bytes) /\ received \in Seq(Bytes)
      /\ received' = Append(received, Head(ring)) /\ ring' = Tail(ring)
      /\ UNCHANGED <<full, data, pend>>
  BY DEF Read, Main, activation, led, port, KeyboardTypeOK
<1>2. /\ <<Head(ring)>> \in Seq(Bytes) /\ Tail(ring) \in Seq(Bytes)
      /\ ring = <<Head(ring)>> \o Tail(ring)
  BY <1>1
<1>3. received' = received \o <<Head(ring)>>
  BY <1>1, <1>2, AppendIsConcat
<1>4. PICK b \in Seq(Bytes), t \in Seq(Bytes) :
          ring = b \o t /\ received' = received \o b /\ ring' = t
  BY <1>1, <1>2, <1>3
<1>5. \A K : HowMany(received', K) + HowMany(ring', K) = HowMany(received, K) + HowMany(ring, K)
  <2> SUFFICES ASSUME NEW K
               PROVE  HowMany(received \o b, K) + HowMany(t, K)
                        = HowMany(received, K) + HowMany(b \o t, K)
    BY <1>4
  <2>1. HowMany(received \o b, K) = HowMany(received, K) + HowMany(b, K)
    BY <1>1, HowManyJoin
  <2>2. HowMany(b \o t, K) = HowMany(b, K) + HowMany(t, K)
    BY HowManyJoin
  <2>3. HowMany(received, K) \in Nat /\ HowMany(b, K) \in Nat /\ HowMany(t, K) \in Nat
    BY <1>1, HowManyNat
  <2> QED BY <2>1, <2>2, <2>3
<1>6. Unread' = Unread
  BY <1>1, UnreadSame
<1>7. AcksOut' = AcksOut /\ Dialogues' = Dialogues
  BY <1>5, <1>6 DEF AcksOut, Dialogues
<1>8. AcksOut + 0 <= 1 + Dialogues
  <2>1. hpc = "no"
    BY DEF Read, Main
  <2> QED BY <1>1, <2>1 DEF AcksInv
<1> QED BY <1>1, <1>7, <1>8 DEF AcksInv

\* The handler moves a byte into the ring.  With a lock key there is one more
\* dialogue, and one acknowledgement to set aside for it.
LEMMA AcksInterrupt ==
    ASSUME KeyboardTypeOK, Places, AcksInv, Interrupt
    PROVE  AcksInv'
<1>1. CASE ~(ipc = "on" /\ full /\ Len(ring) < RingSize)
  <2>1. UNCHANGED <<ipc, round, hpc, received, ring, full, data, pend>>
    BY <1>1 DEF Interrupt, TopHalf, activation
  <2> QED BY <2>1, UnreadSame, AcksSame
<1>2. CASE ipc = "on" /\ full /\ Len(ring) < RingSize
  <2>1. /\ ipc' = "on" /\ hpc = "no" /\ full' = FALSE /\ data' = data /\ pend' = pend
        /\ received' = received /\ ring' = Append(ring, data)
        /\ hpc' = IF data.kind = "lock" THEN "askLED" ELSE "no"
        /\ ring \in Seq(Bytes) /\ received \in Seq(Bytes) /\ data \in Bytes /\ pend \in Seq(Bytes)
    BY <1>2 DEF Interrupt, InterruptFlag, TopHalf, activation, KeyboardTypeOK
  <2>2. <<data>> \in Seq(Bytes) /\ Len(<<data>>) = 1 /\ <<data>>[1] = data
    BY <2>1
  <2>3. PICK d \in Seq(Bytes) : d = <<data>> /\ Len(d) = 1 /\ d[1] = data
    BY <2>2
  <2>4. ring' = ring \o d /\ Unread = d \o pend /\ Unread' = pend
    BY <1>2, <2>1, <2>3, AppendIsConcat DEF Unread
  <2>5. \A K : /\ HowMany(ring \o d, K) = HowMany(ring, K) + HowMany(d, K)
               /\ HowMany(d \o pend, K) = HowMany(d, K) + HowMany(pend, K)
               /\ HowMany(d, K) = IF data.kind \in K THEN 1 ELSE 0
               /\ HowMany(received, K) \in Nat /\ HowMany(ring, K) \in Nat
               /\ HowMany(pend, K) \in Nat
    <3> SUFFICES ASSUME NEW K
                 PROVE  /\ HowMany(ring \o d, K) = HowMany(ring, K) + HowMany(d, K)
                        /\ HowMany(d \o pend, K) = HowMany(d, K) + HowMany(pend, K)
                        /\ HowMany(d, K) = IF data.kind \in K THEN 1 ELSE 0
                        /\ HowMany(received, K) \in Nat /\ HowMany(ring, K) \in Nat
                        /\ HowMany(pend, K) \in Nat
      OBVIOUS
    <3>1. HowMany(d, K) = IF data.kind \in K THEN 1 ELSE 0
      BY <2>3, HowManyOne
    <3>2. HowMany(ring \o d, K) = HowMany(ring, K) + HowMany(d, K)
      BY <2>1, HowManyJoin
    <3>3. HowMany(d \o pend, K) = HowMany(d, K) + HowMany(pend, K)
      BY <2>1, HowManyJoin
    <3>4. /\ HowMany(received, K) \in Nat /\ HowMany(ring, K) \in Nat
          /\ HowMany(pend, K) \in Nat
      BY <2>1, HowManyNat
    <3> QED BY <3>1, <3>2, <3>3, <3>4
  <2>6. AcksOut' = AcksOut /\ AcksOut \in Nat
    <3>1. HowMany(d, Acks) \in Nat
      BY <2>3, HowManyNat
    <3>2. /\ AcksOut = HowMany(received, Acks) + HowMany(ring, Acks)
                         + (HowMany(d, Acks) + HowMany(pend, Acks))
          /\ AcksOut' = HowMany(received, Acks) + (HowMany(ring, Acks) + HowMany(d, Acks))
                          + HowMany(pend, Acks)
      BY <2>1, <2>4, <2>5 DEF AcksOut
    <3> QED BY <2>5, <3>1, <3>2
  <2>7. Dialogues' = Dialogues + (IF data.kind = "lock" THEN 1 ELSE 0) /\ Dialogues \in Nat
    BY <2>1, <2>4, <2>5 DEF Dialogues
  <2>8. AcksOut + 0 <= 1 + Dialogues
    BY <1>2, <2>1 DEF AcksInv
  <2>9. AcksOut' + (IF hpc' \in {"askLED", "setLED"} THEN 1 ELSE 0) <= 1 + Dialogues'
    BY <2>1, <2>6, <2>7, <2>8
  <2>10. hpc' \in {"askLED", "awaitAsk"} => data'.kind # "FA"
    BY <2>1
  <2> QED BY <2>1, <2>9, <2>10 DEF AcksInv
<1> QED BY <1>1, <1>2

\* One acknowledgement more than there were, and none more.
LEMMA LeftAcks ==
    \A m, n, d \in Nat : n <= m + 1 /\ m + 1 <= 1 + d => n + 0 <= 1 + d
OBVIOUS
LEMMA FewerAcks ==
    \A m, n, d \in Nat : n <= m /\ m <= 1 + d => n + 0 <= 1 + d
OBVIOUS

\* changeKeyboardLED.
LEMMA AcksLED ==
    ASSUME KeyboardTypeOK, Places, AcksInv, SendLED \/ AwaitLED
    PROVE  AcksInv'
<1>1. /\ ipc = "on" /\ ipc' = "on" /\ UNCHANGED <<received, ring, data>>
      /\ ring \in Seq(Bytes) /\ received \in Seq(Bytes)
  BY DEF Places, SendLED, AwaitLED, ReadPort, activation, KeyboardTypeOK
<1>2. /\ HowMany(received, Acks) \in Nat /\ HowMany(ring, Acks) \in Nat
      /\ HowMany(received, {"lock"}) \in Nat /\ HowMany(ring, {"lock"}) \in Nat
  BY <1>1, HowManyNat
<1>3. Dialogues' = Dialogues /\ Dialogues \in Nat
  BY <1>1, <1>2 DEF Dialogues
<1>4. AcksOut + (IF hpc \in {"askLED", "setLED"} THEN 1 ELSE 0) <= 1 + Dialogues
  BY <1>1 DEF AcksInv
<1>5. CASE SendLED
  <2>1. PICK a \in Answers("LED") : pend' = pend \o a
    BY <1>5 DEF SendLED
  <2>2. a \in Seq(Bytes) /\ Len(a) = 1
    BY AnswersAre
  <2>3. HowMany(a, Acks) <= 1
    BY <2>2, HowManyOne
  <2>4. /\ hpc \in {"askLED", "setLED"} /\ full' = full
        /\ hpc' = IF hpc = "askLED" THEN "awaitAsk" ELSE "awaitSet"
    BY <1>5 DEF SendLED
  <2>5. HowMany(Unread', Acks) = HowMany(Unread, Acks) + HowMany(a, Acks)
        /\ HowMany(Unread, Acks) \in Nat /\ HowMany(a, Acks) \in Nat
    BY <1>1, <2>1, <2>2, <2>4, MoreCounts
  <2>6. AcksOut' <= AcksOut + 1 /\ AcksOut \in Nat /\ AcksOut' \in Nat
    BY <1>1, <1>2, <2>3, <2>5 DEF AcksOut
  <2>7. AcksOut' + 0 <= 1 + Dialogues'
    <3>1. AcksOut + 1 <= 1 + Dialogues
      BY <1>4, <2>4
    <3> QED BY <1>3, <2>6, <3>1, LeftAcks
  <2>8. hpc' \in {"askLED", "awaitAsk"} /\ ~full' => data'.kind # "FA"
    BY <1>1, <2>4 DEF AcksInv
  <2> QED BY <1>1, <2>4, <2>7, <2>8 DEF AcksInv
<1>6. CASE AwaitLED
  <2>1. /\ full' = FALSE
        /\ HowMany(Unread, Acks) \in Nat /\ HowMany(Unread', Acks) \in Nat
        /\ ~full => HowMany(Unread', Acks) = HowMany(Unread, Acks)
        /\ full => HowMany(Unread, Acks)
                     = HowMany(Unread', Acks) + (IF data.kind \in Acks THEN 1 ELSE 0)
    BY <1>6, ReadCounts DEF AwaitLED
  <2>2. /\ hpc \in {"awaitAsk", "awaitSet"}
        /\ data.kind = "FA" => hpc' = IF hpc = "awaitAsk" THEN "setLED" ELSE "no"
        /\ data.kind # "FA" => hpc' \in {"no", hpc}
    BY <1>6 DEF AwaitLED
  <2>3. AcksOut \in Nat /\ AcksOut' \in Nat /\ AcksOut' <= AcksOut
        /\ (full /\ data.kind = "FA" => AcksOut' + 1 = AcksOut)
    BY <1>1, <1>2, <2>1 DEF AcksOut, Acks
  <2>4. hpc' = "setLED" => full
    BY <2>2 DEF AcksInv
  <2>5. hpc' = "setLED" => data.kind = "FA"
    BY <2>2
  <2>6. AcksOut' + (IF hpc' \in {"askLED", "setLED"} THEN 1 ELSE 0) <= 1 + Dialogues'
    <3>1. AcksOut <= 1 + Dialogues
      BY <1>3, <1>4, <2>2, <2>3
    <3>2. CASE hpc' = "setLED"
      <4>1. AcksOut' + 1 = AcksOut
        BY <2>3, <2>4, <2>5, <3>2
      <4> QED BY <1>3, <2>3, <3>1, <3>2, <4>1
    <3>3. CASE hpc' # "setLED"
      <4>1. hpc' # "askLED"
        BY <2>2, <3>3
      <4>2. AcksOut' + 0 <= 1 + Dialogues'
        BY <1>3, <2>3, <3>1, FewerAcks
      <4> QED BY <3>3, <4>1, <4>2
    <3> QED BY <3>2, <3>3
  <2>7. hpc' \in {"askLED", "awaitAsk"} => data'.kind # "FA"
    BY <1>1, <2>2
  <2> QED BY <1>1, <2>6, <2>7 DEF AcksInv
<1> QED BY <1>5, <1>6

LEMMA AcksKeep ==
    ASSUME KeyboardTypeOK, InterruptEnabled, Places, Following, AcksInv,
           [KeyboardNext]_keyboardVars
    PROVE  AcksInv'
<1>1. CASE UNCHANGED keyboardVars \/ ReadNothing
  <2>1. UNCHANGED <<ipc, round, hpc, received, ring, full, data, pend>>
    BY <1>1 DEF ReadNothing, keyboardVars, port, activation, led
  <2> QED BY <2>1, UnreadSame, AcksSame
<1>2. CASE Deliver
  <2>1. UNCHANGED <<ipc, round, hpc, received, ring>> /\ full' /\ Unread' = Unread
    BY <1>2, UnreadSame DEF Deliver, activation, led
  <2> QED BY <2>1, AcksSame
<1>3. CASE PressKey
  <2>1. UNCHANGED <<ipc, round, hpc, received, ring, full, data>>
    BY <1>3 DEF PressKey, activation, led
  <2>2. PICK k \in {"plain", "equal", "lock"} : pend' = Append(pend, [kind |-> k, n |-> pressed'])
    BY <1>3 DEF PressKey
  <2>3. [kind |-> k, n |-> pressed'] \in Bytes
    <3>1. pressed' \in 1 .. MaxPresses
      BY <1>3, KeyboardAssumption DEF PressKey, KeyboardTypeOK
    <3> QED BY <3>1 DEF Bytes, Keys
  <2>4. PICK b \in Bytes : b.kind \notin Acks /\ pend' = Append(pend, b)
    BY <2>2, <2>3 DEF Acks
  <2>5. <<b>> \in Seq(Bytes) /\ Len(<<b>>) = 1 /\ <<b>>[1] = b
    OBVIOUS
  <2>6. PICK a \in Seq(Bytes) : a = <<b>> /\ Len(a) = 1 /\ a[1] = b
    BY <2>5
  <2>7. HowMany(a, Acks) = 0
    BY <2>4, <2>6, HowManyOne
  <2>8. pend' = pend \o a
    BY <2>4, <2>6, AppendIsConcat DEF KeyboardTypeOK
  <2>9. HowMany(Unread', Acks) = HowMany(Unread, Acks)
    BY <2>1, <2>7, <2>8, MoreCounts
  <2> QED BY <2>1, <2>9, AcksSame
<1>4. CASE NotSupported \/ Disable \/ Flush \/ Flushed
  <2>1. /\ ipc \in {"start", "flush"} /\ ipc' \in {"off", "flush", "send"} /\ round' = round
        /\ hpc' = "no" /\ UNCHANGED <<received, ring>>
    BY <1>4 DEF NotSupported, Disable, Flush, Flushed, Main, activation, led
  <2>2. round = 1
    BY <2>1 DEF Following, Before
  <2> QED BY <2>1, <2>2, AcksEarly
<1>5. CASE Register
  <2>1. /\ ipc = "register" /\ ipc' = "on" /\ hpc = "no" /\ hpc' = "no"
        /\ UNCHANGED <<received, ring, full, data, pend>>
    BY <1>5 DEF Register, Main, port, led
  <2>2. AcksOut' = AcksOut /\ Dialogues' = Dialogues
    BY <2>1, UnreadSame DEF AcksOut, Dialogues
  <2> QED BY <2>1, <2>2 DEF AcksInv
<1> QED BY <1>1, <1>2, <1>3, <1>4, <1>5, AcksSend, AcksReceive, AcksReceiveSecond, AcksRead,
           AcksInterrupt, AcksLED DEF KeyboardNext, Device, Driver, Handler

-----------------------------------------------------------------------------
(* The theorems. *)

LEMMA DialogueInit == KeyboardInit => DialogueInv
<1> SUFFICES ASSUME KeyboardInit PROVE DialogueInv
  OBVIOUS
<1>1. /\ ~full /\ data = None /\ pend = <<>> /\ conf.rest /\ ipc = "start" /\ round = 1 /\ hpc = "no"
      /\ ring = <<>> /\ received = <<>> /\ pressed = 0 /\ lost = {}
  BY DEF KeyboardInit
<1>2. KeyboardTypeOK
  BY TypeInit
<1>3. Unread = <<>>
  BY <1>1 DEF Unread
<1>4. Places
  BY <1>1 DEF Places
<1>5. Following
  <2>1. data.kind = "none"
    BY <1>1, ReplyIs DEF None
  <2>2. Lacks("00")
    BY <1>3, <2>1 DEF Lacks
  <2> QED BY <1>1, <2>2 DEF Following, Before, FirstRounds, EnableRound, SecondRounds, Tested
<1>6. OnlyAcksTyped
  BY <1>1 DEF OnlyAcksTyped, ToSet
<1>7. AcksInv
  BY <1>1 DEF AcksInv
<1>8. LostOnlyInDialogues
  <2>1. received \o ring \o Unread = <<>>
    BY <1>1, <1>3
  <2>2. DOMAIN <<>> = {}
    OBVIOUS
  <2>3. KeysAre(<<>>, {})
    BY <2>2 DEF KeysAre
  <2>4. (1 .. pressed) \ lost = {}
    BY <1>1
  <2> QED BY <2>1, <2>3, <2>4 DEF LostOnlyInDialogues
<1> QED BY <1>1, <1>2, <1>4, <1>5, <1>6, <1>7, <1>8 DEF DialogueInv

\* The invariant behind the next theorem: what is still to be read in every
\* round of activate (keyboard.cpp:34-137), when a byte that comes late is
\* taken for the answer to a later question.
THEOREM KeyboardDialogueInvariant == KeyboardSpec => []DialogueInv
<1>1. DialogueInv /\ InterruptEnabled /\ InterruptEnabled' /\ [KeyboardNext]_keyboardVars => DialogueInv'
  <2> SUFFICES ASSUME DialogueInv, InterruptEnabled, [KeyboardNext]_keyboardVars
               PROVE  DialogueInv'
    OBVIOUS
  <2>1. KeyboardTypeOK /\ Places /\ Following /\ OnlyAcksTyped /\ AcksInv
        /\ LostOnlyInDialogues /\ lost \subseteq 1 .. pressed
    BY DEF DialogueInv
  <2>2. KeyboardTypeOK'
    BY <2>1, TypeKeeps
  <2>3. Places'
    BY <2>1, PlacesKeep
  <2>4. Following'
    BY <2>1, FollowingKeeps
  <2>5. OnlyAcksTyped'
    BY <2>1, NotTypedKeeps
  <2>6. LostOnlyInDialogues' /\ lost' \subseteq 1 .. pressed'
    BY <2>1, KeysKeep
  <2>7. AcksInv'
    BY <2>1, AcksKeep
  <2> QED BY <2>2, <2>3, <2>4, <2>5, <2>6, <2>7 DEF DialogueInv
<1>2. KeyboardSpec => []InterruptEnabled
  <2>1. StuckInv => InterruptEnabled
    BY DEF StuckInv
  <2> QED BY <2>1, KeyboardInvariant, PTL
<1> QED BY <1>1, <1>2, DialogueInit, PTL DEF KeyboardSpec

\* How far keys and answers are kept apart (keyboard.cpp:34-216), for a ring of
\* any size, any number of looks and any number of keys, however late the devices
\* answer: activate returns true only when the controller, the port and the
\* keyboard passed and the configuration is what it had been, with the
\* interrupt on; the ring gets nothing but keys and acknowledgements, of which
\* activate leaves one at most, and each changeKeyboardLED at most one more; and
\* every key that was pressed is typed in its turn unless a dialogue read it.
THEOREM KeyboardKeysAndAnswersApart == KeyboardSpec => []KeysAndAnswersApart
<1>1. DialogueInv /\ StuckInv => KeysAndAnswersApart
  <2> SUFFICES ASSUME DialogueInv, StuckInv PROVE KeysAndAnswersApart
    OBVIOUS
  <2>1. OnlyAcksTyped /\ LostOnlyInDialogues
    BY DEF DialogueInv
  <2>2. ASSUME ipc \in {"register", "on"}
        PROVE  /\ {"testController", "testPort", "enable", "reset"} \subseteq passed
               /\ conf = [interrupt |-> TRUE, rest |-> TRUE]
    <3>1. {"testController", "testPort", "enable", "reset"} \subseteq passed /\ conf.rest
      BY <2>2 DEF DialogueInv, Following, Tested
    <3>2. round = 10 /\ (round > 7 => conf.interrupt)
      BY <2>2 DEF StuckInv, InterruptEnabled
    <3>3. conf.interrupt
      BY <3>2
    <3>4. conf \in [interrupt : BOOLEAN, rest : BOOLEAN]
      BY DEF DialogueInv, KeyboardTypeOK
    <3>5. conf.interrupt = TRUE /\ conf.rest = TRUE
      BY <3>1, <3>3, <3>4
    <3>6. conf = [interrupt |-> TRUE, rest |-> TRUE]
      BY <3>4, <3>5
    <3> QED BY <3>1, <3>6
  <2>3. OneAckLateEach
    <3>1. ASSUME ipc = "send", round = 10
          PROVE  HowMany(Unread, Acks) = 0
      <4>1. HowMany(Unread, Acks) <= 0
        BY <3>1 DEF DialogueInv, AcksInv
      <4>2. HowMany(Unread, Acks) \in Nat
        BY UnreadIs, HowManyNat DEF DialogueInv
      <4> QED BY <4>1, <4>2
    <3>2. ASSUME ipc \in {"register", "on"}
          PROVE  AcksOut <= 1 + Dialogues
      <4>1. received \in Seq(Bytes) /\ ring \in Seq(Bytes) /\ Unread \in Seq(Bytes)
        BY UnreadIs DEF DialogueInv, KeyboardTypeOK
      <4>2. AcksOut \in Nat /\ Dialogues \in Nat
        <5>1. \A K : HowMany(received, K) \in Nat /\ HowMany(ring, K) \in Nat
          BY <4>1, HowManyNat
        <5>2. HowMany(Unread, Acks) \in Nat
          BY <4>1, HowManyNat
        <5> QED BY <5>1, <5>2 DEF AcksOut, Dialogues
      <4>3. AcksOut + (IF hpc \in {"askLED", "setLED"} THEN 1 ELSE 0) <= 1 + Dialogues
        BY <3>2 DEF DialogueInv, AcksInv
      <4> QED BY <4>2, <4>3
    <3> QED BY <3>1, <3>2 DEF OneAckLateEach
  <2> QED BY <2>1, <2>2, <2>3 DEF KeysAndAnswersApart, ActivatedMeansTested
<1> QED BY <1>1, KeyboardDialogueInvariant, KeyboardInvariant, PTL

-----------------------------------------------------------------------------
(* The screen. *)

LEMMA RestUnique ==
    ASSUME NEW n \in Nat \ {0}, NEW a \in Int, NEW d \in Int, NEW r \in 0 .. n - 1,
           a = d * n + r
    PROVE  a % n = r
<1>1. a % n \in 0 .. n - 1 /\ a \div n \in Int /\ a = (a \div n) * n + (a % n)
  OBVIOUS
<1> DEFINE e == a \div n
           s == a % n
<1> HIDE DEF e, s
<1>2. s \in 0 .. n - 1 /\ e \in Int /\ (e - d) * n = r - s
  <2>1. s \in 0 .. n - 1 /\ e \in Int /\ a = e * n + s
    BY <1>1 DEF e, s
  <2>2. (e - d) * n = e * n - d * n
    BY <2>1
  <2> QED BY <2>1, <2>2
<1>3. CASE e - d >= 1
  <2>1. (e - d) * n >= n
    BY <1>2, <1>3
  <2> QED BY <1>2, <2>1
<1>4. CASE e - d <= -1
  <2>1. (e - d) * n <= -n
    BY <1>2, <1>4
  <2> QED BY <1>2, <2>1
<1>5. CASE e - d = 0
  BY <1>2, <1>5 DEF s
<1> QED BY <1>2, <1>3, <1>4, <1>5

\* The rest of a small number, and of one less.
LEMMA SmallRest ==
    ASSUME NEW n \in Nat \ {0}, NEW a \in 0 .. n - 1
    PROVE  a % n = a
OBVIOUS

LEMMA RestShift ==
    ASSUME NEW n \in Nat \ {0}, NEW d \in Int, NEW b \in Int
    PROVE  ((d * n + b) % n) = (b % n)
<1>1. b % n \in 0 .. n - 1 /\ b \div n \in Int /\ b = (b \div n) * n + (b % n)
  OBVIOUS
<1> DEFINE e == b \div n
           r == b % n
<1> HIDE DEF e, r
<1>2. r \in 0 .. n - 1 /\ e \in Int /\ b = e * n + r
  BY <1>1 DEF e, r
<1>3. d * n + b = (d + e) * n + r
  BY <1>2
<1>4. ((d * n + b) % n) = r
  <2>1. d * n + b \in Int /\ d + e \in Int
    BY <1>2
  <2> QED BY <1>2, <1>3, <2>1, RestUnique
<1> QED BY <1>4 DEF r

LEMMA RestLess ==
    ASSUME NEW n \in Nat \ {0}, NEW a \in Int
    PROVE  ((a - 1) % n) = (((a % n) - 1) % n)
<1>1. a % n \in 0 .. n - 1 /\ a \div n \in Int /\ a = (a \div n) * n + (a % n)
  OBVIOUS
<1> DEFINE e == a \div n
           r == a % n
<1> HIDE DEF e, r
<1>2. r - 1 \in Int /\ e \in Int /\ a - 1 = e * n + (r - 1)
  BY <1>1 DEF e, r
<1>3. ((e * n + (r - 1)) % n) = ((r - 1) % n)
  BY <1>2, RestShift
<1> QED BY <1>2, <1>3 DEF r

LEMMA RestMore ==
    ASSUME NEW n \in Nat \ {0}, NEW a \in Int
    PROVE  ((a + 1) % n) = (((a % n) + 1) % n)
<1>1. a % n \in 0 .. n - 1 /\ a \div n \in Int /\ a = (a \div n) * n + (a % n)
  OBVIOUS
<1> DEFINE e == a \div n
           r == a % n
<1> HIDE DEF e, r
<1>2. r + 1 \in Int /\ e \in Int /\ a + 1 = e * n + (r + 1)
  BY <1>1 DEF e, r
<1>3. ((e * n + (r + 1)) % n) = ((r + 1) % n)
  BY <1>2, RestShift
<1> QED BY <1>2, <1>3 DEF r

LEMMA DivRest ==
    ASSUME NEW n \in Nat \ {0}, NEW a \in Nat
    PROVE  /\ a % n \in 0 .. n - 1 /\ a \div n \in Nat
           /\ a = (a \div n) * n + (a % n)
OBVIOUS

\* Rows and columns: where a row ends and the screen does.
LEMMA Rows ==
    ASSUME NEW x \in 0 .. Width - 1, NEW y \in Nat
    PROVE  /\ y * Width \in Nat
           /\ y < Height => y * Width + x \in Cells
           /\ y < Height /\ y * Width + x >= Width * Height - 1 => y = Height - 1
           /\ y * Width + x < Width * Height => y < Height
           /\ (y + 1) * Width = y * Width + Width
<1>1. Width \in Nat \ {0} /\ Height \in Nat \ {0}
  BY ScreenAssumption
<1>2. y * Width \in Nat /\ Width * Height \in Nat /\ (y + 1) * Width = y * Width + Width
  BY <1>1
<1>3. ASSUME y < Height
      PROVE  y * Width + Width <= Width * Height
  <2>1. PICK e \in Nat : Height = y + 1 + e
    BY <1>1, <1>3, Height - y - 1 \in Nat, Height = y + 1 + (Height - y - 1)
  <2>2. Width * (y + 1 + e) = y * Width + Width + Width * e /\ Width * e \in Nat
    BY <1>1, <2>1
  <2> DEFINE a == y * Width
             b == Width * Height
             c == Width * e
  <2>3. Width * Height = Width * (y + 1 + e)
    BY <2>1
  <2>4. b = a + Width + c /\ a \in Nat /\ c \in Nat
    BY <1>2, <2>2, <2>3
  <2> HIDE DEF a, b, c
  <2>5. a + Width <= b
    BY <1>1, <2>4
  <2> QED BY <2>5 DEF a, b
<1>4. ASSUME y < Height, y # Height - 1
      PROVE  y * Width + Width <= Width * Height - Width
  <2>1. PICK e \in Nat : Height = y + 2 + e
    BY <1>1, <1>4, Height - y - 2 \in Nat, Height = y + 2 + (Height - y - 2)
  <2>2. Width * Height = y * Width + Width + Width + Width * e /\ Width * e \in Nat
    BY <1>1, <2>1
  <2> QED BY <1>1, <1>2, <2>2
<1>5. ASSUME y >= Height
      PROVE  y * Width >= Width * Height
  <2>1. PICK e \in Nat : y = Height + e
    BY <1>1, <1>5, y - Height \in Nat, y = Height + (y - Height)
  <2>2. y * Width = Width * Height + Width * e /\ Width * e \in Nat
    BY <1>1, <2>1
  <2> QED BY <1>2, <2>2
<1> QED BY <1>1, <1>2, <1>3, <1>4, <1>5 DEF Cells

LEMMA OffsetOf ==
    ASSUME NEW v \in Screens
    PROVE  /\ v.x + v.y * Width \in Nat /\ Offset(v) \in 0 .. Offsets - 1
           /\ Placed(v) => Offset(v) = v.screen /\ v.screen \in Cells
<1>1. v.x \in 0 .. Width - 1 /\ v.y \in Nat /\ v.screen \in Int
  BY DEF Screens
<1>2. /\ Offsets \in Nat \ {0} /\ Width \in Nat \ {0} /\ Height \in Nat \ {0}
      /\ Width * Height \in Nat /\ Offsets >= Width * Height
  <2>1. Width \in Nat \ {0} /\ Height \in Nat \ {0} /\ Offsets \in Nat /\ Offsets >= Width * Height
    BY ScreenAssumption
  <2>2. Width * Height \in Nat \ {0}
    BY <2>1
  <2> QED BY <2>1, <2>2
<1>3. v.y * Width \in Nat /\ (v.y < Height => v.y * Width + v.x \in Cells)
  BY <1>1, Rows
<1>4. v.x + v.y * Width \in Nat
  BY <1>1, <1>2, <1>3
<1>5. Offset(v) \in 0 .. Offsets - 1
  BY <1>2, <1>4, DivRest DEF Offset
<1>6. ASSUME Placed(v)
      PROVE  Offset(v) = v.screen /\ v.screen \in Cells
  <2>1. v.screen = v.x + v.y * Width /\ v.screen \in Cells
    BY <1>1, <1>2, <1>3, <1>6 DEF Placed
  <2>2. v.screen \in 0 .. Offsets - 1
    BY <1>2, <2>1 DEF Cells
  <2> QED BY <1>2, <2>1, <2>2, SmallRest DEF Offset
<1> QED BY <1>4, <1>5, <1>6

LEMMA ScreenFields ==
    ASSUME NEW v \in Screens
    PROVE  /\ v.cells \in [Cells -> {"blank", "x", "s"}] /\ v.screen \in Int
           /\ v.x \in 0 .. Width - 1 /\ v.y \in Nat /\ v.apart \in BOOLEAN
           /\ Width \in Nat \ {0} /\ Height \in Nat \ {0} /\ TabStop \in Nat \ {0}
BY ScreenAssumption DEF Screens

\* Cursor::set brings the two places together.
LEMMA MoveToSound ==
    ASSUME NEW v \in Screens, NEW x \in 0 .. Width - 1, NEW y \in Nat
    PROVE  /\ MoveTo(v, x, y) \in Screens
           /\ Agree(MoveTo(v, x, y))
           /\ y < Height => Placed(MoveTo(v, x, y))
           /\ MoveTo(v, x, y).cells = v.cells
           /\ MoveTo(v, x, y).screen = y * Width + x
           /\ MoveTo(v, x, y).x = x /\ MoveTo(v, x, y).y = y
<1> DEFINE place == y * Width + x
           r == MoveTo(v, x, y)
<1>1. place \in Int /\ place = x + y * Width
  <2>1. Width \in Nat
    BY ScreenAssumption
  <2>2. y * Width \in Nat
    BY Rows
  <2> QED BY <2>1, <2>2
<1>2. r = [v EXCEPT !.x = x, !.y = y, !.screen = place, !.apart = FALSE]
  BY DEF MoveTo
<1>3. place \in Int /\ x \in 0 .. Width - 1 /\ y \in Nat
  BY <1>1
<1>a. Offset(r) = (r.x + r.y * Width) % Offsets
  BY DEF Offset
<1> HIDE DEF place, r
<1>4. /\ r.x = x /\ r.y = y /\ r.screen = place /\ r.apart = FALSE /\ r.cells = v.cells
      /\ r \in Screens
  BY <1>2, <1>3 DEF Screens
<1>5. Agree(r)
  BY <1>1, <1>4, <1>a DEF Agree
<1>6. y < Height => Placed(r)
  BY <1>4 DEF Placed, place
<1> QED BY <1>4, <1>5, <1>6 DEF r, place

\* The rows that move up leave the last one blank.
LEMMA ScrolledSound ==
    ASSUME NEW v \in Screens
    PROVE  /\ [v EXCEPT !.cells = Scrolled(v)] \in Screens
           /\ \A i \in Cells : i >= (Height - 1) * Width => Scrolled(v)[i] = "blank"
<1>1. v.cells \in [Cells -> {"blank", "x", "s"}] /\ Width \in Nat \ {0} /\ Height \in Nat \ {0}
  BY ScreenFields
<1>2. Scrolled(v) \in [Cells -> {"blank", "x", "s"}]
  <2>1. \A i \in Cells : (IF i + Width \in Cells THEN v.cells[i + Width] ELSE "blank") \in {"blank", "x", "s"}
    BY <1>1
  <2> QED BY <2>1 DEF Scrolled
<1>3. ASSUME NEW i \in Cells, i >= (Height - 1) * Width
      PROVE  Scrolled(v)[i] = "blank"
  <2> DEFINE a == (Height - 1) * Width
             b == Width * Height
  <2>1. b = a + Width /\ a \in Int /\ b \in Int
    <3>1. Height - 1 \in Nat /\ Height = (Height - 1) + 1
      BY <1>1
    <3>2. ((Height - 1) + 1) * Width = a + Width
      BY <1>1, <3>1, 0 \in 0 .. Width - 1, Rows
    <3>3. b = ((Height - 1) + 1) * Width
      BY <1>1, <3>1
    <3> QED BY <1>1, <3>2, <3>3
  <2>2. Cells = 0 .. b - 1 /\ i >= a
    BY <1>3 DEF Cells
  <2> HIDE DEF a, b
  <2>3. i + Width \notin Cells
    BY <1>1, <2>1, <2>2
  <2> QED BY <2>3 DEF Scrolled
<1>4. [v EXCEPT !.cells = Scrolled(v)] \in Screens
  BY <1>2 DEF Screens
<1> QED BY <1>3, <1>4

\* A line feed goes to the start of a row, whatever the place was, and on a
\* screen blank ahead to one that is blank.
LEMMA LinefeedSound ==
    ASSUME NEW v \in Screens
    PROVE  /\ vga_linefeed(v) \in Screens
           /\ Agree(vga_linefeed(v))
           /\ v.y < Height => Placed(vga_linefeed(v))
           /\ v.y = Height - 1 => Ahead(vga_linefeed(v))
           /\ Placed(v) /\ Ahead(v) => Ahead(vga_linefeed(v))
           /\ v.y = Height - 1 => vga_linefeed(v).screen = v.y * Width
<1>1. /\ v.cells \in [Cells -> {"blank", "x", "s"}] /\ Width \in Nat \ {0} /\ Height \in Nat \ {0}
      /\ v.x \in 0 .. Width - 1 /\ v.y \in Nat /\ 0 \in 0 .. Width - 1 /\ v.y + 1 \in Nat
  BY ScreenFields
<1>2. CASE v.y = Height - 1
  <2> DEFINE w == [v EXCEPT !.cells = Scrolled(v)]
             y == v.y
           r == MoveTo(w, 0, y)
  <2>1. w \in Screens /\ vga_linefeed(v) = r
    BY <1>2, ScrolledSound DEF vga_linefeed
  <2>2. w.cells = Scrolled(v)
    BY DEF Screens
  <2> HIDE DEF w, y
  <2>6. y \in Nat
    BY <1>1 DEF y
  <2>3. /\ r \in Screens /\ Agree(r) /\ (y < Height => Placed(r))
        /\ r.cells = w.cells /\ r.screen = y * Width + 0
    <3>1. 0 \in 0 .. Width - 1
      BY <1>1
    <3>2. /\ r \in Screens /\ Agree(r)
      BY <3>1, <2>1, <2>6, MoveToSound
    <3>3. (y < Height => Placed(r))
      BY <3>1, <2>1, <2>6, MoveToSound
    <3>4. r.cells = w.cells
      BY <3>1, <2>1, <2>6, MoveToSound
    <3>5. r.screen = y * Width + 0
      BY <3>1, <2>1, <2>6, MoveToSound
    <3> QED BY <3>2, <3>3, <3>4, <3>5
  <2>4. y * Width + 0 = (Height - 1) * Width
    BY <1>1, <1>2 DEF y
  <2>5. Ahead(r)
    BY <2>2, <2>3, <2>4, ScrolledSound DEF Ahead
  <2>7. r.screen = v.y * Width
    BY <1>1, <2>3 DEF y
  <2> HIDE DEF r
  <2> QED BY <2>1, <2>3, <2>5, <2>7 DEF y
<1>3. CASE v.y # Height - 1
  <2> DEFINE y == v.y + 1
             r == MoveTo(v, 0, y)
  <2>1. vga_linefeed(v) = r
    BY <1>3 DEF vga_linefeed
  <2>4. y \in Nat /\ y = v.y + 1
    BY <1>1
  <2> HIDE DEF y
  <2>2. /\ r \in Screens /\ Agree(r) /\ (y < Height => Placed(r))
        /\ r.cells = v.cells /\ r.screen = y * Width + 0
    <3>1. 0 \in 0 .. Width - 1
      BY <1>1
    <3>2. /\ r \in Screens /\ Agree(r)
      BY <3>1, <2>4, MoveToSound
    <3>3. (y < Height => Placed(r))
      BY <3>1, <2>4, MoveToSound
    <3>4. r.cells = v.cells
      BY <3>1, <2>4, MoveToSound
    <3>5. r.screen = y * Width + 0
      BY <3>1, <2>4, MoveToSound
    <3> QED BY <3>2, <3>3, <3>4, <3>5
  <2> HIDE DEF r
  <2>3. v.y < Height => Placed(r)
    BY <1>1, <1>3, <2>2, <2>4
  <2>5. Placed(v) /\ Ahead(v) => Ahead(r)
    <3>1. (v.y + 1) * Width = v.y * Width + Width /\ v.y * Width \in Nat
      BY <1>1, Rows
    <3> DEFINE a == v.y * Width
               b == (v.y + 1) * Width
    <3>2. b = a + Width /\ a \in Nat /\ r.screen = b + 0 /\ (Placed(v) => v.screen = a + v.x)
      BY <2>2, <2>4, <3>1 DEF Placed
    <3> HIDE DEF a, b
    <3>3. Placed(v) => v.screen <= r.screen /\ v.screen \in Int /\ r.screen \in Int
      BY <1>1, <3>2
    <3>4. \A i \in Cells : i \in Int
      BY DEF Cells
    <3> QED BY <2>2, <3>3, <3>4 DEF Ahead
  <2> QED BY <1>3, <2>1, <2>2, <2>3, <2>5
<1> QED BY <1>2, <1>3

\* A character is put where the next goes to, and the cursor moves on with the
\* address; behind the last cell both go to a new row.
LEMMA PutcharSound ==
    ASSUME NEW v \in Screens, Agree(v)
    PROVE  /\ vga_putchar(v) \in Screens
           /\ Agree(vga_putchar(v))
           /\ Placed(v) => Placed(vga_putchar(v)) /\ v.screen \in Cells
           /\ Placed(v) /\ Ahead(v) => Ahead(vga_putchar(v))
<1> DEFINE w == [v EXCEPT !.cells = Poke(v, v.screen, "x"), !.screen = @ + 1]
<1>1. /\ v.cells \in [Cells -> {"blank", "x", "s"}] /\ v.screen \in Int
      /\ v.x \in 0 .. Width - 1 /\ v.y \in Nat /\ v.apart \in BOOLEAN
  BY ScreenFields
<1>2. Width \in Nat \ {0} /\ Height \in Nat \ {0} /\ Offsets \in Nat \ {0}
  <2>1. Width \in Nat \ {0} /\ Height \in Nat \ {0} /\ Offsets \in Nat /\ Offsets >= Width * Height
    BY ScreenAssumption
  <2>2. Width * Height \in Nat \ {0}
    BY <2>1
  <2> QED BY <2>1, <2>2
<1>3. /\ w \in Screens /\ w.x = v.x /\ w.y = v.y /\ w.screen = v.screen + 1
      /\ w.apart = v.apart /\ w.cells = Poke(v, v.screen, "x")
  <2>1. Poke(v, v.screen, "x") \in [Cells -> {"blank", "x", "s"}]
    BY <1>1 DEF Poke
  <2>2. v.screen + 1 \in Int
    BY <1>1
  <2> HIDE DEF Screens
  <2> QED BY <1>1, <2>1, <2>2 DEF Screens
<1>4. Offset(w) = Offset(v)
  BY <1>3 DEF Offset
<1>5. vga_putchar(v) =
          IF Offset(w) >= Width * Height - 1 THEN vga_linefeed(w) ELSE Advance(w)
  BY DEF vga_putchar
<1> HIDE DEF w
<1>6. Placed(v) => v.screen = v.y * Width + v.x /\ Offset(v) = v.screen /\ v.screen \in Cells /\ v.y < Height
  BY OffsetOf DEF Placed
<1>7. CASE Offset(w) >= Width * Height - 1
  <2>1. Placed(v) => v.y = Height - 1
    BY <1>1, <1>4, <1>6, <1>7, Rows
  <2>2. Placed(v) => w.y < Height /\ w.y = Height - 1
    BY <1>3, <1>6, <2>1
  <2>3. /\ vga_linefeed(w) \in Screens /\ Agree(vga_linefeed(w))
        /\ w.y < Height => Placed(vga_linefeed(w))
    BY <1>3, LinefeedSound
  <2>4. w.y = Height - 1 => Ahead(vga_linefeed(w))
    BY <1>3, LinefeedSound
  <2> QED BY <1>5, <1>6, <1>7, <2>2, <2>3, <2>4
<1>8. CASE ~(Offset(w) >= Width * Height - 1)
  <2> DEFINE r == Advance(w)
  <2>1. /\ r.screen = v.screen + 1 /\ r.apart = v.apart /\ r.cells = w.cells /\ r \in Screens
        /\ \/ v.x = Width - 1 /\ r.x = 0 /\ r.y = v.y + 1
           \/ v.x # Width - 1 /\ r.x = v.x + 1 /\ r.y = v.y
    <3>1. CASE v.x + 1 >= Width
      <4>1. v.x = Width - 1 /\ 0 \in 0 .. Width - 1 /\ v.y + 1 \in Nat
        BY <1>1, <1>2, <3>1
      <4>2. r = [w EXCEPT !.x = 0, !.y = @ + 1]
        BY <1>3, <3>1 DEF Advance
      <4> HIDE DEF r
      <4> QED BY <1>3, <4>1, <4>2 DEF Screens
    <3>2. CASE ~(v.x + 1 >= Width)
      <4>1. v.x # Width - 1 /\ v.x + 1 \in 0 .. Width - 1
        BY <1>1, <1>2, <3>2
      <4>2. r = [w EXCEPT !.x = @ + 1]
        BY <1>3, <3>2 DEF Advance
      <4> HIDE DEF r
      <4> QED BY <1>3, <4>1, <4>2 DEF Screens
    <3> QED BY <3>1, <3>2
  <2> HIDE DEF r
  <2>2. (v.y + 1) * Width = v.y * Width + Width /\ v.y * Width \in Nat
    BY <1>1, Rows
  <2>3. r.x + r.y * Width = v.x + v.y * Width + 1
    <3> DEFINE a == v.y * Width
               b == (v.y + 1) * Width
    <3>1. \/ v.x = Width - 1 /\ r.x = 0 /\ r.y * Width = b
          \/ r.x = v.x + 1 /\ r.y * Width = a
      BY <2>1
    <3>2. b = a + Width /\ a \in Nat
      BY <2>2
    <3> HIDE DEF a, b
    <3>3. r.x + r.y * Width = v.x + a + 1
      BY <1>1, <1>2, <3>1, <3>2
    <3> QED BY <3>3 DEF a
  <2>4. Agree(r)
    <3> SUFFICES ASSUME ~v.apart PROVE r.screen % Offsets = Offset(r)
      BY <2>1 DEF Agree
    <3> DEFINE a == v.x + v.y * Width
    <3>1. (v.screen % Offsets) = (a % Offsets) /\ a \in Int
      <4>1. (v.screen % Offsets) = (a % Offsets)
        BY DEF Agree, Offset
      <4> QED BY <4>1, OffsetOf
    <3>2. Offset(r) = (a + 1) % Offsets
      BY <2>3 DEF Offset
    <3> HIDE DEF a
    <3>3. ((v.screen + 1) % Offsets) = ((a + 1) % Offsets)
      <4>1. ((v.screen + 1) % Offsets) = (((v.screen % Offsets) + 1) % Offsets)
        BY <1>1, <1>2, RestMore
      <4>2. ((a + 1) % Offsets) = (((a % Offsets) + 1) % Offsets)
        BY <1>2, <3>1, RestMore
      <4> QED BY <3>1, <4>1, <4>2
    <3> QED BY <2>1, <3>2, <3>3
  <2>5. Placed(v) => Placed(r)
    <3> SUFFICES ASSUME Placed(v) PROVE Placed(r)
      OBVIOUS
    <3>1. r.screen = r.y * Width + r.x
      <4>1. v.screen = v.y * Width + v.x
        BY DEF Placed
      <4> DEFINE a == v.y * Width
                 b == r.y * Width
      <4>2. v.screen = a + v.x /\ r.x + b = v.x + a + 1 /\ a \in Nat /\ b \in Int
        <5>1. b \in Int
          BY <1>1, <1>2, <2>1
        <5> QED BY <2>2, <2>3, <4>1, <5>1
      <4> HIDE DEF a, b
      <4>3. r.x \in Int
        BY <1>1, <1>2, <2>1
      <4>4. r.screen = b + r.x
        BY <1>1, <2>1, <4>2, <4>3
      <4> QED BY <4>4 DEF b
    <3>2. r.y < Height
      <4>1. r.screen < Width * Height
        <5> DEFINE b == Width * Height
        <5>1. b \in Nat /\ ~(v.screen >= b - 1)
          BY <1>2, <1>4, <1>6, <1>8
        <5> HIDE DEF b
        <5>2. r.screen < b
          BY <1>1, <2>1, <5>1
        <5> QED BY <5>2 DEF b
      <4>2. r.x \in 0 .. Width - 1 /\ r.y \in Nat
        BY <2>1, ScreenFields
      <4> QED BY <3>1, <4>1, <4>2, Rows
    <3> QED BY <2>1, <3>1, <3>2 DEF Placed
  <2>6. Placed(v) /\ Ahead(v) => Ahead(r)
    <3> SUFFICES ASSUME Placed(v), Ahead(v), NEW i \in Cells, i >= r.screen
                 PROVE  r.cells[i] # "x"
      BY DEF Ahead
    <3>1. i \in Int /\ i >= v.screen /\ i # v.screen
      BY <1>1, <2>1 DEF Cells
    <3>2. r.cells[i] = v.cells[i]
      BY <1>1, <1>3, <2>1, <3>1 DEF Poke
    <3> QED BY <3>1, <3>2 DEF Ahead
  <2> QED BY <1>5, <1>6, <1>8, <2>1, <2>4, <2>5, <2>6 DEF r
<1> QED BY <1>7, <1>8

\* A tab goes on to the next stop; over the right edge of the last row the line
\* feed and it end at the same place.
LEMMA TapSound ==
    ASSUME NEW v \in Screens
    PROVE  /\ vga_tap(v) \in Screens
           /\ Agree(vga_tap(v))
           /\ Placed(v) => Placed(vga_tap(v))
           /\ Placed(v) /\ Ahead(v) /\ ~Retraces(v, "tab") => Ahead(vga_tap(v))
<1> DEFINE x == (v.x \div TabStop + 1) * TabStop
<1>1. /\ Width \in Nat \ {0} /\ v.x \in 0 .. Width - 1 /\ v.x \in Nat
      /\ v.y \in Nat /\ TabStop \in Nat \ {0}
  BY ScreenFields
<1>2. x \in Nat /\ x > v.x
  <2> DEFINE e == v.x \div TabStop
             r == v.x % TabStop
  <2>1. r \in 0 .. TabStop - 1 /\ e \in Nat /\ v.x = e * TabStop + r
    BY <1>1, DivRest
  <2> HIDE DEF e, r
  <2>2. (e + 1) * TabStop = e * TabStop + TabStop /\ e * TabStop \in Nat
    BY <1>1, <2>1
  <2> DEFINE a == e * TabStop
  <2>3. x = a + TabStop /\ v.x = a + r /\ a \in Nat
    BY <2>1, <2>2 DEF e
  <2> HIDE DEF a, x
  <2> QED BY <1>1, <2>1, <2>3
<1>3. /\ vga_tap(v) = IF x >= Width THEN MoveTo(vga_linefeed(v), 0, v.y) ELSE MoveTo(v, x, v.y)
      /\ v.y # Height - 1 /\ x >= Width => Retraces(v, "tab")
  BY DEF vga_tap, Retraces
<1> HIDE DEF x
<1>4. CASE x >= Width
  <2> DEFINE u == vga_linefeed(v)
             y == v.y
             r == MoveTo(u, 0, y)
  <2>1. u \in Screens /\ (v.y = Height - 1 => u.screen = v.y * Width)
    BY LinefeedSound
  <2>2. v.y = Height - 1 => Ahead(u)
    BY LinefeedSound
  <2> HIDE DEF u
  <2>3. 0 \in 0 .. Width - 1 /\ y \in Nat
    BY <1>1
  <2> HIDE DEF y
  <2>4. r \in Screens /\ Agree(r)
    BY <2>1, <2>3, MoveToSound
  <2>5. y < Height => Placed(r)
    BY <2>1, <2>3, MoveToSound
  <2>6. r.cells = u.cells
    BY <2>1, <2>3, MoveToSound
  <2>7. r.screen = y * Width + 0
    BY <2>1, <2>3, MoveToSound
  <2>8. vga_tap(v) = r
    BY <1>3, <1>4 DEF u, y
  <2> HIDE DEF r
  <2>9. v.y = Height - 1 => r.screen = u.screen
    BY <1>1, <2>1, <2>7 DEF y
  <2>10. Placed(v) /\ ~Retraces(v, "tab") => Ahead(r)
    BY <1>3, <1>4, <2>2, <2>6, <2>9 DEF Placed, Ahead
  <2> QED BY <2>4, <2>5, <2>8, <2>10 DEF Placed, y
<1>5. CASE ~(x >= Width)
  <2> DEFINE y == v.y
             r == MoveTo(v, x, y)
  <2>1. x \in 0 .. Width - 1 /\ y \in Nat
    BY <1>1, <1>2, <1>5
  <2>2. vga_tap(v) = r
    BY <1>3, <1>5
  <2> HIDE DEF y
  <2>3. r \in Screens /\ Agree(r)
    BY <2>1, MoveToSound
  <2>4. y < Height => Placed(r)
    BY <2>1, MoveToSound
  <2>5. r.cells = v.cells
    BY <2>1, MoveToSound
  <2>6. r.screen = y * Width + x
    BY <2>1, MoveToSound
  <2> HIDE DEF r
  <2>7. Placed(v) => v.screen <= r.screen /\ v.screen \in Int /\ r.screen \in Int
    <3> DEFINE a == y * Width
    <3>1. a \in Nat /\ r.screen = a + x /\ (Placed(v) => v.screen = a + v.x)
      BY <1>1, <2>1, <2>6 DEF Placed, y
    <3> HIDE DEF a
    <3> QED BY <1>1, <1>2, <3>1
  <2>8. Placed(v) /\ Ahead(v) => Ahead(r)
    <3>1. \A i \in Cells : i \in Int
      BY DEF Cells
    <3> QED BY <2>5, <2>7, <3>1 DEF Ahead
  <2> QED BY <2>2, <2>3, <2>4, <2>8 DEF Placed, y
<1> QED BY <1>4, <1>5

\* A backspace goes back by one in both places.
LEMMA BackspaceSound ==
    ASSUME NEW v \in Screens, Agree(v)
    PROVE  /\ vga_backspace(v) \in Screens
           /\ Agree(vga_backspace(v))
           /\ Placed(v) /\ Offset(v) # 0 => Placed(vga_backspace(v)) /\ v.screen - 1 \in Cells
           /\ Placed(v) /\ Offset(v) # 0 /\ Ahead(v) => Ahead(vga_backspace(v))
<1> DEFINE o == (Offset(v) - 1) % Offsets
           r == vga_backspace(v)
<1>1. /\ v.cells \in [Cells -> {"blank", "x", "s"}] /\ v.screen \in Int
      /\ v.x \in 0 .. Width - 1 /\ v.y \in Nat /\ v.apart \in BOOLEAN
  BY ScreenFields
<1>2. Width \in Nat \ {0} /\ Height \in Nat \ {0} /\ Offsets \in Nat \ {0}
  <2>1. Width \in Nat \ {0} /\ Height \in Nat \ {0} /\ Offsets \in Nat /\ Offsets >= Width * Height
    BY ScreenAssumption
  <2>2. Width * Height \in Nat \ {0}
    BY <2>1
  <2> QED BY <2>1, <2>2
<1>3. Offset(v) \in 0 .. Offsets - 1 /\ (Placed(v) => Offset(v) = v.screen /\ v.screen \in Cells)
  BY OffsetOf
<1>4. o \in 0 .. Offsets - 1
  BY <1>2, <1>3
<1>5. r = [v EXCEPT !.x = o % Width, !.y = o \div Width,
                    !.screen = @ - 1, !.cells = Poke(v, v.screen - 1, "blank")]
  BY DEF vga_backspace
<1>6. Poke(v, v.screen - 1, "blank") \in [Cells -> {"blank", "x", "s"}]
  BY <1>1 DEF Poke
<1>d. o = (Offset(v) - 1) % Offsets
  OBVIOUS
<1> HIDE DEF o, r
<1>7. o % Width \in 0 .. Width - 1 /\ o \div Width \in Nat /\ o = (o \div Width) * Width + (o % Width)
  <2>1. o \in Nat
    BY <1>2, <1>4
  <2> QED BY <1>2, <2>1, DivRest
<1>8. /\ r.x = o % Width /\ r.y = o \div Width /\ r.screen = v.screen - 1 /\ r.apart = v.apart
      /\ r.cells = Poke(v, v.screen - 1, "blank") /\ r \in Screens
  <2> DEFINE a == o % Width
             b == o \div Width
             c == v.screen - 1
  <2>1. a \in 0 .. Width - 1 /\ b \in Nat /\ c \in Int
    BY <1>1, <1>7
  <2>2. r = [v EXCEPT !.x = a, !.y = b, !.screen = c, !.cells = Poke(v, c, "blank")]
    BY <1>1, <1>5
  <2> HIDE DEF a, b
  <2>3. r.x = a /\ r.y = b /\ r.screen = c /\ r.apart = v.apart /\ r.cells = Poke(v, c, "blank")
    BY <2>2 DEF Screens
  <2>4. r \in Screens
    BY <1>1, <1>6, <2>1, <2>2 DEF Screens
  <2> QED BY <2>3, <2>4 DEF a, b
<1>9. Offset(r) = o
  <2>1. r.x + r.y * Width = o
    <3> DEFINE a == o % Width
               b == (o \div Width) * Width
    <3>1. r.x = a /\ r.y * Width = b /\ o = b + a /\ a \in Nat /\ b \in Nat
      BY <1>2, <1>7, <1>8
    <3> HIDE DEF a, b
    <3> QED BY <3>1
  <2> QED BY <1>2, <1>4, <2>1, SmallRest DEF Offset
<1>10. Agree(r)
  <2> SUFFICES ASSUME ~v.apart PROVE r.screen % Offsets = Offset(r)
    BY <1>8 DEF Agree
  <2>1. (v.screen % Offsets) = Offset(v)
    BY DEF Agree
  <2>2. ((v.screen - 1) % Offsets) = (((v.screen % Offsets) - 1) % Offsets)
    BY <1>1, <1>2, RestLess
  <2> QED BY <1>8, <1>9, <1>d, <2>1, <2>2
<1>11. ASSUME Placed(v), Offset(v) # 0
       PROVE  Placed(r) /\ v.screen - 1 \in Cells
  <2>1. v.screen - 1 \in Cells /\ v.screen - 1 \in 0 .. Offsets - 1
    <3> DEFINE b == Width * Height
    <3>1. b \in Nat /\ v.screen \in 0 .. b - 1 /\ v.screen \in 0 .. Offsets - 1 /\ v.screen # 0
      BY <1>2, <1>3, <1>11 DEF Cells
    <3>2. Cells = 0 .. b - 1
      BY DEF Cells
    <3> HIDE DEF b
    <3> QED BY <1>2, <3>1, <3>2
  <2>2. o = v.screen - 1
    <3>1. o = (v.screen - 1) % Offsets
      BY <1>3, <1>11, <1>d
    <3> QED BY <1>2, <2>1, <3>1, SmallRest
  <2>3. r.screen = r.y * Width + r.x
    BY <1>7, <1>8, <2>2
  <2>4. r.y < Height
    <3>1. r.x \in 0 .. Width - 1 /\ r.y \in Nat
      BY <1>7, <1>8
    <3>2. r.screen < Width * Height
      <4> DEFINE b == Width * Height
      <4>1. r.screen \in 0 .. b - 1 /\ b \in Nat
        BY <1>2, <1>8, <2>1 DEF Cells
      <4> HIDE DEF b
      <4>2. r.screen < b
        BY <4>1
      <4> QED BY <4>2 DEF b
    <3> QED BY <2>3, <3>1, <3>2, Rows
  <2> QED BY <1>8, <1>11, <2>1, <2>3, <2>4 DEF Placed
<1>12. ASSUME Placed(v), Offset(v) # 0, Ahead(v)
       PROVE  Ahead(r)
  <2> SUFFICES ASSUME NEW i \in Cells, i >= r.screen PROVE r.cells[i] # "x"
    BY DEF Ahead
  <2>1. i \in Int /\ (i = v.screen - 1 \/ i >= v.screen)
    BY <1>1, <1>8 DEF Cells
  <2>2. CASE i = v.screen - 1
    BY <1>1, <1>8, <2>2 DEF Poke
  <2>3. CASE i >= v.screen /\ i # v.screen - 1
    <3>1. r.cells[i] = v.cells[i]
      BY <1>1, <1>8, <2>3 DEF Poke
    <3> QED BY <1>12, <2>3, <3>1 DEF Ahead
  <2> QED BY <1>1, <2>1, <2>2, <2>3
<1> QED BY <1>8, <1>10, <1>11, <1>12 DEF r

\* A character keeps the places together and the screen ahead blank, and is
\* written on the screen, but in the cases that Retraces names.
LEMMA CharSound ==
    ASSUME NEW v \in Screens, Agree(v), NEW c
    PROVE  /\ VgaChar(v, c) \in Screens
           /\ Agree(VgaChar(v, c))
           /\ Placed(v) /\ ~(c = "backspace" /\ Retraces(v, c)) => Placed(VgaChar(v, c)) /\ ~Strays(v, c)
           /\ Placed(v) /\ Ahead(v) /\ ~Retraces(v, c) => Ahead(VgaChar(v, c))
<1>1. CASE c = "newline"
  <2>1. VgaChar(v, c) = vga_linefeed(v) /\ ~Strays(v, c)
    BY <1>1 DEF VgaChar, Strays, Controls
  <2> QED BY <2>1, LinefeedSound DEF Placed
<1>2. CASE c = "tab"
  <2>1. VgaChar(v, c) = vga_tap(v) /\ ~Strays(v, c)
    BY <1>2 DEF VgaChar, Strays, Controls
  <2>2. Retraces(v, c) <=> Retraces(v, "tab")
    BY <1>2
  <2> QED BY <2>1, <2>2, TapSound
<1>3. CASE c = "backspace"
  <2>1. VgaChar(v, c) = vga_backspace(v) /\ (Strays(v, c) <=> v.screen - 1 \notin Cells)
    BY <1>3 DEF VgaChar, Strays, Controls
  <2>2. Retraces(v, c) <=> Offset(v) = 0
    BY <1>3 DEF Retraces
  <2> QED BY <1>3, <2>1, <2>2, BackspaceSound
<1>4. CASE c \notin {"newline", "tab", "backspace"}
  <2>1. VgaChar(v, c) = vga_putchar(v) /\ (Strays(v, c) <=> v.screen \notin Cells)
    BY <1>4 DEF VgaChar, Strays, Controls
  <2> QED BY <2>1, PutcharSound
<1> QED BY <1>1, <1>2, <1>3, <1>4

LEMMA ScreenInit == ConsoleInit => ScreenInv
<1> SUFFICES ASSUME ConsoleInit PROVE ScreenInv
  OBVIOUS
<1>1. PICK x \in 0 .. Width - 1, y \in 0 .. Height - 1 :
          vga = [cells |-> [i \in Cells |-> "blank"], screen |-> y * Width + x,
                 x |-> x, y |-> y, apart |-> FALSE]
  BY DEF ConsoleInit
<1>2. /\ vga.cells = [i \in Cells |-> "blank"] /\ vga.screen = y * Width + x
      /\ vga.x = x /\ vga.y = y /\ ~vga.apart
  BY <1>1
<1>3. Width \in Nat \ {0} /\ Height \in Nat \ {0} /\ Offsets \in Nat /\ y \in Nat
  BY ScreenAssumption
<1>4. y * Width + x \in Int /\ y * Width + x = x + y * Width
  BY <1>3
<1>5. vga \in Screens
  <2> DEFINE s == y * Width + x
  <2>1. s \in Int /\ [i \in Cells |-> "blank"] \in [Cells -> {"blank", "x", "s"}]
    BY <1>4
  <2>2. vga = [cells |-> [i \in Cells |-> "blank"], screen |-> s, x |-> x, y |-> y, apart |-> FALSE]
    BY <1>1
  <2> HIDE DEF s
  <2> QED BY <1>3, <2>1, <2>2 DEF Screens
<1>6. Agree(vga)
  BY <1>2, <1>4 DEF Agree, Offset
<1>7. Placed(vga)
  BY <1>2, <1>3 DEF Placed
<1>8. Ahead(vga)
  BY <1>2 DEF Ahead
<1>9. ~strayed
  BY DEF ConsoleInit
<1> QED BY <1>5, <1>6, <1>7, <1>8, <1>9 DEF ScreenInv

LEMMA PrintStep == ScreenInv /\ VgaWrite => ScreenInv'
<1> SUFFICES ASSUME ScreenInv, VgaWrite PROVE ScreenInv'
  OBVIOUS
<1> DEFINE c == Head(sending)
<1>1. /\ vga' = VgaChar(vga, c)
      /\ strayed' = (strayed \/ Strays(vga, c))
      /\ retraced' = IF Retraces(vga, c) THEN retraced \cup {c} ELSE retraced
  BY DEF VgaWrite
<1> HIDE DEF c
<1>2. /\ vga \in Screens /\ Agree(vga)
      /\ retraced \cap {"backspace", "clear"} = {} => Placed(vga) /\ ~strayed
      /\ retraced = {} => Ahead(vga)
  BY DEF ScreenInv
<1>3. /\ vga' \in Screens /\ Agree(vga')
      /\ Placed(vga) /\ ~(c = "backspace" /\ Retraces(vga, c)) => Placed(vga') /\ ~Strays(vga, c)
      /\ Placed(vga) /\ Ahead(vga) /\ ~Retraces(vga, c) => Ahead(vga')
  BY <1>1, <1>2, CharSound
<1>4. ASSUME retraced' \cap {"backspace", "clear"} = {}
      PROVE  Placed(vga') /\ ~strayed'
  <2>1. retraced \cap {"backspace", "clear"} = {} /\ ~(c = "backspace" /\ Retraces(vga, c))
    BY <1>1, <1>4
  <2> QED BY <1>1, <1>2, <1>3, <2>1
<1>5. ASSUME retraced' = {}
      PROVE  Ahead(vga')
  <2>1. retraced = {} /\ ~Retraces(vga, c)
    BY <1>1, <1>5
  <2> QED BY <1>2, <1>3, <2>1
<1>6. Agree(vga') <=> Agree(vga)'
  BY DEF Agree, Offset
<1>7. (Placed(vga') <=> Placed(vga)') /\ (Ahead(vga') <=> Ahead(vga)')
  BY DEF Placed, Ahead, Cells
<1> QED BY <1>3, <1>4, <1>5, <1>6, <1>7 DEF ScreenInv, Screens, Cells

LEMMA ClearStep == ScreenInv /\ Clear => ScreenInv'
<1> SUFFICES ASSUME ScreenInv, Clear PROVE ScreenInv'
  OBVIOUS
<1>1. vga' = [cells |-> [i \in Cells |-> "blank"], screen |-> Width * Height, x |-> 0, y |-> 0,
              apart |-> TRUE]
      /\ retraced' = retraced \cup {"clear"}
  BY DEF Clear, vga_clear
<1>2. /\ Width \in Nat \ {0} /\ Width * Height \in Int /\ 0 \in 0 .. Width - 1
      /\ [i \in Cells |-> "blank"] \in [Cells -> {"blank", "x", "s"}]
  BY ScreenAssumption
<1>3. vga' \in Screens
  <2> DEFINE s == Width * Height
             f == [i \in Cells |-> "blank"]
  <2>1. s \in Int /\ f \in [Cells -> {"blank", "x", "s"}]
    BY <1>2
  <2>2. vga' = [cells |-> f, screen |-> s, x |-> 0, y |-> 0, apart |-> TRUE]
    BY <1>1
  <2> HIDE DEF s, f
  <2> QED BY <1>2, <2>1, <2>2 DEF Screens
<1>4. Agree(vga)'
  BY <1>1 DEF Agree
<1>5. retraced' \cap {"backspace", "clear"} # {}
  BY <1>1
<1>6. retraced' # {}
  BY <1>1
<1> QED BY <1>3, <1>4, <1>5, <1>6 DEF ScreenInv, Screens, Cells

LEMMA RawPrintStep == ScreenInv /\ RawPrint => ScreenInv'
<1> SUFFICES ASSUME ScreenInv, RawPrint PROVE ScreenInv'
  OBVIOUS
<1>1. /\ vga' = [vga EXCEPT !.cells[Width - 1] = "s"]
      /\ strayed' = strayed /\ retraced' = retraced
  BY DEF RawPrint
<1>2. /\ vga \in Screens /\ Agree(vga)
      /\ retraced \cap {"backspace", "clear"} = {} => Placed(vga) /\ ~strayed
      /\ retraced = {} => Ahead(vga)
  BY DEF ScreenInv
<1>3. /\ vga'.screen = vga.screen /\ vga'.x = vga.x /\ vga'.y = vga.y /\ vga'.apart = vga.apart
      /\ vga'.cells = [vga.cells EXCEPT ![Width - 1] = "s"] /\ vga' \in Screens
  BY <1>1, <1>2 DEF Screens
<1>4. Agree(vga)' /\ (Placed(vga) => Placed(vga)')
  BY <1>2, <1>3 DEF Agree, Placed, Offset
<1>5. ASSUME Ahead(vga)
      PROVE  Ahead(vga)'
  BY <1>2, <1>3, <1>5 DEF Ahead, Screens, Cells
<1> QED BY <1>1, <1>2, <1>3, <1>4, <1>5 DEF ScreenInv, Screens, Cells

\* The rest leaves the screen alone.
LEMMA StreamStep ==
    ScreenInv /\ UNCHANGED <<vga, strayed, retraced>> => ScreenInv'
BY DEF ScreenInv, Screens, Cells, Agree, Placed, Ahead, Offset

\* The inductive invariant of the screen: both of its places are the same cell,
\* and the cells from there on are blank, but for the operations it names.
THEOREM ConsoleInvariant == ConsoleSpec => []ScreenInv
<1>1. ConsoleInit => ScreenInv
  BY ScreenInit
<1>2. ScreenInv /\ [ConsoleNext]_consoleVars => ScreenInv'
  <2> SUFFICES ASSUME ScreenInv, [ConsoleNext]_consoleVars PROVE ScreenInv'
    OBVIOUS
  <2>1. CASE VgaWrite
    BY <2>1, PrintStep
  <2>2. CASE Clear
    BY <2>2, ClearStep
  <2>3. CASE RawPrint
    BY <2>3, RawPrintStep
  <2>4. ASSUME NEW c \in Chars, Put(c) PROVE ScreenInv'
    BY <2>4, StreamStep DEF Put, Emit
  <2>5. ASSUME NEW str \in Texts, Write(str) PROVE ScreenInv'
    BY <2>5, StreamStep DEF Write, Emit
  <2>6. ASSUME NEW n \in Numbers, PutNumber(n) \/ PutHex(n) PROVE ScreenInv'
    BY <2>6, StreamStep DEF PutNumber, PutHex, Emit
  <2>7. CASE FlushStream
    BY <2>7, StreamStep DEF FlushStream, Emit
  <2>8. ASSUME NEW stream, Rebuffer(stream) PROVE ScreenInv'
    BY <2>8, StreamStep DEF Rebuffer
  <2>9. CASE UNCHANGED consoleVars
    BY <2>9, StreamStep DEF consoleVars
  <2> QED BY <2>1, <2>2, <2>3, <2>4, <2>5, <2>6, <2>7, <2>8, <2>9 DEF ConsoleNext
<1> QED BY <1>1, <1>2, PTL DEF ConsoleSpec

\* What the console writes next goes to the cursor, to a blank cell and onto
\* the screen (vgaout.cpp:26-114), whatever is written and wherever interrupts
\* print in between, for every size of the screen: the exceptions are the ones
\* that ScreenSound names.
THEOREM ConsoleScreenSound == ConsoleSpec => []ScreenSound
<1>1. ScreenInv => ScreenSound
  <2> SUFFICES ASSUME ScreenInv PROVE ScreenSound
    OBVIOUS
  <2>1. CursorsAgree
    BY DEF ScreenInv, Agree, CursorsAgree
  <2>2. BlankAhead
    BY DEF ScreenInv, Ahead, BlankAhead
  <2>3. WritesOnScreen
    BY DEF ScreenInv, WritesOnScreen
  <2> QED BY <2>1, <2>2, <2>3 DEF ScreenSound
<1> QED BY <1>1, ConsoleInvariant, PTL

-----------------------------------------------------------------------------
(* The stream. *)

\* What the operation r on a stream s makes of the text str: it sends the first
\* of what was due, the rest waits, and there is room for it.
InOrder(s, str, r) ==
    /\ r.sent \in Seq(Glyphs) /\ r.buf \in Seq(Glyphs)
    /\ r.sent \o r.buf = s.buf \o str
    /\ Len(r.buf) <= s.cap

LEMMA OutcomeIs ==
    ASSUME NEW x, NEW y
    PROVE  Outcome(x, y).sent = x /\ Outcome(x, y).buf = y
BY DEF Outcome

LEMMA Associative ==
    \A s1, s2, s3 \in Seq(Glyphs) : (s1 \o s2) \o s3 = s1 \o (s2 \o s3)
BY ONLY ConcatAssociative, SMTT(60)

\* An outcome with the two pieces.
LEMMA InOrderMeans ==
    ASSUME NEW s, NEW str, NEW x \in Seq(Glyphs), NEW y \in Seq(Glyphs),
           x \o y = s.buf \o str, Len(y) <= s.cap
    PROVE  InOrder(s, str, Outcome(x, y))
<1>1. Outcome(x, y).sent = x /\ Outcome(x, y).buf = y
  BY OutcomeIs
<1> QED BY <1>1, Zenon DEF InOrder

\* Two operations, the second on the buffer the first leaves, are one.
LEMMA InOrderThen ==
    ASSUME NEW s, s.buf \in Seq(Glyphs), NEW e, e.cap = s.cap,
           NEW str \in Seq(Glyphs), NEW more \in Seq(Glyphs), NEW r, NEW f,
           InOrder(s, str, r), InOrder(e, more, f), e.buf = r.buf
    PROVE  InOrder(s, str \o more, Outcome(r.sent \o f.sent, f.buf))
<1>1. PICK b, p, kept, u, w : b = s.buf /\ p = r.sent /\ kept = r.buf /\ u = f.sent /\ w = f.buf
  OBVIOUS
<1>2. b \in Seq(Glyphs) /\ p \in Seq(Glyphs) /\ kept \in Seq(Glyphs) /\ u \in Seq(Glyphs)
      /\ w \in Seq(Glyphs) /\ p \o kept = b \o str /\ u \o w = kept \o more /\ Len(w) <= s.cap
  BY <1>1 DEF InOrder
<1> DEFINE J(x, y) == x \o y
<1>3. J(p, kept) = J(b, str) /\ J(u, w) = J(kept, more)
  BY <1>2
<1>4. \A x, y, z \in Seq(Glyphs) : J(J(x, y), z) = J(x, J(y, z))
  BY Associative, Zenon
<1>5. J(J(p, u), w) = J(b, J(str, more))
  <2> HIDE DEF J
  <2>1. J(J(p, u), w) = J(p, J(u, w)) /\ J(J(p, kept), more) = J(p, J(kept, more))
    BY <1>2, <1>4
  <2>2. J(J(b, str), more) = J(b, J(str, more))
    BY <1>2, <1>4
  <2> QED BY <1>3, <2>1, <2>2
<1>6. p \o u \in Seq(Glyphs) /\ (p \o u) \o w = s.buf \o (str \o more)
  BY <1>1, <1>2, <1>5, ConcatProperties
<1>7. InOrder(s, str \o more, Outcome(p \o u, w))
  BY <1>2, <1>6, InOrderMeans, Zenon
<1> QED BY <1>1, <1>7, Zenon

\* A text cut in two.
LEMMA CutInTwo ==
    ASSUME NEW t \in Seq(Glyphs), NEW k \in 0 .. Len(t)
    PROVE  /\ SubSeq(t, 1, k) \in Seq(Glyphs) /\ SubSeq(t, k + 1, Len(t)) \in Seq(Glyphs)
           /\ Len(SubSeq(t, 1, k)) = k /\ Len(SubSeq(t, k + 1, Len(t))) = Len(t) - k
           /\ SubSeq(t, 1, k) \o SubSeq(t, k + 1, Len(t)) = t
<1>1. Len(t) \in Nat /\ \A i \in 1 .. Len(t) : t[i] \in Glyphs
  BY LenProperties, ElementOfSeq
<1>2. PICK L \in Nat : L = Len(t)
  BY <1>1
<1>3. (\A i \in 1 .. k : t[i] \in Glyphs) /\ (\A i \in k + 1 .. L : t[i] \in Glyphs)
  BY <1>1, <1>2
<1>4. /\ SubSeq(t, 1, k) \in Seq(Glyphs)
      /\ Len(SubSeq(t, 1, k)) = IF 1 <= k THEN k - 1 + 1 ELSE 0
  <2>1. 1 \in Int /\ k \in Int
    OBVIOUS
  <2> QED BY ONLY <1>3, <2>1, SubSeqProperties, SMTT(30)
<1>5. /\ SubSeq(t, k + 1, L) \in Seq(Glyphs)
      /\ Len(SubSeq(t, k + 1, L)) = IF k + 1 <= L THEN L - (k + 1) + 1 ELSE 0
  <2>1. L \in Int /\ k + 1 \in Int
    OBVIOUS
  <2> QED BY ONLY <1>3, <2>1, SubSeqProperties, SMTT(30)
<1>6. SubSeq(t, 1, k) \o SubSeq(t, k + 1, L) = SubSeq(t, 1, L)
  <2>1. 1 \in 1 .. Len(t) + 1 /\ k \in 1 - 1 .. Len(t) /\ L \in k .. Len(t)
    BY <1>2
  <2> QED BY <2>1, ConcatAdjacentSubSeq
<1>7. SubSeq(t, 1, L) = t
  BY <1>2, SubSeqFull
<1>8. Len(SubSeq(t, 1, k)) = k /\ Len(SubSeq(t, k + 1, L)) = L - k
  <2>1. k \in Nat /\ k <= L
    BY ONLY <1>2, k \in 0 .. Len(t), L \in Nat
  <2>2. /\ (IF 1 <= k THEN k - 1 + 1 ELSE 0) = k
        /\ (IF k + 1 <= L THEN L - (k + 1) + 1 ELSE 0) = L - k
    BY ONLY <2>1, L \in Nat
  <2> QED BY ONLY <1>4, <1>5, <2>2
<1>9. /\ SubSeq(t, 1, k) \in Seq(Glyphs) /\ SubSeq(t, k + 1, L) \in Seq(Glyphs)
      /\ SubSeq(t, 1, k) \o SubSeq(t, k + 1, L) = t
  BY ONLY <1>4, <1>5, <1>6, <1>7
<1> QED BY ONLY <1>2, <1>8, <1>9

\* The two pieces of a text: the first is a prefix, the second what comes after.
LEMMA PrefixAndRest ==
    ASSUME NEW x \in Seq(Glyphs), NEW y \in Seq(Glyphs)
    PROVE  IsPrefix(x, x \o y) /\ SubSeq(x \o y, Len(x) + 1, Len(x \o y)) = y
<1>1. PICK t \in Seq(Glyphs) : t = x \o y
  BY ConcatProperties
<1>2. PICK k \in Nat, m \in Nat : k = Len(x) /\ m = Len(y) /\ Len(t) = k + m
  BY <1>1, ConcatProperties, LenProperties
<1>3. \A i \in 1 .. k + m : t[i] = IF i <= k THEN x[i] ELSE y[i - k]
  BY <1>1, <1>2, ConcatProperties
<1>4. /\ SubSeq(t, 1, k) \in Seq(Glyphs) /\ SubSeq(t, k + 1, k + m) \in Seq(Glyphs)
      /\ Len(SubSeq(t, 1, k)) = k /\ Len(SubSeq(t, k + 1, k + m)) = m
      /\ SubSeq(t, 1, k) \o SubSeq(t, k + 1, k + m) = x \o y
  <2>1. /\ SubSeq(t, 1, k) \in Seq(Glyphs) /\ SubSeq(t, k + 1, Len(t)) \in Seq(Glyphs)
        /\ Len(SubSeq(t, 1, k)) = k /\ Len(SubSeq(t, k + 1, Len(t))) = Len(t) - k
        /\ SubSeq(t, 1, k) \o SubSeq(t, k + 1, Len(t)) = t
    <3>1. k \in 0 .. Len(t)
      BY ONLY <1>2, k \in Nat, m \in Nat
    <3> QED BY <3>1, CutInTwo
  <2>2. Len(t) - k = m
    BY ONLY <1>2, k \in Nat, m \in Nat
  <2> QED BY ONLY <1>1, <1>2, <2>1, <2>2
<1>5. SubSeq(t, 1, k) = x
  <2>1. ASSUME NEW i \in 1 .. k PROVE SubSeq(t, 1, k)[i] = x[i]
    BY <1>2, <1>3
  <2> QED BY <1>2, <1>4, <2>1, SeqEqual
<1>6. SubSeq(t, k + 1, k + m) = y
  <2>1. PICK z \in Seq(Glyphs) : z = SubSeq(t, k + 1, k + m)
    BY <1>4
  <2>2. Len(z) = m /\ x \o z = x \o y
    BY <1>4, <1>5, <2>1
  <2>3. ASSUME NEW i \in 1 .. m PROVE z[i] = y[i]
    <3>1. k + i \in 1 .. k + m /\ ~(k + i <= k) /\ (k + i) - k = i
      BY ONLY k \in Nat, m \in Nat, i \in 1 .. m
    <3>2. (x \o z)[k + i] = z[i]
      BY <1>2, <2>2, <3>1, ConcatProperties
    <3>3. (x \o y)[k + i] = y[i]
      BY <1>2, <3>1, ConcatProperties
    <3> QED BY <2>2, <3>2, <3>3
  <2> QED BY <1>2, <2>1, <2>2, <2>3, SeqEqual
<1>7. SubSeq(x, 1, k) = x
  BY <1>2, SubSeqFull
<1>8. Len(x) <= Len(t)
  BY ONLY <1>2, k \in Nat, m \in Nat
<1>9. IsPrefix(x, t)
  BY <1>2, <1>5, <1>7, <1>8 DEF IsPrefix
<1>10. SubSeq(t, Len(x) + 1, Len(t)) = y
  BY <1>2, <1>6
<1> QED BY <1>1, <1>9, <1>10

\* A character, whether there is room for it, no buffer, or a full one
\* (raw_ostream.cpp:92-102).
LEMMA PutCharRight ==
    ASSUME NEW s \in Streams, Len(s.buf) <= s.cap, NEW c \in Glyphs
    PROVE  InOrder(s, <<c>>, PutChar(s, c))
<1>1. s.buf \in Seq(Glyphs) /\ s.cap \in Nat /\ Len(s.buf) \in Nat
  BY LenProperties DEF Streams
<1>2. <<c>> \in Seq(Glyphs) /\ <<>> \in Seq(Glyphs) /\ Len(<<c>>) = 1 /\ Len(<<>>) = 0
  OBVIOUS
<1>3. CASE Len(s.buf) < s.cap
  <2>1. PutChar(s, c) = Outcome(<<>>, Append(s.buf, c))
    BY <1>1, <1>3 DEF PutChar
  <2>2. Append(s.buf, c) = s.buf \o <<c>> /\ Append(s.buf, c) \in Seq(Glyphs)
        /\ Len(Append(s.buf, c)) = Len(s.buf) + 1
    BY <1>1, AppendIsConcat, AppendProperties
  <2>3. <<>> \o Append(s.buf, c) = Append(s.buf, c)
    BY <2>2, ConcatEmptySeq
  <2>4. Len(s.buf) + 1 <= s.cap
    BY <1>1, <1>3
  <2> QED BY <1>2, <2>1, <2>2, <2>3, <2>4, InOrderMeans, Zenon
<1>4. CASE s.cap = 0
  <2>1. PutChar(s, c) = Outcome(<<c>>, <<>>)
    BY <1>1, <1>4 DEF PutChar
  <2>2. s.buf = <<>>
    BY <1>1, <1>4, EmptySeq
  <2>3. <<c>> \o <<>> = <<c>> /\ <<>> \o <<c>> = <<c>>
    BY <1>2, ConcatEmptySeq
  <2> QED BY <1>1, <1>2, <1>4, <2>1, <2>2, <2>3, InOrderMeans, Zenon
<1>5. CASE ~(Len(s.buf) < s.cap) /\ s.cap # 0
  <2>1. PutChar(s, c) = Outcome(s.buf, <<c>>)
    BY <1>1, <1>5 DEF PutChar
  <2>2. Len(<<c>>) <= s.cap
    BY <1>1, <1>2, <1>5
  <2> QED BY <1>1, <1>2, <2>1, <2>2, InOrderMeans, Zenon
<1> QED BY <1>3, <1>4, <1>5

\* n % m, with the bound and what it leaves.
LEMMA RestFits ==
    ASSUME NEW n \in Nat, NEW m \in Nat \ {0}
    PROVE  n % m \in Nat /\ n % m < m /\ n % m <= n
OBVIOUS

\* A text that finds the buffer empty (raw_ostream.cpp:113-123).
LEMMA WriteEmptyRight ==
    ASSUME NEW s \in Streams, s.cap # 0, s.buf = <<>>, NEW str \in Seq(Glyphs)
    PROVE  InOrder(s, str, WriteEmpty(s, str))
<1>1. s.cap \in Nat \ {0} /\ Len(str) \in Nat /\ <<>> \in Seq(Glyphs)
  BY LenProperties, EmptySeq DEF Streams
<1>2. s.buf \o str = str /\ <<>> \o str = str
  BY ConcatEmptySeq
<1>3. CASE Len(str) <= s.cap
  <2>1. WriteEmpty(s, str) = Outcome(<<>>, str)
    BY <1>3 DEF WriteEmpty
  <2> QED BY <1>1, <1>2, <1>3, <2>1, InOrderMeans, Zenon
<1>4. CASE ~(Len(str) <= s.cap)
  <2>1. PICK rest \in Nat : rest = Len(str) % s.cap /\ rest < s.cap /\ rest <= Len(str)
    BY <1>1, RestFits
  <2>2. WriteEmpty(s, str) = Outcome(SubSeq(str, 1, Len(str) - rest),
                                    SubSeq(str, Len(str) - rest + 1, Len(str)))
    BY <1>4, <2>1 DEF WriteEmpty
  <2>3. Len(str) - rest \in 0 .. Len(str) /\ Len(str) - (Len(str) - rest) = rest
    BY <1>1, <2>1
  <2>4. PICK k \in 0 .. Len(str) : k = Len(str) - rest
    BY <2>3
  <2>5. /\ SubSeq(str, 1, k) \in Seq(Glyphs) /\ SubSeq(str, k + 1, Len(str)) \in Seq(Glyphs)
        /\ Len(SubSeq(str, k + 1, Len(str))) = Len(str) - k
        /\ SubSeq(str, 1, k) \o SubSeq(str, k + 1, Len(str)) = str
    BY CutInTwo
  <2>6. Len(str) - k <= s.cap
    BY <1>1, <2>1, <2>4
  <2> QED BY <1>2, <2>2, <2>4, <2>5, <2>6, InOrderMeans, Zenon
<1> QED BY <1>3, <1>4

\* A text, into whatever there is in the buffer (raw_ostream.cpp:103-159).
LEMMA WriteStringRight ==
    ASSUME NEW s \in Streams, Len(s.buf) <= s.cap, NEW str \in Seq(Glyphs)
    PROVE  InOrder(s, str, WriteString(s, str))
<1>1. /\ s.buf \in Seq(Glyphs) /\ s.cap \in Nat /\ Len(s.buf) \in Nat /\ Len(str) \in Nat
      /\ <<>> \in Seq(Glyphs) /\ Len(<<>>) = 0
  BY LenProperties, EmptySeq DEF Streams
<1>2. PICK room \in Nat : room = s.cap - Len(s.buf)
  BY <1>1
<1>3. CASE Len(str) <= room
  <2>1. WriteString(s, str) = Outcome(<<>>, s.buf \o str)
    <3>1. Len(str) <= s.cap - Len(s.buf)
      BY <1>2, <1>3
    <3> QED BY <1>1, <3>1 DEF WriteString
  <2>2. s.buf \o str \in Seq(Glyphs) /\ Len(s.buf \o str) = Len(s.buf) + Len(str)
    BY <1>1, ConcatProperties
  <2>3. <<>> \o (s.buf \o str) = s.buf \o str
    BY <2>2, ConcatEmptySeq
  <2>4. Len(s.buf) + Len(str) <= s.cap
    BY <1>1, <1>2, <1>3
  <2> QED BY <1>1, <2>1, <2>2, <2>3, <2>4, InOrderMeans, Zenon
<1>4. CASE ~(Len(str) <= room) /\ s.cap = 0
  <2>1. WriteString(s, str) = Outcome(str, <<>>)
    <3>1. Len(str) > s.cap - Len(s.buf) /\ ~(Len(str) <= s.cap - Len(s.buf))
      BY <1>1, <1>2, <1>4
    <3> QED BY <1>4, <3>1 DEF WriteString
  <2>2. s.buf = <<>>
    BY <1>1, <1>4, EmptySeq
  <2>3. <<>> \o str = str /\ str \o <<>> = str
    BY ConcatEmptySeq
  <2> QED BY <1>1, <1>4, <2>1, <2>2, <2>3, InOrderMeans, Zenon
<1>5. CASE ~(Len(str) <= room) /\ s.cap # 0 /\ s.buf = <<>>
  <2>1. WriteString(s, str) = WriteEmpty(s, str)
    <3>1. Len(str) > room
      BY <1>1, <1>5
    <3> QED BY <1>2, <1>5, <3>1 DEF WriteString
  <2> QED BY <1>5, <2>1, WriteEmptyRight
<1>6. CASE ~(Len(str) <= room) /\ s.cap # 0 /\ s.buf # <<>>
  <2>1. PICK tail : tail = SubSeq(str, room + 1, Len(str))
    OBVIOUS
  <2>2. PICK later : later = WriteEmpty(s, tail)
    OBVIOUS
  <2>3. WriteString(s, str) = Outcome(s.buf \o SubSeq(str, 1, room) \o later.sent, later.buf)
    <3>1. Len(str) > room
      BY <1>1, <1>6
    <3> QED BY <1>2, <1>6, <2>1, <2>2, <3>1 DEF WriteString
  <2>4. PICK head \in Seq(Glyphs) : head = SubSeq(str, 1, room)
    <3>1. room \in 0 .. Len(str)
      BY <1>1, <1>6
    <3> QED BY <3>1, CutInTwo
  <2>5. tail \in Seq(Glyphs) /\ head \o tail = str
    <3>1. room \in 0 .. Len(str)
      BY <1>1, <1>6
    <3> QED BY <2>1, <2>4, <3>1, CutInTwo
  <2>6. PICK e \in Streams : e = [s EXCEPT !.buf = <<>>]
    BY <1>1 DEF Streams
  <2>7. e.cap = s.cap /\ e.buf = <<>> /\ WriteEmpty(e, tail) = later
    BY <2>2, <2>6 DEF WriteEmpty, Streams
  <2>8. InOrder(e, tail, later)
    BY <1>6, <2>5, <2>7, WriteEmptyRight
  <2>9. InOrder(s, head, Outcome(s.buf \o head, <<>>))
    <3>1. s.buf \o head \in Seq(Glyphs) /\ (s.buf \o head) \o <<>> = s.buf \o head
      BY <1>1, ConcatProperties, ConcatEmptySeq
    <3>2. Len(<<>>) <= s.cap
      BY <1>1
    <3> QED BY <1>1, <3>1, <3>2, InOrderMeans, Zenon
  <2>10. PICK r : r = Outcome(s.buf \o head, <<>>) /\ r.sent = s.buf \o head /\ r.buf = <<>>
    BY OutcomeIs
  <2>11. InOrder(s, head \o tail, Outcome(r.sent \o later.sent, later.buf))
    <3>1. InOrder(s, head, r) /\ e.cap = s.cap /\ e.buf = r.buf
      BY <2>7, <2>9, <2>10
    <3> QED BY <1>1, <2>5, <2>8, <3>1, InOrderThen, Zenon
  <2> QED BY <2>3, <2>4, <2>5, <2>10, <2>11, Zenon
<1> QED BY <1>3, <1>4, <1>5, <1>6

\* flush() sends what waits.
LEMMA FlushAllRight ==
    ASSUME NEW s \in Streams
    PROVE  InOrder(s, <<>>, FlushAll(s))
<1>1. s.buf \in Seq(Glyphs) /\ <<>> \in Seq(Glyphs) /\ Len(<<>>) = 0 /\ s.cap \in Nat
  BY EmptySeq DEF Streams
<1>2. Len(<<>>) <= s.cap
  BY <1>1
<1>3. InOrder(s, <<>>, Outcome(s.buf, <<>>))
  BY <1>1, <1>2, InOrderMeans, Zenon
<1> QED BY <1>3, Zenon DEF FlushAll

\* A number's text in two pieces, the first a character.
LEMMA SignAndRest ==
    ASSUME NEW s \in Streams, Len(s.buf) <= s.cap, NEW c \in Glyphs, NEW str \in Seq(Glyphs),
           NEW first, first = PutChar(s, c),
           NEW rest, rest = WriteString([s EXCEPT !.buf = first.buf], str)
    PROVE  InOrder(s, <<c>> \o str, Outcome(first.sent \o rest.sent, rest.buf))
<1>1. InOrder(s, <<c>>, first)
  BY PutCharRight
<1>2. PICK e \in Streams : e = [s EXCEPT !.buf = first.buf]
  BY <1>1 DEF InOrder, Streams
<1>3. e.cap = s.cap /\ e.buf = first.buf
  BY <1>2 DEF Streams
<1>4. InOrder(e, str, rest)
  BY <1>1, <1>2, <1>3, WriteStringRight DEF InOrder
<1>5. s.buf \in Seq(Glyphs) /\ <<c>> \in Seq(Glyphs)
  BY DEF Streams
<1> QED BY <1>1, <1>3, <1>4, <1>5, InOrderThen, Zenon

-----------------------------------------------------------------------------
(* Numbers. *)

\* The powers of 16.
LEMMA PowerIs ==
    /\ Power \in [0 .. HexDigits -> Nat] /\ Power[0] = 1
    /\ \A i \in 1 .. HexDigits : Power[i] = 16 * Power[i - 1]
<1> DEFINE h == [i \in Nat |-> [m \in Nat |-> 16 * m]]
<1>1. HexDigits \in Nat /\ h \in [Nat -> [Nat -> Nat]] /\ 1 \in Nat
  BY WordAssumption
<1>2. PICK g \in [0 .. HexDigits -> Nat] :
          g[0] = 1 /\ \A i \in 1 .. HexDigits : g[i] = h[i][g[i - 1]]
  <2> HIDE DEF h
  <2> QED BY <1>1, Recursion, Zenon
<1>3. ASSUME NEW i \in 1 .. HexDigits, NEW m \in Nat PROVE h[i][m] = 16 * m
  BY <1>1
<1>4. \A i \in 1 .. HexDigits : g[i] = 16 * g[i - 1]
  <2> SUFFICES ASSUME NEW i \in 1 .. HexDigits PROVE g[i] = 16 * g[i - 1]
    OBVIOUS
  <2>1. g[i - 1] \in Nat
    BY <1>1
  <2> QED BY <1>2, <1>3, <2>1
<1> HIDE DEF h
<1>5. g = [k \in 0 .. HexDigits |-> IF k = 0 THEN 1 ELSE 16 * g[k - 1]]
  <2>1. \A k \in 0 .. HexDigits : k # 0 => k \in 1 .. HexDigits
    BY <1>1
  <2> QED BY <1>2, <1>4, <2>1
<1>6. Power = [k \in 0 .. HexDigits |-> IF k = 0 THEN 1 ELSE 16 * Power[k - 1]]
  <2>1. \E p : p = [k \in 0 .. HexDigits |-> IF k = 0 THEN 1 ELSE 16 * p[k - 1]]
    BY <1>5
  <2> QED BY <2>1, Zenon DEF Power
<1>7. Power[0] = 1 /\ \A i \in 1 .. HexDigits : Power[i] = 16 * Power[i - 1]
  <2>1. 0 \in 0 .. HexDigits /\ \A i \in 1 .. HexDigits : i \in 0 .. HexDigits /\ i # 0
    BY <1>1
  <2> QED BY <1>6, <2>1
<1>8. \A i \in 0 .. HexDigits : Power[i] = g[i]
  <2>1. \A i \in 1 .. HexDigits : Power[i - 1] \in Nat => Power[i] = h[i][Power[i - 1]]
    BY <1>3, <1>7
  <2>2. \A f : (/\ f[0] = 1
                /\ \A i \in 1 .. HexDigits : f[i - 1] \in Nat => f[i] = h[i][f[i - 1]])
               => \A i \in 0 .. HexDigits : f[i] = g[i]
    BY <1>1, <1>2, OneRecursion, Zenon
  <2> QED BY <1>7, <2>1, <2>2, Zenon
<1>9. Power \in [0 .. HexDigits -> Nat]
  <2>1. DOMAIN Power = 0 .. HexDigits /\ Power = [i \in DOMAIN Power |-> Power[i]]
    BY <1>6
  <2>2. \A i \in 0 .. HexDigits : Power[i] \in Nat
    BY <1>2, <1>8
  <2> QED BY <2>1, <2>2
<1> QED BY <1>7, <1>9

\* What is left of a number.
LEMMA LeftIs ==
    ASSUME NEW n \in Nat
    PROVE  /\ Left(n) \in [0 .. HexDigits -> Nat] /\ Left(n)[0] = n
           /\ \A i \in 1 .. HexDigits : Left(n)[i] = Left(n)[i - 1] \div 16
<1> DEFINE h == [i \in Nat |-> [m \in Nat |-> m \div 16]]
<1>1. HexDigits \in Nat /\ h \in [Nat -> [Nat -> Nat]]
  BY WordAssumption
<1>2. PICK g \in [0 .. HexDigits -> Nat] :
          g[0] = n /\ \A i \in 1 .. HexDigits : g[i] = h[i][g[i - 1]]
  <2> HIDE DEF h
  <2> QED BY <1>1, Recursion, Zenon
<1>3. ASSUME NEW i \in 1 .. HexDigits, NEW m \in Nat PROVE h[i][m] = m \div 16
  BY <1>1
<1>4. \A i \in 1 .. HexDigits : g[i] = g[i - 1] \div 16
  <2> SUFFICES ASSUME NEW i \in 1 .. HexDigits PROVE g[i] = g[i - 1] \div 16
    OBVIOUS
  <2>1. g[i - 1] \in Nat
    BY <1>1
  <2> HIDE DEF h
  <2> QED BY <1>2, <1>3, <2>1
<1> HIDE DEF h
<1>5. g = [k \in 0 .. HexDigits |-> IF k = 0 THEN n ELSE g[k - 1] \div 16]
  <2>1. \A k \in 0 .. HexDigits : k # 0 => k \in 1 .. HexDigits
    BY <1>1
  <2> QED BY <1>2, <1>4, <2>1
<1>6. PICK f : f = Left(n)
  OBVIOUS
<1>7. f = [k \in 0 .. HexDigits |-> IF k = 0 THEN n ELSE f[k - 1] \div 16]
  <2>1. \E p : p = [k \in 0 .. HexDigits |-> IF k = 0 THEN n ELSE p[k - 1] \div 16]
    BY <1>5
  <2> QED BY <1>6, <2>1, Zenon DEF Left
<1>8. f[0] = n /\ \A i \in 1 .. HexDigits : f[i] = f[i - 1] \div 16
  <2>1. 0 \in 0 .. HexDigits /\ \A i \in 1 .. HexDigits : i \in 0 .. HexDigits /\ i # 0
    BY <1>1
  <2> QED BY <1>7, <2>1
<1>9. \A i \in 0 .. HexDigits : f[i] = g[i]
  <2>1. \A i \in 1 .. HexDigits : f[i - 1] \in Nat => f[i] = h[i][f[i - 1]]
    BY <1>3, <1>8
  <2>2. \A e : (/\ e[0] = n
                /\ \A i \in 1 .. HexDigits : e[i - 1] \in Nat => e[i] = h[i][e[i - 1]])
               => \A i \in 0 .. HexDigits : e[i] = g[i]
    BY <1>1, <1>2, OneRecursion, Zenon
  <2> QED BY <1>8, <2>1, <2>2, Zenon
<1>10. f \in [0 .. HexDigits -> Nat]
  <2>1. DOMAIN f = 0 .. HexDigits /\ f = [i \in DOMAIN f |-> f[i]]
    BY <1>7
  <2>2. \A i \in 0 .. HexDigits : f[i] \in Nat
    BY <1>2, <1>9
  <2> QED BY <2>1, <2>2
<1> QED BY <1>6, <1>8, <1>10

\* A row of k digits.
IsRow(ds, base, k) == base \in {10, 16} /\ k \in Nat /\ ds \in [1 .. k -> 0 .. base - 1]

\* Digits ds, k of them, and the numbers v their first ones mean.
Horner(ds, base, k, v) ==
    /\ v \in [0 .. k -> Nat] /\ v[0] = 0
    /\ \A i \in 1 .. k : v[i] = base * v[i - 1] + ds[i]

\* The value of a row of digits is the last of those numbers.
LEMMA ValueIs ==
    ASSUME NEW ds, NEW base, NEW k, IsRow(ds, base, k)
    PROVE  \E v : /\ Horner(ds, base, k, v) /\ Value(ds, base) = v[k]
                  /\ \A w : Horner(ds, base, k, w) => w[k] = v[k]
<1>a. base \in {10, 16} /\ k \in Nat /\ ds \in [1 .. k -> 0 .. base - 1]
  BY DEF IsRow
<1> DEFINE h == [i \in Nat |-> [m \in Nat |-> base * m + (IF i \in 1 .. k THEN ds[i] ELSE 0)]]
<1>0. Len(ds) = k
  <2>1. ds \in Seq(0 .. base - 1)
    BY <1>a, SeqDef
  <2>2. DOMAIN ds = 1 .. k /\ DOMAIN ds = 1 .. Len(ds) /\ Len(ds) \in Nat
    BY <1>a, <2>1, LenProperties
  <2> QED BY <1>a, <2>2
<1>1. base \in Nat /\ h \in [Nat -> [Nat -> Nat]] /\ 0 \in Nat
  <2>1. base \in Nat
    BY <1>a
  <2>2. ASSUME NEW i \in Nat, NEW m \in Nat
        PROVE  base * m + (IF i \in 1 .. k THEN ds[i] ELSE 0) \in Nat
    <3>1. (IF i \in 1 .. k THEN ds[i] ELSE 0) \in Nat
      BY <1>a, <2>1
    <3>2. base * m \in Nat
      BY <2>1
    <3> QED BY <3>1, <3>2
  <2> QED BY <2>1, <2>2
<1>2. PICK g \in [0 .. k -> Nat] :
          g[0] = 0 /\ \A i \in 1 .. k : g[i] = h[i][g[i - 1]]
  <2> HIDE DEF h
  <2>1. PICK t \in [Nat -> [Nat -> Nat]] : t = h
    BY <1>1
  <2>2. k \in Nat
    BY <1>a
  <2>3. \E g \in [0 .. k -> Nat] :
            g[0] = 0 /\ \A i \in 1 .. k : g[i] = t[i][g[i - 1]]
    BY ONLY Recursion, t \in [Nat -> [Nat -> Nat]], <1>1, <2>2, Zenon
  <2> QED BY <2>1, <2>3, Zenon
<1>3. ASSUME NEW i \in 1 .. k, NEW m \in Nat PROVE h[i][m] = base * m + ds[i]
  BY <1>1
<1>4. \A i \in 1 .. k : g[i] = base * g[i - 1] + ds[i]
  <2> SUFFICES ASSUME NEW i \in 1 .. k PROVE g[i] = base * g[i - 1] + ds[i]
    OBVIOUS
  <2>1. i - 1 \in 0 .. k
    BY <1>a
  <2>2. g[i - 1] \in Nat
    BY <2>1
  <2> HIDE DEF h
  <2> QED BY <1>2, <1>3, <2>2
<1> HIDE DEF h
<1>5. g = [i \in 0 .. k |-> IF i = 0 THEN 0 ELSE base * g[i - 1] + ds[i]]
  <2>1. \A i \in 0 .. k : i # 0 => i \in 1 .. k
    BY <1>a
  <2> QED BY <1>2, <1>4, <2>1
<1>6. \A e : (/\ e[0] = 0
              /\ \A i \in 1 .. k : e[i - 1] \in Nat => e[i] = h[i][e[i - 1]])
             => \A i \in 0 .. k : e[i] = g[i]
  BY <1>a, <1>1, <1>2, OneRecursion, Zenon
<1>7. k \in 0 .. k /\ 0 \in 0 .. k /\ \A i \in 1 .. k : i \in 0 .. k /\ i # 0
  BY <1>a
<1>8. Horner(ds, base, k, g)
  BY <1>2, <1>4 DEF Horner
<1>9. ASSUME NEW w, Horner(ds, base, k, w) PROVE w[k] = g[k]
  <2>1. w[0] = 0 /\ \A i \in 1 .. k : w[i - 1] \in Nat => w[i] = h[i][w[i - 1]]
    BY <1>3, <1>9 DEF Horner
  <2> QED BY <1>6, <1>7, <2>1, Zenon
<1>10. Value(ds, base) = g[k]
  <2>1. PICK f : f = CHOOSE p : p = [i \in 0 .. k |-> IF i = 0 THEN 0 ELSE base * p[i - 1] + ds[i]]
    OBVIOUS
  <2>2. Value(ds, base) = f[k]
    BY <1>0, <2>1, Zenon DEF Value
  <2>3. f = [i \in 0 .. k |-> IF i = 0 THEN 0 ELSE base * f[i - 1] + ds[i]]
    <3>1. \E p : p = [i \in 0 .. k |-> IF i = 0 THEN 0 ELSE base * p[i - 1] + ds[i]]
      BY <1>5
    <3> QED BY <2>1, <3>1, Zenon
  <2>4. f[0] = 0 /\ \A i \in 1 .. k : f[i] = base * f[i - 1] + ds[i]
    BY <1>7, <2>3
  <2>5. \A i \in 1 .. k : f[i - 1] \in Nat => f[i] = h[i][f[i - 1]]
    BY <1>3, <2>4
  <2> QED BY <1>6, <1>7, <2>2, <2>4, <2>5, Zenon
<1> QED BY <1>8, <1>9, <1>10, Zenon

\* A number has one quotient and one rest.
LEMMA OneQuotient ==
    ASSUME NEW base, base \in {10, 16}, NEW m \in Nat, NEW e \in Nat, NEW r \in Int, NEW t \in Int,
           r \in 0 .. base - 1, t \in 0 .. base - 1, base * m + r = base * e + t
    PROVE  m = e /\ r = t
<1>1. CASE base = 10
  BY <1>1
<1>2. CASE base = 16
  BY <1>2
<1> QED BY <1>1, <1>2

\* Two rows of digits that mean the same agree from the last digit on.
LEMMA SameFromTheLast ==
    ASSUME NEW ds, NEW base, NEW k, IsRow(ds, base, k), NEW es, NEW j, IsRow(es, base, j), j <= k,
           NEW v, Horner(ds, base, k, v), NEW w, Horner(es, base, j, w), v[k] = w[j]
    PROVE  /\ \A t \in 0 .. j : v[k - t] = w[j - t]
           /\ \A t \in 0 .. j - 1 : ds[k - t] = es[j - t]
<1>a. /\ base \in {10, 16} /\ k \in Nat /\ j \in Nat
      /\ ds \in [1 .. k -> 0 .. base - 1] /\ es \in [1 .. j -> 0 .. base - 1]
  BY DEF IsRow
<1>0. ASSUME NEW t \in Nat, t < j, v[k - t] = w[j - t]
      PROVE  v[(k - t) - 1] = w[(j - t) - 1] /\ ds[k - t] = es[j - t]
  <2>1. PICK x \in Int, y \in Int : x = k - t /\ y = j - t
    BY <1>a
  <2>2. x \in 1 .. k /\ y \in 1 .. j /\ x - 1 \in 0 .. k /\ y - 1 \in 0 .. j
    BY ONLY <2>1, <1>0, t \in Nat, x \in Int, y \in Int, <1>a, j <= k
  <2>3. v[x] = base * v[x - 1] + ds[x] /\ w[y] = base * w[y - 1] + es[y]
    BY <2>2, Zenon DEF Horner
  <2>4. v[x - 1] \in Nat /\ w[y - 1] \in Nat
    BY <2>2, Zenon DEF Horner
  <2>5. ds[x] \in 0 .. base - 1 /\ es[y] \in 0 .. base - 1
    BY <1>a, <2>2, Zenon
  <2>6. base \in Nat /\ ds[x] \in Int /\ es[y] \in Int
    <3>1. base \in Nat
      BY <1>a
    <3> QED BY ONLY <2>5, <3>1
  <2>7. v[x] = w[y]
    BY <1>0, <2>1
  <2>8. PICK m \in Nat, e \in Nat, r \in Int, s \in Int :
            m = v[x - 1] /\ e = w[y - 1] /\ r = ds[x] /\ s = es[y]
    BY <2>4, <2>6
  <2>9. base * m + r = base * e + s /\ r \in 0 .. base - 1 /\ s \in 0 .. base - 1
    BY ONLY <2>3, <2>5, <2>7, <2>8
  <2>10. m = e /\ r = s
    <3> QED BY ONLY <1>a, <2>9, OneQuotient, m \in Nat, e \in Nat, r \in Int, s \in Int
  <2> QED BY <2>1, <2>8, <2>10
<1> DEFINE T == {t \in Nat : t <= j /\ v[k - t] # w[j - t]}
<1>1. \A t \in 0 .. j : v[k - t] = w[j - t]
  <2> SUFFICES ASSUME NEW a \in 0 .. j, v[k - a] # w[j - a] PROVE FALSE
    OBVIOUS
  <2>1. T # {}
    <3>1. a \in Nat /\ a <= j
      BY <1>a
    <3>2. a \in T
      BY <3>1
    <3> QED BY <3>2
  <2>2. PICK m \in T : \A t \in T : m <= t
    BY <2>1, LeastNumber
  <2>3. m \in Nat /\ m <= j /\ v[k - m] # w[j - m]
    OBVIOUS
  <2>4. m # 0
    <3>1. k - 0 = k /\ j - 0 = j
      BY <1>a
    <3> QED BY <2>3, <3>1
  <2>5. PICK l \in Nat : m = l + 1
    BY ONLY <2>3, <2>4, m - 1 \in Nat
  <2>6. l < j /\ l <= j /\ ~(m <= l) /\ (k - l) - 1 = k - m /\ (j - l) - 1 = j - m
    BY ONLY <1>a, <2>3, <2>5
  <2>7. v[k - l] = w[j - l]
    <3>1. l \notin T
      BY <2>2, <2>6
    <3> QED BY <2>6, <3>1
  <2>8. v[(k - l) - 1] = w[(j - l) - 1]
    BY <1>0, <2>6, <2>7, Zenon
  <2> QED BY <2>3, <2>6, <2>8, Zenon
<1>2. ASSUME NEW t \in 0 .. j - 1 PROVE ds[k - t] = es[j - t]
  <2>1. t \in Nat /\ t < j /\ t \in 0 .. j
    BY <1>a
  <2> QED BY <1>0, <1>1, <2>1, Zenon
<1> QED BY <1>1, <1>2

\* No two rows of as many digits mean the same.
LEMMA OneSpelling ==
    ASSUME NEW ds, NEW base, NEW k, IsRow(ds, base, k), NEW es, IsRow(es, base, k),
           Value(ds, base) = Value(es, base)
    PROVE  ds = es
<1>a. k \in Nat /\ ds \in [1 .. k -> 0 .. base - 1] /\ es \in [1 .. k -> 0 .. base - 1]
  BY DEF IsRow
<1>1. PICK v : Horner(ds, base, k, v) /\ Value(ds, base) = v[k]
  BY ValueIs
<1>2. PICK w : Horner(es, base, k, w) /\ Value(es, base) = w[k]
  BY ValueIs
<1>3. \A t \in 0 .. k - 1 : ds[k - t] = es[k - t]
  <2>1. k <= k
    BY <1>a
  <2>2. v[k] = w[k]
    BY <1>1, <1>2, Zenon
  <2> QED BY <1>1, <1>2, <2>1, <2>2, SameFromTheLast
<1>4. ASSUME NEW i \in 1 .. k PROVE ds[i] = es[i]
  <2>1. k - i \in 0 .. k - 1 /\ k - (k - i) = i
    BY ONLY i \in 1 .. k, <1>a
  <2> QED BY <1>3, <2>1
<1> QED BY <1>4, <1>a

\* With a first digit that is not 0, fewer digits do not mean the same.
LEMMA NoneShorter ==
    ASSUME NEW ds, NEW base, NEW k, IsRow(ds, base, k), ds[1] # 0,
           NEW es, NEW j, IsRow(es, base, j), j < k
    PROVE  Value(ds, base) # Value(es, base)
<1>a. /\ base \in {10, 16} /\ k \in Nat /\ j \in Nat
      /\ ds \in [1 .. k -> 0 .. base - 1] /\ es \in [1 .. j -> 0 .. base - 1]
  BY DEF IsRow
<1>1. PICK v : Horner(ds, base, k, v) /\ Value(ds, base) = v[k]
  BY ValueIs
<1>2. PICK w : Horner(es, base, j, w) /\ Value(es, base) = w[j]
  BY ValueIs
<1>3. ASSUME NEW i \in 1 .. k PROVE v[i] # 0
  <2> DEFINE T == {t \in Nat : t \in 1 .. k /\ v[t] = 0}
  <2>1. SUFFICES ASSUME v[i] = 0 PROVE FALSE
    OBVIOUS
  <2>2. i \in T
    BY <1>a, <2>1
  <2>3. PICK m \in T : \A t \in T : m <= t
    BY <2>2, LeastNumber
  <2>4. m \in Nat /\ m \in 1 .. k /\ v[m] = 0
    OBVIOUS
  <2>5. v[m] = base * v[m - 1] + ds[m] /\ v[0] = 0
    BY <1>1, <2>4, Zenon DEF Horner
  <2>6. m - 1 \in 0 .. k
    BY <1>a, <2>4
  <2>7. v[m - 1] \in Nat /\ ds[m] \in 0 .. base - 1
    BY <1>1, <1>a, <2>4, <2>6, Zenon DEF Horner
  <2>8. base * v[m - 1] \in Nat /\ ds[m] \in Nat /\ (v[m - 1] # 0 => base * v[m - 1] # 0)
    <3>1. base = 10 \/ base = 16
      BY <1>a
    <3> QED BY ONLY <2>7, <3>1
  <2>9. ds[m] = 0 /\ v[m - 1] = 0
    BY ONLY <2>4, <2>5, <2>8
  <2>10. m # 1
    BY <2>9
  <2>11. m - 1 \in 1 .. k /\ m - 1 \in Nat /\ ~(m <= m - 1)
    BY ONLY <1>a, <2>4, <2>10
  <2>12. m - 1 \in T
    BY <2>9, <2>11
  <2> QED BY <2>3, <2>11, <2>12
<1>4. SUFFICES ASSUME v[k] = w[j] PROVE FALSE
  BY <1>1, <1>2, Zenon
<1>5. v[k - j] = w[j - j]
  <2>1. j <= k /\ j \in 0 .. j
    BY <1>a
  <2> QED BY <1>1, <1>2, <1>4, <2>1, SameFromTheLast
<1>6. w[0] = 0
  BY <1>2 DEF Horner
<1>7. k - j \in 1 .. k /\ j - j = 0
  BY ONLY <1>a, j < k
<1> QED BY <1>3, <1>5, <1>6, <1>7

\* hexTable has a character for every digit.
LEMMA HexDigitIs ==
    ASSUME NEW d \in 0 .. 15
    PROVE  hexTable[d + 1] \in Glyphs
BY DEF Glyphs

\* The text of a row of digits.
Text(ds, k) == [i \in 1 .. k |-> hexTable[ds[i] + 1]]

LEMMA TextIs ==
    ASSUME NEW ds, NEW base, NEW k, IsRow(ds, base, k)
    PROVE  Text(ds, k) \in Seq(Glyphs) /\ Len(Text(ds, k)) = k
<1>1. base \in {10, 16} /\ k \in Nat /\ ds \in [1 .. k -> 0 .. base - 1]
  BY DEF IsRow
<1>2. Text(ds, k) \in [1 .. k -> Glyphs]
  <2> SUFFICES ASSUME NEW i \in 1 .. k PROVE hexTable[ds[i] + 1] \in Glyphs
    BY DEF Text
  <2>1. ds[i] \in 0 .. base - 1
    BY <1>1
  <2>2. ds[i] \in 0 .. 15
    <3>1. CASE base = 10
      BY ONLY <2>1, <3>1
    <3>2. CASE base = 16
      BY ONLY <2>1, <3>2
    <3> QED BY <1>1, <3>1, <3>2
  <2> QED BY <2>2, HexDigitIs
<1>3. Text(ds, k) \in Seq(Glyphs)
  BY <1>1, <1>2, SeqDef
<1>4. DOMAIN Text(ds, k) = 1 .. k /\ DOMAIN Text(ds, k) = 1 .. Len(Text(ds, k))
      /\ Len(Text(ds, k)) \in Nat
  BY <1>2, <1>3, LenProperties
<1> QED BY <1>1, <1>3, <1>4

\* A row that means n spells the numeral of as many digits.
LEMMA NumeralIs ==
    ASSUME NEW rs, NEW base, NEW k, IsRow(rs, base, k)
    PROVE  Numeral(Value(rs, base), base, k) = Text(rs, k)
<1>1. PICK n : n = Value(rs, base)
  OBVIOUS
<1>2. rs \in Spellings(n, base, k)
  BY <1>1 DEF Spellings, IsRow
<1>3. \A es \in Spellings(n, base, k) : es = rs
  <2> SUFFICES ASSUME NEW es \in Spellings(n, base, k) PROVE es = rs
    OBVIOUS
  <2>1. IsRow(es, base, k) /\ Value(es, base) = n
    BY DEF Spellings, IsRow
  <2> QED BY <1>1, <2>1, OneSpelling
<1>4. (CHOOSE row \in Spellings(n, base, k) : TRUE) = rs
  BY <1>2, <1>3
<1>5. Numeral(n, base, k) = Text(rs, k)
  <2>1. Numeral(n, base, k) =
            [i \in 1 .. k |-> hexTable[(CHOOSE row \in Spellings(n, base, k) : TRUE)[i] + 1]]
    BY DEF Numeral
  <2> QED BY <1>4, <2>1 DEF Text
<1> QED BY <1>1, <1>5

\* It has the fewest digits when the first is not 0, or is the only one.
LEMMA FewestIs ==
    ASSUME NEW ds, NEW k, IsRow(ds, 10, k), k # 0, ds[1] # 0 \/ k = 1,
           NEW n \in Nat, Value(ds, 10) = n, k <= n + 1
    PROVE  Fewest(n, 10) = k
<1>1. k \in 1 .. n + 1
  BY DEF IsRow
<1>2. ds \in Spellings(n, 10, k)
  BY DEF Spellings, IsRow
<1>3. ASSUME NEW j \in 1 .. k - 1 PROVE Spellings(n, 10, j) = {}
  <2> SUFFICES ASSUME NEW es \in Spellings(n, 10, j) PROVE FALSE
    OBVIOUS
  <2>1. j \in Nat /\ j < k /\ k # 1
    BY <1>1
  <2>2. IsRow(es, 10, j) /\ Value(es, 10) = n
    BY <2>1 DEF Spellings, IsRow
  <2> QED BY <2>1, <2>2, NoneShorter
<1> DEFINE Least(m) == Spellings(n, 10, m) # {} /\ \A j \in 1 .. m - 1 : Spellings(n, 10, j) = {}
<1>4. Least(k)
  BY <1>2, <1>3
<1>5. ASSUME NEW m \in 1 .. n + 1, Least(m) PROVE m = k
  <2>1. ~(k \in 1 .. m - 1)
    BY <1>2, <1>5
  <2>2. ~(m \in 1 .. k - 1)
    BY <1>3, <1>5
  <2> QED BY ONLY <1>1, <2>1, <2>2, m \in 1 .. n + 1, n \in Nat
<1>6. (CHOOSE m \in 1 .. n + 1 : Least(m)) = k
  <2> HIDE DEF Least
  <2> QED BY <1>1, <1>4, <1>5
<1> QED BY <1>6, Zenon DEF Fewest

\* There are 64-bit numbers, however many digits they have.
LEMMA WordPositive == Word \in Nat \ {0}
<1>1. HexDigits \in Nat
  BY WordAssumption
<1> DEFINE T == {i \in Nat : i <= HexDigits /\ Power[i] = 0}
<1>2. T = {}
  <2> SUFFICES ASSUME T # {} PROVE FALSE
    OBVIOUS
  <2>1. PICK m \in T : \A i \in T : m <= i
    BY LeastNumber
  <2>2. m \in Nat /\ m <= HexDigits /\ Power[m] = 0
    OBVIOUS
  <2>3. m # 0
    BY <2>2, PowerIs
  <2>4. PICK l \in Nat : m = l + 1
    BY ONLY <2>2, <2>3, m - 1 \in Nat
  <2>5. m \in 1 .. HexDigits /\ m - 1 = l /\ l \in 0 .. HexDigits /\ ~(m <= l)
    BY ONLY <1>1, <2>2, <2>4
  <2>6. Power[m] = 16 * Power[l] /\ Power[l] \in Nat
    BY <2>5, PowerIs
  <2>7. Power[l] = 0
    BY ONLY <2>2, <2>6
  <2>8. l \in T
    BY <2>5, <2>7
  <2> QED BY <2>1, <2>5, <2>8
<1>3. Power[HexDigits] # 0 /\ Power[HexDigits] \in Nat
  BY <1>1, <1>2, PowerIs
<1> QED BY <1>3 DEF Word

\* It is the same whichever way it was come by.
LEMMA ValueByHorner ==
    ASSUME NEW ds, NEW base, NEW k, IsRow(ds, base, k), NEW w, Horner(ds, base, k, w)
    PROVE  Value(ds, base) = w[k]
BY ValueIs

\* A digit alone.
LEMMA OneDigit ==
    ASSUME NEW n \in 0 .. 9, NEW ds, ds = [i \in 1 .. 1 |-> n]
    PROVE  IsRow(ds, 10, 1) /\ Value(ds, 10) = n /\ Text(ds, 1) = <<hexTable[n + 1]>>
<1>1. IsRow(ds, 10, 1)
  BY DEF IsRow
<1>2. PICK v : v = [i \in 0 .. 1 |-> IF i = 0 THEN 0 ELSE n]
  OBVIOUS
<1>3. v \in [0 .. 1 -> Nat] /\ v[0] = 0 /\ v[1] = n
  BY <1>2
<1>4. Horner(ds, 10, 1, v)
  BY <1>3 DEF Horner
<1>5. Value(ds, 10) = n
  BY <1>1, <1>3, <1>4, ValueByHorner
<1>6. Text(ds, 1) = <<hexTable[n + 1]>>
  <2>1. Text(ds, 1) = [i \in 1 .. 1 |-> hexTable[n + 1]]
    BY DEF Text
  <2> QED BY <2>1
<1> QED BY <1>1, <1>5, <1>6

\* A digit behind others.
WithDigit(ds, k, d) == [i \in 1 .. k + 1 |-> IF i = k + 1 THEN d ELSE ds[i]]

LEMMA OneMoreDigit ==
    ASSUME NEW ds, NEW k, IsRow(ds, 10, k), NEW d, d \in 0 .. 9
    PROVE  /\ IsRow(WithDigit(ds, k, d), 10, k + 1)
           /\ Value(WithDigit(ds, k, d), 10) = 10 * Value(ds, 10) + d
           /\ Text(WithDigit(ds, k, d), k + 1) = Append(Text(ds, k), hexTable[d + 1])
<1>a. PICK es : es = WithDigit(ds, k, d)
  OBVIOUS
<1>0. es = [i \in 1 .. k + 1 |-> IF i = k + 1 THEN d ELSE ds[i]]
  BY <1>a DEF WithDigit
<1>1. k \in Nat /\ ds \in [1 .. k -> 0 .. 9]
  BY DEF IsRow
<1>2. \A i \in 1 .. k + 1 : i # k + 1 => i \in 1 .. k
  BY <1>1
<1>3. IsRow(es, 10, k + 1)
  <2>1. es \in [1 .. k + 1 -> 0 .. 9]
    BY <1>0, <1>1, <1>2
  <2> QED BY <1>1, <2>1 DEF IsRow
<1>4. PICK v : Horner(ds, 10, k, v) /\ Value(ds, 10) = v[k]
  BY ValueIs
<1>5. v \in [0 .. k -> Nat] /\ v[0] = 0 /\ \A i \in 1 .. k : v[i] = 10 * v[i - 1] + ds[i]
  BY <1>4, Zenon DEF Horner
<1>6. PICK w : w = [i \in 0 .. k + 1 |-> IF i = k + 1 THEN 10 * v[k] + d ELSE v[i]]
  OBVIOUS
<1>7. w \in [0 .. k + 1 -> Nat] /\ w[0] = 0 /\ w[k + 1] = 10 * v[k] + d
  <2>1. \A i \in 0 .. k + 1 : i # k + 1 => i \in 0 .. k
    BY <1>1
  <2>2. k \in 0 .. k /\ 0 \in 0 .. k + 1 /\ k + 1 \in 0 .. k + 1 /\ k + 1 # 0
    BY <1>1
  <2>3. v[k] \in Nat
    BY <1>5, <2>2
  <2>4. 10 * v[k] + d \in Nat
    BY <2>3
  <2> QED BY <1>5, <1>6, <2>1, <2>2, <2>4
<1>8. ASSUME NEW i \in 1 .. k + 1 PROVE w[i] = 10 * w[i - 1] + es[i]
  <2>1. i - 1 \in 0 .. k + 1 /\ i - 1 # k + 1 /\ i \in 0 .. k + 1
    BY <1>1
  <2>2. w[i - 1] = v[i - 1]
    BY <1>6, <2>1
  <2>3. CASE i = k + 1
    <3>1. i - 1 = k /\ es[i] = d
      BY <1>0, <1>1, <2>3
    <3> QED BY <1>7, <2>2, <2>3, <3>1
  <2>4. CASE i # k + 1
    <3>1. es[i] = ds[i] /\ w[i] = v[i]
      BY <1>0, <1>6, <2>1, <2>4
    <3> QED BY <1>2, <1>5, <2>2, <2>4, <3>1
  <2> QED BY <2>3, <2>4
<1>9. Horner(es, 10, k + 1, w)
  BY <1>7, <1>8, Zenon DEF Horner
<1>10. Value(es, 10) = 10 * Value(ds, 10) + d
  <2>1. Value(es, 10) = w[k + 1]
    BY <1>3, <1>9, ValueByHorner
  <2> QED BY <1>4, <1>7, <2>1
<1>11. Text(es, k + 1) = Append(Text(ds, k), hexTable[d + 1])
  <2>1. PICK a \in Seq(Glyphs) : a = Text(ds, k) /\ Len(a) = k
    BY TextIs
  <2>2. PICK b \in Seq(Glyphs) : b = Text(es, k + 1) /\ Len(b) = k + 1
    BY <1>3, TextIs
  <2>3. PICK g \in Glyphs : g = hexTable[d + 1]
    <3>1. d \in 0 .. 15
      BY ONLY d \in 0 .. 9
    <3> QED BY <3>1, HexDigitIs
  <2>4. /\ Append(a, g) \in Seq(Glyphs) /\ Len(Append(a, g)) = k + 1
        /\ \A i \in 1 .. k : Append(a, g)[i] = a[i]
        /\ Append(a, g)[k + 1] = g
    BY <2>1, AppendProperties
  <2>5. ASSUME NEW i \in 1 .. k + 1 PROVE b[i] = Append(a, g)[i]
    <3>1. b[i] = hexTable[es[i] + 1]
      BY <2>2 DEF Text
    <3>2. CASE i = k + 1
      BY <1>0, <2>3, <2>4, <3>1, <3>2
    <3>3. CASE i # k + 1
      <4>1. i \in 1 .. k /\ es[i] = ds[i]
        BY <1>0, <1>2, <3>3
      <4>2. a[i] = hexTable[ds[i] + 1]
        BY <2>1, <4>1 DEF Text
      <4> QED BY <2>4, <3>1, <4>1, <4>2
    <3> QED BY <3>2, <3>3
  <2>6. b = Append(a, g)
    BY <2>2, <2>4, <2>5, SeqEqual
  <2> QED BY <2>1, <2>2, <2>3, <2>6
<1> QED BY <1>a, <1>3, <1>10, <1>11

\* What format_to_buffer makes of n, from a table of the smaller numbers.
FromSmaller(g, n) ==
    IF n < 10 THEN <<hexTable[n + 1]>> ELSE Append(g[n \div 10], hexTable[(n % 10) + 1])

LEMMA TenthIsLess ==
    ASSUME NEW n \in Nat, ~(n < 10)
    PROVE  /\ n \div 10 \in Nat /\ n \div 10 <= n - 1 /\ n % 10 \in 0 .. 9
           /\ n = 10 * (n \div 10) + (n % 10)
OBVIOUS

LEMMA SmallerExist ==
    \A N \in Nat : \E g : g = [n \in 0 .. N |-> FromSmaller(g, n)]
<1> DEFINE Unfolds(m) == \E g : g = [n \in 0 .. m |-> FromSmaller(g, n)]
           T == {m \in Nat : ~Unfolds(m)}
<1>1. SUFFICES ASSUME T # {} PROVE FALSE
  OBVIOUS
<1>2. PICK m \in T : \A k \in T : m <= k
  BY <1>1, LeastNumber
<1>3. m \in Nat /\ ~Unfolds(m) /\ \A k \in Nat : k < m => Unfolds(k)
  <2> HIDE DEF Unfolds
  <2>1. m \in Nat /\ ~Unfolds(m)
    OBVIOUS
  <2>2. ASSUME NEW k \in Nat, k < m PROVE Unfolds(k)
    BY <1>2, <2>1, <2>2
  <2> QED BY <2>1, <2>2
<1>4. Unfolds(0)
  <2>1. PICK g : g = [n \in 0 .. 0 |-> <<hexTable[n + 1]>>]
    OBVIOUS
  <2>2. \A n \in 0 .. 0 : FromSmaller(g, n) = <<hexTable[n + 1]>>
    BY DEF FromSmaller
  <2>3. g = [n \in 0 .. 0 |-> FromSmaller(g, n)]
    BY <2>1, <2>2
  <2> QED BY <2>3
<1>5. m # 0
  <2> HIDE DEF Unfolds
  <2> QED BY <1>3, <1>4, Zenon
<1>6. PICK l \in Nat : m = l + 1 /\ l < m
  BY ONLY <1>3, <1>5, m - 1 \in Nat
<1>7. Unfolds(l)
  <2> HIDE DEF Unfolds
  <2> QED BY <1>3, <1>6
<1>8. PICK g : g = [n \in 0 .. l |-> FromSmaller(g, n)]
  BY <1>7
<1>9. PICK f : f = [n \in 0 .. m |-> IF n = m THEN FromSmaller(g, n) ELSE g[n]]
  OBVIOUS
<1>10. ASSUME NEW n \in 0 .. m PROVE f[n] = FromSmaller(f, n)
  <2>0. n \in Nat /\ m \in Nat
    BY <1>3
  <2>1. f[n] = FromSmaller(g, n)
    <3>1. CASE n = m
      BY <1>9, <3>1
    <3>2. CASE n # m
      <4>1. n \in 0 .. l
        BY <1>6, <2>0, <3>2
      <4> QED BY <1>8, <1>9, <3>2, <4>1
    <3> QED BY <3>1, <3>2
  <2>2. CASE n < 10
    BY <2>1, <2>2 DEF FromSmaller
  <2>3. CASE ~(n < 10)
    <3>1. n \div 10 \in Nat /\ n \div 10 <= n - 1
      BY <2>0, <2>3, TenthIsLess
    <3>2. n \div 10 \in 0 .. m /\ n \div 10 # m
      <4>1. PICK tenth \in Nat : tenth = n \div 10
        BY <3>1
      <4>2. tenth <= n - 1 /\ n <= m
        BY <3>1, <4>1
      <4>3. tenth \in 0 .. m /\ tenth # m
        BY ONLY <2>0, <4>2, tenth \in Nat
      <4> QED BY <4>1, <4>3
    <3>3. f[n \div 10] = g[n \div 10]
      BY <1>9, <3>2
    <3> QED BY <2>1, <2>3, <3>3, Zenon DEF FromSmaller
  <2> QED BY <2>2, <2>3
<1>11. f = [n \in 0 .. m |-> FromSmaller(f, n)]
  BY <1>9, <1>10
<1>12. Unfolds(m)
  BY <1>11
<1> QED BY <1>3, <1>12

\* So the recursion of Digits has a solution, and Digits is it.
LEMMA DigitsUnfold ==
    \A n \in 0 .. Word - 1 : Digits[n] = FromSmaller(Digits, n)
<1>1. Word - 1 \in Nat
  BY WordPositive
<1>2. \E g : g = [n \in 0 .. Word - 1 |-> FromSmaller(g, n)]
  BY <1>1, SmallerExist
<1>3. Digits = CHOOSE g : g = [n \in 0 .. Word - 1 |-> FromSmaller(g, n)]
  BY Zenon DEF Digits, FromSmaller
<1>4. Digits = [n \in 0 .. Word - 1 |-> FromSmaller(Digits, n)]
  BY <1>2, <1>3, Zenon
<1> QED BY <1>4

\* The digits of n mean n, and there are no more than needed.
LEMMA DigitsAre ==
    ASSUME NEW n \in 0 .. Word - 1
    PROVE  \E ds, k : /\ IsRow(ds, 10, k) /\ k # 0 /\ k <= n + 1 /\ (ds[1] # 0 \/ k = 1)
                      /\ Value(ds, 10) = n /\ Digits[n] = Text(ds, k)
<1> DEFINE Spelled(m) ==
        \E ds, k : /\ IsRow(ds, 10, k) /\ k # 0 /\ k <= m + 1
                   /\ (ds[1] # 0 \/ (k = 1 /\ m = 0))
                   /\ Value(ds, 10) = m /\ Digits[m] = Text(ds, k)
    T == {m \in Nat : m < Word /\ ~Spelled(m)}
<1>0. Word \in Nat
  BY WordPositive
<1>1. ASSUME NEW m \in Nat, m < Word, \A j \in Nat : j < m => Spelled(j)
      PROVE  Spelled(m)
  <2>0. m \in 0 .. Word - 1
    BY <1>0, <1>1
  <2>1. Digits[m] = FromSmaller(Digits, m)
    BY <2>0, DigitsUnfold, Zenon
  <2>2. CASE m < 10
    <3>1. m \in 0 .. 9
      BY <2>2
    <3>2. PICK ds : ds = [i \in 1 .. 1 |-> m]
      OBVIOUS
    <3>3. IsRow(ds, 10, 1) /\ Value(ds, 10) = m /\ Text(ds, 1) = <<hexTable[m + 1]>>
      BY <3>1, <3>2, OneDigit
    <3>4. Digits[m] = Text(ds, 1)
      BY <2>1, <2>2, <3>3 DEF FromSmaller
    <3>5. 1 # 0 /\ 1 <= m + 1 /\ (ds[1] # 0 \/ (1 = 1 /\ m = 0))
      BY <3>2
    <3> QED BY <3>3, <3>4, <3>5
  <2>3. CASE ~(m < 10)
    <3>1. PICK tenth \in Nat, d \in 0 .. 9 : tenth = m \div 10 /\ d = m % 10 /\ tenth <= m - 1 /\ m = 10 * tenth + d
      BY <2>3, TenthIsLess
    <3>2. tenth < m /\ tenth # 0
      BY ONLY <2>3, <3>1, tenth \in Nat, d \in 0 .. 9, m \in Nat
    <3>3. Spelled(tenth)
      <4> HIDE DEF Spelled
      <4> QED BY <1>1, <3>2
    <3>4. PICK ds, k : /\ IsRow(ds, 10, k) /\ k # 0 /\ k <= tenth + 1
                       /\ ds[1] # 0
                       /\ Value(ds, 10) = tenth /\ Digits[tenth] = Text(ds, k)
      BY <3>2, <3>3
    <3>5. PICK es : es = WithDigit(ds, k, d)
      OBVIOUS
    <3>6. /\ IsRow(es, 10, k + 1) /\ Value(es, 10) = 10 * Value(ds, 10) + d
          /\ Text(es, k + 1) = Append(Text(ds, k), hexTable[d + 1])
      <4>1. IsRow(ds, 10, k)
        BY <3>4
      <4>2. d \in 0 .. 9
        OBVIOUS
      <4>3. /\ IsRow(WithDigit(ds, k, d), 10, k + 1)
            /\ Value(WithDigit(ds, k, d), 10) = 10 * Value(ds, 10) + d
            /\ Text(WithDigit(ds, k, d), k + 1) = Append(Text(ds, k), hexTable[d + 1])
        BY ONLY <4>1, <4>2, OneMoreDigit
      <4> QED BY <3>5, <4>3, Zenon
    <3>7. Value(es, 10) = m
      BY <3>1, <3>4, <3>6, Zenon
    <3>8. Digits[m] = Text(es, k + 1)
      BY <2>1, <2>3, <3>1, <3>4, <3>6, Zenon DEF FromSmaller
    <3>9. k \in Nat
      BY <3>4 DEF IsRow
    <3>10. k + 1 # 0 /\ k + 1 <= m + 1
      BY ONLY <3>2, <3>4, <3>9, tenth \in Nat, m \in Nat
    <3>11. es[1] # 0
      <4>1. 1 \in 1 .. k + 1 /\ 1 # k + 1
        BY <3>4, <3>9
      <4> QED BY <3>4, <3>5, <4>1 DEF WithDigit
    <3> QED BY <3>6, <3>7, <3>8, <3>10, <3>11
  <2> QED BY <2>2, <2>3
<1>2. T = {}
  <2> HIDE DEF Spelled
  <2> SUFFICES ASSUME T # {} PROVE FALSE
    OBVIOUS
  <2>1. PICK m \in T : \A i \in T : m <= i
    BY LeastNumber
  <2>2. m \in Nat /\ m < Word /\ ~Spelled(m)
    OBVIOUS
  <2>3. ASSUME NEW j \in Nat, j < m PROVE Spelled(j)
    <3>1. j < Word /\ ~(m <= j)
      BY ONLY <1>0, <2>2, <2>3, j \in Nat
    <3> QED BY <2>1, <3>1
  <2> QED BY <1>1, <2>2, <2>3
<1>3. Spelled(n)
  <2> HIDE DEF Spelled
  <2>1. n \in Nat /\ n < Word
    BY <1>0
  <2> QED BY <1>2, <2>1
<1> QED BY <1>3

\* What a number prints is its numeral: the digits of WriteUnsigned.
LEMMA DecimalIs ==
    ASSUME NEW n \in 0 .. Word - 1
    PROVE  Digits[n] = DecimalNumeral(n) /\ Digits[n] \in Seq(Glyphs)
<1>1. PICK ds, k : /\ IsRow(ds, 10, k) /\ k # 0 /\ k <= n + 1 /\ (ds[1] # 0 \/ k = 1)
                   /\ Value(ds, 10) = n /\ Digits[n] = Text(ds, k)
  BY DigitsAre
<1>2. n \in Nat
  BY WordPositive
<1>3. Fewest(n, 10) = k
  BY <1>1, <1>2, FewestIs
<1>4. Numeral(n, 10, k) = Text(ds, k)
  <2>1. Numeral(Value(ds, 10), 10, k) = Text(ds, k)
    BY <1>1, NumeralIs
  <2> QED BY <1>1, <2>1, Zenon
<1>5. Text(ds, k) \in Seq(Glyphs)
  BY <1>1, TextIs
<1> QED BY <1>1, <1>3, <1>4, <1>5, Zenon DEF DecimalNumeral

\* Four bits less at every turn, so that nothing is left in the end.
LEMMA LeftBounded ==
    ASSUME NEW n \in 0 .. Word - 1
    PROVE  \A i \in 0 .. HexDigits : Left(n)[i] < Power[HexDigits - i]
<1>0. HexDigits \in Nat /\ n \in Nat /\ n < Power[HexDigits] /\ Word \in Nat
  BY WordAssumption, WordPositive DEF Word
<1> DEFINE T == {i \in Nat : i <= HexDigits /\ ~(Left(n)[i] < Power[HexDigits - i])}
<1>1. T = {}
  <2> SUFFICES ASSUME T # {} PROVE FALSE
    OBVIOUS
  <2>1. PICK m \in T : \A i \in T : m <= i
    BY LeastNumber
  <2>2. m \in Nat /\ m <= HexDigits /\ ~(Left(n)[m] < Power[HexDigits - m])
    OBVIOUS
  <2>3. m # 0
    <3>1. HexDigits - 0 = HexDigits /\ Left(n)[0] = n
      BY <1>0, LeftIs
    <3> QED BY <1>0, <2>2, <3>1
  <2>4. PICK l \in Nat : m = l + 1
    BY ONLY <2>2, <2>3, m - 1 \in Nat
  <2>5. /\ m \in 1 .. HexDigits /\ m - 1 = l /\ l \in 0 .. HexDigits /\ l <= HexDigits /\ ~(m <= l)
        /\ HexDigits - l \in 1 .. HexDigits /\ (HexDigits - l) - 1 = HexDigits - m
        /\ HexDigits - m \in 0 .. HexDigits
    BY ONLY <1>0, <2>2, <2>4
  <2>6. Left(n)[l] < Power[HexDigits - l]
    <3>1. l \notin T
      BY <2>1, <2>5
    <3> QED BY <2>5, <3>1
  <2>7. PICK x \in Nat, y \in Nat, p \in Nat, pm \in Nat :
            x = Left(n)[l] /\ y = Left(n)[m] /\ p = Power[HexDigits - l] /\ pm = Power[HexDigits - m]
    <3>1. Left(n)[l] \in Nat /\ Left(n)[m] \in Nat
      <4>1. Left(n) \in [0 .. HexDigits -> Nat]
        BY <1>0, LeftIs, Zenon
      <4>2. m \in 0 .. HexDigits
        BY ONLY <1>0, <2>2
      <4> QED BY <2>5, <4>1, <4>2
    <3>2. Power[HexDigits - l] \in Nat /\ Power[HexDigits - m] \in Nat
      BY <2>5, PowerIs
    <3> QED BY <3>1, <3>2
  <2>8. y = x \div 16
    BY <1>0, <2>5, <2>7, LeftIs
  <2>9. p = 16 * pm
    BY <2>5, <2>7, PowerIs
  <2>10. x < p /\ ~(y < pm)
    BY <2>2, <2>6, <2>7
  <2> QED BY ONLY <2>8, <2>9, <2>10, x \in Nat, y \in Nat, p \in Nat, pm \in Nat
<1>2. ASSUME NEW i \in 0 .. HexDigits PROVE Left(n)[i] < Power[HexDigits - i]
  <2>1. i \in Nat /\ i <= HexDigits
    BY <1>0
  <2> QED BY <1>1, <2>1
<1> QED BY <1>2

\* The sixteen digits, read from the left.
LEMMA HexadecimalIs ==
    ASSUME NEW n \in 0 .. Word - 1, NEW str,
           str = [i \in 1 .. HexDigits |-> hexTable[(Left(n)[HexDigits - i] % 16) + 1]]
    PROVE  str = Numeral(n, 16, HexDigits) /\ str \in Seq(Glyphs)
<1>0. HexDigits \in Nat /\ n \in Nat /\ Word \in Nat
  BY WordAssumption, WordPositive
<1>1. PICK f : f = Left(n)
  OBVIOUS
<1>2. /\ f \in [0 .. HexDigits -> Nat] /\ f[0] = n
      /\ \A i \in 1 .. HexDigits : f[i] = f[i - 1] \div 16
  BY <1>0, <1>1, LeftIs, Zenon
<1>3. f[HexDigits] = 0
  <2>1. HexDigits \in 0 .. HexDigits /\ HexDigits - HexDigits = 0
    BY <1>0
  <2>2. f[HexDigits] < Power[HexDigits - HexDigits]
    BY <1>1, <2>1, LeftBounded
  <2>3. f[HexDigits] \in Nat /\ f[HexDigits] < 1
    BY <1>2, <2>1, <2>2, PowerIs
  <2> QED BY <2>3
<1>4. PICK ds : ds = [i \in 1 .. HexDigits |-> f[HexDigits - i] % 16]
  OBVIOUS
<1>5. PICK v : v = [i \in 0 .. HexDigits |-> f[HexDigits - i]]
  OBVIOUS
<1>6. \A i \in 0 .. HexDigits : HexDigits - i \in 0 .. HexDigits /\ f[HexDigits - i] \in Nat
  <2> SUFFICES ASSUME NEW i \in 0 .. HexDigits
               PROVE  HexDigits - i \in 0 .. HexDigits /\ f[HexDigits - i] \in Nat
    OBVIOUS
  <2>1. HexDigits - i \in 0 .. HexDigits
    BY <1>0
  <2> QED BY <1>2, <2>1
<1>7. \A i \in 1 .. HexDigits : i \in 0 .. HexDigits
  BY <1>0
<1>8. IsRow(ds, 16, HexDigits)
  <2>1. ASSUME NEW i \in 1 .. HexDigits PROVE f[HexDigits - i] % 16 \in 0 .. 15
    <3>1. f[HexDigits - i] \in Nat
      BY <1>6, <1>7
    <3> QED BY <3>1
  <2>2. ds \in [1 .. HexDigits -> 0 .. 16 - 1]
    BY <1>4, <2>1
  <2> QED BY <1>0, <2>2 DEF IsRow
<1>9. ASSUME NEW i \in 1 .. HexDigits PROVE v[i] = 16 * v[i - 1] + ds[i]
  <2>1. PICK x \in Nat : x = f[HexDigits - i]
    BY <1>6, <1>7
  <2>2. i - 1 \in 0 .. HexDigits /\ HexDigits - i \in Int
        /\ HexDigits - (i - 1) \in 1 .. HexDigits /\ (HexDigits - (i - 1)) - 1 = HexDigits - i
    BY ONLY <1>0, i \in 1 .. HexDigits
  <2>3. f[HexDigits - (i - 1)] = x \div 16
    BY <1>2, <2>1, <2>2
  <2>4. v[i] = x /\ v[i - 1] = x \div 16 /\ ds[i] = x % 16
    BY <1>4, <1>5, <1>7, <2>1, <2>2, <2>3
  <2>5. x = 16 * (x \div 16) + (x % 16)
    BY ONLY x \in Nat
  <2> QED BY <2>4, <2>5, Zenon
<1>10. Horner(ds, 16, HexDigits, v)
  <2>1. v \in [0 .. HexDigits -> Nat]
    BY <1>5, <1>6
  <2>2. v[0] = 0
    <3>1. 0 \in 0 .. HexDigits /\ HexDigits - 0 = HexDigits
      BY <1>0
    <3> QED BY <1>3, <1>5, <3>1
  <2> QED BY <1>9, <2>1, <2>2, Zenon DEF Horner
<1>11. Value(ds, 16) = n
  <2>1. Value(ds, 16) = v[HexDigits]
    BY <1>8, <1>10, ValueByHorner
  <2>2. HexDigits \in 0 .. HexDigits /\ HexDigits - HexDigits = 0
    BY <1>0
  <2> QED BY <1>2, <1>5, <2>1, <2>2
<1>12. str = Text(ds, HexDigits)
  BY <1>1, <1>4 DEF Text
<1>13. Numeral(Value(ds, 16), 16, HexDigits) = Text(ds, HexDigits)
  BY <1>8, NumeralIs
<1> QED BY <1>8, <1>11, <1>12, <1>13, TextIs

\* A number of 64 bits, its absolute value and its unsigned value.
LEMMA NumberFits ==
    ASSUME NEW n \in Numbers
    PROVE  /\ n \in Int /\ (n >= 0 => n \in 0 .. Word - 1)
           /\ (n < 0 => -n \in 0 .. Word - 1 /\ (-n) % Word = -n)
           /\ n % Word \in 0 .. Word - 1
<1>1. PICK w \in Nat \ {0} : w = Word
  BY WordPositive
<1>2. n \in Int /\ -(w \div 2) <= n /\ n < w \div 2
  BY <1>1, ScreenAssumption
<1>3. PICK m \in Int : m = n
  BY <1>2
<1>4. PICK h \in Nat : h = w \div 2 /\ h <= w - 1
  BY ONLY w \in Nat \ {0}
<1>5. -h <= m /\ m < h
  BY <1>2, <1>3, <1>4
<1>6. (m >= 0 => m \in 0 .. w - 1) /\ (m < 0 => -m \in 0 .. w - 1)
  BY ONLY <1>4, <1>5, m \in Int, h \in Nat, w \in Nat \ {0}
<1>7. m < 0 => (-m) % w = -m
  <2> SUFFICES ASSUME m < 0 PROVE (-m) % w = -m
    OBVIOUS
  <2>1. PICK x \in Nat : x = -m /\ x < w
    BY ONLY <1>6, m < 0, m \in Int, w \in Nat \ {0}
  <2>2. x % w = x
    BY ONLY <2>1, x \in Nat, w \in Nat \ {0}
  <2> QED BY <2>1, <2>2
<1>8. m % w \in 0 .. w - 1
  BY ONLY m \in Int, w \in Nat \ {0}
<1> QED BY <1>1, <1>3, <1>6, <1>7, <1>8

\* A number is printed as its numeral, in order (raw_ostream.cpp:5-34).
LEMMA WriteIntegerRight ==
    ASSUME NEW s \in Streams, Len(s.buf) <= s.cap, NEW n \in Numbers
    PROVE  Decimal[n] \in Seq(Glyphs) /\ InOrder(s, Decimal[n], WriteInteger(s, n))
<1>1. n \in Int /\ Decimal[n] = IF n < 0 THEN <<"-">> \o DecimalNumeral(-n) ELSE DecimalNumeral(n)
  BY NumberFits DEF Decimal
<1>2. CASE n >= 0
  <2>1. Digits[n] = DecimalNumeral(n) /\ Digits[n] \in Seq(Glyphs)
    BY <1>2, NumberFits, DecimalIs
  <2>2. Decimal[n] = Digits[n]
    BY <1>1, <1>2, <2>1
  <2>3. WriteInteger(s, n) = WriteString(s, Digits[n])
    BY <1>2 DEF WriteInteger, WriteUnsigned
  <2>4. InOrder(s, Digits[n], WriteString(s, Digits[n]))
    BY <2>1, WriteStringRight
  <2> QED BY <2>1, <2>2, <2>3, <2>4, Zenon
<1>3. CASE n < 0
  <2>1. -n \in 0 .. Word - 1 /\ (-n) % Word = -n
    BY <1>3, NumberFits
  <2>2. PICK t \in Seq(Glyphs) : t = Digits[-n] /\ t = DecimalNumeral(-n)
    BY <2>1, DecimalIs
  <2>3. Decimal[n] = <<"-">> \o t
    BY <1>1, <1>3, <2>2
  <2>4. PICK first, rest : /\ first = PutChar(s, "-")
                           /\ rest = WriteString([s EXCEPT !.buf = first.buf], t)
    OBVIOUS
  <2>5. WriteInteger(s, n) = Outcome(first.sent \o rest.sent, rest.buf)
    <3>1. ~(n >= 0)
      BY <1>1, <1>3
    <3> QED BY <2>1, <2>2, <2>4, <3>1 DEF WriteInteger, WriteUnsigned
  <2>6. "-" \in Glyphs
    BY DEF Glyphs
  <2>7. InOrder(s, <<"-">> \o t, Outcome(first.sent \o rest.sent, rest.buf))
    BY <2>4, <2>6, SignAndRest
  <2>8. <<"-">> \o t \in Seq(Glyphs)
    <3>1. <<"-">> \in Seq(Glyphs)
      BY <2>6
    <3> QED BY <3>1, ConcatProperties
  <2> QED BY <2>3, <2>5, <2>7, <2>8, Zenon
<1> QED BY <1>1, <1>2, <1>3

\* So is a number in hexadecimal, with all its digits (raw_ostream.cpp:36-48).
LEMMA WriteHexRight ==
    ASSUME NEW s \in Streams, Len(s.buf) <= s.cap, NEW n \in Numbers
    PROVE  Hexadecimal[n] \in Seq(Glyphs) /\ InOrder(s, Hexadecimal[n], WriteHex(s, n % Word))
<1>1. PICK m \in 0 .. Word - 1 : m = n % Word
  BY NumberFits
<1>2. PICK str : str = [i \in 1 .. HexDigits |-> hexTable[(Left(m)[HexDigits - i] % 16) + 1]]
  OBVIOUS
<1>3. str = Numeral(m, 16, HexDigits) /\ str \in Seq(Glyphs)
  BY <1>2, HexadecimalIs, Zenon
<1>4. Hexadecimal[n] = <<"0", "x">> \o str
  BY <1>1, <1>3 DEF Hexadecimal
<1>5. WriteHex(s, n % Word) = WriteString(s, <<"0", "x">> \o str)
  BY <1>1, <1>2, Zenon DEF WriteHex
<1>6. <<"0", "x">> \o str \in Seq(Glyphs)
  <2>1. "0" \in Glyphs /\ "x" \in Glyphs
    BY DEF Glyphs
  <2>2. <<"0", "x">> \in Seq(Glyphs)
    BY <2>1
  <2> QED BY <1>3, <2>2, ConcatProperties
<1>7. InOrder(s, <<"0", "x">> \o str, WriteString(s, <<"0", "x">> \o str))
  BY <1>6, WriteStringRight
<1> QED BY <1>4, <1>5, <1>6, <1>7, Zenon

-----------------------------------------------------------------------------
(* The console. *)

\* Whatever sends the first of what is due keeps the rest in the buffer.
LEMMA EmitKeepsOrder ==
    ASSUME StreamInv, NEW str \in Seq(Glyphs), NEW r, InOrder(out, str, r), Emit(str, r)
    PROVE  StreamInv'
<1>1. PICK x \in Seq(Glyphs), y \in Seq(Glyphs) : x = r.sent /\ y = r.buf
  BY DEF InOrder
<1>2. x \o y = owed \o str /\ Len(y) <= out.cap
  BY <1>1 DEF InOrder, StreamInv
<1>3. IsPrefix(x, x \o y) /\ SubSeq(x \o y, Len(x) + 1, Len(x \o y)) = y
  BY PrefixAndRest
<1>4. /\ out' = [out EXCEPT !.buf = y] /\ ordered' = (ordered /\ IsPrefix(x, x \o y))
      /\ owed' = SubSeq(x \o y, Len(x) + 1, Len(x \o y))
  BY <1>1, <1>2 DEF Emit
<1>5. owed' = y /\ ordered'
  BY <1>3, <1>4 DEF StreamInv
<1>6. out' \in Streams /\ out'.buf = y /\ out'.cap = out.cap
  BY <1>4 DEF StreamInv, Streams
<1>7. Len(out'.buf) <= out'.cap
  BY <1>2, <1>6
<1> QED BY <1>5, <1>6, <1>7 DEF StreamInv

\* Another buffer owes nothing.
LEMMA RebufferKeepsOrder ==
    ASSUME StreamInv, NEW n \in Nat, NEW stream, stream = [cap |-> n, buf |-> <<>>],
           Rebuffer(stream)
    PROVE  StreamInv'
<1>1. <<>> \in Seq(Glyphs) /\ Len(<<>>) = 0
  BY EmptySeq
<1>2. out' = [cap |-> n, buf |-> <<>>] /\ owed' = <<>> /\ ordered'
  BY DEF Rebuffer, StreamInv
<1>3. out' \in Streams /\ out'.buf = <<>> /\ out'.cap = n
  BY <1>1, <1>2 DEF Streams
<1>4. Len(out'.buf) <= out'.cap
  BY <1>1, <1>3
<1> QED BY <1>2, <1>3, <1>4 DEF StreamInv

LEMMA StreamInvInit == ConsoleInit => StreamInv
<1> SUFFICES ASSUME ConsoleInit PROVE StreamInv
  OBVIOUS
<1>1. <<>> \in Seq(Glyphs) /\ Len(<<>>) = 0
  BY EmptySeq
<1>2. out = [cap |-> 0, buf |-> <<>>] /\ owed = <<>> /\ ordered
  BY DEF ConsoleInit, Unbuffered
<1>3. out \in Streams /\ out.buf = <<>> /\ out.cap = 0
  BY <1>1, <1>2 DEF Streams
<1>4. Len(out.buf) <= out.cap
  BY <1>1, <1>3
<1> QED BY <1>2, <1>3, <1>4 DEF StreamInv

LEMMA StreamInvStep == StreamInv /\ [ConsoleNext]_consoleVars => StreamInv'
<1> SUFFICES ASSUME StreamInv, [ConsoleNext]_consoleVars PROVE StreamInv'
  OBVIOUS
<1>0. out \in Streams /\ Len(out.buf) <= out.cap
  BY DEF StreamInv
<1>1. ASSUME NEW c \in Chars, Put(c) PROVE StreamInv'
  <2>1. c \in Glyphs
    BY DEF Glyphs
  <2>2. <<c>> \in Seq(Glyphs)
    BY <2>1
  <2>3. InOrder(out, <<c>>, PutChar(out, c))
    BY <1>0, <2>1, PutCharRight
  <2> QED BY <1>1, <2>2, <2>3, EmitKeepsOrder DEF Put
<1>2. ASSUME NEW str \in Texts, Write(str) PROVE StreamInv'
  <2>1. str \in Seq(Glyphs)
    <3>1. str \in Seq(Chars) /\ Chars \subseteq Glyphs
      BY ScreenAssumption DEF Glyphs
    <3> QED BY <3>1, SeqMonotonic
  <2>2. InOrder(out, str, WriteString(out, str))
    BY <1>0, <2>1, WriteStringRight
  <2> QED BY <1>2, <2>1, <2>2, EmitKeepsOrder DEF Write
<1>3. ASSUME NEW n \in Numbers, PutNumber(n) PROVE StreamInv'
  <2>1. Decimal[n] \in Seq(Glyphs) /\ InOrder(out, Decimal[n], WriteInteger(out, n))
    BY <1>0, WriteIntegerRight
  <2> QED BY <1>3, <2>1, EmitKeepsOrder DEF PutNumber
<1>4. ASSUME NEW n \in Numbers, PutHex(n) PROVE StreamInv'
  <2>1. Hexadecimal[n] \in Seq(Glyphs) /\ InOrder(out, Hexadecimal[n], WriteHex(out, n % Word))
    BY <1>0, WriteHexRight
  <2> QED BY <1>4, <2>1, EmitKeepsOrder DEF PutHex
<1>5. CASE FlushStream
  <2>1. <<>> \in Seq(Glyphs) /\ InOrder(out, <<>>, FlushAll(out))
    BY <1>0, EmptySeq, FlushAllRight
  <2> QED BY <1>5, <2>1, EmitKeepsOrder DEF FlushStream
<1>6. ASSUME NEW n \in Rooms, Rebuffer(SetBuffered(n)) PROVE StreamInv'
  <2>1. n \in Nat
    BY ScreenAssumption
  <2> QED BY <1>6, <2>1, RebufferKeepsOrder DEF SetBuffered
<1>7. CASE Rebuffer(Unbuffered)
  BY <1>7, RebufferKeepsOrder DEF Unbuffered
<1>8. CASE VgaWrite \/ Clear \/ RawPrint \/ UNCHANGED consoleVars
  <2>1. UNCHANGED <<out, owed, ordered>>
    BY <1>8 DEF VgaWrite, Clear, RawPrint, consoleVars
  <2> QED BY <2>1 DEF StreamInv
<1> QED BY <1>1, <1>2, <1>3, <1>4, <1>5, <1>6, <1>7, <1>8 DEF ConsoleNext

LEMMA StreamInvIs == StreamInv => StreamInOrder
BY DEF StreamInv, StreamInOrder

\* The stream owes what waits in its buffer, after every operation.
THEOREM ConsoleStreamInvariant == ConsoleSpec => []StreamInv
BY StreamInvInit, StreamInvStep, PTL DEF ConsoleSpec

\* What is written comes out whole and in order, and numbers as their numerals
\* (raw_ostream.cpp:5-159), for texts and numbers of any length, every size of
\* the buffer, and any mixture of operations that fills it.
THEOREM ConsoleStreamInOrder == ConsoleSpec => []StreamInOrder
BY ConsoleStreamInvariant, StreamInvIs, PTL
=============================================================================

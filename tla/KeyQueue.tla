------------------------------- MODULE KeyQueue -------------------------------
(***************************************************************************)
(* The ring of scan codes between the keyboard's interrupt handler, which  *)
(* puts codes in, and the main task, which takes them out without a lock   *)
(* (Keyboard::read in keyboard.cpp, loop in main.cpp).  The interrupt may  *)
(* come between any two accesses of the main task to the ring.             *)
(*                                                                         *)
(* pop writes isfull and first, which are no volatile or atomic objects:   *)
(* the compiler may order the two stores either way (g++ 12 at -O2, the    *)
(* build's level, clears isfull first).  It merges first++ with the wrap,  *)
(* and the second test for emptiness, in pop, with that in read.           *)
(*                                                                         *)
(* A scan code is the number of its arrival.                               *)
(***************************************************************************)
EXTENDS CircularQueue, Sequences

CONSTANTS
    BufSize,   \* bytes that loop asks read for
    MaxKeys    \* bound on the codes that arrive

ASSUME KeyQueueAssumption == BufSize \in Nat \ {0} /\ MaxKeys \in Nat

VARIABLES
    q,          \* keyQueue
    pc,         \* where the main task is: "full", "ends", "pop", "stores",
                \* "advance", "clear" or "handle"
    got,        \* the element that pop returns
    buf,        \* what read has put into loop's buffer
    arrived,    \* history: the number of codes put into the ring
    taken,      \* history: the number of codes taken out of it
    handled,    \* history: the codes that loop looked at
    wasFull     \* history: the ring has been full

vars == <<q, pc, got, buf, arrived, taken, handled, wasFull>>

Init ==
    /\ q = NewQueue
    /\ pc = "full" /\ got = 0 /\ buf = <<>>
    /\ arrived = 0 /\ taken = 0 /\ handled = <<>> /\ wasFull = FALSE

\* topHalf with a code in the controller.  When the ring is full, the code
\* stays there.
Press ==
    /\ arrived < MaxKeys
    /\ ~Full(q)
    /\ arrived' = arrived + 1
    /\ q' = Push(q, arrived')
    /\ wasFull' = (wasFull \/ Full(q'))
    /\ UNCHANGED <<pc, got, buf, taken, handled>>

-----------------------------------------------------------------------------
\* offset < size, after the ring is known not to be empty.
Room == IF Len(buf) < BufSize THEN "pop" ELSE "handle"

\* Mutant: the flag is not looked at.
CheckEndsOnly ==
    /\ pc = "full"
    /\ pc' = "ends"
    /\ UNCHANGED <<q, got, buf, arrived, taken, handled, wasFull>>

\* empty(): isfull ...
CheckFull ==
    /\ pc = "full"
    /\ pc' = IF Full(q) THEN Room ELSE "ends"
    /\ UNCHANGED <<q, got, buf, arrived, taken, handled, wasFull>>

\* ... and first == last.
CheckEnds ==
    /\ pc = "ends"
    /\ pc' = IF EndsMeet(q) THEN "handle" ELSE Room
    /\ UNCHANGED <<q, got, buf, arrived, taken, handled, wasFull>>

\* pop reads the element ...
Pop ==
    /\ pc = "pop"
    /\ got' = q.data[q.first]
    /\ taken' = taken + 1
    /\ pc' = "stores"
    /\ UNCHANGED <<q, buf, arrived, handled, wasFull>>

\* ... then makes one of its two stores ...
PopStore ==
    /\ pc = "stores"
    /\ \/ q' = NotFull(q) /\ pc' = "advance"
       \/ q' = Advanced(q) /\ pc' = "clear"
    /\ UNCHANGED <<got, buf, arrived, taken, handled, wasFull>>

\* Mutant: isfull stays as it is.
PopReturnKeepsFull ==
    /\ pc \in {"advance", "clear"}
    /\ q' = IF pc = "advance" THEN Advanced(q) ELSE q
    /\ buf' = Append(buf, got)
    /\ got' = 0 /\ pc' = "full"
    /\ UNCHANGED <<arrived, taken, handled, wasFull>>

\* ... then the other, and read stores the element in the buffer.
PopReturn ==
    /\ pc \in {"advance", "clear"}
    /\ q' = IF pc = "advance" THEN Advanced(q) ELSE NotFull(q)
    /\ buf' = Append(buf, got)
    /\ got' = 0 /\ pc' = "full"
    /\ UNCHANGED <<arrived, taken, handled, wasFull>>

\* read returns; loop looks at the first byte of the buffer, and at no other.
Handle ==
    /\ pc = "handle"
    /\ handled' = IF buf = <<>> THEN handled ELSE Append(handled, buf[1])
    /\ buf' = <<>> /\ pc' = "full"
    /\ UNCHANGED <<q, got, arrived, taken, wasFull>>

Reading == CheckFull \/ CheckEnds \/ Pop \/ PopStore \/ PopReturn \/ Handle

Next == Press \/ Reading

Spec == Init /\ [][Next]_vars

\* The main task gets the processor again and again.
FairSpec == Spec /\ WF_vars(Reading)

-----------------------------------------------------------------------------
Slot == 0 .. Size - 1
Ring == [first : Slot, last : Slot, isfull : BOOLEAN, data : [Slot -> Nat]]

TypeOK ==
    /\ q \in Ring
    /\ pc \in {"full", "ends", "pop", "stores", "advance", "clear", "handle"}
    /\ got \in Nat
    /\ buf \in Seq(Nat) /\ Len(buf) <= BufSize
    /\ arrived \in 0 .. MaxKeys /\ taken \in Nat
    /\ handled \in Seq(Nat)
    /\ wasFull \in BOOLEAN

\* Places from index i up to index j.
Distance(i, j) == IF i <= j THEN j - i ELSE j - i + Size

\* Where the first code is that will be left once pop is done, and how many
\* are.  In the middle of pop first may still be that of the code it takes,
\* and isfull may be about to be cleared.
Start == IF pc \in {"stores", "advance"} THEN After(q.first) ELSE q.first
Remaining ==
    IF q.isfull /\ EndsMeet(q) /\ pc \notin {"stores", "advance", "clear"}
    THEN Size
    ELSE Distance(Start, q.last)

\* The codes in the ring are the last that arrived, in order: none stands
\* there twice, none was overwritten, and none is older than one lost.
LatestInRing ==
    /\ Remaining <= arrived
    /\ \A s \in Slot :
          Distance(Start, s) < Remaining =>
              q.data[s] = arrived - Remaining + Distance(Start, s) + 1

\* loop sees codes in the order of their arrival, each at most once.
HandledInOrder ==
    \A i \in 1 .. Len(handled) - 1 : handled[i] < handled[i + 1]

\* The ring loses nothing unless it has once been full.
WholeUntilFull == ~wasFull => arrived = taken + Remaining

-----------------------------------------------------------------------------
(***************************************************************************)
(* The inductive invariant behind them.                                    *)
(***************************************************************************)

\* How often last went round: not yet, or at least once.
Lap == arrived = q.last \/ arrived >= q.last + Size

\* The places behind last are older by a lap.
RingData ==
    \A s \in Slot :
        /\ s < q.last => q.data[s] = arrived - q.last + s + 1
        /\ s >= q.last /\ arrived # q.last =>
              q.data[s] = arrived - q.last + s + 1 - Size

\* isfull is set with one place free when the last push came between the
\* two stores of pop.
Flag ==
    /\ q.isfull => EndsMeet(q) \/ After(q.last) = q.first \/ pc = "clear"
    /\ q.isfull /\ pc = "advance" => EndsMeet(q)
    /\ pc = "pop" => q.isfull \/ ~EndsMeet(q)
    /\ ~wasFull => /\ ~q.isfull
                   /\ pc \in {"stores", "advance"} => ~EndsMeet(q)

\* read has room for the code it takes.
Fits == pc \in {"pop", "stores", "advance", "clear"} => Len(buf) < BufSize

\* What was taken is in order and older than what is left.
Ordered ==
    /\ \A i, j \in 1 .. Len(handled) : i < j => handled[i] < handled[j]
    /\ \A i, j \in 1 .. Len(buf) : i < j => buf[i] < buf[j]
    /\ \A i \in 1 .. Len(handled), j \in 1 .. Len(buf) : handled[i] < buf[j]
    /\ \A i \in 1 .. Len(handled) : handled[i] <= arrived - Remaining
    /\ \A i \in 1 .. Len(buf) : buf[i] <= arrived - Remaining
    /\ pc \in {"stores", "advance", "clear"} =>
          /\ got <= arrived - Remaining
          /\ \A i \in 1 .. Len(handled) : handled[i] < got
          /\ \A i \in 1 .. Len(buf) : buf[i] < got

IInv ==
    /\ TypeOK
    /\ Lap
    /\ RingData
    /\ Flag
    /\ Fits
    /\ Remaining <= arrived
    /\ WholeUntilFull
    /\ Ordered
=============================================================================

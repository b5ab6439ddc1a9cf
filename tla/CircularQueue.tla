---------------------------- MODULE CircularQueue ----------------------------
(***************************************************************************)
(* util::CircularQueue of kernel/lib/include/datastruc/CircularQueue.h: a  *)
(* ring of Size elements with the index of the first element, that of the  *)
(* first free place, and a flag that tells full from empty when the two    *)
(* are the same.                                                           *)
(***************************************************************************)
EXTENDS Naturals

CONSTANT Size

ASSUME SizeAssumption == Size \in Nat /\ Size > 1

\* ++index, and 0 at the end.
After(i) == IF i + 1 = Size THEN 0 ELSE i + 1

\* The constructor clears the elements.
NewQueue == [first |-> 0, last |-> 0, isfull |-> FALSE, data |-> [i \in 0 .. Size - 1 |-> 0]]

Full(q) == q.isfull
EndsMeet(q) == q.first = q.last

\* Mutants: full is not noticed; the index is advanced before it is used.
PushNeverFull(q, e) ==
    [q EXCEPT !.data[q.last] = e, !.last = After(q.last)]
PushBehind(q, e) ==
    [q EXCEPT !.data[After(q.last)] = e,
              !.last = After(q.last),
              !.isfull = After(q.last) = q.first]

\* push of a queue that is not full.
Push(q, e) ==
    [q EXCEPT !.data[q.last] = e,
              !.last = After(q.last),
              !.isfull = After(q.last) = q.first]

\* The two stores of pop.
Advanced(q) == [q EXCEPT !.first = After(q.first)]
NotFull(q) == [q EXCEPT !.isfull = FALSE]
=============================================================================

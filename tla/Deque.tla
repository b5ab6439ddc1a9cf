-------------------------------- MODULE Deque --------------------------------
(***************************************************************************)
(* What util::list_base promises its users: a double ended queue from      *)
(* which any member can also be taken out, one of its ends among them.  An *)
(* operation on an empty queue changes nothing.                            *)
(***************************************************************************)
EXTENDS Integers, Sequences

CONSTANT Node

VARIABLE items

Init == items = <<>>

Push(n) ==
    /\ \A i \in DOMAIN items : items[i] # n
    /\ items' \in {<<n>> \o items, Append(items, n)}

TakeOut(i) == items' = SubSeq(items, 1, i - 1) \o SubSeq(items, i + 1, Len(items))

Next ==
    \/ \E n \in Node : Push(n)
    \/ \E i \in DOMAIN items : TakeOut(i)

Spec == Init /\ [][Next]_items
=============================================================================

------------------------------ MODULE MCKmalloc -------------------------------
(***************************************************************************)
(* Kmalloc with the powers of two for TLC.                                 *)
(***************************************************************************)
EXTENDS Kmalloc

Shifts == [k \in 0 .. Bits |-> 2^k]
=============================================================================

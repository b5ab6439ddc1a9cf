------------------------------- MODULE Powers --------------------------------
(***************************************************************************)
(* Powers of two without exponents, for the functions of math/ilog2.h and  *)
(* the bit operations that come to the same.                               *)
(***************************************************************************)
EXTENDS Integers

\* Of a positive number: all that divides it but 1 is even.
PowerOfTwo(b) == \A d \in 2 .. b : b % d = 0 => d % 2 = 0

\* 1 << ilog2(n): the highest bit that is set.
HighestBit(n) == CHOOSE p \in 1 .. n : PowerOfTwo(p) /\ n < 2 * p

\* n & (n - 1).
LowestBitOff(n) ==
    LET Divisors == {b \in 1 .. n : PowerOfTwo(b) /\ n % b = 0}
    IN  n - CHOOSE b \in Divisors : \A c \in Divisors : c <= b
=============================================================================

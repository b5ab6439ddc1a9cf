----------------------------- MODULE StringUtil ------------------------------
(***************************************************************************)
(* memset, memcpy, memcmp and strlen of kernel/lib/src/stringutil.cpp, as  *)
(* they are compiled by gcc for a little-endian processor: by words where  *)
(* an address allows it, with heads and tails that overlap.  One call is a *)
(* run of the machine, a turn of a loop or a straight piece is a step.     *)
(*                                                                         *)
(* Every byte of memory holds a number of its own, so that a byte in the   *)
(* wrong place is seen; no character is 0 unless a string ends there.      *)
(***************************************************************************)
EXTENDS Integers, Sequences

CONSTANTS
    Source, Target,  \* two places, aligned to 8 bytes and apart
    MemorySize,      \* bytes of memory, the places inside it
    Lengths,         \* the lengths asked for
    CompareLengths,  \* those of them that memcmp is asked for
    StringLengths,   \* the lengths of strings
    Filler           \* what memset sets

Cell == 1 .. MemorySize

ASSUME StringAssumption ==
    /\ {Source, Target, MemorySize} \subseteq Nat /\ Source % 8 = 0 /\ Target % 8 = 0
    /\ Lengths \subseteq Nat /\ CompareLengths \union StringLengths \subseteq Lengths
    /\ \A n \in Lengths :
          /\ {Source, Source + 16 + n, Target, Target + 16 + n} \subseteq Cell
          /\ Source + 16 + n <= Target \/ Target + 16 + n <= Source
    /\ Filler \notin Cell /\ Filler # 0

VARIABLES
    call,   \* the function, its pointers and length; for memcmp, how many
            \* bytes are equal, for strlen, length is that of the string
    mem,    \* memory
    at,     \* the stage of the function, "done" once it returned
    from, to, \* the pointers s and d
    left,   \* what is left of n
    bit,    \* of the tail: the bit of n that is looked at
    kept,   \* the bytes of the word that was read last
    result, \* what memcmp or strlen returns
    seen    \* history: the addresses that were read

stringVars == <<call, mem, at, from, to, left, bit, kept, result, seen>>

Region(p, k) == p .. (p + k) - 1

StringInit ==
    /\ call \in [fn : {"memset"}, src : {Source}, dst : {Target + i : i \in 0 .. 7},
                 len : Lengths, same : {0}]
          \union [fn : {"memcpy"}, src : {Source + i : i \in 0 .. 3},
                  dst : {Target + i : i \in 0 .. 3}, len : Lengths, same : {0}]
          \union [fn : {"memcmp"}, src : {Source + i : i \in 0 .. 3},
                  dst : {Target + i : i \in 0 .. 3}, len : CompareLengths, same : CompareLengths]
          \union [fn : {"strlen"}, src : {Source + i : i \in 0 .. 7}, dst : {Target},
                  len : StringLengths, same : {0}]
    /\ mem = [a \in Cell |->
                CASE call.fn = "strlen" /\ a = call.src + call.len -> 0
                  [] call.fn = "memcmp" /\ a \in Region(call.dst, call.same)
                        -> (a - call.dst) + call.src
                  [] OTHER -> a]
    /\ at = call.fn /\ from = call.src /\ to = call.dst /\ left = call.len
    /\ bit = 0 /\ kept = <<>> /\ result = 0 /\ seen = {}

-----------------------------------------------------------------------------
(* memset: dest is d, and n bytes. *)

Fill(offsets) ==
    mem' = [a \in Cell |-> IF \E i \in offsets : a = to + i THEN Filler ELSE mem[a]]

Words(offsets) == UNION {i .. i + 3 : i \in offsets}

\* The ends byte by byte, from both sides inwards.
FillBytes ==
    /\ at = "memset"
    /\ Fill(UNION {IF left > 0 THEN {0, left - 1} ELSE {},
                   IF left > 2 THEN {1, 2, left - 2, left - 3} ELSE {},
                   IF left > 6 THEN {3, left - 4} ELSE {}})
    /\ IF left <= 8 THEN at' = "done" /\ UNCHANGED <<to, left>>
       ELSE LET k == (4 - (to % 4)) % 4
            IN  at' = "words" /\ to' = to + k /\ left' = 4 * ((left - k) \div 4)
    /\ UNCHANGED <<call, from, bit, kept, result, seen>>

\* The same by words of four bytes, up to 28 bytes from each end.
FillWords ==
    /\ at = "words"
    /\ Fill(Words(UNION {{0, left - 4},
                         IF left > 8 THEN {4, 8, left - 12, left - 8} ELSE {},
                         IF left > 24
                         THEN {12, 16, 20, 24, left - 28, left - 24, left - 20, left - 16}
                         ELSE {}}))
    /\ IF left <= 24 THEN at' = "done" /\ UNCHANGED <<to, left>>
       ELSE LET k == 24 + (IF to % 8 >= 4 THEN 4 ELSE 0)
            IN  at' = "fill" /\ to' = to + k /\ left' = left - k
    /\ UNCHANGED <<call, from, bit, kept, result, seen>>

\* What is in between, by 32 bytes.
FillLoop ==
    /\ at = "fill"
    /\ IF left >= 32 THEN Fill(0 .. 31) /\ to' = to + 32 /\ left' = left - 32 /\ UNCHANGED at
       ELSE at' = "done" /\ UNCHANGED <<mem, to, left>>
    /\ UNCHANGED <<call, from, bit, kept, result, seen>>

-----------------------------------------------------------------------------
(* memcpy. *)

Read(p, k) == [i \in 1 .. k |-> mem[(p + i) - 1]]

Store(q) ==
    mem' = [a \in Cell |-> IF a \in to .. (to + Len(q)) - 1 THEN q[(a - to) + 1] ELSE mem[a]]

Move(k) == Store(Read(from, k)) /\ from' = from + k /\ to' = to + k
Copy(k) == Move(k) /\ seen' = seen \union Region(from, k)

\* Up to an aligned source.
CopyHead ==
    /\ at = "memcpy"
    /\ IF from % 4 # 0 /\ left > 0
       THEN Copy(1) /\ left' = left - 1 /\ UNCHANGED <<at, bit>>
       ELSE /\ at' = CASE to % 4 = 0            -> "blocks"
                       [] to % 4 # 0 /\ left >= 32 -> "shift"
                       [] to % 4 # 0 /\ left < 32  -> "tail"
            /\ bit' = 16
            /\ UNCHANGED <<mem, seen, from, to, left>>
    /\ UNCHANGED <<call, kept, result>>

\* Both are aligned: by 16 bytes, and the rest of less than 16.
CopyBlocks ==
    /\ at = "blocks"
    /\ IF left >= 16
       THEN Copy(16) /\ left' = left - 16 /\ UNCHANGED <<at, bit>>
       ELSE at' = "tail" /\ bit' = 8 /\ UNCHANGED <<mem, seen, from, to, left>>
    /\ UNCHANGED <<call, kept, result>>

\* They are not: a word is kept, and its first bytes go out alone until the
\* destination is aligned.
BeginShift ==
    /\ at = "shift"
    /\ Move(4 - (to % 4)) /\ left' = left - (4 - (to % 4))
    /\ kept' = Read(from, 4) /\ seen' = seen \union Region(from, 4)
    /\ at' = "shifts"
    /\ UNCHANGED <<call, bit, result>>

\* The source is r bytes short of the next word, which is read whole.
ShiftsLeft(r) == left >= 16 + r

\* Mutant: the halves of a word are put together as for another distance.
ShiftedByOne(q, r) == SubSeq(q, 4, 19)

\* (w LS ..) | (x RS ..), four times: the last r bytes of w, the first of the
\* words after it.
Shifted(q, r) == SubSeq(q, 5 - r, 20 - r)

ShiftLoop ==
    /\ at = "shifts"
    /\ LET r == 4 - (from % 4)
           q == kept \o Read(from + r, 16)
       IN  IF ShiftsLeft(r)
           THEN /\ Store(Shifted(q, r)) /\ kept' = SubSeq(q, 17, 20)
                /\ seen' = seen \union Region(from + r, 16)
                /\ from' = from + 16 /\ to' = to + 16 /\ left' = left - 16
                /\ UNCHANGED at
           ELSE at' = "tail" /\ UNCHANGED <<mem, kept, seen, from, to, left>>
    /\ UNCHANGED <<call, bit, result>>

\* if (n&16) .. if (n&1)
CopyTail ==
    /\ at = "tail"
    /\ IF bit = 0 THEN at' = "done" /\ UNCHANGED <<mem, seen, from, to, bit>>
       ELSE /\ IF (left \div bit) % 2 = 1 THEN Copy(bit) ELSE UNCHANGED <<mem, seen, from, to>>
            /\ bit' = bit \div 2
            /\ UNCHANGED at
    /\ UNCHANGED <<call, left, kept, result>>

-----------------------------------------------------------------------------
(* memcmp and strlen. *)

Compare ==
    /\ at = "memcmp"
    /\ IF left = 0 THEN at' = "done" /\ UNCHANGED <<from, to, left, result>>
       ELSE IF mem[from] # mem[to]
       THEN at' = "done" /\ result' = mem[from] - mem[to] /\ UNCHANGED <<from, to, left>>
       ELSE from' = from + 1 /\ to' = to + 1 /\ left' = left - 1 /\ UNCHANGED <<at, result>>
    /\ seen' = IF left = 0 THEN seen ELSE seen \union {from, to}
    /\ UNCHANGED <<call, mem, bit, kept>>

Measured == at' = "done" /\ result' = from - call.src /\ UNCHANGED from

\* Byte by byte to an aligned address, word by word to one with a zero in it,
\* and byte by byte to that.
Measure ==
    /\ at \in {"strlen", "scan", "last"}
    /\ CASE at = "strlen" /\ from % 8 # 0 ->
              /\ seen' = seen \union {from}
              /\ IF mem[from] = 0 THEN Measured ELSE from' = from + 1 /\ UNCHANGED <<at, result>>
         [] at = "strlen" /\ from % 8 = 0 -> at' = "scan" /\ UNCHANGED <<from, seen, result>>
         [] at = "scan" ->
              /\ seen' = seen \union Region(from, 8)
              /\ IF \E a \in Region(from, 8) : mem[a] = 0 THEN at' = "last" /\ UNCHANGED from
                 ELSE from' = from + 8 /\ UNCHANGED at
              /\ UNCHANGED result
         [] at = "last" ->
              /\ seen' = seen \union {from}
              /\ IF mem[from] = 0 THEN Measured ELSE from' = from + 1 /\ UNCHANGED <<at, result>>
    /\ UNCHANGED <<call, mem, to, left, bit, kept>>

Returned == at = "done" /\ UNCHANGED stringVars

StringStep ==
    \/ FillBytes \/ FillWords \/ FillLoop
    \/ CopyHead \/ CopyBlocks \/ BeginShift \/ ShiftLoop \/ CopyTail
    \/ Compare \/ Measure

StringSpec == StringInit /\ [][StringStep \/ Returned]_stringVars

-----------------------------------------------------------------------------
Destination == IF call.fn \in {"memset", "memcpy"} THEN Region(call.dst, call.len) ELSE {}

\* stringutil.cpp: when a function returns, every byte of the destination is
\* the one it should be, whichever of the heads, words and tails wrote it.
StringsExact ==
    at = "done" =>
        CASE call.fn = "memset" -> \A a \in Destination : mem[a] = Filler
          [] call.fn = "memcpy" -> \A a \in Destination : mem[a] = (a - call.dst) + call.src
          [] call.fn = "memcmp" -> result = 0 <=> call.same >= call.len
          [] call.fn = "strlen" -> result = call.len

\* Reads of n bytes stay in them, although they go by words, strlen's in the
\* aligned words the string is in; and no byte behind or before the
\* destination is ever written.
StringsInside ==
    /\ \A a \in Cell \ Destination :
          mem[a] = a \/ call.fn \in {"memcmp", "strlen"}
    /\ CASE call.fn = "memset" -> seen = {}
         [] call.fn = "memcpy" -> seen \subseteq Region(call.src, call.len)
         [] call.fn = "memcmp" -> seen \subseteq Region(call.src, call.len)
                                                 \union Region(call.dst, call.len)
         [] call.fn = "strlen" -> \A a \in seen : a >= call.src
                                     /\ a \div 8 <= (call.src + call.len) \div 8

\* Both (stringutil.cpp:5-242): the heads, words and tails of a function meet
\* without a gap and without going over the ends.
StringsRight == StringsExact /\ StringsInside
=============================================================================

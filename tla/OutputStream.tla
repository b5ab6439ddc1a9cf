----------------------------- MODULE OutputStream -----------------------------
(***************************************************************************)
(* text::raw_ostream (lib/include/raw_ostream.h, lib/src/raw_ostream.cpp): *)
(* a stream with room for `cap` characters between start and end, of which *)
(* `buf` are filled; without a buffer the room is none.  Every operation   *)
(* gives the buffer it leaves and what it sends to write_impl meanwhile.   *)
(***************************************************************************)
EXTENDS Integers, Sequences

CONSTANT HexDigits  \* of a 64-bit number, 16

ASSUME WordAssumption == HexDigits \in Nat \ {0}

Unbuffered == [cap |-> 0, buf |-> <<>>]

\* start = buf, end = buf + size, cur = start; the characters that were waiting
\* in the buffer before are not written.
SetBuffered(size) == [cap |-> size, buf |-> <<>>]

Outcome(sent, buf) == [sent |-> sent, buf |-> buf]

\* Mutant: a full buffer lets the character pass it.
PutCharFirst(s, c) ==
    IF Len(s.buf) < s.cap THEN Outcome(<<>>, Append(s.buf, c)) ELSE Outcome(<<c>>, s.buf)

\* operator<<(char): isBufferFull is also true without a buffer.
PutChar(s, c) ==
    CASE Len(s.buf) < s.cap -> Outcome(<<>>, Append(s.buf, c))
      [] s.cap = 0          -> Outcome(<<c>>, <<>>)
      [] OTHER              -> Outcome(s.buf, <<c>>)

\* The whole buffers' worth goes out at once, the rest into the empty buffer.
WriteEmpty(s, str) ==
    IF Len(str) <= s.cap THEN Outcome(<<>>, str)
    ELSE LET rest == Len(str) % s.cap
         IN  Outcome(SubSeq(str, 1, Len(str) - rest),
                     SubSeq(str, Len(str) - rest + 1, Len(str)))

\* write(str, size).  What does not fit fills the buffer, which is flushed, and
\* the recursive call finds it empty.
WriteString(s, str) ==
    LET room == s.cap - Len(s.buf)
        later == WriteEmpty(s, SubSeq(str, room + 1, Len(str)))
    IN  CASE Len(str) <= room             -> Outcome(<<>>, s.buf \o str)
          [] Len(str) > room /\ s.cap = 0 -> Outcome(str, <<>>)
          [] Len(str) > room /\ s.cap # 0 ->
                IF s.buf = <<>> THEN WriteEmpty(s, str)
                ELSE Outcome(s.buf \o SubSeq(str, 1, room) \o later.sent, later.buf)

\* flush() of what there is.
FlushAll(s) == Outcome(s.buf, <<>>)
-----------------------------------------------------------------------------
(* Numbers *)

\* The powers of 16 up to the number of values of a 64-bit number.
Power[k \in 0 .. HexDigits] == IF k = 0 THEN 1 ELSE 16 * Power[k - 1]

Word == Power[HexDigits]

hexTable == <<"0", "1", "2", "3", "4", "5", "6", "7", "8", "9",
              "a", "b", "c", "d", "e", "f">>

\* format_to_buffer, which fills its buffer from the end.
Digits[n \in 0 .. Word - 1] ==
    IF n < 10 THEN <<hexTable[n + 1]>>
    ELSE Append(Digits[n \div 10], hexTable[(n % 10) + 1])

WriteUnsigned(s, n) == WriteString(s, Digits[n])

\* The sign goes first, on its own; -n fits the unsigned type whatever n is.
WriteInteger(s, n) ==
    IF n >= 0 THEN WriteUnsigned(s, n)
    ELSE LET sign == PutChar(s, "-")
             rest == WriteUnsigned([s EXCEPT !.buf = sign.buf], (-n) % Word)
         IN  Outcome(sign.sent \o rest.sent, rest.buf)

\* What is left of n after i turns of the loop, each of which takes four bits.
Left(n) ==
    LET number[i \in 0 .. HexDigits] == IF i = 0 THEN n ELSE number[i - 1] \div 16
    IN  number

\* All the digits, leading zeros too, from the last one.
WriteHex(s, n) ==
    WriteString(s, <<"0", "x">> \o
        [i \in 1 .. HexDigits |-> hexTable[(Left(n)[HexDigits - i] % 16) + 1]])
=============================================================================

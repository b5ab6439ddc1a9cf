------------------------------- MODULE Console --------------------------------
(***************************************************************************)
(* The text screen (kernel/src/vga/vgaout.cpp and cursor.cpp) behind a     *)
(* vga_ostream.  The screen keeps its place twice: in `screen`, the address *)
(* the next character goes to, counted in characters from raw_screen(),    *)
(* and in the Cursor's x and y, which it shows by writing their 16-bit     *)
(* offset to the VGA controller.  Colours are left out.                    *)
(***************************************************************************)
EXTENDS Integers, OutputStream, SequencesExt

CONSTANTS
    Width, Height, \* video_width and video_height, 80 and 25
    TabStop,       \* 8
    Offsets,       \* 2^16, the offsets a uint16_t can hold
    Texts,         \* what the kernel writes at once
    Numbers,       \* the numbers it writes, as 64-bit integers
    Rooms,         \* sizes of the buffers given to setBuffered
    MaxChars       \* bound: characters written in all

Controls == {"newline", "tab", "backspace"}
Chars == {"x"} \cup Controls

ASSUME ScreenAssumption ==
    /\ {Width, Height, TabStop} \subseteq Nat \ {0}
    /\ Offsets \in Nat /\ Offsets >= Width * Height
    /\ Texts \subseteq Seq(Chars) /\ Rooms \subseteq Nat \ {0}
    /\ Numbers \subseteq Int
    /\ \A n \in Numbers : -(Word \div 2) <= n /\ n < Word \div 2

VARIABLES
    out,     \* the vga_ostream
    sending, \* what vga_write has still to print of what it was given
    vga,     \* the cells, screen, x and y; history: screen set apart by clear
    written, \* the number of characters written, for MaxChars
    owed,    \* history: characters written to the stream and not printed yet
    ordered, \* history: those printed were always the first of those owed
    strayed, \* history: a character went to an address off the screen
    retraced \* history: what set the cursor back or off the screen

consoleVars == <<out, sending, vga, written, owed, ordered, strayed, retraced>>

Cells == 0 .. Width * Height - 1

\* xyToOffset, a uint16_t.
Offset(v) == (v.x + v.y * Width) % Offsets

\* A character written to the address `place`: "x" stands for any of them.
Poke(v, place, c) ==
    IF place \in Cells THEN [v.cells EXCEPT ![place] = c] ELSE v.cells

\* Cursor::set(x, y), and screen set to the same place.
MoveTo(v, x, y) ==
    [v EXCEPT !.x = x, !.y = y, !.screen = y * Width + x, !.apart = FALSE]

\* Mutant: the last row keeps its text.
ScrolledUncleared(v) ==
    [i \in Cells |-> IF i + Width \in Cells THEN v.cells[i + Width] ELSE v.cells[i]]

\* The rows move up by one and the last is cleared.
Scrolled(v) ==
    [i \in Cells |-> IF i + Width \in Cells THEN v.cells[i + Width] ELSE "blank"]

vga_linefeed(v) ==
    IF v.y = Height - 1 THEN MoveTo([v EXCEPT !.cells = Scrolled(v)], 0, v.y)
    ELSE MoveTo(v, 0, v.y + 1)

\* Cursor::operator++.
Advance(v) ==
    IF v.x + 1 >= Width THEN [v EXCEPT !.x = 0, !.y = @ + 1] ELSE [v EXCEPT !.x = @ + 1]

vga_putchar(v) ==
    LET w == [v EXCEPT !.cells = Poke(v, v.screen, "x"), !.screen = @ + 1]
    IN  IF Offset(w) >= Width * Height - 1 THEN vga_linefeed(w) ELSE Advance(w)

\* The tab uses the row it read before the line feed.
vga_tap(v) ==
    LET x == (v.x \div TabStop + 1) * TabStop
    IN  IF x >= Width THEN MoveTo(vga_linefeed(v), 0, v.y) ELSE MoveTo(v, x, v.y)

\* cursor = cursor.get() - 1 goes through a uint16_t.
vga_backspace(v) ==
    LET offset == (Offset(v) - 1) % Offsets
    IN  [v EXCEPT !.x = offset % Width, !.y = offset \div Width,
                  !.screen = @ - 1, !.cells = Poke(v, v.screen - 1, "blank")]

\* screen is the loop's variable and stays behind the last cell.
vga_clear(v) ==
    [cells |-> [i \in Cells |-> "blank"], screen |-> Width * Height, x |-> 0, y |-> 0,
     apart |-> TRUE]

VgaChar(v, c) ==
    CASE c = "newline"   -> vga_linefeed(v)
      [] c = "tab"       -> vga_tap(v)
      [] c = "backspace" -> vga_backspace(v)
      [] OTHER           -> vga_putchar(v)

\* Where a character would be written that is not on the screen, and what
\* makes the cursor go back over text or leave the screen: a tab over the right
\* edge above the last row, a backspace in the first cell.
Strays(v, c) ==
    \/ c \notin Controls /\ v.screen \notin Cells
    \/ c = "backspace" /\ v.screen - 1 \notin Cells
Retraces(v, c) ==
    \/ /\ c = "tab" /\ v.y # Height - 1
       /\ (v.x \div TabStop + 1) * TabStop >= Width
    \/ c = "backspace" /\ Offset(v) = 0

\* A round of vga_write's loop.
VgaWrite ==
    /\ sending # <<>>
    /\ LET c == Head(sending)
       IN  /\ vga' = VgaChar(vga, c)
           /\ strayed' = (strayed \/ Strays(vga, c))
           /\ retraced' = IF Retraces(vga, c) THEN retraced \cup {c} ELSE retraced
    /\ sending' = Tail(sending)
    /\ UNCHANGED <<out, written, owed, ordered>>
-----------------------------------------------------------------------------
\* vga_initialize(width, height) on a screen where nothing is below the place
\* it is given.
ConsoleInit ==
    /\ out = Unbuffered /\ sending = <<>>
    /\ \E x \in 0 .. Width - 1, y \in 0 .. Height - 1 :
           vga = [cells |-> [i \in Cells |-> "blank"], screen |-> y * Width + x,
                  x |-> x, y |-> y, apart |-> FALSE]
    /\ written = 0 /\ owed = <<>>
    /\ ordered = TRUE /\ strayed = FALSE /\ retraced = {}

\* The stream's operation on `str` leaves `result`, and write_impl gives what
\* it sends to vga_write.
Emit(str, result) ==
    LET due == owed \o str
    IN  /\ sending = <<>> /\ sending' = result.sent
        /\ out' = [out EXCEPT !.buf = result.buf]
        /\ ordered' = (ordered /\ IsPrefix(result.sent, due))
        /\ owed' = SubSeq(due, Len(result.sent) + 1, Len(due))
        /\ written + Len(str) <= MaxChars
        /\ written' = written + Len(str)
        /\ UNCHANGED <<vga, strayed, retraced>>

Put(c) == Emit(<<c>>, PutChar(out, c))

Write(str) == Emit(str, WriteString(out, str))

\* What digits mean, read from the left.
Value(ds, base) ==
    LET value[i \in 0 .. Len(ds)] == IF i = 0 THEN 0 ELSE base * value[i - 1] + ds[i]
    IN  value[Len(ds)]

\* The spellings of k digits that mean n, and how many digits n has at least.
Spellings(n, base, k) == {ds \in [1 .. k -> 0 .. base - 1] : Value(ds, base) = n}
Fewest(n, base) ==
    CHOOSE k \in 1 .. n + 1 :
        Spellings(n, base, k) # {} /\ \A j \in 1 .. k - 1 : Spellings(n, base, j) = {}

\* The numeral of n to the base with k digits.
Numeral(n, base, k) ==
    LET ds == CHOOSE row \in Spellings(n, base, k) : TRUE
    IN  [i \in 1 .. k |-> hexTable[ds[i] + 1]]

\* What a number is meant to print.
DecimalNumeral(n) == Numeral(n, 10, Fewest(n, 10))
Decimal == [n \in Numbers |->
    IF n < 0 THEN <<"-">> \o DecimalNumeral(-n) ELSE DecimalNumeral(n)]
Hexadecimal == [n \in Numbers |-> <<"0", "x">> \o Numeral(n % Word, 16, HexDigits)]

PutNumber(n) == Emit(Decimal[n], WriteInteger(out, n))

\* write_hex, and a pointer.
PutHex(n) == Emit(Hexadecimal[n], WriteHex(out, n % Word))

FlushStream == out.buf # <<>> /\ Emit(<<>>, FlushAll(out))

\* setBuffered and setUnbuffered, which forget what waits in the buffer.
Rebuffer(stream) ==
    /\ sending = <<>>
    /\ out' = stream
    /\ owed' = <<>>
    /\ UNCHANGED <<sending, vga, written, ordered, strayed, retraced>>

\* vga_clear, which no part of the kernel calls.
Clear ==
    /\ sending = <<>>
    /\ vga' = vga_clear(vga)
    /\ retraced' = retraced \cup {"clear"}
    /\ UNCHANGED <<out, sending, written, owed, ordered, strayed>>

\* raw_print of an interrupt handler, between any two characters: the status
\* in the upper right corner, whatever is there.
RawPrint ==
    /\ vga' = [vga EXCEPT !.cells[Width - 1] = "s"]
    /\ UNCHANGED <<out, sending, written, owed, ordered, strayed, retraced>>

ConsoleNext ==
    \/ VgaWrite
    \/ \E c \in Chars : Put(c)
    \/ \E str \in Texts : Write(str)
    \/ \E n \in Numbers : PutNumber(n) \/ PutHex(n)
    \/ FlushStream
    \/ \E n \in Rooms : Rebuffer(SetBuffered(n))
    \/ Rebuffer(Unbuffered)
    \/ Clear
    \/ RawPrint

ConsoleSpec == ConsoleInit /\ [][ConsoleNext]_consoleVars
-----------------------------------------------------------------------------
\* What is written to the stream comes out whole and in order, whatever mixture
\* of characters, strings, numbers and flushes fills the buffer
\* (raw_ostream.cpp:5-158), numbers as the numeral they have,
\* and what is not printed yet waits in the buffer, which is never over-full:
\* only giving the stream another buffer loses text.
StreamInOrder == ordered /\ owed = out.buf /\ Len(out.buf) <= out.cap

\* The address and the cursor never part: every operation moves both
\* (vgaout.cpp:26-114), and they agree in the 16 bits of the offset even off the
\* screen.  Only vga_clear sets them apart, until the next line feed or tab.
CursorsAgree == ~vga.apart => vga.screen % Offsets = Offset(vga)

\* Nothing printed lies at or behind the place the next character goes to, so
\* that text is never printed over (vgaout.cpp:78-114), unless a tab beyond the
\* right edge returned to the start of its own row, or the cursor left the
\* screen.
BlankAhead ==
    retraced = {} => \A i \in Cells : i >= vga.screen => vga.cells[i] # "x"

\* No character is written outside the screen's memory (vgaout.cpp:26-37,
\* 97-100) unless a backspace went back beyond the first cell, or the screen
\* was cleared: a tab that returned does no such harm.
WritesOnScreen == strayed => retraced \cap {"backspace", "clear"} # {}

\* What the console writes next goes to the cursor, to a blank cell and onto
\* the screen (vgaout.cpp:26-114), but for the operations named in the parts.
ScreenSound == CursorsAgree /\ BlankAhead /\ WritesOnScreen

-----------------------------------------------------------------------------
(***************************************************************************)
(* The inductive invariant behind ScreenSound.                             *)
(***************************************************************************)

Screens == [cells : [Cells -> {"blank", "x", "s"}], screen : Int,
            x : 0 .. Width - 1, y : Nat, apart : BOOLEAN]

\* The parts of ScreenSound and what they rest on, of a screen v: without a
\* backspace in the first cell and vga_clear both places are the same cell.
Agree(v) == ~v.apart => v.screen % Offsets = Offset(v)
Placed(v) == ~v.apart /\ v.y < Height /\ v.screen = v.y * Width + v.x
Ahead(v) == \A i \in Cells : i >= v.screen => v.cells[i] # "x"

ScreenInv ==
    /\ vga \in Screens
    /\ Agree(vga)
    /\ retraced \cap {"backspace", "clear"} = {} => Placed(vga) /\ ~strayed
    /\ retraced = {} => Ahead(vga)

-----------------------------------------------------------------------------
(***************************************************************************)
(* The inductive invariant behind StreamInOrder: what is owed is what      *)
(* waits in the buffer.                                                    *)
(***************************************************************************)

\* The characters written to the stream.
Glyphs == Chars \cup {"0", "x", "-"} \cup {hexTable[i] : i \in 1 .. 16}

Streams == [cap : Nat, buf : Seq(Glyphs)]

StreamInv == out \in Streams /\ Len(out.buf) <= out.cap /\ owed = out.buf /\ ordered
=============================================================================

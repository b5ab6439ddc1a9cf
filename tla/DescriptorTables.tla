-------------------------- MODULE DescriptorTables ---------------------------
(***************************************************************************)
(* The tables init_all makes for the processor (kernel/src/arch/mminit.cpp *)
(* with GDT.h, IDT.h, TSS.h): segment descriptors and gates, which hold an *)
(* address and a limit in pieces, and the stack for interrupts.  The       *)
(* pieces are of whole bytes but for one of half a byte; how many values a *)
(* byte has is a parameter.                                                *)
(*                                                                         *)
(* External: how the processor puts the pieces together again.             *)
(***************************************************************************)
EXTENDS Naturals

CONSTANTS
    Nibble,     \* values of half a byte
    Handler,    \* interrupt_handler_vector
    IST_END,    \* the end of the stack for interrupts
    TssSize,    \* sizeof(TSS)
    Buffer,     \* the memory set aside for the tables: first address
    Room        \* and number of bytes

Byte == Nibble * Nibble

\* How many values n bytes have.
Values(n) ==
    LET two == Byte * Byte
        four == two * two
    IN  CASE n = 0 -> 1
          [] n = 1 -> Byte
          [] n = 2 -> two
          [] n = 3 -> two * Byte
          [] n = 4 -> four
          [] n = 8 -> four * four

Address == 0 .. Values(8) - 1
Vectors == 0 .. 255

ASSUME TablesAssumption ==
    /\ Nibble \in Nat \ {0, 1}
    /\ Handler \in [Vectors -> Address]
    /\ TssSize \in 1 .. Values(2) * Nibble
    /\ Buffer \in Address /\ Room \in Nat /\ Buffer + Room <= Values(8)

\* n bytes of a, from byte i on.
Piece(a, i, n) == (a \div Values(i)) % Values(n)

-----------------------------------------------------------------------------
(* LinearAllocator: what is left, and what was given out before it. *)

NoPlace == Values(8)

allocate_bytes(memory, n) ==
    IF memory.addr + n >= memory.end THEN [memory EXCEPT !.ptr = NoPlace]
    ELSE [memory EXCEPT !.addr = @ + n, !.ptr = memory.addr]

GdtSize == 40
IdtSize == 256 * 16

-----------------------------------------------------------------------------
(* Segment descriptors.  "reserved" is the last word of an Entry16, which  *)
(* nobody writes: the setZero called is that of Entry8.                    *)

RWbit == 2
Executablebit == 8
TSS_32bit == 9

Zero == [lower |-> 0, high |-> 0, base0 |-> 0, base1 |-> 0, base2 |-> 0, extend |-> 0,
         type |-> 0, S |-> FALSE, present |-> FALSE, granular |-> FALSE, L |-> FALSE,
         reserved |-> FALSE]

setLimit(e, limit) ==
    [e EXCEPT !.lower = limit % Values(2), !.high = (limit \div Values(2)) % Nibble]

setAddress8(e, a) ==
    [e EXCEPT !.base0 = Piece(a, 0, 2), !.base1 = Piece(a, 2, 1), !.base2 = Piece(a, 3, 1)]

setAddress16(e, a) == [setAddress8(e, a) EXCEPT !.extend = Piece(a, 4, 4)]

Executable(type) == (type \div Executablebit) % 2 = 1

setLongmodeDefault(system, type) ==
    LET e == IF system THEN Zero ELSE setLimit(setAddress8(Zero, 0), Values(2) * Nibble - 1)
    IN  [e EXCEPT !.type = type, !.present = TRUE, !.granular = TRUE, !.S = ~system,
                  !.L = ~system /\ Executable(type)]

\* gdt_and_tss_init.  The entry for the TSS fills the slots 3 and 4.
Gdt(tss, left) ==
    [i \in 0 .. 3 |->
        CASE i = 0 -> Zero
          [] i = 1 -> setLongmodeDefault(FALSE, RWbit + Executablebit)
          [] i = 2 -> setLongmodeDefault(FALSE, RWbit)
          [] i = 3 -> [setLimit(setAddress16(setLongmodeDefault(TRUE, TSS_32bit), tss), TssSize - 1)
                          EXCEPT !.reserved = left]]

\* IST[0] is the first of seven; the others are zero.
Tss == [IST |-> [i \in 0 .. 6 |-> IF i = 0 THEN IST_END ELSE 0]]

\* How the processor reads them.
Base(e) == e.base0 + Values(2) * e.base1 + Values(3) * e.base2 + Values(4) * e.extend
Limit(e) ==
    LET n == e.lower + Values(2) * e.high IN IF e.granular THEN n * 4096 + 4095 ELSE n

IsCode(e) == e.present /\ e.S /\ e.L /\ e.type \in 8 .. 15
IsTask(e) == e.present /\ ~e.S /\ e.type = TSS_32bit /\ ~e.reserved

-----------------------------------------------------------------------------
(* Gates.  "null" is the bit above the type, which nobody writes either.   *)

interrupt_gate_32bit == 14

\* Mutant: the offset is cut as the base of a segment is.
SetHandlerAsBase(a) ==
    [lower |-> Piece(a, 0, 2), middle |-> Piece(a, 2, 1), higher |-> Piece(a, 4, 4)]

SetHandler(a) ==
    [lower |-> Piece(a, 0, 2), middle |-> Piece(a, 2, 2), higher |-> Piece(a, 4, 4)]

\* idt_init.
Gate(v, left) ==
    [offset |-> SetHandler(Handler[v]), selector |-> 8, ist |-> 1,
     type |-> interrupt_gate_32bit, present |-> TRUE, null |-> left]

\* How the processor reads them: 0 stands for the stack that is in use.
Offset(g) == g.offset.lower + Values(2) * g.offset.middle + Values(4) * g.offset.higher
Usable(g, gdt) ==
    g.present /\ ~g.null /\ g.type = interrupt_gate_32bit /\ IsCode(gdt[g.selector \div 8])
StackOf(g, tss) == IF g.ist = 0 THEN 0 ELSE tss.IST[g.ist - 1]
=============================================================================

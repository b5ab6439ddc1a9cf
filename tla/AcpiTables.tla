------------------------------ MODULE AcpiTables -------------------------------
(***************************************************************************)
(* acpi::prepareTable (kernel/src/acpi/rsdt.cpp): the search for the       *)
(* firmware's root pointer, the two searches for a table by its name, and  *)
(* what Keyboard::initialize concludes from the one it asks for.  All of   *)
(* it runs on the page tables of the boot loader.                          *)
(*                                                                         *)
(* The firmware packs its structures, the kernel's have no pragma that     *)
(* would: a member lies at a multiple of its own size.  Offsets count      *)
(* bytes, a word has four of them, an address of the XSDT two words.       *)
(***************************************************************************)
EXTENDS Integers, Sequences

CONSTANTS
    Ebda,        \* places of 16 bytes in the first KB of the EBDA
    Bios,        \* and in the BIOS area
    MaxTables,   \* bound on the tables the firmware lists
    Mapped,      \* words from here on are addresses nobody has mapped: 1 GB
    Behind       \* what may lie behind the list

NoTable == 0
Names == {"FACP", "APIC", "SSDT"}

ASSUME AcpiAssumption ==
    /\ {Ebda, Bios, MaxTables} \subseteq Nat \ {0}
    /\ Mapped \in Nat /\ Mapped > MaxTables /\ Behind \subseteq Nat

-----------------------------------------------------------------------------
(* The firmware (external).  Its tables are numbered in the order of the   *)
(* list; the table n is at n, or above what is mapped.  All FADTs are one. *)

Table == [name : Names, high : BOOLEAN]

Firmwares ==
    [signed : {{}} \union {{p} : p \in 1 .. Ebda + Bios} \union {{1, Ebda + Bios}},
     Revision : {0, 2},
     tables : UNION {[1 .. n -> Table] : n \in 0 .. MaxTables},
     fadt : [Revision : {1, 3}, controller : BOOLEAN],
     behind : Behind]

HeaderSize == 36
FlagsAt == 109           \* BootArchitectureFlags of a FADT

VARIABLES
    firmware,
    doing,      \* "ebda", "bios", "FACP", "APIC", "keyboard", "done", "panic"
    index,      \* of the loop: the next place, or entry, to look at
    rsd_ptr,    \* place of the root pointer, or NoTable
    fadt_ptr, madt_ptr,   \* tables, or NoTable
    given_up    \* Keyboard::initialize says that there is no controller

acpiVars == <<firmware, doing, index, rsd_ptr, fadt_ptr, madt_ptr, given_up>>

AddressOf(n) == IF firmware.tables[n].high THEN Mapped + n ELSE n
Present == DOMAIN firmware.tables

\* The words of the RSDT, and of the XSDT, with the entries behind the header.
RsdtWord(k) ==
    LET n == k - HeaderSize \div 4 + 1 IN IF n \in Present THEN AddressOf(n) ELSE firmware.behind
XsdtWord(k) ==
    LET n == (k - HeaderSize \div 4) \div 2 + 1
    IN  IF n \notin Present THEN firmware.behind
        ELSE IF (k - HeaderSize \div 4) % 2 = 0 THEN AddressOf(n) ELSE 0

-----------------------------------------------------------------------------
(* rsdt.h, fadt.h. *)

\* Where the compiler places a member of n bytes behind m others.
Member(m, n) == ((m + n - 1) \div n) * n

\* other_sdt_ptr[i].
RsdtEntry(i) == [lo |-> RsdtWord(Member(HeaderSize, 4) \div 4 + i), hi |-> 0]
XsdtEntry(i) ==
    LET k == Member(HeaderSize, 8) \div 4 + 2 * i IN [lo |-> XsdtWord(k), hi |-> XsdtWord(k + 1)]

\* Length is that of the header and the list.
entry_count == Len(firmware.tables)

IsMapped(a) == a.hi = 0 /\ a.lo < Mapped
Signature(a) == IF a.lo \in Present THEN firmware.tables[a.lo].name ELSE "none"

\* Of the flags only the bit for the controller may be set, in their low byte.
FadtByte(at) == IF at = FlagsAt /\ firmware.fadt.controller THEN 2 ELSE 0
HasController == (FadtByte(Member(FlagsAt, 2)) \div 2) % 2 = 1

-----------------------------------------------------------------------------
AcpiInit ==
    /\ firmware \in Firmwares
    /\ doing = "ebda" /\ index = 1
    /\ rsd_ptr = NoTable /\ fadt_ptr = NoTable /\ madt_ptr = NoTable
    /\ given_up = FALSE

\* findRSDP: a turn of either loop.
FindRSDP ==
    /\ doing \in {"ebda", "bios"}
    /\ IF index \in firmware.signed
       THEN rsd_ptr' = index /\ doing' = "FACP" /\ index' = 0
       ELSE /\ index' = index + 1
            /\ doing' = CASE index < Ebda -> "ebda"
                          [] index \in Ebda .. Ebda + Bios - 1 -> "bios"
                          [] index = Ebda + Bios -> "panic"
            /\ UNCHANGED rsd_ptr
    /\ UNCHANGED <<firmware, fadt_ptr, madt_ptr, given_up>>

\* Mutant: the first entry is left out.
SdtEntryAfter(i) == IF firmware.Revision < 2 THEN RsdtEntry(i + 1) ELSE XsdtEntry(i + 1)

SdtEntry(i) == IF firmware.Revision < 2 THEN RsdtEntry(i) ELSE XsdtEntry(i)

\* A search ends with what it found: prepareTable keeps it and goes on.
Found(n) ==
    /\ IF doing = "FACP" THEN fadt_ptr' = n /\ doing' = "APIC" /\ UNCHANGED madt_ptr
       ELSE madt_ptr' = n /\ doing' = "keyboard" /\ UNCHANGED fadt_ptr
    /\ index' = 0

\* findSDT: a turn of its loop.  A header that is not mapped is a page fault.
FindSDT ==
    /\ doing \in {"FACP", "APIC"}
    /\ IF index = entry_count THEN Found(NoTable)
       ELSE LET a == SdtEntry(index)
            IN  CASE ~IsMapped(a) -> doing' = "panic" /\ UNCHANGED <<index, fadt_ptr, madt_ptr>>
                  [] IsMapped(a) /\ Signature(a) = doing -> Found(a.lo)
                  [] IsMapped(a) /\ Signature(a) # doing ->
                        index' = index + 1 /\ UNCHANGED <<doing, fadt_ptr, madt_ptr>>
    /\ UNCHANGED <<firmware, rsd_ptr, given_up>>

\* Keyboard::initialize.
AskFADT ==
    /\ doing = "keyboard" /\ doing' = "done"
    /\ given_up' = (fadt_ptr # NoTable /\ firmware.fadt.Revision > 1 /\ ~HasController)
    /\ UNCHANGED <<firmware, index, rsd_ptr, fadt_ptr, madt_ptr>>

AcpiOver == doing \in {"done", "panic"} /\ UNCHANGED acpiVars

AcpiNext == FindRSDP \/ FindSDT \/ AskFADT \/ AcpiOver

AcpiSpec == AcpiInit /\ [][AcpiNext]_acpiVars

-----------------------------------------------------------------------------
AllLow == \A n \in Present : ~firmware.tables[n].high

\* The first table of a name in the firmware's list.
FirstNamed(n, name) ==
    IF n = NoTable THEN \A m \in Present : firmware.tables[m].name # name
    ELSE firmware.tables[n].name = name /\ \A m \in 1 .. n - 1 : firmware.tables[m].name # name

RightTables ==
    /\ doing # "panic"
    /\ doing \in {"APIC", "keyboard", "done"} => FirstNamed(fadt_ptr, "FACP")
    /\ doing \in {"keyboard", "done"} => FirstNamed(madt_ptr, "APIC")

\* rsdt.cpp: the first root pointer is used wherever it is.  Through an RSDT
\* the tables found are the first of their names, or none when there is none.
\* Without one, with a table that is not mapped, or with an XSDT, a search
\* ends in a page fault or finds nothing, but never a wrong table; and the
\* controller is only given up over a FADT, and then over any but the oldest.
TablesFound ==
    /\ rsd_ptr # NoTable => \A p \in firmware.signed : rsd_ptr <= p
    /\ firmware.signed # {} /\ firmware.Revision < 2 /\ AllLow => RightTables
    /\ firmware.Revision >= 2 => fadt_ptr = NoTable /\ madt_ptr = NoTable
    /\ doing = "done" => (given_up <=> fadt_ptr # NoTable /\ firmware.fadt.Revision > 1)

\* rsdt.h:12, "if it's zero, use rsdt. otherwise, use xsdt.": the tables are
\* found whichever of the two the firmware has.
XsdtUsed == firmware.signed # {} /\ AllLow => RightTables

-----------------------------------------------------------------------------
(***************************************************************************)
(* The inductive invariant behind TablesFound: how far a search has come,  *)
(* and that nothing it passed was what it looks for.                       *)
(***************************************************************************)
Searching == doing \in {"FACP", "APIC"}

AcpiTypeOK ==
    /\ firmware \in Firmwares
    /\ doing \in {"ebda", "bios", "FACP", "APIC", "keyboard", "done", "panic"}
    /\ fadt_ptr \in {NoTable} \union Present /\ madt_ptr \in {NoTable} \union Present
    /\ given_up \in BOOLEAN

RootInv ==
    /\ doing \in {"ebda", "bios"} =>
          /\ rsd_ptr = NoTable
          /\ index \in (IF doing = "ebda" THEN 1 .. Ebda ELSE Ebda + 1 .. Ebda + Bios)
          /\ \A p \in firmware.signed : index <= p
    /\ rsd_ptr # NoTable => \A p \in firmware.signed : rsd_ptr <= p
    /\ doing = "panic" /\ rsd_ptr = NoTable => firmware.signed = {}

SearchInv ==
    /\ doing \in {"ebda", "bios", "FACP"} => fadt_ptr = NoTable
    /\ doing \in {"ebda", "bios", "FACP", "APIC"} => madt_ptr = NoTable
    /\ Searching => rsd_ptr # NoTable /\ index \in 0 .. entry_count
    /\ firmware.Revision < 2 /\ AllLow =>
          /\ doing = "panic" => rsd_ptr = NoTable
          /\ Searching => \A m \in 1 .. index : firmware.tables[m].name # doing
          /\ doing \in {"APIC", "keyboard", "done"} => FirstNamed(fadt_ptr, "FACP")
          /\ doing \in {"keyboard", "done"} => FirstNamed(madt_ptr, "APIC")
    /\ firmware.Revision >= 2 => fadt_ptr = NoTable /\ madt_ptr = NoTable

AcpiInv ==
    /\ AcpiTypeOK /\ RootInv /\ SearchInv
    /\ doing = "done" => (given_up <=> fadt_ptr # NoTable /\ firmware.fadt.Revision > 1)
=============================================================================

------------------------------ MODULE BootLoader ------------------------------
(***************************************************************************)
(* The boot loader: bootsect/stage1.s, which the BIOS starts, and          *)
(* bootsect/stage2.s, from the A20 gate to the jump into the kernel.       *)
(*                                                                         *)
(* Its partners are external: the BIOS (any answer its interrupts may give *)
(* is an alternative of the action that calls it) and the keyboard         *)
(* controller, which runs beside the processor and is an actor of its own. *)
(* A byte of the controller's output port is a record of the two bits that *)
(* are wired: bit 0 keeps the processor out of reset, bit 1 opens the A20  *)
(* gate.  Disk sectors are named by their LBA, and the memory at 1 MB is   *)
(* counted in sectors from KernelLoadedAddress.                            *)
(***************************************************************************)
EXTENDS Naturals, Sequences, FiniteSets

CONSTANTS
    KernelSectors,  \* KernelSize / 512; the image is padded to whole sectors
    Stage2Sectors,  \* stage2_size / 512
    BufferSectors,  \* disk_buffer_size / 512
    LoopSectors,    \* 65536 / 512: what `loop` copies when cx is zero
    Slots,          \* entries that end before system_address_map_end
    Spare,          \* entries beyond it that only hit code already executed
    PageEntries,    \* entries of a page table, 512
    Reports,        \* the kinds of memory range the BIOS reports
    MaxReports,     \* bound: ranges the BIOS reports
    MaxEmpty        \* bound: reads that succeed and return no sector

ASSUME SizesAssumption ==
    /\ {KernelSectors, Stage2Sectors, BufferSectors, LoopSectors} \subseteq Nat \ {0}
    /\ {Slots, Spare, MaxEmpty} \subseteq Nat
    /\ MaxReports \in Nat \ {0}
    /\ PageEntries \in Nat /\ PageEntries > 1

\* The entry's attribute bit 0, its length, its type and where it ends: `big`
\* means at or above 0x03fe0000.
ASSUME ReportsAssumption ==
    Reports \subseteq [valid : BOOLEAN, empty : BOOLEAN, free : BOOLEAN, big : BOOLEAN]

VARIABLES
    ip,         \* where the processor is
    gate,       \* the A20 line: TRUE when addresses above 1 MB are not folded
    probe,      \* the words at 0x500 and at 0x100500
    kbc,        \* the keyboard controller
    kbd,        \* A20KeyboardEnable: its next step and the byte on the stack
    early,      \* history: that byte was read before the controller gave it
    map,        \* system_address_map: the entries written, one after the other
    stored,     \* (di - system_address_map) / 24
    count,      \* system_address_map_size as the kernel reads it
    reported,   \* history: every range the BIOS reported
    load,       \* LoadKenerl: ebx, DAPACK.addr, edi and the upper half of esi
    kernel,     \* the sectors at KernelLoadedAddress
    pageTables  \* the three pages at PageTableAddress, entry by entry

a20Vars == <<gate, probe, kbc, kbd, early>>
mapVars == <<map, stored, count, reported>>
bootVars == <<ip, a20Vars, mapVars, load, kernel, pageTables>>

FirstLba == Stage2Sectors + 1
PortByte == [run : BOOLEAN, a20 : BOOLEAN]
Ended == {"halted", "reset", "wild", "kernel"}

Absent == [kind |-> "absent"]
Junk == [kind |-> "junk"]
Table(n) == [kind |-> "table", at |-> n * PageEntries]
Page(n) == [kind |-> "page", no |-> n]

BootInit ==
    /\ ip = "stage1"
    /\ gate \in BOOLEAN
    /\ probe = [low |-> "a", high |-> "b"]
    /\ kbc \in [input : {"none"}, data : {[run |-> TRUE, a20 |-> TRUE]},
                expects : {FALSE}, owes : {FALSE}, out : PortByte]
    /\ kbd = [step |-> 1, al |-> [run |-> TRUE, a20 |-> TRUE]]
    /\ early = FALSE
    /\ map = <<>> /\ stored = 0 /\ count = 0 /\ reported = <<>>
    /\ load = [todo |-> 0, lba |-> 0, dest |-> 0, carry |-> 0]
    /\ kernel = <<>>
    /\ pageTables = [e \in 0 .. 3 * PageEntries - 1 |-> Junk]
-----------------------------------------------------------------------------
(* Stage 1 *)

\* The extension check or the read fails, or stage 2 is jumped to whatever
\* number of sectors DAPACK.count says was read.
DiskLoad ==
    /\ ip = "stage1"
    /\ \/ ip' = "halted"
       \/ \E n \in 0 .. Stage2Sectors :
              ip' = IF n = Stage2Sectors THEN "entry" ELSE "wild"
    /\ UNCHANGED <<a20Vars, mapVars, load, kernel, pageTables>>
-----------------------------------------------------------------------------
(* The A20 gate *)

\* While the gate is closed, 0x100500 is 0x500.
At(word) == IF gate THEN word ELSE "low"

\* Two patterns are written and the first read back; then the saved words are
\* restored, each from the other's place on the stack.
A20Test ==
    LET lowPattern == [probe EXCEPT !["low"] = "4321"]
        bothPatterns == [lowPattern EXCEPT ![At("high")] = "1234"]
        lowRestored == [bothPatterns EXCEPT !["low"] = probe[At("high")]]
    IN  [opened |-> bothPatterns["low"] = "4321",
         words |-> [lowRestored EXCEPT ![At("high")] = probe["low"]]]

\* "call A20Test / je A20GateSuccess", which leads to the memory map with the
\* buffer for it cleared.
Test(here, next) ==
    /\ ip = here
    /\ probe' = A20Test.words
    /\ ip' = IF A20Test.opened THEN "query" ELSE next
    /\ UNCHANGED <<gate, kbc, kbd, early, mapVars, load, kernel, pageTables>>

FirstTest == Test("entry", "bios")
ActivatedTest == Test("activated", "keyboard")
KeyboardTest == Test("enabled", "port92")
LastTest == Test("lasttest", "halted")

\* int 15h/2403, 2402 and 2401: one of them is refused, or the gate is said to
\* be open, which need not be so.
A20Bios ==
    /\ ip = "bios"
    /\ \/ ip' = "keyboard" /\ gate' = gate
       \/ ip' = "activated" /\ gate' \in {gate, TRUE}
    /\ UNCHANGED <<probe, kbc, kbd, early, mapVars, load, kernel, pageTables>>

\* Fast A20, on machines that have it; the reset bit is kept clear.
A20Port92 ==
    /\ ip = "port92"
    /\ ip' = "lasttest"
    /\ gate' \in {gate, TRUE}
    /\ UNCHANGED <<probe, kbc, kbd, early, mapVars, load, kernel, pageTables>>

\* Mutant: the wait is for the opposite.
KeyboardWaitBusy == kbc.input # "none"

\* KeyboardWaitInput, called before every step and before the return: the
\* controller has taken the byte written last.
KeyboardWaitInput == kbc.input = "none"

\* The steps of A20KeyboardEnable between those calls.
SendCommand(step, command) ==
    /\ kbd.step = step
    /\ kbc' = [kbc EXCEPT !.input = command]
    /\ kbd' = [kbd EXCEPT !.step = step + 1]
    /\ UNCHANGED <<early, ip>>

\* The byte at port 0x60, whether the controller has put its answer there yet
\* or not.
ReadOutput ==
    /\ kbd.step = 3
    /\ kbd' = [step |-> 4, al |-> kbc.out]
    /\ early' = kbc.owes
    /\ UNCHANGED <<kbc, ip>>

SendOutput ==
    /\ kbd.step = 5
    /\ kbc' = [kbc EXCEPT !.input = "data", !.data = [kbd.al EXCEPT !.a20 = TRUE]]
    /\ kbd' = [kbd EXCEPT !.step = 6]
    /\ UNCHANGED <<early, ip>>

ReturnEnabled ==
    /\ kbd.step = 7
    /\ ip' = "enabled"
    /\ UNCHANGED <<kbc, kbd, early>>

A20KeyboardEnable ==
    /\ ip = "keyboard"
    /\ KeyboardWaitInput
    /\ \/ SendCommand(1, "AD")
       \/ SendCommand(2, "D0")
       \/ ReadOutput
       \/ SendCommand(4, "D1")
       \/ SendOutput
       \/ SendCommand(6, "AE")
       \/ ReturnEnabled
    /\ UNCHANGED <<gate, probe, mapVars, load, kernel, pageTables>>

\* The controller takes what was written to it.  0xD1 makes the next data byte
\* the output port's, which need not be wired to the gate.
ControllerTakes ==
    /\ kbc.input # "none"
    /\ ip # "reset"
    /\ LET driven == kbc.input = "data" /\ kbc.expects
       IN  /\ kbc' = [kbc EXCEPT !.input = "none",
                                 !.owes = @ \/ kbc.input = "D0",
                                 !.expects = kbc.input = "D1"]
           /\ gate' \in IF driven THEN {gate, kbc.data.a20} ELSE {gate}
           /\ ip' = IF driven /\ ~kbc.data.run THEN "reset" ELSE ip
    /\ UNCHANGED <<probe, kbd, early, mapVars, load, kernel, pageTables>>

\* Some time after 0xD0 it puts its output port where the processor reads.
ControllerAnswers ==
    /\ kbc.owes
    /\ ip # "reset"
    /\ kbc' = [kbc EXCEPT !.owes = FALSE, !.out = [run |-> TRUE, a20 |-> gate]]
    /\ UNCHANGED <<ip, gate, probe, kbd, early, mapVars, load, kernel, pageTables>>
-----------------------------------------------------------------------------
(* The memory map *)

Kept(r) == r.valid /\ ~r.empty

\* The BIOS writes a range at di and says whether it is the last.  di moves on
\* over a range that is kept, up to any address; the map's end is only looked
\* at after one that is not.
StoreRange(r, last) ==
    /\ map' = Append(SubSeq(map, 1, stored), r)
    /\ reported' = Append(reported, r)
    /\ stored' = IF Kept(r) /\ ~last THEN stored + 1 ELSE stored
    /\ count' = IF last THEN stored + 1 ELSE count
    /\ ip' = IF stored + 1 > Slots + Spare THEN "wild"
             ELSE IF last THEN "check"
             ELSE IF Kept(r) \/ stored <= Slots THEN "query"
             ELSE "halted"

QuerySystemAddressMap ==
    /\ ip = "query"
    /\ \/ ip' = "halted" /\ UNCHANGED mapVars
       \/ \E r \in Reports, last \in BOOLEAN :
              /\ last \/ Len(reported) + 1 < MaxReports
              /\ StoreRange(r, last)
    /\ UNCHANGED <<a20Vars, load, kernel, pageTables>>

\* Some free range in the map ends high enough.
CheckMemoryEnough ==
    /\ ip = "check"
    /\ ip' = IF \E i \in 1 .. count : map[i].free /\ map[i].big
             THEN "load" ELSE "halted"
    /\ load' = [todo |-> KernelSectors, lba |-> FirstLba, dest |-> 0, carry |-> 0]
    /\ UNCHANGED <<a20Vars, mapVars, kernel, pageTables>>
-----------------------------------------------------------------------------
(* The kernel *)

\* What the copy loop finds at the buffer: the sectors just read, unless a copy
\* of 64 KB has moved esi past them for good.
Buffered(n) ==
    [i \in 0 .. n - 1 |->
        IF load.carry = 0 THEN [kind |-> "sector", lba |-> load.lba + i] ELSE Junk]

\* Mutant: the next read starts where a full buffer would have ended.
CopyToFull(n) ==
    LET end == load.dest + n
        whole == IF BufferSectors <= load.todo THEN BufferSectors ELSE load.todo
        copied == Buffered(n)
    IN  /\ kernel' = [i \in DOMAIN kernel \cup (load.dest .. end - 1) |->
                         IF i >= load.dest THEN copied[i - load.dest] ELSE kernel[i]]
        /\ load' = [load EXCEPT !.todo = @ - n, !.lba = @ + whole, !.dest = end]

\* The copy of n sectors to edi; with no sector read the loop counter starts at
\* zero and the loop copies 64 KB.
CopySectors(n) ==
    LET copied == IF n = 0 THEN [i \in 0 .. LoopSectors - 1 |-> Junk] ELSE Buffered(n)
        end == load.dest + (IF n = 0 THEN LoopSectors ELSE n)
    IN  /\ kernel' = IF gate
                     THEN [i \in DOMAIN kernel \cup (load.dest .. end - 1) |->
                              IF i >= load.dest THEN copied[i - load.dest] ELSE kernel[i]]
                     ELSE kernel
        /\ load' = [todo |-> load.todo - n, lba |-> load.lba + n, dest |-> end,
                    carry |-> load.carry + (IF n = 0 THEN 1 ELSE 0)]

\* One turn of LoadKenerl's loop: the BIOS refuses, or reads as many of the
\* sectors asked for as it likes.
LoadKenerl ==
    /\ ip = "load"
    /\ \/ ip' = "halted" /\ UNCHANGED <<load, kernel>>
       \/ \E n \in 0 .. BufferSectors :
              /\ n <= load.todo
              /\ n = 0 => load.carry < MaxEmpty
              /\ CopySectors(n)
              /\ ip' = IF load'.todo = 0 THEN "protected" ELSE "load"
    /\ UNCHANGED <<a20Vars, mapVars, pageTables>>
-----------------------------------------------------------------------------
(* Protected and long mode *)

CheckLongModeSupport ==
    /\ ip = "protected"
    /\ ip' \in {"maketables", "halted"}
    /\ UNCHANGED <<a20Vars, mapVars, load, kernel, pageTables>>

\* memset clears the three pages; both halves of the address space then lead
\* through one directory pointer to 2 MB pages.
MakePageTable ==
    /\ ip = "maketables"
    /\ ip' = "switch"
    /\ pageTables' = [e \in DOMAIN pageTables |->
          CASE e \in {0, PageEntries \div 2} -> Table(1)
            [] e = PageEntries -> Table(2)
            [] e >= 2 * PageEntries -> Page(e - 2 * PageEntries)
            [] OTHER -> Absent]
    /\ UNCHANGED <<a20Vars, mapVars, load, kernel>>

\* cr3 is loaded, paging and long mode are switched on, and the kernel's image is
\* jumped to at its address in the upper half.
SwitchToLongMode ==
    /\ ip = "switch"
    /\ ip' = "kernel"
    /\ UNCHANGED <<a20Vars, mapVars, load, kernel, pageTables>>

Processor ==
    \/ DiskLoad
    \/ FirstTest \/ A20Bios \/ ActivatedTest
    \/ A20KeyboardEnable \/ KeyboardTest
    \/ A20Port92 \/ LastTest
    \/ QuerySystemAddressMap \/ CheckMemoryEnough
    \/ LoadKenerl
    \/ CheckLongModeSupport \/ MakePageTable \/ SwitchToLongMode

KeyboardController == ControllerTakes \/ ControllerAnswers

BootNext == Processor \/ KeyboardController

BootSpec == BootInit /\ [][BootNext]_bootVars
-----------------------------------------------------------------------------
(* What the boot loader promises *)

\* The page an address of the given table indices is mapped to.
Walk(top, middle, low) ==
    LET Step(entry, index) ==
            IF entry.kind = "table" THEN pageTables[entry.at + index] ELSE Absent
    IN  Step(Step(pageTables[top], middle), low)

KernelInMemory ==
    /\ load.dest = KernelSectors
    /\ DOMAIN kernel = 0 .. KernelSectors - 1
    /\ \A i \in DOMAIN kernel : kernel[i] = [kind |-> "sector", lba |-> FirstLba + i]

BothHalvesMapped ==
    \A top, middle, low \in 0 .. PageEntries - 1 :
        Walk(top, middle, low) = IF top \in {0, PageEntries \div 2} /\ middle = 0
                                 THEN Page(low) ELSE Absent

\* The kernel is entered (stage2.s:714) only with all of its image at 1 MB,
\* every sector in its place however the BIOS cut the reads up, the A20 gate
\* open, and the first gigabyte mapped low and in the upper half and nothing
\* else: unless a read succeeded and returned nothing.
KernelEntered ==
    ip = "kernel" => /\ gate
                     /\ BothHalvesMapped
                     /\ load.carry = 0 => KernelInMemory

\* The map m is the ranges of the reports in S, in their order and nothing else.
MapIs(m, S) ==
    /\ Len(m) = Cardinality(S)
    /\ \A j \in S : m[Cardinality({k \in S : k <= j})] = reported[j]

KeptReports == {j \in DOMAIN reported : Kept(reported[j])}

\* The map handed over and its count (stage2.s:110-156, 540-544) hold every
\* range worth keeping, in the order of the BIOS and once, wherever others come
\* between them; but when the last range of all is one to be ignored it is
\* handed over too.
MapFaithful ==
    ip \in {"check", "load", "protected", "maketables", "switch", "kernel"} =>
        MapIs(map, KeptReports \union {Len(reported)}) /\ count = Len(map)

\* A20KeyboardEnable resets the processor (it writes back the output port,
\* stage2.s:357-367) only if it read port 0x60 before the controller's answer
\* was there: the answer itself has the reset bit set.  That can happen, because
\* the wait "until the controller's value is recorded" (stage2.s:355) is one for
\* the input buffer.
ResetOnlyIfEarly == ip = "reset" => early

\* What stage 2 leaves to the kernel (stage2.s:110-714): all of it, or a
\* processor that is reset for the one reason there is.
HandedOver == KernelEntered /\ MapFaithful /\ ResetOnlyIfEarly

-----------------------------------------------------------------------------
(***************************************************************************)
(* The inductive invariant behind HandedOver.                              *)
(***************************************************************************)
BeforeMap ==
    {"stage1", "entry", "bios", "activated", "keyboard", "enabled", "port92", "lasttest"}
Copied == {"protected", "maketables", "switch", "kernel"}

BootTypeOK ==
    /\ gate \in BOOLEAN /\ DOMAIN probe = {"low", "high"}
    /\ kbc \in [input : {"none", "data", "AD", "D0", "D1", "AE"}, data : PortByte,
                expects : BOOLEAN, owes : BOOLEAN, out : PortByte]
    /\ kbd \in [step : 1 .. 7, al : PortByte] /\ early \in BOOLEAN
    /\ map \in Seq(Reports) /\ reported \in Seq(Reports) /\ stored \in Nat /\ count \in Nat
    /\ load \in [todo : Nat, lba : Nat, dest : Nat, carry : Nat]
    /\ DOMAIN pageTables = 0 .. 3 * PageEntries - 1

\* What is written to the output port opens the gate, and resets the processor
\* only when it was read early.
GateInv ==
    /\ kbc.data.a20
    /\ ip \in {"query", "check", "load"} \union Copied => gate
    /\ kbd.step = 3 => kbc.input = "D0" \/ kbc.owes \/ kbc.out.run
    /\ kbd.step > 3 => early \/ kbd.al.run
    /\ kbd.step < 6 => kbc.data.run
    /\ early \/ kbc.data.run
    /\ ResetOnlyIfEarly

\* The map so far: a range that was not kept may lie behind it.
MapInv ==
    /\ ip \in BeforeMap => map = <<>> /\ stored = 0 /\ reported = <<>>
    /\ ip = "query" => stored <= Len(map) /\ MapIs(SubSeq(map, 1, stored), KeptReports)
    /\ MapFaithful

\* What has been copied, unless a read returned nothing.
KernelInv ==
    /\ ip \in BeforeMap \union {"query", "check"} => kernel = <<>>
    /\ ip \in {"load"} \union Copied /\ load.carry = 0 =>
          /\ load.dest + load.todo = KernelSectors /\ load.lba = FirstLba + load.dest
          /\ DOMAIN kernel = 0 .. load.dest - 1
          /\ \A i \in DOMAIN kernel : kernel[i] = [kind |-> "sector", lba |-> FirstLba + i]
    /\ ip \in Copied => load.todo = 0
    /\ ip \in {"switch", "kernel"} => BothHalvesMapped

BootInv == BootTypeOK /\ GateInv /\ MapInv /\ KernelInv
=============================================================================

----------------------------- MODULE Interrupts ------------------------------
(***************************************************************************)
(* How a request for an interrupt becomes a call of a top half and how the *)
(* processor gets out of it again: main's order of bringing up the two     *)
(* 8259 controllers and the PIT (kernel/src/main.cpp, pic8259.cpp,         *)
(* pit.cpp), the dispatch to the handlers (arch/interrupt.cpp) and the     *)
(* locks that clear the interrupt flag (util/interrupt_lock.h).  What the  *)
(* top halves do is in Scheduler and Keyboard; the task here stands for    *)
(* whichever task runs, and every task comes back with its own locks.      *)
(*                                                                         *)
(* External: the controllers, which are programmed byte by byte, the       *)
(* counter of the PIT and the devices behind the lines.                    *)
(***************************************************************************)
EXTENDS DescriptorTables, Sequences, FiniteSetsExt

CONSTANTS
    Lines,      \* the lines on which devices ask for interrupts
    Depth,      \* bound on the locks a task takes inside each other
    Frequency,  \* PIT::frequency
    Wrap,       \* 2^16, where the counter of the PIT comes round
    ChunkMs,    \* the 0x20 of waitMs
    Gap,        \* bound on the pulses between two looks at the counter
    MaxMs       \* bound on the waits asked for

msToCount(x) == (Frequency * x) \div 1000

\* 0x20 ms and a look at the counter fit into its range.
ASSUME InterruptsAssumption ==
    /\ Lines \subseteq (0 .. 15) \ {2}
    /\ {Depth, Frequency, Wrap, ChunkMs, Gap, MaxMs} \subseteq Nat \ {0}
    /\ msToCount(ChunkMs) + Gap <= Wrap

VARIABLES
    pic,        \* the controllers
    flag,       \* the interrupt flag
    tables,     \* the GDT, the TSS, and what was in the bits nobody writes
    pc,         \* where main is, "code" once a task runs, "panic"
    irq,        \* the interrupt that is being handled, or None
    todo,       \* bytes PIC8259 has still to write
    piclock,    \* its static lock: the flag that was found
    locks,      \* the same of the local locks of the task, the last first
    actions,    \* irq_desc
    wait,       \* of waitMs: loops to come, and of the one that runs the
                \* count and the last value read
    counter,    \* counter 0 of the PIT and the pulses since the last look
    gone        \* history: pulses since the first look of this loop, and in all

control == <<pic, todo, piclock>>
timing  == <<wait, counter, gone>>
vars    == <<control, tables, flag, pc, irq, locks, actions, timing>>

-----------------------------------------------------------------------------
(* The controllers. *)

irq_start == 32

\* What a byte does to a controller.  The command port takes the start of the
\* sequence of four ("start") and the end of what is in service ("EOI"), the
\* data port the other three and then masks.
Written(c, port, byte) ==
    CASE port = "start" -> [c EXCEPT !.expects = "icw2", !.imr = {}, !.irr = {}, !.isr = {}]
      [] port = "EOI"   -> [c EXCEPT !.isr = IF @ = {} THEN {} ELSE @ \ {Min(@)}]
      [] port = "data" /\ c.expects = "icw2" -> [c EXCEPT !.base = byte, !.expects = "icw3"]
      [] port = "data" /\ c.expects = "icw3" -> [c EXCEPT !.cascade = byte, !.expects = "icw4"]
      [] port = "data" /\ c.expects = "icw4" -> [c EXCEPT !.expects = "mask"]
      [] port = "data" /\ c.expects = "mask" -> [c EXCEPT !.imr = byte]

\* The requests a controller lets through: not masked, and more urgent than
\* all it has in service.
Through(c, requests) == {l \in requests \ c.imr : \A s \in c.isr : l < s}

FromSlave == Through(pic.slave, pic.slave.irr)
Cascaded == pic.master.cascade = 4 /\ pic.slave.cascade = 2
FromMaster ==
    Through(pic.master, pic.master.irr \union (IF Cascaded /\ FromSlave # {} THEN {2} ELSE {}))

Requested(c, l) == [c EXCEPT !.irr = @ \union {l}]
Acknowledged(c, l) == [c EXCEPT !.irr = @ \ {l}, !.isr = @ \union {l}]

Request(l) ==
    /\ pic' = IF l < 8 THEN [pic EXCEPT !.master = Requested(@, l)]
              ELSE [pic EXCEPT !.slave = Requested(@, l - 8)]
    /\ UNCHANGED <<tables, todo, piclock, flag, pc, irq, locks, actions, timing>>

-----------------------------------------------------------------------------
(* PIC8259.  Each function holds the static lock while it writes. *)

ICW1 == 17       \* ICW1_INIT | ICW1_ICW4
ICW4_8086 == 1

\* Mutant: the second and the third byte for the master are exchanged.
InitializeSwapped(start) ==
    <<<<"master", "start", ICW1>>, <<"master", "data", 4>>,
      <<"master", "data", start>>, <<"master", "data", ICW4_8086>>,
      <<"slave", "start", ICW1>>, <<"slave", "data", start + 8>>,
      <<"slave", "data", 2>>, <<"slave", "data", ICW4_8086>>>>

initialize(start) ==
    <<<<"master", "start", ICW1>>, <<"master", "data", start>>,
      <<"master", "data", 4>>, <<"master", "data", ICW4_8086>>,
      <<"slave", "start", ICW1>>, <<"slave", "data", start + 8>>,
      <<"slave", "data", 2>>, <<"slave", "data", ICW4_8086>>>>

\* A mask is the set of the bits that are one.
maskInterrupt(mask) ==
    <<<<"master", "data", {l \in mask : l < 8}>>,
      <<"slave", "data", {l - 8 : l \in {m \in mask : m >= 8}}>>>>

sendEOI(line) ==
    <<<<"master", "EOI", 32>>>>
    \o (IF 8 <= line THEN <<<<"slave", "EOI", 32>>>> ELSE <<>>)

PicLock == piclock' = flag /\ flag' = FALSE
PicUnlock == todo = <<>> /\ flag' = (flag \/ piclock)

PicWrite ==
    /\ todo # <<>>
    /\ LET w == Head(todo)
       IN  pic' = IF w[1] = "master" THEN [pic EXCEPT !.master = Written(@, w[2], w[3])]
                  ELSE [pic EXCEPT !.slave = Written(@, w[2], w[3])]
    /\ todo' = Tail(todo)
    /\ UNCHANGED <<tables, piclock, flag, pc, irq, locks, actions, timing>>

-----------------------------------------------------------------------------
(* main, with interrupts off from the boot loader on. *)

Bios(start, line) ==
    [expects |-> "mask", base |-> start, cascade |-> line, imr |-> {}, irr |-> {}, isr |-> {}]
None == [num |-> 0, line |-> 0, at |-> "no", walk |-> <<>>]
NoWait == [ms |-> 0, loops |-> 0, at |-> "no", count |-> 0, last |-> 0]

Init ==
    /\ pic = [master |-> Bios(8, 4), slave |-> Bios(112, 2)]
    /\ tables = [gdt |-> [i \in 0 .. 3 |-> Zero], tss |-> 0, idt |-> 0, left |-> FALSE]
    /\ flag = FALSE /\ pc = "main" /\ irq = None
    /\ todo = <<>> /\ piclock = FALSE /\ locks = <<>>
    /\ actions = [l \in 0 .. 15 |-> <<>>]
    /\ wait = NoWait
    /\ counter = [value |-> 0, since |-> 0]
    /\ gone = [loop |-> 0, all |-> 0]

Boot(from, to) == pc = from /\ pc' = to /\ irq = None

\* init_all: the three tables are cut off one after another, and the bits
\* nobody writes keep what the memory, or the stack, had in them.
\* Without room, assert; with one of the bits set in the entry of the TSS, the
\* processor refuses it.
InitTables ==
    /\ pc = "main"
    /\ LET memory == [addr |-> Buffer, end |-> Buffer + Room, ptr |-> NoPlace]
           gdt == allocate_bytes(memory, GdtSize)
           tss == allocate_bytes(gdt, TssSize)
           idt == allocate_bytes(tss, IdtSize)
       IN  \E task, gate \in BOOLEAN :
             /\ tables' = [gdt |-> Gdt(tss.ptr, task), tss |-> tss.ptr, idt |-> idt.ptr,
                           left |-> gate]
             /\ pc' = IF NoPlace \in {gdt.ptr, tss.ptr, idt.ptr} \/ ~IsTask(tables'.gdt[3])
                      THEN "panic" ELSE "loaded"
    /\ UNCHANGED <<control, flag, irq, locks, actions, timing>>

\* prepareTable finds no table, or memory::init too little memory.
BootFails ==
    /\ Boot("loaded", "panic")
    /\ UNCHANGED <<control, tables, flag, irq, locks, actions, timing>>

\* IRQ_init.
InitializePic ==
    /\ Boot("loaded", "mask")
    /\ PicLock /\ todo' = initialize(irq_start)
    /\ UNCHANGED <<tables, pic, irq, locks, actions, timing>>

UnmaskAll ==
    /\ Boot("mask", "unmasked")
    /\ todo = <<>> /\ todo' = maskInterrupt({})
    /\ piclock' = (flag \/ piclock) /\ flag' = FALSE
    /\ UNCHANGED <<tables, pic, irq, locks, actions, timing>>

Unmasked ==
    /\ Boot("unmasked", "pit")
    /\ PicUnlock
    /\ UNCHANGED <<control, tables, irq, locks, actions, timing>>

\* PIT::initialize: counter 0 begins anew; 0 stands for 2^16.
initializeCounter(count) == counter' = [value |-> count % Wrap, since |-> 0]

register_handler(l, handler) == actions' = [actions EXCEPT ![l] = <<handler>> \o @]

\* PIT::init_for_sched: the counter becomes the one of the timer interrupt.
InitTimer ==
    /\ Boot("pit", "start") /\ wait.at = "no"
    /\ initializeCounter(msToCount(1))
    /\ register_handler(0, "timer")
    /\ UNCHANGED <<control, tables, flag, irq, locks, wait, gone>>

\* The context of the first task has the flag set.
StartScheduling ==
    /\ Boot("start", "code")
    /\ flag' = TRUE
    /\ UNCHANGED <<control, tables, irq, locks, actions, timing>>

-----------------------------------------------------------------------------
(* waitMs, which may only be used before the PIT is the scheduler's.  It   *)
(* waits in loops of up to 0x20 ms.                                        *)

waitMs(ms) ==
    /\ pc = "pit" /\ wait.at = "no" /\ gone.all = 0
    /\ wait' = [NoWait EXCEPT !.ms = ms, !.loops = ms \div ChunkMs, !.at = "next"]
    /\ UNCHANGED <<control, tables, flag, pc, irq, locks, actions, counter, gone>>

\* waitUsingDirectPIT.  The last loop is for the rest.
BeginLoop ==
    /\ wait.at = "next"
    /\ wait' = [wait EXCEPT !.at = "first",
                   !.count = msToCount(IF wait.loops > 0 THEN ChunkMs ELSE wait.ms % ChunkMs)]
    /\ initializeCounter(0)
    /\ gone' = [gone EXCEPT !.loop = 0]
    /\ UNCHANGED <<control, tables, flag, pc, irq, locks, actions>>

Pulse ==
    /\ wait.at \in {"first", "look"} /\ counter.since < Gap
    /\ counter' = [value |-> (counter.value + Wrap - 1) % Wrap, since |-> counter.since + 1]
    /\ gone' = IF wait.at = "first" THEN gone
               ELSE [loop |-> gone.loop + 1, all |-> gone.all + 1]
    /\ UNCHANGED <<control, tables, flag, pc, irq, locks, actions, wait>>

\* ReadCounter0 latches both bytes at once.
FirstLook ==
    /\ wait.at = "first"
    /\ wait' = [wait EXCEPT !.at = "look", !.last = counter.value]
    /\ counter' = [counter EXCEPT !.since = 0]
    /\ UNCHANGED <<control, tables, flag, pc, irq, locks, actions, gone>>

\* Mutant: the difference is not taken modulo 2^16.
ElapsedUnmasked == IF counter.value > wait.last THEN 0 ELSE wait.last - counter.value

Elapsed == ((wait.last + Wrap) - counter.value) % Wrap

Look ==
    /\ wait.at = "look"
    /\ counter' = [counter EXCEPT !.since = 0]
    /\ wait' = IF Elapsed < wait.count THEN wait
               ELSE IF wait.loops > 0 THEN [wait EXCEPT !.loops = @ - 1, !.at = "next"]
               ELSE [wait EXCEPT !.at = "no"]
    /\ UNCHANGED <<control, tables, flag, pc, irq, locks, actions, gone>>

-----------------------------------------------------------------------------
(* A task. *)

Runs == pc \in {"code", "noted"} /\ irq = None

\* Keyboard::initialize, when activate has let interrupts in again.
RegisterKeyboard ==
    /\ Runs /\ pc = "code" /\ locks = <<>> /\ actions[1] = <<>>
    /\ register_handler(1, "keyboard")
    /\ UNCHANGED <<control, tables, flag, pc, irq, locks, timing>>

\* Mutant: the tasks take the lock of PIC8259.
NoteStatic ==
    /\ Runs /\ pc = "code" /\ Len(locks) < Depth
    /\ locks' = <<FALSE>> \o locks /\ piclock' = flag
    /\ pc' = "noted"
    /\ UNCHANGED <<tables, pic, todo, flag, irq, actions, timing>>

\* interrupt_lock::lock notes the flag ...
Note ==
    /\ Runs /\ pc = "code" /\ Len(locks) < Depth
    /\ locks' = <<flag>> \o locks
    /\ pc' = "noted"
    /\ UNCHANGED <<control, tables, flag, irq, actions, timing>>

\* ... and clears it.
Clear ==
    /\ Runs /\ pc = "noted"
    /\ flag' = FALSE /\ pc' = "code"
    /\ UNCHANGED <<control, tables, irq, locks, actions, timing>>

Unlock ==
    /\ Runs /\ pc = "code" /\ locks # <<>>
    /\ flag' = (flag \/ Head(locks)) /\ locks' = Tail(locks)
    /\ UNCHANGED <<control, tables, pc, irq, actions, timing>>

-----------------------------------------------------------------------------
(* The interrupt. *)

\* The processor takes the most urgent request; the gate clears the flag.
Accept ==
    /\ flag /\ irq = None /\ FromMaster # {}
    /\ LET m == Min(FromMaster)
           s == Min(FromSlave)
       IN  IF m = 2
           THEN /\ pic' = [pic EXCEPT !.master = Acknowledged(@, 2), !.slave = Acknowledged(@, s)]
                /\ irq' = [None EXCEPT !.num = pic.slave.base + s, !.line = 8 + s, !.at = "enter"]
           ELSE /\ pic' = [pic EXCEPT !.master = Acknowledged(@, m)]
                /\ irq' = [None EXCEPT !.num = pic.master.base + m, !.line = m, !.at = "enter"]
    /\ flag' = FALSE
    /\ UNCHANGED <<tables, todo, piclock, pc, locks, actions, timing>>

\* A request that vanished too early: the last vector, and nothing in service.
AcceptSpurious ==
    /\ flag /\ irq = None
    /\ irq' = [None EXCEPT !.num = pic.master.base + 7, !.line = 7, !.at = "enter"]
    /\ flag' = FALSE
    /\ UNCHANGED <<control, tables, pc, locks, actions, timing>>

\* The gate of a vector leads to the stub of that vector.
Leads(v) ==
    LET g == Gate(v, tables.left) IN Usable(g, tables.gdt) /\ Offset(g) = Handler[v]

\* ISR.nasm: two vectors have a function of their own.
Enter ==
    /\ irq.at = "enter" /\ irq.num \in {32, 33} /\ Leads(irq.num)
    /\ irq' = [irq EXCEPT !.at = "walk", !.walk = actions[irq.num - irq_start]]
    /\ UNCHANGED <<control, tables, flag, pc, locks, actions, timing>>

\* All others are those of ISRCommon, which does not come back; nor does the
\* processor from a gate it cannot use.
Panic ==
    /\ irq.at = "enter" /\ (irq.num \notin {32, 33} \/ ~Leads(irq.num))
    /\ irq' = [irq EXCEPT !.at = "panic"] /\ pc' = "panic"
    /\ UNCHANGED <<control, tables, flag, locks, actions, timing>>

\* The handlers are asked one after another until one says Success.
TopHalf ==
    /\ irq.at = "walk" /\ irq.walk # <<>>
    /\ irq' \in {[irq EXCEPT !.walk = <<>>]}
                \union (IF Head(irq.walk) = "timer" THEN {}
                        ELSE {[irq EXCEPT !.walk = Tail(@)]})
    /\ UNCHANGED <<control, tables, flag, pc, locks, actions, timing>>

End ==
    /\ irq.at = "walk" /\ irq.walk = <<>>
    /\ PicLock /\ todo' = sendEOI(irq.num - irq_start)
    /\ irq' = [irq EXCEPT !.at = "end"]
    /\ UNCHANGED <<tables, pic, pc, locks, actions, timing>>

\* unlock, and iretq with the flag of the interrupted code.
Return ==
    /\ irq.at = "end" /\ PicUnlock
    /\ irq' = [irq EXCEPT !.at = "iretq"]
    /\ UNCHANGED <<control, tables, pc, locks, actions, timing>>

Iretq ==
    /\ irq.at = "iretq"
    /\ irq' = None /\ flag' = TRUE
    /\ UNCHANGED <<control, tables, pc, locks, actions, timing>>

-----------------------------------------------------------------------------
Booting == InitTables \/ InitializePic \/ UnmaskAll \/ Unmasked \/ InitTimer \/ StartScheduling
Waiting == BeginLoop \/ FirstLook \/ Look
Handling == Enter \/ TopHalf \/ End \/ Return \/ Iretq
Device == (\E l \in Lines : Request(l)) \/ Pulse

Next ==
    \/ Booting \/ BootFails
    \/ (\E ms \in 1 .. MaxMs : waitMs(ms)) \/ Waiting
    \/ PicWrite
    \/ RegisterKeyboard \/ Note \/ Clear \/ Unlock
    \/ Accept \/ AcceptSpurious \/ Panic \/ Handling
    \/ Device

Spec == Init /\ [][Next]_vars

-----------------------------------------------------------------------------
\* mminit.cpp: what the processor reads in the tables is what init_all meant:
\* the tables lie apart in their memory, the TSS is where its descriptor says,
\* and whole, and every gate leads to its own handler on the stack for
\* interrupts, unless the bit nobody writes makes it unusable.
TablesRead ==
    pc = "loaded" =>
        /\ Buffer + GdtSize <= tables.tss /\ tables.tss + TssSize <= tables.idt
        /\ tables.idt + IdtSize <= Buffer + Room
        /\ Base(tables.gdt[3]) = tables.tss /\ Limit(tables.gdt[3]) >= TssSize - 1
        /\ \A v \in Vectors :
              (Leads(v) \/ tables.left) /\ StackOf(Gate(v, tables.left), Tss) = IST_END

\* interrupt.cpp:37, 58: the function that runs is the one for the line whose
\* request was taken, and the line it ends is that one too.
RightVector == irq.at # "no" => irq.num - irq_start = irq.line

\* interrupt.cpp, ISR.nasm: outside the handlers neither controller has
\* anything in service, or no request below it would get through again.
NoneLeftInService ==
    irq = None => pic.master.isr = {} /\ pic.slave.isr = {}

\* From the request to the end of it an interrupt stays that of its line
\* (pic8259.cpp:29-66, interrupt.cpp:30-58).
LineServed == RightVector /\ NoneLeftInService

\* interrupt_lock.h: a lock gives back the flag it found, however locks nest
\* and wherever an interrupt comes: a task outside its locks can be
\* interrupted, and one inside cannot.
FlagFollowsLocks ==
    pc = "code" /\ irq = None => (flag <=> locks = <<>>)

\* pit.cpp:60: a loop waits as long as it was asked to, and no longer than
\* one look more, although the counter comes round in between.
WaitsExactly ==
    /\ wait.at \in {"first", "look"} => gone.loop <= wait.count + Gap
    /\ wait.at = "no" /\ wait.ms > 0 =>
           gone.all \in msToCount(wait.ms) - (wait.ms \div ChunkMs)
                        .. msToCount(wait.ms) + ((wait.ms \div ChunkMs) + 1) * Gap

\* scheduler.h:51: a request of the timer is served once tasks run, unless an
\* interrupt without a handler stops the kernel first.
TimerServed ==
    [](pc \in {"code", "noted"} /\ 0 \in pic.master.irr
         => <>(pc = "panic" \/ 0 \notin pic.master.irr))
-----------------------------------------------------------------------------
(***************************************************************************)
(* The inductive invariant behind LineServed and FlagFollowsLocks.         *)
(***************************************************************************)

Controller == [expects : {"icw2", "icw3", "icw4", "mask"}, base : Int, cascade : Int,
               imr : SUBSET Int, irr : SUBSET (0 .. 7), isr : SUBSET (0 .. 7)]

Writes == {"master", "slave"} \X {"start", "data"} \X Int

BootPlaces == {"main", "loaded", "mask", "unmasked", "pit", "start"}
TaskPlaces == {"code", "noted"}

InterruptsTypeOK ==
    /\ pic \in [master : Controller, slave : Controller] /\ 2 \notin pic.master.irr
    /\ flag \in BOOLEAN /\ piclock \in BOOLEAN /\ locks \in Seq(BOOLEAN)
    /\ pc \in BootPlaces \union TaskPlaces \union {"panic"}
    /\ irq \in [num : Int, line : Int,
                at : {"no", "enter", "walk", "end", "iretq", "panic"},
                walk : Seq({"timer", "keyboard"})]
    /\ (irq.at = "no") <=> (irq = None)
    /\ actions \in [0 .. 15 -> Seq({"timer", "keyboard"})]

\* The handler runs on a task that can be interrupted, or for ever.
Where ==
    /\ irq # None => pc \in TaskPlaces \union {"panic"} /\ (pc = "panic" <=> irq.at = "panic")
    /\ pc \notin TaskPlaces /\ irq = None => ~flag

\* Only the outermost lock found the flag set.
LockInv ==
    /\ pc \in BootPlaces => ~piclock /\ locks = <<>>
    /\ pc = "noted" => locks # <<>>
    /\ \A i \in DOMAIN locks : locks[i] <=> i = Len(locks)
    /\ pc \in TaskPlaces =>
          /\ irq = None => (flag <=> IF pc = "noted" THEN Len(locks) = 1 ELSE locks = <<>>)
          /\ irq # None => IF pc = "noted" THEN Len(locks) = 1 ELSE locks = <<>>
    /\ irq # None => ~flag
    /\ irq.at = "end" => ~piclock

\* How far the controllers are when k of the eight bytes are written.
Stage == <<"icw2", "icw3", "icw4", "mask">>

Programmed(k) ==
    /\ k \in 1 .. 3 => pic.master.expects = Stage[k]
    /\ k \in 4 .. 8 => pic.master.expects = "mask"
    /\ k \in 2 .. 8 => pic.master.base = irq_start
    /\ k \in 5 .. 8 => pic.slave.expects = Stage[k - 4]
    /\ k \in 6 .. 8 => pic.slave.base = irq_start + 8

EndsLine == <<<<"master", "EOI", 32>>>>

TodoInv ==
    /\ pc = "mask" => \E k \in 0 .. 8 :
          /\ todo \in Seq(Writes) /\ Len(todo) = 8 - k
          /\ \A j \in 1 .. 8 - k : todo[j] = initialize(irq_start)[k + j]
          /\ Programmed(k)
    /\ pc = "unmasked" =>
          todo \in {maskInterrupt({}), <<<<"slave", "data", {}>>>>, <<>>}
    /\ pc \in {"unmasked", "pit", "start", "code", "noted"} => Programmed(8)
    /\ pc \notin {"mask", "unmasked"} /\ irq.at # "end" => todo = <<>>
    /\ irq.at = "end" => todo \in {EndsLine, <<>>}

\* What is in service is the line that is handled, until its end is written.
ServiceInv ==
    /\ irq = None \/ irq.at = "iretq" \/ (irq.at = "end" /\ todo = <<>>) =>
          pic.master.isr = {} /\ pic.slave.isr = {}
    /\ irq.at \in {"walk", "end"} => irq.line \in {0, 1}
    /\ \/ irq.at = "enter" /\ irq.line \in {0, 1}
       \/ irq.at = "walk"
       \/ irq.at = "end" /\ todo # <<>>
       => pic.master.isr = {irq.line} /\ pic.slave.isr = {}
    /\ irq # None => irq.num - irq_start = irq.line

InterruptsInv == InterruptsTypeOK /\ Where /\ LockInv /\ TodoInv /\ ServiceInv

-----------------------------------------------------------------------------
(***************************************************************************)
(* The inductive invariant behind WaitsExactly.                            *)
(***************************************************************************)

WaitTypeOK ==
    /\ wait \in [ms : Nat, loops : Nat, at : {"no", "next", "first", "look"},
                 count : Nat, last : 0 .. Wrap - 1]
    /\ counter \in [value : 0 .. Wrap - 1, since : 0 .. Gap]
    /\ gone \in [loop : Nat, all : Nat]

\* A loop is for a whole chunk, or for the rest.
CountInv ==
    wait.at \in {"first", "look"} =>
        wait.count = msToCount(IF wait.loops > 0 THEN ChunkMs ELSE wait.ms % ChunkMs)

\* The counter is as many pulses below the first value read as have gone, and
\* the loop was not over at the last look.
LookInv ==
    /\ wait.at = "first" => gone.loop = 0
    /\ wait.at = "look" =>
          /\ gone.loop >= counter.since
          /\ gone.loop - counter.since < wait.count \/ gone.loop = counter.since
          /\ counter.value = (wait.last + Wrap - gone.loop) % Wrap

\* The loops that are over took what they were asked to, or a look more.
LoopsOver == (wait.ms \div ChunkMs) - wait.loops

GoneInv ==
    LET before == gone.all - (IF wait.at = "look" THEN gone.loop ELSE 0)
        chunk == msToCount(ChunkMs)
        rest == msToCount(wait.ms % ChunkMs)
        chunks == wait.ms \div ChunkMs
    IN  /\ wait.loops <= chunks
        /\ wait.at # "no" =>
              before \in LoopsOver * chunk .. LoopsOver * (chunk + Gap)
        /\ wait.at = "no" /\ wait.ms > 0 =>
              gone.all \in chunks * chunk + rest .. chunks * (chunk + Gap) + rest + Gap

WaitInv == WaitTypeOK /\ CountInv /\ LookInv /\ GoneInv
=============================================================================

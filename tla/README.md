# TorexOS: specification and verification

TLA+ models of TorexOS, a small x86-64 kernel written in C++ with its own boot
loader (`src/`), with TLC configurations that model-check them and TLAPS proofs
of the properties that matter most. Line numbers below are those of the sources
under `src/`.

## 1. Inventory

TorexOS is loaded by a two-stage boot sector program (`bootsect/`), sets up its
descriptor tables, memory, interrupts and timer in `main` (`kernel/src/main.cpp`)
and then runs two tasks under a round robin scheduler: `main` (`loop`), which
drives the PS/2 keyboard and prints what is typed, and `idle`. There is one
processor, no user mode and no file system.

| Component | State it keeps | Operations | Talks to | What is hard |
|---|---|---|---|---|
| Intrusive list (`lib/include/datastruc/list.h`) | `head`, `tail`, link words in the nodes | push/pop at both ends, `pop_node` | everything below | pointer surgery; a link word survives the removal of its node |
| Buddy allocator (`memory/buddy.*`, `pageframe.*`) | page descriptors, 10 free lists, counters | `alloc_pages`, `free_pages` | `makeBuddy` feeds it, slabs and `kmalloc` use it | two mutually recursive calls, merge across levels, descriptors and lists must agree |
| Slab allocator, `kmalloc` (`memory/slub.*`, `mm.cpp`) | per size: partial and full slab lists; per slab: `in_use`, free list threaded through the objects | `kmalloc`, `kfree`, `new`, `delete` | buddy allocator | same 32 bytes are a free block, then a slab header; lazy retirement of exhausted slabs |
| Memory bring-up (`mm.cpp`, `mminit.cpp`, `memscan.cpp`) | BIOS memory map, page tables, descriptor table | once, at start | boot loader, buddy allocator | holes and alignment in the memory map |
| Scheduler (`process/*scheduler*`) | `task_list`, `cur`, a queue for each task state | `tick`, `yield`, `enqueue`, `dequeue`, `current` | timer interrupt, tasks | `tick` in interrupt context against `yield` in task context |
| Processes, context switch (`process/process.cpp`, `arch/switching.nasm`, `arch/context.h`) | per task: saved registers, state, node | build, switch in interrupt, switch by call | scheduler | two ways to save a context, one to restore it; interrupt flag across a switch |
| Interrupt entry, 8259, lock (`arch/ISR.nasm`, `interrupt.cpp`, `pic8259.cpp`, `interrupt_lock.h`) | interrupt flag, masks, in-service bits, handler lists | programming the controllers, dispatch, end of interrupt, lock/unlock | all drivers | nesting; saved flag in a shared lock; vectors that must fit the controllers |
| Descriptor tables (`arch/mminit.cpp`, `GDT.h`, `IDT.h`, `TSS.h`) | GDT, IDT, TSS in one piece of memory | once, at start | the processor reads them | addresses and limits cut into pieces; bits nobody writes |
| ACPI tables (`acpi/*`) | pointers to the tables found | search, once; one question by the keyboard driver | firmware, boot loader's page tables | layout of packed structures |
| PIT, CMOS (`drivers/timer/*`) | tick count and deadline | topHalf, `expired_after`, busy wait | scheduler | 16 bit counter arithmetic |
| PS/2 keyboard (`drivers/ps2/*`, `CircularQueue.h`, `scancode.*`) | ring of 96 bytes, LEDs, controller registers | `initialize`, `read`, `topHalf` | interrupt entry, main task | one side of the queue does not lock; bounded waits |
| VGA console (`vga/*`) | cursor, screen pointer, cells | put, linefeed, tab, backspace | tasks and handlers print | position kept twice, in different widths |
| Boot loader (`bootsect/*.s`) | real-mode memory, E820 table, A20 | load kernel, enter long mode | BIOS | retries, counts in bytes and in entries |
| Strings, streams, other containers (`lib/`) | buffers | formatting, `memcpy` and its like, a task's name | everything | buffer boundaries, words across alignments, one length that decides where a text is |
| Diagnostics, build files | - | - | - | not state machines |

What makes each component correct, and so what the models state. Where the code falls short the property
says in which states, and the rest of it is what holds; `hazards` in `PROJECT.json` notes which of them a property so
excepts. What disagrees with a comment of the code has a run of its own that shows it (section 4).

* lists: the links spell exactly the members, and every operation leaves them so;
* buddy: no page is in two blocks, lists, descriptors and counters agree at every
  level of the recursions, free buddies are merged, nullptr is the answer only when no block of the order is left. A
  call may not return at all: it can page-fault with blocks free (run `buddy_panic`);
* slabs: no object is handed out twice, a slab is on the list its state says, and a slab
  goes back to the page allocator with its last object, unless it was retired once: then it never does;
* scheduler and contexts: the running task is the current task, a task resumes where it
  stopped with the flags it had, and every ready task gets its turn;
* `kmalloc`: what is handed out has room for what was asked, and `kfree` finds its way back from the pointer;
* interrupts: a request runs the handlers of its own line, its end is sent for that line, and the flag
  comes back as it was found. A line without a function of its own ends in the panic loop;
* descriptor tables: the processor reads back the addresses, limits and stacks that were meant, unless a bit that nobody writes makes an entry unusable;
* timer: a wait takes as long as it was asked to;
* keyboard: scancodes are not reordered, none is lost as long as the ring was never full and but for those a dialogue with the
  keyboard reads, the controller is drained unless an interrupt found no handler or a full ring, and of what the devices answer
  only acknowledgements are typed;
* console: what is written is printed once and in order; cursor and screen pointer agree
  and stay on the screen but after a backspace in the first cell or `vga_clear`, and text is not printed over but after these or a tab over the edge;
* strings: the bytes that were meant are written and no others, and a string has the text it was given but between
  the calls that break it and those that repair it;
* ACPI: the table found is the first of its name, through an RSDT;
* boot loader: the kernel is entered mapped, with the A20 gate open and a faithful memory map (but for a last range that is to be
  ignored), and whole unless a read came back empty; the processor is reset only by a byte that was read too early.

## 2. Plan

Modules are written in this order; a later one builds on the earlier ones.

1. `IntrusiveList`, `Deque`, `ListClient` - the list, what it promises. **Done.**
2. `Buddy`, `BlockAllocator` - the page allocator, what it promises. **Done.**
3. `Slub`, `ObjectPool` - slabs and `kmalloc` on top of the promise of `BlockAllocator`,
   its lists taken from `IntrusiveList`; what they promise. **Done.**
4. `Scheduler`, `RoundRobin` - tasks, state queues, `tick`, `yield`, the interrupt flag,
   saved contexts; what a user of the scheduler sees. **Done**, except `dequeue`, which has no caller.
5. `CircularQueue`, `KeyQueue` - the ring under an interrupting producer. **Done.**
   `Keyboard` - the controller, its activation, the LED commands. **Done.**
6. `MemInit` - from the memory map to the first free blocks and the page tables. **Done.**
7. `OutputStream`, `Console` - the stream's buffer and the text screen. **Done.**
8. `BootLoader` - from the first disk read to the jump into the kernel. **Done.**
9. `DescriptorTables`, `Interrupts` - the tables, the 8259 controllers, the dispatch, the flag and
   its locks, the waits of the PIT. **Done.**
10. `Kmalloc` - size classes, whole pages, `kfree`'s search for the slab. **Done.**
11. `StringUtil`, `ComString` - the string functions and the string of a task's name. **Done.**
12. `AcpiTables` - the search for the firmware's tables. **Done.**

Theorems: the list lemmas and the list client, the inductive invariants of the buddy allocator, the slab allocator,
the scheduler, the keyboard's ring, the keyboard's dialogues, the screen, the stream, `memory::init`, `kmalloc`, the string functions, the strings, the ACPI search, the boot loader and the interrupts are proved, and
the refinements of `Deque`, `BlockAllocator`, `ObjectPool` and `RoundRobin`.

## 3. Modules

### IntrusiveList, ListClient, Deque

`IntrusiveList` translates every operation of `util::list_base` into an operator on a
record of `head`, `tail` and the link words `nxt`, `prv` of all nodes. Link words
outlive membership, as in memory. An operation that dereferences a null neighbour has
a companion `...Faults`: in this kernel such an access raises a page fault, the
common handler calls `panicInException`, and that loops for ever. A state with
a fault (`pc` or, in `ListClient`, `mode`) is therefore final in every model.

`PopBack` reproduces `list.h:213`: after `tail = tail->getPrev()` the code clears the
next link of `head`, not of the new `tail`. So `ListInv`, what is invariantly true of
a list, says that the *prev* links spell the list from its tail, while a next link
is either the inverse of a prev link or null. The class's own `_DebugChecked` (`list.h:146-152`),
which nothing calls, would be false after a `pop_back` on three nodes.

`ListClient` calls the operations in any order their preconditions allow
(`pop_node` only for a member, `list.h:124`). `Deque` is what users expect: a sequence. `Reading`, in `MCListClient`, is
the sequence that the prev links spell.

### Buddy, BlockAllocator

A page descriptor is its index. `flag`, `ord` are `flags()` and `orders()`, `nxt`,
`prv` the links of `FreeBlock`, `head`, `tail`, `count` the allocator's arrays.

| Code | Action |
|---|---|
| `makeBuddy`, one 2 MB block | `Boot`, `BootDone` |
| `alloc_pages` | `Alloc` |
| `allocateWithOrder`, order too large / list empty / list not empty | `ClimbFails` / `ClimbOn` / `Take` |
| `splitBlock` and the return to the calling instance | `Split` |
| `free_pages`, `deallocateBlock` up to `tryMergeAndGet` | `Free` |
| `tryMergeAndGet`, buddy free / not free | `Merge` / `Keep` |

Each level of the two recursions is a step, so the invariants are checked in
the middle of a call too. The owner of a block writes over the descriptor
(a slab keeps its header there): `Free` takes any content for the link words from the
set `Scribble`. `live` is a history variable.

`BlockAllocator` is the user's view: a set of managed pages and the blocks handed out;
a request is granted any aligned block over unused pages and refused only when there is none. A page fault in the middle of a call is an outcome
of its own, `down`, after which nothing happens: `RequestPanics` needs two blocks free that could be given, `FreePanics` two more free blocks of some order
beside the one given back. Both come of the next link that `PopBack` loses: a merge takes the last of three or more blocks off a list (`buddy.cpp:45`), and whoever takes the
front one off next goes through null.

`MCBuddy` adds counting, kfree's search for the head of a block, the refinement, and `RequestsReturn`, which the run `buddy_panic` refutes.

### Slub, ObjectPool

A slab is a block of pages, its header lies over the page descriptor. `flag`, `owner`,
`in_use`, `free`, `nxt`, `prv` are the header's fields, `cell[s][i]` the first word of
object `i`, `head` and `tail` the two lists of each size class. Every size class
cuts exactly 128 objects from a block; the model has `Objects` of them and numbers them.
Blocks come from an allocator that keeps the promise of `BlockAllocator`.

| Code | Action |
|---|---|
| `kmalloc` up to the call of `alloc` | `Kmalloc` |
| `alloc`, front slab has an object (`alloc_in_oneblock`) | `TakeObject` |
| `alloc`, front slab has none | `Retire` |
| `alloc`, no slab on `partial`: pages (`make_slabs`) / no pages | `NewSlab` / `NoPages` |
| `kfree`, `free` (`free_in_oneblock`), slab had no free object | `KfreeExhausted` |
| ..., slab still in use / `in_use` zero | `KfreePartial` / `KfreeLast` |

`alloc` calls itself after `Retire` and `NewSlab`, so each is a step. A slab is retired
lazily: it stays the front of `partial` after its last object was taken until the next
`alloc` finds it so. `free` goes by the slab's free list instead and takes it for retired;
on that way, and only on that way, an access can fault (`OnlyExhaustedFaults`).
Retiring also sets `in_use` to 0xffff, after which the counter never gets back to zero
and the slab is kept for ever (`InUseExact`, a part of `ObjectsAccounted`): the code says nothing to the
contrary, so this is recorded as what it does. `live`, `onfull` and `retired` are history variables.

`ObjectPool` is the user's view: blocks claimed by a size class, objects granted from them,
a request refused only when no block is left and the class has no unused object.

### Scheduler, RoundRobin

The processor runs one context, `cpu`: whose execution it is, where it is, the interrupt
flag, and the locals of `yield` and `switch_to`, which are on the task's own stack and so
are saved and loaded with it. `ctx[t]` is `Task::cpu_context`. Registers are not told apart.
A timer interrupt may come between any two steps of a task whose interrupt flag is on;
while the handler runs, `cpu` is the context in the interrupt frame.

| Code | Action |
|---|---|
| `init_scheduler` (any number of such tasks) | `CreateTask` |
| `change_scheduler`, each round of its loop | `ChangeScheduler`, `Adopt` |
| rest of `start_scheduling` | `StartMain` |
| `yield`: `lock.lock()` reads the flag / clears it | `YieldLock` / `YieldClear` |
| `expired_after`, `next` | `YieldNext` |
| `switch_to`: lock and first `change_state` / second | `SwitchLeave` / `SwitchEnter` |
| `SwitchContext` up to `iretq` | `SwitchContext` |
| `l.unlock()` / `lock.unlock()` of the task switched to | `UnlockInner` / `UnlockOuter` |
| PIT raises its line | `PitTick` |
| timer interrupt taken, `topHalf` counts | `Interrupt` |
| `tick`: `next` / `switch_to_in_irq` first, second part | `TickNext` / `TickLeave`, `TickEnter` |
| `sendEOI`, `iretq` | `EndOfInterrupt` |

A task enters `yield` whenever it likes or never, which covers both tasks the kernel has
(`idle` yields for ever, `main` never does) and any later ones. A task that was never
switched away from starts at its entry with interrupts on; one that yielded comes back
behind `SwitchContext` and undoes its two locks. The list of tasks and the state queues are
`IntrusiveList` values; all queues share the link words of `state_node`.

`dequeue` is not an action: nothing calls it, and a task never ends. `enqueue` is called
only by start-up. States `suspended`, `asleep` and `terminated` are never entered.

`RoundRobin` is the user's view: the tasks form one ring that goes through all of them, and
the processor goes from each task to the next. It does not say who gives the turn away.

### CircularQueue, KeyQueue

`CircularQueue` is the ring as operators on a record. `KeyQueue` puts its two users
together: the interrupt handler, which runs as one step, and the main task, which the
handler may interrupt between any two of its accesses to the ring, since `read` takes no lock.

| Code | Action |
|---|---|
| `topHalf`: not full, `push` | `Press` |
| `empty()`: `isfull` / `first == last`; then `offset < size` | `CheckFull` / `CheckEnds` |
| `pop` reads the element | `Pop` |
| `pop` makes its first store / the other, `read` fills `buf` | `PopStore` / `PopReturn` |
| `loop` looks at `buf[0]` | `Handle` |

`first` and `isfull` are ordinary objects and no fence stands between their stores, so
either may reach memory first; what g++ makes of the source at -O2 clears `isfull` first, joins
`first++` with the wrap into one store and drops the test for emptiness that `pop`
repeats. A scan code is the number of its arrival, so order and loss can be read off the codes.
A full ring leaves the code in the controller; what becomes of it there is left to `Keyboard`.

### Keyboard

The driver and the devices share the data register (`full`, `data`); everything the devices
send is in `pend` until it gets there. `activate` is a dialogue of ten rounds (`Dialogue`): each sends
a command, most then read a byte. `wait_outputBuf` is a loop that ends without a byte after a
while, so a read may come at any time and then finds the byte of the last read again.

| Code | Action |
|---|---|
| `initialize`: no controller / `activate`: both ports off | `NotSupported` / `Disable` |
| flush buffer, each read / its end | `Flush` / `Flushed` |
| a round of `activate`: command / read and comparison | `Send` / `Receive`, `ReceiveSecond` |
| `register_handler` | `Register` |
| `ISR_do_IRQ`, `topHalf` | `Interrupt` |
| `changeKeyboardLED`: each command / each look | `SendLED` / `AwaitLED` |
| `loop`: `read` | `Read`, `ReadNothing` |

`activate` and the handler run with interrupts off. Bytes are told apart by what the driver
compares them with: one kind of key has the code 0x55, which is also the controller's good
answer. The configuration byte has reserved bits that none of the other answers has and is a kind of its own.
The devices (external) answer in the order of the commands, well or badly, late or never. An
interrupt request whose byte has been read before it was taken may stay or go.

How far keys and answers are kept apart (`KeysAndAnswersApart`): what the tests of the devices and the reset answer is never taken for another answer and
never typed (`ActivatedMeansTested`, `OnlyAcksTyped`). Acknowledgements are. That to the second byte of `setOne` is read without a wait (`keyboard.cpp:113-114`), so the byte of
`scanSet` may be read for it once more and its own is left to the handler, which types it; and of `changeKeyboardLED` one may be left in the same way. `OneAckLateEach` bounds them: no more
than one from `activate` and one for each LED dialogue. No key is lost but in a dialogue (`LostOnlyInDialogues`).

### MemInit

`map` is the firmware's map after `insertion_sort`; addresses have any unit. `flag` holds the
types of the page descriptors written so far, the rest are whatever the memory held. `word` is the
contents of the page tables as pairs of page and index, so tables that overlap overwrite each other.

| Code | Action |
|---|---|
| `mark_kernel_area` with the two size computations | `KernelArea` |
| `makeBuddy`: search for the first entry / none has it | `Find` |
| a round of its loop: inside a free entry / another / neither | `Give` / `Reserve` / `Advance` |
| `makeKernelPTE`: panic / each allocation / null / the loops | `TooMuch` / `AllocTables` / `AllocNothing` / `MakeKernelPTE` |

Three things look unintended and are modelled as they are. `mark_kernel_area` marks half blocks at
consecutive descriptors, so that most descriptors of the kernel area are never written. `range_in`
wants the end of a block inside the entry too, so a block that ends with its entry is lost
(`Given`). And `calculOrder` rounds down (`Asked`). The pages for the tables come from a page
allocator that has just been filled, which hands out the lowest pages that fit. `makePool` stores seven constants.

### OutputStream, Console

`OutputStream` is `raw_ostream` as operators on its room and its contents; each gives the new contents and
what goes to `write_impl` meanwhile. Numbers are formatted as the code does it, digit by digit. `Console` is the screen behind a `vga_ostream`. What a
call hands to `vga_write` is in `sending` until it is printed, one character a step; the `raw_print` of an interrupt
handler comes between any two of them, and no other call does.

| Code | Action |
|---|---|
| `operator<<(char)` / `write(str, size)` / `flush` | `Put` / `Write` / `FlushStream` |
| `operator<<(long)` and its like / `write_hex`, `operator<<(const void *)` | `PutNumber` / `PutHex` |
| `setBuffered`, `setUnbuffered` | `Rebuffer` |
| a turn of `vga_write`'s loop: `vga_putchar`, `vga_linefeed`, `vga_tap` or `vga_backspace` | `VgaWrite` |
| `vga_clear` / `raw_print` | `Clear` / `RawPrint` |

`screen` is an address and may leave the screen; the cursor's `x` and `y` go through a 16 bit offset
when a backspace sets them. On the screen text is one kind of character and blanks another; in the stream digits are told apart,
and `StreamInOrder` compares them with the numeral (`Numeral`), the digits that have the number's value, in decimal as few as there can be (`Fewest`). `owed`, `ordered`,
`strayed`, `retraced` and `apart` are history variables. Some things look unintended and are modelled as they
are: a tab over the right edge returns to the start of its own row (`vgaout.cpp:103-112` keeps
the `y` read before the line feed), a backspace in the first cell leaves the screen, `vga_clear`
leaves `screen` behind the last cell (nothing calls it), and `setBuffered` forgets what waits.

### BootLoader

`ip` is where the processor is. The BIOS is external: every answer it may give is an alternative of the
action that calls it. So is the keyboard controller, which takes what is written to it and
answers in its own time. The wires of its output port are two bits, reset and A20 gate.

| Code | Action |
|---|---|
| stage 1, `DiskLoad` | `DiskLoad` |
| the four calls of `A20Test` with the jump behind each | `FirstTest`, `ActivatedTest`, `KeyboardTest`, `LastTest` |
| int 15h, 2403 to 2401 / port 0x92 | `A20Bios` / `A20Port92` |
| `A20KeyboardEnable`, from one wait to the next | `SendCommand`, `ReadOutput`, `SendOutput`, `ReturnEnabled` |
| the controller | `ControllerTakes`, `ControllerAnswers` |
| one range of the memory map | `QuerySystemAddressMap` |
| `CheckMemoryEnough` | `CheckMemoryEnough` |
| one turn of `LoadKenerl`'s loop with its copy | `LoadKenerl` |
| long mode: test / page tables / switch and jump | `CheckLongModeSupport` / `MakePageTable` / `SwitchToLongMode` |

The processor ends in `kernel`, in `halted` (`HaltLoop`, `FailedLoop`, stage 1's loop), in `reset`, or in `wild`: it
executes something that is not the code that should be there, because stage 2 was read short
(nobody looks at the count) or because ranges were written over it (the comparison with
`system_address_map_end` in `stage2.s:141` is not used). Modelled as they are, although they look
unintended: the last range is counted even when it is one to be ignored (`stage2.s:148-155`); a read of
no sectors copies 64 KB, because `loop` starts at zero; `A20Test` gives each of its two words the other's
saved value; and the byte at port 0x60 is read too early. There the comment (`stage2.s:355`) asks to wait until the
controller's value is in the buffer, but what is called is `KeyboardWaitInput`, which waits until the command
has been taken; `KeyboardWaitOutput` would do it and nothing calls it (`ResetOnlyIfEarly`).

### DescriptorTables, Interrupts

`DescriptorTables` has the segment descriptors and gates as records of the pieces an address and a limit are cut
into, next to what the processor puts together again (external). `Interrupts` runs `main` from `init_all` to the first task, and
then one task that stands for whichever runs: every task comes back with its own locks, which is what `Scheduler` shows.
The controllers (external) are programmed byte by byte: a byte means what the state of the
controller makes of it. `wait` is inside `waitUsingDirectPIT`; `gone` counts the pulses of the oscillator.

| Code | Action |
|---|---|
| `init_all` | `InitTables` |
| no ACPI table, too little memory | `BootFails` |
| `IRQ_init`: `initialize` / `maskInterrupt` / its unlock | `InitializePic` / `UnmaskAll` / `Unmasked` |
| every byte PIC8259 writes | `PicWrite` |
| `PIT::init_for_sched` / first task | `InitTimer` / `StartScheduling` |
| `waitMs`: call / each loop / first look / each further look | `waitMs` / `BeginLoop` / `FirstLook` / `Look` |
| `interrupt_lock::lock` reads the flag / clears it / `unlock` | `Note` / `Clear` / `Unlock` |
| `Keyboard::initialize` registers its handler | `RegisterKeyboard` |
| the processor takes a request / a spurious one | `Accept` / `AcceptSpurious` |
| `ISR.nasm`: vectors 32 and 33 / all others | `Enter` / `Panic` |
| `ISR_do_IRQ`: each handler / `sendEOI` / its unlock / `iretq` | `TopHalf` / `End` / `Return` / `Iretq` |

Facts met on the way and modelled as they are: some bits of the gates and of the TSS descriptor are written by nobody (a
gate is built in a local that is never cleared, and `setZero` of the 16-byte entry is that of the 8-byte
one), and if one of them is set the processor refuses the entry (`left`, `reserved`); only the vectors of the
timer and the keyboard have a function of their own, so the end of an interrupt is never sent to the second
controller, and a spurious interrupt ends in the panic loop. The static lock of PIC8259 would lose the flag if two flows of
control used it at once; in this source it is used only before interrupts are on or inside a
handler, and the mutant `NoteStatic` shows what happens otherwise.

### Kmalloc

`kmalloc` and `kfree` on top of the promises of `BlockAllocator` and `ObjectPool`: the class of a size, requests of
whole pages, and the way from a pointer to the head of its block by clearing bits of the page number. `HeadOf` says what that loop comes to: of the
page numbers with more and more of the lowest bits off, the greatest whose descriptor is not a tail (`MCBuddy` has the same loop as a recursion).
`Bit[k]` is `1 << k`, which `BitAssumption` says without an exponent and `MCKmalloc` gives to TLC. `KmallocAssumption` is what the code's constants have in
common: 32 is a power of two, 128 objects of the first class are a page, the last class has two objects in a page, and 2 MB is a size that fits a `size_t`.

| Code | Action |
|---|---|
| `kmalloc`: size zero or above 2 MB / more than 2048 bytes | `KmallocPanic` / `KmallocPages` |
| object of the class / the class takes a block first | `KmallocObject` / `KmallocSlab` |
| `kfree`: `pt_slab` / each panic / `pt_kernel` | `KfreeObject` / `KfreePanic` / `KfreeWild` |
| `delete` of what a refused `new` returned | `KfreeRefused` |

A grant of whole pages is the address of the page descriptor (`mm.cpp:222`, run `kmalloc_large`). `kfree` of it looks at the flags of
the descriptors of the table's own pages, which nobody has written (`Raw`). `kfree(nullptr)`, which `delete` does not
stop, finds page 0 and gives the first block of the kernel area away.

### StringUtil, ComString

`StringUtil` runs `memset`, `memcpy`, `memcmp` and `strlen` on a memory in which every byte differs from
all others, a turn of a loop or a straight piece at a time: `FillBytes`, `FillWords`, `FillLoop`; `CopyHead`,
`CopyBlocks`, `BeginShift`, `ShiftLoop`, `CopyTail`; `Compare`; `Measure`. The words that `memcpy` joins from shifted
halves are sequences of bytes, so the distance matters and the processor's byte order does. `from`, `to`, `left` and `kept` are
the code's `s`, `d`, `n` and `w` (in `memset`, `to` is its `s`). Source and target lie apart, as they do wherever the kernel calls them.

`ComString` is `com_string`: `DefaultConstruct`, `Construct`, `MoveConstruct`, `AssignShort`, `AssignOver`, `AssignAnew`,
`AppendShort`, `AppendSpill`, `AppendLong`, `clear`, one action for each way through a function, and `NoMemory` where
`new` gives none. Modelled as they are, although they look unintended: `append` that moves a short text to memory
writes the pointer over the text before it copies it, and adds the length twice; two constructors ask for the old length
of an object that has none; moving and clearing leave a text without its end; a long text that becomes short
leaks its memory. `StringHolds` says what is true between these and the calls that repair them (`flaws`).

### AcpiTables

The search of `prepareTable`: `FindRSDP` is a turn of its two loops, `FindSDT` one of the loop over a list of tables,
`AskFADT` what `Keyboard::initialize` concludes. The firmware is external and any of `Firmwares`. `Member` places a member where
the compiler does, since no structure is packed: the list of the XSDT is read from offset 40 instead of 36 (run `acpi_xsdt`), and the
flags of the FADT from 110 instead of 109, so that with a FADT of revision 2 or more the keyboard is always given up. The
boot loader maps 1 GB, so a table above is a page fault, which ends in the panic loop.

### MC modules and proof modules

`MCBuddy`, `MCSlub` and `MCScheduler` instantiate a model each. `MCMachine` runs `BootLoader` and `Interrupts`, `MCMemory` runs the parts
that work on memory by themselves (`MCListClient`, `StringUtil`, `ComString`, `MCMemInit`, `MCKmalloc`, `AcpiTables`), and
`MCDrivers` keyboard and screen (`MCKeyQueue`, `Keyboard`, `MCConsole`): in each `part` says which of them a behaviour is of,
and the others stay as they are. `Powers` says
in first-order terms what a power of two, the highest bit and the lowest bit of a number are, for `MemInit`, `ComString` and `MCBuddy`. `LibraryProofs`,
`MemoryProofs` (of `ListClient`, `StringUtil`, `MemInit`, `Kmalloc`, `ComString` and `AcpiTables`), `BuddyProofs` and `SlubProofs` (with what `MCBuddy` and `MCSlub` add), `SchedulerProofs`, `DriverProofs`
(of `KeyQueue`, `Keyboard` and `Console`), `BootLoaderProofs` and `InterruptsProofs` hold the theorems. Definitions that begin with
the comment *Mutant* are changed versions of the definition that follows; nothing uses
them. They document which bug each property notices (`PROJECT.json`, `mutants`).

## 4. Runs

| Run | Instance | Shows |
|---|---|---|
| `memory` | see below, 200 527 states | *List*: `WellFormed`: the pointers are a list of the members after every call; `ActsAsDeque`: refinement of `Deque`. *Functions*: `StringsRight`: the right bytes are written and none outside are read or written. *String*: `StringHolds`: the text, its end and its memory. *Init*: `GivenExactly`: what makeBuddy gives is what the map says; `DescriptorsInTable`: the table holds what it must and is not given away; `AllocatedMapsRight`: the page tables map their memory, as far as they were allocated. *Kmalloc*: `KmallocSound`: an object has its room, `kfree` finds its slab. *ACPI*: `TablesFound` |
| `meminit_tables` | as part *init* | violation: `AllMapsRight`; with three tables, two are allocated and the third overwrites the next level |
| `kmalloc_large` | as part *kmalloc* | violation: `GrantIsMemory`; whole pages are answered with the address of their descriptor |
| `acpi_xsdt` | up to 3 tables | violation: `XsdtUsed`; addresses in an XSDT are read four bytes too far on |
| `buddy` | orders 0..2, 2 top blocks, 77 735 states | `ListsWellFormed`, `NoOverlap`, `NoFreeBuddies`, `KfreeFindsHead`, `FreshHeader`; `ImplementsBlockAllocator`: refinement of `BlockAllocator` |
| `buddy_panic` | as `buddy` | violation: `RequestsReturn`; a request page-faults with free blocks on its list (list.h:222-226, of lists whose ends differ) |
| `slub` | 3 blocks, 2 size classes, 2 objects a slab, 28 995 states | `SlabLists`, `ObjectsAccounted`, `OnlyExhaustedFaults`, `ImplementsObjectPool`; `AllocEnds`: `alloc`, which calls itself, returns |
| `slub_list` | 1 size class | violation: list.h:124 (pop_node's argument is a member) fails in `free` |
| `scheduler` | up to 4 tasks, slice of 2 ticks, 82 368 states | `QueuesSound`, `CurrentRuns`, `ContextsOwn`, `ImplementsRoundRobin`; `EveryTaskRuns`: every ready task gets the processor |
| `drivers` | see below, 1 128 375 states | *Ring*: `LatestInRing`, `HandledInOrder`, `WholeUntilFull`; `RingDrains`: the main task empties the ring. *Devices*: `KeysAndAnswersApart`: no answer of the tests is taken for another or typed, of acknowledgements one at most for each dialogue, and no key is lost outside one; `StuckOnlyIfMissed`. *Screen*: `StreamInOrder`, `ScreenSound` |
| `keyqueue_race` | ring of 2, batches of 1 | violation: `EveryKeyHandled`; a full ring looks empty when a push comes between `pop`'s stores |
| `machine` | see below, 584 896 states | *Boot*: `HandedOver`: the kernel is entered mapped and with the A20 gate open, whole unless a read came back empty and with the right map, or the processor is reset for one reason; `BootEnds`: the loader comes to an end. *Interrupts*: `TablesRead`, `LineServed`, `FlagFollowsLocks`, `WaitsExactly`; `TimerServed`: a request of the timer is served |

**Bounds.** *List*: four nodes: a next link is lost on a list of three, the fourth comes and goes
around the loss. Orders 0..2 give a block that is split twice and merges twice; two top
blocks give the largest order a list of its own to break and reserved memory beside free
memory. Nothing in the code depends on the number of orders or pages, which is what
the proofs confirm. Three slabs fill `full` with a front, a middle and a back while two size
classes compete for them; two objects make a slab untouched, in use and exhausted.

Four tasks give a ready queue of three, the length at which taking its last task would lose
a link (`QueuesSound` shows that the order of the hand-overs never takes that one), and more than one
task to start, interrupted or in `yield`, at the same time. A slice of two ticks (five in
the code) lets a yield restart the count between two interrupts.

*Ring*: three places (96 in the code) can be empty, full and in between; ten codes take its
indices round three times; batches of two (four in the code) make a full batch and a short one.

*Devices* have a ring of one so that three keys overfill it, and enough keys to come before
the activation, between a command and its answer, and into an LED dialogue.

*Init*: seven addresses, two of them not the boundary of a block, give maps of up to six entries that touch or leave
holes, in front of, inside and behind the kernel area. They end in memory for one, two, three or
more than four tables: a power of two, the least number that is none, and too much. A block has four pages
because in one of two `mark_kernel_area`'s stride makes no difference.

*Boot*: five sectors are read with room for two: two full reads and a rest when all goes well, and every other way
to cut them up. Room for two ranges and one more shows the missing comparison. `MaxReports` bounds the ranges the BIOS
reports and `MaxEmpty` its reads of nothing, both of which nothing in the code does.

*Screen* is the smallest with a row above the last, two tab stops in a row, and an offset
that wraps (16 for 65 536) behind its eight cells. Seven characters reach the last cell, scroll and
go on. Buffers of one and two are filled exactly, by more and by less than their room, by the strings of none to five characters.
Numbers of a byte are zero, one with a zero inside, and the least one, whose negative is not a signed number.

*Functions*: every length up to 70 and the four from 96 on, at every alignment of the pointers: both ends of `memset` meet, its inner
loop runs more than once, each of the three shifts of `memcpy` goes round several times and leaves every remainder. `memcmp` is asked for up to three bytes,
and strings have up to 19 (`CompareLengths`, `StringLengths`): a loop over bytes, and one over words that goes round twice. *String*: four bytes inside the object, of
which the pointer covers two, and texts of up to seven: shorter than the pointer, between it and the object's end, and two sizes of memory.

*Kmalloc*: pages of 32 bytes, size classes of 4, 8 and 16 (32 to 2048 in the code), eight pages of which four are the kernel's, and
sizes at, one above and between the borders, up to one that is too big. *ACPI*: two tables of three names, so that the one asked for is first, last,
twice there or not; two places for the root pointer in each area.

*Interrupts*: a line with a handler from the start, one that gets its handler later, and one of the second controller; a lock
inside a lock. The counter has 8 values (65 536 in the code) and waits of up to two loops and a rest, so it comes round in
every one. Bytes have four values, which leaves each piece of an address a value of its own; handlers lie all over the address space.

**VIEW.** `MCBuddy.cfg` identifies states that differ only in words the code overwrites
before it reads them: links of pages on no list, orders of tails. `MCSlub.cfg` likewise: first words of
objects in use, headers of blocks that are no slabs. No run with a VIEW checks liveness.

**Termination.** The allocators run to the end with nothing between their steps, so that a
call ends needs no fairness: `CallsEnd` (proved) and `AllocEnds` (checked) give a number that falls with each
step of a call, and the absence of deadlock says that there always is a step.

**Fairness.** `FairSpec` of `Scheduler` asks that the processor goes on wherever it is not in a task's
own code: in start-up, inside `yield`, and in the handler of an interrupt it has taken or has to take; and
that the PIT, which is periodic, requests its interrupt again. No task has to yield.
`EveryTaskRuns` says that a ready task is switched to and the handler is done; how many
instructions it then gets before the next interrupt is a matter of speed and not of the model. It is checked for the
main task and for one of the others, which are alike.

`DriverSpec` and `FairSpec` of `KeyQueue` ask that the main task takes its next step: the scheduler gives it
the processor again (`EveryTaskRuns`), and the handler returns. `InterruptsFair` of `MCMachine` asks that the processor goes on
with what it has begun, that a task clears the flag once it has noted it and gives back its locks, the outermost too
(strongly: a task may take and return inner ones in between, but no code does so for ever), and that the processor takes a request
that comes again and again while the flag is set (strongly: it is looked for behind every instruction). `BootFair` asks that
the processor executes and the BIOS returns, and that the keyboard controller takes commands and answers
them: real hardware does, and the code waits for it without a limit. The other modules state no fairness.

**Deadlock** is checked in every run but `machine`, whose loader halts or hands over and whose kernel may end in the panic loop.

## 5. Proofs

All for every number of nodes, orders and pages. The type invariants are part of the inductive ones.

* `LibraryProofs`: each list operation preserves `ListInv` for the member set changed as
  it promises, given that it does not fault; and `ListInv` depends only on the links of members. Of powers of two: the smaller divides the larger, between one and its double
  there is none, and every positive number has a highest one. Of recursion: a function on the numbers that is given by its value
  at 0 and a table for its next value exists and is the only one (`Recursion`, `OneRecursion`).
* `ListClientCorrect`: `ClientSpec => []WellFormed` (with type correctness).
* `ListClientIsDeque`: `ClientSpec => ActsAsDeque`, the refinement of `Deque`, for any number of nodes.

`Spells` says what the pointers have to do with the sequence of the members: the prev links spell it from the tail, a next link leads on in it or is lost.
No more than one sequence is spelled by a list (`ReadingIs`), so it is what the refinement mapping reads, and each operation makes the links spell the sequence it should leave
(`FrontSpelled`, `BackSpelled`, `WithoutSpelled`); what `PopBack` clears is always a link that may be lost.

* `BuddyInvariant`: `Spec => []IInv`, from which `BuddyTypeCorrect`,
  `BuddyListsWellFormed`, `BuddyNoOverlap` and, as action properties, `BuddyFreshHeader` and
  `BuddyCallsEnd` (both recursions end).

The safety properties of the allocator are not inductive: that two live blocks do not
overlap needs that every descriptor which is not a tail heads an aligned block
whose other descriptors are tails (`Blocks`), that live blocks are marked
(`LiveMarked`), that the lists contain exactly the descriptors marked free
(`ListsWellFormed`), how far makeBuddy is (`BootFrontier`) and what a call has in hand
(`CallInv`). Two blocks cannot overlap then, because the head of one would be a
tail of the other. `IInv` is the conjunction. The arithmetic is that of
`SpanAssumption` (a block of order k+1 is two of order k, and sizes divide the
largest), stated as an assumption about the constant `Span` because powers of two
by recursion are beyond the provers; TLC evaluates it for 2^k in every run.

* `BuddyNoFreeBuddies` and `BuddyKfreeFindsHead`; `BuddyImplementsBlockAllocator`: every step of a call is one of `BlockAllocator` or a stutter, and a step that faults one of its two panics.

No free block has a free buddy because a block is only put on a list when its buddy is not free or is about to be merged
(`BuddiesApart`). A request is refused rightly because every page is either handed out, free or on its way (`PagesAccounted`), and the
climb leaves only empty lists below it (`NoneBelow`): were there a run of unused pages that fits, a free block would lie in it or
around it, the one of least order among those would have a list above, and that list would have been found empty (`FreePlaceHasBlock`). A fault in
`Take` needs a list whose ends differ, and each of the two holds a block for the request (`TwoEnds`, `FreePartFits`); one in `Merge` needs a buddy that is neither the only block on its list nor
taken from the back (`MergeFaults`), so the list has another, and the block given back lies apart from both (`TwoBeside`). `kfree` cuts the page's
lowest one off until it meets a head: the result stays inside the block as long as the page is not its first, because the lowest power of two that divides the distance from
the block's first page divides the page number (`LowestBitOff` says it without the bits); that `HeadOf`, which is defined by recursion, is the head follows from the least page for which it is not.

* `SlubInvariant`: `Spec => []IInv` of `Slub`, from which `SlubSlabLists`, `SlubNextObjectUnused`, `SlubOnlyExhaustedFaults`,
`SlubAllocEnds`, `SlubObjectsAccounted` and `SlubImplementsObjectPool`.

`SlabLists` alone is not inductive either: that `pop_node` in `free` does not damage
`full` when the slab is not on it depends on where such a slab is (`ExhaustedPlace`: it is the front of
`partial`, so its prev link is null and the access faults before anything is written).
That `KfreeLast` gives back a slab with no object in use depends on `FreeLists`: there is an
order in which the free list runs through exactly the free objects, and `in_use` is
`Ceiling` minus their number. The step from the counter to "all objects free" counts, with
the library's facts on injections. The moves between two lists over shared link words
are one lemma (`MoveSlab`) about any list operation that keeps `ListInv` and changes no
other node. `PartialInv` says which slab of `partial` may be exhausted: its head only, and when none ever was retired. `alloc` calls itself
once at most, since it finds or makes a slab with a free object at the head.

* `SchedulerInvariant`: `Spec => []IInv` of `Scheduler`, from which
`SchedulerCurrentRuns`, `SchedulerContextsOwn`, `SchedulerInterruptsOn` and
`SchedulerNoneInService`; `SchedulerLists` for the queues, from which `SchedulerQueuesSound` and `SchedulerImplementsRoundRobin`; for any number of tasks and any slice.

`CurrentRuns` speaks of the moments when an interrupt can come. It is inductive only with
what is true between them: which steps of `yield` have interrupts off and what the locals
hold there (`InYield`), what the handler may have interrupted (`InHandler`), whose turn it is
in the middle of a hand-over (`Turn`). A context is loaded long after it was saved, so
`Records` says of each saved one what must be true of the processor once it is loaded.
`Made` says that no list, `cur` or iterator leads to a task that was not built. None of this needs the
shape of the queues. That they are lists of the right tasks (`ListsInv`) is proved over it: `add` appends and nothing
takes the last task of a queue of three or more, which is when `pop_back` would leave a wrong link (`Chained`). The next link of a task on the ready queue is then
its successor in the ring of `RoundRobin`.

* `KeyQueueInvariant`: `Spec => []IInv` of `KeyQueue`, from which `KeyQueueLatestInRing`,
`KeyQueueHandledInOrder` and `KeyQueueWholeUntilFull`, for any size of the ring and the batch.

What stands in the ring is not inductive alone, because a push may come while `first` and
`isfull` do not fit together and the number of codes jumps from `Size` to none. What is: each
place holds the code of the last lap or the one before, counted from `last` (`RingData`, `Lap`), which
`pop` cannot disturb; `isfull` is set with the ends apart only in known moments (`Flag`);
and whatever was taken is older than what is left (`Ordered`), however much was lost.

* `KeyboardInvariant`, from which `KeyboardStuckOnlyIfMissed`. What is inductive is that a byte
in the controller has its request while the port's interrupt is enabled (`Requested`), which the
dialogues keep because they leave no byte behind that they did not read, and that only the second "configure"
leads to the rounds behind it (`InterruptEnabled`).

* `KeyboardDialogueInvariant`, from which `KeyboardKeysAndAnswersApart`, for any number of looks, keys and places in the ring.

The driver goes on when a wait ends without a byte, so its questions and the answers may be out of step. They can only be so in one
way: a read takes one byte or none, so answers fall behind (`FirstRounds`, `SecondRounds`). Two of them mend it, because nothing else is accepted in their round and each is given once:
"00" for the port, before the keyboard may send, and "AA" for the reset. `DialogueInv` says in each round where that byte may be
(`OnlyAt`, `Lacks`); when its read meets it, no answer before it is left and what comes behind are keys (`KeysBehind`), so the bytes read as the configuration were it and were written back.
For the keys, what was received, what is in the ring and what is still to be read are one sequence, whose keys are in order and are all but the lost ones.
For the acknowledgements `AcksInv` counts those in that sequence (`AcksOut`): one more than the dialogues at most, and none unread when `setOne` is sent.
How a count changes when a byte is added, read or thrown away is stated once (the lemmas on `HowMany`).

* `ConsoleInvariant`: `ConsoleSpec => []ScreenInv`, from which `ConsoleScreenSound`, for any width, height, tab stop and text.

The address that is written and the cursor's row and column are kept apart in the code. `Agree` says that they are one cell but behind a backspace in the
first cell or `vga_clear`; `Ahead` that the cells from the cursor to the end of the screen are blank but behind a backspace or a tab over the edge, which go back.

* `ConsoleStreamInvariant`: `ConsoleSpec => []StreamInv`, from which `ConsoleStreamInOrder`, for any texts, numbers of any width and any sizes of the buffer.

What is owed is what waits in the buffer (`StreamInv`), because every operation sends a first part of what was due and keeps the rest, for which there is room
(`InOrder`); a long string is cut three times, and the lengths of the pieces are the remainder and the multiple of the buffer's size. A number goes out as its digits: those of the repeated
division have the number's value, no other row of as many digits has it, and no shorter row can have it. The recursive functions of digits, values and powers are unfolded with `Recursion`.

* `MemInitInvariant`: `Spec => []IInv` of `MemInit`, from which `MemInitGivenExactly` and
`MemInitDescriptorsInTable`, for any map whose entries do not overlap.

Between two rounds of makeBuddy's loop (`At`) the current entry is the one that contains the next block's first
address, every earlier boundary was in some entry, and the list has the `Given` blocks so far.
Entries are ordered and disjoint, so an address is in one of them at most, and the loop, which never goes
back, misses none. The table is long enough because entries in order also end in order.

* `MemInitTablesApart`: `Spec => []TablesInv`, from which `MemInitAllocatedMapsRight`, for any map and any number of entries in a table.

`TablesInv` says that what is allocated for one level is no part of another's, since each is the lowest place left, and what the words are once they are written.
If each level got the pages it needs, no word is then written twice. There are at most as many tables of the lowest level as a table has entries, or makeKernelPTE panics,
so there is one table on each level above, and the walk of `MapsTo` meets its first entry in the directory, the entry of the block's table and then that of the block.

* `KmallocInvariant`: `KmallocSpec => []KmallocInv`, from which `KmallocSoundAlways`, for any powers of two as sizes, any memory and any requests.

The logarithm of the last byte's number gives the smallest class that has room (`IndexIs`), and the order of a slab is that of its objects together (`SlabOrderIs`), so that
the places it is cut into lie inside it (`PlaceInside`). `KmallocInv` says that a slab is an aligned block all of whose descriptors but the first are tails, and that each object
has a place of its own in a slab of its class. Switching off the lowest bits of a page number then meets tails until it meets the slab's first page (`HeadOfSlab`). It is kept because
a new block was free, and a slab goes only with its last object.

* `StringsRightAlways`: `StringSpec => []StringsRight`, for any lengths, alignments, places apart and equal bytes.

`StringsInv` says of each stage what its predecessors leave to it. In `memset` a byte of the destination that is not set yet lies between the pointer and the end; in
the loop of 32 bytes not even in the last 28 of that (`SetInv`). That its words leave no gap is arithmetic: what is left is a multiple of four, so above 24 it is
at least 28. In `memcpy` memory is copied up to the pointer and otherwise as it was (`CopyInv`), so that every read is one of the source as it was. The word that is kept
holds the bytes from the source's last word border on, and together with the four words after it a row of 20, of which the 16 from the pointer on go out (`RowOfTwo`, `PieceOfRow`).
In the tail the bits still to be looked at come to what is still to be copied (`RestBits`).

* `ComStringInvariant`: `ComStringSpec => []StringInv`, from which `ComStringHolds`, for any texts, any size of the object and any overlay.

`StringHolds` alone does not say that `AppendLong` stays inside its memory, since a spilt or moved text need not have its end there. What does is that the length is
always below the size of the memory (`StringInv`): every piece is asked for with `suitable_size`, which is more than what it is asked for (`RoomIs`), and an append that fills it grows first.

* `InterruptsInvariant`: `Spec => []InterruptsInv` of `Interrupts`, from which `InterruptsLineServed`,
`InterruptsFlagFollowsLocks`, `InterruptsWaitsExactly` and `InterruptsTablesRead`, for any lines that ask, any depth of locks, any counter and any pieces of an address.

That an interrupt stays that of its line needs how far the controllers are programmed: main writes eight
bytes, and each must meet a controller that waits for just that one (`TodoInv`: what is still to be written is the rest of
the sequence, and `Programmed` says what the part before it has done). With the bases right, the number that arrives
fits the line, and what is in service is that line until its end is written (`ServiceInv`), which for the two
lines with a handler is one byte to the master. That the flag follows the locks needs that only
the outermost lock noted it set and that the static lock of `PIC8259` is free of it while a handler runs (`LockInv`), and
that interrupts only come where a task runs (`Where`). A wait is exact because each loop sees the counter come round and takes between `count` and `count` and the
gap between two looks (`WaitInv`). The processor finds what was written to the tables because cutting an address in pieces and putting them together is the identity
for pieces of any size (`Values(n)` is how many values n pieces have).

* `AcpiInvariant`: `AcpiSpec => []AcpiInv`, from which `AcpiTablesFound`, for any memory and any number of entries in the root table.

The one table found is the first of its name because nothing the search has passed has that name (`SearchInv`), and the root pointer is the lowest
because the first area is read to its end before the second (`RootInv`). Over an XSDT a search reads at offset 40: the first entry it reads begins with the upper half of an address,
so it is the page fault or the end, and never a wrong table.

* `BootInvariant`: `BootSpec => []BootInv`, from which `BootHandedOver`, for any number of sectors and page table entries and whatever the BIOS reports.

What a stage leaves is what the next ones need and do not touch. The byte written to the controller opens the gate and, unless it was read before
the controller gave it, keeps the processor out of reset (`GateInv`). The map so far is the kept reports in their order: the place of each is the number
of kept ones up to it (`MapInv`). While no read has returned nothing, what is copied, what is left and the next sector add up (`KernelInv`). The page tables are followed
from the top level for every address of both halves.

Every safety property of a passing run is a theorem. Only model-checked is liveness (`EveryTaskRuns`, `RingDrains`, `TimerServed`, `BootEnds`), which is
out of the prover's reach. Where a proof needs induction over data it is done by hand, from the least counterexample
(`WellFoundedInduction` gives it); the recursive functions it is about are unfolded by showing what satisfies their equations.

## 6. Not modelled

* `forward_list`, `heap`, the pool allocator, `bitset`, `optional` and most of `algobase.h`: the kernel does not use them.
* The CMOS clock: nothing reads it. `NullScheduler`, `dequeue`, `getMask`, `findMADT`, `doCheckSum`: no caller.
* The bit layout of page table entries (`pagetable.h`): `MemInit` and `BootLoader` have the entries as what they map.
* Diagnostics and `printSDTs` print; build files do not run.
* Registers: `Scheduler` saves a context whole. A new task's stack pointer is computed by adding a number of bytes to a pointer
  to words of eight (`process.cpp:58`), so it starts at eight times the size of its stack; `Scheduler` gives every task a stack of its own.
* `loop` drops codes that `read` returns together (`main.cpp:76`): `EveryKeyHandled` fails for that alone with batches of two.

What calls the allocators is represented by all legal sequences of calls.

------------------------------- MODULE MCMemory -------------------------------
(***************************************************************************)
(* The code that works on memory by itself, for TLC: the intrusive list    *)
(* with its client, the functions of stringutil.cpp, the string of a       *)
(* task's name, memory::init over every map that MCMemInit makes, kmalloc  *)
(* and kfree, and the search for the tables of the firmware.  They have    *)
(* nothing to do with each other: a behaviour is one of one part.          *)
(***************************************************************************)
EXTENDS MCListClient, StringUtil, ComString, MCMemInit, MCKmalloc, AcpiTables

CONSTANTS
    MaxLength,  \* bound on the lengths of all but a few calls
    Letters     \* of the texts

SomeTexts == {[i \in 1 .. k |-> c] : k \in 0 .. MaxText, c \in Letters}

SomeLengths == (0 .. MaxLength) \union (96 .. 99)
ShortStrings == 0 .. 19

VARIABLE part

memoryVars == <<clientVars, stringVars, comVars, vars, kmallocVars, acpiVars, part>>

\* One of the states a part may begin in, or none, when it does not run.
StringIdle == call.fn = "memset" /\ call.len = 0 /\ call.dst = Target

MemInitIdle ==
    /\ pc = "kernel" /\ map = <<>> /\ begin = 0 /\ start = 0 /\ cur = 0 /\ kernel = 0
    /\ flag = <<>> /\ freelist = <<>> /\ total = 0 /\ tables = <<>> /\ word = <<>>

KmallocIdle == flags = <<>> /\ owner = <<>> /\ live = {} /\ state = "run"

AcpiIdle ==
    /\ firmware = CHOOSE f \in Firmwares : TRUE
    /\ doing = "ebda" /\ index = 1
    /\ rsd_ptr = NoTable /\ fadt_ptr = NoTable /\ madt_ptr = NoTable /\ given_up = FALSE

MemoryInit ==
    /\ part \in {"list", "functions", "string", "init", "kmalloc", "acpi"}
    /\ ClientInit /\ ComStringInit
    /\ StringInit /\ (part # "functions" => StringIdle)
    /\ IF part = "init" THEN Init ELSE MemInitIdle
    /\ IF part = "kmalloc" THEN KmallocInit ELSE KmallocIdle
    /\ IF part = "acpi" THEN AcpiInit ELSE AcpiIdle

\* part goes on, and what the others have stays.
Only(p, next, others) == part = p /\ next /\ UNCHANGED <<others, part>>

MemoryNext ==
    \/ Only("list", ClientNext, <<stringVars, comVars, vars, kmallocVars, acpiVars>>)
    \/ Only("functions", StringStep \/ Returned, <<clientVars, comVars, vars, kmallocVars, acpiVars>>)
    \/ Only("string", ComStringNext, <<clientVars, stringVars, vars, kmallocVars, acpiVars>>)
    \/ Only("init", Next, <<clientVars, stringVars, comVars, kmallocVars, acpiVars>>)
    \/ Only("kmalloc", KmallocNext, <<clientVars, stringVars, comVars, vars, acpiVars>>)
    \/ Only("acpi", AcpiNext, <<clientVars, stringVars, comVars, vars, kmallocVars>>)

MemorySpec == MemoryInit /\ [][MemoryNext]_memoryVars
=============================================================================

--------------------------- MODULE InterruptsProofs ---------------------------
(***************************************************************************)
(* Interrupts for any lines, any depth of locks and any tables: an         *)
(* interrupt stays that of its line to the end, the flag says whether a    *)
(* lock is held, a wait before the timer is the scheduler's takes as long  *)
(* as was asked for, and the processor reads in the tables what was meant. *)
(***************************************************************************)
EXTENDS Interrupts, TLAPS

LEMMA InitInv == Init => InterruptsInv
<1> SUFFICES ASSUME Init PROVE InterruptsInv
  OBVIOUS
<1>1. /\ pic = [master |-> Bios(8, 4), slave |-> Bios(112, 2)]
      /\ flag = FALSE /\ pc = "main" /\ irq = None
      /\ todo = <<>> /\ piclock = FALSE /\ locks = <<>>
      /\ actions = [l \in 0 .. 15 |-> <<>>]
  BY DEF Init
<1>2. InterruptsTypeOK
  <2>1. Bios(8, 4) \in Controller /\ Bios(112, 2) \in Controller /\ Bios(8, 4).irr = {}
    BY DEF Bios, Controller
  <2>2. pic \in [master : Controller, slave : Controller] /\ 2 \notin pic.master.irr
    BY <1>1, <2>1
  <2>3. None \in [num : Int, line : Int,
                  at : {"no", "enter", "walk", "end", "iretq", "panic"},
                  walk : Seq({"timer", "keyboard"})]
        /\ None.at = "no"
    BY DEF None
  <2>4. actions \in [0 .. 15 -> Seq({"timer", "keyboard"})]
    BY <1>1
  <2>5. pc \in BootPlaces \union TaskPlaces \union {"panic"}
    BY <1>1 DEF BootPlaces
  <2>6. flag \in BOOLEAN /\ piclock \in BOOLEAN
    BY <1>1
  <2>8. locks \in Seq(BOOLEAN)
    BY <1>1
  <2>7. (irq.at = "no") <=> (irq = None)
    BY <1>1, <2>3
  <2> QED BY <1>1, <2>2, <2>3, <2>4, <2>5, <2>6, <2>7, <2>8 DEF InterruptsTypeOK
<1>3. Where
  BY <1>1 DEF Where, TaskPlaces
<1>4. LockInv
  BY <1>1 DEF LockInv, BootPlaces, TaskPlaces, None
<1>5. TodoInv
  BY <1>1 DEF TodoInv, None
<1>6. ServiceInv
  BY <1>1 DEF ServiceInv, None, Bios
<1> QED BY <1>2, <1>3, <1>4, <1>5, <1>6 DEF InterruptsInv

\* A step that changes nothing the invariant speaks of.
LEMMA OtherSteps ==
    ASSUME InterruptsInv, UNCHANGED <<pic, todo, piclock, flag, pc, irq, locks, actions>>
    PROVE  InterruptsInv'
<1>1. InterruptsTypeOK'
  BY DEF InterruptsInv, InterruptsTypeOK
<1>2. Where' /\ LockInv'
  BY DEF InterruptsInv, Where, LockInv
<1>3. TodoInv'
  BY DEF InterruptsInv, TodoInv, Programmed
<1>4. ServiceInv'
  BY DEF InterruptsInv, ServiceInv
<1> QED BY <1>1, <1>2, <1>3, <1>4 DEF InterruptsInv

\* What the operations do to a controller.
LEMMA RequestedType ==
    ASSUME NEW c \in Controller, NEW l \in 0 .. 7
    PROVE  LET e == Requested(c, l)
           IN  /\ e \in Controller /\ e.isr = c.isr /\ e.expects = c.expects
               /\ e.base = c.base /\ e.irr = c.irr \union {l}
<1>1. c.irr \in SUBSET (0 .. 7) /\ c.irr \union {l} \in SUBSET (0 .. 7)
  BY DEF Controller
<1> QED BY <1>1 DEF Controller, Requested

LEMMA AcknowledgedType ==
    ASSUME NEW c \in Controller, NEW l \in 0 .. 7
    PROVE  LET e == Acknowledged(c, l)
           IN  /\ e \in Controller /\ e.isr = c.isr \union {l} /\ e.expects = c.expects
               /\ e.base = c.base /\ e.irr = c.irr \ {l}
<1>1. /\ c.irr \in SUBSET (0 .. 7) /\ c.isr \in SUBSET (0 .. 7)
      /\ c.irr \ {l} \in SUBSET (0 .. 7) /\ c.isr \union {l} \in SUBSET (0 .. 7)
  BY DEF Controller
<1> QED BY <1>1 DEF Controller, Acknowledged

LEMMA PairType ==
    ASSUME NEW p \in [master : Controller, slave : Controller], NEW c \in Controller
    PROVE  /\ p.master \in Controller /\ p.slave \in Controller
           /\ [p EXCEPT !.master = c] = [master |-> c, slave |-> p.slave]
           /\ [p EXCEPT !.slave = c] = [master |-> p.master, slave |-> c]
<1>1. p.master \in Controller /\ p.slave \in Controller
  OBVIOUS
<1>2. [p EXCEPT !.master = c] = [master |-> c, slave |-> p.slave]
  OBVIOUS
<1>3. [p EXCEPT !.slave = c] = [master |-> p.master, slave |-> c]
  OBVIOUS
<1> QED BY <1>1, <1>2, <1>3

\* A step that changes a controller's requests and nothing else.
LEMMA RequestStep ==
    ASSUME InterruptsInv, NEW l \in Lines, Request(l)
    PROVE  InterruptsInv'
<1>1. l \in 0 .. 15 /\ l # 2
  BY InterruptsAssumption
<1>2. /\ pic \in [master : Controller, slave : Controller] /\ 2 \notin pic.master.irr
      /\ UNCHANGED <<todo, piclock, flag, pc, irq, locks, actions>>
      /\ pic' = IF l < 8 THEN [pic EXCEPT !.master = Requested(pic.master, l)]
                ELSE [pic EXCEPT !.slave = Requested(pic.slave, l - 8)]
  BY DEF Request, InterruptsInv, InterruptsTypeOK
<1> DEFINE Same == /\ pic' \in [master : Controller, slave : Controller]
                   /\ 2 \notin pic'.master.irr
                   /\ pic'.master.isr = pic.master.isr /\ pic'.slave.isr = pic.slave.isr
                   /\ pic'.master.expects = pic.master.expects /\ pic'.slave.expects = pic.slave.expects
                   /\ pic'.master.base = pic.master.base /\ pic'.slave.base = pic.slave.base
<1>3. ASSUME l < 8 PROVE Same
  <2>1. l \in 0 .. 7 /\ pic.master \in Controller /\ pic.slave \in Controller
    BY <1>1, <1>2, <1>3, PairType
  <2>2. pic' = [master |-> Requested(pic.master, l), slave |-> pic.slave]
    BY <1>2, <1>3, <2>1, PairType, RequestedType
  <2> QED BY <1>1, <1>2, <2>1, <2>2, RequestedType
<1>4. ASSUME ~(l < 8) PROVE Same
  <2>1. l - 8 \in 0 .. 7 /\ pic.master \in Controller /\ pic.slave \in Controller
    BY <1>1, <1>2, <1>4, PairType
  <2>2. pic' = [master |-> pic.master, slave |-> Requested(pic.slave, l - 8)]
    BY <1>2, <1>4, <2>1, PairType, RequestedType
  <2> QED BY <1>1, <1>2, <2>1, <2>2, RequestedType
<1>5. Same
  BY <1>3, <1>4
<1>6. InterruptsTypeOK'
  BY <1>2, <1>5 DEF InterruptsInv, InterruptsTypeOK
<1>7. Where' /\ LockInv'
  BY <1>2 DEF InterruptsInv, Where, LockInv
<1>8. TodoInv'
  BY <1>2, <1>5 DEF InterruptsInv, TodoInv, Programmed
<1>9. ServiceInv'
  BY <1>2, <1>5 DEF InterruptsInv, ServiceInv
<1> QED BY <1>6, <1>7, <1>8, <1>9 DEF InterruptsInv

LEMMA WrittenType ==
    ASSUME NEW c \in Controller, NEW byte
    PROVE  /\ LET e == Written(c, "start", byte)
              IN  e \in Controller /\ e.expects = "icw2" /\ e.base = c.base
                  /\ e.isr = {} /\ e.irr = {}
           /\ c.expects \in {"icw2", "icw3", "icw4"} /\ byte \in Int =>
              LET e == Written(c, "data", byte)
              IN  /\ e \in Controller /\ e.isr = c.isr /\ e.irr = c.irr
                  /\ c.expects = "icw2" => e.expects = "icw3" /\ e.base = byte
                  /\ c.expects = "icw3" => e.expects = "icw4" /\ e.base = c.base
                  /\ c.expects = "icw4" => e.expects = "mask" /\ e.base = c.base
           /\ c.expects = "mask" /\ byte \in SUBSET Int =>
              LET e == Written(c, "data", byte)
              IN  /\ e \in Controller /\ e.isr = c.isr /\ e.irr = c.irr
                  /\ e.expects = "mask" /\ e.base = c.base
<1>1. LET e == Written(c, "start", byte)
      IN  e \in Controller /\ e.expects = "icw2" /\ e.base = c.base
          /\ e.isr = {} /\ e.irr = {}
  <2>1. Written(c, "start", byte)
          = [c EXCEPT !.expects = "icw2", !.imr = {}, !.irr = {}, !.isr = {}]
    BY DEF Written
  <2> QED BY <2>1 DEF Controller
<1>2. ASSUME c.expects = "icw2", byte \in Int
      PROVE  LET e == Written(c, "data", byte)
             IN  e \in Controller /\ e.isr = c.isr /\ e.irr = c.irr
                 /\ e.expects = "icw3" /\ e.base = byte
  <2>1. Written(c, "data", byte) = [c EXCEPT !.base = byte, !.expects = "icw3"]
    BY <1>2 DEF Written
  <2> QED BY <1>2, <2>1 DEF Controller
<1>3. ASSUME c.expects = "icw3", byte \in Int
      PROVE  LET e == Written(c, "data", byte)
             IN  e \in Controller /\ e.isr = c.isr /\ e.irr = c.irr
                 /\ e.expects = "icw4" /\ e.base = c.base
  <2>1. Written(c, "data", byte) = [c EXCEPT !.cascade = byte, !.expects = "icw4"]
    BY <1>3 DEF Written
  <2> QED BY <1>3, <2>1 DEF Controller
<1>4. ASSUME c.expects = "icw4"
      PROVE  LET e == Written(c, "data", byte)
             IN  e \in Controller /\ e.isr = c.isr /\ e.irr = c.irr
                 /\ e.expects = "mask" /\ e.base = c.base
  <2>1. Written(c, "data", byte) = [c EXCEPT !.expects = "mask"]
    BY <1>4 DEF Written
  <2> QED BY <1>4, <2>1 DEF Controller
<1>5. ASSUME c.expects = "mask", byte \in SUBSET Int
      PROVE  LET e == Written(c, "data", byte)
             IN  e \in Controller /\ e.isr = c.isr /\ e.irr = c.irr
                 /\ e.expects = "mask" /\ e.base = c.base
  <2>1. Written(c, "data", byte) = [c EXCEPT !.imr = byte]
    BY <1>5 DEF Written
  <2> QED BY <1>5, <2>1 DEF Controller
<1> QED BY <1>1, <1>2, <1>3, <1>4, <1>5

LEMMA EndWritten ==
    ASSUME NEW c \in Controller, NEW l \in 0 .. 7, c.isr = {l}
    PROVE  /\ Written(c, "EOI", 32) \in Controller
           /\ Written(c, "EOI", 32).isr = {} /\ Written(c, "EOI", 32).irr = c.irr
           /\ Written(c, "EOI", 32).expects = c.expects /\ Written(c, "EOI", 32).base = c.base
<1>1. Min({l}) = l
  BY DEF Min
<1>2. Written(c, "EOI", 32) = [c EXCEPT !.isr = IF c.isr = {} THEN {} ELSE c.isr \ {Min(c.isr)}]
  BY DEF Written
<1>3. c.isr # {} /\ c.isr \ {Min(c.isr)} = {}
  BY <1>1
<1>4. Written(c, "EOI", 32) = [c EXCEPT !.isr = {}]
  BY <1>2, <1>3
<1> QED BY <1>4 DEF Controller

\* The eight bytes one after another.
LEMMA InitializeBytes ==
    LET w == initialize(irq_start)
    IN  /\ Len(w) = 8 /\ w \in Seq(Writes)
        /\ w[1] = <<"master", "start", 17>> /\ w[2] = <<"master", "data", 32>>
        /\ w[3] = <<"master", "data", 4>> /\ w[4] = <<"master", "data", 1>>
        /\ w[5] = <<"slave", "start", 17>> /\ w[6] = <<"slave", "data", 40>>
        /\ w[7] = <<"slave", "data", 2>> /\ w[8] = <<"slave", "data", 1>>
BY DEF initialize, irq_start, ICW1, ICW4_8086, Writes

Programming ==
    /\ pic \in [master : Controller, slave : Controller] /\ 2 \notin pic.master.irr
    /\ pic.master.isr = {} /\ pic.slave.isr = {}

\* The next byte is the one the controller waits for.
LEMMA NextByte ==
    ASSUME Programming, NEW k \in 0 .. 7, Programmed(k),
           LET w == initialize(irq_start)[k + 1]
           IN  pic' = IF w[1] = "master" THEN [pic EXCEPT !.master = Written(pic.master, w[2], w[3])]
                      ELSE [pic EXCEPT !.slave = Written(pic.slave, w[2], w[3])]
    PROVE  Programming' /\ Programmed(k + 1)'
<1> DEFINE M(port, byte) == Written(pic.master, port, byte)
           S(port, byte) == Written(pic.slave, port, byte)
<1>0. /\ pic.master \in Controller /\ pic.slave \in Controller
      /\ 17 \in Int /\ 32 \in Int /\ 4 \in Int /\ 1 \in Int /\ 40 \in Int /\ 2 \in Int
      /\ Stage[1] = "icw2" /\ Stage[2] = "icw3" /\ Stage[3] = "icw4"
      /\ Stage[4] = "mask" /\ irq_start = 32
  BY PairType DEF Programming, Stage, irq_start
<1>a. ASSUME NEW c \in Controller, c.isr = {}, 2 \notin c.irr, pic' = [pic EXCEPT !.master = c]
      PROVE  Programming' /\ pic'.master = c /\ pic'.slave = pic.slave
  <2>1. pic' = [master |-> c, slave |-> pic.slave]
    BY <1>0, <1>a, PairType DEF Programming
  <2> QED BY <1>0, <1>a, <2>1 DEF Programming
<1>b. ASSUME NEW c \in Controller, c.isr = {}, pic' = [pic EXCEPT !.slave = c]
      PROVE  Programming' /\ pic'.slave = c /\ pic'.master = pic.master
  <2>1. pic' = [master |-> pic.master, slave |-> c]
    BY <1>0, <1>b, PairType DEF Programming
  <2> QED BY <1>0, <1>b, <2>1 DEF Programming
<1>1. CASE k = 0
  <2>1. pic' = [pic EXCEPT !.master = M("start", 17)]
    BY <1>1, InitializeBytes
  <2>2. /\ M("start", 17) \in Controller /\ M("start", 17).expects = "icw2"
        /\ M("start", 17).isr = {} /\ M("start", 17).irr = {}
    BY <1>0, WrittenType
  <2>3. Programming' /\ pic'.master.expects = "icw2"
    BY <2>1, <2>2, <1>a
  <2> QED BY <1>0, <1>1, <2>3 DEF Programmed
<1>2. CASE k = 1
  <2>1. pic' = [pic EXCEPT !.master = M("data", 32)]
    BY <1>2, InitializeBytes
  <2>2. /\ M("data", 32) \in Controller /\ M("data", 32).expects = "icw3"
        /\ M("data", 32).isr = {} /\ M("data", 32).irr = pic.master.irr /\ M("data", 32).base = 32
    BY <1>0, <1>2, WrittenType DEF Programmed, Programming
  <2>3. Programming' /\ pic'.master.expects = "icw3" /\ pic'.master.base = 32
    BY <2>1, <2>2, <1>a DEF Programming
  <2> QED BY <1>0, <1>2, <2>3 DEF Programmed
<1>3. CASE k = 2
  <2>1. pic' = [pic EXCEPT !.master = M("data", 4)]
    BY <1>3, InitializeBytes
  <2>2. /\ M("data", 4) \in Controller /\ M("data", 4).expects = "icw4"
        /\ M("data", 4).isr = {} /\ M("data", 4).irr = pic.master.irr /\ M("data", 4).base = 32
    BY <1>0, <1>3, WrittenType DEF Programmed, Programming
  <2>3. Programming' /\ pic'.master.expects = "icw4" /\ pic'.master.base = 32
    BY <2>1, <2>2, <1>a DEF Programming
  <2> QED BY <1>0, <1>3, <2>3 DEF Programmed
<1>4. CASE k = 3
  <2>1. pic' = [pic EXCEPT !.master = M("data", 1)]
    BY <1>4, InitializeBytes
  <2>2. /\ M("data", 1) \in Controller /\ M("data", 1).expects = "mask"
        /\ M("data", 1).isr = {} /\ M("data", 1).irr = pic.master.irr /\ M("data", 1).base = 32
    BY <1>0, <1>4, WrittenType DEF Programmed, Programming
  <2>3. Programming' /\ pic'.master.expects = "mask" /\ pic'.master.base = 32
    BY <2>1, <2>2, <1>a DEF Programming
  <2> QED BY <1>0, <1>4, <2>3 DEF Programmed
<1>5. CASE k = 4
  <2>1. pic' = [pic EXCEPT !.slave = S("start", 17)]
    BY <1>5, InitializeBytes
  <2>2. S("start", 17) \in Controller /\ S("start", 17).expects = "icw2" /\ S("start", 17).isr = {}
    BY <1>0, WrittenType
  <2>3. Programming' /\ pic'.slave.expects = "icw2" /\ pic'.master = pic.master
    BY <2>1, <2>2, <1>b
  <2> QED BY <1>0, <1>5, <2>3 DEF Programmed
<1>6. CASE k = 5
  <2>1. pic' = [pic EXCEPT !.slave = S("data", 40)]
    BY <1>6, InitializeBytes
  <2>2. /\ S("data", 40) \in Controller /\ S("data", 40).expects = "icw3"
        /\ S("data", 40).isr = {} /\ S("data", 40).base = 40
    BY <1>0, <1>6, WrittenType DEF Programmed, Programming
  <2>3. /\ Programming' /\ pic'.slave.expects = "icw3" /\ pic'.slave.base = 40
        /\ pic'.master = pic.master
    BY <2>1, <2>2, <1>b
  <2> QED BY <1>0, <1>6, <2>3 DEF Programmed
<1>7. CASE k = 6
  <2>1. pic' = [pic EXCEPT !.slave = S("data", 2)]
    BY <1>7, InitializeBytes
  <2>2. /\ S("data", 2) \in Controller /\ S("data", 2).expects = "icw4"
        /\ S("data", 2).isr = {} /\ S("data", 2).base = 40
    BY <1>0, <1>7, WrittenType DEF Programmed, Programming
  <2>3. /\ Programming' /\ pic'.slave.expects = "icw4" /\ pic'.slave.base = 40
        /\ pic'.master = pic.master
    BY <2>1, <2>2, <1>b
  <2> QED BY <1>0, <1>7, <2>3 DEF Programmed
<1>8. CASE k = 7
  <2>1. pic' = [pic EXCEPT !.slave = S("data", 1)]
    BY <1>8, InitializeBytes
  <2>2. /\ S("data", 1) \in Controller /\ S("data", 1).expects = "mask"
        /\ S("data", 1).isr = {} /\ S("data", 1).base = 40
    BY <1>0, <1>8, WrittenType DEF Programmed, Programming
  <2>3. /\ Programming' /\ pic'.slave.expects = "mask" /\ pic'.slave.base = 40
        /\ pic'.master = pic.master
    BY <2>1, <2>2, <1>b
  <2> QED BY <1>0, <1>8, <2>3 DEF Programmed
<1>9. k \in {0, 1, 2, 3, 4, 5, 6, 7}
  OBVIOUS
<1> QED BY <1>1, <1>2, <1>3, <1>4, <1>5, <1>6, <1>7, <1>8, <1>9, Zenon

LEMMA Written12 ==
    /\ \A a, b : Head(<<a, b>>) = a /\ Tail(<<a, b>>) = <<b>>
    /\ \A a : Head(<<a>>) = a /\ Tail(<<a>>) = <<>>
OBVIOUS

LEMMA WriteTo ==
    ASSUME PicWrite, NEW port, NEW byte
    PROVE  /\ Head(todo) = <<"master", port, byte>> =>
              pic' = [pic EXCEPT !.master = Written(pic.master, port, byte)]
           /\ Head(todo) = <<"slave", port, byte>> =>
              pic' = [pic EXCEPT !.slave = Written(pic.slave, port, byte)]
<1>1. LET w == Head(todo)
      IN  /\ w[1] = "master" => pic' = [pic EXCEPT !.master = Written(pic.master, w[2], w[3])]
          /\ w[1] # "master" => pic' = [pic EXCEPT !.slave = Written(pic.slave, w[2], w[3])]
  BY Zenon DEF PicWrite
<1>2. /\ <<"master", port, byte>>[1] = "master" /\ <<"master", port, byte>>[2] = port
      /\ <<"master", port, byte>>[3] = byte
  OBVIOUS
<1>3. /\ <<"slave", port, byte>>[1] # "master" /\ <<"slave", port, byte>>[2] = port
      /\ <<"slave", port, byte>>[3] = byte
  OBVIOUS
<1>4. ASSUME Head(todo) = <<"master", port, byte>>
      PROVE  pic' = [pic EXCEPT !.master = Written(pic.master, port, byte)]
  BY <1>1, <1>2, <1>4, Zenon
<1>5. ASSUME Head(todo) = <<"slave", port, byte>>
      PROVE  pic' = [pic EXCEPT !.slave = Written(pic.slave, port, byte)]
  BY <1>1, <1>3, <1>5, Zenon
<1> QED BY <1>4, <1>5

\* The controllers get a byte, and nothing else changes.
LEMMA OnlyPic ==
    ASSUME InterruptsInv, UNCHANGED <<piclock, flag, pc, irq, locks, actions>>,
           pic' \in [master : Controller, slave : Controller], 2 \notin pic'.master.irr
    PROVE  InterruptsTypeOK' /\ Where' /\ LockInv'
<1>1. InterruptsTypeOK'
  BY DEF InterruptsInv, InterruptsTypeOK
<1>2. Where' /\ LockInv'
  BY DEF InterruptsInv, Where, LockInv
<1> QED BY <1>1, <1>2

LEMMA PicWriteStep ==
    ASSUME InterruptsInv, PicWrite
    PROVE  InterruptsInv'
<1>1. /\ todo # <<>> /\ todo' = Tail(todo)
      /\ UNCHANGED <<piclock, flag, pc, irq, locks, actions>>
      /\ LET w == Head(todo)
         IN  pic' = IF w[1] = "master" THEN [pic EXCEPT !.master = Written(pic.master, w[2], w[3])]
                    ELSE [pic EXCEPT !.slave = Written(pic.slave, w[2], w[3])]
  BY DEF PicWrite
<1>2. /\ pic \in [master : Controller, slave : Controller] /\ 2 \notin pic.master.irr
      /\ pic.master \in Controller /\ pic.slave \in Controller
      /\ irq.at = "no" <=> irq = None
  BY PairType DEF InterruptsInv, InterruptsTypeOK
<1>3. CASE pc = "mask"
  <2>1. irq = None /\ irq.at = "no" /\ Programming
    BY <1>2, <1>3 DEF InterruptsInv, Where, TaskPlaces, ServiceInv, Programming
  <2>2. PICK k \in 0 .. 8 : /\ todo \in Seq(Writes) /\ Len(todo) = 8 - k
                            /\ \A j \in 1 .. 8 - k : todo[j] = initialize(irq_start)[k + j]
                            /\ Programmed(k)
    BY <1>3 DEF InterruptsInv, TodoInv
  <2>3. k \in 0 .. 7 /\ k + 1 \in 0 .. 8
    BY <1>1, <2>2
  <2>4. Head(todo) = initialize(irq_start)[k + 1]
    BY <2>2, <2>3
  <2>5. Programming' /\ Programmed(k + 1)'
    BY <1>1, <2>1, <2>2, <2>3, <2>4, NextByte
  <2>6. /\ todo' \in Seq(Writes) /\ Len(todo') = 8 - (k + 1)
        /\ \A j \in 1 .. 8 - (k + 1) : todo'[j] = initialize(irq_start)[(k + 1) + j]
    <3>1. todo' \in Seq(Writes) /\ Len(todo') = 8 - (k + 1)
      BY <1>1, <2>2, <2>3
    <3>2. ASSUME NEW j \in 1 .. 8 - (k + 1)
          PROVE  todo'[j] = initialize(irq_start)[(k + 1) + j]
      <4>1. todo'[j] = todo[j + 1]
        BY <1>1, <2>2, <2>3
      <4>2. j + 1 \in 1 .. 8 - k /\ k + (j + 1) = (k + 1) + j
        BY <2>3
      <4> QED BY <4>1, <4>2, <2>2
    <3> QED BY <3>1, <3>2
  <2>7. TodoInv'
    BY <1>1, <1>3, <2>1, <2>3, <2>5, <2>6 DEF TodoInv
  <2>8. ServiceInv'
    BY <1>1, <2>1, <2>5 DEF ServiceInv, Programming
  <2> QED BY <1>1, <2>5, <2>7, <2>8, OnlyPic DEF InterruptsInv, Programming
<1>4. CASE pc = "unmasked"
  <2>1. irq = None /\ irq.at = "no" /\ Programming /\ Programmed(8)
    BY <1>2, <1>4 DEF InterruptsInv, Where, TaskPlaces, ServiceInv, Programming, TodoInv
  <2>2. pic.master.expects = "mask" /\ pic.slave.expects = "mask" /\ {} \in SUBSET Int
    BY <2>1 DEF Programmed, Stage
  <2>3. maskInterrupt({}) = <<<<"master", "data", {}>>, <<"slave", "data", {}>>>>
    BY DEF maskInterrupt
  <2>4. CASE todo = maskInterrupt({})
    <3>1. todo' = <<<<"slave", "data", {}>>>> /\ Head(todo) = <<"master", "data", {}>>
      BY <1>1, <2>3, <2>4, Written12, Zenon
    <3>2. pic' = [pic EXCEPT !.master = Written(pic.master, "data", {})]
      BY <3>1, WriteTo, Zenon
    <3>3. LET e == Written(pic.master, "data", {})
          IN  /\ e \in Controller /\ e.isr = pic.master.isr /\ e.irr = pic.master.irr
              /\ e.expects = "mask" /\ e.base = pic.master.base
      BY <1>2, <2>2, WrittenType
    <3>4. pic' = [master |-> Written(pic.master, "data", {}), slave |-> pic.slave]
      BY <1>2, <3>2, <3>3, PairType
    <3>5. Programming' /\ Programmed(8)'
      BY <1>2, <2>1, <3>3, <3>4 DEF Programming, Programmed, Stage
    <3>6. TodoInv'
      BY <1>1, <1>4, <2>1, <3>1, <3>5 DEF TodoInv
    <3>7. ServiceInv'
      BY <1>1, <2>1, <3>5 DEF ServiceInv, Programming
    <3> QED BY <1>1, <3>5, <3>6, <3>7, OnlyPic DEF InterruptsInv, Programming
  <2>5. CASE todo = <<<<"slave", "data", {}>>>>
    <3>1. todo' = <<>> /\ Head(todo) = <<"slave", "data", {}>>
      BY <1>1, <2>5
    <3>2. pic' = [pic EXCEPT !.slave = Written(pic.slave, "data", {})]
      BY <3>1, WriteTo, Zenon
    <3>3. LET e == Written(pic.slave, "data", {})
          IN  /\ e \in Controller /\ e.isr = pic.slave.isr /\ e.irr = pic.slave.irr
              /\ e.expects = "mask" /\ e.base = pic.slave.base
      BY <1>2, <2>2, WrittenType
    <3>4. pic' = [master |-> pic.master, slave |-> Written(pic.slave, "data", {})]
      BY <1>2, <3>2, <3>3, PairType
    <3>5. Programming' /\ Programmed(8)'
      BY <1>2, <2>1, <3>3, <3>4 DEF Programming, Programmed, Stage
    <3>6. TodoInv'
      BY <1>1, <1>4, <2>1, <3>1, <3>5 DEF TodoInv
    <3>7. ServiceInv'
      BY <1>1, <2>1, <3>5 DEF ServiceInv, Programming
    <3> QED BY <1>1, <3>5, <3>6, <3>7, OnlyPic DEF InterruptsInv, Programming
  <2> QED BY <1>1, <1>4, <2>4, <2>5 DEF InterruptsInv, TodoInv
<1>5. CASE irq.at = "end"
  <2>1. todo = EndsLine /\ irq.line \in {0, 1} /\ irq # None
    BY <1>1, <1>2, <1>5 DEF InterruptsInv, TodoInv, ServiceInv
  <2>2. pic.master.isr = {irq.line} /\ pic.slave.isr = {} /\ irq.num - irq_start = irq.line
    BY <1>1, <1>5, <2>1 DEF InterruptsInv, ServiceInv
  <2>3. pc \in TaskPlaces
    BY <1>5, <2>1 DEF InterruptsInv, Where
  <2>4. todo' = <<>> /\ Head(todo) = <<"master", "EOI", 32>>
    BY <1>1, <2>1 DEF EndsLine
  <2>5. pic' = [pic EXCEPT !.master = Written(pic.master, "EOI", 32)]
    BY <1>1, <2>4
  <2>6. LET e == Written(pic.master, "EOI", 32)
        IN  /\ e \in Controller /\ e.isr = {} /\ e.irr = pic.master.irr
            /\ e.expects = pic.master.expects /\ e.base = pic.master.base
    BY <1>2, <2>1, <2>2, EndWritten
  <2>7. pic' = [master |-> Written(pic.master, "EOI", 32), slave |-> pic.slave]
    BY <1>2, <2>5, <2>6, PairType
  <2>8. /\ pic' \in [master : Controller, slave : Controller] /\ 2 \notin pic'.master.irr
        /\ pic'.master.isr = {} /\ pic'.slave.isr = {}
    BY <1>2, <2>2, <2>6, <2>7
  <2>9. Programmed(8)'
    BY <2>3, <2>6, <2>7 DEF InterruptsInv, TodoInv, TaskPlaces, Programmed
  <2>10. TodoInv'
    BY <1>1, <1>5, <2>3, <2>4, <2>9 DEF TodoInv, TaskPlaces
  <2>11. ServiceInv'
    BY <1>1, <1>5, <2>1, <2>2, <2>4, <2>8 DEF ServiceInv
  <2> QED BY <1>1, <2>8, <2>10, <2>11, OnlyPic DEF InterruptsInv
<1> QED BY <1>1, <1>3, <1>4, <1>5 DEF InterruptsInv, TodoInv

\* A step of main, with no interrupt and no lock of a task.
LEMMA BootKeeps ==
    ASSUME InterruptsInv, pc \in BootPlaces, UNCHANGED <<pic, irq, locks>>,
           actions' \in [0 .. 15 -> Seq({"timer", "keyboard"})],
           pc' \in BootPlaces \union {"panic"}, flag' = FALSE, piclock' = FALSE
    PROVE  InterruptsTypeOK' /\ Where' /\ LockInv' /\ ServiceInv'
<1>1. irq = None /\ irq.at = "no" /\ ~flag /\ locks = <<>>
  BY DEF InterruptsInv, InterruptsTypeOK, Where, LockInv, BootPlaces, TaskPlaces
<1>2. InterruptsTypeOK'
  <2>1. flag' \in BOOLEAN /\ piclock' \in BOOLEAN
    OBVIOUS
  <2> QED BY <2>1 DEF InterruptsInv, InterruptsTypeOK
<1>3. Where'
  BY <1>1 DEF Where
<1>4. LockInv'
  <2>1. /\ locks' = <<>> /\ irq' = None /\ irq'.at = "no" /\ ~piclock'
        /\ pc' # "noted" /\ pc' \notin TaskPlaces
    BY <1>1 DEF BootPlaces, TaskPlaces
  <2>2. \A i \in DOMAIN locks' : locks'[i] <=> i = Len(locks')
    BY <2>1
  <2> QED BY <2>1, <2>2, Zenon DEF LockInv
<1>5. ServiceInv'
  BY <1>1 DEF InterruptsInv, ServiceInv
<1> QED BY <1>2, <1>3, <1>4, <1>5

LEMMA BootState ==
    ASSUME InterruptsInv, pc \in BootPlaces
    PROVE  /\ irq = None /\ irq.at = "no" /\ flag = FALSE /\ piclock = FALSE /\ locks = <<>>
           /\ actions \in [0 .. 15 -> Seq({"timer", "keyboard"})]
<1>1. irq = None /\ irq.at = "no" /\ ~flag /\ ~piclock
  BY DEF InterruptsInv, InterruptsTypeOK, Where, LockInv, BootPlaces, TaskPlaces
<1>2. flag \in BOOLEAN /\ piclock \in BOOLEAN /\ locks = <<>>
      /\ actions \in [0 .. 15 -> Seq({"timer", "keyboard"})]
  BY DEF InterruptsInv, InterruptsTypeOK, LockInv
<1> QED BY <1>1, <1>2

LEMMA InitTablesStep ==
    ASSUME InterruptsInv, InitTables \/ BootFails
    PROVE  InterruptsInv'
<1>1. /\ UNCHANGED <<pic, todo, piclock, flag, irq, locks, actions>>
      /\ pc \in {"main", "loaded"} /\ pc' \in {"panic", "loaded"}
  BY Zenon DEF InitTables, BootFails, Boot, control
<1>2. pc \in BootPlaces /\ pc' \in BootPlaces \union {"panic"}
  BY <1>1 DEF BootPlaces
<1>3. /\ irq = None /\ irq.at = "no" /\ flag = FALSE /\ piclock = FALSE
      /\ actions \in [0 .. 15 -> Seq({"timer", "keyboard"})]
  BY <1>2, BootState
<1>4. InterruptsTypeOK' /\ Where' /\ LockInv' /\ ServiceInv'
  BY <1>1, <1>2, <1>3, BootKeeps
<1>5. TodoInv'
  BY <1>1, <1>3 DEF InterruptsInv, TodoInv
<1> QED BY <1>4, <1>5 DEF InterruptsInv

LEMMA InitializePicStep ==
    ASSUME InterruptsInv, InitializePic
    PROVE  InterruptsInv'
<1>1. /\ UNCHANGED <<pic, irq, locks, actions>> /\ pc = "loaded" /\ pc' = "mask"
      /\ piclock' = flag /\ flag' = FALSE /\ todo' = initialize(irq_start)
  BY DEF InitializePic, Boot, PicLock
<1>2. pc \in BootPlaces /\ pc' \in BootPlaces \union {"panic"}
  BY <1>1 DEF BootPlaces
<1>3. /\ irq = None /\ irq.at = "no" /\ flag = FALSE
      /\ actions \in [0 .. 15 -> Seq({"timer", "keyboard"})]
  BY <1>2, BootState
<1>4. InterruptsTypeOK' /\ Where' /\ LockInv' /\ ServiceInv'
  BY <1>1, <1>2, <1>3, BootKeeps
<1>5. Programmed(0)'
  BY DEF Programmed
<1>6. /\ todo' \in Seq(Writes) /\ Len(todo') = 8 - 0
      /\ \A j \in 1 .. 8 - 0 : todo'[j] = initialize(irq_start)[0 + j]
  BY <1>1, InitializeBytes
<1>7. \E k \in 0 .. 8 : /\ todo' \in Seq(Writes) /\ Len(todo') = 8 - k
                        /\ \A j \in 1 .. 8 - k : todo'[j] = initialize(irq_start)[k + j]
                        /\ Programmed(k)'
  <2>1. 0 \in 0 .. 8
    OBVIOUS
  <2> QED BY <1>5, <1>6, <2>1
<1>8. TodoInv'
  BY <1>1, <1>3, <1>7 DEF TodoInv
<1> QED BY <1>4, <1>8 DEF InterruptsInv

\* Once its eight bytes are written, a controller is as it should be.
LEMMA AllWritten ==
    ASSUME InterruptsInv, pc = "mask", todo = <<>>
    PROVE  Programmed(8)
<1>1. PICK k \in 0 .. 8 : Len(todo) = 8 - k /\ Programmed(k)
  BY DEF InterruptsInv, TodoInv
<1>2. k = 8
  BY <1>1
<1> QED BY <1>1, <1>2

LEMMA MaskSteps ==
    ASSUME InterruptsInv, UnmaskAll \/ Unmasked \/ InitTimer
    PROVE  InterruptsInv'
<1>1. CASE UnmaskAll
  <2>1. /\ UNCHANGED <<pic, irq, locks, actions>> /\ pc = "mask" /\ pc' = "unmasked"
        /\ piclock' = (flag \/ piclock) /\ flag' = FALSE /\ todo = <<>> /\ todo' = maskInterrupt({})
    BY <1>1 DEF UnmaskAll, Boot
  <2>2. pc \in BootPlaces /\ pc' \in BootPlaces \union {"panic"}
    BY <2>1 DEF BootPlaces
  <2>3. /\ irq.at = "no" /\ flag = FALSE /\ piclock = FALSE
        /\ actions \in [0 .. 15 -> Seq({"timer", "keyboard"})]
    BY <2>2, BootState
  <2>4. InterruptsTypeOK' /\ Where' /\ LockInv' /\ ServiceInv'
    BY <2>1, <2>2, <2>3, BootKeeps
  <2>5. Programmed(8)'
    BY <2>1, AllWritten DEF Programmed
  <2>6. TodoInv'
    BY <2>1, <2>3, <2>5 DEF TodoInv
  <2> QED BY <2>4, <2>6 DEF InterruptsInv
<1>2. CASE Unmasked
  <2>1. /\ UNCHANGED <<pic, todo, piclock, irq, locks, actions>> /\ pc = "unmasked" /\ pc' = "pit"
        /\ todo = <<>> /\ flag' = (flag \/ piclock)
    BY <1>2 DEF Unmasked, Boot, PicUnlock, control
  <2>2. pc \in BootPlaces /\ pc' \in BootPlaces \union {"panic"}
    BY <2>1 DEF BootPlaces
  <2>3. /\ irq.at = "no" /\ flag = FALSE /\ piclock = FALSE
        /\ actions \in [0 .. 15 -> Seq({"timer", "keyboard"})]
    BY <2>2, BootState
  <2>4. InterruptsTypeOK' /\ Where' /\ LockInv' /\ ServiceInv'
    BY <2>1, <2>2, <2>3, BootKeeps
  <2>5. TodoInv'
    BY <2>1, <2>3 DEF InterruptsInv, TodoInv, Programmed
  <2> QED BY <2>4, <2>5 DEF InterruptsInv
<1>3. CASE InitTimer
  <2>1. /\ UNCHANGED <<pic, todo, piclock, flag, irq, locks>> /\ pc = "pit" /\ pc' = "start"
        /\ actions' = [actions EXCEPT ![0] = <<"timer">> \o actions[0]]
    BY <1>3 DEF InitTimer, Boot, register_handler, control
  <2>2. pc \in BootPlaces /\ pc' \in BootPlaces \union {"panic"}
    BY <2>1 DEF BootPlaces
  <2>3. /\ irq.at = "no" /\ flag = FALSE /\ piclock = FALSE
        /\ actions \in [0 .. 15 -> Seq({"timer", "keyboard"})]
    BY <2>2, BootState
  <2>4. actions' \in [0 .. 15 -> Seq({"timer", "keyboard"})]
    <3>1. <<"timer">> \o actions[0] \in Seq({"timer", "keyboard"})
      BY <2>3
    <3> QED BY <2>1, <2>3, <3>1
  <2>5. InterruptsTypeOK' /\ Where' /\ LockInv' /\ ServiceInv'
    BY <2>1, <2>2, <2>3, <2>4, BootKeeps
  <2>6. TodoInv'
    BY <2>1, <2>3 DEF InterruptsInv, TodoInv, Programmed
  <2> QED BY <2>5, <2>6 DEF InterruptsInv
<1> QED BY <1>1, <1>2, <1>3

\* A task that is not interrupted.
LEMMA TaskState ==
    ASSUME InterruptsInv, pc \in TaskPlaces, irq = None
    PROVE  /\ irq.at = "no" /\ todo = <<>> /\ Programmed(8)
           /\ pic.master.isr = {} /\ pic.slave.isr = {}
           /\ pic \in [master : Controller, slave : Controller] /\ 2 \notin pic.master.irr
           /\ locks \in Seq(BOOLEAN) /\ flag \in BOOLEAN /\ piclock \in BOOLEAN
           /\ \A i \in DOMAIN locks : locks[i] <=> i = Len(locks)
           /\ flag <=> IF pc = "noted" THEN Len(locks) = 1 ELSE locks = <<>>
           /\ pc = "noted" => locks # <<>>
<1>1. irq.at = "no"
  BY DEF InterruptsInv, InterruptsTypeOK
<1>2. todo = <<>> /\ Programmed(8)
  BY <1>1 DEF InterruptsInv, TodoInv, TaskPlaces
<1>3. pic.master.isr = {} /\ pic.slave.isr = {}
  BY DEF InterruptsInv, ServiceInv
<1>4. /\ pic \in [master : Controller, slave : Controller] /\ 2 \notin pic.master.irr
      /\ locks \in Seq(BOOLEAN) /\ flag \in BOOLEAN /\ piclock \in BOOLEAN
  BY DEF InterruptsInv, InterruptsTypeOK
<1>5. /\ \A i \in DOMAIN locks : locks[i] <=> i = Len(locks)
      /\ flag <=> IF pc = "noted" THEN Len(locks) = 1 ELSE locks = <<>>
      /\ pc = "noted" => locks # <<>>
  BY Zenon DEF InterruptsInv, LockInv
<1> QED BY <1>1, <1>2, <1>3, <1>4, <1>5, Zenon

\* What a step of the task has to show: the locks, and the flag.
LEMMA TaskKeeps ==
    ASSUME InterruptsInv, pc \in TaskPlaces \union {"start"}, irq = None,
           UNCHANGED <<pic, todo, piclock, irq>>,
           pc' \in TaskPlaces, flag' \in BOOLEAN, locks' \in Seq(BOOLEAN),
           actions' \in [0 .. 15 -> Seq({"timer", "keyboard"})],
           \A i \in DOMAIN locks' : locks'[i] <=> i = Len(locks'),
           flag' <=> IF pc' = "noted" THEN Len(locks') = 1 ELSE locks' = <<>>,
           pc' = "noted" => locks' # <<>>
    PROVE  InterruptsInv'
<1>1. irq.at = "no" /\ irq'.at = "no" /\ irq' = None
  BY DEF InterruptsInv, InterruptsTypeOK
<1>2. InterruptsTypeOK'
  BY DEF InterruptsInv, InterruptsTypeOK
<1>3. Where'
  BY <1>1 DEF Where
<1>4. pc' \notin BootPlaces /\ pc' # "mask" /\ pc' # "unmasked"
  BY DEF BootPlaces, TaskPlaces
<1>5. LockInv'
  BY <1>1, <1>4, Zenon DEF LockInv
<1>6. Programmed(8)' /\ todo' = <<>>
  BY <1>1 DEF InterruptsInv, TodoInv, Programmed, TaskPlaces
<1>7. TodoInv'
  BY <1>1, <1>4, <1>6 DEF TodoInv
<1>8. ServiceInv'
  BY <1>1 DEF InterruptsInv, ServiceInv
<1> QED BY <1>2, <1>3, <1>5, <1>7, <1>8 DEF InterruptsInv

LEMMA StartSchedulingStep ==
    ASSUME InterruptsInv, StartScheduling
    PROVE  InterruptsInv'
<1>1. /\ UNCHANGED <<pic, todo, piclock, irq, locks, actions>>
      /\ pc = "start" /\ pc' = "code" /\ flag' = TRUE
  BY DEF StartScheduling, Boot, control
<1>2. pc \in BootPlaces /\ pc' \in TaskPlaces
  BY <1>1 DEF BootPlaces, TaskPlaces
<1>3. /\ irq = None /\ locks' = <<>>
      /\ actions \in [0 .. 15 -> Seq({"timer", "keyboard"})]
  BY <1>1, <1>2, BootState
<1>4. locks' \in Seq(BOOLEAN) /\ \A i \in DOMAIN locks' : locks'[i] <=> i = Len(locks')
  BY <1>3
<1> QED BY <1>1, <1>2, <1>3, <1>4, TaskKeeps

LEMMA RegisterKeyboardStep ==
    ASSUME InterruptsInv, RegisterKeyboard
    PROVE  InterruptsInv'
<1>1. /\ UNCHANGED <<pic, todo, piclock, flag, pc, irq, locks>> /\ irq = None /\ pc = "code"
      /\ actions' = [actions EXCEPT ![1] = <<"keyboard">> \o actions[1]]
  BY DEF RegisterKeyboard, Runs, register_handler, control
<1>2. pc \in TaskPlaces /\ pc' \in TaskPlaces
  BY <1>1 DEF TaskPlaces
<1>3. actions' \in [0 .. 15 -> Seq({"timer", "keyboard"})]
  <2>1. actions \in [0 .. 15 -> Seq({"timer", "keyboard"})]
    BY DEF InterruptsInv, InterruptsTypeOK
  <2>2. <<"keyboard">> \o actions[1] \in Seq({"timer", "keyboard"})
    BY <2>1
  <2> QED BY <1>1, <2>1, <2>2
<1> QED BY <1>1, <1>2, <1>3, TaskState, TaskKeeps

\* A lock notes the flag, which is set only if it is the outermost.
LEMMA NoteStep ==
    ASSUME InterruptsInv, Note
    PROVE  InterruptsInv'
<1>1. /\ UNCHANGED <<pic, todo, piclock, flag, irq, actions>> /\ irq = None
      /\ pc = "code" /\ pc' = "noted" /\ locks' = <<flag>> \o locks
  BY DEF Note, Runs, control
<1>2. pc \in TaskPlaces /\ pc' \in TaskPlaces
  BY <1>1 DEF TaskPlaces
<1>3. /\ locks \in Seq(BOOLEAN) /\ flag \in BOOLEAN /\ (flag <=> locks = <<>>)
      /\ \A i \in DOMAIN locks : locks[i] <=> i = Len(locks)
  BY <1>1, <1>2, TaskState
<1>4. /\ locks' \in Seq(BOOLEAN) /\ Len(locks') = Len(locks) + 1 /\ locks' # <<>>
      /\ DOMAIN locks' = 1 .. Len(locks) + 1 /\ locks'[1] = flag
      /\ \A i \in 2 .. Len(locks) + 1 : locks'[i] = locks[i - 1]
  BY <1>1, <1>3
<1>5. Len(locks) \in Nat /\ DOMAIN locks = 1 .. Len(locks) /\ (locks = <<>> <=> Len(locks) = 0)
  BY <1>3
<1>6. ASSUME NEW i \in DOMAIN locks'
      PROVE  locks'[i] <=> i = Len(locks')
  <2>1. CASE i = 1
    <3>1. i = Len(locks') <=> locks = <<>>
      BY <1>4, <1>5, <2>1
    <3> QED BY <1>3, <1>4, <2>1, <3>1, Zenon
  <2>2. CASE i # 1
    <3>1. i \in 2 .. Len(locks) + 1 /\ i - 1 \in DOMAIN locks
      BY <1>4, <1>5, <1>6, <2>2
    <3>2. i = Len(locks') <=> i - 1 = Len(locks)
      BY <1>4, <1>5, <3>1
    <3> QED BY <1>3, <1>4, <3>1, <3>2, Zenon
  <2> QED BY <2>1, <2>2
<1>7. Len(locks') = 1 <=> locks = <<>>
  BY <1>4, <1>5
<1>8. flag' <=> IF pc' = "noted" THEN Len(locks') = 1 ELSE locks' = <<>>
  BY <1>1, <1>3, <1>7, Zenon
<1>9. actions' \in [0 .. 15 -> Seq({"timer", "keyboard"})]
  BY <1>1 DEF InterruptsInv, InterruptsTypeOK
<1> QED BY <1>1, <1>2, <1>3, <1>4, <1>6, <1>8, <1>9, TaskKeeps

LEMMA ClearStep ==
    ASSUME InterruptsInv, Clear
    PROVE  InterruptsInv'
<1>1. /\ UNCHANGED <<pic, todo, piclock, irq, locks, actions>> /\ irq = None
      /\ pc = "noted" /\ pc' = "code" /\ flag' = FALSE
  BY DEF Clear, Runs, control
<1>2. pc \in TaskPlaces /\ pc' \in TaskPlaces /\ pc' # "noted"
  BY <1>1 DEF TaskPlaces
<1>3. /\ locks' # <<>> /\ locks' \in Seq(BOOLEAN)
      /\ \A i \in DOMAIN locks' : locks'[i] <=> i = Len(locks')
  BY <1>1, <1>2, TaskState
<1>4. flag' \in BOOLEAN /\ (flag' <=> IF pc' = "noted" THEN Len(locks') = 1 ELSE locks' = <<>>)
  BY <1>1, <1>2, <1>3, Zenon
<1>5. actions' \in [0 .. 15 -> Seq({"timer", "keyboard"})]
  BY <1>1 DEF InterruptsInv, InterruptsTypeOK
<1> QED BY <1>1, <1>2, <1>3, <1>4, <1>5, TaskKeeps

LEMMA TailOf ==
    ASSUME NEW S, NEW s \in Seq(S), s # <<>>
    PROVE  /\ Len(s) \in Nat \ {0} /\ DOMAIN s = 1 .. Len(s) /\ 1 \in DOMAIN s
           /\ Tail(s) \in Seq(S) /\ Len(Tail(s)) = Len(s) - 1
           /\ DOMAIN Tail(s) = 1 .. Len(s) - 1 /\ Head(s) = s[1]
           /\ \A i \in 1 .. Len(s) - 1 : Tail(s)[i] = s[i + 1]
OBVIOUS

LEMMA UnlockStep ==
    ASSUME InterruptsInv, Unlock
    PROVE  InterruptsInv'
<1>1. /\ UNCHANGED <<pic, todo, piclock, pc, irq, actions>> /\ irq = None
      /\ pc = "code" /\ locks # <<>> /\ locks' = Tail(locks) /\ flag' = (flag \/ Head(locks))
  BY DEF Unlock, Runs, control
<1>2. pc \in TaskPlaces /\ pc' \in TaskPlaces /\ pc' # "noted"
  BY <1>1 DEF TaskPlaces
<1>3. /\ locks \in Seq(BOOLEAN) /\ ~flag
      /\ \A i \in DOMAIN locks : locks[i] <=> i = Len(locks)
  BY <1>1, <1>2, TaskState
<1>4. /\ Len(locks) \in Nat \ {0} /\ DOMAIN locks = 1 .. Len(locks)
      /\ locks' \in Seq(BOOLEAN) /\ Len(locks') = Len(locks) - 1
      /\ DOMAIN locks' = 1 .. Len(locks) - 1 /\ (locks' = <<>> <=> 1 = Len(locks))
      /\ Head(locks) = locks[1] /\ 1 \in DOMAIN locks
      /\ \A i \in 1 .. Len(locks) - 1 : locks'[i] = locks[i + 1]
  <2>1. /\ Len(locks) \in Nat \ {0} /\ DOMAIN locks = 1 .. Len(locks) /\ 1 \in DOMAIN locks
        /\ locks' \in Seq(BOOLEAN) /\ Len(locks') = Len(locks) - 1
        /\ DOMAIN locks' = 1 .. Len(locks) - 1 /\ Head(locks) = locks[1]
        /\ \A i \in 1 .. Len(locks) - 1 : locks'[i] = locks[i + 1]
    BY <1>1, <1>3, TailOf, Zenon
  <2>2. locks' = <<>> <=> 1 = Len(locks)
    BY <2>1
  <2> QED BY <2>1, <2>2, Zenon
<1>5. ASSUME NEW i \in DOMAIN locks'
      PROVE  locks'[i] <=> i = Len(locks')
  <2>1. /\ i \in 1 .. Len(locks) - 1 /\ i + 1 \in DOMAIN locks
        /\ (i = Len(locks') <=> i + 1 = Len(locks))
    BY <1>4, <1>5
  <2> QED BY <1>3, <1>4, <2>1, Zenon
<1>6. flag' <=> IF pc' = "noted" THEN Len(locks') = 1 ELSE locks' = <<>>
  <2>1. flag' <=> locks[1]
    BY <1>1, <1>3, <1>4, Zenon
  <2>2. locks[1] <=> 1 = Len(locks)
    BY <1>3, <1>4, Zenon
  <2> QED BY <1>2, <1>4, <2>1, <2>2, Zenon
<1>7. flag' \in BOOLEAN
  BY <1>1, Zenon
<1>8. actions' \in [0 .. 15 -> Seq({"timer", "keyboard"})]
  BY <1>1 DEF InterruptsInv, InterruptsTypeOK
<1> QED BY <1>1, <1>2, <1>4, <1>5, <1>6, <1>7, <1>8, TaskKeeps

-----------------------------------------------------------------------------
(* The interrupt. *)

LEMMA MinIn ==
    ASSUME NEW S \in SUBSET (0 .. 7), S # {}
    PROVE  Min(S) \in S
<1> DEFINE P(n) == \E x \in S : x = n
<1>1. \E n \in 0 .. 7 : P(n) /\ \A m \in 0 .. n - 1 : ~P(m)
  <2>1. CASE 0 \in S  BY <2>1
  <2>2. CASE 0 \notin S /\ 1 \in S  BY <2>2
  <2>3. CASE 0 \notin S /\ 1 \notin S /\ 2 \in S  BY <2>3
  <2>4. CASE 0 \notin S /\ 1 \notin S /\ 2 \notin S /\ 3 \in S  BY <2>4
  <2>5. CASE 0 \notin S /\ 1 \notin S /\ 2 \notin S /\ 3 \notin S /\ 4 \in S  BY <2>5
  <2>6. CASE 0 \notin S /\ 1 \notin S /\ 2 \notin S /\ 3 \notin S /\ 4 \notin S /\ 5 \in S  BY <2>6
  <2>7. CASE /\ 0 \notin S /\ 1 \notin S /\ 2 \notin S /\ 3 \notin S /\ 4 \notin S /\ 5 \notin S
             /\ 6 \in S
    BY <2>7
  <2>8. CASE /\ 0 \notin S /\ 1 \notin S /\ 2 \notin S /\ 3 \notin S /\ 4 \notin S /\ 5 \notin S
             /\ 6 \notin S
    <3>1. PICK x \in S : x \in 0 .. 7
      OBVIOUS
    <3>2. x = 7
      BY <2>8, <3>1
    <3> QED BY <2>8, <3>1, <3>2
  <2> QED BY <2>1, <2>2, <2>3, <2>4, <2>5, <2>6, <2>7, <2>8
<1>2. \E x \in S : \A y \in S : x <= y
  BY <1>1
<1> QED BY <1>2 DEF Min

IrqType == [num : Int, line : Int,
            at : {"no", "enter", "walk", "end", "iretq", "panic"},
            walk : Seq({"timer", "keyboard"})]

\* The task that is interrupted keeps its locks, and had the flag set.
LEMMA InterruptKeeps ==
    ASSUME InterruptsInv, UNCHANGED <<pc, locks, actions>>, pc \in TaskPlaces,
           IF irq = None THEN flag ELSE TRUE,
           pic' \in [master : Controller, slave : Controller], 2 \notin pic'.master.irr,
           flag' = FALSE, piclock' \in BOOLEAN, irq' \in IrqType,
           irq'.at \notin {"no", "panic"}, irq'.at = "end" => ~piclock'
    PROVE  InterruptsTypeOK' /\ Where' /\ LockInv'
<1>1. irq' # None
  BY DEF None
<1>2. pc \notin BootPlaces /\ pc # "panic"
  BY DEF BootPlaces, TaskPlaces
<1>3. InterruptsTypeOK'
  <2>1. flag' \in BOOLEAN
    OBVIOUS
  <2> QED BY <1>1, <2>1 DEF InterruptsInv, InterruptsTypeOK, IrqType
<1>4. Where'
  BY <1>1, <1>2 DEF Where
<1>5. /\ pc = "noted" => locks # <<>>
      /\ \A i \in DOMAIN locks : locks[i] <=> i = Len(locks)
      /\ IF pc = "noted" THEN Len(locks) = 1 ELSE locks = <<>>
  BY Zenon DEF InterruptsInv, LockInv
<1>6. ~flag'
  OBVIOUS
<1>7. LockInv'
  BY <1>1, <1>2, <1>5, <1>6, Zenon DEF LockInv
<1> QED BY <1>3, <1>4, <1>7

\* Only a task is interrupted.
LEMMA FlagMeansTask ==
    ASSUME InterruptsInv, flag, irq = None
    PROVE  pc \in TaskPlaces
BY DEF InterruptsInv, Where

LEMMA NoneType == None \in IrqType /\ None.at = "no"
BY DEF None, IrqType

LEMMA EnterType ==
    ASSUME NEW num \in Int, NEW line \in Int
    PROVE  LET i == [None EXCEPT !.num = num, !.line = line, !.at = "enter"]
           IN  i \in IrqType /\ i.num = num /\ i.line = line /\ i.at = "enter"
<1>1. ASSUME NEW n \in IrqType
      PROVE  LET i == [n EXCEPT !.num = num, !.line = line, !.at = "enter"]
             IN  i \in IrqType /\ i.num = num /\ i.line = line /\ i.at = "enter"
  BY DEF IrqType
<1> QED BY <1>1, NoneType, Zenon

LEMMA AcceptSpuriousStep ==
    ASSUME InterruptsInv, AcceptSpurious
    PROVE  InterruptsInv'
<1>1. /\ UNCHANGED <<pic, todo, piclock, pc, locks, actions>> /\ flag /\ irq = None
      /\ irq' = [None EXCEPT !.num = pic.master.base + 7, !.line = 7, !.at = "enter"]
      /\ flag' = FALSE
  BY DEF AcceptSpurious, control
<1>2. pc \in TaskPlaces
  BY <1>1, FlagMeansTask
<1>3. /\ todo = <<>> /\ Programmed(8) /\ pic.master.isr = {} /\ pic.slave.isr = {}
      /\ pic \in [master : Controller, slave : Controller] /\ 2 \notin pic.master.irr
      /\ piclock \in BOOLEAN
  BY <1>1, <1>2, TaskState
<1>4. pic.master.base = 32
  BY <1>3 DEF Programmed, irq_start
<1>5. irq' \in IrqType /\ irq'.num = 39 /\ irq'.line = 7 /\ irq'.at = "enter"
  <2>1. PICK num \in Int, line \in Int : num = pic.master.base + 7 /\ line = 7 /\ num = 39
    BY <1>4
  <2>2. irq' = [None EXCEPT !.num = num, !.line = line, !.at = "enter"]
    BY <1>1, <2>1, Zenon
  <2>3. irq' \in IrqType /\ irq'.num = num /\ irq'.line = line /\ irq'.at = "enter"
    BY <2>2, EnterType, Zenon
  <2> QED BY <2>1, <2>3
<1>6. InterruptsTypeOK' /\ Where' /\ LockInv'
  BY <1>1, <1>2, <1>3, <1>5, InterruptKeeps
<1>7. TodoInv'
  BY <1>1, <1>2, <1>3, <1>5 DEF TodoInv, TaskPlaces, Programmed
<1>8. irq' # None
  BY <1>5, NoneType
<1>9. ServiceInv'
  BY <1>5, <1>8 DEF ServiceInv, irq_start
<1> QED BY <1>6, <1>7, <1>9 DEF InterruptsInv

\* The request that is taken, and the number under which it arrives.
LEMMA AcceptStep ==
    ASSUME InterruptsInv, Accept
    PROVE  InterruptsInv'
<1> DEFINE m == Min(FromMaster)
           s == Min(FromSlave)
<1>1. /\ UNCHANGED <<todo, piclock, pc, locks, actions>> /\ flag /\ irq = None
      /\ flag' = FALSE /\ FromMaster # {}
      /\ IF m = 2
         THEN /\ pic' = [[pic EXCEPT !.master = Acknowledged(pic.master, 2)]
                            EXCEPT !.slave = Acknowledged(pic.slave, s)]
              /\ irq' = [None EXCEPT !.num = pic.slave.base + s, !.line = 8 + s, !.at = "enter"]
         ELSE /\ pic' = [pic EXCEPT !.master = Acknowledged(pic.master, m)]
              /\ irq' = [None EXCEPT !.num = pic.master.base + m, !.line = m, !.at = "enter"]
  BY DEF Accept
<1>2. pc \in TaskPlaces
  BY <1>1, FlagMeansTask
<1>3. /\ todo = <<>> /\ Programmed(8) /\ pic.master.isr = {} /\ pic.slave.isr = {}
      /\ pic \in [master : Controller, slave : Controller] /\ 2 \notin pic.master.irr
      /\ piclock \in BOOLEAN
  BY <1>1, <1>2, TaskState
<1>4. /\ pic.master.base = 32 /\ pic.slave.base = 40
      /\ pic.master \in Controller /\ pic.slave \in Controller
  BY <1>3, PairType DEF Programmed, irq_start
<1>5. /\ FromMaster \in SUBSET (0 .. 7) /\ FromSlave \in SUBSET (0 .. 7)
      /\ 2 \in FromMaster => FromSlave # {}
  <2>1. pic.master.irr \in SUBSET (0 .. 7) /\ pic.slave.irr \in SUBSET (0 .. 7)
    BY <1>4 DEF Controller
  <2>2. FromSlave \in SUBSET (0 .. 7)
    BY <2>1 DEF FromSlave, Through
  <2>3. FromMaster \subseteq pic.master.irr \union (IF Cascaded /\ FromSlave # {} THEN {2} ELSE {})
    BY Zenon DEF FromMaster, Through
  <2> QED BY <1>3, <2>1, <2>2, <2>3
<1>6. m \in 0 .. 7 /\ m \in FromMaster /\ (m = 2 => s \in 0 .. 7)
  BY <1>1, <1>5, MinIn
<1> HIDE DEF m, s
<1> DEFINE Taken(num, line) ==
             /\ irq' \in IrqType /\ irq'.num = num /\ irq'.line = line /\ irq'.at = "enter"
             /\ pic' \in [master : Controller, slave : Controller] /\ 2 \notin pic'.master.irr
             /\ pic'.master.expects = pic.master.expects /\ pic'.master.base = pic.master.base
             /\ pic'.slave.expects = pic.slave.expects /\ pic'.slave.base = pic.slave.base
             /\ line \in {0, 1} => pic'.master.isr = {line} /\ pic'.slave.isr = {}
<1>7. ASSUME m = 2 PROVE Taken(40 + s, 8 + s)
  <2>1. s \in 0 .. 7
    BY <1>6, <1>7
  <2>2. /\ Acknowledged(pic.master, 2) \in Controller /\ Acknowledged(pic.slave, s) \in Controller
        /\ Acknowledged(pic.master, 2).irr = pic.master.irr \ {2}
        /\ Acknowledged(pic.master, 2).expects = pic.master.expects
        /\ Acknowledged(pic.master, 2).base = pic.master.base
        /\ Acknowledged(pic.slave, s).expects = pic.slave.expects
        /\ Acknowledged(pic.slave, s).base = pic.slave.base
    <3>1. 2 \in 0 .. 7
      OBVIOUS
    <3> QED BY <1>4, <2>1, <3>1, AcknowledgedType
  <2>3. pic' = [master |-> Acknowledged(pic.master, 2), slave |-> Acknowledged(pic.slave, s)]
    <3>1. [pic EXCEPT !.master = Acknowledged(pic.master, 2)]
             = [master |-> Acknowledged(pic.master, 2), slave |-> pic.slave]
      BY <1>3, <2>2, PairType
    <3>2. [master |-> Acknowledged(pic.master, 2), slave |-> pic.slave]
             \in [master : Controller, slave : Controller]
      BY <1>4, <2>2
    <3> DEFINE p == [master |-> Acknowledged(pic.master, 2), slave |-> pic.slave]
    <3>3. pic' = [p EXCEPT !.slave = Acknowledged(pic.slave, s)]
      BY <1>1, <1>7, <3>1, Zenon
    <3>4. p.master = Acknowledged(pic.master, 2)
      OBVIOUS
    <3> HIDE DEF p
    <3>5. [p EXCEPT !.slave = Acknowledged(pic.slave, s)]
             = [master |-> p.master, slave |-> Acknowledged(pic.slave, s)]
      BY <2>2, <3>2, PairType DEF p
    <3> QED BY <3>3, <3>4, <3>5
  <2>4. irq' = [None EXCEPT !.num = 40 + s, !.line = 8 + s, !.at = "enter"]
    BY <1>1, <1>4, <1>7
  <2>5. irq' \in IrqType /\ irq'.num = 40 + s /\ irq'.line = 8 + s /\ irq'.at = "enter"
    <3>1. PICK num \in Int, line \in Int : num = 40 + s /\ line = 8 + s
      BY <2>1
    <3>2. irq' = [None EXCEPT !.num = num, !.line = line, !.at = "enter"]
      BY <2>4, <3>1
    <3>3. irq' \in IrqType /\ irq'.num = num /\ irq'.line = line /\ irq'.at = "enter"
      BY <3>2, EnterType, Zenon
    <3> QED BY <3>1, <3>3
  <2>6. 8 + s \notin {0, 1}
    BY <2>1
  <2> QED BY <1>3, <2>2, <2>3, <2>5, <2>6
<1>8. ASSUME m # 2 PROVE Taken(32 + m, m)
  <2>1. /\ Acknowledged(pic.master, m) \in Controller
        /\ Acknowledged(pic.master, m).irr = pic.master.irr \ {m}
        /\ Acknowledged(pic.master, m).isr = pic.master.isr \union {m}
        /\ Acknowledged(pic.master, m).expects = pic.master.expects
        /\ Acknowledged(pic.master, m).base = pic.master.base
    BY <1>4, <1>6, AcknowledgedType
  <2>2. pic' = [master |-> Acknowledged(pic.master, m), slave |-> pic.slave]
    BY <1>1, <1>3, <1>8, <2>1, PairType
  <2>3. irq' = [None EXCEPT !.num = 32 + m, !.line = m, !.at = "enter"]
    BY <1>1, <1>4, <1>8
  <2>4. irq' \in IrqType /\ irq'.num = 32 + m /\ irq'.line = m /\ irq'.at = "enter"
    <3>1. PICK num \in Int, line \in Int : num = 32 + m /\ line = m
      BY <1>6
    <3>2. irq' = [None EXCEPT !.num = num, !.line = line, !.at = "enter"]
      BY <2>3, <3>1
    <3>3. irq' \in IrqType /\ irq'.num = num /\ irq'.line = line /\ irq'.at = "enter"
      BY <3>2, EnterType, Zenon
    <3> QED BY <3>1, <3>3
  <2> QED BY <1>3, <1>4, <2>1, <2>2, <2>4
<1>9. PICK num, line \in Int : Taken(num, line) /\ num - 32 = line
  <2>1. ASSUME m = 2 PROVE s \in 0 .. 7
    BY <1>6, <2>1
  <2>2. CASE m = 2
    <3>1. 40 + s \in Int /\ 8 + s \in Int /\ (40 + s) - 32 = 8 + s
      BY <2>1, <2>2
    <3> QED BY <1>7, <2>2, <3>1, Zenon
  <2>3. CASE m # 2
    <3>1. 32 + m \in Int /\ m \in Int /\ (32 + m) - 32 = m
      BY <1>6
    <3> QED BY <1>8, <2>3, <3>1, Zenon
  <2> QED BY <2>2, <2>3
<1>10. InterruptsTypeOK' /\ Where' /\ LockInv'
  BY <1>1, <1>2, <1>3, <1>9, InterruptKeeps
<1>11. Programmed(8)'
  BY <1>3, <1>9 DEF Programmed
<1>12. TodoInv'
  BY <1>1, <1>2, <1>3, <1>9, <1>11 DEF TodoInv, TaskPlaces
<1>13. irq' # None
  BY <1>9, NoneType
<1>14. ServiceInv'
  BY <1>9, <1>13 DEF ServiceInv, irq_start
<1> QED BY <1>10, <1>12, <1>14 DEF InterruptsInv

\* What the invariant says of the handler.
LEMMA HandlerState ==
    ASSUME InterruptsInv, irq.at \in {"enter", "walk", "end", "iretq"}
    PROVE  /\ irq # None /\ irq \in IrqType /\ pc \in TaskPlaces /\ ~flag
           /\ flag \in BOOLEAN /\ piclock \in BOOLEAN /\ Programmed(8)
           /\ pic \in [master : Controller, slave : Controller] /\ 2 \notin pic.master.irr
           /\ irq.num - irq_start = irq.line
           /\ irq.at # "end" => todo = <<>>
           /\ actions \in [0 .. 15 -> Seq({"timer", "keyboard"})]
<1>1. /\ irq # None /\ irq \in IrqType
      /\ flag \in BOOLEAN /\ piclock \in BOOLEAN
      /\ pic \in [master : Controller, slave : Controller] /\ 2 \notin pic.master.irr
      /\ actions \in [0 .. 15 -> Seq({"timer", "keyboard"})]
  BY DEF InterruptsInv, InterruptsTypeOK, IrqType
<1>2. pc \in TaskPlaces
  BY <1>1 DEF InterruptsInv, Where
<1>3. ~flag
  BY <1>1, Zenon DEF InterruptsInv, LockInv
<1>4. Programmed(8) /\ (irq.at # "end" => todo = <<>>)
  BY <1>2 DEF InterruptsInv, TodoInv, TaskPlaces
<1>5. irq.num - irq_start = irq.line
  BY <1>1 DEF InterruptsInv, ServiceInv
<1> QED BY <1>1, <1>2, <1>3, <1>4, <1>5

LEMMA EnterStep ==
    ASSUME InterruptsInv, Enter
    PROVE  InterruptsInv'
<1>1. /\ UNCHANGED <<pic, todo, piclock, flag, pc, locks, actions>>
      /\ irq.at = "enter" /\ irq.num \in {32, 33}
      /\ irq' = [irq EXCEPT !.at = "walk", !.walk = actions[irq.num - irq_start]]
  BY DEF Enter, control
<1>2. /\ irq # None /\ irq \in IrqType /\ pc \in TaskPlaces /\ ~flag
      /\ flag \in BOOLEAN /\ piclock \in BOOLEAN /\ Programmed(8)
      /\ pic \in [master : Controller, slave : Controller] /\ 2 \notin pic.master.irr
      /\ irq.num - irq_start = irq.line /\ todo = <<>>
      /\ actions \in [0 .. 15 -> Seq({"timer", "keyboard"})]
  BY <1>1, HandlerState
<1>3. irq.line \in {0, 1}
  <2>1. irq.line = irq.num - 32 /\ irq.num \in {32, 33}
    BY <1>1, <1>2 DEF irq_start
  <2>2. 32 - 32 = 0 /\ 33 - 32 = 1
    OBVIOUS
  <2> QED BY <2>1, <2>2, Zenon
<1>4. pic.master.isr = {irq.line} /\ pic.slave.isr = {}
  BY <1>1, <1>3 DEF InterruptsInv, ServiceInv
<1>5. irq' \in IrqType /\ irq'.num = irq.num /\ irq'.line = irq.line /\ irq'.at = "walk"
  <2>1. actions[irq.num - irq_start] \in Seq({"timer", "keyboard"})
    <3>1. irq.line \in 0 .. 15
      BY <1>3
    <3> QED BY <1>2, <3>1, Zenon
  <2> QED BY <1>1, <1>2, <2>1 DEF IrqType
<1>6. flag' = FALSE
  BY <1>1, <1>2
<1>7. InterruptsTypeOK' /\ Where' /\ LockInv'
  BY <1>1, <1>2, <1>5, <1>6, InterruptKeeps
<1>8. TodoInv'
  BY <1>1, <1>2, <1>5 DEF TodoInv, TaskPlaces, Programmed
<1>9. ServiceInv'
  BY <1>1, <1>2, <1>3, <1>4, <1>5, NoneType DEF ServiceInv
<1> QED BY <1>7, <1>8, <1>9 DEF InterruptsInv

LEMMA TopHalfStep ==
    ASSUME InterruptsInv, TopHalf
    PROVE  InterruptsInv'
<1>1. /\ UNCHANGED <<pic, todo, piclock, flag, pc, locks, actions>>
      /\ irq.at = "walk" /\ irq.walk # <<>>
      /\ \/ irq' = [irq EXCEPT !.walk = <<>>]
         \/ irq' = [irq EXCEPT !.walk = Tail(irq.walk)]
  BY DEF TopHalf, control
<1>2. /\ irq # None /\ irq \in IrqType /\ pc \in TaskPlaces /\ ~flag
      /\ flag \in BOOLEAN /\ piclock \in BOOLEAN /\ Programmed(8)
      /\ pic \in [master : Controller, slave : Controller] /\ 2 \notin pic.master.irr
      /\ irq.num - irq_start = irq.line /\ todo = <<>>
  BY <1>1, HandlerState
<1>3. /\ pic.master.isr = {irq.line} /\ pic.slave.isr = {} /\ irq.line \in {0, 1}
  BY <1>1 DEF InterruptsInv, ServiceInv
<1>4. irq' \in IrqType /\ irq'.num = irq.num /\ irq'.line = irq.line /\ irq'.at = "walk"
  <2>1. <<>> \in Seq({"timer", "keyboard"}) /\ Tail(irq.walk) \in Seq({"timer", "keyboard"})
    BY <1>1, <1>2 DEF IrqType
  <2> QED BY <1>1, <1>2, <2>1 DEF IrqType
<1>5. flag' = FALSE
  BY <1>1, <1>2
<1>6. InterruptsTypeOK' /\ Where' /\ LockInv'
  BY <1>1, <1>2, <1>4, <1>5, InterruptKeeps
<1>7. TodoInv'
  BY <1>1, <1>2, <1>4 DEF TodoInv, TaskPlaces, Programmed
<1>8. ServiceInv'
  BY <1>1, <1>2, <1>3, <1>4, NoneType DEF ServiceInv
<1> QED BY <1>6, <1>7, <1>8 DEF InterruptsInv

LEMMA EndStep ==
    ASSUME InterruptsInv, End
    PROVE  InterruptsInv'
<1>1. /\ UNCHANGED <<pic, pc, locks, actions>> /\ irq.at = "walk"
      /\ piclock' = flag /\ flag' = FALSE /\ todo' = sendEOI(irq.num - irq_start)
      /\ irq' = [irq EXCEPT !.at = "end"]
  BY DEF End, PicLock
<1>2. /\ irq # None /\ irq \in IrqType /\ pc \in TaskPlaces /\ ~flag
      /\ flag \in BOOLEAN /\ piclock \in BOOLEAN /\ Programmed(8)
      /\ pic \in [master : Controller, slave : Controller] /\ 2 \notin pic.master.irr
      /\ irq.num - irq_start = irq.line
  BY <1>1, HandlerState
<1>3. /\ pic.master.isr = {irq.line} /\ pic.slave.isr = {} /\ irq.line \in {0, 1}
  BY <1>1 DEF InterruptsInv, ServiceInv
<1>4. irq' \in IrqType /\ irq'.num = irq.num /\ irq'.line = irq.line /\ irq'.at = "end"
  BY <1>1, <1>2 DEF IrqType
<1>5. piclock' = FALSE
  BY <1>1, <1>2
<1>6. InterruptsTypeOK' /\ Where' /\ LockInv'
  BY <1>1, <1>2, <1>4, <1>5, InterruptKeeps
<1>7. todo' = EndsLine
  <2>1. ~(8 <= irq.num - irq_start)
    BY <1>2, <1>3
  <2>2. todo' = <<<<"master", "EOI", 32>>>> \o <<>>
    BY <1>1, <2>1, Zenon DEF sendEOI
  <2>3. \A a : <<a>> \o <<>> = <<a>>
    OBVIOUS
  <2> QED BY <2>2, <2>3, Zenon DEF EndsLine
<1>8. TodoInv'
  BY <1>1, <1>2, <1>4, <1>7 DEF TodoInv, TaskPlaces, Programmed
<1>9. todo' # <<>>
  <2>1. \A a : <<a>> # <<>>
    OBVIOUS
  <2> QED BY <1>7, <2>1, Zenon DEF EndsLine
<1>10. ServiceInv'
  BY <1>1, <1>2, <1>3, <1>4, <1>9, NoneType DEF ServiceInv
<1> QED BY <1>6, <1>8, <1>10 DEF InterruptsInv

\* The end has been written: nothing is in service any more.
LEMMA ReturnStep ==
    ASSUME InterruptsInv, Return
    PROVE  InterruptsInv'
<1>1. /\ UNCHANGED <<pic, todo, piclock, pc, locks, actions>> /\ irq.at = "end"
      /\ todo = <<>> /\ flag' = (flag \/ piclock) /\ irq' = [irq EXCEPT !.at = "iretq"]
  BY DEF Return, PicUnlock, control
<1>2. /\ irq # None /\ irq \in IrqType /\ pc \in TaskPlaces /\ ~flag
      /\ flag \in BOOLEAN /\ piclock \in BOOLEAN /\ Programmed(8)
      /\ pic \in [master : Controller, slave : Controller] /\ 2 \notin pic.master.irr
      /\ irq.num - irq_start = irq.line
  BY <1>1, HandlerState
<1>3. pic.master.isr = {} /\ pic.slave.isr = {}
  BY <1>1 DEF InterruptsInv, ServiceInv
<1>4. irq' \in IrqType /\ irq'.num = irq.num /\ irq'.line = irq.line /\ irq'.at = "iretq"
  BY <1>1, <1>2 DEF IrqType
<1>5. flag' = FALSE
  <2>1. ~piclock
    BY <1>1, Zenon DEF InterruptsInv, LockInv
  <2> QED BY <1>1, <1>2, <2>1
<1>6. InterruptsTypeOK' /\ Where' /\ LockInv'
  BY <1>1, <1>2, <1>4, <1>5, InterruptKeeps
<1>7. TodoInv'
  BY <1>1, <1>2, <1>4 DEF TodoInv, TaskPlaces, Programmed
<1>8. ServiceInv'
  BY <1>1, <1>2, <1>3, <1>4 DEF ServiceInv
<1> QED BY <1>6, <1>7, <1>8 DEF InterruptsInv

\* The task goes on where it was, with the flag it had.
LEMMA IretqStep ==
    ASSUME InterruptsInv, Iretq
    PROVE  InterruptsInv'
<1>1. /\ UNCHANGED <<pic, todo, piclock, pc, locks, actions>> /\ irq.at = "iretq"
      /\ irq' = None /\ flag' = TRUE
  BY DEF Iretq, control
<1>2. /\ irq # None /\ pc \in TaskPlaces /\ piclock \in BOOLEAN /\ Programmed(8) /\ todo = <<>>
      /\ pic \in [master : Controller, slave : Controller] /\ 2 \notin pic.master.irr
  BY <1>1, HandlerState
<1>3. pic.master.isr = {} /\ pic.slave.isr = {}
  BY <1>1 DEF InterruptsInv, ServiceInv
<1>4. InterruptsTypeOK'
  <2>1. flag' \in BOOLEAN
    BY <1>1
  <2>2. irq' \in IrqType /\ irq'.at = "no"
    BY <1>1, NoneType
  <2> QED BY <1>1, <2>1, <2>2 DEF InterruptsInv, InterruptsTypeOK, IrqType
<1>5. Where'
  BY <1>1, <1>2 DEF Where
<1>6. /\ pc = "noted" => locks # <<>>
      /\ \A i \in DOMAIN locks : locks[i] <=> i = Len(locks)
      /\ IF pc = "noted" THEN Len(locks) = 1 ELSE locks = <<>>
  BY <1>1, <1>2, Zenon DEF InterruptsInv, LockInv
<1>7. pc \notin BootPlaces /\ irq'.at # "end" /\ flag'
  BY <1>1, <1>2, NoneType DEF BootPlaces, TaskPlaces
<1>8. LockInv'
  BY <1>1, <1>6, <1>7, Zenon DEF LockInv
<1>9. TodoInv'
  BY <1>1, <1>2, <1>7 DEF TodoInv, TaskPlaces, Programmed
<1>10. ServiceInv'
  BY <1>1, <1>3, NoneType DEF ServiceInv
<1> QED BY <1>4, <1>5, <1>8, <1>9, <1>10 DEF InterruptsInv

LEMMA PanicStep ==
    ASSUME InterruptsInv, Panic
    PROVE  InterruptsInv'
<1>1. /\ UNCHANGED <<pic, todo, piclock, flag, locks, actions>> /\ irq.at = "enter"
      /\ irq' = [irq EXCEPT !.at = "panic"] /\ pc' = "panic"
  BY DEF Panic, control
<1>2. /\ irq # None /\ irq \in IrqType /\ ~flag /\ todo = <<>>
      /\ irq.num - irq_start = irq.line
  BY <1>1, HandlerState
<1>3. irq' \in IrqType /\ irq'.num = irq.num /\ irq'.line = irq.line /\ irq'.at = "panic"
  BY <1>1, <1>2 DEF IrqType
<1>4. irq' # None
  BY <1>3, NoneType
<1>5. InterruptsTypeOK'
  BY <1>1, <1>3, <1>4 DEF InterruptsInv, InterruptsTypeOK, IrqType
<1>6. Where'
  BY <1>1, <1>3, <1>4 DEF Where
<1>7. /\ \A i \in DOMAIN locks : locks[i] <=> i = Len(locks)
      /\ pc' \notin BootPlaces /\ pc' \notin TaskPlaces /\ pc' # "noted"
  <2>1. pc' \notin BootPlaces /\ pc' \notin TaskPlaces /\ pc' # "noted"
    BY <1>1 DEF BootPlaces, TaskPlaces
  <2> QED BY <2>1, Zenon DEF InterruptsInv, LockInv
<1>8. ~flag' /\ irq'.at # "end"
  BY <1>1, <1>2, <1>3
<1>9. LockInv'
  BY <1>1, <1>7, <1>8, Zenon DEF LockInv
<1>10. TodoInv'
  BY <1>1, <1>2, <1>3 DEF TodoInv
<1>11. ServiceInv'
  BY <1>2, <1>3, <1>4 DEF ServiceInv
<1> QED BY <1>5, <1>6, <1>9, <1>10, <1>11 DEF InterruptsInv

-----------------------------------------------------------------------------
\* Every state has the controllers programmed as far as main has come, only
\* the line that is handled in service, and the flag found by the outermost
\* lock alone (pic8259.cpp, interrupt.cpp, interrupt_lock.h): the invariant
\* behind the two theorems below.
THEOREM InterruptsInvariant == Spec => []InterruptsInv
<1>1. Init => InterruptsInv
  BY InitInv
<1>2. InterruptsInv /\ [Next]_vars => InterruptsInv'
  <2> SUFFICES ASSUME InterruptsInv, [Next]_vars PROVE InterruptsInv'
    OBVIOUS
  <2>1. CASE Booting \/ BootFails
    BY <2>1, InitTablesStep, InitializePicStep, MaskSteps, StartSchedulingStep, Zenon DEF Booting
  <2>2. ASSUME (\E ms \in 1 .. MaxMs : waitMs(ms)) \/ Waiting \/ Pulse
        PROVE  InterruptsInv'
    <3>1. UNCHANGED <<pic, todo, piclock, flag, pc, irq, locks, actions>>
      BY <2>2, Zenon DEF waitMs, Waiting, BeginLoop, FirstLook, Look, Pulse, control
    <3> QED BY <3>1, OtherSteps
  <2>3. CASE PicWrite
    BY <2>3, PicWriteStep
  <2>4. CASE RegisterKeyboard \/ Note \/ Clear \/ Unlock
    BY <2>4, RegisterKeyboardStep, NoteStep, ClearStep, UnlockStep
  <2>5. CASE Accept \/ AcceptSpurious \/ Panic
    BY <2>5, AcceptStep, AcceptSpuriousStep, PanicStep
  <2>6. CASE Handling
    BY <2>6, EnterStep, TopHalfStep, EndStep, ReturnStep, IretqStep DEF Handling
  <2>7. CASE \E l \in Lines : Request(l)
    BY <2>7, RequestStep
  <2>8. CASE UNCHANGED vars
    BY <2>8, OtherSteps DEF vars, control
  <2> QED BY <2>1, <2>2, <2>3, <2>4, <2>5, <2>6, <2>7, <2>8 DEF Next, Device
<1> QED BY <1>1, <1>2, PTL DEF Spec

\* From the request to the end of it an interrupt stays that of its line: the
\* handler and the end that is sent are those of the line that asked, and
\* outside the handlers nothing is left in service (pic8259.cpp:29-66,
\* interrupt.cpp:30-58), for any lines that ask and in any order.
THEOREM InterruptsLineServed == Spec => []LineServed
<1>1. InterruptsInv => LineServed
  <2> SUFFICES ASSUME InterruptsInv PROVE LineServed
    OBVIOUS
  <2>1. irq.at # "no" => irq # None
    BY NoneType
  <2>2. RightVector
    BY <2>1 DEF InterruptsInv, ServiceInv, RightVector
  <2>3. NoneLeftInService
    BY DEF InterruptsInv, ServiceInv, NoneLeftInService
  <2> QED BY <2>2, <2>3 DEF LineServed
<1> QED BY <1>1, InterruptsInvariant, PTL

\* A task outside its locks can be interrupted and one inside cannot, however
\* deep the locks nest and wherever an interrupt comes (interrupt_lock.h:9-33).
THEOREM InterruptsFlagFollowsLocks == Spec => []FlagFollowsLocks
<1>1. InterruptsInv => FlagFollowsLocks
  <2> SUFFICES ASSUME InterruptsInv PROVE FlagFollowsLocks
    OBVIOUS
  <2>1. ASSUME pc = "code", irq = None PROVE flag <=> locks = <<>>
    <3>1. pc \in TaskPlaces /\ pc # "noted"
      BY <2>1 DEF TaskPlaces
    <3> QED BY <2>1, <3>1, Zenon DEF InterruptsInv, LockInv
  <2> QED BY <2>1, Zenon DEF FlagFollowsLocks
<1> QED BY <1>1, InterruptsInvariant, PTL

-----------------------------------------------------------------------------
(* waitMs. *)

LEMMA Division ==
    ASSUME NEW a \in Nat, NEW m \in Nat \ {0}
    PROVE  a \div m \in Nat /\ a % m \in 0 .. m - 1 /\ a = m * (a \div m) + (a % m)
<1>1. a \div m \in Int /\ a % m \in 0 .. m - 1
  OBVIOUS
<1>2. a = m * (a \div m) + (a % m)
  OBVIOUS
<1>3. a \div m >= 0
  <2> SUFFICES ASSUME a \div m < 0 PROVE FALSE
    BY <1>1
  <2>1. m * (a \div m) <= m * (-1)
    BY <1>1
  <2> QED BY <1>1, <1>2, <2>1
<1> QED BY <1>1, <1>2, <1>3

LEMMA WrapOnce ==
    ASSUME NEW w \in Nat \ {0}, NEW x \in 0 .. 2 * w - 1
    PROVE  x % w = IF x < w THEN x ELSE x - w
OBVIOUS

LEMMA CountType == \A x \in Nat : Frequency * x \in Nat /\ msToCount(x) \in Nat
BY InterruptsAssumption DEF msToCount

LEMMA CountMonotone ==
    ASSUME NEW x \in Nat, NEW y \in Nat, x <= y
    PROVE  msToCount(x) <= msToCount(y)
BY InterruptsAssumption DEF msToCount

\* What is cut off when the chunks are counted one by one.
LEMMA ChunksCount ==
    ASSUME NEW n \in Nat, NEW r \in Nat
    PROVE  LET c == n * msToCount(ChunkMs) + msToCount(r)
           IN  msToCount(ChunkMs * n + r) \in c .. c + n
<1> DEFINE a == Frequency * ChunkMs
           b == Frequency * r
<1>0. a \in Nat /\ b \in Nat
  BY InterruptsAssumption
<1>3. Frequency * (ChunkMs * n + r) = n * a + b
  BY InterruptsAssumption
<1> HIDE DEF a, b
<1> DEFINE qa == a \div 1000
           qb == b \div 1000
<1>1. a \in Nat /\ b \in Nat /\ qa \in Nat /\ qb \in Nat
  BY <1>0
<1>2. /\ a - 1000 * qa \in 0 .. 999 /\ b - 1000 * qb \in 0 .. 999
  BY <1>0
<1>4. n * a = 1000 * (n * qa) + n * (a - 1000 * qa)
  BY <1>1
<1>5. n * (a - 1000 * qa) \in 0 .. 999 * n
  BY <1>1, <1>2
<1> DEFINE k == n * qa
           d == n * (a - 1000 * qa)
<1>6. k \in Nat /\ d \in Int
  BY <1>1
<1>7. n * a + b = 1000 * k + d + b /\ d \in 0 .. 999 * n
  BY <1>1, <1>4, <1>5, <1>6
<1> HIDE DEF k, d, qb
<1>8. (n * a + b) \div 1000 \in k + qb .. k + qb + n
  BY <1>1, <1>2, <1>6, <1>7
<1> QED BY <1>1, <1>3, <1>6, <1>8 DEF msToCount, k, qa, qb, a, b

\* The time of the wait that InterruptsAssumption gives room for.
LEMMA ChunkFits ==
    /\ msToCount(ChunkMs) \in Nat /\ Gap \in Nat \ {0} /\ Wrap \in Nat \ {0} /\ ChunkMs \in Nat \ {0}
    /\ msToCount(ChunkMs) + Gap <= Wrap
BY InterruptsAssumption, CountType

LEMMA CountFits ==
    ASSUME WaitTypeOK, CountInv, wait.at \in {"first", "look"}
    PROVE  wait.count <= msToCount(ChunkMs)
<1>1. wait.ms % ChunkMs \in 0 .. ChunkMs - 1
  BY ChunkFits, Division DEF WaitTypeOK
<1>2. msToCount(wait.ms % ChunkMs) <= msToCount(ChunkMs)
  BY <1>1, ChunkFits, CountMonotone
<1> QED BY <1>2, ChunkFits DEF CountInv

LEMMA WaitInit == Init => WaitInv
<1> SUFFICES ASSUME Init PROVE WaitInv
  OBVIOUS
<1>1. /\ wait = NoWait /\ counter = [value |-> 0, since |-> 0] /\ gone = [loop |-> 0, all |-> 0]
  BY DEF Init
<1>2. WaitTypeOK
  BY <1>1, ChunkFits DEF WaitTypeOK, NoWait
<1>3. CountInv /\ LookInv
  BY <1>1 DEF CountInv, LookInv, NoWait
<1>4. 0 \div ChunkMs = 0
  BY ChunkFits
<1>5. GoneInv
  BY <1>1, <1>4 DEF GoneInv, NoWait
<1> QED BY <1>2, <1>3, <1>5 DEF WaitInv

LEMMA WaitFrame ==
    ASSUME WaitInv, UNCHANGED timing
    PROVE  WaitInv'
<1>1. wait' = wait /\ counter' = counter /\ gone' = gone
  BY DEF timing
<1> QED BY <1>1, Zenon DEF WaitInv, WaitTypeOK, CountInv, LookInv, GoneInv, LoopsOver

\* The timer of the scheduler begins when no wait is left.
LEMMA InitTimerWait ==
    ASSUME WaitInv, InitTimer
    PROVE  WaitInv'
<1>1. /\ wait.at = "no" /\ wait' = wait /\ gone' = gone
      /\ counter' = [value |-> msToCount(1) % Wrap, since |-> 0]
  BY DEF InitTimer, initializeCounter
<1>2. msToCount(1) % Wrap \in 0 .. Wrap - 1
  BY CountType, ChunkFits, Division
<1>3. WaitTypeOK'
  BY <1>1, <1>2, ChunkFits DEF WaitInv, WaitTypeOK
<1>4. CountInv' /\ LookInv'
  BY <1>1 DEF CountInv, LookInv
<1>5. GoneInv'
  BY <1>1, Zenon DEF WaitInv, GoneInv, LoopsOver
<1> QED BY <1>3, <1>4, <1>5 DEF WaitInv

LEMMA waitMsWait ==
    ASSUME WaitInv, NEW ms \in 1 .. MaxMs, waitMs(ms)
    PROVE  WaitInv'
<1>1. /\ gone.all = 0 /\ counter' = counter /\ gone' = gone
      /\ wait' = [ms |-> ms, loops |-> ms \div ChunkMs, at |-> "next", count |-> 0, last |-> 0]
  BY DEF waitMs, NoWait
<1>2. ms \in Nat /\ ms \div ChunkMs \in Nat
  BY ChunkFits, InterruptsAssumption, Division
<1>3. WaitTypeOK'
  BY <1>1, <1>2, ChunkFits DEF WaitInv, WaitTypeOK
<1>4. CountInv' /\ LookInv'
  BY <1>1 DEF CountInv, LookInv
<1>5. LoopsOver' = 0
  BY <1>1, <1>2 DEF LoopsOver
<1>6. GoneInv'
  BY <1>1, <1>2, <1>5, ChunkFits DEF GoneInv
<1> QED BY <1>3, <1>4, <1>6 DEF WaitInv

LEMMA BeginLoopWait ==
    ASSUME WaitInv, BeginLoop
    PROVE  WaitInv'
<1> DEFINE count == msToCount(IF wait.loops > 0 THEN ChunkMs ELSE wait.ms % ChunkMs)
<1>1. /\ wait.at = "next" /\ wait' = [wait EXCEPT !.at = "first", !.count = count]
      /\ counter' = [value |-> 0 % Wrap, since |-> 0] /\ gone' = [gone EXCEPT !.loop = 0]
  BY DEF BeginLoop, initializeCounter
<1>2. count \in Nat /\ 0 % Wrap \in 0 .. Wrap - 1
  <2>1. wait.ms \in Nat
    BY DEF WaitInv, WaitTypeOK
  <2>2. wait.ms % ChunkMs \in 0 .. ChunkMs - 1
    BY <2>1, ChunkFits, Division
  <2>3. count \in Nat
    BY <2>2, CountType, ChunkFits
  <2> QED BY <2>3, ChunkFits
<1> HIDE DEF count
<1>3. WaitTypeOK'
  <2>1. wait' \in [ms : Nat, loops : Nat, at : {"no", "next", "first", "look"},
                   count : Nat, last : 0 .. Wrap - 1]
    BY <1>1, <1>2 DEF WaitInv, WaitTypeOK
  <2>2. counter' \in [value : 0 .. Wrap - 1, since : 0 .. Gap] /\ gone' \in [loop : Nat, all : Nat]
    BY <1>1, <1>2, ChunkFits DEF WaitInv, WaitTypeOK
  <2> QED BY <2>1, <2>2 DEF WaitTypeOK
<1>4. /\ wait'.at = "first" /\ wait'.ms = wait.ms /\ wait'.loops = wait.loops
      /\ wait'.count = count /\ gone'.loop = 0 /\ gone'.all = gone.all
  BY <1>1 DEF WaitInv, WaitTypeOK
<1>5. CountInv' /\ LookInv'
  BY <1>4 DEF CountInv, LookInv, count
<1>6. GoneInv'
  BY <1>1, <1>4 DEF WaitInv, GoneInv, LoopsOver
<1> QED BY <1>3, <1>5, <1>6 DEF WaitInv

LEMMA PulseWait ==
    ASSUME WaitInv, Pulse
    PROVE  WaitInv'
<1> DEFINE value == (counter.value + Wrap - 1) % Wrap
<1>1. /\ wait.at \in {"first", "look"} /\ counter.since < Gap /\ wait' = wait
      /\ counter' = [value |-> value, since |-> counter.since + 1]
      /\ wait.at = "first" => gone' = gone
      /\ wait.at = "look" => gone' = [loop |-> gone.loop + 1, all |-> gone.all + 1]
  BY DEF Pulse
<1>2. /\ counter.value \in 0 .. Wrap - 1 /\ counter.since \in Nat /\ wait.last \in 0 .. Wrap - 1
      /\ wait.count \in Nat /\ gone.loop \in Nat /\ gone.all \in Nat
  BY DEF WaitInv, WaitTypeOK
<1>3. /\ value \in 0 .. Wrap - 1
      /\ value = IF counter.value = 0 THEN Wrap - 1 ELSE counter.value - 1
  <2>1. counter.value + Wrap - 1 \in 0 .. 2 * Wrap - 1
    BY <1>2, ChunkFits
  <2> DEFINE y == counter.value + Wrap - 1
  <2>2. value = y % Wrap /\ y \in 0 .. 2 * Wrap - 1
    BY <2>1
  <2> HIDE DEF y
  <2>3. value = IF y < Wrap THEN y ELSE y - Wrap
    BY <2>2, ChunkFits, WrapOnce
  <2> QED BY <1>2, <2>3, ChunkFits DEF y
<1> HIDE DEF value
<1>4. WaitTypeOK'
  <2>1. counter' \in [value : 0 .. Wrap - 1, since : 0 .. Gap]
    BY <1>1, <1>2, <1>3, ChunkFits
  <2>2. gone' \in [loop : Nat, all : Nat]
    BY <1>1, <1>2 DEF WaitInv, WaitTypeOK
  <2> QED BY <1>1, <2>1, <2>2 DEF WaitInv, WaitTypeOK
<1>5. CountInv'
  BY <1>1, Zenon DEF WaitInv, CountInv
<1>6. LookInv'
  <2>1. CASE wait.at = "first"
    BY <1>1, <2>1 DEF WaitInv, LookInv
  <2>2. CASE wait.at = "look"
    <3>1. /\ gone.loop >= counter.since
          /\ gone.loop - counter.since < wait.count \/ gone.loop = counter.since
          /\ counter.value = (wait.last + Wrap - gone.loop) % Wrap
      BY <2>2 DEF WaitInv, LookInv
    <3>2. /\ gone'.loop = gone.loop + 1 /\ counter'.since = counter.since + 1
          /\ counter'.value = value
      BY <1>1, <2>2
    <3>3. gone.loop + 1 <= Wrap
      BY <1>1, <1>2, <3>1, <2>2, ChunkFits, CountFits DEF WaitInv
    <3>4. value = (wait.last + Wrap - (gone.loop + 1)) % Wrap
      <4>1. counter.value = IF wait.last < gone.loop THEN wait.last + Wrap - gone.loop
                            ELSE wait.last - gone.loop
        <5>1. wait.last + Wrap - gone.loop \in 0 .. 2 * Wrap - 1
          BY <1>2, <3>3, ChunkFits
        <5> DEFINE y == wait.last + Wrap - gone.loop
        <5>2. counter.value = y % Wrap /\ y \in 0 .. 2 * Wrap - 1
          BY <3>1, <5>1
        <5> HIDE DEF y
        <5>3. counter.value = IF y < Wrap THEN y ELSE y - Wrap
          BY <5>2, ChunkFits, WrapOnce
        <5> QED BY <1>2, <5>3, ChunkFits DEF y
      <4>2. (wait.last + Wrap - (gone.loop + 1)) % Wrap
              = IF wait.last < gone.loop + 1 THEN wait.last + Wrap - (gone.loop + 1)
                ELSE wait.last - (gone.loop + 1)
        <5>1. wait.last + Wrap - (gone.loop + 1) \in 0 .. 2 * Wrap - 1
          BY <1>2, <3>3, ChunkFits
        <5> DEFINE y == wait.last + Wrap - (gone.loop + 1)
        <5> HIDE DEF y
        <5>2. y \in 0 .. 2 * Wrap - 1
          BY <5>1 DEF y
        <5>3. y % Wrap = IF y < Wrap THEN y ELSE y - Wrap
          BY <5>2, ChunkFits, WrapOnce
        <5> QED BY <1>2, <5>3, ChunkFits DEF y
      <4> QED BY <1>2, <1>3, <3>3, <4>1, <4>2, ChunkFits
    <3> QED BY <1>1, <1>2, <2>2, <3>1, <3>2, <3>4 DEF LookInv
  <2> QED BY <1>1, <2>1, <2>2
<1>7. GoneInv'
  <2>1. CASE wait.at = "first"
    <3>1. gone' = gone /\ wait' = wait
      BY <1>1, <2>1
    <3> QED BY <3>1, Zenon DEF WaitInv, GoneInv, LoopsOver
  <2>2. CASE wait.at = "look"
    <3>1. gone'.all - gone'.loop = gone.all - gone.loop /\ wait' = wait
      BY <1>1, <1>2, <2>2
    <3> QED BY <2>2, <3>1 DEF WaitInv, GoneInv, LoopsOver
  <2> QED BY <1>1, <2>1, <2>2
<1> QED BY <1>4, <1>5, <1>6, <1>7 DEF WaitInv

LEMMA FirstLookWait ==
    ASSUME WaitInv, FirstLook
    PROVE  WaitInv'
<1>1. /\ wait.at = "first" /\ wait' = [wait EXCEPT !.at = "look", !.last = counter.value]
      /\ counter' = [counter EXCEPT !.since = 0] /\ gone' = gone
  BY DEF FirstLook
<1>2. /\ wait \in [ms : Nat, loops : Nat, at : {"no", "next", "first", "look"},
                   count : Nat, last : 0 .. Wrap - 1]
      /\ counter \in [value : 0 .. Wrap - 1, since : 0 .. Gap]
      /\ gone \in [loop : Nat, all : Nat]
      /\ counter.value \in 0 .. Wrap - 1 /\ gone.loop = 0 /\ gone.all \in Nat
  BY <1>1 DEF WaitInv, WaitTypeOK, LookInv
<1>3. /\ wait'.at = "look" /\ wait'.ms = wait.ms /\ wait'.loops = wait.loops
      /\ wait'.count = wait.count /\ wait'.last = counter.value
      /\ counter'.value = counter.value /\ counter'.since = 0
  BY <1>1, <1>2
<1>4. WaitTypeOK'
  <2>1. wait' \in [ms : Nat, loops : Nat, at : {"no", "next", "first", "look"},
                   count : Nat, last : 0 .. Wrap - 1]
    BY <1>1, <1>2
  <2>2. counter' \in [value : 0 .. Wrap - 1, since : 0 .. Gap]
    BY <1>1, <1>2, ChunkFits
  <2> QED BY <1>1, <1>2, <2>1, <2>2 DEF WaitTypeOK
<1>5. CountInv'
  BY <1>1, <1>3 DEF WaitInv, CountInv
<1>6. LookInv'
  <2>1. counter.value = (counter.value + Wrap - 0) % Wrap
    BY <1>2, ChunkFits, WrapOnce
  <2> QED BY <1>1, <1>2, <1>3, <2>1 DEF LookInv
<1>7. GoneInv'
  BY <1>1, <1>2, <1>3 DEF WaitInv, GoneInv, LoopsOver
<1> QED BY <1>4, <1>5, <1>6, <1>7 DEF WaitInv

\* What Look computes is what has gone by.
LEMMA ElapsedIsGone ==
    ASSUME WaitInv, wait.at = "look"
    PROVE  /\ wait.count \in Nat /\ gone.loop \in Nat
           /\ gone.loop <= wait.count + Gap
           /\ wait.count > 0 => Elapsed = gone.loop
           /\ Elapsed \in Nat
<1>1. /\ counter.value \in 0 .. Wrap - 1 /\ counter.since \in 0 .. Gap
      /\ wait.last \in 0 .. Wrap - 1 /\ wait.count \in Nat /\ gone.loop \in Nat
      /\ gone.loop >= counter.since
      /\ gone.loop - counter.since < wait.count \/ gone.loop = counter.since
      /\ counter.value = (wait.last + Wrap - gone.loop) % Wrap
      /\ wait.count <= msToCount(ChunkMs)
  BY CountFits DEF WaitInv, WaitTypeOK, LookInv
<1>2. gone.loop <= wait.count + Gap
  BY <1>1, ChunkFits
<1> DEFINE x == (wait.last + Wrap) - counter.value
<1>3. /\ x \in 0 .. 2 * Wrap - 1 /\ Elapsed = x % Wrap
      /\ x % Wrap = IF x < Wrap THEN x ELSE x - Wrap
  <2>1. x \in 0 .. 2 * Wrap - 1
    BY <1>1, ChunkFits
  <2>2. Elapsed = x % Wrap
    BY DEF Elapsed
  <2> HIDE DEF x
  <2> QED BY <2>1, <2>2, ChunkFits, WrapOnce
<1>4. ASSUME wait.count > 0 PROVE Elapsed = gone.loop
  <2>1. gone.loop < Wrap
    BY <1>1, <1>4, ChunkFits
  <2>2. counter.value = IF wait.last < gone.loop THEN wait.last + Wrap - gone.loop
                        ELSE wait.last - gone.loop
    <3> DEFINE y == wait.last + Wrap - gone.loop
    <3>1. y \in 0 .. 2 * Wrap - 1
      BY <1>1, <2>1, ChunkFits
    <3> HIDE DEF y
    <3>2. y % Wrap = IF y < Wrap THEN y ELSE y - Wrap
      BY <3>1, ChunkFits, WrapOnce
    <3>3. counter.value = y % Wrap
      BY <1>1 DEF y
    <3> QED BY <1>1, <3>2, <3>3, ChunkFits DEF y
  <2> QED BY <1>1, <1>3, <2>1, <2>2, ChunkFits
<1>5. Elapsed \in Nat
  BY <1>3, ChunkFits
<1> QED BY <1>1, <1>2, <1>4, <1>5

LEMMA LookWait ==
    ASSUME WaitInv, Look
    PROVE  WaitInv'
<1>1. /\ wait.at = "look" /\ counter' = [counter EXCEPT !.since = 0] /\ gone' = gone
      /\ wait' = IF Elapsed < wait.count THEN wait
                 ELSE IF wait.loops > 0 THEN [wait EXCEPT !.loops = wait.loops - 1, !.at = "next"]
                 ELSE [wait EXCEPT !.at = "no"]
  BY DEF Look
<1>2. /\ wait \in [ms : Nat, loops : Nat, at : {"no", "next", "first", "look"},
                   count : Nat, last : 0 .. Wrap - 1]
      /\ counter \in [value : 0 .. Wrap - 1, since : 0 .. Gap]
      /\ gone.loop \in Nat /\ gone.all \in Nat
      /\ counter'.value = counter.value /\ counter'.since = 0
  BY <1>1 DEF WaitInv, WaitTypeOK
<1>3. counter' \in [value : 0 .. Wrap - 1, since : 0 .. Gap]
  BY <1>1, <1>2, ChunkFits
<1>4. /\ wait.count \in Nat /\ gone.loop <= wait.count + Gap
      /\ wait.count > 0 => Elapsed = gone.loop
      /\ Elapsed \in Nat
  BY <1>1, ElapsedIsGone
<1> DEFINE chunk == msToCount(ChunkMs)
           chunks == wait.ms \div ChunkMs
           rest == msToCount(wait.ms % ChunkMs)
<1>5. chunk \in Nat /\ chunks \in Nat /\ rest \in Nat
  <2>1. wait.ms \in Nat
    BY <1>2
  <2>2. wait.ms \div ChunkMs \in Nat /\ wait.ms % ChunkMs \in 0 .. ChunkMs - 1
    BY <2>1, ChunkFits, Division
  <2> QED BY <2>2, CountType, ChunkFits
<1>6. /\ wait.loops \in Nat /\ wait.loops <= chunks
      /\ gone.all - gone.loop \in (chunks - wait.loops) * chunk .. (chunks - wait.loops) * (chunk + Gap)
      /\ wait.count = IF wait.loops > 0 THEN chunk ELSE rest
  <2>1. wait.count = msToCount(IF wait.loops > 0 THEN ChunkMs ELSE wait.ms % ChunkMs)
    BY <1>1 DEF WaitInv, CountInv
  <2> QED BY <1>1, <1>2, <2>1 DEF WaitInv, GoneInv, LoopsOver
<1> HIDE DEF chunk, chunks, rest
<1>7. CASE Elapsed < wait.count
  <2>1. wait' = wait
    BY <1>1, <1>7
  <2>2. WaitTypeOK'
    BY <1>1, <1>3, <2>1 DEF WaitInv, WaitTypeOK
  <2>3. CountInv' /\ GoneInv'
    BY <1>1, <2>1, Zenon DEF WaitInv, CountInv, GoneInv, LoopsOver
  <2>4. gone.loop < wait.count
    BY <1>2, <1>4, <1>7
  <2>5. LookInv'
    BY <1>1, <1>2, <2>1, <2>4 DEF WaitInv, LookInv
  <2> QED BY <2>2, <2>3, <2>5 DEF WaitInv
<1>8. CASE ~(Elapsed < wait.count) /\ wait.loops > 0
  <2>1. wait' = [wait EXCEPT !.loops = wait.loops - 1, !.at = "next"]
    BY <1>1, <1>8
  <2>2. /\ wait'.at = "next" /\ wait'.ms = wait.ms /\ wait'.loops = wait.loops - 1
    BY <1>2, <2>1
  <2>3. WaitTypeOK'
    <3>1. wait.loops - 1 \in Nat
      BY <1>6, <1>8
    <3>2. wait' \in [ms : Nat, loops : Nat, at : {"no", "next", "first", "look"},
                     count : Nat, last : 0 .. Wrap - 1]
      BY <1>2, <2>1, <3>1
    <3> QED BY <1>1, <1>3, <3>2 DEF WaitInv, WaitTypeOK
  <2>4. CountInv' /\ LookInv'
    BY <2>2 DEF CountInv, LookInv
  <2>5. gone.loop \in chunk .. chunk + Gap
    BY <1>2, <1>4, <1>5, <1>6, <1>8, ChunkFits
  <2>6. LET k == chunks - wait.loops + 1
        IN  gone.all \in k * chunk .. k * (chunk + Gap)
    <3> DEFINE k == chunks - wait.loops
    <3>1. k \in Nat /\ Gap \in Nat
      BY <1>5, <1>6, ChunkFits
    <3>2. (k + 1) * chunk = k * chunk + chunk /\ k * chunk \in Nat
      BY <1>5, <3>1
    <3>3. (k + 1) * (chunk + Gap) = k * (chunk + Gap) + chunk + Gap /\ k * (chunk + Gap) \in Nat
      BY <1>5, <3>1
    <3>4. gone.all - gone.loop \in k * chunk .. k * (chunk + Gap)
      BY <1>6
    <3> HIDE DEF k
    <3>5. gone.all \in (k + 1) * chunk .. (k + 1) * (chunk + Gap)
      BY <1>2, <1>5, <2>5, <3>1, <3>2, <3>3, <3>4
    <3> QED BY <3>5 DEF k
  <2>7. LoopsOver' = chunks - wait.loops + 1
    BY <1>2, <1>5, <2>2 DEF LoopsOver, chunks
  <2>8. GoneInv'
    <3>1. wait'.loops <= wait'.ms \div ChunkMs
      BY <1>2, <1>5, <1>6, <2>2 DEF chunks
    <3>2. gone'.all - 0 = gone.all
      BY <1>1, <1>2
    <3> QED BY <1>1, <2>2, <2>6, <2>7, <3>1, <3>2 DEF GoneInv, chunk
  <2> QED BY <2>3, <2>4, <2>8 DEF WaitInv
<1>9. CASE ~(Elapsed < wait.count) /\ ~(wait.loops > 0)
  <2>1. wait' = [wait EXCEPT !.at = "no"] /\ wait.loops = 0
    BY <1>1, <1>6, <1>9
  <2>2. /\ wait'.at = "no" /\ wait'.ms = wait.ms /\ wait'.loops = 0
    BY <1>2, <2>1
  <2>3. WaitTypeOK'
    BY <1>1, <1>2, <1>3, <2>1 DEF WaitInv, WaitTypeOK
  <2>4. CountInv' /\ LookInv'
    BY <2>2 DEF CountInv, LookInv
  <2>5. gone.loop \in rest .. rest + Gap
    BY <1>2, <1>4, <1>5, <1>6, <1>9, ChunkFits
  <2>6. gone.all - gone.loop \in chunks * chunk .. chunks * (chunk + Gap)
    BY <1>5, <1>6, <2>1
  <2>7. /\ chunks * chunk \in Nat /\ chunks * (chunk + Gap) \in Nat /\ Gap \in Nat
    BY <1>5, ChunkFits
  <2>8. gone.all \in chunks * chunk + rest .. chunks * (chunk + Gap) + rest + Gap
    BY <1>2, <1>5, <2>5, <2>6, <2>7
  <2>9. 0 <= chunks
    BY <1>5
  <2>10. GoneInv'
    BY <1>1, <2>2, <2>8, <2>9 DEF GoneInv, chunk, chunks, rest
  <2> QED BY <2>3, <2>4, <2>10 DEF WaitInv
<1> QED BY <1>7, <1>8, <1>9

LEMMA WaitStep == WaitInv /\ [Next]_vars => WaitInv'
<1> SUFFICES ASSUME WaitInv, [Next]_vars PROVE WaitInv'
  OBVIOUS
<1>1. CASE InitTimer
  BY <1>1, InitTimerWait
<1>2. CASE InitTables \/ InitializePic \/ UnmaskAll \/ Unmasked \/ StartScheduling \/ BootFails
  <2>1. UNCHANGED timing
    BY <1>2, Zenon DEF InitTables, InitializePic, UnmaskAll, Unmasked, StartScheduling, BootFails, timing
  <2> QED BY <2>1, WaitFrame
<1>3. CASE \E ms \in 1 .. MaxMs : waitMs(ms)
  BY <1>3, waitMsWait
<1>4. CASE Waiting
  BY <1>4, BeginLoopWait, FirstLookWait, LookWait DEF Waiting
<1>5. CASE PicWrite \/ RegisterKeyboard \/ Note \/ Clear \/ Unlock
  <2>1. UNCHANGED timing
    BY <1>5, Zenon DEF PicWrite, RegisterKeyboard, Note, Clear, Unlock, timing
  <2> QED BY <2>1, WaitFrame
<1>6. CASE Accept \/ AcceptSpurious \/ Panic \/ Handling
  <2>1. UNCHANGED timing
    BY <1>6, Zenon DEF Accept, AcceptSpurious, Panic, Handling, Enter, TopHalf, End, Return, Iretq,
                       timing
  <2> QED BY <2>1, WaitFrame
<1>7. CASE \E l \in Lines : Request(l)
  <2>1. UNCHANGED timing
    BY <1>7, Zenon DEF Request, timing
  <2> QED BY <2>1, WaitFrame
<1>8. CASE Pulse
  BY <1>8, PulseWait
<1>9. CASE UNCHANGED vars
  BY <1>9, WaitFrame DEF vars
<1> QED BY <1>1, <1>2, <1>3, <1>4, <1>5, <1>6, <1>7, <1>8, <1>9, Zenon DEF Next, Booting, Device

\* A wait before the PIT is the scheduler's takes as long as was asked for,
\* and no longer than one look more in each of its loops, although the counter
\* comes round in between (pit.cpp:39-87): for any frequency and any number of
\* milliseconds, while a chunk and the pulses between two looks fit into the
\* range of the counter.
THEOREM InterruptsWaitsExactly == Spec => []WaitsExactly
<1>1. WaitInv => WaitsExactly
  <2> SUFFICES ASSUME WaitInv PROVE WaitsExactly
    OBVIOUS
  <2>1. ASSUME wait.at \in {"first", "look"} PROVE gone.loop <= wait.count + Gap
    <3>1. CASE wait.at = "look"
      BY <3>1, ElapsedIsGone
    <3>2. CASE wait.at = "first"
      BY <3>2, ChunkFits DEF WaitInv, WaitTypeOK, LookInv
    <3> QED BY <2>1, <3>1, <3>2
  <2>2. ASSUME wait.at = "no", wait.ms > 0
        PROVE  gone.all \in msToCount(wait.ms) - (wait.ms \div ChunkMs)
                            .. msToCount(wait.ms) + ((wait.ms \div ChunkMs) + 1) * Gap
    <3> DEFINE chunk == msToCount(ChunkMs)
               chunks == wait.ms \div ChunkMs
               rest == msToCount(wait.ms % ChunkMs)
               asked == msToCount(wait.ms)
    <3>1. /\ wait.ms \in Nat /\ gone.all \in Nat
          /\ gone.all \in chunks * chunk + rest .. chunks * (chunk + Gap) + rest + Gap
      BY <2>2 DEF WaitInv, WaitTypeOK, GoneInv
    <3>2. /\ chunks \in Nat /\ wait.ms % ChunkMs \in Nat
          /\ wait.ms = ChunkMs * chunks + (wait.ms % ChunkMs)
      <4>1. wait.ms % ChunkMs \in 0 .. ChunkMs - 1
        BY <3>1, ChunkFits, Division
      <4>2. \A k \in 0 .. ChunkMs - 1 : k \in Nat
        BY ChunkFits
      <4>3. wait.ms \div ChunkMs \in Nat
        BY <3>1, ChunkFits, Division
      <4>4. wait.ms = ChunkMs * (wait.ms \div ChunkMs) + (wait.ms % ChunkMs)
        BY <3>1, ChunkFits, Division, Zenon
      <4> QED BY <4>1, <4>2, <4>3, <4>4, Zenon
    <3>3. chunk \in Nat /\ rest \in Nat /\ asked \in Nat
      BY <3>1, <3>2, ChunkFits, CountType
    <3>4. asked \in chunks * chunk + rest .. chunks * chunk + rest + chunks
      <4> DEFINE r == wait.ms % ChunkMs
      <4>1. chunks \in Nat /\ r \in Nat /\ wait.ms = ChunkMs * chunks + r
        BY <3>2, Zenon
      <4> HIDE DEF chunks, r
      <4>2. msToCount(ChunkMs * chunks + r)
              \in chunks * chunk + msToCount(r) .. chunks * chunk + msToCount(r) + chunks
        BY <4>1, ChunksCount
      <4> QED BY <4>1, <4>2 DEF r
    <3> HIDE DEF chunk, chunks, rest, asked
    <3>5. /\ chunks * (chunk + Gap) = chunks * chunk + chunks * Gap
          /\ (chunks + 1) * Gap = chunks * Gap + Gap
          /\ chunks * chunk \in Nat /\ chunks * Gap \in Nat
      BY <3>2, <3>3, ChunkFits
    <3>6. gone.all \in asked - chunks .. asked + (chunks + 1) * Gap
      BY <3>1, <3>2, <3>3, <3>4, <3>5, ChunkFits
    <3> QED BY <3>6 DEF asked, chunks
  <2> QED BY <2>1, <2>2 DEF WaitsExactly
<1> QED BY <1>1, WaitInit, WaitStep, PTL DEF Spec

-----------------------------------------------------------------------------
(* The tables. *)

LEMMA ValuesFacts ==
    /\ Nibble \in Nat \ {0, 1} /\ Byte \in Nat \ {0}
    /\ Values(0) = 1 /\ Values(1) = Byte
    /\ Values(2) \in Nat \ {0} /\ Values(3) \in Nat \ {0} /\ Values(4) \in Nat \ {0}
    /\ Values(8) \in Nat
    /\ Values(3) = Values(2) * Byte /\ Values(4) = Values(3) * Byte
    /\ Values(4) = Values(2) * Values(2) /\ Values(8) = Values(4) * Values(4)
<1>1. Nibble \in Nat \ {0, 1} /\ Byte \in Nat \ {0}
  BY TablesAssumption DEF Byte
<1> DEFINE two == Byte * Byte
<1>2. /\ Values(0) = 1 /\ Values(1) = Byte /\ Values(2) = two /\ Values(3) = two * Byte
      /\ Values(4) = two * two /\ Values(8) = (two * two) * (two * two)
  BY DEF Values
<1>3. two \in Nat \ {0} /\ two * Byte \in Nat \ {0} /\ two * two \in Nat \ {0}
  BY <1>1
<1>4. two * two = (two * Byte) * Byte /\ (two * two) * (two * two) \in Nat
  BY <1>1
<1> QED BY <1>1, <1>2, <1>3, <1>4, Zenon

LEMMA DivideTwice ==
    ASSUME NEW a \in Nat, NEW m \in Nat \ {0}, NEW n \in Nat \ {0}
    PROVE  (a \div m) \div n = a \div (m * n)
OBVIOUS

\* What is left above the fourth byte fits into four.
LEMMA UpperFits ==
    ASSUME NEW a \in Address
    PROVE  a \in Nat /\ (a \div Values(4)) % Values(4) = a \div Values(4)
<1> DEFINE w == Values(4)
<1>1. w \in Nat \ {0} /\ a \in 0 .. w * w - 1 /\ a \in Nat
  BY ValuesFacts DEF Address
<1> HIDE DEF w
<1>2. /\ a \div w \in Nat /\ a % w \in 0 .. w - 1 /\ a = w * (a \div w) + (a % w)
  BY <1>1, Division
<1> DEFINE q == a \div w
           r == a % w
<1>3. q \in Nat /\ r \in 0 .. w - 1 /\ a = w * q + r
  BY <1>2
<1> HIDE DEF q, r
<1>4. q < w
  <2> SUFFICES ASSUME q >= w PROVE FALSE
    BY <1>1, <1>3
  <2>1. w * q >= w * w
    BY <1>1, <1>3
  <2> QED BY <1>1, <1>3, <2>1
<1>5. q % w = q
  BY <1>1, <1>3, <1>4
<1> QED BY <1>1, <1>5 DEF q, w

\* An address is cut into pieces and put together again: 2, 2 and 4 bytes for a
\* gate, 2, 1, 1 and 4 for a segment.
LEMMA GatePieces ==
    ASSUME NEW a \in Address
    PROVE  a = Piece(a, 0, 2) + Values(2) * Piece(a, 2, 2) + Values(4) * Piece(a, 4, 4)
<1> DEFINE h == Values(2)
           q == a \div h
           u == a \div Values(4)
<1>1. a \in Nat /\ h \in Nat \ {0} /\ Values(4) = h * h
  BY ValuesFacts, UpperFits
<1>2. /\ Piece(a, 0, 2) = a % h /\ Piece(a, 2, 2) = q % h /\ Piece(a, 4, 4) = u
  <2>1. a \div 1 = a
    BY <1>1
  <2> QED BY <2>1, ValuesFacts, UpperFits DEF Piece
<1>3. q \in Nat /\ a = h * q + (a % h) /\ a % h \in 0 .. h - 1
  BY <1>1, Division
<1>4. q = h * (q \div h) + (q % h) /\ q \div h \in Nat /\ q % h \in 0 .. h - 1
  BY <1>1, <1>3, Division
<1>5. q \div h = u
  BY <1>1, DivideTwice
<1> DEFINE r == a % h
           s == q % h
<1>6. r \in Nat /\ s \in Nat /\ u \in Nat /\ a = h * q + r /\ q = h * u + s
  BY <1>1, <1>3, <1>4, <1>5
<1> HIDE DEF h, q, u, r, s
<1>7. h * (h * u + s) = (h * h) * u + h * s
  BY <1>1, <1>6
<1>8. a = r + h * s + (h * h) * u
  BY <1>1, <1>6, <1>7
<1> QED BY <1>1, <1>2, <1>8 DEF h, q, u, r, s

LEMMA BasePieces ==
    ASSUME NEW a \in Address
    PROVE  a = Piece(a, 0, 2) + Values(2) * Piece(a, 2, 1) + Values(3) * Piece(a, 3, 1)
               + Values(4) * Piece(a, 4, 4)
<1> DEFINE h == Values(2)
           q == a \div h
           m == a \div Values(3)
           u == a \div Values(4)
<1>1. /\ a \in Nat /\ h \in Nat \ {0} /\ Byte \in Nat \ {0}
      /\ Values(3) = h * Byte /\ Values(4) = (h * Byte) * Byte
      /\ h * Byte \in Nat \ {0}
  BY ValuesFacts, UpperFits
<1>2. /\ Piece(a, 0, 2) = a % h /\ Piece(a, 2, 1) = q % Byte /\ Piece(a, 3, 1) = m % Byte
      /\ Piece(a, 4, 4) = u
  <2>1. a \div 1 = a
    BY <1>1
  <2> QED BY <2>1, ValuesFacts, UpperFits DEF Piece
<1>3. q \in Nat /\ a = h * q + (a % h) /\ a % h \in 0 .. h - 1
  BY <1>1, Division
<1>4. q = Byte * (q \div Byte) + (q % Byte) /\ q \div Byte \in Nat /\ q % Byte \in 0 .. Byte - 1
  BY <1>1, <1>3, Division
<1>5. q \div Byte = m
  BY <1>1, DivideTwice
<1>6. m = Byte * (m \div Byte) + (m % Byte) /\ m \div Byte \in Nat /\ m % Byte \in 0 .. Byte - 1
  BY <1>1, <1>4, <1>5, Division
<1>7. m \div Byte = u
  BY <1>1, DivideTwice
<1> DEFINE r == a % h
           s == q % Byte
           t == m % Byte
<1>8. /\ r \in Nat /\ s \in Nat /\ t \in Nat /\ u \in Nat /\ m \in Nat
      /\ a = h * q + r /\ q = Byte * m + s /\ m = Byte * u + t
  BY <1>1, <1>3, <1>4, <1>5, <1>6, <1>7
<1> HIDE DEF h, q, m, u, r, s, t
<1>9. Byte * (Byte * u + t) = (Byte * Byte) * u + Byte * t
  BY <1>1, <1>8
<1>10. h * ((Byte * Byte) * u + Byte * t + s) = ((h * Byte) * Byte) * u + (h * Byte) * t + h * s
  BY <1>1, <1>8
<1>11. a = r + h * s + (h * Byte) * t + ((h * Byte) * Byte) * u
  BY <1>1, <1>8, <1>9, <1>10
<1> QED BY <1>1, <1>2, <1>11 DEF h, q, m, u, r, s, t

\* A limit of 20 bits, as well.
LEMMA LimitPieces ==
    ASSUME NEW n \in 0 .. Values(2) * Nibble - 1
    PROVE  n = (n % Values(2)) + Values(2) * ((n \div Values(2)) % Nibble)
<1> DEFINE h == Values(2)
           q == n \div h
<1>1. h \in Nat \ {0} /\ Nibble \in Nat \ {0} /\ n \in Nat /\ n < h * Nibble
  BY ValuesFacts
<1>2. q \in Nat /\ n = h * q + (n % h) /\ n % h \in 0 .. h - 1
  BY <1>1, Division
<1> DEFINE r == n % h
<1>3. q \in Nat /\ r \in Nat /\ n = h * q + r
  BY <1>1, <1>2
<1> HIDE DEF h, q, r
<1>4. q < Nibble
  <2> SUFFICES ASSUME q >= Nibble PROVE FALSE
    BY <1>1, <1>3
  <2>1. h * q >= h * Nibble
    BY <1>1, <1>3
  <2> QED BY <1>1, <1>3, <2>1
<1>5. q % Nibble = q
  BY <1>1, <1>3, <1>4
<1> QED BY <1>1, <1>3, <1>5 DEF h, q, r

\* The three tables come one after another out of the memory set aside.
LEMMA Allocations ==
    ASSUME InitTables, pc' = "loaded"
    PROVE  /\ tables'.tss = Buffer + GdtSize /\ tables'.idt = tables'.tss + TssSize
           /\ tables'.idt + IdtSize < Buffer + Room
           /\ \E task \in BOOLEAN : tables'.gdt = Gdt(tables'.tss, task)
<1> DEFINE memory == [addr |-> Buffer, end |-> Buffer + Room, ptr |-> NoPlace]
           gdt == allocate_bytes(memory, GdtSize)
           tss == allocate_bytes(gdt, TssSize)
           idt == allocate_bytes(tss, IdtSize)
<1>1. PICK task \in BOOLEAN, gate \in BOOLEAN :
         /\ tables' = [gdt |-> Gdt(tss.ptr, task), tss |-> tss.ptr, idt |-> idt.ptr, left |-> gate]
         /\ NoPlace \notin {gdt.ptr, tss.ptr, idt.ptr}
  BY DEF InitTables
<1>2. gdt = [addr |-> Buffer + GdtSize, end |-> Buffer + Room, ptr |-> Buffer]
  BY <1>1 DEF allocate_bytes
<1> HIDE DEF gdt
<1>3. tss = [addr |-> Buffer + GdtSize + TssSize, end |-> Buffer + Room, ptr |-> Buffer + GdtSize]
  BY <1>1, <1>2 DEF allocate_bytes
<1> HIDE DEF tss
<1>4. /\ idt.ptr = Buffer + GdtSize + TssSize
      /\ ~(Buffer + GdtSize + TssSize + IdtSize >= Buffer + Room)
  BY <1>1, <1>3 DEF allocate_bytes
<1>5. Buffer \in Nat /\ Room \in Nat /\ TssSize \in Nat /\ GdtSize \in Nat /\ IdtSize \in Nat
  BY TablesAssumption, ValuesFacts DEF Address, GdtSize, IdtSize
<1> QED BY <1>1, <1>3, <1>4, <1>5

\* The entry of the TSS and the segment of the kernel, read back.
LEMMA GdtRead ==
    ASSUME NEW a \in Address, NEW left \in BOOLEAN
    PROVE  LET gdt == Gdt(a, left)
           IN  Base(gdt[3]) = a /\ Limit(gdt[3]) >= TssSize - 1 /\ IsCode(gdt[1])
<1> DEFINE e == Gdt(a, left)[3]
           n == TssSize - 1
<1>1. /\ e.base0 = Piece(a, 0, 2) /\ e.base1 = Piece(a, 2, 1) /\ e.base2 = Piece(a, 3, 1)
      /\ e.extend = Piece(a, 4, 4) /\ e.granular
      /\ e.lower = n % Values(2) /\ e.high = (n \div Values(2)) % Nibble
  <2> DEFINE z == setLongmodeDefault(TRUE, TSS_32bit)
             y == setAddress8(z, a)
             x == setAddress16(z, a)
             w == setLimit(x, n)
  <2>1. e = [w EXCEPT !.reserved = left]
    BY DEF Gdt
  <2>2. w = [x EXCEPT !.lower = n % Values(2), !.high = (n \div Values(2)) % Nibble]
    BY DEF setLimit
  <2>3. x = [y EXCEPT !.extend = Piece(a, 4, 4)]
    BY DEF setAddress16
  <2>4. y = [z EXCEPT !.base0 = Piece(a, 0, 2), !.base1 = Piece(a, 2, 1), !.base2 = Piece(a, 3, 1)]
    BY DEF setAddress8
  <2>5. z = [Zero EXCEPT !.type = TSS_32bit, !.present = TRUE, !.granular = TRUE, !.S = FALSE,
                         !.L = FALSE]
    BY DEF setLongmodeDefault
  <2> HIDE DEF e, n, z, y, x, w
  <2>6. z = [Zero EXCEPT !.type = TSS_32bit, !.present = TRUE, !.granular = TRUE, !.S = FALSE,
                         !.L = FALSE]
        /\ DOMAIN z = DOMAIN Zero /\ z.granular
    BY <2>5 DEF Zero
  <2>7. DOMAIN Zero = {"lower", "high", "base0", "base1", "base2", "extend", "type", "S",
                       "present", "granular", "L", "reserved"}
    BY DEF Zero
  <2>8. /\ y.base0 = Piece(a, 0, 2) /\ y.base1 = Piece(a, 2, 1) /\ y.base2 = Piece(a, 3, 1)
        /\ y.granular /\ DOMAIN y = DOMAIN Zero
    BY <2>4, <2>6, <2>7
  <2>9. /\ x.base0 = y.base0 /\ x.base1 = y.base1 /\ x.base2 = y.base2
        /\ x.extend = Piece(a, 4, 4) /\ x.granular /\ DOMAIN x = DOMAIN Zero
    BY <2>3, <2>7, <2>8
  <2>10. /\ w.base0 = x.base0 /\ w.base1 = x.base1 /\ w.base2 = x.base2
         /\ w.extend = x.extend /\ w.granular /\ DOMAIN w = DOMAIN Zero
         /\ w.lower = n % Values(2) /\ w.high = (n \div Values(2)) % Nibble
    BY <2>2, <2>7, <2>9
  <2>11. /\ e.base0 = w.base0 /\ e.base1 = w.base1 /\ e.base2 = w.base2
         /\ e.extend = w.extend /\ e.granular
         /\ e.lower = w.lower /\ e.high = w.high
    BY <2>1, <2>7, <2>10
  <2> QED BY <2>8, <2>9, <2>10, <2>11 DEF n
<1> HIDE DEF e
<1>2. Base(e) = a
  BY <1>1, BasePieces DEF Base
<1>3. n \in 0 .. Values(2) * Nibble - 1 /\ n \in Nat
  BY TablesAssumption, ValuesFacts
<1>4. Limit(e) = n * 4096 + 4095
  BY <1>1, <1>3, LimitPieces DEF Limit
<1>5. Limit(e) >= n
  BY <1>3, <1>4
<1>6. IsCode(Gdt(a, left)[1])
  <2> DEFINE z == setLimit(setAddress8(Zero, 0), Values(2) * Nibble - 1)
             y == Gdt(a, left)[1]
  <2>1. y = setLongmodeDefault(FALSE, 10)
    BY DEF Gdt, RWbit, Executablebit
  <2>2. Executable(10)
    BY DEF Executable, Executablebit
  <2>3. y = [z EXCEPT !.type = 10, !.present = TRUE, !.granular = TRUE, !.S = TRUE, !.L = TRUE]
    BY <2>1, <2>2 DEF setLongmodeDefault
  <2>4. {"type", "present", "S", "L"} \subseteq DOMAIN z
    BY DEF setLimit, setAddress8, Zero
  <2> HIDE DEF z, y
  <2>5. y.type = 10 /\ y.present /\ y.S /\ y.L
    BY <2>3, <2>4
  <2> QED BY <2>5 DEF IsCode, y
<1> QED BY <1>2, <1>5, <1>6 DEF e

LEMMA GateRead ==
    ASSUME NEW v \in Vectors, NEW left \in BOOLEAN
    PROVE  LET g == Gate(v, left)
           IN  /\ Offset(g) = Handler[v] /\ StackOf(g, Tss) = IST_END
               /\ \A gdt : IsCode(gdt[1]) /\ ~left => Usable(g, gdt)
<1> DEFINE a == Handler[v]
           g == Gate(v, left)
<1>1. a \in Address
  BY TablesAssumption
<1>2. /\ g.offset.lower = Piece(a, 0, 2) /\ g.offset.middle = Piece(a, 2, 2)
      /\ g.offset.higher = Piece(a, 4, 4)
      /\ g.selector = 8 /\ g.ist = 1 /\ g.type = interrupt_gate_32bit /\ g.present /\ g.null = left
  BY DEF Gate, SetHandler
<1> HIDE DEF a, g
<1>3. Offset(g) = a
  BY <1>1, <1>2, GatePieces DEF Offset
<1>4. StackOf(g, Tss) = IST_END
  BY <1>2 DEF StackOf, Tss
<1>5. 8 \div 8 = 1
  OBVIOUS
<1>6. \A gdt : IsCode(gdt[1]) /\ ~left => Usable(g, gdt)
  BY <1>2, <1>5 DEF Usable
<1> QED BY <1>3, <1>4, <1>6 DEF a, g

LEMMA InitTablesRead ==
    ASSUME InitTables
    PROVE  TablesRead'
<1> SUFFICES ASSUME pc' = "loaded"
             PROVE  /\ Buffer + GdtSize <= tables'.tss /\ tables'.tss + TssSize <= tables'.idt
                    /\ tables'.idt + IdtSize <= Buffer + Room
                    /\ Base(tables'.gdt[3]) = tables'.tss
                    /\ Limit(tables'.gdt[3]) >= TssSize - 1
                    /\ \A v \in Vectors :
                          /\ \/ Usable(Gate(v, tables'.left), tables'.gdt)
                                /\ Offset(Gate(v, tables'.left)) = Handler[v]
                             \/ tables'.left
                          /\ StackOf(Gate(v, tables'.left), Tss) = IST_END
  BY DEF TablesRead, Leads
<1>1. /\ tables'.tss = Buffer + GdtSize /\ tables'.idt = tables'.tss + TssSize
      /\ tables'.idt + IdtSize < Buffer + Room
  BY Allocations
<1>2. PICK task \in BOOLEAN : tables'.gdt = Gdt(tables'.tss, task)
  BY Allocations
<1>3. tables'.left \in BOOLEAN
  BY DEF InitTables
<1>4. /\ Buffer \in Nat /\ Room \in Nat /\ TssSize \in Nat \ {0} /\ GdtSize = 40 /\ IdtSize = 4096
      /\ Values(8) \in Nat /\ Buffer + Room <= Values(8)
  BY TablesAssumption, ValuesFacts DEF Address, GdtSize, IdtSize
<1>5. tables'.tss \in Address
  BY <1>1, <1>4 DEF Address
<1>6. /\ Base(tables'.gdt[3]) = tables'.tss /\ Limit(tables'.gdt[3]) >= TssSize - 1
      /\ IsCode(tables'.gdt[1])
  BY <1>2, <1>5, GdtRead
<1>7. ASSUME NEW v \in Vectors
      PROVE  /\ \/ Usable(Gate(v, tables'.left), tables'.gdt)
                   /\ Offset(Gate(v, tables'.left)) = Handler[v]
                \/ tables'.left
             /\ StackOf(Gate(v, tables'.left), Tss) = IST_END
  BY <1>3, <1>6, GateRead
<1>8. /\ Buffer + GdtSize <= tables'.tss /\ tables'.tss + TssSize <= tables'.idt
      /\ tables'.idt + IdtSize <= Buffer + Room
  BY <1>1, <1>4
<1> QED BY <1>6, <1>7, <1>8

\* What the processor reads in the tables is what init_all meant by them
\* (mminit.cpp with GDT.h, IDT.h, TSS.h): for every place of the tables and of
\* the 256 handlers in an address space of eight bytes, however many values a
\* byte has, and every size of the TSS up to a limit of 20 bits.
THEOREM InterruptsTablesRead == Spec => []TablesRead
<1>1. Init => TablesRead
  BY DEF Init, TablesRead
<1>2. TablesRead /\ [Next]_vars => TablesRead'
  <2> SUFFICES ASSUME TablesRead, [Next]_vars PROVE TablesRead'
    OBVIOUS
  <2>1. CASE InitTables
    BY <2>1, InitTablesRead
  <2>2. ASSUME pc' = "loaded" => pc = "loaded" /\ tables' = tables
        PROVE  TablesRead'
    <3>1. CASE pc' = "loaded"
      BY <2>2, <3>1, Zenon DEF TablesRead, Leads
    <3>2. CASE pc' # "loaded"
      BY <3>2, Zenon DEF TablesRead
    <3> QED BY <3>1, <3>2
  <2>3. CASE InitializePic \/ UnmaskAll \/ Unmasked \/ InitTimer \/ StartScheduling \/ BootFails
    <3>1. pc' # "loaded"
      BY <2>3 DEF InitializePic, UnmaskAll, Unmasked, InitTimer, StartScheduling, BootFails, Boot
    <3> QED BY <2>2, <3>1
  <2>4. CASE (\E ms \in 1 .. MaxMs : waitMs(ms)) \/ Waiting \/ Pulse
    <3>1. pc' = pc /\ tables' = tables
      BY <2>4, Zenon DEF waitMs, Waiting, BeginLoop, FirstLook, Look, Pulse
    <3> QED BY <2>2, <3>1
  <2>5. CASE PicWrite \/ RegisterKeyboard \/ Unlock
    <3>1. pc' = pc /\ tables' = tables
      BY <2>5, Zenon DEF PicWrite, RegisterKeyboard, Unlock
    <3> QED BY <2>2, <3>1
  <2>6. CASE Note \/ Clear \/ Panic
    <3>1. pc' # "loaded"
      BY <2>6 DEF Note, Clear, Panic
    <3> QED BY <2>2, <3>1
  <2>7. CASE Accept \/ AcceptSpurious \/ Handling \/ (\E l \in Lines : Request(l))
    <3>1. pc' = pc /\ tables' = tables
      BY <2>7, Zenon DEF Accept, AcceptSpurious, Handling, Enter, TopHalf, End, Return, Iretq, Request
    <3> QED BY <2>2, <3>1
  <2>8. CASE UNCHANGED vars
    BY <2>2, <2>8 DEF vars
  <2> QED BY <2>1, <2>3, <2>4, <2>5, <2>6, <2>7, <2>8, Zenon DEF Next, Booting, Device
<1> QED BY <1>1, <1>2, PTL DEF Spec
=============================================================================

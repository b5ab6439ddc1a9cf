------------------------------- MODULE Keyboard -------------------------------
(***************************************************************************)
(* The keyboard driver (kernel/src/drivers/ps2/keyboard.cpp) against a     *)
(* controller and a keyboard that answer when they like, or never.         *)
(*                                                                         *)
(* The driver's waits are loops of 65535 looks at the state register and   *)
(* go on when they end without a byte.  So a read may come before the      *)
(* answer it is meant for; it then finds in the data register the byte of  *)
(* the last read.                                                          *)
(*                                                                         *)
(* External: the controller and the keyboard.  They work through commands  *)
(* in order and their bytes reach the data register in order, one at a     *)
(* time.  The keyboard's line is edge triggered at the interrupt           *)
(* controller; whether a request outlives its byte differs between models  *)
(* of it.  Mouse bytes do not occur: the second port is disabled.          *)
(***************************************************************************)
EXTENDS Naturals, Sequences, SequencesExt, FiniteSets

CONSTANTS
    RingSize,   \* the size of keyQueue, as a queue
    Tries,      \* how often changeKeyboardLED looks for its acknowledgement
    MaxPresses     \* bound on the keys that are pressed

ASSUME KeyboardAssumption == {RingSize, Tries, MaxPresses} \subseteq Nat \ {0}

VARIABLES
    full, data, \* the data register: has it an unread byte, and which is last
    pend,       \* bytes on their way to it
    conf,       \* the configuration byte: the interrupt of the first port,
                \* and whether the other bits are as they were
    sends,      \* the keyboard may send key codes
    irr,        \* the interrupt controller has a request
    ipc,         \* where initialize is, "on" or "off" once it has returned
    round,      \* the round of activate's dialogue
    held,       \* activate's config or d1
    hpc,        \* where the interrupt handler is in changeKeyboardLED, or "no"
    tries,      \* its looks so far
    ring,       \* keyQueue
    received,      \* history: what read has returned
    pressed,    \* history: the keys pressed so far
    lost,       \* history: keys that were read and not put into the ring
    passed,     \* history: the commands that were answered as they should be
    missed      \* history: an interrupt was handled and its byte not read

port == <<full, data, pend, conf, sends, irr>>
activation == <<ipc, round, held>>
led  == <<hpc, tries>>
hist == <<pressed, lost, passed, missed>>
keyboardVars == <<port, activation, led, ring, received, hist>>

-----------------------------------------------------------------------------
(* Bytes are told apart by what the driver compares them with.  An "equal" *)
(* is a key whose code is 0x55, as that of the = key is until the scan     *)
(* code set is changed; "lock" is one of the lock keys.                    *)

Keys == [kind : {"plain", "equal", "lock"}, n : 1 .. MaxPresses]
Reply(k) == [kind |-> k, n |-> 0]
Replies == {Reply(k) : k \in {"55", "00", "FA", "FE", "AA", "FC", "config"}}
None == Reply("none")
IsKey(b) == b.n # 0

\* The rounds of activate.  Every one sends a command; all but "configure"
\* then read a byte.
Dialogue == <<"readConfig", "configure", "testController", "testPort", "enable",
              "readConfig", "configure", "reset", "scanSet", "setOne">>
Command == Dialogue[round]

\* What comes back, in time or not.
Answers(c) ==
    CASE c = "readConfig"     -> {<<Reply("config")>>}
      [] c = "testController" -> {<<Reply("55")>>, <<Reply("FC")>>}
      [] c = "testPort"       -> {<<Reply("00")>>, <<Reply("FC")>>}
      [] c = "reset"          -> {<<Reply("FA"), Reply("AA")>>, <<Reply("FA"), Reply("FC")>>}
      [] c = "configure"      -> {<<>>}
      [] OTHER                -> {<<Reply("FA")>>, <<Reply("FE")>>}
Good(c) == {<<Reply("55")>>, <<Reply("00")>>, <<Reply("FA")>>, <<Reply("FA"), Reply("AA")>>}

\* buffer.read().  The line falls, and the request with it or not.
ReadPort ==
    /\ full' = FALSE
    /\ irr' \in IF full THEN {irr, FALSE} ELSE {irr}
    /\ UNCHANGED <<data, pend, conf, sends>>

\* A key code that this read takes for something else.
Lose == lost' = IF full /\ IsKey(data) THEN lost \union {data.n} ELSE lost

-----------------------------------------------------------------------------
KeyboardInit ==
    /\ full = FALSE /\ data = None /\ pend = <<>>
    /\ conf = [interrupt |-> TRUE, rest |-> TRUE]
    /\ sends = TRUE /\ irr = FALSE
    /\ ipc = "start" /\ round = 1 /\ held = None
    /\ hpc = "no" /\ tries = 0
    /\ ring = <<>> /\ received = <<>>
    /\ pressed = 0 /\ lost = {} /\ passed = {} /\ missed = FALSE

(* The devices. *)

PressKey ==
    /\ sends /\ pressed < MaxPresses
    /\ pressed' = pressed + 1
    /\ \E k \in {"plain", "equal", "lock"} :
          pend' = Append(pend, [kind |-> k, n |-> pressed'])
    /\ UNCHANGED <<full, data, conf, sends, irr, activation, led, ring, received, lost, passed, missed>>

Deliver ==
    /\ ~full /\ pend # <<>>
    /\ full' = TRUE /\ data' = Head(pend) /\ pend' = Tail(pend)
    /\ irr' = (irr \/ conf.interrupt)
    /\ UNCHANGED <<conf, sends, activation, led, ring, received, hist>>

-----------------------------------------------------------------------------
(* initialize and activate, which runs with interrupts off.                *)

Main(from) == ipc = from /\ hpc = "no"

\* ACPI says that there is no keyboard controller.
NotSupported ==
    /\ Main("start")
    /\ ipc' = "off"
    /\ UNCHANGED <<port, round, held, led, ring, received, hist>>

Disable ==
    /\ Main("start")
    /\ ipc' = "flush" /\ sends' = FALSE
    /\ UNCHANGED <<full, data, pend, conf, irr, round, held, led, ring, received, hist>>

Flush ==
    /\ Main("flush") /\ full
    /\ ReadPort /\ Lose
    /\ UNCHANGED <<activation, led, ring, received, pressed, passed, missed>>

Flushed ==
    /\ Main("flush") /\ ~full
    /\ ipc' = "send"
    /\ UNCHANGED <<port, round, held, led, ring, received, hist>>

\* The configuration that is written is the byte read with one bit changed:
\* off in the first of the two rounds, on in the second.
Configured ==
    [interrupt |-> round # 2, rest |-> conf.rest /\ held.kind = "config"]

Send ==
    /\ Main("send")
    /\ \E a \in Answers(Command) :
          /\ pend' = pend \o a
          /\ passed' = IF a \in Good(Command) THEN passed \union {Command} ELSE passed
    /\ IF Command = "configure"
       THEN /\ conf' = Configured
            /\ irr' = (irr \/ (full /\ conf'.interrupt /\ ~conf.interrupt))
            /\ round' = round + 1 /\ UNCHANGED ipc
       ELSE ipc' = "read" /\ UNCHANGED <<conf, irr, round>>
    /\ sends' = (sends \/ Command = "enable")
    /\ UNCHANGED <<full, data, held, led, ring, received, pressed, lost, missed>>

\* The comparison after a read.
Accepts(c, b) ==
    CASE c = "readConfig"     -> TRUE
      [] c = "testController" -> b.kind \in {"55", "equal"}
      [] c = "testPort"       -> b.kind = "00"
      [] c = "enable"         -> b.kind = "FA"
      [] OTHER                -> b.kind \in {"FA", "FE"}

\* return false, or the next round; after the last one, return true.  The
\* lock's guard lets interrupts in again.
Continue(ok) ==
    /\ ipc' = IF ~ok THEN "off" ELSE IF round = Len(Dialogue) THEN "register" ELSE "send"
    /\ round' = IF ok /\ round < Len(Dialogue) THEN round + 1 ELSE round

Receive ==
    /\ Main("read")
    /\ ReadPort /\ Lose
    /\ IF Command = "reset"
       THEN ipc' = "second" /\ held' = data /\ UNCHANGED round
       ELSE /\ Continue(Accepts(Command, data))
            /\ held' = IF Command = "readConfig" THEN data ELSE held
    /\ UNCHANGED <<led, ring, received, pressed, passed, missed>>

\* The second byte that a reset answers with, if it is there.
ReceiveSecond ==
    /\ Main("second")
    /\ IF full
       THEN ReadPort /\ Lose /\ Continue(held.kind = "AA" \/ data.kind = "AA")
       ELSE Continue(held.kind = "AA") /\ UNCHANGED <<port, lost>>
    /\ UNCHANGED <<held, led, ring, received, pressed, passed, missed>>

\* register_handler, after activate has let interrupts in again.
Register ==
    /\ Main("register")
    /\ ipc' = "on"
    /\ UNCHANGED <<port, round, held, led, ring, received, hist>>

\* loop, as KeyQueue has it.
Read ==
    /\ Main("on") /\ ring # <<>>
    /\ received' = Append(received, Head(ring)) /\ ring' = Tail(ring)
    /\ UNCHANGED <<port, activation, led, hist>>

ReadNothing ==
    /\ Main("on") \/ Main("off")
    /\ ring = <<>>
    /\ UNCHANGED keyboardVars

-----------------------------------------------------------------------------
(* The interrupt. *)

InterruptFlag == ipc \in {"start", "register", "on", "off"} /\ hpc = "no"

\* Mutants: the code is not received out of the controller; it is received out
\* before the ring is looked at.
TopHalfPeeks ==
    IF full /\ Len(ring) < RingSize
    THEN /\ ring' = Append(ring, data)
         /\ hpc' = IF data.kind = "lock" THEN "askLED" ELSE "no"
         /\ irr' = FALSE
         /\ UNCHANGED <<full, data, pend, conf, sends, missed>>
    ELSE /\ irr' = FALSE /\ missed' = (missed \/ full)
         /\ UNCHANGED <<full, data, pend, conf, sends, hpc, ring>>

TopHalfReadsFirst ==
    /\ full' = FALSE /\ irr' = FALSE
    /\ IF full /\ Len(ring) < RingSize
       THEN /\ ring' = Append(ring, data)
            /\ hpc' = IF data.kind = "lock" THEN "askLED" ELSE "no"
       ELSE UNCHANGED <<ring, hpc>>
    /\ UNCHANGED <<data, pend, conf, sends, missed>>

\* topHalf, up to changeKeyboardLED.  A full ring leaves the byte where it is.
TopHalf ==
    IF full /\ Len(ring) < RingSize
    THEN /\ ring' = Append(ring, data)
         /\ hpc' = IF data.kind = "lock" THEN "askLED" ELSE "no"
         /\ full' = FALSE /\ irr' = FALSE
         /\ UNCHANGED <<data, pend, conf, sends, missed>>
    ELSE /\ irr' = FALSE /\ missed' = (missed \/ full)
         /\ UNCHANGED <<full, data, pend, conf, sends, hpc, ring>>

\* ISR_do_IRQ.  Before the handler is registered nothing reads the byte.
Interrupt ==
    /\ InterruptFlag /\ irr
    /\ IF ipc = "on"
       THEN TopHalf
       ELSE /\ irr' = FALSE /\ missed' = (missed \/ full)
            /\ UNCHANGED <<full, data, pend, conf, sends, hpc, ring>>
    /\ UNCHANGED <<activation, tries, received, pressed, lost, passed>>

\* changeKeyboardLED: a command, then up to Tries looks for the answer.
SendLED ==
    /\ hpc \in {"askLED", "setLED"}
    /\ \E a \in Answers("LED") : pend' = pend \o a
    /\ hpc' = IF hpc = "askLED" THEN "awaitAsk" ELSE "awaitSet"
    /\ tries' = 0
    /\ UNCHANGED <<full, data, conf, sends, irr, activation, ring, received, hist>>

\* The loop over the looks, and what its end leads to.
AwaitLED ==
    /\ hpc \in {"awaitAsk", "awaitSet"}
    /\ ReadPort /\ Lose
    /\ tries' = tries + 1
    /\ hpc' = IF data.kind = "FA" THEN (IF hpc = "awaitAsk" THEN "setLED" ELSE "no")
              ELSE IF tries' = Tries THEN "no" ELSE hpc
    /\ UNCHANGED <<activation, ring, received, pressed, passed, missed>>

-----------------------------------------------------------------------------
Device == Deliver \/ PressKey

Driver ==
    \/ NotSupported \/ Disable \/ Flush \/ Flushed
    \/ Send \/ Receive \/ ReceiveSecond \/ Register
    \/ Read
Handler == Interrupt \/ SendLED \/ AwaitLED

KeyboardNext == Device \/ Driver \/ ReadNothing \/ Handler

KeyboardSpec == KeyboardInit /\ [][KeyboardNext]_keyboardVars

-----------------------------------------------------------------------------
Bytes == Replies \union Keys \union {None}

KeyboardTypeOK ==
    /\ full \in BOOLEAN /\ data \in Bytes /\ pend \in Seq(Bytes)
    /\ conf \in [interrupt : BOOLEAN, rest : BOOLEAN]
    /\ sends \in BOOLEAN /\ irr \in BOOLEAN
    /\ ipc \in {"start", "flush", "send", "read", "second", "register", "on", "off"}
    /\ round \in 1 .. Len(Dialogue) /\ held \in Bytes
    /\ hpc \in {"no", "askLED", "awaitAsk", "setLED", "awaitSet"}
    /\ tries \in 0 .. Tries
    /\ ring \in Seq(Bytes) /\ Len(ring) <= RingSize
    /\ received \in Seq(Bytes)
    /\ pressed \in 0 .. MaxPresses /\ lost \in SUBSET (1 .. MaxPresses)
    /\ passed \in SUBSET ToSet(Dialogue) /\ missed \in BOOLEAN

\* activate only returns true when the devices passed the tests of controller
\* and port, the enabling and the reset, and the configuration it wrote is the
\* one it had read: answers to these that come late, and key codes between them,
\* never line up with later questions.  It says nothing of the last two commands,
\* which choose the scan codes: see OneAckLateEach.
ActivatedMeansTested ==
    ipc \in {"register", "on"} =>
        /\ {"testController", "testPort", "enable", "reset"} \subseteq passed
        /\ conf = [interrupt |-> TRUE, rest |-> TRUE]

\* The ring gets key codes and late acknowledgements, which loop takes for
\* the release of a key: no other answer of activate's is left over.
OnlyAcksTyped ==
    \A b \in ToSet(ring) \union ToSet(received) : IsKey(b) \/ b.kind \in {"FA", "FE"}

\* A byte only stays in the controller with no request for an interrupt when
\* an interrupt came for it and found the ring full or no handler: the
\* commands sent from inside the handler leave none behind.
StuckOnlyIfMissed ==
    ipc = "on" /\ hpc = "no" /\ full /\ ~irr => missed

\* The keys among the bytes of s are those of K, in the order they were pressed.
KeysAre(s, K) ==
    /\ {s[i].n : i \in {i \in DOMAIN s : IsKey(s[i])}} = K
    /\ \A i, j \in DOMAIN s : i < j /\ IsKey(s[i]) /\ IsKey(s[j]) => s[i].n < s[j].n

\* What is still to be read.
Unread == (IF full THEN <<data>> ELSE <<>>) \o pend

\* Codes come out of the ring in the order the keys were pressed, and none
\* is missing but those that a dialogue with the keyboard read.
LostOnlyInDialogues == KeysAre(received \o ring \o Unread, (1 .. pressed) \ lost)

Acks == {"FA", "FE"}
HowMany(s, K) == Cardinality({i \in DOMAIN s : s[i].kind \in K})
AcksOut == HowMany(received, Acks) + HowMany(ring, Acks) + HowMany(Unread, Acks)
Dialogues == HowMany(received, {"lock"}) + HowMany(ring, {"lock"})

\* How far acknowledgements fall behind.  What is taken for the answer to
\* "scanSet" is its answer.  That to "setOne" is read without a wait
\* (keyboard.cpp:114) and may be that of "scanSet" once more; then its own is
\* left for the handler, and loop, to find.  Of a changeKeyboardLED, which every
\* lock key starts, at most one acknowledgement is left to be typed or read for
\* another: that to its first command, or to its second.
OneAckLateEach ==
    /\ ipc = "send" /\ round = 10 => HowMany(Unread, Acks) = 0
    /\ ipc \in {"register", "on"} => AcksOut <= 1 + Dialogues

\* How far keys and answers are kept apart (keyboard.cpp:34-216).  What the
\* tests of the devices and the reset answer is never taken for another answer
\* and never typed, late acknowledgements are typed but no more than one for
\* each dialogue, and no key is taken or turned round by anything but a dialogue.
KeysAndAnswersApart ==
    ActivatedMeansTested /\ OnlyAcksTyped /\ OneAckLateEach /\ LostOnlyInDialogues

-----------------------------------------------------------------------------
(***************************************************************************)
(* The inductive invariant behind StuckOnlyIfMissed.                       *)
(***************************************************************************)

\* A byte in the controller has its request, or had it in vain.
Requested == full /\ conf.interrupt => irr \/ missed

\* Only the second "configure" leads to the rounds behind it.
InterruptEnabled ==
    /\ round \in 1 .. 10
    /\ round > 7 => conf.interrupt
    /\ ipc \in {"read", "second"} => round \notin {2, 7}
    /\ ipc \in {"register", "on"} => round = 10

StuckInv == Requested /\ InterruptEnabled

-----------------------------------------------------------------------------
(***************************************************************************)
(* The inductive invariant behind KeysAndAnswersApart.  A read takes one   *)
(* byte or none, so answers can only fall behind the questions: one that   *)
(* is waited for is behind as many bytes as there are too many.  Two       *)
(* answers are given once and accepted by nothing else, "00" in the fourth *)
(* round and "AA" in the eighth.  A read that meets one of them in its     *)
(* round shows that no answer before it is still on its way, and that no   *)
(* key came between.                                                       *)
(***************************************************************************)

KeyKinds == {"plain", "equal", "lock"}

\* No read finds a byte of kind k, or only one that takes the i-th byte.
Lacks(k) ==
    /\ ~full => data.kind # k
    /\ \A i \in DOMAIN Unread : Unread[i].kind # k
OnlyAt(k, i) ==
    /\ i \in DOMAIN Unread
    /\ ~full => data.kind # k
    /\ \A j \in DOMAIN Unread : j # i => Unread[j].kind # k

\* What comes behind the i-th byte is keys.
KeysBehind(i) == \A j \in DOMAIN Unread : j > i => Unread[j].kind \in KeyKinds

Before == ipc \in {"start", "flush"} =>
    /\ round = 1 /\ conf.rest /\ Lacks("00")
    /\ ipc = "flush" => ~sends

\* The rounds up to the test of the port: what is known when no byte is unread
\* but the answer to the command that was sent.
InStep ==
    /\ conf.rest
    /\ round = 1 /\ ipc = "read" => Unread[1].kind = "config"
    /\ round = 2 => held.kind = "config"
    /\ round = 3 /\ ipc = "read" =>
          Unread[1].kind \in {"55", "FC"} /\ (Unread[1].kind = "55" => "testController" \in passed)
    /\ round = 4 => "testController" \in passed

FirstRounds == ipc \in {"send", "read"} /\ round <= 4 =>
    /\ ~sends
    /\ round # 4 \/ ipc = "send" => Lacks("00")
    /\ round = 4 /\ ipc = "read" =>
          /\ OnlyAt("00", Len(Unread))
          /\ Unread[Len(Unread)].kind = "00" => "testPort" \in passed
    /\ ipc = "read" => Unread # <<>>
    /\ Len(Unread) = (IF ipc = "read" THEN 1 ELSE 0) => InStep

\* The round that enables the keyboard, with nothing unread.
EnableRound == ipc \in {"send", "read"} /\ round = 5 =>
    /\ conf.rest /\ Lacks("AA")
    /\ ~full => data.kind = "00"
    /\ IF ipc = "send" THEN Unread = <<>> /\ ~sends
       ELSE /\ Unread # <<>>
            /\ Unread[1].kind = "FA" => "enable" \in passed
            /\ KeysBehind(1)

\* From then on keys come in between.
SecondRounds == ipc \in {"send", "read", "second"} /\ round \in 6 .. 8 =>
    /\ round # 8 \/ ipc = "send" => Lacks("AA")
    /\ round < 8 => conf.rest
    /\ round = 6 /\ ipc = "read" => Unread # <<>> /\ (Len(Unread) = 1 => Unread[1].kind = "config")
    /\ round = 7 /\ Unread = <<>> => held.kind = "config"
    /\ round = 8 /\ ipc = "send" /\ Unread = <<>> => conf.rest
    /\ round = 8 /\ ipc # "send" =>
          \E i \in DOMAIN Unread :
              /\ OnlyAt("AA", i) /\ KeysBehind(i)
              /\ Unread[i].kind = "AA" => "reset" \in passed
              /\ ipc = "read" => i > 1 /\ (i = 2 => conf.rest)
              /\ ipc = "second" => held.kind # "AA" /\ (i = 1 => conf.rest)

Tested ==
    /\ ipc \in {"send", "read", "second"} /\ round > 4 => {"testController", "testPort"} \subseteq passed
    /\ ipc \in {"send", "read", "second"} /\ round > 5 => "enable" \in passed
    /\ ipc \in {"register", "on"} \/ (ipc \in {"send", "read", "second"} /\ round > 8) =>
          /\ {"testController", "testPort", "enable", "reset"} \subseteq passed
          /\ conf.rest
          /\ \A i \in DOMAIN Unread : Unread[i].kind \in KeyKinds \union {"FA", "FE"}

Places ==
    /\ hpc # "no" => ipc = "on"
    /\ hpc \in {"awaitAsk", "awaitSet"} => tries < Tries
    /\ ipc = "second" => round = 8

\* Where the acknowledgements are.  The reset has left none, so what round 9
\* reads for one is its own.  A changeKeyboardLED starts with the lock key as the
\* last byte read, so what its first command takes for an answer, own or not, is
\* one acknowledgement less; one is set aside for each command still to come.
AcksInv ==
    /\ ipc # "on" => ring = <<>> /\ received = <<>>
    /\ ipc \in {"send", "read"} /\ round \in 9 .. 10 =>
          HowMany(Unread, Acks) <= (IF ipc = "send" THEN 0 ELSE 1)
    /\ ipc \in {"send", "read"} /\ round = 9 /\ ~full => data.kind \notin Acks
    /\ hpc \in {"askLED", "awaitAsk"} /\ ~full => data.kind # "FA"
    /\ ipc \in {"register", "on"} =>
          AcksOut + (IF hpc \in {"askLED", "setLED"} THEN 1 ELSE 0) <= 1 + Dialogues

\* The parts that follow the dialogue.
Following == Before /\ FirstRounds /\ EnableRound /\ SecondRounds /\ Tested

DialogueInv ==
    /\ KeyboardTypeOK /\ Places /\ Following
    /\ OnlyAcksTyped /\ AcksInv
    /\ LostOnlyInDialogues /\ lost \subseteq 1 .. pressed
=============================================================================

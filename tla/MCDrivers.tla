------------------------------ MODULE MCDrivers ------------------------------
(***************************************************************************)
(* Keyboard and screen for TLC.  The keyboard's driver is here twice:      *)
(* Keyboard has the devices in every detail and read as one step, KeyQueue *)
(* has read in every detail and the interrupt as one step.  A behaviour is *)
(* one of the ring, of the devices, or of the screen.                      *)
(***************************************************************************)
EXTENDS Keyboard, MCKeyQueue, MCConsole

VARIABLE part

driverVars == <<vars, keyboardVars, consoleVars, part>>

DriverInit ==
    /\ part \in {"ring", "devices", "screen"}
    /\ Init /\ KeyboardInit
    /\ ConsoleInit /\ (part # "screen" => vga.screen = 0)

RingStep(A) == part = "ring" /\ A /\ UNCHANGED <<keyboardVars, consoleVars, part>>

DriverNext ==
    \/ RingStep(Next)
    \/ part = "devices" /\ KeyboardNext /\ UNCHANGED <<vars, consoleVars, part>>
    \/ part = "screen" /\ ConsoleNext /\ UNCHANGED <<vars, keyboardVars, part>>

\* The main task gets the processor again and again, as KeyQueue has it.
DriverSpec == DriverInit /\ [][DriverNext]_driverVars /\ WF_driverVars(RingStep(Reading))
=============================================================================

------------------------------ MODULE MCMachine ------------------------------
(***************************************************************************)
(* The machine for TLC: how it comes up, BootLoader, and how it takes      *)
(* interrupts once the kernel has it, Interrupts.  A behaviour is one of   *)
(* the boot loader or one of the kernel.                                   *)
(***************************************************************************)
EXTENDS BootLoader, Interrupts

VARIABLE part

machineVars == <<bootVars, vars, part>>

Reported(valid, empty, free, big) ==
    [valid |-> valid, empty |-> empty, free |-> free, big |-> big]

\* Memory enough and too little, memory in use, and a range of each kind that
\* is to be ignored: of no length, and marked so by the BIOS.
MCReports == {Reported(TRUE, FALSE, TRUE, TRUE), Reported(TRUE, FALSE, TRUE, FALSE),
              Reported(TRUE, FALSE, FALSE, TRUE), Reported(TRUE, TRUE, TRUE, FALSE),
              Reported(FALSE, FALSE, TRUE, TRUE)}

\* Handlers all over the address space: every byte of an address counts.
HandlerAt == [v \in Vectors |-> v * 257]

MachineInit ==
    /\ part \in {"boot", "interrupts"}
    /\ BootInit /\ Init
    /\ part # "boot" => ~gate /\ kbc.out.run /\ ~kbc.out.a20

BootStep(A) == part = "boot" /\ A /\ UNCHANGED <<vars, part>>
InterruptStep(A) == part = "interrupts" /\ A /\ UNCHANGED <<bootVars, part>>

MachineNext == BootStep(BootNext) \/ InterruptStep(Next)

\* Of the boot loader: the processor executes and the controller answers; the
\* BIOS returns.
BootFair ==
    /\ WF_machineVars(BootStep(Processor))
    /\ WF_machineVars(BootStep(KeyboardController))

\* Of the kernel: the processor goes on with what it has begun and looks for a
\* request behind every instruction at which the flag is set.  A task gives back
\* the locks it holds, the outermost too: no code takes locks without end inside
\* another.
InterruptsFair ==
    /\ WF_machineVars(InterruptStep(Booting \/ Waiting \/ PicWrite \/ Panic \/ Handling))
    /\ WF_machineVars(InterruptStep(Clear))
    /\ WF_machineVars(InterruptStep(Unlock))
    /\ SF_machineVars(InterruptStep(Unlock /\ locks' = <<>>))
    /\ SF_machineVars(InterruptStep(Accept))

MachineSpec ==
    MachineInit /\ [][MachineNext]_machineVars /\ BootFair /\ InterruptsFair

\* stage2.s: every boot comes to an end: no wait for the controller and no
\* sequence of short reads goes on for ever, when the BIOS's list ends and it
\* does not go on answering reads with nothing.
BootEnds == part = "boot" => <>(ip \in Ended)
=============================================================================

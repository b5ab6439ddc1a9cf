----------------------------- MODULE MCKeyQueue ------------------------------
(***************************************************************************)
(* KeyQueue for TLC, with what it promises about the life of a scan code.  *)
(***************************************************************************)
EXTENDS KeyQueue

\* Whatever is in the ring, the main task empties it.
RingDrains == Remaining > 0 ~> Remaining = 0

\* scheduler.h:51, "Processing io event": a scan code that the driver took
\* from the controller is looked at.
EveryKeyHandled ==
    \A k \in 1 .. MaxKeys :
        arrived >= k ~> \E i \in 1 .. Len(handled) : handled[i] = k
=============================================================================

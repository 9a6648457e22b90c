---------------------------- MODULE MCVirtMachine ----------------------------
(***************************************************************************)
(* A delay that is not a multiple of the cycles of a tick, two bytes of    *)
(* input at a time, and locks nested once.                                 *)
(***************************************************************************)
EXTENDS VirtMachine

MCTransmitDelay == 2 * CyclesPerTick + 1
=============================================================================

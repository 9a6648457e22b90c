------------------------------- MODULE MCHart -------------------------------
(***************************************************************************)
(* A machine interrupt that a device drives and a delegable interrupt that *)
(* software drives; one exception that can be delegated and one that       *)
(* cannot. The timer is left alone here (see MCInterruptCsrs).             *)
(***************************************************************************)
EXTENDS Hart

MCInterrupts == {"MEI", "SEI"}
MCDeviceInterrupts == {"MEI"}
MCExceptions == {"IllegalInstruction", "EnvironmentCallFromMMode"}
MCDelegableExceptions == {"IllegalInstruction"}
=============================================================================

--------------------------- MODULE MCInterruptCsrs --------------------------
(***************************************************************************)
(* The three supervisor interrupts, of which a device drives SEI: each is  *)
(* pending for a different reason (software only, timer or software,       *)
(* device or software).                                                    *)
(***************************************************************************)
EXTENDS InterruptCsrs

MCInterrupts == {"SSI", "STI", "SEI"}
MCDeviceInterrupts == {"SEI"}
=============================================================================

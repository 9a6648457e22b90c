---------------------------- MODULE MCReservation ---------------------------
(***************************************************************************)
(* Two pages of two cells; 8-byte accesses of either page, which may be    *)
(* page table entries, and a 4-byte access of the first cell.              *)
(***************************************************************************)
EXTENDS Reservation

MCCells == 1 .. 4
MCPages == {"low", "high"}
MCPageOf == [c \in MCCells |-> IF c <= 2 THEN "low" ELSE "high"]
MCAccesses == {{1}, {1, 2}, {3, 4}}
MCEntries == {{1, 2}, {3, 4}}
=============================================================================

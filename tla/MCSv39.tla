-------------------------------- MODULE MCSv39 --------------------------------
(***************************************************************************)
(* Protection: three entries in two configuration registers, so that an    *)
(* entry and its successor may or may not share a register; addresses of   *)
(* three bits, that is regions of 4 to 64 bytes; each mode, locked or not. *)
(* Accesses lie inside words, fill them, straddle them, or lie in the last *)
(* word that a region reaches.                                             *)
(*                                                                         *)
(* Translation: two levels, two entries in a table, pages of 16 bytes, of  *)
(* which three are memory. Frame 0 is a root table and frame 1 the table   *)
(* below it, or a root as well; leaves map tables, data, a device, and a   *)
(* frame that protection forbids. Of seven address bits one is above the   *)
(* translated ones. Protection opens the frames 0 to 3, or also makes the  *)
(* first entry of the first table read-only and hides half of the second.  *)
(***************************************************************************)
EXTENDS Sv39

Config(perms, mode, locked) ==
  [perms |-> perms, mode |-> mode, locked |-> locked]

Everything == Config(Kinds, "napot", TRUE)

MCConfigBytes ==
  {Config({}, "off", TRUE), Config({"load"}, "tor", FALSE),
   Config({"load", "store"}, "tor", TRUE), Config({"store"}, "na4", FALSE),
   Everything}

MCAccesses == {{0}, 2 .. 5, 4 .. 7, 8 .. 15, {63}}

MCPmpSettings ==
  {<<[i \in 0 .. 2 |-> IF i = 2 THEN Everything ELSE Unused],
     [i \in 0 .. 2 |-> IF i = 2 THEN 7 ELSE 0]>>,
   <<[i \in 0 .. 2 |-> IF i = 2 THEN Everything ELSE
                       IF i = 1 THEN Config({}, "na4", FALSE)
                       ELSE Config({"load"}, "tor", FALSE)],
     [i \in 0 .. 2 |-> IF i = 2 THEN 7 ELSE 2]>>}

Pte(flags, ppn) == [flags |-> flags, ppn |-> ppn, reserved |-> FALSE]
Reserved == [Pte({"V", "R", "A"}, 2) EXCEPT !.reserved = TRUE]

Pointers == {Pte({"V"}, 1), Pte({"V"}, 0), Pte({"V"}, 3), Pte({"V", "A"}, 1)}
Leaves ==
  {Pte({"V", "R", "W"}, 2), Pte({"V", "R", "W", "A"}, 0), Pte({"V", "X"}, 2),
   Pte({"V", "R", "W", "X", "U"}, 1), Pte({"V", "R", "A", "U"}, 4),
   Pte({"V", "W", "X"}, 2), Pte({"R", "A"}, 2), Reserved}
Superpages ==
  {Pte({"V", "R", "W", "A"}, 0), Pte({"V", "X"}, 2), Pte({"V", "R", "A", "U"}, 1)}

MCTables ==
  {[f \in Dram |-> [i \in 0 .. 1 |->
      CASE f = 0 /\ i = 0 -> a [] f = 0 /\ i = 1 -> Pte({"V"}, 1)
        [] f = 1 /\ i = 0 -> c [] f = 1 /\ i = 1 -> Pte({"V", "R", "W", "U"}, 0)
        [] OTHER -> Pte({}, 0)]] :
     a \in Pointers \cup Superpages, c \in Leaves \cup {Pte({"V"}, 0)}}

Environment(privilege, mprv, sum, mxr) ==
  [privilege |-> privilege, mprv |-> mprv, mpp |-> "supervisor",
   sum |-> sum, mxr |-> mxr]
MCEnvironments ==
  {Environment("user", FALSE, FALSE, FALSE),
   Environment("supervisor", FALSE, FALSE, TRUE),
   Environment("supervisor", FALSE, TRUE, FALSE),
   Environment("machine", TRUE, FALSE, FALSE)}
MCVirtualAddresses == {0, 14, 16, 32, 96, 120}
=============================================================================

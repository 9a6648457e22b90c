---------------------------- MODULE MCVirtioDisk ----------------------------
(***************************************************************************)
(* One feature the device offers and one it does not, in different words;  *)
(* the two status bits without effect are represented by one. Tables of    *)
(* four descriptors cover: a header of its own, split, shared with data, or *)
(* not readable; data read, written or both, in one descriptor or two, of  *)
(* one or two chunks, empty, or outside memory; a status of its own, shared *)
(* with data, or outside memory; loops, indices past the queue, indirect   *)
(* descriptors, and readable ones after writable ones. The medium has three *)
(* sectors of two cells; a sector may be past its end, or overflow. Six     *)
(* cells of data are too many for the length in the used ring, and their    *)
(* status.                                                                  *)
(***************************************************************************)
EXTENDS VirtioDisk

MCPlainStatus == {"DRIVER"}
MCFeatures == {"VERSION_1", "RO"}
MCHighFeatures == {"VERSION_1"}
MCDeviceFeatures == {"VERSION_1"}

Descriptor(addr, len, flags, next) ==
  [addr |-> addr, len |-> len, flags |-> flags, next |-> next]
R(addr, len, next) == Descriptor(addr, len, {"NEXT"}, next)
W(addr, len, next) == Descriptor(addr, len, {"NEXT", "WRITE"}, next)
Last(addr, len, flags) == Descriptor(addr, len, flags, 0)

MCTables ==
  LET first  == {R(0, 2, 1), R(0, 1, 1), R(0, 4, 1), W(0, 2, 1), Last(0, 2, {})}
      second == {R(1, 1, 2), W(2, 2, 2), R(2, 2, 2), W(2, 4, 3), R(2, 0, 2),
                 W(6, 3, 2), Last(2, 3, {"WRITE"}), Last(7, 1, {"WRITE"}),
                 Descriptor(2, 2, {"NEXT", "INDIRECT"}, 2)}
      third  == {W(4, 2, 3), W(3, 2, 3), R(4, 1, 3), R(2, 2, 0), W(2, 2, 4),
                 Last(8, 1, {"WRITE"}), Last(6, 1, {})}
      fourth == {Last(7, 1, {"WRITE"}), Last(4, 3, {"WRITE"})}
  IN  {[i \in 0 .. 3 |-> CASE i = 0 -> a [] i = 1 -> b [] i = 2 -> c [] i = 3 -> d] :
         a \in first, b \in second, c \in third, d \in fourth}

MCHeaders == [type : {0, 1, 8}, sector : {0, 1, 2, 3, 9}]
=============================================================================

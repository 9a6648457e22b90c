------------------------------ MODULE MCPlatform ------------------------------
(***************************************************************************)
(* Addresses of four bits. Two devices attached one by one get all regions *)
(* of up to four bytes, the empty ones too; a virt platform has three. DRAM *)
(* may hold no aligned stack, or end where addresses do. Images have one or *)
(* two segments, which may be truncated, longer in the file than in memory, *)
(* outside DRAM or overlapping, and may map the entry twice.               *)
(***************************************************************************)
EXTENDS Platform

Region(base, size) == [base |-> base, size |-> size]

MCDrams == {Region(4, 6), Region(5, 2), Region(11, 4), Region(12, 4), Region(3, 0)}
MCDeviceRegions == [base : 0 .. 15, size : 0 .. 4]
MCConfigs ==
  {[dram |-> Region(6, 6), irqs |-> <<a, b>>,
    regions |-> <<Region(0, 2), Region(base, 2), Region(other, 2)>>] :
     a \in {1, 2}, b \in {1, 2}, base \in {1, 2, 12}, other \in {3, 4, 12}}

Segment(virtual, physical, file, size, executable) ==
  [virtual |-> virtual, physical |-> physical, file |-> file, size |-> size,
   executable |-> executable, whole |-> TRUE]
MCSegments ==
  {Segment(v, p, f, 2, x) : v \in {4, 7}, p \in {0, 6, 8}, f \in {0, 1, 2, 3},
                            x \in BOOLEAN}
    \cup {Segment(14, 6, 1, 3, FALSE), Segment(1, 7, 2, 4, TRUE),
          [Segment(4, 6, 2, 2, TRUE) EXCEPT !.whole = FALSE]}
MCImages ==
  [header : {TRUE}, entry : {4, 5, 8},
   segments : {<<s>> : s \in MCSegments}
                \cup {<<s, t>> : s \in MCSegments, t \in MCSegments}]
    \cup [header : {TRUE}, entry : {4}, segments : {<<>>}]
    \cup [header : {FALSE}, entry : {4}, segments : {<<s>> : s \in MCSegments}]
=============================================================================

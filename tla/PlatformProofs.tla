---------------------------- MODULE PlatformProofs ----------------------------
(***************************************************************************)
(* Theorems about the platform, the bus and the loader, for every address  *)
(* width, every set of regions and configurations, and every image.        *)
(***************************************************************************)
EXTENDS Platform, IntegerLemmas, SequenceTheorems, TLAPS

-----------------------------------------------------------------------------
(* Regions. Two that the platform does not find overlapping lie one after  *)
(* the other, which is what the bus asks of neighbours; and the region on  *)
(* the bus with the highest base at or below an address is the only one    *)
(* that can hold it.                                                       *)

Disjoint(regions) ==
  /\ \A i \in DOMAIN regions : IsRegion(regions[i])
  /\ \A i, j \in DOMAIN regions :
       i # j => ~Overlaps(regions[i], regions[j])

\* Two regions that do not overlap are ordered.
LEMMA Ordered ==
  ASSUME NEW r \in Regions, NEW q \in Regions, IsRegion(r), IsRegion(q),
         ~Overlaps(r, q), q.base <= r.base
  PROVE  EndOf(q) <= r.base
<1>1. /\ r.base \in Nat /\ r.size \in Nat /\ q.base \in Nat /\ q.size \in Nat
      /\ r.size > 0 /\ q.size > 0
  BY PlatformAssumption DEF Regions, IsRegion
<1>2. ~(r.base < q.base + q.size /\ q.base < r.base + r.size)
  BY DEF Overlaps, EndOf
<1> QED BY <1>1, <1>2 DEF EndOf

\* Overlapping has no direction.
LEMMA Symmetric == \A r, q : Overlaps(r, q) <=> Overlaps(q, r)
BY DEF Overlaps

\* A sequence behind one more region.
LEMMA Prepended ==
  ASSUME NEW S, NEW d \in S, NEW s \in Seq(S)
  PROVE  /\ <<d>> \o s \in Seq(S) /\ Len(s) \in Nat
         /\ Len(<<d>> \o s) = Len(s) + 1
         /\ DOMAIN (<<d>> \o s) = 1 .. Len(s) + 1
         /\ (<<d>> \o s)[1] = d
         /\ \A i \in 2 .. Len(s) + 1 : (<<d>> \o s)[i] = s[i - 1]
<1>1. <<d>> \in Seq(S) /\ Len(<<d>>) = 1 /\ Len(s) \in Nat /\ <<d>>[1] = d
  BY LenProperties
<1>2. <<d>> \o s \in Seq(S) /\ Len(<<d>> \o s) = Len(s) + 1
      /\ \A i \in 1 .. Len(s) + 1 :
           (<<d>> \o s)[i] = IF i <= 1 THEN <<d>>[i] ELSE s[i - 1]
  BY <1>1, ConcatProperties
<1>3. DOMAIN (<<d>> \o s) = 1 .. Len(s) + 1
  BY <1>2, LenProperties
<1> QED BY <1>1, <1>2, <1>3

\* What find_dev and attach_device look up is there.
LEMMA HighestIs ==
  ASSUME NEW R, R # {}, \A r \in R : r.base \in 0 .. MaxAddress
  PROVE  Highest(R) \in R /\ \A q \in R : q.base <= Highest(R).base
<1> DEFINE B == {r.base : r \in R}
<1>1. B \in SUBSET Nat /\ B # {} /\ \A b \in B : b <= MaxAddress
  BY PlatformAssumption
<1>2. PICK b \in B : \A c \in B : c <= b
  <2> HIDE DEF B
  <2> QED BY <1>1, PlatformAssumption, Greatest
<1>3. \E r \in R : \A q \in R : q.base <= r.base
  BY <1>2
<1> QED BY <1>3 DEF Highest

\* Likewise the lowest one.
LEMMA LowestIs ==
  ASSUME NEW R, R # {}, \A r \in R : r.base \in 0 .. MaxAddress
  PROVE  Lowest(R) \in R
<1> DEFINE B == {r.base : r \in R}
<1>1. B \in SUBSET Nat /\ B # {}
  BY PlatformAssumption
<1>2. PICK b \in B : \A c \in B : b <= c
  <2> HIDE DEF B
  <2> QED BY <1>1, Least
<1>3. \A c \in B : c >= b
  BY <1>1, <1>2
<1>4. \E r \in R : \A q \in R : q.base >= r.base
  BY <1>2, <1>3
<1> QED BY <1>4 DEF Lowest

\* The bus accepts, one after the other, what the platform has accepted.
LEMMA BusAcceptsAll ==
  ASSUME NEW regions \in Seq(Regions), Disjoint(regions),
         NEW n \in DOMAIN regions
  PROVE  BusAccepts(OnBus(regions, n - 1), regions[n])
<1> DEFINE new == regions[n]
           others == OnBus(regions, n - 1)
           before == AtOrBelow(others, new.base)
           after == AtOrAbove(others, new.base)
<1>1. DOMAIN regions = 1 .. Len(regions) /\ Len(regions) \in Nat
      /\ \A i \in DOMAIN regions : regions[i] \in Regions
  BY LenProperties
<1>2. new \in Regions /\ IsRegion(new)
  BY <1>1 DEF Disjoint
<1>3. ASSUME NEW r \in others
      PROVE  /\ r.base \in 0 .. MaxAddress
             /\ r.base <= new.base => EndOf(r) <= new.base
             /\ r.base >= new.base => EndOf(new) <= r.base
  <2>1. PICK i \in 1 .. n - 1 :
          r = [base |-> regions[i].base, size |-> regions[i].size,
               device |-> i - 1]
    BY DEF OnBus
  <2>2. i \in DOMAIN regions /\ i # n
    BY <1>1
  <2>3. /\ regions[i] \in Regions /\ IsRegion(regions[i])
        /\ ~Overlaps(new, regions[i]) /\ ~Overlaps(regions[i], new)
    BY <1>1, <2>2 DEF Disjoint
  <2>4. /\ r.base = regions[i].base /\ EndOf(r) = EndOf(regions[i])
        /\ r.base \in 0 .. MaxAddress /\ new.base \in 0 .. MaxAddress
    BY <1>2, <2>1, <2>3 DEF EndOf, Regions
  <2>5. r.base <= new.base => EndOf(r) <= new.base
    <3> HIDE DEF new
    <3> QED BY <1>2, <2>3, <2>4, Ordered
  <2>6. r.base >= new.base => EndOf(new) <= r.base
    <3>1. r.base >= new.base => new.base <= regions[i].base
      BY <2>4, PlatformAssumption
    <3> HIDE DEF new
    <3> QED BY <1>2, <2>3, <2>4, <3>1, Ordered
  <2> QED BY <2>4, <2>5, <2>6
<1> HIDE DEF others
<1>4. before # {} => EndOf(Highest(before)) <= new.base
  <2> SUFFICES ASSUME before # {} PROVE EndOf(Highest(before)) <= new.base
    OBVIOUS
  <2>1. \A r \in before : r \in others /\ r.base <= new.base
    BY DEF AtOrBelow
  <2> HIDE DEF before, new
  <2>2. Highest(before) \in before
    BY <1>3, <2>1, HighestIs
  <2> QED BY <1>3, <2>1, <2>2
<1>5. after # {} => EndOf(new) <= Lowest(after).base
  <2> SUFFICES ASSUME after # {} PROVE EndOf(new) <= Lowest(after).base
    OBVIOUS
  <2>1. \A r \in after : r \in others /\ r.base >= new.base
    BY DEF AtOrAbove
  <2> HIDE DEF after, new
  <2>2. Lowest(after) \in after
    BY <1>3, <2>1, LowestIs
  <2> QED BY <1>3, <2>1, <2>2
<1> QED BY <1>2, <1>4, <1>5 DEF BusAccepts, others

\* The bytes of an access lie in a region.
LEMMA Holding ==
  ASSUME NEW r \in Regions, NEW addr \in Nat, NEW size \in Nat \ {0}
  PROVE  addr .. addr + size - 1 \subseteq BytesOf(r)
           <=> r.base <= addr /\ addr + size <= EndOf(r)
<1>1. r.base \in Nat /\ r.size \in Nat
  BY PlatformAssumption DEF Regions
<1>2. ASSUME addr .. addr + size - 1 \subseteq BytesOf(r)
      PROVE  r.base <= addr /\ addr + size <= EndOf(r)
  <2>1. addr \in addr .. addr + size - 1
        /\ addr + size - 1 \in addr .. addr + size - 1
    OBVIOUS
  <2>2. addr \in BytesOf(r) /\ addr + size - 1 \in BytesOf(r)
    BY <1>2, <2>1
  <2> QED BY <1>1, <2>2 DEF BytesOf, EndOf
<1>3. ASSUME r.base <= addr, addr + size <= EndOf(r)
      PROVE  addr .. addr + size - 1 \subseteq BytesOf(r)
  BY <1>1, <1>3 DEF BytesOf, EndOf
<1> QED BY <1>2, <1>3

\* The bus finds the holder of an access, and nothing if there is none.
LEMMA Routing ==
  ASSUME NEW regions \in Seq(Regions), Disjoint(regions),
         bus = OnBus(regions, Len(regions)),
         NEW addr \in 0 .. MaxAddress, NEW size \in {1, 2, 4, 8}
  PROVE  LET holders == {i \in DOMAIN regions :
                           addr .. addr + size - 1 \subseteq BytesOf(regions[i])}
         IN  IF holders = {} THEN FindDev(addr, size) = Nowhere
             ELSE holders = {FindDev(addr, size) + 1}
<1> DEFINE holders == {i \in DOMAIN regions :
                         addr .. addr + size - 1 \subseteq BytesOf(regions[i])}
           below == AtOrBelow(bus, addr)
           OnIt(r, i) == /\ r.base = regions[i].base /\ r.size = regions[i].size
                         /\ r.device = i - 1
<1>1. /\ DOMAIN regions = 1 .. Len(regions) /\ Len(regions) \in Nat
      /\ \A i \in DOMAIN regions : regions[i] \in Regions /\ IsRegion(regions[i])
      /\ addr \in Nat /\ size \in Nat \ {0} /\ MaxAddress \in Nat
  BY LenProperties, PlatformAssumption DEF Disjoint
<1>2. \A r \in bus : \E i \in DOMAIN regions : OnIt(r, i)
  BY <1>1 DEF OnBus
<1>3. \A i \in DOMAIN regions : \E r \in bus : OnIt(r, i)
  <2> SUFFICES ASSUME NEW i \in DOMAIN regions PROVE \E r \in bus : OnIt(r, i)
    OBVIOUS
  <2> DEFINE r == [base |-> regions[i].base, size |-> regions[i].size,
                   device |-> i - 1]
  <2>1. r \in bus
    BY <1>1 DEF OnBus
  <2> QED BY <2>1
<1>4. \A r \in bus : r.base \in 0 .. MaxAddress
  BY <1>1, <1>2 DEF Regions
<1>5. \A i \in DOMAIN regions :
        i \in holders <=> regions[i].base <= addr
                          /\ addr + size <= EndOf(regions[i])
  BY <1>1, Holding
<1> HIDE DEF holders
<1>6. ASSUME below # {}
      PROVE  \E i \in DOMAIN regions :
               /\ OnIt(Highest(below), i) /\ regions[i].base <= addr
               /\ \A j \in holders : j = i
  <2>1. \A r \in below : r \in bus /\ r.base <= addr
    BY DEF AtOrBelow
  <2>2. Highest(below) \in below
        /\ \A q \in below : q.base <= Highest(below).base
    <3> HIDE DEF below
    <3> QED BY <1>4, <1>6, <2>1, HighestIs
  <2>3. PICK i \in DOMAIN regions : OnIt(Highest(below), i)
    BY <1>2, <2>1, <2>2
  <2>4. regions[i].base <= addr
    BY <2>1, <2>2, <2>3
  <2>5. ASSUME NEW j \in DOMAIN regions, j \in holders, j # i PROVE FALSE
    <3>1. regions[j].base <= addr /\ addr + size <= EndOf(regions[j])
      BY <1>5, <2>5
    <3>2. PICK r \in bus : OnIt(r, j)
      BY <1>3
    <3>3. r \in below
      BY <3>1, <3>2 DEF AtOrBelow
    <3>4. regions[j].base <= regions[i].base
      BY <2>2, <2>3, <3>2, <3>3
    <3>5. ~Overlaps(regions[i], regions[j])
      BY <2>5 DEF Disjoint
    <3>6. EndOf(regions[j]) <= regions[i].base
      BY <1>1, <3>4, <3>5, Ordered
    <3>7. regions[i].base \in Nat /\ EndOf(regions[j]) \in Nat
      BY <1>1 DEF Regions, EndOf
    <3> QED BY <1>1, <2>4, <3>1, <3>6, <3>7
  <2>6. holders \subseteq DOMAIN regions
    BY DEF holders
  <2> QED BY <2>3, <2>4, <2>5, <2>6
<1>7. CASE below = {}
  <2>1. FindDev(addr, size) = Nowhere
    BY <1>7 DEF FindDev
  <2>2. ASSUME NEW j \in holders PROVE FALSE
    <3>1. j \in DOMAIN regions /\ regions[j].base <= addr
      BY <1>5 DEF holders
    <3>2. PICK r \in bus : OnIt(r, j)
      BY <1>3, <3>1
    <3> QED BY <1>7, <3>1, <3>2 DEF AtOrBelow
  <2> QED BY <2>1, <2>2 DEF holders
<1>8. CASE below # {}
  <2>1. PICK i \in DOMAIN regions :
          /\ OnIt(Highest(below), i) /\ regions[i].base <= addr
          /\ \A j \in holders : j = i
    BY <1>6, <1>8
  <2>2. EndOf(Highest(below)) = EndOf(regions[i])
    BY <2>1 DEF EndOf
  <2>3. EndOf(regions[i]) <= MaxAddress /\ EndOf(regions[i]) \in Nat
    BY <1>1 DEF IsRegion, EndOf, Regions
  <2>4. CASE i \in holders
    <3>1. addr + size <= EndOf(regions[i])
      BY <1>5, <2>4
    <3>2. addr + size <= MaxAddress
      BY <1>1, <2>3, <3>1
    <3>3. FindDev(addr, size) = i - 1
      BY <1>8, <2>1, <2>2, <3>1, <3>2 DEF FindDev
    <3>4. holders = {i} /\ (i - 1) + 1 = i
      BY <1>1, <2>1, <2>4
    <3> QED BY <3>3, <3>4 DEF holders
  <2>5. CASE i \notin holders
    <3>1. ~(addr + size <= EndOf(regions[i]))
      BY <1>5, <2>1, <2>5
    <3>2. FindDev(addr, size) = Nowhere
      BY <2>2, <3>1 DEF FindDev
    <3>3. holders = {}
      BY <2>1, <2>5
    <3> QED BY <3>2, <3>3 DEF holders
  <2> QED BY <2>4, <2>5
<1> QED BY <1>7, <1>8 DEF holders

-----------------------------------------------------------------------------
(* The loader. Every write of a segment that passed the checks succeeds,   *)
(* and each byte keeps what the last segment over it wrote.                *)

Bytes == Nat \X Nat
Loading == [failed : BOOLEAN, memory : [BytesOf(dram) -> Bytes]]

\* A function on 1 .. n is a sequence of n elements.
LEMMA SequenceOf ==
  ASSUME NEW S, NEW n \in Nat, NEW s \in [1 .. n -> S]
  PROVE  s \in Seq(S) /\ Len(s) = n /\ DOMAIN s = 1 .. n
<1>1. s \in Seq(S)
  BY SeqDef
<1>2. Len(s) \in Nat /\ DOMAIN s = 1 .. Len(s)
  BY <1>1, LenProperties
<1>3. 1 .. Len(s) = 1 .. n
  BY <1>2
<1> DEFINE l == Len(s)
<1>4. l = n
  <2>1. l \in Nat /\ 1 .. l = 1 .. n
    BY <1>2, <1>3
  <2> HIDE DEF l
  <2> QED BY <2>1
<1> QED BY <1>1, <1>4

\* One write, of bytes that fit or do not.
LEMMA WriteStep ==
  ASSUME NEW done \in Loading, NEW addr \in Nat, NEW n \in Nat,
         NEW bytes \in [1 .. n -> Bytes]
  PROVE  /\ Write(done, addr, bytes) \in Loading
         /\ ~done.failed /\ ContainsRange(addr, n) =>
              /\ ~Write(done, addr, bytes).failed
              /\ \A a \in BytesOf(dram) :
                   Write(done, addr, bytes).memory[a] =
                     IF a - addr + 1 \in 1 .. n THEN bytes[a - addr + 1]
                     ELSE done.memory[a]
<1>1. Len(bytes) = n /\ DOMAIN bytes = 1 .. n
  BY SequenceOf
<1>2. done.memory \in [BytesOf(dram) -> Bytes]
  BY DEF Loading
<1> DEFINE memory2 == [a \in BytesOf(dram) |->
                         IF a - addr + 1 \in 1 .. n THEN bytes[a - addr + 1]
                         ELSE done.memory[a]]
<1>3. memory2 \in [BytesOf(dram) -> Bytes]
  BY <1>2
<1>4. CASE done.failed \/ ~ContainsRange(addr, n)
  <2>1. Write(done, addr, bytes) = [done EXCEPT !.failed = TRUE]
    BY <1>1, <1>4 DEF Write
  <2> QED BY <1>4, <2>1 DEF Loading
<1>5. CASE ~(done.failed \/ ~ContainsRange(addr, n))
  <2>1. Write(done, addr, bytes) = [done EXCEPT !.memory = memory2]
    BY <1>1, <1>2, <1>5 DEF Write
  <2>2. Write(done, addr, bytes) \in Loading
    BY <1>3, <2>1 DEF Loading
  <2>3. /\ Write(done, addr, bytes).failed = done.failed
        /\ Write(done, addr, bytes).memory = memory2
    BY <2>1 DEF Loading
  <2> QED BY <1>5, <2>2, <2>3
<1> QED BY <1>4, <1>5

\* Where segment i of an image lies, and what it has at an address.
Covers(elf, i, a) ==
  a - Address(elf, elf.segments[i]) \in 0 .. elf.segments[i].size - 1
Content(elf, i, a) ==
  LET offset == a - Address(elf, elf.segments[i])
  IN  IF offset < elf.segments[i].file THEN <<i, offset + 1>> ELSE Zero

\* The segments of an image are those 64 bits can describe.
LEMMA SegmentTyped ==
  ASSUME NEW elf \in Images, NEW i \in DOMAIN elf.segments
  PROVE  /\ elf.segments[i] \in Segments /\ i \in Nat
         /\ Address(elf, elf.segments[i]) \in Nat
         /\ elf.segments[i].file \in Nat /\ elf.segments[i].size \in Nat
         /\ elf.segments[i].virtual \in Nat
<1>1. elf.segments \in Seq(Segments) /\ MaxAddress \in Nat
  BY PlatformAssumption
<1>2. elf.segments[i] \in Segments /\ i \in Nat
  BY <1>1, LenProperties
<1>3. PICK s \in Segments : s = elf.segments[i]
  BY <1>2
<1>4. /\ s.file \in Nat /\ s.size \in Nat
      /\ s.virtual \in Nat /\ s.physical \in Nat
  BY <1>1 DEF Segments
<1>5. Address(elf, s) = s.virtual \/ Address(elf, s) = s.physical
  BY DEF Address
<1> QED BY <1>2, <1>3, <1>4, <1>5

\* One segment that passed the checks.
LEMMA SegmentStep ==
  ASSUME dram \in Regions, NEW elf \in Images, NEW i \in DOMAIN elf.segments,
         NEW done \in Loading
  PROVE  /\ LoadSegment(elf, done, i) \in Loading
         /\ IsLoadable(elf, elf.segments[i]) /\ ~done.failed =>
              /\ ~LoadSegment(elf, done, i).failed
              /\ \A a \in BytesOf(dram) :
                   LoadSegment(elf, done, i).memory[a] =
                     IF Covers(elf, i, a) THEN Content(elf, i, a)
                     ELSE done.memory[a]
<1> DEFINE s == elf.segments[i]
           at == Address(elf, s)
           file == [n \in 1 .. s.file |-> <<i, n>>]
           rest == [n \in 1 .. s.size - s.file |-> Zero]
           half == Write(done, at, file)
           whole == Write(half, at + s.file, rest)
<1>1. /\ i \in Nat /\ at \in Nat /\ s.file \in Nat /\ s.size \in Nat
      /\ LoadSegment(elf, done, i) = whole
  BY SegmentTyped DEF LoadSegment
<1>2. file \in [1 .. s.file -> Bytes]
  BY <1>1 DEF Bytes
<1> HIDE DEF file, s, at
<1>3. /\ half \in Loading
      /\ ~done.failed /\ ContainsRange(at, s.file) =>
           /\ ~half.failed
           /\ \A a \in BytesOf(dram) :
                half.memory[a] = IF a - at + 1 \in 1 .. s.file
                                 THEN file[a - at + 1] ELSE done.memory[a]
  <2>1. PICK m \in Nat : m = s.file
    BY <1>1
  <2>2. at \in Nat /\ file \in [1 .. m -> Bytes]
    BY <1>1, <1>2, <2>1
  <2>3. /\ Write(done, at, file) \in Loading
        /\ ~done.failed /\ ContainsRange(at, m) =>
             /\ ~Write(done, at, file).failed
             /\ \A a \in BytesOf(dram) :
                  Write(done, at, file).memory[a] =
                    IF a - at + 1 \in 1 .. m
                    THEN file[a - at + 1] ELSE done.memory[a]
    BY <2>2, WriteStep
  <2> QED BY <2>1, <2>3
<1>4. PICK n \in Nat : 1 .. s.size - s.file = 1 .. n
                       /\ (s.file <= s.size => n = s.size - s.file)
  <2>1. CASE s.file <= s.size
    BY <1>1, <2>1
  <2>2. CASE ~(s.file <= s.size)
    <3>1. 1 .. s.size - s.file = 1 .. 0
      BY <1>1, <2>2
    <3> QED BY <2>2, <3>1
  <2> QED BY <2>1, <2>2
<1>5. rest \in [1 .. n -> Bytes] /\ \A k \in 1 .. n : rest[k] = Zero
  BY <1>4 DEF Bytes, Zero
<1> HIDE DEF half, rest
<1>6. /\ whole \in Loading
      /\ ~half.failed /\ ContainsRange(at + s.file, n) =>
           /\ ~whole.failed
           /\ \A a \in BytesOf(dram) :
                whole.memory[a] = IF a - (at + s.file) + 1 \in 1 .. n
                                  THEN rest[a - (at + s.file) + 1]
                                  ELSE half.memory[a]
  <2>1. at + s.file \in Nat
    BY <1>1
  <2> QED BY <1>3, <1>5, <2>1, WriteStep
<1> HIDE DEF whole
<1>7. ASSUME IsLoadable(elf, s), ~done.failed
      PROVE  /\ ~whole.failed
             /\ \A a \in BytesOf(dram) :
                  whole.memory[a] =
                    IF a - at \in 0 .. s.size - 1
                    THEN IF a - at < s.file THEN <<i, a - at + 1>> ELSE Zero
                    ELSE done.memory[a]
  <2>1. /\ s.file <= s.size /\ n = s.size - s.file
        /\ dram.base <= at /\ at + s.size <= MaxAddress
        /\ at + s.size <= EndOf(dram)
    BY <1>4, <1>7 DEF IsLoadable, ContainsRange, at
  <2>2. dram.base \in Nat /\ EndOf(dram) \in Nat /\ MaxAddress \in Nat
    BY PlatformAssumption DEF Regions, EndOf
  <2>3. ContainsRange(at, s.file) /\ ContainsRange(at + s.file, n)
    BY <1>1, <2>1, <2>2 DEF ContainsRange
  <2>4. ASSUME NEW a \in BytesOf(dram)
        PROVE  whole.memory[a] =
                 IF a - at \in 0 .. s.size - 1
                 THEN IF a - at < s.file THEN <<i, a - at + 1>> ELSE Zero
                 ELSE done.memory[a]
    <3>1. a \in Int
      BY <2>2 DEF BytesOf
    <3>2. /\ a - (at + s.file) + 1 \in 1 .. n <=>
               a - at \in 0 .. s.size - 1 /\ ~(a - at < s.file)
          /\ a - at + 1 \in 1 .. s.file <=>
               a - at \in 0 .. s.size - 1 /\ a - at < s.file
      BY <1>1, <2>1, <3>1
    <3>3. a - at + 1 \in 1 .. s.file => file[a - at + 1] = <<i, a - at + 1>>
      BY DEF file
    <3> QED BY <1>3, <1>5, <1>6, <1>7, <2>3, <3>2, <3>3
  <2> QED BY <1>3, <1>6, <1>7, <2>3, <2>4
<1> QED BY <1>1, <1>6, <1>7 DEF Covers, Content, s, at

\* All segments of an image: none fails, each byte of DRAM that one covers has
\* what the last of them says, and the others are as they were.
LEMMA SegmentsStep ==
  ASSUME dram \in Regions, memory \in [BytesOf(dram) -> Bytes],
         NEW elf \in Images,
         \A i \in DOMAIN elf.segments : IsLoadable(elf, elf.segments[i])
  PROVE  /\ LoadSegments(elf) \in Loading /\ ~LoadSegments(elf).failed
         /\ \A a \in BytesOf(dram) :
              /\ (\A i \in DOMAIN elf.segments : ~Covers(elf, i, a)) =>
                   LoadSegments(elf).memory[a] = memory[a]
              /\ \A i \in DOMAIN elf.segments :
                   Covers(elf, i, a)
                     /\ (\A j \in DOMAIN elf.segments :
                           j > i => ~Covers(elf, j, a)) =>
                     LoadSegments(elf).memory[a] = Content(elf, i, a)
<1> DEFINE n == Len(elf.segments)
           start == [failed |-> FALSE, memory |-> memory]
           step == [x \in Loading \X (0 .. n) |->
                      IF x[2] = 0 THEN x[1] ELSE LoadSegment(elf, x[1], x[2])]
           Equation(f) == f = [i \in 0 .. n |->
                                 IF i = 0 THEN start
                                 ELSE LoadSegment(elf, f[i - 1], i)]
<1>1. n \in Nat /\ DOMAIN elf.segments = 1 .. n
  BY PlatformAssumption, LenProperties
<1>2. start \in Loading
  BY DEF Loading
<1> HIDE DEF n
<1>3. step \in [Loading \X (0 .. n) -> Loading]
  <2>1. \A done \in Loading, i \in 1 .. n : LoadSegment(elf, done, i) \in Loading
    BY <1>1, SegmentStep
  <2>2. \A i \in 0 .. n : i = 0 \/ i \in 1 .. n
    BY <1>1
  <2> QED BY <2>1, <2>2
<1>4. PICK f \in [0 .. n -> Loading] :
        \A i \in 0 .. n : f[i] = IF i = 0 THEN start ELSE step[<<f[i - 1], i>>]
  <2> HIDE DEF step, start
  <2>1. step \in Steps(Loading, 0, n)
    BY <1>3 DEF Steps
  <2>2. \E f : IsRecursive(f, Loading, start, 0, n, step)
    BY <1>1, <1>2, <2>1, Recursion
  <2> QED BY <2>2 DEF IsRecursive
<1>5. Equation(f)
  <2>1. ASSUME NEW i \in 0 .. n, i # 0
        PROVE  step[<<f[i - 1], i>>] = LoadSegment(elf, f[i - 1], i)
    <3>1. i - 1 \in 0 .. n
      BY <1>1, <2>1
    <3>2. <<f[i - 1], i>> \in Loading \X (0 .. n)
      BY <1>4, <3>1
    <3> QED BY <2>1, <3>2
  <2> HIDE DEF step, start
  <2> QED BY <1>4, <2>1
<1> DEFINE first == CHOOSE g : Equation(g)
<1>6. Equation(first)
  <2> HIDE DEF Equation
  <2> QED BY <1>5
<1>7. LoadSegments(elf) = first[n]
  BY DEF LoadSegments, n
<1> HIDE DEF first
<1>8. /\ first[0] = start
      /\ \A i \in 1 .. n : first[i] = LoadSegment(elf, first[i - 1], i)
  <2>1. 0 \in 0 .. n /\ \A i \in 1 .. n : i \in 0 .. n /\ i # 0
    BY <1>1
  <2> HIDE DEF start
  <2> QED BY <1>6, <2>1
<1> DEFINE Good(i) ==
             /\ first[i] \in Loading /\ ~first[i].failed
             /\ \A a \in BytesOf(dram) :
                  /\ (\A j \in 1 .. i : ~Covers(elf, j, a)) =>
                       first[i].memory[a] = memory[a]
                  /\ \A j \in 1 .. i :
                       Covers(elf, j, a)
                         /\ (\A k \in 1 .. i : k > j => ~Covers(elf, k, a)) =>
                         first[i].memory[a] = Content(elf, j, a)
<1>9. Good(0)
  BY <1>2, <1>8
<1>10. ASSUME NEW i \in 1 .. n, Good(i - 1) PROVE Good(i)
  <2>1. i \in DOMAIN elf.segments /\ first[i] = LoadSegment(elf, first[i - 1], i)
    BY <1>1, <1>8
  <2>2. /\ first[i] \in Loading /\ ~first[i].failed
        /\ \A a \in BytesOf(dram) :
             first[i].memory[a] = IF Covers(elf, i, a) THEN Content(elf, i, a)
                                  ELSE first[i - 1].memory[a]
    BY <1>10, <2>1, SegmentStep
  <2>3. \A j \in 1 .. i - 1 : j \in 1 .. i /\ i > j
    BY <1>1
  <2>4. \A j \in 1 .. i : j = i \/ j \in 1 .. i - 1
    BY <1>1
  <2>5. i \in 1 .. i
    BY <1>1
  <2>6. ASSUME NEW a \in BytesOf(dram), \A j \in 1 .. i : ~Covers(elf, j, a)
        PROVE  first[i].memory[a] = memory[a]
    BY <1>10, <2>2, <2>3, <2>5, <2>6
  <2>7. ASSUME NEW a \in BytesOf(dram), NEW j \in 1 .. i, Covers(elf, j, a),
               \A k \in 1 .. i : k > j => ~Covers(elf, k, a)
        PROVE  first[i].memory[a] = Content(elf, j, a)
    <3>1. CASE j = i
      BY <2>2, <2>7, <3>1
    <3>2. CASE j \in 1 .. i - 1
      <4>1. ~Covers(elf, i, a)
        BY <2>3, <2>5, <2>7, <3>2
      <4>2. \A k \in 1 .. i - 1 : k > j => ~Covers(elf, k, a)
        BY <2>3, <2>7
      <4> QED BY <1>10, <2>2, <2>7, <3>2, <4>1, <4>2
    <3> QED BY <2>4, <3>1, <3>2
  <2> QED BY <2>2, <2>6, <2>7
<1> HIDE DEF Good
<1>11. Good(n)
  <2> DEFINE K == {i \in 0 .. n : ~Good(i)}
  <2>1. K = {}
    <3> SUFFICES ASSUME K # {} PROVE FALSE
      OBVIOUS
    <3>1. K \in SUBSET Nat
      OBVIOUS
    <3>2. PICK k \in K : \A j \in K : k <= j
      <4> HIDE DEF K
      <4> QED BY <3>1, Least
    <3>3. k # 0
      BY <1>9
    <3>4. k \in 1 .. n /\ k - 1 \in 0 .. n /\ k - 1 \notin K
      BY <1>1, <3>2, <3>3
    <3> QED BY <1>10, <3>2, <3>4
  <2>2. n \in 0 .. n
    BY <1>1
  <2> QED BY <2>1, <2>2
<1> QED BY <1>1, <1>7, <1>11 DEF Good

\* A loaded image is in memory as LoadedByte says, and its entry lies in an
\* executable segment.
LEMMA LoadElfStep ==
  ASSUME dram \in Regions, memory \in [BytesOf(dram) -> Bytes],
         NEW elf \in Images, LoadElf(elf)
  PROVE  /\ memory' \in [BytesOf(dram) -> Bytes]
         /\ image' # NoImage /\ image'.format = "elf"
         /\ image'.entry = elf.entry /\ image'.segments = elf.segments
         /\ \A a \in BytesOf(dram) : memory'[a] = LoadedByte(elf, a)
         /\ Entries(elf) = {entry'} /\ entry' % 2 = 0
         /\ entry' \in BytesOf(dram)
<1>1. /\ \A i \in DOMAIN elf.segments : IsLoadable(elf, elf.segments[i])
      /\ HasEntry(elf) /\ (CHOOSE e \in Entries(elf) : TRUE) % 2 = 0
  BY DEF LoadElf
<1>2. /\ LoadSegments(elf) \in Loading /\ ~LoadSegments(elf).failed
      /\ \A a \in BytesOf(dram) :
           /\ (\A i \in DOMAIN elf.segments : ~Covers(elf, i, a)) =>
                LoadSegments(elf).memory[a] = memory[a]
           /\ \A i \in DOMAIN elf.segments :
                Covers(elf, i, a)
                  /\ (\A j \in DOMAIN elf.segments : j > i => ~Covers(elf, j, a)) =>
                  LoadSegments(elf).memory[a] = Content(elf, i, a)
  BY <1>1, SegmentsStep
<1>3. /\ memory' = LoadSegments(elf).memory
      /\ image' = [format |-> "elf", entry |-> elf.entry,
                   segments |-> elf.segments]
      /\ entry' = CHOOSE e \in Entries(elf) : TRUE
  BY <1>2 DEF LoadElf
<1>4. image' # NoImage /\ image'.format = "elf"
  BY <1>3 DEF NoImage
<1>5. memory' \in [BytesOf(dram) -> Bytes]
  BY <1>2, <1>3 DEF Loading
<1>6. elf.segments \in Seq(Segments) /\ DOMAIN elf.segments = 1 .. Len(elf.segments)
      /\ Len(elf.segments) \in Nat
  BY PlatformAssumption, LenProperties
<1>7. ASSUME NEW a \in BytesOf(dram) PROVE memory'[a] = LoadedByte(elf, a)
  <2> DEFINE over == {i \in DOMAIN elf.segments : Covers(elf, i, a)}
             top == CHOOSE i \in over : \A j \in over : j <= i
  <2>1. LoadedByte(elf, a) = IF over = {} THEN memory[a] ELSE Content(elf, top, a)
    BY DEF LoadedByte, Covers, Content
  <2>2. CASE over = {}
    BY <1>2, <1>3, <2>1, <2>2
  <2>3. CASE over # {}
    <3>1. over \in SUBSET Nat /\ \A i \in over : i <= Len(elf.segments)
      BY <1>6
    <3>2. \E i \in over : \A j \in over : j <= i
      <4> HIDE DEF over
      <4> QED BY <1>6, <2>3, <3>1, Greatest
    <3>3. top \in over /\ \A j \in over : j <= top
      <4> HIDE DEF over
      <4> QED BY <3>2
    <3> HIDE DEF top
    <3>4. top \in DOMAIN elf.segments /\ Covers(elf, top, a)
          /\ \A j \in DOMAIN elf.segments : j > top => ~Covers(elf, j, a)
      <4>1. \A j \in over : j \in Nat /\ ~(j > top)
        BY <3>1, <3>3
      <4> QED BY <3>3, <4>1
    <3> QED BY <1>2, <1>3, <2>1, <2>3, <3>4
  <2> QED BY <2>2, <2>3
<1>8. Entries(elf) = {entry'}
  <2>1. IsFiniteSet(Entries(elf))
    <3>1. IsFiniteSet(DOMAIN elf.segments)
      BY <1>6, FS_Interval
    <3> DEFINE I == {k \in DOMAIN elf.segments :
                       LET s == elf.segments[k]
                       IN  s.executable /\ elf.entry - s.virtual \in 0 .. s.size - 1}
               place == [i \in I |-> Address(elf, elf.segments[i]) + elf.entry
                                       - elf.segments[i].virtual]
    <3>2. IsFiniteSet(I)
      BY <3>1, FS_Subset
    <3>3. Entries(elf) = {place[i] : i \in I}
      BY DEF Entries
    <3>4. place \in Surjection(I, Entries(elf))
      <4> HIDE DEF I
      <4> QED BY <3>3 DEF Surjection
    <3> HIDE DEF place, I
    <3> QED BY <3>2, <3>4, FS_Surjection
  <2>2. Cardinality(Entries(elf)) = 1
    BY <1>1 DEF HasEntry
  <2>3. PICK e : Entries(elf) = {e}
    BY <2>1, <2>2, FS_Singleton
  <2> QED BY <1>3, <2>3
<1>9. entry' \in BytesOf(dram)
  <2>1. entry' \in Entries(elf)
    BY <1>8
  <2>2. PICK i \in DOMAIN elf.segments :
          /\ elf.entry - elf.segments[i].virtual \in 0 .. elf.segments[i].size - 1
          /\ entry' = Address(elf, elf.segments[i]) + elf.entry
                        - elf.segments[i].virtual
    BY <2>1 DEF Entries
  <2> DEFINE at == Address(elf, elf.segments[i])
             size == elf.segments[i].size
             virtual == elf.segments[i].virtual
             e == elf.entry
  <2>3. at \in Nat /\ size \in Nat /\ virtual \in Nat /\ e \in Nat
    BY SegmentTyped, PlatformAssumption
  <2>4. dram.base <= at /\ at + size <= EndOf(dram)
        /\ dram.base \in Nat /\ EndOf(dram) \in Nat
    BY <1>1, PlatformAssumption DEF IsLoadable, ContainsRange, Regions, EndOf
  <2>5. e - virtual \in 0 .. size - 1 /\ entry' = at + e - virtual
    BY <2>2
  <2> HIDE DEF at, size, virtual, e
  <2>6. at + e - virtual \in dram.base .. EndOf(dram) - 1
    BY <2>3, <2>4, <2>5
  <2> QED BY <2>5, <2>6 DEF BytesOf
<1> QED BY <1>1, <1>3, <1>4, <1>5, <1>7, <1>8, <1>9

\* A flat image.
LEMMA LoadFlatStep ==
  ASSUME dram \in Regions, memory \in [BytesOf(dram) -> Bytes],
         NEW size \in FlatSizes, LoadFlat(size)
  PROVE  /\ memory' \in [BytesOf(dram) -> Bytes]
         /\ image' # NoImage /\ image'.format # "elf"
<1> DEFINE bytes == [n \in 1 .. size |-> <<1, n>>]
           start == [failed |-> FALSE, memory |-> memory]
<1>1. size \in Nat /\ dram.base \in Nat
  BY PlatformAssumption DEF Regions
<1>2. bytes \in [1 .. size -> Bytes] /\ start \in Loading
  BY <1>1 DEF Bytes, Loading
<1>3. /\ memory' = Write(start, dram.base, bytes).memory
      /\ image' = [format |-> "flat", size |-> size]
  BY DEF LoadFlat
<1>4. Write(start, dram.base, bytes) \in Loading
  <2> HIDE DEF bytes, start
  <2> QED BY <1>1, <1>2, WriteStep
<1>5. image' # NoImage /\ image'.format # "elf"
  BY <1>3 DEF NoImage
<1> HIDE DEF bytes, start
<1> QED BY <1>3, <1>4, <1>5 DEF Loading

-----------------------------------------------------------------------------
(* The invariant: the regions a platform has collected are disjoint, DRAM  *)
(* has its bytes, an image is only in memory once there is DRAM, the bus   *)
(* holds exactly the regions, and the bus never finds an overlap.          *)

Attached == <<dram>> \o devices

PlatformInv ==
  /\ phase \in {"none", "assembling", "built", "refused"}
  /\ phase # "none" =>
       /\ dram \in Regions /\ devices \in Seq(Regions)
       /\ Disjoint(Attached)
       /\ memory \in [BytesOf(dram) -> Bytes]
  /\ phase = "built" => bus = OnBus(Attached, Len(Attached))
  /\ phase = "none" => image = NoImage
  /\ EntryIsExecutable

\* A platform begins with DRAM and devices that lie apart, its memory zeroed.
LEMMA CreateStep ==
  ASSUME PlatformInv, NEW region \in Regions, NEW attached \in Seq(Regions),
         Disjoint(<<region>> \o attached), Create(region, attached)
  PROVE  PlatformInv'
<1>1. /\ phase' = "assembling" /\ dram' = region /\ devices' = attached
      /\ memory' = [a \in BytesOf(region) |-> Zero]
      /\ image' = NoImage
  BY DEF Create, PlatformInv
<1>2. memory' \in [BytesOf(dram') -> Bytes]
  BY <1>1 DEF Bytes, Zero
<1>3. EntryIsExecutable'
  BY <1>1 DEF EntryIsExecutable, NoImage
<1>4. Attached' = <<region>> \o attached
  BY <1>1 DEF Attached
<1>5. Disjoint(Attached)'
  BY <1>4 DEF Disjoint, IsRegion, Overlaps, EndOf
<1>6. dram' \in Regions /\ devices' \in Seq(Regions)
  BY <1>1
<1> QED BY <1>1, <1>2, <1>3, <1>5, <1>6 DEF PlatformInv

\* One more region that overlaps no other keeps regions disjoint.
LEMMA AttachStep ==
  ASSUME NEW d \in Regions, NEW s \in Seq(Regions), NEW region \in Regions,
         Disjoint(<<d>> \o s), Attachable(region, <<d>> \o s)
  PROVE  Disjoint(<<d>> \o Append(s, region))
<1> DEFINE old == <<d>> \o s
           new == <<d>> \o Append(s, region)
           n == Len(s)
<1>1. /\ n \in Nat /\ DOMAIN old = 1 .. n + 1 /\ old[1] = d
      /\ \A i \in 2 .. n + 1 : old[i] = s[i - 1]
  BY Prepended
<1>2. /\ Append(s, region) \in Seq(Regions) /\ Len(Append(s, region)) = n + 1
      /\ \A i \in 1 .. n : Append(s, region)[i] = s[i]
      /\ Append(s, region)[n + 1] = region
  BY AppendProperties
<1>3. /\ DOMAIN new = 1 .. n + 2 /\ new[1] = d
      /\ \A i \in 2 .. n + 2 : new[i] = Append(s, region)[i - 1]
  <2>1. Len(Append(s, region)) + 1 = n + 2
    BY <1>1, <1>2
  <2> QED BY <1>2, <2>1, Prepended
<1> HIDE DEF old, new, n
<1>4. \A i \in 1 .. n + 1 : i \in DOMAIN old /\ new[i] = old[i]
  <2> SUFFICES ASSUME NEW i \in 1 .. n + 1 PROVE new[i] = old[i]
    BY <1>1
  <2>1. CASE i = 1
    BY <1>1, <1>3, <2>1
  <2>2. CASE i # 1
    <3>1. i \in 2 .. n + 1 /\ i \in 2 .. n + 2 /\ i - 1 \in 1 .. n
      BY <1>1, <2>2
    <3> QED BY <1>1, <1>2, <1>3, <3>1
  <2> QED BY <2>1, <2>2
<1>5. new[n + 2] = region
  <2>1. n + 2 \in 2 .. n + 2 /\ (n + 2) - 1 = n + 1
    BY <1>1
  <2> QED BY <1>2, <1>3, <2>1
<1>6. \A i \in DOMAIN new : i = n + 2 \/ i \in 1 .. n + 1
  BY <1>1, <1>3
<1>7. /\ \A i \in DOMAIN old : IsRegion(old[i]) /\ ~Overlaps(region, old[i])
      /\ \A i, j \in DOMAIN old : i # j => ~Overlaps(old[i], old[j])
      /\ IsRegion(region)
  BY DEF Disjoint, Attachable, old
<1>8. \A i \in DOMAIN new : IsRegion(new[i])
  BY <1>4, <1>5, <1>6, <1>7
<1>9. ASSUME NEW i \in DOMAIN new, NEW j \in DOMAIN new, i # j
      PROVE  ~Overlaps(new[i], new[j])
  <2>1. CASE i = n + 2
    BY <1>4, <1>5, <1>6, <1>7, <1>9, <2>1
  <2>2. CASE j = n + 2 /\ i \in 1 .. n + 1
    BY <1>4, <1>5, <1>7, <2>2, Symmetric
  <2>3. CASE j \in 1 .. n + 1 /\ i \in 1 .. n + 1
    BY <1>4, <1>7, <1>9, <2>3
  <2> QED BY <1>6, <2>1, <2>2, <2>3
<1> QED BY <1>8, <1>9 DEF Disjoint, new

\* The configuration of a virt platform is attached in the same way.
LEMMA ConfigDisjoint ==
  ASSUME NEW d \in Regions, NEW s \in Seq(Regions), IsRegion(d),
         \A i \in DOMAIN s : Attachable(s[i], <<d>> \o SubSeq(s, 1, i - 1))
  PROVE  Disjoint(<<d>> \o s)
<1> DEFINE all == <<d>> \o s
           n == Len(s)
<1>1. /\ n \in Nat /\ DOMAIN all = 1 .. n + 1 /\ all[1] = d
      /\ \A i \in 2 .. n + 1 : all[i] = s[i - 1]
      /\ DOMAIN s = 1 .. n /\ \A i \in 1 .. n : s[i] \in Regions
  BY Prepended, LenProperties
<1> HIDE DEF all, n
<1>2. ASSUME NEW k \in 2 .. n + 1
      PROVE  IsRegion(all[k]) /\ \A j \in 1 .. k - 1 : ~Overlaps(all[k], all[j])
  <2> DEFINE part == SubSeq(s, 1, k - 2)
             others == <<d>> \o part
  <2>1. k - 1 \in DOMAIN s /\ all[k] = s[k - 1] /\ (k - 1) - 1 = k - 2
    BY <1>1
  <2>2. Attachable(all[k], others)
    BY <2>1
  <2>3. /\ part \in Seq(Regions) /\ Len(part) = k - 2
        /\ \A i \in 1 .. k - 2 : part[i] = s[i]
    <3>1. 1 \in Int /\ k - 2 \in Int /\ \A i \in 1 .. k - 2 : s[i] \in Regions
      BY <1>1
    <3>2. /\ part \in Seq(Regions)
          /\ Len(part) = IF 1 <= k - 2 THEN k - 2 - 1 + 1 ELSE 0
          /\ \A i \in 1 .. k - 2 - 1 + 1 : part[i] = s[1 + i - 1]
      BY <3>1, SubSeqProperties
    <3> DEFINE l == Len(part)
    <3>3. l = k - 2
      <4>1. l = IF 1 <= k - 2 THEN k - 2 - 1 + 1 ELSE 0
        BY <3>2
      <4> HIDE DEF l
      <4> QED BY <1>1, <4>1
    <3>4. \A i \in 1 .. k - 2 : i \in 1 .. k - 2 - 1 + 1 /\ 1 + i - 1 = i
      BY <1>1
    <3> QED BY <3>2, <3>3, <3>4
  <2> HIDE DEF part
  <2>4. /\ DOMAIN others = 1 .. k - 1 /\ others[1] = d
        /\ \A i \in 2 .. k - 1 : others[i] = part[i - 1]
    <3>1. Len(part) + 1 = k - 1
      BY <1>1, <2>3
    <3> QED BY <2>3, <3>1, Prepended
  <2> HIDE DEF others
  <2>5. ASSUME NEW j \in 1 .. k - 1 PROVE others[j] = all[j]
    <3>1. CASE j = 1
      BY <1>1, <2>4, <3>1
    <3>2. CASE j # 1
      <4>1. j \in 2 .. k - 1 /\ j - 1 \in 1 .. k - 2 /\ j \in 2 .. n + 1
        BY <1>1, <3>2
      <4> QED BY <1>1, <2>3, <2>4, <4>1
    <3> QED BY <3>1, <3>2
  <2> QED BY <2>2, <2>4, <2>5 DEF Attachable
<1>3. \A i \in DOMAIN all : i = 1 \/ i \in 2 .. n + 1
  BY <1>1
<1>4. \A i \in DOMAIN all : IsRegion(all[i])
  BY <1>1, <1>2, <1>3
<1>5. ASSUME NEW i \in DOMAIN all, NEW j \in DOMAIN all, i # j
      PROVE  ~Overlaps(all[i], all[j])
  <2>1. \/ i \in 2 .. n + 1 /\ j \in 1 .. i - 1
        \/ j \in 2 .. n + 1 /\ i \in 1 .. j - 1
    BY <1>1, <1>5
  <2> QED BY <1>2, <2>1, Symmetric
<1> QED BY <1>4, <1>5 DEF Disjoint, all

\* A load keeps the invariant and says what it did.
LEMMA LoadStep ==
  ASSUME PlatformInv, Load
  PROVE  /\ PlatformInv' /\ image' # NoImage
         /\ image'.format = "elf" =>
              \A a \in BytesOf(dram) : memory'[a] = LoadedByte(image', a)
<1>1. /\ phase = "assembling" /\ UNCHANGED <<phase, dram, devices, bus>>
      /\ \/ \E elf \in Images : LoadElf(elf)
         \/ \E size \in FlatSizes : LoadFlat(size)
  BY DEF Load
<1>2. /\ dram \in Regions /\ devices \in Seq(Regions)
      /\ Disjoint(Attached) /\ memory \in [BytesOf(dram) -> Bytes]
  BY <1>1 DEF PlatformInv
<1>3. ASSUME memory' \in [BytesOf(dram) -> Bytes], image' # NoImage,
             EntryIsExecutable'
      PROVE  PlatformInv'
  <2>1. Attached' = Attached /\ BytesOf(dram') = BytesOf(dram)
    BY <1>1 DEF Attached
  <2>2. Disjoint(Attached)'
    BY <1>2, <2>1 DEF Disjoint, IsRegion, Overlaps, EndOf
  <2> QED BY <1>1, <1>2, <1>3, <2>1, <2>2 DEF PlatformInv
<1>4. ASSUME NEW elf \in Images, LoadElf(elf)
      PROVE  /\ PlatformInv' /\ image' # NoImage
             /\ \A a \in BytesOf(dram) : memory'[a] = LoadedByte(image', a)
  <2>1. /\ memory' \in [BytesOf(dram) -> Bytes]
        /\ image' # NoImage /\ image'.format = "elf"
        /\ image'.entry = elf.entry /\ image'.segments = elf.segments
        /\ \A a \in BytesOf(dram) : memory'[a] = LoadedByte(elf, a)
        /\ Entries(elf) = {entry'} /\ entry' % 2 = 0
        /\ entry' \in BytesOf(dram)
    BY <1>2, <1>4, LoadElfStep
  <2>2. \A s : Address(image', s) = Address(elf, s)
    BY <2>1 DEF Address
  <2>3. ASSUME NEW a PROVE LoadedByte(image', a) = LoadedByte(elf, a)
    <3> DEFINE Over(e) == {i \in DOMAIN e.segments :
                             a - Address(e, e.segments[i])
                               \in 0 .. e.segments[i].size - 1}
               Top(e) == CHOOSE i \in Over(e) : \A j \in Over(e) : j <= i
               Byte(e, top) == IF a - Address(e, e.segments[top]) < e.segments[top].file
                               THEN <<top, a - Address(e, e.segments[top]) + 1>>
                               ELSE Zero
    <3>1. \A e : LoadedByte(e, a) = IF Over(e) = {} THEN memory[a]
                                    ELSE Byte(e, Top(e))
      BY DEF LoadedByte
    <3>2. Over(image') = Over(elf)
      BY <2>1, <2>2
    <3>3. \A top : Byte(image', top) = Byte(elf, top)
      BY <2>1, <2>2
    <3> HIDE DEF Over, Byte
    <3> QED BY <3>1, <3>2, <3>3
  <2>4. ASSUME NEW i \in DOMAIN elf.segments, elf.segments[i].executable,
               elf.entry - elf.segments[i].virtual
                 \in 0 .. elf.segments[i].size - 1
        PROVE  entry' = Address(elf, elf.segments[i]) + elf.entry
                          - elf.segments[i].virtual
    <3>1. Address(elf, elf.segments[i]) + elf.entry - elf.segments[i].virtual
            \in Entries(elf)
      BY <2>4 DEF Entries
    <3> QED BY <2>1, <3>1
  <2>5. BytesOf(dram') = BytesOf(dram)
    BY <1>1
  <2>6. \A s : Address(image, s)' = Address(elf, s')
    BY <2>1 DEF Address
  <2>7. EntryIsExecutable'
    BY <2>1, <2>2, <2>4, <2>5 DEF EntryIsExecutable
  <2> QED BY <1>3, <2>1, <2>3, <2>7
<1>5. ASSUME NEW size \in FlatSizes, LoadFlat(size)
      PROVE  PlatformInv' /\ image' # NoImage /\ image'.format # "elf"
  <2>1. /\ memory' \in [BytesOf(dram) -> Bytes]
        /\ image' # NoImage /\ image'.format # "elf"
    BY <1>2, <1>5, LoadFlatStep
  <2>2. EntryIsExecutable'
    BY <2>1 DEF EntryIsExecutable
  <2> QED BY <1>3, <2>1, <2>2
<1> QED BY <1>1, <1>4, <1>5

\* Building never meets an overlap.
LEMMA BuildStep ==
  ASSUME PlatformInv, NEW vector, Build(vector)
  PROVE  PlatformInv' /\ memory' = memory
<1>1. /\ phase = "assembling" /\ UNCHANGED <<dram, devices, memory, image, entry>>
      /\ \/ phase' = "refused"
         \/ phase' = "built" /\ bus' = OnBus(Attached, Len(Attached))
         \/ ~ \A i \in DOMAIN Attached :
                BusAccepts(OnBus(Attached, i - 1), Attached[i])
  BY DEF Build, Attached
<1>2. /\ dram \in Regions /\ devices \in Seq(Regions)
      /\ Disjoint(Attached) /\ memory \in [BytesOf(dram) -> Bytes]
  BY <1>1 DEF PlatformInv
<1>3. Attached \in Seq(Regions)
  BY <1>2, Prepended DEF Attached
<1>4. \A i \in DOMAIN Attached :
        BusAccepts(OnBus(Attached, i - 1), Attached[i])
  BY <1>2, <1>3, BusAcceptsAll
<1>5. \/ phase' = "refused"
      \/ phase' = "built" /\ bus' = OnBus(Attached, Len(Attached))
  BY <1>1, <1>4
<1>6. Attached' = Attached /\ BytesOf(dram') = BytesOf(dram)
  BY <1>1 DEF Attached
<1>7. Disjoint(Attached)'
  BY <1>2, <1>6 DEF Disjoint, IsRegion, Overlaps, EndOf
<1>8. OnBus(Attached, Len(Attached))' = OnBus(Attached, Len(Attached))
  BY <1>6 DEF OnBus
<1>9. EntryIsExecutable'
  <2>1. EntryIsExecutable
    BY DEF PlatformInv
  <2> QED BY <1>1, <2>1 DEF EntryIsExecutable, Address, BytesOf, EndOf
<1> QED BY <1>1, <1>2, <1>5, <1>6, <1>7, <1>8, <1>9 DEF PlatformInv

\* Every step keeps the invariant, and only a load changes memory.
LEMMA PlatformStep ==
  ASSUME PlatformInv, [Next]_vars
  PROVE  /\ PlatformInv'
         /\ phase = "assembling" /\ memory' # memory =>
              /\ image' # NoImage
              /\ image'.format = "elf" =>
                   \A a \in BytesOf(dram) : memory'[a] = LoadedByte(image', a)
<1>1. ASSUME NEW region \in Drams, NewPlatform(region)
      PROVE  PlatformInv' /\ phase # "assembling"
  <2>1. region \in Regions /\ <<>> \in Seq(Regions) /\ DOMAIN <<>> = {}
    BY PlatformAssumption
  <2>2. Create(region, <<>>) /\ IsRegion(region)
    BY <1>1 DEF NewPlatform, Create
  <2>3. Disjoint(<<region>> \o <<>>)
    BY <2>1, <2>2, ConfigDisjoint
  <2>4. phase # "assembling"
    BY <2>2 DEF Create
  <2> QED BY <2>1, <2>2, <2>3, <2>4, CreateStep
<1>2. ASSUME NEW config \in Configs, NewVirtPlatform(config)
      PROVE  PlatformInv' /\ phase # "assembling"
  <2>1. config.dram \in Regions /\ config.regions \in Seq(Regions)
    BY PlatformAssumption
  <2>2. /\ Create(config.dram, config.regions) /\ IsRegion(config.dram)
        /\ \A i \in DOMAIN config.regions :
             Attachable(config.regions[i],
                        <<config.dram>> \o SubSeq(config.regions, 1, i - 1))
    BY <1>2 DEF NewVirtPlatform, Create
  <2>3. Disjoint(<<config.dram>> \o config.regions)
    BY <2>1, <2>2, ConfigDisjoint
  <2>4. phase # "assembling"
    BY <2>2 DEF Create
  <2> QED BY <2>1, <2>2, <2>3, <2>4, CreateStep
<1>3. ASSUME NEW region \in DeviceRegions, AttachDevice(region)
      PROVE  PlatformInv' /\ memory' = memory
  <2>1. /\ phase = "assembling" /\ Attachable(region, <<dram>> \o devices)
        /\ devices' = Append(devices, region)
        /\ UNCHANGED <<phase, dram, memory, image, entry, bus>>
    BY <1>3 DEF AttachDevice
  <2>2. /\ region \in Regions /\ dram \in Regions /\ devices \in Seq(Regions)
        /\ Disjoint(<<dram>> \o devices) /\ memory \in [BytesOf(dram) -> Bytes]
    BY <2>1, PlatformAssumption DEF PlatformInv, Attached
  <2>3. Disjoint(<<dram>> \o Append(devices, region))
    BY <2>1, <2>2, AttachStep
  <2>4. Attached' = <<dram>> \o Append(devices, region)
        /\ BytesOf(dram') = BytesOf(dram)
    BY <2>1 DEF Attached
  <2>5. Disjoint(Attached)'
    BY <2>3, <2>4 DEF Disjoint, IsRegion, Overlaps, EndOf
  <2>6. devices' \in Seq(Regions)
    BY <2>1, <2>2, AppendProperties
  <2>7. EntryIsExecutable'
    <3>1. EntryIsExecutable
      BY DEF PlatformInv
    <3> QED BY <2>1, <3>1 DEF EntryIsExecutable, Address, BytesOf, EndOf
  <2> QED BY <2>1, <2>2, <2>4, <2>5, <2>6, <2>7 DEF PlatformInv
<1>4. CASE UNCHANGED vars
  <2>1. UNCHANGED <<phase, dram, devices, memory, image, entry, bus>>
    BY <1>4 DEF vars
  <2>2. Attached' = Attached
    BY <2>1 DEF Attached
  <2>3. Disjoint(Attached)' <=> Disjoint(Attached)
    BY <2>2 DEF Disjoint, IsRegion, Overlaps, EndOf
  <2>4. EntryIsExecutable' <=> EntryIsExecutable
    BY <2>1 DEF EntryIsExecutable, Address, BytesOf, EndOf
  <2> QED BY <2>1, <2>2, <2>3, <2>4 DEF PlatformInv, OnBus, BytesOf, EndOf
<1> QED BY <1>1, <1>2, <1>3, <1>4, LoadStep, BuildStep DEF Next

\* The invariant holds throughout.
LEMMA PlatformInvariant == Spec => []PlatformInv
<1>1. Init => PlatformInv
  BY DEF Init, PlatformInv, EntryIsExecutable, NoImage
<1>2. PlatformInv /\ [Next]_vars => PlatformInv'
  BY PlatformStep
<1> QED BY <1>1, <1>2, PTL DEF Spec

\* However regions are attached, the bus accepts what the platform has
\* (Platform::attach_device, Bus::attach_device), and routes every access to
\* the device that holds it (Bus::find_dev).
THEOREM AccessesAreRouted == Spec => []RoutesToItsRegion
<1>1. PlatformInv => RoutesToItsRegion
  <2> SUFFICES ASSUME PlatformInv PROVE RoutesToItsRegion
    OBVIOUS
  <2>1. phase # "overlap"
    BY DEF PlatformInv
  <2>2. CASE phase = "built"
    <3>1. /\ Attached \in Seq(Regions) /\ Disjoint(Attached)
          /\ bus = OnBus(Attached, Len(Attached))
      BY <2>2, Prepended DEF PlatformInv, Attached
    <3>2. \A addr \in 0 .. MaxAddress, size \in {1, 2, 4, 8} :
            LET holders == {i \in DOMAIN Attached :
                   addr .. addr + size - 1 \subseteq BytesOf(Attached[i])}
            IN  IF holders = {} THEN FindDev(addr, size) = Nowhere
                ELSE holders = {FindDev(addr, size) + 1}
      BY <3>1, Routing
    <3> QED BY <2>1, <3>2 DEF RoutesToItsRegion, Attached
  <2> QED BY <2>1, <2>2 DEF RoutesToItsRegion
<1> QED BY <1>1, PlatformInvariant, PTL

\* The entry of every loaded ELF image is in DRAM, even, and the only place
\* an executable segment gives it (load_elf64).
THEOREM EntriesAreExecutable == Spec => []EntryIsExecutable
<1>1. PlatformInv => EntryIsExecutable
  BY DEF PlatformInv
<1> QED BY <1>1, PlatformInvariant, PTL

\* No load ends in the middle (load_elf64 checks every segment before it
\* writes the first), and a whole one leaves the bytes of its segments.
THEOREM LoadsAreAtomic == Spec => LoadIsAllOrNothing
<1>1. PlatformInv /\ [Next]_vars =>
        [phase = "assembling" /\ memory' # memory =>
           /\ image' # NoImage
           /\ image'.format = "elf" =>
                \A a \in BytesOf(dram) :
                  memory'[a] = LoadedByte(image', a)]_vars
  BY PlatformStep
<1> QED BY <1>1, PlatformInvariant, PTL DEF Spec, LoadIsAllOrNothing
=============================================================================

------------------------------- MODULE Platform -------------------------------
(***************************************************************************)
(* How a machine comes to be: the platform that collects DRAM and devices  *)
(* (src/machine.rs, src/virt_platform.rs), the loader that puts an image   *)
(* into DRAM (src/loader.rs, src/dram.rs), and the bus that the platform   *)
(* becomes (src/bus.rs), which routes every access of the machine.         *)
(*                                                                         *)
(* Regions overlap or not in two places, with different algorithms: the    *)
(* platform compares a new region with all others, the bus with its two    *)
(* neighbours. The order of the loader's checks is left out, its writes    *)
(* are not: they come one after another, and the first that fails ends it. *)
(* What the devices' own constructors reject is left out.                  *)
(***************************************************************************)
EXTENDS Integers, Sequences, FiniteSets

CONSTANTS
  MaxAddress,       \* the largest 64-bit address
  StackAlignment,   \* STACK_ALIGNMENT
  Drams,            \* the DRAM regions platforms are created with
  DeviceRegions,    \* the regions of devices attached one by one
  Configs,          \* the configurations of VirtPlatform::new
  Images,           \* ELF images, and
  FlatSizes,        \* the lengths of flat ones
  Vectors,          \* reset vectors, besides the entries of images
  MaxDevices        \* bound: devices attached one by one

\* A region and a program header hold what 64 bits can.
Regions == [base : 0 .. MaxAddress, size : 0 .. MaxAddress]
Segments ==
  [virtual : 0 .. MaxAddress, physical : 0 .. MaxAddress,
   file : 0 .. MaxAddress, size : 0 .. MaxAddress,
   executable : BOOLEAN, whole : BOOLEAN]

ASSUME PlatformAssumption ==
  /\ {MaxAddress, MaxDevices} \subseteq Nat
  /\ StackAlignment \in Nat \ {0}
  /\ Drams \cup DeviceRegions \subseteq Regions
  /\ \A config \in Configs : /\ config.dram \in Regions
                             /\ config.regions \in Seq(Regions)
  /\ \A elf \in Images : /\ elf.entry \in 0 .. MaxAddress
                         /\ elf.segments \in Seq(Segments)
  /\ FlatSizes \subseteq 0 .. MaxAddress

VARIABLES
  phase,            \* "none", "assembling", "built" or "refused"
  dram,             \* the region of DRAM
  devices,          \* Platform.devices, in the order they were attached
  memory,           \* the bytes of DRAM
  image,            \* history: the image in memory
  entry,            \* LoadedImage.entry
  bus               \* Bus.devices: regions with the index of their device

vars == <<phase, dram, devices, memory, image, entry, bus>>

NoImage == [format |-> "none"]
Nowhere == -1
Zero == <<0, 0>>
EndOf(region) == region.base + region.size
BytesOf(region) == region.base .. EndOf(region) - 1

\* checked_add of a base and a size that is not 0.
IsRegion(region) == region.size > 0 /\ EndOf(region) <= MaxAddress

-----------------------------------------------------------------------------
(* The platform.                                                           *)

\* Mutant: only the start of the new region is looked for in the old one.
BugStartsInside(new, old) == new.base >= old.base /\ new.base < EndOf(old)

\* ranges_overlap.
Overlaps(new, old) == new.base < EndOf(old) /\ old.base < EndOf(new)

\* What attach_device accepts next to the regions there are.
Attachable(region, others) ==
  IsRegion(region) /\ \A i \in DOMAIN others : ~Overlaps(region, others[i])

Create(region, attached) ==
  /\ phase = "none"
  /\ IsRegion(region)
  /\ phase' = "assembling"
  /\ dram' = region /\ devices' = attached
  /\ memory' = [a \in BytesOf(region) |-> Zero]
  /\ UNCHANGED <<image, entry, bus>>

\* Platform::new.
NewPlatform(region) == Create(region, <<>>)

\* VirtPlatform::new: nothing is left of a platform one of whose devices
\* cannot be attached, or whose devices share a source.
NewVirtPlatform(config) ==
  /\ \A i, j \in DOMAIN config.irqs : i # j => config.irqs[i] # config.irqs[j]
  /\ \A i \in DOMAIN config.regions :
       Attachable(config.regions[i],
                  <<config.dram>> \o SubSeq(config.regions, 1, i - 1))
  /\ Create(config.dram, config.regions)

\* Platform::attach_device.
AttachDevice(region) ==
  /\ phase = "assembling" /\ Len(devices) < MaxDevices /\ image = NoImage
  /\ Attachable(region, <<dram>> \o devices)
  /\ devices' = Append(devices, region)
  /\ UNCHANGED <<phase, dram, memory, image, entry, bus>>

-----------------------------------------------------------------------------
(* The bus. BTreeMap::range gives the neighbours of an address.            *)

AtOrBelow(regions, addr) == {r \in regions : r.base <= addr}
AtOrAbove(regions, addr) == {r \in regions : r.base >= addr}
Highest(regions) == CHOOSE r \in regions : \A q \in regions : q.base <= r.base
Lowest(regions) == CHOOSE r \in regions : \A q \in regions : q.base >= r.base

\* Bus::attach_device.
BusAccepts(regions, new) ==
  LET before == AtOrBelow(regions, new.base)
      after  == AtOrAbove(regions, new.base)
  IN  /\ IsRegion(new)
      /\ before # {} => EndOf(Highest(before)) <= new.base
      /\ after # {} => EndOf(new) <= Lowest(after).base

\* Bus::find_dev, for reads, writes and reservations.
FindDev(addr, size) ==
  LET below == AtOrBelow(bus, addr)
  IN  IF /\ size \in {1, 2, 4, 8}
         /\ below # {}
         /\ addr + size <= MaxAddress
         /\ addr + size <= EndOf(Highest(below))
      THEN Highest(below).device ELSE Nowhere

\* The first n regions on the bus, each with the index of its device.
OnBus(regions, n) ==
  {[base |-> regions[i].base, size |-> regions[i].size, device |-> i - 1] :
     i \in 1 .. n}

\* Platform::build: DRAM is device 0. The platform is gone in any case.
Build(vector) ==
  LET regions == <<dram>> \o devices
      stack == EndOf(dram) - (EndOf(dram) % StackAlignment)
  IN  /\ phase = "assembling"
      /\ IF vector \notin BytesOf(dram) \/ vector % 2 # 0 \/ stack < dram.base
         THEN phase' = "refused" /\ UNCHANGED bus
         ELSE IF \A i \in DOMAIN regions : BusAccepts(OnBus(regions, i - 1), regions[i])
         THEN phase' = "built" /\ bus' = OnBus(regions, Len(regions))
         ELSE phase' = "overlap" /\ UNCHANGED bus
      /\ UNCHANGED <<dram, devices, memory, image, entry>>

-----------------------------------------------------------------------------
(* The loader.                                                             *)

\* Dram::byte_range, which contains_range and every write go through.
ContainsRange(addr, size) ==
  /\ addr + size <= MaxAddress
  /\ addr >= dram.base
  /\ addr + size <= EndOf(dram)

\* write_bytes and zero_range, after earlier writes of the same load.
Write(done, addr, bytes) ==
  IF done.failed \/ ~ContainsRange(addr, Len(bytes))
  THEN [done EXCEPT !.failed = TRUE]
  ELSE [done EXCEPT !.memory =
          [a \in DOMAIN @ |-> IF a - addr + 1 \in DOMAIN bytes
                              THEN bytes[a - addr + 1] ELSE @[a]]]

\* Where a segment goes: at its virtual address if no segment of the image
\* has a physical one.
Address(elf, segment) ==
  IF \A i \in DOMAIN elf.segments : elf.segments[i].physical = 0
  THEN segment.virtual ELSE segment.physical

\* Mutant: only the bytes of the file are looked for in DRAM.
BugChecksFileSize(elf, segment) ==
  /\ segment.whole /\ segment.file <= segment.size
  /\ segment.virtual + segment.size <= MaxAddress
  /\ ContainsRange(Address(elf, segment), segment.file)

\* The checks of one segment in load_elf64.
IsLoadable(elf, segment) ==
  /\ segment.whole /\ segment.file <= segment.size
  /\ segment.virtual + segment.size <= MaxAddress
  /\ ContainsRange(Address(elf, segment), segment.size)

\* The physical addresses of the entry in executable segments.
Entries(elf) ==
  {Address(elf, elf.segments[i]) + elf.entry - elf.segments[i].virtual :
     i \in {k \in DOMAIN elf.segments :
              LET s == elf.segments[k]
              IN  s.executable /\ elf.entry - s.virtual \in 0 .. s.size - 1}}

\* Mutant: of several places of the entry the first found is taken.
BugAmbiguousEntry(elf) == Entries(elf) # {}

HasEntry(elf) == Cardinality(Entries(elf)) = 1

\* The two writes of one segment; the n-th byte of segment i of the file is
\* <<i, n>>.
LoadSegment(elf, done, i) ==
  LET s == elf.segments[i]
      a == Address(elf, s)
  IN  Write(Write(done, a, [n \in 1 .. s.file |-> <<i, n>>]),
            a + s.file, [n \in 1 .. s.size - s.file |-> Zero])

\* The writes of all segments, in the order of the file.
LoadSegments(elf) ==
  LET first[i \in 0 .. Len(elf.segments)] ==
        IF i = 0 THEN [failed |-> FALSE, memory |-> memory]
        ELSE LoadSegment(elf, first[i - 1], i)
  IN  first[Len(elf.segments)]

\* load_elf64.
LoadElf(elf) ==
  LET place == CHOOSE e \in Entries(elf) : TRUE
      done  == LoadSegments(elf)
  IN  /\ elf.header /\ elf.segments # <<>>
      /\ \A i \in DOMAIN elf.segments : IsLoadable(elf, elf.segments[i])
      /\ HasEntry(elf) /\ place % 2 = 0
      /\ memory' = done.memory
      /\ image' = IF done.failed THEN NoImage
                  ELSE [format |-> "elf", entry |-> elf.entry,
                        segments |-> elf.segments]
      /\ entry' = IF done.failed THEN Nowhere ELSE place

\* The flat format of load_image_bytes.
LoadFlat(size) ==
  /\ ContainsRange(dram.base, size)
  /\ memory' = Write([failed |-> FALSE, memory |-> memory], dram.base,
                     [n \in 1 .. size |-> <<1, n>>]).memory
  /\ image' = [format |-> "flat", size |-> size]
  /\ entry' = dram.base

\* One image is loaded, before or after all devices are attached.
Load ==
  /\ phase = "assembling" /\ image = NoImage
  /\ devices = <<>> \/ Len(devices) > MaxDevices
  /\ \/ \E elf \in Images : LoadElf(elf)
     \/ \E size \in FlatSizes : LoadFlat(size)
  /\ UNCHANGED <<phase, dram, devices, bus>>

-----------------------------------------------------------------------------
Init ==
  /\ phase = "none"
  /\ dram = [base |-> 0, size |-> 0] /\ devices = <<>> /\ memory = <<>>
  /\ image = NoImage /\ entry = Nowhere /\ bus = {}

Next ==
  \/ \E region \in Drams : NewPlatform(region)
  \/ \E config \in Configs : NewVirtPlatform(config)
  \/ \E region \in DeviceRegions : AttachDevice(region)
  \/ Load
  \/ \E vector \in Vectors \cup {entry} : Build(vector)

Spec == Init /\ [][Next]_vars

-----------------------------------------------------------------------------
(* Properties.                                                             *)

\* What the platform has accepted the bus accepts too, region by region and in
\* any order; the machine then routes an access to the device whose region
\* holds all of it, and to none if there is no such region, also at the end of
\* the address space.
RoutesToItsRegion ==
  LET regions == <<dram>> \o devices
      Holders(addr, size) ==
        {i \in DOMAIN regions : addr .. addr + size - 1 \subseteq BytesOf(regions[i])}
  IN  /\ phase # "overlap"
      /\ phase = "built" =>
           \A addr \in 0 .. MaxAddress, size \in {1, 2, 4, 8} :
             LET holders == Holders(addr, size)
             IN  IF holders = {} THEN FindDev(addr, size) = Nowhere
                 ELSE holders = {FindDev(addr, size) + 1}

\* What a byte of DRAM is once an ELF image is loaded: what the last segment
\* over it says, or what it was.
LoadedByte(elf, a) ==
  LET At(i) == Address(elf, elf.segments[i])
      over == {i \in DOMAIN elf.segments :
                 a - At(i) \in 0 .. elf.segments[i].size - 1}
      top  == CHOOSE i \in over : \A j \in over : j <= i
  IN  IF over = {} THEN memory[a]
      ELSE IF a - At(top) < elf.segments[top].file
      THEN <<top, a - At(top) + 1>> ELSE Zero

\* A load that fails leaves memory as it was, although the loader writes
\* segment by segment. One that succeeds leaves every byte of every segment
\* there, but for those a later segment covers, and touches no other.
LoadIsAllOrNothing ==
  [][phase = "assembling" /\ memory' # memory =>
       /\ image' # NoImage
       /\ image'.format = "elf" =>
            \A a \in BytesOf(dram) : memory'[a] = LoadedByte(image', a)]_vars

\* A machine built with the entry of an ELF image starts at the only place in
\* DRAM that an executable segment gives its virtual entry, and a machine can
\* be built with it unless DRAM is too small for a stack.
EntryIsExecutable ==
  image.format = "elf" =>
    /\ entry \in BytesOf(dram) /\ entry % 2 = 0
    /\ \A i \in DOMAIN image.segments :
         LET s == image.segments[i]
         IN  s.executable /\ image.entry - s.virtual \in 0 .. s.size - 1 =>
               entry = Address(image, s) + image.entry - s.virtual
=============================================================================

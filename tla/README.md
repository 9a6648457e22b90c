# arvsim in TLA+

arvsim is a RISC-V (RV64, one hart) system emulator in Rust. This directory
holds TLA+ modules of the parts of it that keep state and make decisions, TLC
models that check them on small instances, and theorems about them that TLAPS
checks for every value of the constants. Paths below are relative to the root
of the repository; `src/plic.rs` is the crate's source file of that name.

## 1. The system

`Machine::step` is the only source of progress. It first ticks every device
through the bus, then lets the hart take one step: the hart advances its time,
polls the devices for interrupt levels, and either enters a trap for an
interrupt or executes one instruction. Loads and stores go through address
translation, physical memory protection and the bus to DRAM or to a device,
which acts synchronously. There are no threads. What makes the system hard is
the interleaving of guest accesses, ticks, host input and resets in orders no
test lists; state held twice or cached between steps; and protocols between
guest and device (claim/complete, virtqueues, LR/SC, trap/return) that guest
software may follow or break.

| Component | State | Operations | Interacts with | Must be true |
|---|---|---|---|---|
| PLIC (`plic.rs`) | priorities, pending bits and the ordered set of pending sources, enables, thresholds, gateway busy bits | register reads and writes, claim, complete, tick, interrupt poll, reset | samples interrupt lines; polled by the hart | copies agree; requests are neither lost nor duplicated; a claim returns the best source; gateways do not stick |
| Interrupt line (`interrupt.rs`) | one shared level | set, sample | devices raise it, the PLIC samples it | level follows its cause |
| UART (`uart.rs`) | IER, DLAB, receive queue in a shared backend, transmit countdown, THRE request | register accesses, tick, reset, host input | raises a line | line follows cause; THRE interrupts are neither lost nor spurious; transmissions end |
| CSR file (`csr.rs`) | machine CSRs, hardware pending levels | load, store, load for write | owned by the hart | aliases reach only what they may; hardware levels are not latched |
| Hart (`cpu.rs`, `instruction.rs`, `trap.rs`) | privilege, pc, registers, reservation | step, trap entry, xret, CSR instructions, reset | bus, CSR file | interrupts come first; returns restore; lower modes are confined |
| PMP (`cpu.rs`, `csr.rs`) | pmpcfg, pmpaddr | check, write | every memory access | first match decides; locked entries are frozen |
| LR/SC (`dram.rs`, `cpu.rs`, `instruction.rs`) | reservation, page epochs | LR, SC, AMO, store, DMA, trap | DRAM | SC succeeds only if nothing wrote since LR |
| Sv39 (`cpu.rs`, `paging.rs`) | satp, page tables in DRAM | translate (may set A/D) | PMP, DRAM | agrees with the privileged architecture |
| virtio-blk (`virtio.rs`) | status, features, queue set-up, ring indices, interrupt status | register accesses, notify, reset | DMA to DRAM, raises a line | negotiated before use; each request once, in order; completions are signalled |
| Bus (`bus.rs`) | region map | attach, route, tick, reset, poll | all devices | no overlaps; accesses stay inside one region |
| Machine and platform (`machine.rs`, `virt_platform.rs`) | the above | step, run, reset, build | all | step order; all parts are reset together |
| Loader (`loader.rs`) | none | load ELF or flat image | DRAM | memory untouched unless the whole image is valid |
| xv6 accelerator (`cpu/xv6_accelerator.rs`) | matched code addresses | fast paths for lock and memory routines | hart, DRAM | same effect as the instructions replaced |
| CLI, fixtures, scripts, configuration | none | host I/O | library | outside the model |

## 2. The modules

In the order in which they build on each other:

1. `LevelGateway`, `Plic`, `PlicProofs`: the interrupt controller, and the
   abstract gateway it implements.
2. `Uart`: the device with timing.
3. `InterruptCsrs`, `Hart`, `HartProofs`: the privilege architecture.
4. `VirtioTransport`, `RequestFifo`, `VirtioQueue`, `VirtioDisk`,
   `VirtioProofs`: the block device: its registers, the queue of requests that
   its two rings implement, and what it does with one request.
5. `Reservation`: LR/SC against everything that writes memory; its theorems are
   in `HartProofs`.
6. `Pmp`, `Sv39`, `Sv39Proofs`: memory protection and its locks, and address
   translation behind it.
7. `VirtMachine`, `VirtMachineProofs`: `Plic`, `Uart` and the interrupt side of
   the hart under the order of `Machine::step`, with a kernel that uses the
   accelerated locks. The theorems about the UART by itself are in the same
   module of proofs.
8. `Platform`, `PlatformProofs`: how platform, image and bus come to be.
9. `Loops`, `KernelPages`, `KernelRoutines`, `KernelProofs`: the other fast paths of
   the xv6 accelerator. The theorems about the byte and string routines are in
   `HartProofs`, those about page tables in `KernelProofs`.

`IntegerLemmas` has what several proofs need of numbers and of loops, `Loops` the
one operator for a loop over a range, `Repeat`.

`VirtMachine` composes `Uart` (EXTENDS) and `Plic` (INSTANCE, with the level of
the UART as its line); `Sv39` extends `Pmp`; `VirtioQueue` and `VirtioDisk` extend
`VirtioTransport`; `MCXv6` puts the two kernel modules side by side. Abstract
specifications are `LevelGateway` and `RequestFifo`; `Sv39`, `KernelPages`,
`KernelRoutines` and `Platform` state what they are checked against as reference
definitions: the mapping of the privileged architecture, the contents of address
spaces, the C functions, and the bytes of an image.

What would come next: the block device as a second source in `VirtMachine`; and
the fields of CSRs that `InterruptCsrs` and `Hart` leave out.

The project keeps one model-checking module `MC...` per model that needs
constants of its own, and proofs in a module `...Proofs` that extends the
component.

## 3. The modules and the code

Common conventions: an array of booleans or a bit field is the set of the
indices that are set; an access that the code refuses before it reads any state
(wrong width, misaligned, outside the layout) has no action; a definition
called `Bug...` is a plausible mistake, used only to test that a property can
fail. A variable described as *history* is not in the code: it records what
happened, so that a property can refer to it, and no guard reads it (except
where an assumption on software is stated with it, as in `DriverSpec`).

**Plic, LevelGateway** (`src/plic.rs`, `src/interrupt.rs`). `pending` and
`pendingSources` are the two copies of the requests in `Plic`; `busy` is
`gateway_busy`, `line` the sampled levels. `SyncGateways` is `sync_gateways`,
which the code runs at every read, tick and poll (`Synchronise`), before a claim
(`ClaimSource`, `ClaimNothing`) and after an accepted completion (`Complete`).
Arbitration (`EligibleSource`) is a set expression for the loop over
`pending_sources`; notification passes the threshold, a claim passes zero.
Register writes mask their values. `Spec` lets software write anything;
`DriverSpec` restricts completions to sources in service. `LevelGateway` says
what a gateway promises: idle, requested, taken, idle, each source on its own.

**Uart** (`src/uart.rs`). The registers that decide interrupts and the transmit
countdown; the receive queue is a number of bytes in a backend that the host
extends behind the device's back (`HostInput`). Every access ends in
`RefreshInterruptLine`, as in the code. `Tick` subtracts the cycles of a step.

**InterruptCsrs, Hart** (`src/csr.rs`, `src/cpu.rs`, `src/trap.rs`,
`src/instruction.rs`). `InterruptCsrs` has mip, split as in the code into
software bits and hardware levels, mie, mideleg and the Sstc registers, with
their supervisor views and read-modify-write instructions. `Hart` adds the
privilege, the fields of mstatus that traps and returns use, and medeleg;
`Step` follows `Cpu::step`: time and levels first (`Refresh`), then an
interrupt (`TakeInterrupt`), or else one instruction, which may trap (`Raise`),
return, write a register or do none of these. `mframe` and `sframe` are history:
what the last trap to each mode interrupted.

**VirtioTransport, VirtioQueue, RequestFifo, VirtioDisk** (`src/virtio.rs`). The
transport has the negotiation, the set-up of the queue and the interrupt status;
its actions are the register writes of `MemDevice::write`, in any order, and
notifications with any outcome. `VirtioQueue` extends it with ring indices that
wrap, the rings in memory, and `NotifyQueue`, which is `notify_queue` with
`process_available`, loop and all: a batch may fail in its middle, with the
requests before it completed. The driver is external: it submits requests with
free heads, suppresses and acknowledges interrupts, stops, restarts and resets
the queue. `RequestFifo` is what the driver may rely on. `VirtioDisk` extends the
transport with one request: `IsChain` is the walk over descriptors, `Message` the
cells they cover, `WellFormed` the layout the code asks for. The handler
(`Processed`) is threaded: a record with memory, medium and a flag goes through
`Validated` (the three places of the completion and the offset, each with its `?`),
`Transferring` (`validate_transfer`, and a medium that may fail between chunks,
`Moves`) and `Published` (`complete_request`, whose writes may fail again). A step
that fails stops the request and leaves what the steps before it did; that these
did nothing that matters is what `FailureTransfersNothing` says, not the shape of
the model. `WrittenLength` is `used.len`. Both use the transport's `UsedBuffers`
and `FailDevice` to end a notification. `VirtioQueue` reduces a request to whether
its processing succeeds, and its driver gives the queue its size once, before the
first start (`SetUp`); the transport allows any order.

**Reservation** (`src/dram.rs`, `src/cpu.rs`, `src/instruction.rs`). Memory is
cells in pages; the data is left out, the page epochs are not. Each instruction
may first write a page table entry (its `walk`), as `translate_sized` does. The
order of translation and reservation is that of the code, and differs between LR
and SC. `linked`, `touched`, `disturbed`, `stored` and `walked` are history.
The fast paths of the xv6 accelerator that write memory are sequences of `Store`.

**Pmp** (`src/csr.rs`, `src/cpu.rs`). Regions and accesses are sets of bytes.
`CheckPmp` states the loop of `check_pmp` as the first entry that shares a byte
with the access; `StorePmpcfg` and `StorePmpaddr` are the two kinds of write with
the three rules about locks.

**Sv39** (`src/cpu.rs`, `src/paging.rs`, `src/instruction.rs`). `Translate` is
`translate_sized`; its loop is `Walk`, a recursive function of the level whose
values are functions of the table, and `Visit` is one turn of it. It yields the
outcome and the memory it leaves, since a translation sets A and D bits, and all
its reads and writes of entries pass `CheckPmp`. The shifts and masks of the code
are quotients and remainders by `TwoTo` (in `Pmp`) and `FramesAt`, the powers that
sizes of regions and pages are. `LoadOrStore` and `Fetch` are
the accesses; a fetch takes two halves, which may lie in different pages.
`Effective` applies MPRV. There is no translation cache in the code. `Maps`, with
`Protection`, is the reference: a chain of entries, stated without a walk and
without `CheckPmp`.

**VirtMachine** (`src/machine.rs`, `src/bus.rs`, `src/cpu.rs`,
`src/cpu/xv6_accelerator.rs`). One step of the machine is four actions, in the
order of the code: `TickPlic`, `TickUart` (devices by ascending address), `Poll`
(which synchronises the PLIC again and may enter the trap) and `Execute`. A reset
is two. Between steps the user types. The guest is external: a kernel with a task
and an interrupt handler that access the UART in any way, claim and complete,
and use `acquire`, `release`, `push_off` and `pop_off`, each of which is one
instruction, as the accelerator makes it. `phase` says which part is next;
`owners` and `sieBefore` are history.

**Platform** (`src/machine.rs`, `src/virt_platform.rs`, `src/bus.rs`,
`src/loader.rs`, `src/dram.rs`). A platform collects regions (`AttachDevice`,
`NewVirtPlatform`), loads an image (`LoadElf`, `LoadFlat`) and becomes a bus
(`Build`). Overlap is looked for twice in the code, by different algorithms, and
twice in the model: `Attachable` compares with all regions, `BusAccepts` with the
two neighbours in the ordered map. `LoadElf` validates, then writes one segment
after another through `Write`, which may fail as `byte_range` does; the loop is
the recursive function in `LoadSegments`.

**KernelPages, KernelRoutines** (`src/cpu/xv6_accelerator.rs`,
`src/instruction.rs`). `KernelPages` has memory as pages of words, the free list
inside the free pages, and the fast paths of `uvmunmap`, `uvmcopy` and `freewalk`,
built from `KallocPage`, `KfreePage`, `Walk` and `Mappage` as in the code: each
threads the memory it changes, so that what an early return leaves behind is in
the model. `call` records how a call ended (history): completed, failed or
declined, after which the guest's own code runs. The guest between the calls
(`Create`, `MapUser`, `Kfree`, odd entries) is external. `KernelRoutines` has
bytes and a mapping; every routine is a function of a record that holds memory
and argument registers, since a routine that faults in its middle has written
some of its bytes and runs again. `FillLoop` is the filling loop recognised in
`src/instruction.rs`, `FillDramBytes` its word-wise store. A loop of the code is
`Repeat` over functions of the loop's state, one for each turn (`Descend`,
`CollectLeaf`, `ClearMapping`, `CopyPage` are such turns); a method that calls itself
for the next level of a tree is a function of the level, defined from the one
below (`CollectAt`, `SafeAt`, `FreeTablesAt`). Where a table lies outside DRAM the
code raises an exception and the model declines or gives up: nothing has changed by
then when mappings are collected, and `xv6_walk` meets no such table in the spaces
this guest copies into. The fill sets accessed and dirty bits on its way, which are
no part of the bytes here.

## 4. The runs

| Run | Asks | Bounds |
|---|---|---|
| `plic_driver` | With software that completes only what is in service: a claim is fresh and fair, the hart is notified of just what software sees and can claim it, no request is lost, no gateway closes for good, `LevelGateway` is implemented | two sources, two contexts, priorities 0 to 3, two slots per enable word |
| `plic_unmatched` | Finding: see below | the same with priorities 0 and 1 |
| `machine` | Interrupts stop the instruction of the step that raises them, every standing cause reaches the handler, THRE requests and transmissions end, locks exclude the handler, the last release restores interrupts | two queued bytes, a delay of two ticks and one cycle, two nested levels |
| `interrupt_csrs` | Hardware levels are never latched as software bits, under writes at any privilege | the three supervisor interrupts |
| `hart` | Returns restore what was interrupted, lower modes cannot reach machine state, interrupts overtake instructions, MPRV stays in machine mode | one machine and one delegable interrupt, one delegable exception and one that is not |
| `virtio_transport` | In any order of register writes features are negotiated before use; a request that cannot be completed changes nothing; `used.len` covers only what was written; the status is true | tables of four descriptors, eight cells of guest memory, three sectors of two cells, chunks of two, lengths below six |
| `virtio_queue` | The rings implement one FIFO, completions are signalled, the device fails only for an invalid request | sizes 1 and 2, indices modulo 8 |
| `reservation` | An SC stores only what nothing disturbed, and never fails undisturbed | two pages of two cells, accesses of one and two cells, epochs to 5 |
| `reservation_modified` | Finding: see below | epochs to 3 |
| `memory` | Translation succeeds exactly for what the architecture maps, with its address; A/D updates are invisible; no access is granted that its bytes are not; locked entries keep what they say and cover | three protection entries in two registers, four addresses of three bits, five configurations; two levels, two entries per table, three frames of memory |
| `platform` | What the platform accepts the bus accepts and routes; images are loaded wholly or not at all, with an entry that runs | addresses of four bits, two devices of any region, or three of a virt platform; images of two segments |
| `xv6` | No page is lost or owned twice; a declining call changes nothing; unmapping and copying are exact, or undone; routines compute the C functions, the fill its loop, and a faulted call between places that are apart can be repeated | seven pages, two spaces of four pages; routines on three pages of two bytes, of which the first and the last byte are no DRAM |

Why the bounds suffice. *PLIC*: rules concern one source, or the comparison of
two; two contexts make a claim race; with two-slot words the second source lies
in another enable register, and written values range past the mask. *Machine*: a
delay that is no multiple of a tick makes the countdown end below zero; one byte
more than the queue holds is never treated differently; two levels nest. *CSRs
and hart*: rules concern one interrupt, or the priority of two; delegation splits
them in two classes. The hart runs without the timer, which `interrupt_csrs`
covers. *Virtio*: sizes 1 and 2 are the smallest full queue and the smallest with
two slots; modulo 8 the indices wrap within four rounds while the slots wrap every
second. The overrun branch of `NotifyQueue` needs a driver that lies about its
index, which this driver does not. Four descriptors are enough to split a header
or the data, to share a descriptor between two parts, and to loop; requests are
made in one state of the transport, which they cannot see otherwise. The longest
message has one cell of data too many for the length in the used ring, as a request
of 4 GiB would.
*Reservation*: two pages make a transfer cross a border; one access inside
another tells address from width; five writes are more than lie between an LR and
its SC in any counterexample of the mutants. Both runs of this module stop at the
bound on epochs only by excluding further writes; a reset remains possible.
*Memory*: three entries are enough for a first match, a successor in the same
register, and one in the next; two levels have a pointer, a superpage and a page;
tables may map themselves and each other. Protection is configured before there
are tables, in one of two settings. *Platform*: two neighbours are all the bus
looks at; all regions of up to four bytes are attached in any order, up to the
last address. `CHECK_DEADLOCK FALSE`, because a machine that is built is the end
of this story. *xv6*: seven pages are enough to copy a space of one table and two
pages only in part, and a budget of three pages to exceed it. The view under which
TLC identifies states renumbers pages by the order in which they are found;
the calls treat all pages alike, and the variable `call`, which the view omits, is
read by no guard and by properties of single steps only, which TLC checks at every
step it generates. `part` chooses which of the two halves a behaviour is about:
they share no state.

Epochs are 64-bit counters, and wrapping one takes more writes than a run of the
program can make; the model bounds instead of wrapping them. PLIC and PMP
registers, and virtio's 16-bit indices, keep their width (as a parameter).

Fairness. `MachineSpec` assumes `WF(MachineStep)`: `Machine::run` calls `step`
until it is told to stop, and a step is its four parts. Nothing else is assumed:
the guest may never return from its handler, never boot, reset in every step, and
the user may never type. `Uart!Spec`, which the theorems use, has `WF_vars(Tick)`
for the same reason, since every step of the machine ticks every device.

### Findings

*One unfinished request per source* (`plic_unmatched`).
`docs/repository-status/plic.md:5` promises at most one unfinished request per
level source. `complete` looks at the enable bit only; a completion of a source
that was not claimed opens its gateway. While the line is high, the same completion
closes it again on the same pending bit; but if the line is low from then until a
context has claimed the request, and rises while that is in service, the open
gateway lets a second request in. The theorems over `Spec` show what still holds
then, and `plic_driver` that the promise holds for software that completes only
what is in service.

*A modification that SC does not notice* (`reservation_modified`).
`docs/repository-status/architecture.md:19` says the CPU can notice that
reserved memory was modified, because all writes move the page epoch. SC
compares the epoch before it translates the address. If that translation sets
the dirty bit of an entry inside the reserved word, SC still stores and
overwrites the bit. The hart is the only one in the system, and the case needs
an entry that maps itself. `ConditionalStoreIsExclusive` is the statement that does
hold: it covers every write up to the SC itself.

## 5. The proofs

TLAPS checks these for every value of the constants that satisfies the
assumptions of the module. Modules with theorems use no recursive operator.

**IntegerLemmas.** `Least` and `Greatest`: a set of naturals has a least element,
and a greatest if it has a bound. All inductions of the other modules are of this
form: the least counterexample is not one. `Recursion` follows from it: a function
that is defined by recursion on an interval exists, without which nothing could be
said of the loops of `LoadSegments`, `Walk` and the walk over descriptors. The other lemmas are
about remainders, for indices that wrap, quotients, and counting; of loops,
`Repeating` turns one into the sequence of its states, so that what each turn
preserves holds at the end (`RepeatKeeps`).

**PlicProofs.** `PlicAssumption` (sources numbered from 1, priorities under a
mask of ones). For any software, `TypeOK /\ CopiesAgree /\ NoGatewayStuck` is
inductive: a gateway that a spurious completion opens is not stuck, because it
is no longer busy, and one that synchronisation closes has just formed a request. The
properties of claims are action properties of steps from such states; notifications
also need that among candidates one wins (`CandidatesHaveWinner`). For a
disciplined driver `DriverInv` adds that a request or a claim implies a busy
gateway: without it a synchronisation could form a second request, which is what
happens when completions are not matched. `Refinement` maps the state to phases
(`GatewayPhase`) and shows every step of `DriverSpec` to be one of `LevelGateway`;
that no phase is the one of a source requested twice is `OneRequestPerSource`.
All but these two theorems hold of `Spec`, of software that completes anything at
any time, which no run checks by itself.

**HartProofs.** `RegisterInv` for the interrupt registers: that nothing is
latched (`LevelsAreNotLatched`) needs `SstcOwnsStip`, because a write of mip
leaves the bit alone that Sstc owns. `HartInv` adds types and `FramesMatch`, the
agreement of the history of traps with the fields of mstatus, from which
`ReturnRestores` follows.

Of the byte and string routines, from `RoutinesAssumption`: from a loop that may
stop in its middle follows how far it came (`Looping`). For each routine a lemma
says what its loop has written or compared after so many turns (`MemmoveResult`,
`StrncpyResult`, `CompareResult`, `StrlenResult`, `FillResult`). The three theorems
compare this with the C functions, with the loop of single bytes, and with a second
call in the memory that the first has left. That second call has the first one's
outcome if the first has written nothing or source and destination are apart;
an overlapping `memmove` that faults after it has begun to write reads its own bytes
when it runs again, and is not covered. It matters there that no two mapped
addresses share a place of memory (`PhysicalInjective`), and for the fill that words
cover the bytes between them exactly once.

**VirtioProofs.** `TransportInv` is inductive for the transport under any
writes; `QueueImplementsTransport` shows that device and driver together are
one of its behaviours, so its theorems carry over. `CompletionsAreSignalled`
needs `Signalled`, which speaks of the two ring indices instead of the sequence
between them.

That the rings are a FIFO (`RingsImplementFifo`) needs `IndexAssumption`: the
number of indices is a multiple of every queue size and greater than the largest.
Then indices that lie less than a round apart have different slots
(`ModInjective`). `WindowInv` describes the window of requests between the
driver's `seen` and `availIdx`, in order (`At`), the first `Done` of them in the used
ring and the others in the available ring: their heads are different, and a head is
free exactly if it is not among them. So the window is no longer than the queue,
no slot is overwritten that was not read yet, and no distance between indices is
mistaken for another round's. A notification completes a prefix of the batch
(`NotifyWindow`), and if it fails the request at `Done` is an invalid one, which
is `DeviceFailsOnlyOnInvalid`. For the refinement the window is cut at `Done`
into the two queues of `RequestFifo`, and each step changes the window as the
abstract step changes the queues (`MakeStep`, `FinishStep`, `CollectStep`).

`DiskInv` is about one request: types, no answer without a request, and every
position that the used length counts has been written (`LengthsAreInitialised`).
`MessageTyped` and `Layout` say that the walk over descriptors, however it ends,
yields a sequence of cells whose header, data and status lie where the checks put
them; `ProcessedIs` goes through the steps of the handler and shows that none fails
once the transfer has begun, since what the completion writes was validated before it
and the transfer does not change that; so a request that fails has done nothing.
`ServeStep` goes through the kinds of request and the places where the medium may
fail, from which follow the promises about lengths and statuses;
`DiskImplementsTransport` carries the theorems of the transport over.

Of reservations, from `MemoryAssumption`: accesses are not empty and do not cross
pages. `Witnessed` says what a comparison of epochs tells: while a
reservation stands, its epoch is current exactly if nothing disturbed it.
Exclusivity follows; `UnspentStays` gives the converse, that an undisturbed SC
succeeds.

**Sv39Proofs.** Of protection: `LockedStep` is the only place where regions are
looked into: a region that depends on its predecessor belongs to a top-of-range
entry, and that predecessor's register is frozen. That a verdict on locked entries
is final follows from it, because the decisive entry stays the first. The theorem
on bytes holds in every state, reachable or not. `MemoryUsesProtection` carries
all of them over to the system with translation.

Of translation, from `Sv39Assumption` (at least two entries in a table) and
`InputAssumption` (the kernel's tables are tables, accesses have a size):
`MemoryTypeCorrect` is the inductive invariant. `CheckIsProtection` shows that
`CheckPmp`, which compares regions as ranges, agrees with `Protection`, which
compares addresses above their lowest zero; for NAPOT entries this is arithmetic
of powers of two (`LowestOneExists`, `LowestOneUnique`, `NapotCovers`). The walk
is then compared with the chains of `Maps` by induction over the levels: a chain
from a table is a link followed by a chain from the next (`FirstLink`), the walk
turns exactly the entries into pointers that link (`PointerLinks`) and accepts
exactly the leaves (`LeafAccepted`), so it ends in a leaf if and only if there is
a chain to it (`VisitAgrees`). `TranslationsAreArchitectural` follows. For
`BitsAreInvisible` the relation `Silent` says that memories differ only in A and D
bits of leaves whose entries protection lets the walk write. The second half is
needed: without it a translation could stop faulting because another access had set
its bits. Silent changes compose (`SilentTransitive`, for the two halves of a
fetch) and are seen by no walk, again level by level (`SameWalk`).

**VirtMachineProofs.** Of the UART by itself, `UartInv`, the types and `TransmitterOK`, is inductive.
The three theorems about its interrupt follow by cases over the accesses; that a
refresh ends every access is what `LineFollowsCause` rests on, and that a request
stands only while the transmitter is empty is why a tick cannot withdraw it.
`MachineContainsUart` shows that a behaviour of the machine is one of the UART, so
that they hold inside it; each of the machine's actions is a step of the device or
none.

Of the machine, no assumption on the constants is needed. `LockInv` says
that interrupts are off from the first `push_off` to the last `pop_off`; so only
the frame that runs can own the lock, and what the first `push_off` saved is
still there for the last `pop_off`. The fast path of `acquire` does not test
the lock, so exclusion rests on this alone. `RequestInv` joins it with the
PLIC: a closed gateway has a request or is in service, and only the handler,
which runs with interrupts off, has anything in service. Hence a level that
stands when the hart polls with interrupts on is notified
(`StandingLevelIsNotified`), and no instruction overtakes it
(`InterruptsComeFirst`).

**PlatformProofs.** `PlatformAssumption` types the regions and images that are
offered. `PlatformInv` says that the attached regions are pairwise disjoint, since
the registry compares each with all before it, and that the bus holds just these.
The bus compares with the two neighbours only, which suffices because its regions
are disjoint already: it never refuses what the registry accepted
(`BusAcceptsAll`), and an access is answered by the one region that holds it
(`AccessesAreRouted`). `LoadsAreAtomic` is an induction over the segments of an
image (`SegmentsStep`): memory has what the segments so far put there, the last one
that covers a byte deciding, and since validation has excluded every failure of a
write, none fails. That an entry lies in a loaded, executable segment is
`EntriesAreExecutable`.

**KernelProofs.** From `PagesAssumption`: the free list and the trees of tables are
structures inside the memory that the calls change, and no formula about the reach
of a pointer is inductive. `Sound` therefore names an owner for every page of the
allocator (`Ownership`): a free page has a height above the end of the list, a table
its level and its parent, a mapped page its entry; the others are loose. Every
condition is then about one entry and the owners of two pages: an entry that points
leads to a table one level below whose parent it is in, a leaf to a page that names
this entry, a free page to the one below it, and roots are just the tables of the
highest level. A table may be reached by two entries of its parent, as the kernel's
odd entries make it. `PageInv` says that there are such owners in which the loose
pages are those that the guest keeps.

Each operation on a page changes one owner (`Kalloc`, `KfreeLinks`, `LinkTable`,
`MapLoose`, `ClearLeaf`, `UnlinkTable`, `AddRoot`, `DropRoot`), and each loop preserves
`Sound` with some pages loose for the time of the call: `UvmunmapSound`,
`UvmcopySound` and `FreewalkSound` follow the loops turn by turn and the trees level
by level. For `uvmunmap` it matters that collected mappings are different entries
of tables of the last level (`Good`), so that none frees what another has freed; for
`freewalk` that the search has met each table once and left none out (`Clean`), so
that clearing one table takes nothing from the others (`SameAbove`). Both loops then
succeed once they have begun, which is `DecliningIsClean`. `PagesOwnedOnce` is read
off the owners: following the list goes down the heights, so that it ends and has
every free page (`ChainHeights`); every table is reached from a root, level by level
(`TablesAreReached`); mapped pages and the entries that map them are in bijection
(`PlacesAre`); and the four uses are disjoint.

`UnmapsAreExact` compares the contents of whole address spaces. The way to an
address is the sequence of tables that its indices choose (`Follows`). Level by
level, `CollectMappings` finds what the addresses of its range have in use and nothing
else: a part of the range is below one entry exactly if its addresses have that
index (`EntryRange`), and the parts below the entries of a table make up the part
below the table (`CollectAtFinds`, `LeafMappingsFinds`). An entry that is cleared
is the end of the way to its address, and of no other: every table has one parent,
so ways of two spaces do not meet (`OneSpace`), and in a space that is not shared
ways that meet come from one address (`UnsharedApart`, `OneAddress`). Nor is the page
that is freed seen anywhere else, since it names its entry as its owner. What is
left is that clearing entries of the last level leaves all ways (`WaysStay`).

`CopiesAreAllOrNothing` is about a loop that takes pages, adds tables and mappings,
and may take the mappings back. What an address shows is its `View`: the entry at
the end of its one way (`OnlyWay`) and the page mapped there. Each primitive is shown
to keep every view (`Steady`), or all but that of one address (`Alike`): a page that
is neither a table nor mapped may be taken, written or given back, as no view has it
(`QuietPage`, `KallocShows`, `WriteShows`, `KfreeShows`); a table linked under an
unused entry makes some ways longer and their ends stay unused (`LinkWay`,
`LinkSteady`), so a walk that adds tables shows nothing, whether it comes to its end
or not (`WalkTraced`); an entry of the last level in a space whose ways are apart
shows at one address only (`EntryAlike`). Hence `xv6_mappage` shows its page at its
address or changes no view (`MappageShows`), and the undo leaves nothing at the
addresses it is given (`UnmapsShow`). The copy of the first `i` mappings then shows in
the new space what the old one shows at their addresses, which had nothing there
before (`CopyShows`); so a failure that takes them back restores every view
(`CopyFails`), while tables that were added stay, empty. The mappings collected are
what the old space shows below the size (`CopyFinds`).

Some theorems state what no run checks any more, because the properties that are
checked would break with them or they are lemmas of these: `TypeOK` everywhere,
`CopiesAgree`, `TransmitterOK` and `CompletionInterrupts`, `SstcOwnsStip` and
`OnlyReturnsLowerPrivilege`, `ReadyQueueIsSound`, `LineFollowsStatus` and
`StatusOnlyGrows`, `LockedVerdictsAreFrozen`.

Every invariant and every action property of a passing run, and every refinement,
has a theorem. Only model-checked: the liveness of the machine (`TransmitterDrains`,
`CauseReachesHandler`), since TLAPS reasons about neither fairness nor ENABLED. The
two findings are of course not theorems.

## 6. Not modelled

Left out for good: the arithmetic and the decoding of instructions, which are
functions of one instruction that tests cover better; command line, files and
checksums, which are I/O; configuration constants and the empty CLINT; scripts,
examples and tests. Of modelled components: the bytes of the UART, its registers
that only store; CSRs that only hold a value; virtio's configuration space; the
fast paths `wakeup`, `mycpu` and `myproc`, which read or write single words of
the kernel, and the check of the kernel's symbols before any fast path is used;
device memory in LR/SC; the dumps of debug levels.

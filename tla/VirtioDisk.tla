------------------------------ MODULE VirtioDisk ------------------------------
(***************************************************************************)
(* What the virtio block device does with one request (src/virtio.rs): the *)
(* descriptor chain, the layout of the message in it, the transfer between *)
(* guest memory and the medium, and the completion, behind the transport.  *)
(*                                                                         *)
(* Guest memory and the medium are cells. A header is two cells, type and  *)
(* sector. Message boundaries do not depend on descriptor boundaries, so a *)
(* chain is the sequence of its cells, each of which knows its descriptor. *)
(* The descriptor table and the rings lie in memory of their own; the parts *)
(* of the used ring a completion writes may lie outside memory. The handler *)
(* is a sequence of steps on memory and medium, each of which may fail and  *)
(* leaves what the earlier ones did. Address arithmetic that overflows 64   *)
(* bits is left out, but for the offset of a sector.                        *)
(***************************************************************************)
EXTENDS VirtioTransport, Sequences

CONSTANTS
  Tables,           \* the descriptor tables the driver writes
  Headers,          \* the headers it writes
  GuestSize,        \* cells of guest memory
  MediaSize,        \* capacity_sectors, in cells
  SectorSize,       \* BLOCK_SECTOR_SIZE
  ChunkSize,        \* TRANSFER_CHUNK_SIZE
  MaxSector,        \* the largest sector whose offset does not overflow
  MaxLength         \* u32::MAX, the largest length in the used ring

\* A descriptor says where its cells are and which one comes next.
Descriptors ==
  [addr : Nat, len : Nat, next : Nat,
   flags : SUBSET {"NEXT", "WRITE", "INDIRECT"}]

ASSUME DiskAssumption ==
  /\ {GuestSize, MediaSize, SectorSize, ChunkSize, MaxLength} \subseteq Nat \ {0}
  /\ MediaSize % SectorSize = 0
  /\ MaxSector \in Nat
  /\ Tables \subseteq [0 .. MaxQueueSize - 1 -> Descriptors]
  /\ Headers \subseteq [type : Nat, sector : Nat]

VARIABLES
  table,            \* index -> descriptor, or <<>> when there is no request
  guest,            \* guest memory
  media,            \* the medium
  reply             \* how the last request ended

diskVars == <<table, guest, media, reply>>
allVars == <<transportVars, diskVars>>

GuestCells == 0 .. GuestSize - 1
MediaCells == 0 .. MediaSize - 1
In == 0        \* VIRTIO_BLK_T_IN
Out == 1       \* VIRTIO_BLK_T_OUT
Ok == 0        \* VIRTIO_BLK_S_OK
IoErr == 1     \* VIRTIO_BLK_S_IOERR
Unsupp == 2    \* VIRTIO_BLK_S_UNSUPP
NoStatus == 255
UsedRing == {"element", "index"}
NoReply == [outcome |-> "none", code |-> 255, length |-> 0, wrote |-> {}]

-----------------------------------------------------------------------------
(* The chain and its message.                                              *)

\* The index of the i-th descriptor of the chain that starts at head; num
\* stands for every index past the queue.
ChainIndex(head) ==
  LET at[i \in 1 .. num] ==
        IF i = 1 THEN head
        ELSE IF at[i - 1] < num THEN table[at[i - 1]].next ELSE num
  IN  at

\* descriptor_chain: an unsupported flag, an index past the queue, or a loop,
\* which never comes to an end, is an error. It has length n otherwise.
IsChain(head, n) ==
  LET at == ChainIndex(head)
  IN  /\ \A i \in 1 .. n : at[i] < num /\ "INDIRECT" \notin table[at[i]].flags
      /\ \A i \in 1 .. n - 1 : "NEXT" \in table[at[i]].flags
      /\ "NEXT" \notin table[at[n]].flags

\* The cells of the chain, in order; empty descriptors disappear.
Message(head, n) ==
  LET Cells(i) ==
        LET d == table[ChainIndex(head)[i]]
        IN  [j \in 1 .. d.len |-> [addr |-> d.addr + j - 1, of |-> i,
                                   writable |-> "WRITE" \in d.flags]]
      first[i \in 0 .. n] == IF i = 0 THEN <<>> ELSE first[i - 1] \o Cells(i)
  IN  first[n]

DataCells(message) == SubSeq(message, 3, Len(message) - 1)
StatusCell(message) == message[Len(message)]

\* The layout process_request asks for: a whole readable header, nothing
\* readable after something writable, and at the end a writable cell for the
\* status.
WellFormed(message) ==
  /\ Len(message) > 2
  /\ \A i \in 1 .. 2 : ~message[i].writable /\ message[i].addr \in GuestCells
  /\ \A i \in 1 .. Len(message) - 1 :
       message[i].writable => message[i + 1].writable
  /\ message[Len(message)].writable

-----------------------------------------------------------------------------
(* The transfer.                                                           *)

\* validate_transfer.
ValidTransfer(data, offset, deviceWrites) ==
  /\ \A i \in DOMAIN data : /\ data[i].writable = deviceWrites
                            /\ data[i].addr \in GuestCells
  /\ offset + Len(data) <= MediaSize
  /\ Len(data) % SectorSize = 0
  /\ deviceWrites => Len(data) < MaxLength

\* How many cells may have been moved when the backend fails, or at the end:
\* whole chunks, which do not reach from one descriptor into the next.
Moves(data) ==
  LET Before(n) == Cardinality({m \in 1 .. n : data[m].of = data[n].of})
  IN  {n \in 0 .. Len(data) :
         \/ n \in {0, Len(data)}
         \/ data[n].of # data[n + 1].of
         \/ Before(n) % ChunkSize = 0}

\* Mutant: the offset in the medium starts again at every descriptor.
BugOffsetRestarts(data, offset, n) ==
  [a \in GuestCells |->
     LET at == {i \in 1 .. n : data[i].addr = a}
         last == CHOOSE i \in at : \A j \in at : j <= i
     IN  IF at = {} THEN guest[a]
         ELSE media[offset + Cardinality({m \in 1 .. last - 1 :
                                            data[m].of = data[last].of})]]

\* Guest memory after the first n cells were read from the medium; a cell that
\* occurs twice keeps what came last.
ReadInto(data, offset, n) ==
  [a \in GuestCells |->
     LET at == {i \in 1 .. n : data[i].addr = a}
     IN  IF at = {} THEN guest[a]
         ELSE media[offset + (CHOOSE i \in at : \A j \in at : j <= i) - 1]]

\* The medium after the first n cells were written.
WrittenTo(data, offset, n) ==
  [b \in MediaCells |-> IF b - offset \in 0 .. n - 1
                        THEN guest[data[b - offset + 1].addr] ELSE media[b]]

\* Mutant: the status counts, also behind data that was not written.
BugCountsStatus(data, filled) == filled + 1

\* used.len: the data the device has written, and the status if no gap lies
\* between them.
WrittenLength(data, filled) ==
  filled + (IF filled = Cardinality({i \in DOMAIN data : data[i].writable})
            THEN 1 ELSE 0)

-----------------------------------------------------------------------------
(* The handler. A request on its way through it is a record: whether no step *)
(* has failed so far, memory and medium, the status, and how many cells of   *)
(* data the device has written. After a failure (`?`) no step does anything. *)

Begun == [ok |-> TRUE, guest |-> guest, media |-> media,
          code |-> NoStatus, filled |-> 0]
Check(r, condition) == [r EXCEPT !.ok = r.ok /\ condition]

\* Mutant: the index of the used ring is not validated.
BugLeavesIndexUnchecked(r, message, usable) ==
  LET byte    == Check(r, StatusCell(message).addr \in GuestCells)
      element == Check(byte, "element" \in usable)
  IN  Check(element, guest[message[2].addr] <= MaxSector)

\* The places of the completion are validated, then the offset is computed.
Validated(r, message, usable) ==
  LET byte    == Check(r, StatusCell(message).addr \in GuestCells)
      element == Check(byte, "element" \in usable)
      index   == Check(element, "index" \in usable)
  IN  Check(index, guest[message[2].addr] <= MaxSector)

\* transfer, where the backend fails after n cells, or not at all.
Moved(r, data, offset, type, n) ==
  LET code == IF n = Len(data) THEN Ok ELSE IoErr
  IN  IF type = In
      THEN [r EXCEPT !.code = code, !.filled = n, !.guest = ReadInto(data, offset, n)]
      ELSE [r EXCEPT !.code = code, !.media = WrittenTo(data, offset, n)]

\* The type and the sector are those of the header, read before any transfer.
Transferring(r, message) ==
  LET data   == DataCells(message)
      type   == guest[message[1].addr]
      offset == guest[message[2].addr] * SectorSize
  IN  IF ~r.ok THEN {r}
      ELSE IF type \notin {In, Out} THEN {[r EXCEPT !.code = Unsupp]}
      ELSE IF ~ValidTransfer(data, offset, type = In) THEN {[r EXCEPT !.code = IoErr]}
      ELSE {Moved(r, data, offset, type, n) : n \in Moves(data)}

\* complete_request: the status is written where the message ends, then the
\* element and the index of the used ring.
Published(r, message, usable) ==
  LET at      == StatusCell(message).addr
      byte    == Check(r, at \in GuestCells)
      written == IF byte.ok THEN [byte EXCEPT !.guest[at] = r.code] ELSE byte
      element == Check(written, "element" \in usable)
  IN  Check(element, "index" \in usable)

\* process_request and complete_request of the request at head.
Processed(head, usable) ==
  LET chains  == {n \in 1 .. num : IsChain(head, n)}
      message == Message(head, CHOOSE n \in chains : TRUE)
  IN  IF chains = {} \/ ~WellFormed(message) THEN {Check(Begun, FALSE)}
      ELSE {Published(r, message, usable) :
              r \in Transferring(Validated(Begun, message, usable), message)}

\* What the used ring says; wrote, history, are the positions the device has
\* written, counted in writable cells: the data so far, and the status.
Answer(message, code, filled) ==
  LET data == DataCells(message)
      last == Cardinality({i \in DOMAIN data : data[i].writable}) + 1
  IN  [outcome |-> "completed", code |-> code, length |-> WrittenLength(data, filled),
       wrote |-> 1 .. filled \cup {last}]

\* The message of the request that is being answered.
Request == Message(0, CHOOSE n \in 1 .. num : IsChain(0, n))

\* A notification with one request available: the device completes it and
\* raises its interrupt, or fails.
Notify(usable, suppressed) ==
  /\ table # <<>> /\ reply = NoReply
  /\ ~IgnoresNotification
  /\ UNCHANGED table
  /\ \E r \in Processed(0, usable) :
       /\ guest' = r.guest /\ media' = r.media
       /\ IF r.ok
          THEN reply' = Answer(Request, r.code, r.filled) /\ UsedBuffers(suppressed)
          ELSE reply' = [NoReply EXCEPT !.outcome = "failed"] /\ FailDevice

-----------------------------------------------------------------------------
(* The driver, the host, and the transport. A bound: requests are made in  *)
(* one state of the transport, with a medium that no earlier one has       *)
(* changed, and the transport moves while there is none.                   *)

FreshGuest == [a \in GuestCells |-> 100 + a]
FreshMedia == [b \in MediaCells |-> 200 + b]

DriverIdle ==
  /\ status = DriverStatus \ {"FAILED"}
  /\ ready /\ num = MaxQueueSize /\ queueSel = 0
  /\ driverFeatures = DeviceFeatures /\ featuresSel = 0
  /\ interruptStatus = {}

MakeRequest(descriptors, header) ==
  /\ DriverIdle /\ table = <<>> /\ media = FreshMedia
  /\ table' = descriptors
  /\ guest' = [FreshGuest EXCEPT ![0] = header.type, ![1] = header.sector]
  /\ UNCHANGED <<transportVars, media, reply>>

TakeReply ==
  /\ reply # NoReply
  /\ table' = <<>> /\ guest' = FreshGuest /\ reply' = NoReply
  /\ UNCHANGED <<transportVars, media>>

\* MemoryBlockBackend::replace.
ReplaceMedia ==
  /\ table = <<>> /\ media # FreshMedia
  /\ media' = FreshMedia
  /\ UNCHANGED <<transportVars, table, guest, reply>>

InitDisk ==
  /\ InitTransport
  /\ table = <<>> /\ guest = FreshGuest /\ media = FreshMedia
  /\ reply = NoReply

NextDisk ==
  \/ /\ table = <<>> /\ media = FreshMedia
     /\ NextTransport
     /\ UNCHANGED diskVars
  \/ table = <<>> /\ InterruptAck(interruptStatus) /\ UNCHANGED diskVars
  \/ \E descriptors \in Tables, header \in Headers : MakeRequest(descriptors, header)
  \/ \E usable \in SUBSET UsedRing, suppressed \in BOOLEAN : Notify(usable, suppressed)
  \/ TakeReply
  \/ ReplaceMedia

SpecDisk == InitDisk /\ [][NextDisk]_allVars

-----------------------------------------------------------------------------
(* Properties.                                                             *)

\* A request on which the device fails has changed nothing, although each step
\* of the handler leaves what the earlier ones did: whatever can fail after the
\* transfer has been found possible before it.
FailureTransfersNothing ==
  [][reply'.outcome = "failed" => UNCHANGED <<guest, media>>]_allVars

\* The length in the used ring fits its 32 bits and never covers memory the
\* device has not written: the driver may read that many bytes of its buffers,
\* in order, also when the medium failed in the middle.
UsedLengthIsInitialised ==
  reply.length <= MaxLength /\ 1 .. reply.length \subseteq reply.wrote

\* A request never changes what it only reads.
OnlyWritable(message) ==
  \A a \in GuestCells :
    guest'[a] # guest[a] =>
      \E i \in DOMAIN message : message[i].addr = a /\ message[i].writable

\* Every buffer cell that occurs once holds its cell of the medium, or the
\* medium holds the buffers.
Transferred(message) ==
  LET data   == DataCells(message)
      offset == guest[message[2].addr] * SectorSize
  IN  \A i \in DOMAIN data :
        IF guest[message[1].addr] = Out
        THEN media'[offset + i - 1] = guest[data[i].addr]
        ELSE \/ guest'[data[i].addr] = media[offset + i - 1]
             \/ \E j \in 3 .. Len(message) :
                  j # i + 2 /\ message[j].addr = data[i].addr

\* The status says what happened: a request answered with success was
\* transferred, and no answer, whatever it is, comes with a change the request
\* did not allow.
StatusIsTruthful ==
  [][reply = NoReply /\ reply'.outcome = "completed" =>
     /\ OnlyWritable(Request)
     /\ guest[Request[1].addr] # Out => media' = media
     /\ reply'.code = Ok => Transferred(Request)]_allVars
=============================================================================

---------------------------- MODULE VirtioQueue -----------------------------
(***************************************************************************)
(* The split virtqueue of the virtio block device (src/virtio.rs): how a   *)
(* notification works through the available ring, publishes completions in *)
(* the used ring and signals them, with the driver that shares the rings.  *)
(*                                                                         *)
(* The ring indices are counters modulo IndexMod (2^16 in the code), and a *)
(* ring slot is an index modulo the queue size. A request is named by the  *)
(* head of its descriptor chain. Its contents matter in one respect: a     *)
(* valid one is completed (with success or an error status), an invalid    *)
(* one (malformed chain, or nowhere to complete it) fails the device.      *)
(* Ring memory that cannot be read or written is left out.                 *)
(***************************************************************************)
EXTENDS VirtioTransport, Sequences

CONSTANT IndexMod   \* the indices are counters modulo this number, 2^16

ASSUME IndexAssumption ==
  /\ IndexMod \in Nat \ {0}
  /\ MaxQueueSize < IndexMod
  /\ \A size \in QueueSizes : IndexMod % size = 0

VARIABLES
  lastAvailable,    \* queue.last_available_idx
  nextUsed,         \* queue.next_used_idx
  availIdx,         \* guest memory: the driver's ring index,
  availRing,        \*   its ring: slot -> head,
  noInterrupt,      \*   and its flag VIRTQ_AVAIL_F_NO_INTERRUPT
  usedIdx,          \* guest memory: the device's ring index
  usedRing,         \*   and its ring: slot -> head
  request,          \* driver: head -> "free", "valid" or "invalid"
  seen,             \* driver: the used index up to which it collected
  handling          \* driver: whether it is looking at the used ring

indices == <<lastAvailable, nextUsed>>
available == <<availIdx, availRing, noInterrupt>>
used == <<usedIdx, usedRing>>
driver == <<request, seen, handling>>
vars == <<transportVars, indices, available, used, driver>>

Heads == 0 .. MaxQueueSize - 1

Slot(index) == index % num

\* wrapping_add.
Plus(index, n) == (index + n) % IndexMod

\* Mutant: the distance is computed in a wider type.
BugAheadWide(index, of) ==
  IF index >= of THEN index - of ELSE IndexMod * IndexMod + index - of

\* wrapping_sub: how far one index is ahead of another.
Ahead(index, of) == (index - of) % IndexMod

-----------------------------------------------------------------------------
(* A notification.                                                         *)

\* The heads the driver made available and the device has not processed.
Batch ==
  [i \in 1 .. Ahead(availIdx, lastAvailable) |->
     availRing[Slot(Plus(lastAvailable, i - 1))]]

\* How many requests the loop of process_available completes: those before
\* the first invalid one.
Completed(batch) ==
  Cardinality({n \in 1 .. Len(batch) :
                 \A i \in 1 .. n : request[batch[i]] = "valid"})

\* Mutant: the device's own index moves only after a whole batch.
BugCountsWholeBatches(heads, n) ==
  /\ usedRing' =
       [slot \in Heads |->
          IF \E i \in 1 .. n : slot = Slot(Plus(nextUsed, i - 1))
          THEN heads[CHOOSE i \in 1 .. n : slot = Slot(Plus(nextUsed, i - 1))]
          ELSE usedRing[slot]]
  /\ nextUsed' = Plus(nextUsed, n)
  /\ usedIdx' = IF n = 0 THEN usedIdx ELSE nextUsed'
  /\ lastAvailable' =
       IF n = Len(heads) THEN Plus(lastAvailable, n) ELSE lastAvailable

\* complete_request for the first n of the heads: used elements, then the
\* used index; the device's indices move with every request.
CompleteRequests(heads, n) ==
  /\ usedRing' =
       [slot \in Heads |->
          IF \E i \in 1 .. n : slot = Slot(Plus(nextUsed, i - 1))
          THEN heads[CHOOSE i \in 1 .. n : slot = Slot(Plus(nextUsed, i - 1))]
          ELSE usedRing[slot]]
  /\ nextUsed' = Plus(nextUsed, n)
  /\ usedIdx' = IF n = 0 THEN usedIdx ELSE nextUsed'
  /\ lastAvailable' = Plus(lastAvailable, n)

\* notify_queue and process_available. A failing request leaves those before
\* it completed, and is tried again by the next notification.
NotifyQueue ==
  /\ ~IgnoresNotification
  /\ UNCHANGED <<available, driver>>
  /\ IF Ahead(availIdx, lastAvailable) > num
     THEN FailDevice /\ UNCHANGED <<indices, used>>
     ELSE LET n == Completed(Batch)
          IN  /\ CompleteRequests(Batch, n)
              /\ IF n < Len(Batch) THEN FailDevice
                 ELSE IF n > 0 THEN UsedBuffers(noInterrupt)
                 ELSE UNCHANGED transportVars

-----------------------------------------------------------------------------
(* The driver. It sets the device up, makes requests with free heads,      *)
(* notifies when it likes, and collects after it acknowledged interrupts.  *)

\* Set-up, in any order of the writes; the queue may also be stopped and
\* started again. The device would let a stopped queue change its size; this
\* driver writes it once between resets, before anything is in the rings.
SetUp ==
  /\ \/ \E size \in QueueSizes :
          lastAvailable = availIdx /\ num = 0 /\ WriteQueueNum(size)
     \/ \E value \in BOOLEAN : WriteQueueReady(value)
     \/ WriteStatus({"FEATURES_OK", "DRIVER_OK"})
     \/ WriteStatus({"FAILED"})
  /\ UNCHANGED <<indices, available, used, driver>>

\* A reset by the driver or of the platform; the driver starts afresh.
Reset ==
  /\ ResetTransport
  /\ lastAvailable' = 0 /\ nextUsed' = 0
  /\ availIdx' = 0 /\ availRing' = [slot \in Heads |-> 0]
  /\ usedIdx' = 0 /\ usedRing' = [slot \in Heads |-> 0]
  /\ noInterrupt' = FALSE
  /\ request' = [head \in Heads |-> "free"]
  /\ seen' = 0
  /\ handling' = FALSE

Submit(head, kind) ==
  /\ num # 0 /\ head < num
  /\ request[head] = "free"
  /\ request' = [request EXCEPT ![head] = kind]
  /\ availRing' = [availRing EXCEPT ![Slot(availIdx)] = head]
  /\ availIdx' = Plus(availIdx, 1)
  /\ UNCHANGED <<transportVars, indices, used, noInterrupt, seen, handling>>

\* Interrupts are suppressed by the flag; clearing it obliges the driver to
\* look at the used ring.
Suppress(value) ==
  /\ noInterrupt' = value
  /\ handling' = (handling \/ ~value)
  /\ UNCHANGED <<transportVars, indices, availIdx, availRing, used, request,
                 seen>>

\* The interrupt handler acknowledges first, then looks at the used ring.
Acknowledge ==
  /\ lineHigh
  /\ InterruptAck(interruptStatus)
  /\ handling' = TRUE
  /\ UNCHANGED <<indices, available, used, request, seen>>

Collect ==
  /\ handling /\ seen # usedIdx
  /\ seen' = Plus(seen, 1)
  /\ request' = [request EXCEPT ![usedRing[Slot(seen)]] = "free"]
  /\ UNCHANGED <<transportVars, indices, available, used, handling>>

Finish ==
  /\ handling /\ seen = usedIdx
  /\ handling' = FALSE
  /\ UNCHANGED <<transportVars, indices, available, used, request, seen>>

Init ==
  /\ InitTransport
  /\ lastAvailable = 0 /\ nextUsed = 0
  /\ availIdx = 0 /\ availRing = [slot \in Heads |-> 0]
  /\ usedIdx = 0 /\ usedRing = [slot \in Heads |-> 0]
  /\ noInterrupt = FALSE
  /\ request = [head \in Heads |-> "free"]
  /\ seen = 0
  /\ handling = FALSE

Next ==
  \/ SetUp
  \/ Reset
  \/ \E head \in Heads, kind \in {"valid", "invalid"} : Submit(head, kind)
  \/ \E value \in BOOLEAN : Suppress(value)
  \/ NotifyQueue
  \/ Acknowledge
  \/ Collect
  \/ Finish

Spec == Init /\ [][Next]_vars

-----------------------------------------------------------------------------
(* Properties.                                                             *)

\* Every variable has its type; the used index in memory is the device's.
TypeOK ==
  /\ TransportTypeOK
  /\ \A index \in {lastAvailable, nextUsed, availIdx, seen} :
       index \in 0 .. IndexMod - 1
  /\ usedIdx = nextUsed
  /\ availRing \in [Heads -> Heads] /\ usedRing \in [Heads -> Heads]
  /\ request \in [Heads -> {"free", "valid", "invalid"}]
  /\ noInterrupt \in BOOLEAN /\ handling \in BOOLEAN

\* The rings as queues of heads.
Waiting == IF num = 0 THEN <<>> ELSE Batch

Finished ==
  IF num = 0 THEN <<>>
  ELSE [i \in 1 .. Ahead(usedIdx, seen) |-> usedRing[Slot(Plus(seen, i - 1))]]

Fifo ==
  INSTANCE RequestFifo
    WITH Requests <- Heads, waiting <- Waiting, finished <- Finished

\* The two rings are one queue: across wraps of the 16-bit indices, batches
\* that fail half way, repeated notifications, stops and restarts, every
\* request is completed once and in order, and no completion is overwritten
\* before the driver has collected it.
ImplementsFifo == Fifo!Spec

\* No completion is left in the used ring unannounced: unless the driver is
\* already looking or asked not to be interrupted, the line is high; also
\* when a later request of the batch failed the device.
CompletionIsSignalled ==
  Finished # <<>> /\ ~handling /\ ~noInterrupt => lineHigh

\* The device fails only for a request that deserves it: the oldest one it
\* has not completed is invalid. In particular the check of the available
\* index never mistakes a wrapped or stopped queue for an overrun.
FailsOnlyOnInvalid ==
  "DEVICE_NEEDS_RESET" \in status =>
    Waiting # <<>> /\ request[Waiting[1]] = "invalid"
=============================================================================

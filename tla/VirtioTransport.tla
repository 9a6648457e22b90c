--------------------------- MODULE VirtioTransport --------------------------
(***************************************************************************)
(* The MMIO transport of the virtio block device (src/virtio.rs): feature  *)
(* negotiation, device status, queue configuration and interrupt status.   *)
(* What processing the queue does to these registers is nondeterministic   *)
(* here, because guest memory may hold anything; module VirtioQueue says   *)
(* what it is for the rings of a driver.                                   *)
(*                                                                         *)
(* Registers are sets of the bits that are 1. Of the three ring addresses  *)
(* only the alignment matters. DeviceFeaturesSel, the identification       *)
(* registers and the capacity only select or hold what is read, and have   *)
(* no variable. Accesses that are not aligned words in the window fail     *)
(* before any effect, as do rejected values, and have no action.           *)
(***************************************************************************)
EXTENDS Integers, FiniteSets

CONSTANTS
  PlainStatus,      \* status bits without effect: ACKNOWLEDGE, DRIVER
  Features,         \* the feature bits told apart
  HighFeatures,     \* those in the word that selector 1 selects
  DeviceFeatures,   \* device_features: what the device offers
  MaxQueueSize      \* config.queue_size

DriverStatus == PlainStatus \cup {"DRIVER_OK", "FEATURES_OK", "FAILED"}
Areas == {"descriptor", "driver", "device"}
Causes == {"UsedBuffer", "ConfigurationChange"}

\* The queue sizes REG_QUEUE_NUM accepts.
QueueSizes == {2 ^ k : k \in 0 .. 15} \cap 1 .. MaxQueueSize

ASSUME TransportAssumption ==
  /\ PlainStatus \subseteq {"ACKNOWLEDGE", "DRIVER"}
  /\ HighFeatures \subseteq Features
  /\ DeviceFeatures \subseteq Features
  /\ MaxQueueSize \in Nat
  /\ MaxQueueSize \in QueueSizes

VARIABLES
  status,           \* status
  driverFeatures,   \* driver_features
  featuresSel,      \* driver_features_sel: 0, 1 or 2 for all others
  queueSel,         \* queue_sel: 0 or 1 for all others
  num,              \* queue.num
  ready,            \* queue.ready
  misaligned,       \* the areas whose address is not aligned
  interruptStatus,  \* interrupt_status
  lineHigh          \* the level of interrupt_line

negotiation == <<status, driverFeatures, featuresSel>>
queueSetup == <<queueSel, num, ready, misaligned>>
interrupts == <<interruptStatus, lineHigh>>
transportVars == <<negotiation, queueSetup, interrupts>>

-----------------------------------------------------------------------------
(* Negotiation.                                                            *)

WriteFeaturesSel(word) ==
  /\ featuresSel' = word
  /\ UNCHANGED <<status, driverFeatures, queueSetup, interrupts>>

Word(word) ==
  CASE word = 0 -> Features \ HighFeatures
    [] word = 1 -> HighFeatures
    [] OTHER    -> {}

\* Mutant: features can still be written after FEATURES_OK.
BugFeaturesNotFrozen(bits) ==
  /\ driverFeatures' = (driverFeatures \ Word(featuresSel))
                         \cup (bits \cap Word(featuresSel))
  /\ UNCHANGED <<status, featuresSel, queueSetup, interrupts>>

\* update_driver_features: the selected word, unless negotiation is over.
UpdateDriverFeatures(bits) ==
  /\ driverFeatures' =
       IF "FEATURES_OK" \in status THEN driverFeatures
       ELSE (driverFeatures \ Word(featuresSel))
              \cup (bits \cap Word(featuresSel))
  /\ UNCHANGED <<status, featuresSel, queueSetup, interrupts>>

\* reset_transport.
ResetTransport ==
  /\ status' = {}
  /\ driverFeatures' = {}
  /\ featuresSel' = 0
  /\ queueSel' = 0
  /\ num' = 0
  /\ ready' = FALSE
  /\ misaligned' = {}
  /\ interruptStatus' = {}
  /\ lineHigh' = FALSE

\* Bits a non-zero write of the status register drops from the union of the
\* old and the requested bits.
Refused(requested) ==
  LET unsupported == /\ "FEATURES_OK" \in requested
                     /\ ~(driverFeatures \subseteq DeviceFeatures)
      accepted == "FEATURES_OK" \in status \cup requested /\ ~unsupported
  IN  (IF unsupported THEN {"FEATURES_OK"} ELSE {})
        \cup (IF "DRIVER_OK" \in requested /\ ~accepted
              THEN {"DRIVER_OK"} ELSE {})

\* write_status with a value that is not 0; requested are its driver bits.
WriteStatus(requested) ==
  /\ status' = (status \cup requested) \ Refused(requested)
  /\ UNCHANGED <<driverFeatures, featuresSel, queueSetup, interrupts>>

-----------------------------------------------------------------------------
(* Queue configuration.                                                    *)

WriteQueueSel(queue) ==
  /\ queueSel' = queue
  /\ UNCHANGED <<negotiation, num, ready, misaligned, interrupts>>

\* queue_configuration_writable.
QueueConfigurationWritable == queueSel = 0 /\ ~ready

\* REG_QUEUE_NUM rejects sizes that are not a power of two up to the maximum.
WriteQueueNum(size) ==
  /\ QueueConfigurationWritable
  /\ size \in QueueSizes
  /\ num' = size
  /\ UNCHANGED <<negotiation, queueSel, ready, misaligned, interrupts>>

\* The low half of an area's address, aligned or not.
WriteQueueArea(area, aligned) ==
  /\ QueueConfigurationWritable
  /\ misaligned' = IF aligned THEN misaligned \ {area}
                   ELSE misaligned \cup {area}
  /\ UNCHANGED <<negotiation, queueSel, num, ready, interrupts>>

\* REG_QUEUE_READY: 1 is rejected for a queue that is not set up.
WriteQueueReady(value) ==
  /\ queueSel = 0
  /\ value => num # 0 /\ misaligned = {}
  /\ ready' = value
  /\ UNCHANGED <<negotiation, queueSel, num, misaligned, interrupts>>

-----------------------------------------------------------------------------
(* Interrupts and the effects of a notification.                           *)

\* update_interrupt_line, run on the state an access leaves.
UpdateInterruptLine == lineHigh' = (interruptStatus' # {})

InterruptAck(causes) ==
  /\ interruptStatus' = interruptStatus \ causes
  /\ UpdateInterruptLine
  /\ UNCHANGED <<negotiation, queueSetup>>

\* The conditions under which notify_queue returns at once.
IgnoresNotification ==
  \/ "DRIVER_OK" \notin status
  \/ "FAILED" \in status
  \/ ~ready

\* Mutant: a failure only shows in the status registers.
BugFailsSilently ==
  /\ status' = status \cup {"DEVICE_NEEDS_RESET"}
  /\ interruptStatus' = interruptStatus \cup {"ConfigurationChange"}
  /\ UNCHANGED <<lineHigh, driverFeatures, featuresSel, queueSetup>>

\* fail_device.
FailDevice ==
  /\ status' = status \cup {"DEVICE_NEEDS_RESET"}
  /\ interruptStatus' = interruptStatus \cup {"ConfigurationChange"}
  /\ UpdateInterruptLine
  /\ UNCHANGED <<driverFeatures, featuresSel, queueSetup>>

\* The interrupt after requests were completed, unless suppressed.
UsedBuffers(suppressed) ==
  /\ interruptStatus' =
       interruptStatus \cup (IF suppressed THEN {} ELSE {"UsedBuffer"})
  /\ UpdateInterruptLine
  /\ UNCHANGED <<negotiation, queueSetup>>

-----------------------------------------------------------------------------
InitTransport ==
  /\ status = {}
  /\ driverFeatures = {}
  /\ featuresSel = 0
  /\ queueSel = 0
  /\ num = 0
  /\ ready = FALSE
  /\ misaligned = {}
  /\ interruptStatus = {}
  /\ lineHigh = FALSE

\* A write of one register, REG_QUEUE_NOTIFY excepted.
WriteRegister ==
  \/ \E word \in 0 .. 2 : WriteFeaturesSel(word)
  \/ \E bits \in SUBSET Features : UpdateDriverFeatures(bits)
  \/ \E requested \in SUBSET DriverStatus : WriteStatus(requested)
  \/ ResetTransport
  \/ \E queue \in 0 .. 1 : WriteQueueSel(queue)
  \/ \E size \in 0 .. MaxQueueSize + 1 : WriteQueueNum(size)
  \/ \E area \in Areas, aligned \in BOOLEAN : WriteQueueArea(area, aligned)
  \/ \E value \in BOOLEAN : WriteQueueReady(value)
  \/ \E causes \in SUBSET Causes : InterruptAck(causes)

\* A notification, whatever the rings hold; ignored ones change nothing.
NotifyAnything ==
  /\ ~IgnoresNotification
  /\ FailDevice \/ \E suppressed \in BOOLEAN : UsedBuffers(suppressed)

NextTransport == WriteRegister \/ NotifyAnything

SpecTransport == InitTransport /\ [][NextTransport]_transportVars

-----------------------------------------------------------------------------
(* Properties.                                                             *)

\* Every register has its type.
TransportTypeOK ==
  /\ status \subseteq DriverStatus \cup {"DEVICE_NEEDS_RESET"}
  /\ driverFeatures \subseteq Features
  /\ featuresSel \in 0 .. 2 /\ queueSel \in 0 .. 1
  /\ num \in {0} \cup QueueSizes
  /\ ready \in BOOLEAN /\ misaligned \subseteq Areas
  /\ interruptStatus \subseteq Causes /\ lineHigh \in BOOLEAN

\* A driver is never live with features the device does not offer: whatever
\* the order of feature and status writes, FEATURES_OK vouches for the
\* features as they are now, and DRIVER_OK implies FEATURES_OK.
NegotiatedFeatures ==
  /\ "FEATURES_OK" \in status => driverFeatures \subseteq DeviceFeatures
  /\ "DRIVER_OK" \in status => "FEATURES_OK" \in status

\* The device never works on a queue whose size is 0 (it divides by it) or
\* whose rings are misaligned, though size, areas and ready bit are written
\* one by one, in any order and again later.
ReadyQueueIsSound == ready => num \in QueueSizes /\ misaligned = {}

\* The level always agrees with the interrupt status register: no cause is
\* left without a level and no level without a cause to acknowledge.
LineFollowsStatus == lineHigh <=> interruptStatus # {}

\* Progress of the driver and a failure of the device are only undone by a
\* reset, although write_status removes bits in two places.
StatusOnlyGrows == [][status' = {} \/ status \subseteq status']_transportVars
=============================================================================

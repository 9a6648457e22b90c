---------------------------- MODULE VirtioProofs ----------------------------
(***************************************************************************)
(* Theorems about the virtio transport and the queue behind it, for every  *)
(* set of features, queue size and index width.                            *)
(***************************************************************************)
EXTENDS VirtioQueue, VirtioDisk, IntegerLemmas, SequenceTheorems, TLAPS

(***************************************************************************)
(* The inductive invariant of the transport: DRIVER_OK and FEATURES_OK are *)
(* tied to the features, the ready bit to the queue set-up, the level to   *)
(* the interrupt status. A change of one register is safe because the      *)
(* other it is tied to is frozen, which the type of the registers and the  *)
(* three facts together give.                                              *)
(***************************************************************************)
TransportInv ==
  /\ TransportTypeOK
  /\ NegotiatedFeatures
  /\ ReadyQueueIsSound
  /\ LineFollowsStatus

\* The initial registers satisfy the invariant (VirtioBlock::new).
LEMMA TransportInit == InitTransport => TransportInv
<1> SUFFICES ASSUME InitTransport PROVE TransportInv
  OBVIOUS
<1> USE DEF InitTransport
<1>1. TransportTypeOK
  <2>1. ready \in BOOLEAN /\ lineHigh \in BOOLEAN
    OBVIOUS
  <2>2. /\ status = {} /\ driverFeatures = {} /\ misaligned = {}
        /\ interruptStatus = {} /\ num = 0
        /\ featuresSel = 0 /\ queueSel = 0
    OBVIOUS
  <2> HIDE DEF InitTransport
  <2> QED BY <2>1, <2>2 DEF TransportTypeOK
<1>2. NegotiatedFeatures /\ ReadyQueueIsSound
  BY DEF NegotiatedFeatures, ReadyQueueIsSound
<1>3. LineFollowsStatus
  <2>1. ~lineHigh /\ ~(interruptStatus # {})
    OBVIOUS
  <2> QED BY <2>1, Zenon DEF LineFollowsStatus
<1> QED BY <1>1, <1>2, <1>3 DEF TransportInv

\* What write_status can store: it never sets FEATURES_OK over features that
\* are not offered, nor DRIVER_OK without FEATURES_OK.
LEMMA StatusStep ==
  ASSUME TransportInv, NEW requested \in SUBSET DriverStatus,
         WriteStatus(requested)
  PROVE  TransportInv' /\ (status' = {} \/ status \subseteq status')
<1>1. /\ status' = (status \cup requested) \ Refused(requested)
      /\ UNCHANGED <<driverFeatures, featuresSel, queueSel, num, ready,
                     misaligned, interruptStatus, lineHigh>>
  BY DEF WriteStatus, queueSetup, interrupts
<1>2. Refused(requested) \subseteq {"FEATURES_OK", "DRIVER_OK"}
  BY DEF Refused
<1>3. "FEATURES_OK" \in status => "FEATURES_OK" \notin Refused(requested)
  BY DEF Refused, TransportInv, NegotiatedFeatures
<1>4. "DRIVER_OK" \in status => "DRIVER_OK" \notin Refused(requested)
  BY DEF Refused, TransportInv, NegotiatedFeatures
<1>5. status \subseteq status'
  BY <1>1, <1>2, <1>3, <1>4
<1>6. "FEATURES_OK" \in status' => driverFeatures \subseteq DeviceFeatures
  BY <1>1 DEF Refused, TransportInv, NegotiatedFeatures
<1>7. "DRIVER_OK" \in status' => "FEATURES_OK" \in status'
  <2>1. CASE "DRIVER_OK" \in status
    BY <2>1, <1>5 DEF TransportInv, NegotiatedFeatures
  <2>2. CASE "DRIVER_OK" \notin status
    <3>1. ASSUME "DRIVER_OK" \in status' PROVE "FEATURES_OK" \in status'
      BY <3>1, <2>2, <1>1 DEF Refused
    <3> QED BY <3>1
  <2> QED BY <2>1, <2>2
<1>8. NegotiatedFeatures'
  BY <1>1, <1>6, <1>7 DEF NegotiatedFeatures
<1>9. TransportTypeOK'
  BY <1>1, <1>2 DEF TransportInv, TransportTypeOK
<1>10. (ReadyQueueIsSound /\ LineFollowsStatus)'
  BY <1>1 DEF TransportInv, ReadyQueueIsSound, LineFollowsStatus
<1> QED BY <1>5, <1>8, <1>9, <1>10 DEF TransportInv

\* Every step of the transport preserves the invariant and takes no status
\* bit back but by a reset.
LEMMA TransportStep ==
  TransportInv /\ [NextTransport]_transportVars =>
    TransportInv' /\ (status' = {} \/ status \subseteq status')
<1> SUFFICES ASSUME TransportInv, [NextTransport]_transportVars
             PROVE  TransportInv' /\ (status' = {} \/ status \subseteq status')
  OBVIOUS
<1> USE DEF TransportInv, TransportTypeOK, NegotiatedFeatures,
            ReadyQueueIsSound, LineFollowsStatus,
            negotiation, queueSetup, interrupts
<1>1. ASSUME NEW word \in 0 .. 2, WriteFeaturesSel(word)
      PROVE  TransportInv' /\ (status' = {} \/ status \subseteq status')
  BY <1>1 DEF WriteFeaturesSel
<1>2. ASSUME NEW bits \in SUBSET Features, UpdateDriverFeatures(bits)
      PROVE  TransportInv' /\ (status' = {} \/ status \subseteq status')
  <2>1. UNCHANGED <<status, featuresSel, queueSel, num, ready, misaligned,
                    interruptStatus, lineHigh>>
    BY <1>2 DEF UpdateDriverFeatures
  <2>2. "FEATURES_OK" \in status => driverFeatures' = driverFeatures
    BY <1>2 DEF UpdateDriverFeatures
  <2>3. driverFeatures' \subseteq Features
    BY <1>2 DEF UpdateDriverFeatures
  <2>4. NegotiatedFeatures'
    BY <2>1, <2>2
  <2>5. TransportTypeOK'
    BY <2>1, <2>3
  <2>6. (ReadyQueueIsSound /\ LineFollowsStatus)'
    BY <2>1
  <2> QED BY <2>1, <2>4, <2>5, <2>6
<1>3. ASSUME NEW requested \in SUBSET DriverStatus, WriteStatus(requested)
      PROVE  TransportInv' /\ (status' = {} \/ status \subseteq status')
  BY <1>3, StatusStep
<1>4. CASE ResetTransport
  <2> USE DEF ResetTransport
  <2>1. TransportTypeOK' /\ NegotiatedFeatures' /\ ReadyQueueIsSound'
    <3>1. ready' \in BOOLEAN /\ lineHigh' \in BOOLEAN /\ ~ready'
      BY <1>4
    <3>2. /\ status' = {} /\ driverFeatures' = {} /\ misaligned' = {}
          /\ interruptStatus' = {} /\ num' = 0
          /\ featuresSel' = 0 /\ queueSel' = 0
      BY <1>4
    <3> QED BY <3>1, <3>2 DEF TransportTypeOK
  <2>2. ~lineHigh' /\ ~(interruptStatus' # {})
    BY <1>4
  <2>3. LineFollowsStatus'
    BY <2>2, Zenon
  <2> QED BY <1>4, <2>1, <2>3
<1>5. ASSUME NEW queue \in 0 .. 1, WriteQueueSel(queue)
      PROVE  TransportInv' /\ (status' = {} \/ status \subseteq status')
  BY <1>5 DEF WriteQueueSel
<1>6. ASSUME NEW size \in 0 .. MaxQueueSize + 1, WriteQueueNum(size)
      PROVE  TransportInv' /\ (status' = {} \/ status \subseteq status')
  BY <1>6 DEF WriteQueueNum, QueueConfigurationWritable
<1>7. ASSUME NEW area \in Areas, NEW aligned \in BOOLEAN,
             WriteQueueArea(area, aligned)
      PROVE  TransportInv' /\ (status' = {} \/ status \subseteq status')
  BY <1>7 DEF WriteQueueArea, QueueConfigurationWritable
<1>8. ASSUME NEW value \in BOOLEAN, WriteQueueReady(value)
      PROVE  TransportInv' /\ (status' = {} \/ status \subseteq status')
  BY <1>8 DEF WriteQueueReady
<1>9. ASSUME NEW causes \in SUBSET Causes, InterruptAck(causes)
      PROVE  TransportInv' /\ (status' = {} \/ status \subseteq status')
  BY <1>9 DEF InterruptAck, UpdateInterruptLine
<1>10. CASE NotifyAnything
  <2>1. CASE FailDevice
    <3>1. "FEATURES_OK" \in status' <=> "FEATURES_OK" \in status
      BY <2>1 DEF FailDevice
    <3>2. "DRIVER_OK" \in status' <=> "DRIVER_OK" \in status
      BY <2>1 DEF FailDevice
    <3>3. TransportTypeOK'
      BY <2>1 DEF FailDevice, UpdateInterruptLine, Causes
    <3> QED BY <2>1, <3>1, <3>2, <3>3 DEF FailDevice, UpdateInterruptLine
  <2>2. ASSUME NEW suppressed \in BOOLEAN, UsedBuffers(suppressed)
        PROVE  TransportInv' /\ (status' = {} \/ status \subseteq status')
    BY <2>2 DEF UsedBuffers, UpdateInterruptLine, Causes
  <2> QED BY <1>10, <2>1, <2>2 DEF NotifyAnything
<1>11. CASE UNCHANGED transportVars
  BY <1>11 DEF transportVars
<1> QED
  BY <1>1, <1>2, <1>3, <1>4, <1>5, <1>6, <1>7, <1>8, <1>9, <1>10, <1>11
     DEF NextTransport, WriteRegister

\* The registers keep their types.
THEOREM TransportTypeCorrect == SpecTransport => []TransportTypeOK
<1>1. TransportInv => TransportTypeOK
  BY DEF TransportInv
<1> QED BY <1>1, TransportInit, TransportStep, PTL DEF SpecTransport

\* The device is never live with features it did not offer.
THEOREM FeaturesNegotiated == SpecTransport => []NegotiatedFeatures
<1>1. TransportInv => NegotiatedFeatures
  BY DEF TransportInv
<1> QED BY <1>1, TransportInit, TransportStep, PTL DEF SpecTransport

\* The device never works on a queue that is not soundly set up.
THEOREM ReadyQueuesAreSound == SpecTransport => []ReadyQueueIsSound
<1>1. TransportInv => ReadyQueueIsSound
  BY DEF TransportInv
<1> QED BY <1>1, TransportInit, TransportStep, PTL DEF SpecTransport

\* The interrupt level is the interrupt status.
THEOREM LineIsStatus == SpecTransport => []LineFollowsStatus
<1>1. TransportInv => LineFollowsStatus
  BY DEF TransportInv
<1> QED BY <1>1, TransportInit, TransportStep, PTL DEF SpecTransport

\* Only a reset takes a status bit back.
THEOREM StatusGrows == SpecTransport => StatusOnlyGrows
<1>1. TransportInv /\ [NextTransport]_transportVars
        => [status' = {} \/ status \subseteq status']_transportVars
  BY TransportStep
<1> QED BY <1>1, TransportInit, TransportStep, PTL
        DEF SpecTransport, StatusOnlyGrows

-----------------------------------------------------------------------------
(***************************************************************************)
(* The queue. Its steps are steps of the transport, so everything above    *)
(* holds of the device and its driver together. That completions are       *)
(* signalled is inductive once it is stated of the indices alone, without  *)
(* the queue size by which Finished reads the ring: otherwise the set-up   *)
(* of a size could bring completions to light.                             *)
(***************************************************************************)
IndexTypes ==
  /\ lastAvailable \in 0 .. IndexMod - 1
  /\ nextUsed \in 0 .. IndexMod - 1
  /\ availIdx \in 0 .. IndexMod - 1
  /\ usedIdx \in 0 .. IndexMod - 1
  /\ seen \in 0 .. IndexMod - 1

QueueInv == TransportInv /\ noInterrupt \in BOOLEAN /\ IndexTypes

Signalled == seen # usedIdx /\ ~handling /\ ~noInterrupt => lineHigh

\* Indices stay indices (wrapping_add and wrapping_sub).
LEMMA IndexArithmetic ==
  ASSUME NEW i \in Int, NEW n \in Int
  PROVE  Plus(i, n) \in 0 .. IndexMod - 1 /\ Ahead(i, n) \in 0 .. IndexMod - 1
<1>1. IndexMod \in Nat \ {0}
  BY IndexAssumption
<1> QED BY <1>1 DEF Plus, Ahead

\* The loop of process_available completes a number of requests.
LEMMA CompletedIsCount ==
  ASSUME IndexTypes
  PROVE  Completed(Batch) \in Nat
<1>1. Ahead(availIdx, lastAvailable) \in Nat
  BY IndexArithmetic DEF IndexTypes
<1>2. Len(Batch) \in Nat
  BY <1>1 DEF Batch
<1> DEFINE S == {n \in 1 .. Len(Batch) :
                   \A i \in 1 .. n : request[Batch[i]] = "valid"}
<1>3. IsFiniteSet(S)
  <2>1. IsFiniteSet(1 .. Len(Batch))
    BY <1>2, FS_Interval
  <2>2. S \subseteq 1 .. Len(Batch)
    OBVIOUS
  <2> QED BY <2>1, <2>2, FS_Subset
<1> QED BY <1>3, FS_CardinalityType DEF Completed

\* What a notification does to the transport.
LEMMA NotificationStep ==
  ASSUME QueueInv, NotifyQueue
  PROVE  NotifyAnything \/ UNCHANGED transportVars
<1>1. ~IgnoresNotification
  BY DEF NotifyQueue
<1>2. FailDevice \/ UsedBuffers(noInterrupt) \/ UNCHANGED transportVars
  BY DEF NotifyQueue
<1> QED BY <1>1, <1>2 DEF NotifyAnything, QueueInv

\* Every step of device and driver is a step of the transport or leaves it
\* alone.
LEMMA QueueStep ==
  ASSUME QueueInv, [Next]_vars
  PROVE  [NextTransport]_transportVars /\ noInterrupt' \in BOOLEAN
<1> USE DEF QueueInv
<1>1. CASE SetUp
  <2>1. ASSUME NEW size \in QueueSizes, WriteQueueNum(size)
        PROVE  NextTransport
    <3>1. size \in 0 .. MaxQueueSize + 1
      BY TransportAssumption DEF QueueSizes
    <3> QED BY <2>1, <3>1 DEF NextTransport, WriteRegister
  <2>2. ASSUME NEW value \in BOOLEAN, WriteQueueReady(value)
        PROVE  NextTransport
    BY <2>2 DEF NextTransport, WriteRegister
  <2>3. ASSUME WriteStatus({"FEATURES_OK", "DRIVER_OK"}) PROVE NextTransport
    <3>1. {"FEATURES_OK", "DRIVER_OK"} \in SUBSET DriverStatus
      BY DEF DriverStatus
    <3> QED BY <2>3, <3>1 DEF NextTransport, WriteRegister
  <2>4. ASSUME WriteStatus({"FAILED"}) PROVE NextTransport
    <3>1. {"FAILED"} \in SUBSET DriverStatus
      BY DEF DriverStatus
    <3> QED BY <2>4, <3>1 DEF NextTransport, WriteRegister
  <2> QED BY <1>1, <2>1, <2>2, <2>3, <2>4 DEF SetUp, available
<1>2. CASE Reset
  BY <1>2 DEF Reset, NextTransport, WriteRegister
<1>3. ASSUME NEW head \in Heads, NEW kind \in {"valid", "invalid"},
             Submit(head, kind)
      PROVE  UNCHANGED transportVars /\ noInterrupt' \in BOOLEAN
  BY <1>3 DEF Submit
<1>4. ASSUME NEW value \in BOOLEAN, Suppress(value)
      PROVE  UNCHANGED transportVars /\ noInterrupt' \in BOOLEAN
  BY <1>4 DEF Suppress
<1>5. CASE NotifyQueue
  BY <1>5, NotificationStep DEF NotifyQueue, available, NextTransport
<1>6. CASE Acknowledge
  <2>1. interruptStatus \in SUBSET Causes
    BY DEF TransportInv, TransportTypeOK
  <2>2. InterruptAck(interruptStatus) /\ UNCHANGED available
    BY <1>6 DEF Acknowledge
  <2> QED BY <2>1, <2>2 DEF NextTransport, WriteRegister, available
<1>7. CASE Collect \/ Finish
  BY <1>7 DEF Collect, Finish, available
<1>8. CASE UNCHANGED vars
  BY <1>8 DEF vars, available
<1> QED
  BY <1>1, <1>2, <1>3, <1>4, <1>5, <1>6, <1>7, <1>8 DEF Next

\* The indices keep their types.
LEMMA IndexStep ==
  ASSUME IndexTypes, [Next]_vars
  PROVE  IndexTypes'
<1> USE DEF IndexTypes
<1>1. CASE SetUp
  BY <1>1 DEF SetUp, indices, available, used, driver
<1>2. CASE Reset
  <2>1. 0 \in 0 .. IndexMod - 1
    BY IndexAssumption
  <2> QED BY <1>2, <2>1 DEF Reset
<1>3. ASSUME NEW head \in Heads, NEW kind \in {"valid", "invalid"},
             Submit(head, kind)
      PROVE  IndexTypes'
  BY <1>3, IndexArithmetic DEF Submit, indices, used
<1>4. ASSUME NEW value \in BOOLEAN, Suppress(value)
      PROVE  IndexTypes'
  BY <1>4 DEF Suppress, indices, used
<1>5. CASE NotifyQueue
  <2>1. UNCHANGED <<availIdx, seen>>
    BY <1>5 DEF NotifyQueue, available, driver
  <2>2. CASE UNCHANGED <<indices, used>>
    BY <2>1, <2>2 DEF indices, used
  <2>3. CASE CompleteRequests(Batch, Completed(Batch))
    <3> DEFINE n == Completed(Batch)
    <3>1. n \in Int
      BY CompletedIsCount
    <3>2. /\ nextUsed' = Plus(nextUsed, n)
          /\ lastAvailable' = Plus(lastAvailable, n)
          /\ usedIdx' = usedIdx \/ usedIdx' = nextUsed'
      BY <2>3 DEF CompleteRequests
    <3> HIDE DEF n
    <3>3. nextUsed \in Int /\ lastAvailable \in Int
      OBVIOUS
    <3>4. /\ Plus(nextUsed, n) \in 0 .. IndexMod - 1
          /\ Plus(lastAvailable, n) \in 0 .. IndexMod - 1
      BY <3>1, <3>3, IndexArithmetic
    <3>5. nextUsed' \in 0 .. IndexMod - 1 /\ lastAvailable' \in 0 .. IndexMod - 1
      BY <3>2, <3>4
    <3>6. usedIdx' \in 0 .. IndexMod - 1
      BY <3>2, <3>5
    <3> QED BY <2>1, <3>5, <3>6
  <2> QED BY <1>5, <2>2, <2>3 DEF NotifyQueue
<1>6. CASE Acknowledge
  BY <1>6 DEF Acknowledge, indices, available, used
<1>7. CASE Collect
  BY <1>7, IndexArithmetic DEF Collect, indices, available, used
<1>8. CASE Finish
  BY <1>8 DEF Finish, indices, available, used
<1>9. CASE UNCHANGED vars
  BY <1>9 DEF vars, indices, available, used, driver
<1> QED
  BY <1>1, <1>2, <1>3, <1>4, <1>5, <1>6, <1>7, <1>8, <1>9 DEF Next

\* The invariant of the queue is inductive.
LEMMA QueueInvariant == Spec => []QueueInv
<1>1. Init => QueueInv
  <2>1. 0 \in 0 .. IndexMod - 1
    BY IndexAssumption
  <2> QED BY <2>1, TransportInit DEF Init, QueueInv, IndexTypes
<1>2. QueueInv /\ [Next]_vars => QueueInv'
  BY QueueStep, TransportStep, IndexStep DEF QueueInv
<1> QED BY <1>1, <1>2, PTL DEF Spec

\* Device and driver together refine the transport: whatever holds of its
\* registers under an arbitrary guest holds with this driver.
THEOREM QueueImplementsTransport == Spec => SpecTransport
<1>1. Init => InitTransport
  BY DEF Init
<1>2. QueueInv /\ [Next]_vars => [NextTransport]_transportVars
  BY QueueStep
<1> QED BY <1>1, <1>2, QueueInvariant, PTL DEF Spec, SpecTransport

\* No step leaves a completion without a signal.
LEMMA SignalledStep ==
  ASSUME QueueInv, Signalled, [Next]_vars
  PROVE  Signalled'
<1> USE DEF Signalled
<1>1. CASE SetUp
  <2>1. UNCHANGED <<usedIdx, seen, handling, noInterrupt>>
    BY <1>1 DEF SetUp, used, driver, available
  <2>2. lineHigh' = lineHigh
    BY <1>1 DEF SetUp, WriteQueueNum, WriteQueueReady, WriteStatus, interrupts
  <2> QED BY <2>1, <2>2
<1>2. CASE Reset
  <2>1. usedIdx' = 0 /\ seen' = 0
    BY <1>2 DEF Reset
  <2> QED BY <2>1
<1>3. ASSUME NEW head \in Heads, NEW kind \in {"valid", "invalid"},
             Submit(head, kind)
      PROVE  Signalled'
  BY <1>3 DEF Submit, used, transportVars, interrupts
<1>4. ASSUME NEW value \in BOOLEAN, Suppress(value)
      PROVE  Signalled'
  BY <1>4 DEF Suppress, used, transportVars, interrupts, QueueInv
<1>5. CASE NotifyQueue
  <2>1. UNCHANGED <<seen, handling, noInterrupt>>
    BY <1>5 DEF NotifyQueue, available, driver
  <2>2. CASE FailDevice
    <3>1. interruptStatus' # {} /\ lineHigh' = (interruptStatus' # {})
      BY <2>2 DEF FailDevice, UpdateInterruptLine
    <3>2. lineHigh'
      BY <3>1
    <3> QED BY <3>2
  <2>3. CASE UsedBuffers(noInterrupt)
    <3>1. /\ ~noInterrupt => interruptStatus' # {}
          /\ lineHigh' = (interruptStatus' # {})
      BY <2>3 DEF UsedBuffers, UpdateInterruptLine
    <3>2. ~noInterrupt' => lineHigh'
      BY <2>1, <3>1
    <3> QED BY <3>2
  <2>4. CASE UNCHANGED transportVars /\ UNCHANGED usedIdx
    BY <2>1, <2>4 DEF transportVars, interrupts
  <2>5. \/ FailDevice
        \/ UsedBuffers(noInterrupt)
        \/ UNCHANGED transportVars /\ UNCHANGED usedIdx
    <3>1. CASE Ahead(availIdx, lastAvailable) > num
      BY <1>5, <3>1 DEF NotifyQueue
    <3>2. CASE ~(Ahead(availIdx, lastAvailable) > num)
      <4> DEFINE n == Completed(Batch)
      <4>1. /\ CompleteRequests(Batch, n)
            /\ IF n < Len(Batch) THEN FailDevice
               ELSE IF n > 0 THEN UsedBuffers(noInterrupt)
               ELSE UNCHANGED transportVars
        BY <1>5, <3>2 DEF NotifyQueue
      <4>2. n = 0 => usedIdx' = usedIdx
        BY <4>1 DEF CompleteRequests
      <4>3. n \in Nat
        BY CompletedIsCount DEF QueueInv
      <4> HIDE DEF n
      <4> QED BY <4>1, <4>2, <4>3
    <3> QED BY <3>1, <3>2
  <2> QED BY <2>2, <2>3, <2>4, <2>5
<1>6. CASE Acknowledge
  BY <1>6 DEF Acknowledge
<1>7. CASE Collect
  BY <1>7 DEF Collect
<1>8. CASE Finish
  <2>1. usedIdx' = usedIdx /\ seen' = seen /\ seen = usedIdx
    BY <1>8 DEF Finish, used
  <2> QED BY <2>1
<1>9. CASE UNCHANGED vars
  BY <1>9 DEF vars, used, driver, available, transportVars, interrupts
<1> QED
  BY <1>1, <1>2, <1>3, <1>4, <1>5, <1>6, <1>7, <1>8, <1>9 DEF Next

\* No completion is left unannounced: an invariant of device and driver.
THEOREM CompletionsAreSignalled == Spec => []CompletionIsSignalled
<1>1. Init => Signalled
  BY DEF Init, Signalled
<1>2. QueueInv /\ Signalled /\ [Next]_vars => Signalled'
  BY SignalledStep
<1>3. QueueInv /\ Signalled => CompletionIsSignalled
  <2> SUFFICES ASSUME QueueInv, Signalled, Finished # <<>>
               PROVE  seen # usedIdx
    BY DEF CompletionIsSignalled, Signalled
  <2>1. ASSUME seen = usedIdx PROVE FALSE
    <3>1. Ahead(usedIdx, seen) = 0
      <4>1. usedIdx \in Int /\ usedIdx - seen = 0
        BY <2>1 DEF QueueInv, IndexTypes
      <4>2. 0 % IndexMod = 0
        BY IndexAssumption
      <4> QED BY <4>1, <4>2 DEF Ahead
    <3>2. Finished = <<>>
      BY <3>1 DEF Finished
    <3> QED BY <3>2
  <2> QED BY <2>1
<1> QED BY <1>1, <1>2, <1>3, QueueInvariant, PTL DEF Spec

-----------------------------------------------------------------------------
(***************************************************************************)
(* The rings as a queue. The heads the driver has made available and not   *)
(* collected are counted from the first it will collect: Length of them,   *)
(* the first Done of which are in the used ring, the others in the         *)
(* available ring. They are different heads below the queue size, so they  *)
(* are at most as many as there are slots; and so no slot is written again *)
(* before it was read, and no index runs so far ahead that its distance is *)
(* mistaken.                                                               *)
(***************************************************************************)
Length == Ahead(availIdx, seen)
Done == Ahead(usedIdx, seen)

At(i) == IF i < Done THEN usedRing[Slot(Plus(seen, i))]
         ELSE availRing[Slot(Plus(seen, i))]

Indices == 0 .. IndexMod - 1

\* What the queue size is to the indices.
LEMMA SizeOfQueue ==
  ASSUME TransportInv, num # 0
  PROVE  /\ num \in Nat \ {0} /\ num <= MaxQueueSize /\ num < IndexMod
         /\ IndexMod \in Nat \ {0} /\ IndexMod % num = 0
         /\ 0 .. num - 1 \subseteq Heads
         /\ \A x \in Int : Slot(x) \in 0 .. num - 1
<1>1. num \in QueueSizes
  BY DEF TransportInv, TransportTypeOK
<1>2. num \in 1 .. MaxQueueSize /\ MaxQueueSize \in Nat
  BY <1>1, TransportAssumption DEF QueueSizes
<1>3. IndexMod \in Nat \ {0} /\ IndexMod % num = 0 /\ MaxQueueSize < IndexMod
  BY <1>1, IndexAssumption
<1>4. \A x \in Int : Slot(x) \in 0 .. num - 1
  BY <1>2 DEF Slot
<1> QED BY <1>2, <1>3, <1>4 DEF Heads

\* wrapping_add and wrapping_sub without remainders.
LEMMA Wrapping ==
  /\ IndexMod \in Nat \ {0}
  /\ \A x \in Indices : \A i \in 0 .. IndexMod :
       Plus(x, i) = IF x + i < IndexMod THEN x + i ELSE x + i - IndexMod
  /\ \A x, y \in Indices :
       Ahead(y, x) = IF y >= x THEN y - x ELSE y - x + IndexMod
<1>1. IndexMod \in Nat \ {0}
  BY IndexAssumption
<1>2. ASSUME NEW x \in Indices, NEW i \in 0 .. IndexMod
      PROVE  Plus(x, i) = IF x + i < IndexMod THEN x + i ELSE x + i - IndexMod
  <2> DEFINE z == x + i
  <2>1. z \in Int /\ 0 <= z /\ z < 2 * IndexMod
    BY <1>1 DEF Indices
  <2>2. Plus(x, i) = z % IndexMod
    BY DEF Plus
  <2> HIDE DEF z
  <2>3. z % IndexMod = IF z < IndexMod THEN z ELSE z - IndexMod
    BY <1>1, <2>1
  <2>4. Plus(x, i) = IF z < IndexMod THEN z ELSE z - IndexMod
    BY <2>2, <2>3
  <2> QED BY <1>1, <2>4 DEF z, Indices
<1>3. ASSUME NEW x \in Indices, NEW y \in Indices
      PROVE  Ahead(y, x) = IF y >= x THEN y - x ELSE y - x + IndexMod
  <2> DEFINE z == y - x
  <2>1. z \in Int /\ -IndexMod < z /\ z < IndexMod /\ (y >= x <=> z >= 0)
    BY <1>1 DEF Indices
  <2> HIDE DEF z
  <2>2. z % IndexMod = IF z >= 0 THEN z ELSE z + IndexMod
    BY <1>1, <2>1
  <2> QED BY <2>1, <2>2 DEF Ahead, z
<1> QED BY <1>1, <1>2, <1>3

\* Distances and sums of indices undo each other.
LEMMA Distances ==
  ASSUME NEW x \in Indices
  PROVE  /\ \A y \in Indices : Plus(x, Ahead(y, x)) = y
         /\ \A i \in Indices : Ahead(Plus(x, i), x) = i
         /\ Plus(x, 0) = x
         /\ \A y \in Indices : Ahead(y, x) \in Indices
         /\ \A i \in Int : Plus(x, i) \in Indices
         /\ \A i, j \in Nat : i + j < IndexMod =>
              Plus(Plus(x, i), j) = Plus(x, i + j)
<1>1. /\ \A y \in Indices : Plus(x, Ahead(y, x)) = y
      /\ \A i \in Indices : Ahead(Plus(x, i), x) = i
      /\ Plus(x, 0) = x
      /\ \A y \in Indices : Ahead(y, x) \in Indices
  BY Wrapping DEF Indices
<1>2. \A i \in Int : Plus(x, i) \in Indices
  BY IndexAssumption DEF Plus, Indices
<1>3. ASSUME NEW i \in Nat, NEW j \in Nat, i + j < IndexMod
      PROVE  Plus(Plus(x, i), j) = Plus(x, i + j)
  BY <1>3, Wrapping DEF Indices
<1> QED BY <1>1, <1>2, <1>3

\* Positions less than the queue size apart have different slots, also where
\* the indices wrap, because the queue size divides their number.
LEMMA SlotsDiffer ==
  ASSUME TransportInv, num # 0, NEW x \in Indices,
         NEW i \in 0 .. num, NEW j \in 0 .. num, i - j < num, j - i < num,
         Slot(Plus(x, i)) = Slot(Plus(x, j))
  PROVE  i = j
<1>1. num \in Nat \ {0} /\ num < IndexMod /\ IndexMod % num = 0
      /\ IndexMod \in Nat \ {0}
  BY SizeOfQueue
<1> DEFINE k == IndexMod \div num
<1>2. k \in Int /\ IndexMod = num * k
  BY <1>1, DivMod
<1>3. ASSUME NEW n \in 0 .. num PROVE Slot(Plus(x, n)) = (x + n) % num
  <2>1. CASE x + n < IndexMod
    BY <1>1, <2>1, Wrapping DEF Slot
  <2>2. CASE ~(x + n < IndexMod)
    <3>1. Plus(x, n) = x + n - IndexMod
      BY <1>1, <2>2, Wrapping
    <3>2. Plus(x, n) = x + n + num * (-k)
      BY <1>1, <1>2, <3>1 DEF Indices
    <3>3. x + n \in Int /\ -k \in Int
      BY <1>1, <1>2 DEF Indices
    <3>4. (x + n + num * (-k)) % num = (x + n) % num
      BY <1>1, <3>3, ModMultiple
    <3> QED BY <3>2, <3>4 DEF Slot
  <2> QED BY <2>1, <2>2
<1> DEFINE a == x + i
           b == x + j
<1>4. a % num = b % num /\ a - b < num /\ b - a < num /\ a \in Int /\ b \in Int
  BY <1>1, <1>3 DEF Indices
<1>5. a = b
  <2> HIDE DEF a, b
  <2> QED BY <1>1, <1>4, ModInjective
<1> QED BY <1>1, <1>5 DEF Indices

WindowInv ==
  /\ QueueInv
  /\ lastAvailable = usedIdx /\ nextUsed = usedIdx
  /\ num = 0 => availIdx = 0 /\ usedIdx = 0 /\ seen = 0
  /\ Done <= Length /\ Length <= num
  /\ availRing \in [Heads -> Heads] /\ usedRing \in [Heads -> Heads]
  /\ request \in [Heads -> {"free", "valid", "invalid"}]
  /\ \A i \in 0 .. Length - 1 : At(i) \in 0 .. num - 1
  /\ \A i, j \in 0 .. Length - 1 : At(i) = At(j) => i = j
  /\ \A head \in Heads :
       request[head] = "free" <=> \A i \in 0 .. Length - 1 : At(i) # head
  /\ "DEVICE_NEEDS_RESET" \in status =>
       Done < Length /\ request[At(Done)] = "invalid"

\* The indices in terms of what is counted.
LEMMA Counts ==
  ASSUME IndexTypes, lastAvailable = usedIdx, Done <= Length
  PROVE  /\ Done \in Nat /\ Length \in Nat /\ Length < IndexMod
         /\ IndexMod \in Nat
         /\ usedIdx = Plus(seen, Done) /\ availIdx = Plus(seen, Length)
         /\ Ahead(availIdx, lastAvailable) = Length - Done
<1>1. /\ seen \in Indices /\ usedIdx \in Indices /\ availIdx \in Indices
      /\ lastAvailable \in Indices
  BY DEF IndexTypes, Indices
<1>2. Done \in Indices /\ Length \in Indices
  BY <1>1, Distances DEF Done, Length
<1>3. usedIdx = Plus(seen, Done) /\ availIdx = Plus(seen, Length)
  BY <1>1, Distances DEF Done, Length
<1>4. Ahead(availIdx, lastAvailable) = Length - Done
  BY <1>1, Wrapping DEF Done, Length, Indices
<1> QED BY <1>2, <1>3, <1>4, IndexAssumption DEF Indices

\* The queues in terms of the window.
LEMMA RingsAre ==
  ASSUME WindowInv
  PROVE  /\ num # 0 => Batch = [i \in 1 .. Length - Done |-> At(Done + i - 1)]
         /\ Waiting = [i \in 1 .. Length - Done |-> At(Done + i - 1)]
         /\ Finished = [i \in 1 .. Done |-> At(i - 1)]
<1>1. /\ Done \in Nat /\ Length \in Nat /\ Done <= Length /\ Length <= num
      /\ Length < IndexMod /\ IndexMod \in Nat /\ seen \in Indices
      /\ lastAvailable = Plus(seen, Done)
      /\ Ahead(availIdx, lastAvailable) = Length - Done
  BY Counts DEF WindowInv, QueueInv, IndexTypes, Indices
<1>2. CASE num = 0
  <2>1. Length - Done = 0 /\ Done = 0
    BY <1>1, <1>2
  <2> QED BY <1>2, <2>1 DEF Waiting, Finished
<1>3. CASE num # 0
  <2>1. ASSUME NEW i \in 1 .. Length - Done
        PROVE  availRing[Slot(Plus(lastAvailable, i - 1))] = At(Done + i - 1)
    <3>1. /\ Done + i - 1 \in Nat /\ i - 1 \in Nat /\ ~(Done + i - 1 < Done)
          /\ Done + (i - 1) < IndexMod
      BY <1>1
    <3>2. Plus(lastAvailable, i - 1) = Plus(seen, Done + (i - 1))
      BY <1>1, <3>1, Distances
    <3> QED BY <1>1, <3>1, <3>2 DEF At
  <2>2. Batch = [i \in 1 .. Length - Done |-> At(Done + i - 1)]
    BY <1>1, <2>1 DEF Batch
  <2>3. \A i \in 1 .. Done : usedRing[Slot(Plus(seen, i - 1))] = At(i - 1)
    BY <1>1 DEF At
  <2>4. Finished = [i \in 1 .. Done |-> At(i - 1)]
    BY <1>1, <1>3, <2>3 DEF Finished, Done
  <2> QED BY <1>3, <2>2, <2>4 DEF Waiting
<1> QED BY <1>2, <1>3

\* A request that is made comes last, and its slot is not in use.
LEMMA SubmitWindow ==
  ASSUME WindowInv, NEW head \in Heads, NEW kind, Submit(head, kind)
  PROVE  /\ Length < num /\ head \in 0 .. num - 1
         /\ \A i \in 0 .. Length - 1 : At(i) # head
         /\ Length' = Length + 1 /\ Done' = Done
         /\ \A i \in 0 .. Length - 1 : At(i)' = At(i)
         /\ \A i \in Nat : i = Length => At(i)' = head
<1>1. /\ Done \in Nat /\ Length \in Nat /\ IndexMod \in Nat
      /\ seen \in Indices /\ availIdx = Plus(seen, Length)
      /\ Done <= Length
  BY Counts DEF WindowInv, QueueInv, IndexTypes, Indices
<1>2. /\ num # 0 /\ head < num /\ request[head] = "free"
      /\ availRing' = [availRing EXCEPT ![Slot(availIdx)] = head]
      /\ availIdx' = Plus(availIdx, 1)
      /\ UNCHANGED <<seen, usedIdx, usedRing, num>>
  BY DEF Submit, transportVars, queueSetup, used
<1>3. /\ num \in Nat \ {0} /\ 0 .. num - 1 \subseteq Heads /\ num < IndexMod
      /\ \A x \in Int : Slot(x) \in Heads
      /\ TransportInv
  BY <1>2, SizeOfQueue DEF WindowInv, QueueInv
<1>4. head \in 0 .. num - 1
  BY <1>2, <1>3, TransportAssumption DEF Heads
<1>5. \A i \in 0 .. Length - 1 : At(i) # head
  BY <1>2 DEF WindowInv
<1>6. Length < num
  <2> DEFINE f == [i \in 1 .. Length |-> At(i - 1)]
  <2>1. f \in [1 .. Length -> 0 .. num - 1]
    BY <1>1 DEF WindowInv
  <2>2. \A i, j \in 1 .. Length : f[i] = f[j] => i = j
    BY <1>1 DEF WindowInv
  <2>3. \A i \in 1 .. Length : f[i] # head
    BY <1>1, <1>5
  <2> HIDE DEF f
  <2> QED BY <1>1, <1>3, <1>4, <2>1, <2>2, <2>3, Distinct
<1>7. availIdx' = Plus(seen, Length + 1)
  BY <1>1, <1>2, <1>3, <1>6, Distances
<1>8. Length' = Length + 1 /\ Done' = Done
  <2>1. Length + 1 \in Indices
    BY <1>1, <1>3, <1>6 DEF Indices
  <2>2. Ahead(Plus(seen, Length + 1), seen) = Length + 1
    BY <1>1, <2>1, Distances
  <2> QED BY <1>2, <1>7, <2>2 DEF Length, Done, Ahead
<1>9. \A i \in Int : Slot(Plus(seen, i))' = Slot(Plus(seen, i))
  BY <1>2 DEF Slot, Plus
<1>10. ASSUME NEW i \in 0 .. Length - 1 PROVE At(i)' = At(i)
  <2>1. Slot(Plus(seen, i)) # Slot(availIdx)
    <3>1. i \in 0 .. num /\ Length \in 0 .. num
          /\ i - Length < num /\ Length - i < num /\ i # Length
      BY <1>1, <1>3, <1>6
    <3> QED BY <1>1, <1>2, <1>3, <3>1, SlotsDiffer
  <2>2. Plus(seen, i) \in Int
    BY <1>1, Distances DEF Indices
  <2>3. availRing'[Slot(Plus(seen, i))] = availRing[Slot(Plus(seen, i))]
    BY <1>2, <1>3, <2>1, <2>2 DEF WindowInv
  <2> QED BY <1>2, <1>8, <1>9, <2>3 DEF At
<1>11. ASSUME NEW i \in Nat, i = Length PROVE At(i)' = head
  <2>1. ~(i < Done')
    BY <1>1, <1>8, <1>11
  <2>2. Slot(availIdx) \in Heads
    BY <1>1, <1>3, Distances DEF Indices
  <2>3. availRing'[Slot(Plus(seen, i))'] = head
    BY <1>1, <1>2, <1>9, <1>11, <2>2 DEF WindowInv
  <2> QED BY <1>2, <2>1, <2>3 DEF At
<1> QED BY <1>4, <1>5, <1>6, <1>8, <1>10, <1>11

\* The loop of process_available stops before the first invalid request.
LEMMA CompletedPrefix ==
  ASSUME WindowInv, num # 0
  PROVE  LET n == Completed(Batch)
         IN  /\ n \in 0 .. Length - Done /\ Len(Batch) = Length - Done
             /\ n < Length - Done => request[At(Done + n)] = "invalid"
             /\ n > 0 => request[At(Done)] = "valid"
<1>1. /\ Done \in Nat /\ Length \in Nat /\ Done <= Length
      /\ Length - Done \in Nat
      /\ Batch = [i \in 1 .. Length - Done |-> At(Done + i - 1)]
  BY Counts, RingsAre DEF WindowInv, QueueInv
<1>2. Len(Batch) = Length - Done
  BY <1>1
<1> DEFINE S == {m \in 1 .. Len(Batch) :
                   \A i \in 1 .. m : request[Batch[i]] = "valid"}
           n == Cardinality(S)
<1>3. /\ S \in SUBSET (1 .. Length - Done)
      /\ \A x \in S, y \in 1 .. Length - Done : y <= x => y \in S
  <2>1. S \subseteq 1 .. Length - Done
    BY <1>2
  <2>2. ASSUME NEW x \in S, NEW y \in 1 .. Length - Done, y <= x
        PROVE  y \in S
    <3>1. x \in 1 .. Length - Done
      BY <2>1
    <3>2. 1 .. y \subseteq 1 .. x
      BY <1>1, <2>2, <3>1
    <3>3. \A i \in 1 .. x : request[Batch[i]] = "valid"
      OBVIOUS
    <3> QED BY <1>2, <3>2, <3>3
  <2> QED BY <2>1, <2>2
<1>4. n \in 0 .. Length - Done /\ S = 1 .. n
  <2> HIDE DEF S
  <2> QED BY <1>1, <1>3, Prefix
<1>5. ASSUME n < Length - Done PROVE request[At(Done + n)] = "invalid"
  <2>1. n + 1 \in 1 .. Len(Batch) /\ n + 1 \notin S
    <3> HIDE DEF S, n
    <3> QED BY <1>1, <1>2, <1>4, <1>5
  <2>2. PICK i \in 1 .. n + 1 : request[Batch[i]] # "valid"
    BY <2>1
  <2>3. i = n + 1
    <3>1. ASSUME i # n + 1 PROVE i \in S
      <4>1. i \in 1 .. n
        BY <1>4, <3>1
      <4> QED BY <1>4, <4>1
    <3>2. i \in S => request[Batch[i]] = "valid"
      <4>1. i \in 1 .. i
        BY <1>4
      <4> QED BY <4>1
    <3> QED BY <2>2, <3>1, <3>2
  <2>4. Batch[n + 1] = At(Done + n)
    <3> HIDE DEF S, n
    <3>1. n + 1 \in 1 .. Length - Done /\ Done + (n + 1) - 1 = Done + n
      BY <1>1, <1>4, <1>5
    <3> QED BY <1>1, <3>1
  <2>5. Done + n \in 0 .. Length - 1
    <3> HIDE DEF S, n
    <3> QED BY <1>1, <1>4, <1>5
  <2>6. At(Done + n) \in Heads /\ request[At(Done + n)] # "free"
    <3> HIDE DEF n
    <3> QED BY <2>5, SizeOfQueue DEF WindowInv, QueueInv
  <2> QED BY <2>2, <2>3, <2>4, <2>6 DEF WindowInv
<1>6. ASSUME n > 0 PROVE request[At(Done)] = "valid"
  <2>1. n \in S
    <3> HIDE DEF S, n
    <3> QED BY <1>1, <1>4, <1>6
  <2>2. 1 \in 1 .. n /\ 1 \in 1 .. Length - Done /\ Done + 1 - 1 = Done
    <3> HIDE DEF S, n
    <3> QED BY <1>1, <1>4, <1>6
  <2>3. request[Batch[1]] = "valid"
    BY <2>1, <2>2
  <2>4. Batch[1] = At(Done)
    <3> HIDE DEF S, n
    <3> QED BY <1>1, <2>2
  <2> QED BY <2>3, <2>4
<1> QED BY <1>2, <1>4, <1>5, <1>6 DEF Completed

\* Completing requests moves the border between the two rings; what was done
\* before and not collected is not written over.
LEMMA CompleteWindow ==
  ASSUME WindowInv, num # 0, NEW n \in 0 .. Length - Done,
         CompleteRequests(Batch, n),
         UNCHANGED <<availIdx, availRing, seen, num>>
  PROVE  /\ Length' = Length /\ Done' = Done + n
         /\ lastAvailable' = usedIdx' /\ nextUsed' = usedIdx'
         /\ usedRing' \in [Heads -> Heads]
         /\ \A i \in 0 .. Length - 1 : At(i)' = At(i)
<1>1. /\ Done \in Nat /\ Length \in Nat /\ Done <= Length /\ Length <= num
      /\ Length < IndexMod /\ IndexMod \in Nat
      /\ seen \in Indices /\ usedIdx = Plus(seen, Done)
      /\ nextUsed = usedIdx /\ lastAvailable = usedIdx
      /\ Batch = [i \in 1 .. Length - Done |-> At(Done + i - 1)]
  BY Counts, RingsAre DEF WindowInv, QueueInv, IndexTypes, Indices
<1>2. /\ num \in Nat \ {0} /\ 0 .. num - 1 \subseteq Heads /\ num < IndexMod
      /\ \A x \in Int : Slot(x) \in Heads
      /\ TransportInv
  BY SizeOfQueue DEF WindowInv, QueueInv
<1> DEFINE written(slot) == {i \in 1 .. n : slot = Slot(Plus(nextUsed, i - 1))}
<1>3. usedRing' = [slot \in Heads |->
                     IF \E i \in 1 .. n : slot = Slot(Plus(nextUsed, i - 1))
                     THEN Batch[CHOOSE i \in 1 .. n :
                                  slot = Slot(Plus(nextUsed, i - 1))]
                     ELSE usedRing[slot]]
  BY DEF CompleteRequests
<1>4. \A i \in 1 .. n : Plus(nextUsed, i - 1) = Plus(seen, Done + (i - 1))
  <2>1. ASSUME NEW i \in 1 .. n
        PROVE  Plus(nextUsed, i - 1) = Plus(seen, Done + (i - 1))
    <3>1. i - 1 \in Nat /\ Done + (i - 1) < IndexMod
      BY <1>1
    <3> QED BY <1>1, <3>1, Distances
  <2> QED BY <2>1
<1>5. Plus(nextUsed, n) = Plus(seen, Done + n) /\ Plus(usedIdx, 0) = usedIdx
  <2>1. n \in Nat /\ Done + n < IndexMod
    BY <1>1
  <2>2. usedIdx \in Indices
    BY <1>1, Distances
  <2> QED BY <1>1, <2>1, <2>2, Distances
<1>6. /\ usedIdx' = Plus(seen, Done + n)
      /\ lastAvailable' = usedIdx' /\ nextUsed' = usedIdx'
  BY <1>1, <1>5 DEF CompleteRequests
<1>7. Length' = Length /\ Done' = Done + n
  <2>1. Done + n \in Indices
    BY <1>1 DEF Indices
  <2> QED BY <1>1, <1>6, <2>1, Distances DEF Length, Done, Ahead
<1>8. \A i \in Int : Slot(Plus(seen, i))' = Slot(Plus(seen, i))
  BY DEF Slot, Plus
<1>9. ASSUME NEW i \in 0 .. Length - 1, NEW k \in 1 .. n,
             Slot(Plus(seen, i)) = Slot(Plus(nextUsed, k - 1))
      PROVE  i = Done + (k - 1)
  <2>1. /\ i \in 0 .. num /\ Done + (k - 1) \in 0 .. num
        /\ i - (Done + (k - 1)) < num /\ Done + (k - 1) - i < num
    BY <1>1, <1>2
  <2> QED BY <1>1, <1>2, <1>4, <1>9, <2>1, SlotsDiffer
<1>10. ASSUME NEW i \in 0 .. Length - 1 PROVE At(i)' = At(i)
  <2> DEFINE slot == Slot(Plus(seen, i))
  <2>1. slot \in Heads
    BY <1>1, <1>2, Distances DEF Indices
  <2>2. CASE i < Done
    <3>1. ~ \E k \in 1 .. n : slot = Slot(Plus(nextUsed, k - 1))
      BY <1>1, <1>9, <2>2
    <3>2. usedRing'[slot] = usedRing[slot]
      BY <1>3, <2>1, <3>1
    <3>3. i < Done'
      BY <1>1, <1>7, <2>2
    <3> QED BY <1>8, <2>2, <3>2, <3>3 DEF At
  <2>3. CASE ~(i < Done) /\ i < Done + n
    <3> DEFINE k == i - Done + 1
    <3>1. k \in 1 .. n /\ i = Done + (k - 1)
      BY <1>1, <2>3
    <3>2. slot = Slot(Plus(nextUsed, k - 1))
      BY <1>4, <3>1
    <3>3. \A j \in 1 .. n : slot = Slot(Plus(nextUsed, j - 1)) => j = k
      BY <1>1, <1>9
    <3>4. (CHOOSE j \in 1 .. n : slot = Slot(Plus(nextUsed, j - 1))) = k
      BY <3>1, <3>2, <3>3
    <3>5. usedRing'[slot] = Batch[k]
      BY <1>3, <2>1, <3>1, <3>2, <3>4
    <3>6. Batch[k] = At(i)
      <4>1. k \in 1 .. Length - Done /\ Done + k - 1 = i
        BY <1>1, <3>1
      <4> QED BY <1>1, <4>1
    <3> QED BY <1>7, <1>8, <2>3, <3>5, <3>6 DEF At
  <2>4. CASE ~(i < Done + n)
    <3>1. ~(i < Done)
      BY <1>1, <2>4
    <3> QED BY <1>7, <1>8, <2>4, <3>1 DEF At
  <2> QED BY <2>2, <2>3, <2>4
<1>11. usedRing' \in [Heads -> Heads]
  <2>1. ASSUME NEW slot \in Heads,
               \E i \in 1 .. n : slot = Slot(Plus(nextUsed, i - 1))
        PROVE  Batch[CHOOSE i \in 1 .. n :
                       slot = Slot(Plus(nextUsed, i - 1))] \in Heads
    <3>1. PICK k : /\ k \in 1 .. n
                   /\ k = CHOOSE i \in 1 .. n :
                            slot = Slot(Plus(nextUsed, i - 1))
      BY <2>1
    <3>2. k \in 1 .. Length - Done /\ Done + k - 1 \in 0 .. Length - 1
      BY <1>1, <3>1
    <3>3. Batch[k] \in 0 .. num - 1
      BY <1>1, <3>2 DEF WindowInv
    <3> QED BY <1>2, <3>1, <3>3
  <2> QED BY <1>3, <2>1 DEF WindowInv
<1> QED BY <1>6, <1>7, <1>10, <1>11

\* Collecting takes the oldest completion, and moves the window.
LEMMA CollectWindow ==
  ASSUME WindowInv, Collect
  PROVE  /\ num # 0 /\ Done > 0
         /\ Length' = Length - 1 /\ Done' = Done - 1
         /\ \A i \in 0 .. Length - 2 : At(i)' = At(i + 1)
         /\ request' = [request EXCEPT ![At(0)] = "free"]
<1>1. /\ Done \in Nat /\ Length \in Nat /\ Done <= Length /\ Length <= num
      /\ Length < IndexMod /\ IndexMod \in Nat
      /\ seen \in Indices /\ usedIdx = Plus(seen, Done)
      /\ availIdx = Plus(seen, Length)
      /\ availIdx \in Indices /\ usedIdx \in Indices
  BY Counts DEF WindowInv, QueueInv, IndexTypes, Indices
<1>2. /\ seen # usedIdx /\ seen' = Plus(seen, 1)
      /\ request' = [request EXCEPT ![usedRing[Slot(seen)]] = "free"]
      /\ UNCHANGED <<availIdx, availRing, usedIdx, usedRing, num>>
  BY DEF Collect, transportVars, queueSetup, available, used
<1>3. Done > 0
  BY <1>1, <1>2, Distances
<1>4. num # 0
  BY <1>1, <1>3
<1>5. Length' = Length - 1 /\ Done' = Done - 1
  <2>1. /\ seen' = IF seen + 1 < IndexMod THEN seen + 1 ELSE seen + 1 - IndexMod
        /\ seen' \in Indices
    <3>1. 1 \in 0 .. IndexMod
      BY <1>1, <1>3
    <3>2. Plus(seen, 1) =
            IF seen + 1 < IndexMod THEN seen + 1 ELSE seen + 1 - IndexMod
      BY <1>1, <3>1, Wrapping
    <3>3. Plus(seen, 1) \in Indices
      BY <1>1, Distances
    <3> QED BY <1>2, <3>2, <3>3
  <2>2. /\ Length' = Ahead(availIdx, seen') /\ Done' = Ahead(usedIdx, seen')
        /\ Length > 0
    BY <1>1, <1>2, <1>3 DEF Length, Done, Ahead
  <2>3. ASSUME NEW y \in Indices, Ahead(y, seen) > 0
        PROVE  Ahead(y, seen') = Ahead(y, seen) - 1
    <3>1. Ahead(y, seen) = IF y >= seen THEN y - seen ELSE y - seen + IndexMod
      BY <1>1, Wrapping
    <3>2. Ahead(y, seen') =
            IF y >= seen' THEN y - seen' ELSE y - seen' + IndexMod
      BY <2>1, Wrapping
    <3>3. y \in 0 .. IndexMod - 1 /\ seen \in 0 .. IndexMod - 1
          /\ seen' \in 0 .. IndexMod - 1
      BY <1>1, <2>1 DEF Indices
    <3> QED BY <1>1, <2>1, <2>3, <3>1, <3>2, <3>3
  <2> QED BY <1>1, <1>3, <2>2, <2>3 DEF Length, Done
<1>6. ASSUME NEW i \in 0 .. Length - 2 PROVE At(i)' = At(i + 1)
  <2>1. Plus(seen', i) = Plus(seen, 1 + i)
    <3>1. 1 \in Nat /\ i \in Nat /\ 1 + i < IndexMod
      BY <1>1
    <3> QED BY <1>1, <1>2, <3>1, Distances
  <2>2. 1 + i = i + 1 /\ (i < Done' <=> i + 1 < Done)
    BY <1>1, <1>5
  <2>3. Slot(Plus(seen, i))' = Slot(Plus(seen, i + 1))
    BY <1>2, <2>1, <2>2 DEF Slot, Plus
  <2> QED BY <1>2, <2>2, <2>3 DEF At
<1>7. usedRing[Slot(seen)] = At(0)
  BY <1>1, <1>3, Distances DEF At
<1> QED BY <1>2, <1>3, <1>4, <1>5, <1>6, <1>7

\* Steps that leave the rings alone leave the window alone, also when they
\* give the queue its size.
Quiet ==
  /\ UNCHANGED <<indices, availIdx, availRing, used, seen, request>>
  /\ num' = num \/ num = 0
  /\ "DEVICE_NEEDS_RESET" \in status' => "DEVICE_NEEDS_RESET" \in status

LEMMA QuietWindow ==
  ASSUME WindowInv, Quiet, QueueInv'
  PROVE  /\ WindowInv'
         /\ Length' = Length /\ Done' = Done
         /\ \A i \in 0 .. Length - 1 : At(i)' = At(i)
<1>1. /\ UNCHANGED <<lastAvailable, nextUsed, availIdx, availRing, usedIdx,
                     usedRing, seen, request>>
      /\ num' = num \/ num = 0
      /\ "DEVICE_NEEDS_RESET" \in status' => "DEVICE_NEEDS_RESET" \in status
  BY DEF Quiet, indices, used
<1>2. Length' = Length /\ Done' = Done
  BY <1>1 DEF Length, Done, Ahead
<1>3. /\ Done \in Nat /\ Length \in Nat /\ Done <= Length /\ Length <= num
      /\ IndexMod \in Nat
  BY Counts DEF WindowInv, QueueInv
<1>4. num' \in Nat
  <2>1. num' \in {0} \cup QueueSizes
    BY DEF QueueInv, TransportInv, TransportTypeOK
  <2> QED BY <2>1, TransportAssumption DEF QueueSizes
<1>5. num' # num => Length = 0
  BY <1>1, <1>3
<1>6. Length <= num'
  BY <1>1, <1>3, <1>4
<1>7. ASSUME NEW i \in 0 .. Length - 1 PROVE At(i)' = At(i)
  <2>1. num' = num
    BY <1>3, <1>5
  <2> QED BY <1>1, <1>2, <2>1 DEF At, Slot, Plus
<1>8. num' = 0 => availIdx' = 0 /\ usedIdx' = 0 /\ seen' = 0
  BY <1>1 DEF WindowInv
<1>9. \A i \in 0 .. Length' - 1 : At(i)' \in 0 .. num' - 1
  BY <1>1, <1>2, <1>3, <1>5, <1>7 DEF WindowInv
<1>10. \A i, j \in 0 .. Length' - 1 : At(i)' = At(j)' => i = j
  BY <1>2, <1>7 DEF WindowInv
<1>11. \A head \in Heads :
         request'[head] = "free" <=> \A i \in 0 .. Length' - 1 : At(i)' # head
  BY <1>1, <1>2, <1>7 DEF WindowInv
<1>12. "DEVICE_NEEDS_RESET" \in status' =>
         Done' < Length' /\ request'[At(Done)'] = "invalid"
  <2> SUFFICES ASSUME "DEVICE_NEEDS_RESET" \in status'
               PROVE  Done < Length /\ request[At(Done)'] = "invalid"
    BY <1>1, <1>2
  <2>1. Done < Length /\ request[At(Done)] = "invalid"
    BY <1>1 DEF WindowInv
  <2>2. \A i \in Nat : i = Done => At(i)' = At(i)
    BY <1>3, <1>7, <2>1
  <2>3. At(Done)' = At(Done)
    BY <1>2, <1>3, <2>2 DEF At
  <2> QED BY <2>1, <2>3
<1> QED
  BY <1>1, <1>2, <1>6, <1>7, <1>8, <1>9, <1>10, <1>11, <1>12 DEF WindowInv

\* What a notification does to the rings: it completes the requests before
\* the first invalid one, and fails the device only if there is one.
LEMMA NotifyWindow ==
  ASSUME WindowInv, NotifyQueue
  PROVE  /\ num # 0
         /\ UNCHANGED <<availIdx, availRing, seen, num, request>>
         /\ \E n \in 0 .. Length - Done :
              /\ CompleteRequests(Batch, n)
              /\ "DEVICE_NEEDS_RESET" \in status' =>
                   n < Length - Done /\ request[At(Done + n)] = "invalid"
<1>1. /\ Done \in Nat /\ Length \in Nat /\ Done <= Length /\ Length <= num
      /\ Ahead(availIdx, lastAvailable) = Length - Done
  BY Counts DEF WindowInv, QueueInv
<1>2. num # 0
  <2>1. ready
    BY DEF NotifyQueue, IgnoresNotification
  <2>2. num \in QueueSizes
    BY <2>1 DEF WindowInv, QueueInv, TransportInv, ReadyQueueIsSound
  <2> QED BY <2>2 DEF QueueSizes
<1> DEFINE n == Completed(Batch)
<1>3. /\ n \in 0 .. Length - Done /\ Len(Batch) = Length - Done
      /\ n < Length - Done => request[At(Done + n)] = "invalid"
      /\ n > 0 => request[At(Done)] = "valid"
  BY <1>2, CompletedPrefix
<1>4. num \in Nat
  <2>1. num \in {0} \cup QueueSizes
    BY DEF WindowInv, QueueInv, TransportInv, TransportTypeOK
  <2> QED BY <2>1, TransportAssumption DEF QueueSizes
<1>5. ~(Ahead(availIdx, lastAvailable) > num)
  BY <1>1, <1>4
<1>6. /\ CompleteRequests(Batch, n)
      /\ IF n < Len(Batch) THEN FailDevice
         ELSE IF n > 0 THEN UsedBuffers(noInterrupt)
         ELSE UNCHANGED transportVars
  BY <1>5 DEF NotifyQueue
<1>7. UNCHANGED <<availIdx, availRing, seen, request>>
  BY DEF NotifyQueue, available, driver
<1>8. num' = num
  <2> HIDE DEF n
  <2> QED BY <1>6
        DEF FailDevice, UsedBuffers, transportVars, queueSetup
<1>9. ASSUME "DEVICE_NEEDS_RESET" \in status' PROVE n < Length - Done
  <2> SUFFICES ASSUME ~(n < Length - Done) PROVE FALSE
    OBVIOUS
  <2> HIDE DEF n
  <2>1. status' = status
    BY <1>3, <1>6 DEF UsedBuffers, transportVars, negotiation
  <2>2. Done < Length /\ request[At(Done)] = "invalid"
    BY <1>9, <2>1 DEF WindowInv
  <2>3. n > 0
    BY <1>1, <1>3, <2>2
  <2> QED BY <1>3, <2>2, <2>3
<1> HIDE DEF n
<1> QED BY <1>2, <1>3, <1>6, <1>7, <1>8, <1>9

\* Each step keeps the window as it should be.
LEMMA SubmitKeepsWindow ==
  ASSUME WindowInv, QueueInv', NEW head \in Heads,
         NEW kind \in {"valid", "invalid"}, Submit(head, kind)
  PROVE  WindowInv'
<1>1. /\ Done \in Nat /\ Length \in Nat /\ Done <= Length
  BY Counts DEF WindowInv, QueueInv
<1>2. /\ Length < num /\ head \in 0 .. num - 1
      /\ \A i \in 0 .. Length - 1 : At(i) # head
      /\ Length' = Length + 1 /\ Done' = Done
      /\ \A i \in 0 .. Length - 1 : At(i)' = At(i)
      /\ \A i \in Nat : i = Length => At(i)' = head
  BY SubmitWindow
<1>3. /\ num # 0
      /\ request' = [request EXCEPT ![head] = kind]
      /\ availRing' = [availRing EXCEPT ![Slot(availIdx)] = head]
      /\ UNCHANGED <<lastAvailable, nextUsed, usedIdx, usedRing, num, status>>
  BY DEF Submit, transportVars, queueSetup, negotiation, indices, used
<1>4. num \in Nat
  BY <1>3, SizeOfQueue DEF WindowInv, QueueInv
<1>5. \A i \in 0 .. Length' - 1 :
        i \in 0 .. Length - 1 \/ (i = Length /\ i \in Nat)
  BY <1>1, <1>2
<1>6. /\ availRing' \in [Heads -> Heads]
      /\ request' \in [Heads -> {"free", "valid", "invalid"}]
  BY <1>3 DEF WindowInv
<1>7. \A i \in 0 .. Length' - 1 : At(i)' \in 0 .. num' - 1
  BY <1>2, <1>3, <1>5 DEF WindowInv
<1>8. \A i, j \in 0 .. Length' - 1 : At(i)' = At(j)' => i = j
  BY <1>2, <1>5 DEF WindowInv
<1>9. ASSUME NEW h \in Heads
      PROVE  request'[h] = "free" <=>
               \A i \in 0 .. Length' - 1 : At(i)' # h
  <2>1. CASE h = head
    <3>1. request'[h] # "free"
      BY <1>3, <2>1 DEF WindowInv
    <3>2. Length \in 0 .. Length' - 1 /\ \A i \in Nat : i = Length => At(i)' = h
      BY <1>1, <1>2, <2>1
    <3>3. \E i \in 0 .. Length' - 1 : At(i)' = h
      BY <1>1, <3>2
    <3> QED BY <3>1, <3>3
  <2>2. CASE h # head
    <3>1. request'[h] = request[h]
      BY <1>3, <2>2 DEF WindowInv
    <3>2. (\A i \in 0 .. Length' - 1 : At(i)' # h)
            <=> (\A i \in 0 .. Length - 1 : At(i) # h)
      <4>1. \A i \in 0 .. Length - 1 : i \in 0 .. Length' - 1
        BY <1>1, <1>2
      <4> QED BY <1>2, <1>5, <2>2, <4>1
    <3> QED BY <3>1, <3>2 DEF WindowInv
  <2> QED BY <2>1, <2>2
<1>10. "DEVICE_NEEDS_RESET" \in status' =>
         Done' < Length' /\ request'[At(Done)'] = "invalid"
  <2> SUFFICES ASSUME "DEVICE_NEEDS_RESET" \in status'
               PROVE  Done' < Length' /\ request'[At(Done)'] = "invalid"
    OBVIOUS
  <2>1. Done < Length /\ request[At(Done)] = "invalid"
    BY <1>3 DEF WindowInv
  <2>2. Done \in 0 .. Length - 1
    BY <1>1, <2>1
  <2>3. \A i \in 0 .. Length - 1 : i = Done => At(i)' = At(Done)
    BY <1>2
  <2>4. At(Done)' = At(Done)
    BY <1>2, <2>2, <2>3 DEF At
  <2>5. request'[At(Done)] = request[At(Done)]
    <3>1. At(Done) # head /\ At(Done) \in 0 .. num - 1
      BY <1>2, <2>2 DEF WindowInv
    <3>2. 0 .. num - 1 \subseteq Heads
      BY <1>3, SizeOfQueue DEF WindowInv, QueueInv
    <3> QED BY <1>3, <3>1, <3>2 DEF WindowInv
  <2> QED BY <1>1, <1>2, <2>1, <2>4, <2>5
<1>11. Done' <= Length' /\ Length' <= num'
  BY <1>1, <1>2, <1>3, <1>4
<1> QED
  BY <1>3, <1>6, <1>7, <1>8, <1>9, <1>10, <1>11 DEF WindowInv

LEMMA NotifyKeepsWindow ==
  ASSUME WindowInv, QueueInv', NotifyQueue
  PROVE  WindowInv'
<1>1. PICK n \in 0 .. Length - Done :
        /\ CompleteRequests(Batch, n)
        /\ "DEVICE_NEEDS_RESET" \in status' =>
             n < Length - Done /\ request[At(Done + n)] = "invalid"
  BY NotifyWindow
<1>2. num # 0 /\ UNCHANGED <<availIdx, availRing, seen, num, request>>
  BY NotifyWindow
<1>3. /\ Length' = Length /\ Done' = Done + n
      /\ lastAvailable' = usedIdx' /\ nextUsed' = usedIdx'
      /\ usedRing' \in [Heads -> Heads]
      /\ \A i \in 0 .. Length - 1 : At(i)' = At(i)
  BY <1>1, <1>2, CompleteWindow
<1>4. Done \in Nat /\ Length \in Nat /\ Done <= Length
  BY Counts DEF WindowInv, QueueInv
<1>5. "DEVICE_NEEDS_RESET" \in status' =>
        Done' < Length' /\ request'[At(Done)'] = "invalid"
  <2> SUFFICES ASSUME "DEVICE_NEEDS_RESET" \in status'
               PROVE  Done' < Length' /\ request'[At(Done)'] = "invalid"
    OBVIOUS
  <2>1. n < Length - Done /\ request[At(Done + n)] = "invalid"
    BY <1>1
  <2>2. Done + n \in 0 .. Length - 1
    BY <1>4, <2>1
  <2>3. \A i \in 0 .. Length - 1 : i = Done + n => At(i)' = At(Done + n)
    BY <1>3
  <2>4. At(Done)' = At(Done + n)
    BY <1>3, <2>2, <2>3 DEF At
  <2> QED BY <1>2, <1>3, <1>4, <2>1, <2>4
<1>6. Done' <= Length' /\ Length' <= num'
  BY <1>2, <1>3, <1>4 DEF WindowInv
<1> QED BY <1>2, <1>3, <1>5, <1>6 DEF WindowInv

LEMMA CollectKeepsWindow ==
  ASSUME WindowInv, QueueInv', Collect
  PROVE  WindowInv'
<1>1. Done \in Nat /\ Length \in Nat /\ Done <= Length
  BY Counts DEF WindowInv, QueueInv
<1>2. /\ num # 0 /\ Done > 0
      /\ Length' = Length - 1 /\ Done' = Done - 1
      /\ \A i \in 0 .. Length - 2 : At(i)' = At(i + 1)
      /\ request' = [request EXCEPT ![At(0)] = "free"]
  BY CollectWindow
<1>3. UNCHANGED <<lastAvailable, nextUsed, availIdx, availRing, usedIdx,
                  usedRing, num, status>>
  BY DEF Collect, transportVars, queueSetup, negotiation, indices, available,
         used
<1>4. num \in Nat /\ 0 .. num - 1 \subseteq Heads
  BY <1>2, SizeOfQueue DEF WindowInv, QueueInv
<1>5. /\ \A i \in 0 .. Length' - 1 : i \in 0 .. Length - 2
      /\ \A i \in 0 .. Length - 2 : i + 1 \in 0 .. Length - 1 /\ i + 1 # 0
      /\ 0 \in 0 .. Length - 1
  BY <1>1, <1>2
<1>6. \A i \in 0 .. Length' - 1 : At(i)' \in 0 .. num' - 1
  BY <1>2, <1>3, <1>5 DEF WindowInv
<1>7. \A i, j \in 0 .. Length' - 1 : At(i)' = At(j)' => i = j
  <2> SUFFICES ASSUME NEW i \in 0 .. Length' - 1, NEW j \in 0 .. Length' - 1,
                      At(i)' = At(j)'
               PROVE  i = j
    OBVIOUS
  <2>1. At(i + 1) = At(j + 1)
    BY <1>2, <1>5
  <2>2. i + 1 = j + 1
    BY <1>5, <2>1 DEF WindowInv
  <2> QED BY <1>5, <2>2
<1>8. At(0) \in Heads /\ request' \in [Heads -> {"free", "valid", "invalid"}]
  BY <1>2, <1>4, <1>5 DEF WindowInv
<1>9. ASSUME NEW head \in Heads
      PROVE  request'[head] = "free" <=>
               \A i \in 0 .. Length' - 1 : At(i)' # head
  <2>1. CASE head = At(0)
    <3>1. request'[head] = "free"
      BY <1>2, <2>1 DEF WindowInv
    <3>2. \A i \in 0 .. Length - 2 : At(i + 1) # At(0)
      BY <1>5 DEF WindowInv
    <3> QED BY <1>2, <1>5, <2>1, <3>1, <3>2
  <2>2. CASE head # At(0)
    <3>1. request'[head] = request[head]
      BY <1>2, <2>2 DEF WindowInv
    <3>2. ASSUME NEW i \in 0 .. Length - 1, At(i) = head
          PROVE  \E j \in 0 .. Length' - 1 : At(j)' = head
      <4>1. i # 0
        BY <2>2, <3>2
      <4>2. i - 1 \in 0 .. Length - 2 /\ i - 1 \in 0 .. Length' - 1
            /\ (i - 1) + 1 = i
        BY <1>1, <1>2, <4>1
      <4>3. At(i - 1)' = At(i)
        BY <1>2, <4>2
      <4> QED BY <3>2, <4>2, <4>3
    <3>3. ASSUME NEW j \in 0 .. Length' - 1, At(j)' = head
          PROVE  \E i \in 0 .. Length - 1 : At(i) = head
      BY <1>2, <1>5, <3>3
    <3> QED BY <3>1, <3>2, <3>3 DEF WindowInv
  <2> QED BY <2>1, <2>2
<1>10. "DEVICE_NEEDS_RESET" \in status' =>
         Done' < Length' /\ request'[At(Done)'] = "invalid"
  <2> SUFFICES ASSUME "DEVICE_NEEDS_RESET" \in status'
               PROVE  Done' < Length' /\ request'[At(Done)'] = "invalid"
    OBVIOUS
  <2>1. Done < Length /\ request[At(Done)] = "invalid"
    BY <1>3 DEF WindowInv
  <2>2. Done - 1 \in 0 .. Length - 2 /\ (Done - 1) + 1 = Done
        /\ Done \in 0 .. Length - 1 /\ 0 \in 0 .. Length - 1 /\ Done # 0
    BY <1>1, <1>2, <2>1
  <2>3. \A i \in 0 .. Length - 2 : i = Done - 1 => At(i)' = At(Done)
    BY <1>2, <2>2
  <2>4. At(Done)' = At(Done)
    BY <1>2, <2>2, <2>3 DEF At
  <2>5. At(Done) # At(0) /\ At(Done) \in Heads
    BY <1>4, <2>2 DEF WindowInv
  <2>6. request'[At(Done)] = request[At(Done)]
    BY <1>2, <2>5 DEF WindowInv
  <2> QED BY <1>1, <1>2, <2>1, <2>4, <2>6
<1>11. Done' <= Length' /\ Length' <= num'
  BY <1>1, <1>2, <1>3, <1>4 DEF WindowInv
<1> QED
  BY <1>2, <1>3, <1>6, <1>7, <1>8, <1>9, <1>10, <1>11 DEF WindowInv

\* The initial state has the invariant, and so has the one after a reset.
Fresh ==
  /\ num = 0 /\ status = {}
  /\ lastAvailable = 0 /\ nextUsed = 0 /\ availIdx = 0 /\ usedIdx = 0
  /\ seen = 0
  /\ availRing = [slot \in Heads |-> 0]
  /\ usedRing = [slot \in Heads |-> 0]
  /\ request = [head \in Heads |-> "free"]

LEMMA FreshWindow == QueueInv /\ Fresh => WindowInv /\ Length = 0 /\ Done = 0
<1> SUFFICES ASSUME QueueInv, Fresh
             PROVE  WindowInv /\ Length = 0 /\ Done = 0
  OBVIOUS
<1> USE DEF Fresh
<1>1. 0 \in Indices
  BY IndexAssumption DEF Indices
<1>2. Length = 0 /\ Done = 0
  <2>1. Ahead(0, 0) = 0
    BY <1>1, Wrapping
  <2> QED BY <2>1 DEF Length, Done
<1>3. 0 \in Heads
  <2>1. MaxQueueSize \in Nat /\ MaxQueueSize # 0
    BY TransportAssumption DEF QueueSizes
  <2> QED BY <2>1 DEF Heads
<1>4. /\ availRing \in [Heads -> Heads] /\ usedRing \in [Heads -> Heads]
      /\ request \in [Heads -> {"free", "valid", "invalid"}]
  BY <1>3
<1>5. ~(0 < 0) /\ \A i \in 0 .. 0 - 1 : FALSE
  OBVIOUS
<1>6. \A i \in 0 .. Length - 1 : FALSE
  BY <1>2
<1>7. Done <= Length /\ Length <= num
  BY <1>2
<1>8. \A head \in Heads : request[head] = "free"
  OBVIOUS
<1> QED BY <1>2, <1>4, <1>6, <1>7, <1>8 DEF WindowInv

LEMMA FreshAgain ==
  QueueInv' /\ Reset => WindowInv' /\ (Length = 0)' /\ (Done = 0)'
<1>1. QueueInv /\ Fresh => WindowInv /\ Length = 0 /\ Done = 0
  BY FreshWindow
<1>2. QueueInv' /\ Fresh' => WindowInv' /\ (Length = 0)' /\ (Done = 0)'
  BY <1>1, PTL
<1>3. Reset => Fresh'
  BY DEF Reset, ResetTransport, Fresh
<1> QED BY <1>2, <1>3

\* The steps that leave the rings alone.
LEMMA QuietSteps ==
  ASSUME WindowInv,
         \/ SetUp
         \/ \E value \in BOOLEAN : Suppress(value)
         \/ Acknowledge
         \/ Finish
         \/ UNCHANGED vars
  PROVE  Quiet
<1>1. CASE SetUp
  <2>1. UNCHANGED <<indices, availIdx, availRing, used, seen, request>>
    BY <1>1 DEF SetUp, available, driver
  <2>2. num' = num \/ num = 0
    BY <1>1 DEF SetUp, WriteQueueReady, WriteStatus, queueSetup
  <2>3. "DEVICE_NEEDS_RESET" \in status' => "DEVICE_NEEDS_RESET" \in status
    BY <1>1 DEF SetUp, WriteQueueNum, WriteQueueReady, WriteStatus, negotiation
  <2> QED BY <2>1, <2>2, <2>3 DEF Quiet
<1>2. CASE \E value \in BOOLEAN : Suppress(value)
  BY <1>2 DEF Suppress, Quiet, transportVars, queueSetup, negotiation
<1>3. CASE Acknowledge
  BY <1>3 DEF Acknowledge, InterruptAck, Quiet, available, queueSetup,
              negotiation
<1>4. CASE Finish
  BY <1>4 DEF Finish, Quiet, available, transportVars, queueSetup, negotiation
<1>5. CASE UNCHANGED vars
  BY <1>5 DEF vars, Quiet, available, driver, transportVars, queueSetup,
              negotiation
<1> QED BY <1>1, <1>2, <1>3, <1>4, <1>5

LEMMA WindowStep ==
  ASSUME WindowInv, [Next]_vars
  PROVE  WindowInv'
<1>1. QueueInv'
  BY QueueStep, TransportStep, IndexStep DEF WindowInv, QueueInv
<1>2. CASE Reset
  BY <1>1, <1>2, FreshAgain
<1>3. ASSUME NEW head \in Heads, NEW kind \in {"valid", "invalid"},
             Submit(head, kind)
      PROVE  WindowInv'
  BY <1>1, <1>3, SubmitKeepsWindow
<1>4. CASE NotifyQueue
  BY <1>1, <1>4, NotifyKeepsWindow
<1>5. CASE Collect
  BY <1>1, <1>5, CollectKeepsWindow
<1>6. CASE \/ SetUp
           \/ \E value \in BOOLEAN : Suppress(value)
           \/ Acknowledge
           \/ Finish
           \/ UNCHANGED vars
  BY <1>1, <1>6, QuietSteps, QuietWindow
<1> QED BY <1>2, <1>3, <1>4, <1>5, <1>6 DEF Next

LEMMA WindowInvariant == Spec => []WindowInv
<1>1. Init => WindowInv
  <2> SUFFICES ASSUME Init PROVE WindowInv
    OBVIOUS
  <2>1. QueueInv
    <3>1. 0 \in 0 .. IndexMod - 1
      BY IndexAssumption
    <3> QED BY <3>1, TransportInit DEF Init, QueueInv, IndexTypes
  <2> QED BY <2>1, FreshWindow DEF Init, InitTransport, Fresh
<1> QED BY <1>1, WindowStep, PTL DEF Spec

\* Registers, indices, rings and the driver's variables have their types, and
\* the used index in memory is the device's own.
THEOREM QueueTypeCorrect == Spec => []TypeOK
<1>1. Init => handling \in BOOLEAN
  BY DEF Init
<1>2. handling \in BOOLEAN /\ [Next]_vars => (handling \in BOOLEAN)'
  <2> SUFFICES ASSUME handling \in BOOLEAN, [Next]_vars
               PROVE  handling' \in BOOLEAN
    OBVIOUS
  <2>1. ASSUME NEW value \in BOOLEAN, Suppress(value)
        PROVE  handling' \in BOOLEAN
    BY <2>1 DEF Suppress
  <2>2. CASE ~ \E value \in BOOLEAN : Suppress(value)
    BY <2>2 DEF Next, vars, SetUp, Reset, Submit, NotifyQueue, Acknowledge,
                Collect, Finish, driver
  <2> QED BY <2>1, <2>2
<1>3. WindowInv /\ handling \in BOOLEAN => TypeOK
  <2> SUFFICES ASSUME WindowInv, handling \in BOOLEAN PROVE TypeOK
    OBVIOUS
  <2>1. TransportTypeOK /\ noInterrupt \in BOOLEAN /\ IndexTypes
    BY DEF WindowInv, QueueInv, TransportInv
  <2>2. /\ usedIdx = nextUsed
        /\ availRing \in [Heads -> Heads] /\ usedRing \in [Heads -> Heads]
        /\ request \in [Heads -> {"free", "valid", "invalid"}]
    BY DEF WindowInv
  <2> QED BY <2>1, <2>2 DEF TypeOK, IndexTypes
<1> QED BY <1>1, <1>2, <1>3, WindowInvariant, PTL DEF Spec

\* The device fails only for an invalid request: neither a wrapped index nor
\* a queue that was stopped, or failed half way, looks like an overrun to
\* process_available.
THEOREM DeviceFailsOnlyOnInvalid == Spec => []FailsOnlyOnInvalid
<1>1. WindowInv => FailsOnlyOnInvalid
  <2> SUFFICES ASSUME WindowInv, "DEVICE_NEEDS_RESET" \in status
               PROVE  Waiting # <<>> /\ request[Waiting[1]] = "invalid"
    BY DEF FailsOnlyOnInvalid
  <2>1. Done < Length /\ request[At(Done)] = "invalid"
    BY DEF WindowInv
  <2>2. Done \in Nat /\ Length \in Nat
    BY Counts DEF WindowInv, QueueInv
  <2>3. Waiting = [i \in 1 .. Length - Done |-> At(Done + i - 1)]
    BY RingsAre
  <2>4. 1 \in 1 .. Length - Done /\ Done + 1 - 1 = Done
    BY <2>1, <2>2
  <2>5. Waiting[1] = At(Done) /\ Len(Waiting) # 0
    BY <2>1, <2>2, <2>3, <2>4
  <2> QED BY <2>1, <2>5
<1> QED BY <1>1, WindowInvariant, PTL
-----------------------------------------------------------------------------
(***************************************************************************)
(* The rings implement the queue of RequestFifo. Finished and waiting      *)
(* requests are the two parts of the window, before and after Done; each   *)
(* step changes the window as the abstract step changes the two queues.    *)
(***************************************************************************)

Window == [i \in 0 .. Length - 1 |-> At(i)]

\* The queues in terms of the window.
TwoParts ==
  /\ Done \in Nat /\ Length \in Nat /\ Done <= Length
  /\ Waiting \in Seq(Heads) /\ Len(Waiting) = Length - Done
  /\ \A i \in 1 .. Length - Done : Waiting[i] = Window[Done + i - 1]
  /\ Finished \in Seq(Heads) /\ Len(Finished) = Done
  /\ \A i \in 1 .. Done : Finished[i] = Window[i - 1]

LEMMA Parts == WindowInv => TwoParts
<1> SUFFICES ASSUME WindowInv PROVE TwoParts
  OBVIOUS
<1>1. /\ Waiting = [i \in 1 .. Length - Done |-> At(Done + i - 1)]
      /\ Finished = [i \in 1 .. Done |-> At(i - 1)]
      /\ Done \in Nat /\ Length \in Nat /\ Done <= Length
  BY RingsAre, Counts DEF WindowInv, QueueInv
<1>2. \A i \in 0 .. Length - 1 : At(i) \in Heads
  <2>1. CASE num = 0
    BY <1>1, <2>1 DEF WindowInv
  <2>2. CASE num # 0
    BY <2>2, SizeOfQueue DEF WindowInv, QueueInv
  <2> QED BY <2>1, <2>2
<1>3. /\ \A i \in 1 .. Length - Done :
           Done + i - 1 \in 0 .. Length - 1
      /\ \A i \in 1 .. Done : i - 1 \in 0 .. Length - 1
  BY <1>1
<1>4. Waiting \in [1 .. Length - Done -> Heads]
  BY <1>1, <1>2, <1>3
<1>5. Finished \in [1 .. Done -> Heads]
  BY <1>1, <1>2, <1>3
<1>6. Length - Done \in Nat
  BY <1>1
<1>7. Waiting \in Seq(Heads) /\ Len(Waiting) = Length - Done
  BY <1>4, <1>6
<1>8. Finished \in Seq(Heads) /\ Len(Finished) = Done
  BY <1>1, <1>5
<1> QED BY <1>1, <1>3, <1>7, <1>8 DEF TwoParts, Window

LEMMA PartsNext == WindowInv' => TwoParts'
BY Parts, PTL

\* What a step has to do to the window to leave the queues alone.
LEMMA SameQueues ==
  ASSUME WindowInv, WindowInv', Length' = Length, Done' = Done,
         \A i \in 0 .. Length - 1 : At(i)' = At(i)
  PROVE  Waiting' = Waiting /\ Finished' = Finished
<1>1. TwoParts /\ TwoParts'
  BY Parts, PartsNext
<1>2. Window' = Window
  BY DEF Window
<1>3. Waiting' = Waiting
  <2>1. \A i \in 1 .. Length - Done : Waiting'[i] = Waiting[i]
    BY <1>1, <1>2 DEF TwoParts
  <2> QED BY <1>1, <2>1, SeqEqual DEF TwoParts
<1>4. Finished' = Finished
  <2>1. \A i \in 1 .. Done : Finished'[i] = Finished[i]
    BY <1>1, <1>2 DEF TwoParts
  <2> QED BY <1>1, <2>1, SeqEqual DEF TwoParts
<1> QED BY <1>3, <1>4

\* A request that is made is outstanding nowhere, and joins the waiting ones.
LEMMA MakeStep ==
  ASSUME WindowInv, WindowInv', NEW head \in Heads,
         NEW kind \in {"valid", "invalid"}, Submit(head, kind)
  PROVE  Fifo!Make(head)
<1>1. TwoParts /\ TwoParts'
  BY Parts, PartsNext
<1>2. /\ \A i \in 0 .. Length - 1 : At(i) # head
      /\ Length' = Length + 1 /\ Done' = Done
      /\ \A i \in 0 .. Length - 1 : At(i)' = At(i)
      /\ \A i \in Nat : i = Length => At(i)' = head
  BY SubmitWindow
<1>3. Window' = [i \in 0 .. Length |->
                   IF i \in 0 .. Length - 1 THEN Window[i] ELSE head]
  <2>1. \A i \in 0 .. Length : ~(i \in 0 .. Length - 1) =>
          i = Length /\ i \in Nat
    BY <1>1 DEF TwoParts
  <2>2. Length' - 1 = Length
    BY <1>1, <1>2 DEF TwoParts
  <2>3. \A i \in 0 .. Length :
          At(i)' = IF i \in 0 .. Length - 1 THEN At(i) ELSE head
    BY <1>2, <2>1
  <2> QED BY <2>2, <2>3 DEF Window
<1>4. head \notin Fifo!Outstanding
  <2>1. \A i \in 0 .. Length - 1 : Window[i] # head
    BY <1>2 DEF Window
  <2>2. ASSUME NEW i \in 1 .. Length - Done PROVE Waiting[i] # head
    <3>1. Done + i - 1 \in 0 .. Length - 1
      BY <1>1 DEF TwoParts
    <3> QED BY <1>1, <2>1, <3>1 DEF TwoParts
  <2>3. ASSUME NEW i \in 1 .. Done PROVE Finished[i] # head
    <3>1. i - 1 \in 0 .. Length - 1
      BY <1>1 DEF TwoParts
    <3> QED BY <1>1, <2>1, <3>1 DEF TwoParts
  <2> QED BY <1>1, <2>2, <2>3 DEF TwoParts, Fifo!Outstanding, Fifo!ToSet
<1>5. Finished' = Finished
  <2>1. ASSUME NEW i \in 1 .. Done PROVE Finished'[i] = Finished[i]
    <3>1. i - 1 \in 0 .. Length - 1 /\ i - 1 \in 0 .. Length
      BY <1>1 DEF TwoParts
    <3>2. Finished'[i] = Window'[i - 1] /\ Finished[i] = Window[i - 1]
      BY <1>1, <1>2 DEF TwoParts
    <3> QED BY <1>3, <3>1, <3>2
  <2> QED BY <1>1, <1>2, <2>1, SeqEqual DEF TwoParts
<1>6. Waiting' = Append(Waiting, head)
  <2>1. /\ Append(Waiting, head) \in Seq(Heads)
        /\ Len(Append(Waiting, head)) = Length - Done + 1
        /\ \A i \in 1 .. Length - Done : Append(Waiting, head)[i] = Waiting[i]
        /\ Append(Waiting, head)[Length - Done + 1] = head
    <3>1. Waiting \in Seq(Heads) /\ Len(Waiting) = Length - Done
      BY <1>1 DEF TwoParts
    <3> QED BY <3>1, AppendProperties
  <2>2. ASSUME NEW i \in 1 .. Length - Done + 1
        PROVE  Waiting'[i] = Append(Waiting, head)[i]
    <3>1. i \in 1 .. Length' - Done' /\ Done + i - 1 \in 0 .. Length
      BY <1>1, <1>2 DEF TwoParts
    <3>2. Waiting'[i] = Window'[Done + i - 1]
      BY <1>1, <1>2, <3>1 DEF TwoParts
    <3>3. CASE i \in 1 .. Length - Done
      <4>1. Done + i - 1 \in 0 .. Length - 1
        BY <1>1, <3>3 DEF TwoParts
      <4> QED BY <1>1, <1>3, <2>1, <3>1, <3>2, <3>3, <4>1 DEF TwoParts
    <3>4. CASE i \notin 1 .. Length - Done
      <4>1. i = Length - Done + 1 /\ Done + i - 1 = Length
        BY <1>1, <3>4 DEF TwoParts
      <4>2. Length \notin 0 .. Length - 1 /\ Length \in 0 .. Length
        BY <1>1 DEF TwoParts
      <4> QED BY <1>3, <2>1, <3>2, <4>1, <4>2
    <3> QED BY <3>3, <3>4
  <2>3. Len(Waiting') = Length - Done + 1
    BY <1>1, <1>2 DEF TwoParts
  <2> QED BY <1>1, <2>1, <2>2, <2>3, SeqEqual DEF TwoParts
<1> QED BY <1>4, <1>5, <1>6 DEF Fifo!Make

\* A notification finishes the oldest requests, or none.
LEMMA FinishStep ==
  ASSUME WindowInv, WindowInv', NotifyQueue
  PROVE  Fifo!Finish \/ UNCHANGED <<Waiting, Finished>>
<1>1. TwoParts /\ TwoParts'
  BY Parts, PartsNext
<1>2. PICK n \in 0 .. Length - Done : CompleteRequests(Batch, n)
  BY NotifyWindow
<1>3. /\ Length' = Length /\ Done' = Done + n
      /\ \A i \in 0 .. Length - 1 : At(i)' = At(i)
  BY <1>2, NotifyWindow, CompleteWindow
<1>4. CASE n = 0
  <2>1. Done' = Done
    BY <1>1, <1>3, <1>4 DEF TwoParts
  <2> QED BY <1>3, <2>1, SameQueues
<1>5. CASE n # 0
  <2>1. /\ n \in 1 .. Len(Waiting) /\ Len(Waiting) = Length - Done
        /\ Len(Waiting) \in Nat /\ Waiting \in Seq(Heads)
        /\ Finished \in Seq(Heads) /\ Len(Finished) = Done /\ Done \in Nat
        /\ Length \in Nat
        /\ Finished' \in Seq(Heads) /\ Len(Finished') = Done + n
        /\ Waiting' \in Seq(Heads) /\ Len(Waiting') = Length - (Done + n)
    BY <1>1, <1>3, <1>5 DEF TwoParts
  <2>2. Window' = Window
    BY <1>3 DEF Window
  <2>3. /\ \A i \in 1 .. Length - Done : Waiting[i] = Window[Done + i - 1]
        /\ \A i \in 1 .. Done : Finished[i] = Window[i - 1]
        /\ \A i \in 1 .. Length - (Done + n) :
             Waiting'[i] = Window[Done + n + i - 1]
        /\ \A i \in 1 .. Done + n : Finished'[i] = Window[i - 1]
    BY <1>1, <1>3, <2>2 DEF TwoParts
  <2> DEFINE first == SubSeq(Waiting, 1, n)
             rest == SubSeq(Waiting, n + 1, Len(Waiting))
  <2>4. /\ first \in Seq(Heads) /\ Len(first) = n
        /\ \A i \in 1 .. n : first[i] = Waiting[i]
    <3>1. \A i \in 1 .. n : Waiting[i] \in Heads
      BY <2>1, ElementOfSeq
    <3>2. 1 \in Int /\ n \in Int /\ 1 <= n /\ n - 1 + 1 = n
          /\ \A i \in 1 .. n : 1 + i - 1 = i
      BY <2>1
    <3> QED BY <3>1, <3>2, SubSeqProperties
  <2>5. /\ rest \in Seq(Heads) /\ Len(rest) = Length - (Done + n)
        /\ \A i \in 1 .. Length - (Done + n) : rest[i] = Waiting[n + i]
    <3>1. \A i \in n + 1 .. Len(Waiting) : Waiting[i] \in Heads
      BY <2>1, ElementOfSeq
    <3>2. n + 1 \in Int /\ Len(Waiting) \in Int
      BY <2>1
    <3>3. /\ rest \in Seq(Heads)
          /\ Len(rest) = IF n + 1 <= Len(Waiting)
                         THEN Len(Waiting) - (n + 1) + 1 ELSE 0
          /\ \A i \in 1 .. Len(Waiting) - (n + 1) + 1 :
               rest[i] = Waiting[n + 1 + i - 1]
      BY <3>1, <3>2, SubSeqProperties
    <3>4. Len(Waiting) - (n + 1) + 1 = Length - (Done + n)
          /\ \A i \in Int : n + 1 + i - 1 = n + i
      BY <2>1
    <3> HIDE DEF rest
    <3>5. Len(rest) = Length - (Done + n)
      BY <2>1, <3>3
    <3>6. ASSUME NEW i \in 1 .. Length - (Done + n)
          PROVE  rest[i] = Waiting[n + i]
      <4>1. i \in 1 .. Len(Waiting) - (n + 1) + 1 /\ n + 1 + i - 1 = n + i
        BY <3>4
      <4>2. rest[i] = Waiting[n + 1 + i - 1]
        BY <3>3, <4>1
      <4> QED BY <4>1, <4>2
    <3> QED BY <3>3, <3>5, <3>6
  <2> HIDE DEF first, rest
  <2>6. Waiting' = rest
    <3>1. ASSUME NEW i \in 1 .. Length - (Done + n) PROVE Waiting'[i] = rest[i]
      <4>1. n + i \in 1 .. Length - Done /\ Done + (n + i) - 1 = Done + n + i - 1
        BY <2>1
      <4> QED BY <2>3, <2>5, <4>1
    <3> QED BY <2>1, <2>5, <3>1, SeqEqual
  <2>7. Finished' = Finished \o first
    <3>1. /\ Finished \o first \in Seq(Heads)
          /\ Len(Finished \o first) = Done + n
          /\ \A i \in 1 .. Done + n : (Finished \o first)[i] =
               IF i <= Done THEN Finished[i] ELSE first[i - Done]
      BY <2>1, <2>4, ConcatProperties
    <3>2. ASSUME NEW i \in 1 .. Done + n
          PROVE  Finished'[i] = (Finished \o first)[i]
      <4>1. CASE i <= Done
        <5>1. i \in 1 .. Done
          BY <2>1, <4>1
        <5>2. Finished'[i] = Finished[i]
          BY <2>3, <5>1
        <5> QED BY <3>1, <4>1, <5>2
      <4>2. CASE ~(i <= Done)
        <5>1. i - Done \in 1 .. n /\ i - Done \in 1 .. Length - Done
              /\ Done + (i - Done) - 1 = i - 1
          BY <2>1, <4>2
        <5> QED BY <2>3, <2>4, <3>1, <4>2, <5>1
      <4> QED BY <4>1, <4>2
    <3> QED BY <2>1, <3>1, <3>2, SeqEqual
  <2> QED BY <2>1, <2>6, <2>7 DEF Fifo!Finish, first, rest
<1> QED BY <1>4, <1>5

\* The driver collects the oldest finished request.
LEMMA CollectStep ==
  ASSUME WindowInv, WindowInv', Collect
  PROVE  Fifo!Collect
<1>1. TwoParts /\ TwoParts'
  BY Parts, PartsNext
<1>2. /\ Done > 0 /\ Length' = Length - 1 /\ Done' = Done - 1
      /\ \A i \in 0 .. Length - 2 : At(i)' = At(i + 1)
  BY CollectWindow
<1>3. \A i \in 0 .. Length - 2 : Window'[i] = Window[i + 1]
  <2>1. /\ Length' - 1 = Length - 2
        /\ \A i \in 0 .. Length - 2 : i + 1 \in 0 .. Length - 1
    BY <1>1, <1>2 DEF TwoParts
  <2> QED BY <1>2, <2>1 DEF Window
<1>4. /\ Done \in Nat /\ Length \in Nat /\ Done <= Length
      /\ Waiting \in Seq(Heads) /\ Waiting' \in Seq(Heads)
      /\ Len(Waiting) = Length - Done /\ Len(Waiting') = Length - Done
      /\ Finished \in Seq(Heads) /\ Len(Finished) = Done
      /\ Finished' \in Seq(Heads) /\ Len(Finished') = Done - 1
      /\ \A i \in 1 .. Length - Done :
           /\ Waiting[i] = Window[Done + i - 1]
           /\ Waiting'[i] = Window'[(Done - 1) + i - 1]
      /\ \A i \in 1 .. Done : Finished[i] = Window[i - 1]
      /\ \A i \in 1 .. Done - 1 : Finished'[i] = Window'[i - 1]
  BY <1>1, <1>2 DEF TwoParts
<1>5. Waiting' = Waiting
  <2>1. ASSUME NEW i \in 1 .. Length - Done PROVE Waiting'[i] = Waiting[i]
    <3>1. (Done - 1) + i - 1 \in 0 .. Length - 2
          /\ (Done - 1) + i - 1 + 1 = Done + i - 1
      BY <1>2, <1>4
    <3> QED BY <1>3, <1>4, <3>1
  <2> QED BY <1>4, <2>1, SeqEqual
<1>6. Finished # <<>>
  BY <1>2, <1>4
<1>7. /\ Tail(Finished) \in Seq(Heads) /\ Len(Tail(Finished)) = Done - 1
      /\ \A i \in 1 .. Done - 1 : Tail(Finished)[i] = Finished[i + 1]
  <2>1. /\ Tail(Finished) \in Seq(Heads)
        /\ Len(Tail(Finished)) = Len(Finished) - 1
        /\ \A i \in 1 .. Len(Tail(Finished)) :
             Tail(Finished)[i] = Finished[i + 1]
    BY <1>4, <1>6, HeadTailProperties
  <2> QED BY <1>4, <2>1
<1>8. Finished' = Tail(Finished)
  <2>1. ASSUME NEW i \in 1 .. Done - 1
        PROVE  Finished'[i] = Tail(Finished)[i]
    <3>1. i - 1 \in 0 .. Length - 2 /\ (i - 1) + 1 = i /\ i + 1 \in 1 .. Done
          /\ (i + 1) - 1 = i
      BY <1>4
    <3>2. Finished'[i] = Window[i]
      BY <1>3, <1>4, <3>1
    <3> QED BY <1>4, <1>7, <3>1, <3>2
  <2> QED BY <1>4, <1>7, <2>1, SeqEqual
<1> QED BY <1>5, <1>6, <1>8 DEF Fifo!Collect

\* Every step is a step of the abstract queue, or leaves it alone.
LEMMA FifoStep ==
  ASSUME WindowInv, WindowInv', [Next]_vars
  PROVE  [Fifo!Next]_<<Waiting, Finished>>
<1>1. CASE Reset
  <2>1. (Length = 0)' /\ (Done = 0)'
    BY <1>1, FreshAgain DEF WindowInv
  <2>2. TwoParts'
    BY PartsNext
  <2>3. Waiting' = <<>> /\ Finished' = <<>>
    <3>1. /\ Waiting' \in Seq(Heads) /\ Len(Waiting') = 0
          /\ Finished' \in Seq(Heads) /\ Len(Finished') = 0
      BY <2>1, <2>2 DEF TwoParts
    <3> QED BY <3>1, EmptySeq
  <2> QED BY <2>3 DEF Fifo!Next, Fifo!Reset
<1>2. ASSUME NEW head \in Heads, NEW kind \in {"valid", "invalid"},
             Submit(head, kind)
      PROVE  Fifo!Next
  BY <1>2, MakeStep DEF Fifo!Next
<1>3. CASE NotifyQueue
  BY <1>3, FinishStep DEF Fifo!Next
<1>4. CASE Collect
  BY <1>4, CollectStep DEF Fifo!Next
<1>5. CASE \/ SetUp
           \/ \E value \in BOOLEAN : Suppress(value)
           \/ Acknowledge
           \/ Finish
           \/ UNCHANGED vars
  <2>1. /\ Length' = Length /\ Done' = Done
        /\ \A i \in 0 .. Length - 1 : At(i)' = At(i)
    BY <1>5, QuietSteps, QuietWindow DEF WindowInv
  <2> QED BY <2>1, SameQueues
<1> QED BY <1>1, <1>2, <1>3, <1>4, <1>5 DEF Next

\* The rings, with their wrapping indices, batches that fail half way and
\* repeated notifications, implement the abstract queue of requests.
THEOREM RingsImplementFifo == Spec => ImplementsFifo
<1>1. Init => Fifo!Init
  BY DEF Init, InitTransport, Fifo!Init, Waiting, Finished
<1>2. WindowInv /\ WindowInv' /\ [Next]_vars => [Fifo!Next]_<<Waiting, Finished>>
  BY FifoStep
<1> QED
  BY <1>1, <1>2, WindowInvariant, PTL DEF Spec, ImplementsFifo, Fifo!Spec
-----------------------------------------------------------------------------
(***************************************************************************)
(* One request. A message is a sequence of cells whatever the descriptors  *)
(* say, so its header, data and status lie where the layout puts them; the *)
(* rest is what one transfer does to guest memory and the medium.          *)
(***************************************************************************)
CellsOfChains == [addr : Nat, of : Nat, writable : BOOLEAN]

\* Following a chain yields descriptor indices.
LEMMA ChainTyped ==
  ASSUME table \in Tables, num \in Nat, num <= MaxQueueSize, NEW head \in Nat
  PROVE  ChainIndex(head) \in [1 .. num -> Nat]
<1>1. table \in [0 .. MaxQueueSize - 1 -> Descriptors]
  BY DiskAssumption
<1>2. MaxQueueSize \in Nat
  BY TransportAssumption
<1> DEFINE step == [x \in Nat \X (1 .. num) |->
                      IF x[1] < num THEN table[x[1]].next ELSE num]
           Equation(f) == f = [i \in 1 .. num |->
                                 IF i = 1 THEN head
                                 ELSE IF f[i - 1] < num
                                 THEN table[f[i - 1]].next ELSE num]
<1>3. step \in [Nat \X (1 .. num) -> Nat]
  <2>1. \A k \in Nat : k < num => table[k].next \in Nat
    BY <1>1, <1>2 DEF Descriptors
  <2> QED BY <2>1
<1>4. PICK f \in [1 .. num -> Nat] :
        \A i \in 1 .. num : f[i] = IF i = 1 THEN head ELSE step[<<f[i - 1], i>>]
  <2> HIDE DEF step
  <2>1. step \in Steps(Nat, 1, num)
    BY <1>3 DEF Steps
  <2>2. \E f : IsRecursive(f, Nat, head, 1, num, step)
    BY <2>1, Recursion
  <2> QED BY <2>2 DEF IsRecursive
<1>5. Equation(f)
  <2>1. ASSUME NEW i \in 1 .. num, i # 1
        PROVE  step[<<f[i - 1], i>>] =
                 IF f[i - 1] < num THEN table[f[i - 1]].next ELSE num
    <3>1. i - 1 \in 1 .. num
      BY <2>1
    <3>2. <<f[i - 1], i>> \in Nat \X (1 .. num)
      BY <1>4, <3>1
    <3> QED BY <3>2
  <2> HIDE DEF step
  <2> QED BY <1>4, <2>1
<1>6. Equation(ChainIndex(head))
  <2>1. ChainIndex(head) = CHOOSE g : Equation(g)
    BY DEF ChainIndex
  <2> HIDE DEF Equation
  <2> QED BY <1>5, <2>1
<1> DEFINE at == ChainIndex(head)
<1>7. /\ at = [i \in 1 .. num |-> at[i]]
      /\ \A i \in 1 .. num : at[i] = IF i = 1 THEN head
                                     ELSE IF at[i - 1] < num
                                     THEN table[at[i - 1]].next ELSE num
  <2> HIDE DEF at
  <2> QED BY <1>6 DEF at
<1> HIDE DEF at
<1>8. \A i \in 1 .. num : at[i] \in Nat
  <2> DEFINE K == {i \in 1 .. num : at[i] \notin Nat}
  <2>1. K = {}
    <3> SUFFICES ASSUME K # {} PROVE FALSE
      OBVIOUS
    <3>1. K \in SUBSET Nat
      OBVIOUS
    <3>2. PICK k \in K : \A j \in K : k <= j
      <4> HIDE DEF K
      <4> QED BY <3>1, Least
    <3>3. k # 1
      BY <1>7
    <3>4. k - 1 \in 1 .. num /\ k - 1 \notin K
      BY <3>2, <3>3
    <3>5. at[k - 1] \in Nat
      BY <3>4
    <3>6. at[k - 1] < num => table[at[k - 1]] \in Descriptors
      BY <1>1, <1>2, <3>5
    <3> QED BY <1>7, <3>2, <3>3, <3>5, <3>6 DEF Descriptors
  <2> QED BY <2>1
<1> QED BY <1>7, <1>8 DEF at

\* The length of a chain is the place of its first descriptor without a next.
LEMMA OneLength ==
  ASSUME num \in Nat, NEW head, NEW n \in 1 .. num, NEW k \in 1 .. num,
         IsChain(head, n), IsChain(head, k)
  PROVE  n = k
<1>1. ~(n < k)
  <2> SUFFICES ASSUME n < k PROVE FALSE
    OBVIOUS
  <2>1. n \in 1 .. k - 1
    OBVIOUS
  <2> QED BY <2>1 DEF IsChain
<1>2. ~(k < n)
  <2> SUFFICES ASSUME k < n PROVE FALSE
    OBVIOUS
  <2>1. k \in 1 .. n - 1
    OBVIOUS
  <2> QED BY <2>1 DEF IsChain
<1> QED BY <1>1, <1>2

\* The message in a chain is a sequence of cells.
LEMMA MessageTyped ==
  ASSUME table \in Tables, num \in Nat, num <= MaxQueueSize, NEW head \in Nat,
         NEW n \in 1 .. num, IsChain(head, n)
  PROVE  Message(head, n) \in Seq(CellsOfChains)
<1> DEFINE S == Seq(CellsOfChains)
           d(i) == table[ChainIndex(head)[i]]
           Cells(i) == [j \in 1 .. d(i).len |->
                          [addr |-> d(i).addr + j - 1, of |-> i,
                           writable |-> "WRITE" \in d(i).flags]]
           step == [x \in S \X (0 .. n) |->
                      IF x[2] = 0 THEN x[1] ELSE x[1] \o Cells(x[2])]
           Equation(f) == f = [i \in 0 .. n |-> IF i = 0 THEN <<>>
                                                ELSE f[i - 1] \o Cells(i)]
<1>1. \A i \in 1 .. n : d(i) \in Descriptors
  <2>1. /\ table \in [0 .. MaxQueueSize - 1 -> Descriptors]
        /\ MaxQueueSize \in Nat
    BY DiskAssumption, TransportAssumption
  <2>2. \A i \in 1 .. n : /\ ChainIndex(head)[i] < num
                          /\ ChainIndex(head)[i] \in Nat
    <3>1. ChainIndex(head) \in [1 .. num -> Nat]
      BY ChainTyped
    <3>2. \A i \in 1 .. n : ChainIndex(head)[i] < num
      BY DEF IsChain
    <3> QED BY <3>1, <3>2
  <2> QED BY <2>1, <2>2
<1>2. ASSUME NEW i \in 1 .. n PROVE Cells(i) \in S
  <2>1. d(i).len \in Nat /\ d(i).addr \in Nat
    BY <1>1 DEF Descriptors
  <2> HIDE DEF d
  <2>2. \A j \in 1 .. d(i).len :
          [addr |-> d(i).addr + j - 1, of |-> i,
           writable |-> "WRITE" \in d(i).flags] \in CellsOfChains
    <3>1. \A j \in 1 .. d(i).len : d(i).addr + j - 1 \in Nat
      BY <2>1
    <3> QED BY <3>1 DEF CellsOfChains
  <2>3. Cells(i) \in [1 .. d(i).len -> CellsOfChains]
    BY <2>2
  <2> HIDE DEF Cells
  <2> QED BY <2>1, <2>3, SeqDef
<1> HIDE DEF Cells
<1>3. step \in [S \X (0 .. n) -> S]
  <2>1. \A s \in S, i \in 1 .. n : s \o Cells(i) \in S
    BY <1>2, ConcatProperties
  <2>2. \A i \in 0 .. n : i = 0 \/ i \in 1 .. n
    OBVIOUS
  <2> HIDE DEF S
  <2> QED BY <2>1, <2>2
<1>4. PICK f \in [0 .. n -> S] :
        \A i \in 0 .. n : f[i] = IF i = 0 THEN <<>> ELSE step[<<f[i - 1], i>>]
  <2>1. <<>> \in S
    OBVIOUS
  <2> HIDE DEF step, S
  <2>2. step \in Steps(S, 0, n)
    BY <1>3 DEF Steps
  <2>3. \E f : IsRecursive(f, S, <<>>, 0, n, step)
    BY <2>1, <2>2, Recursion
  <2> QED BY <2>3 DEF IsRecursive
<1>5. Equation(f)
  <2>1. ASSUME NEW i \in 0 .. n, i # 0
        PROVE  step[<<f[i - 1], i>>] = f[i - 1] \o Cells(i)
    <3>1. i - 1 \in 0 .. n
      BY <2>1
    <3>2. <<f[i - 1], i>> \in S \X (0 .. n)
      BY <1>4, <3>1
    <3> HIDE DEF S
    <3> QED BY <2>1, <3>2
  <2> HIDE DEF step
  <2> QED BY <1>4, <2>1
<1> DEFINE first == CHOOSE g : Equation(g)
<1>6. Equation(first)
  <2> HIDE DEF Equation
  <2> QED BY <1>5
<1>7. Message(head, n) = first[n]
  BY DEF Message, Cells
<1> HIDE DEF first
<1>8. \A i \in 0 .. n : first[i] = IF i = 0 THEN <<>> ELSE first[i - 1] \o Cells(i)
  BY <1>6
<1>9. \A i \in 0 .. n : first[i] \in S
  <2> DEFINE K == {i \in 0 .. n : first[i] \notin S}
  <2>1. K = {}
    <3> SUFFICES ASSUME K # {} PROVE FALSE
      OBVIOUS
    <3>1. K \in SUBSET Nat
      OBVIOUS
    <3>2. PICK k \in K : \A j \in K : k <= j
      <4> HIDE DEF K
      <4> QED BY <3>1, Least
    <3>3. <<>> \in S
      OBVIOUS
    <3> HIDE DEF S
    <3>4. k # 0
      BY <1>8, <3>3
    <3>5. k - 1 \in 0 .. n /\ k - 1 \notin K
      BY <3>2, <3>4
    <3>6. first[k - 1] \in S /\ Cells(k) \in S
      BY <1>2, <3>2, <3>4, <3>5
    <3>7. first[k - 1] \o Cells(k) \in S
      BY <3>6, ConcatProperties DEF S
    <3> QED BY <1>8, <3>2, <3>4, <3>7
  <2> QED BY <2>1
<1> QED BY <1>7, <1>9

\* Where header, data and status lie in a message.
Answerable(message) == WellFormed(message) /\ StatusCell(message).addr \in GuestCells
LEMMA Layout ==
  ASSUME NEW message \in Seq(CellsOfChains), Answerable(message)
  PROVE  /\ Len(message) \in Nat /\ Len(message) > 2
         /\ DOMAIN message = 1 .. Len(message)
         /\ message \in [1 .. Len(message) -> CellsOfChains]
         /\ StatusCell(message) = message[Len(message)]
         /\ StatusCell(message).writable /\ StatusCell(message).addr \in GuestCells
         /\ message[1].addr \in GuestCells /\ message[2].addr \in GuestCells
         /\ DataCells(message) \in Seq(CellsOfChains)
         /\ Len(DataCells(message)) = Len(message) - 3
         /\ DOMAIN DataCells(message) = 1 .. Len(message) - 3
         /\ \A i \in 1 .. Len(message) - 3 : DataCells(message)[i] = message[i + 2]
<1>1. Len(message) \in Nat /\ Len(message) > 2
      /\ message \in [1 .. Len(message) -> CellsOfChains]
  BY LenProperties DEF Answerable, WellFormed
<1>2. /\ StatusCell(message) = message[Len(message)]
      /\ message[Len(message)].writable
      /\ message[Len(message)].addr \in GuestCells
  BY DEF StatusCell, Answerable, WellFormed
<1>3. message[1].addr \in GuestCells /\ message[2].addr \in GuestCells
  BY DEF Answerable, WellFormed
<1>4. \A i \in 3 .. Len(message) - 1 : message[i] \in CellsOfChains
  BY <1>1
<1>5. /\ DataCells(message) \in Seq(CellsOfChains)
      /\ Len(DataCells(message)) =
           IF 3 <= Len(message) - 1 THEN Len(message) - 1 - 3 + 1 ELSE 0
      /\ \A i \in 1 .. Len(message) - 1 - 3 + 1 :
           DataCells(message)[i] = message[3 + i - 1]
  <2>1. 3 \in Int /\ Len(message) - 1 \in Int
    BY <1>1
  <2> QED BY <1>4, <2>1, SubSeqProperties DEF DataCells
<1>6. Len(DataCells(message)) = Len(message) - 3
  <2> DEFINE L == Len(message)
             l == Len(DataCells(message))
  <2>1. L \in Nat /\ L > 2 /\ l = IF 3 <= L - 1 THEN L - 1 - 3 + 1 ELSE 0
    BY <1>1, <1>5
  <2> HIDE DEF L, l
  <2>2. l = L - 3
    BY <2>1
  <2> QED BY <2>2 DEF L, l
<1>7. ASSUME NEW i \in 1 .. Len(message) - 3
      PROVE  DataCells(message)[i] = message[i + 2]
  <2>1. i \in 1 .. Len(message) - 1 - 3 + 1 /\ 3 + i - 1 = i + 2
    BY <1>1
  <2> QED BY <1>5, <2>1
<1>8. DOMAIN DataCells(message) = 1 .. Len(message) - 3
  BY <1>5, <1>6, LenProperties
<1> QED BY <1>1, <1>2, <1>3, <1>5, <1>6, <1>7, <1>8

\* What complete_request does: the length in the used ring covers cells that
\* were written only.
Completes(message, code, filled, memory) ==
  /\ guest' = [memory EXCEPT ![StatusCell(message).addr] = code]
  /\ reply' = Answer(message, code, filled)
LEMMA CompleteStep ==
  ASSUME NEW message, StatusCell(message).addr \in GuestCells,
         NEW code \in Nat, NEW filled \in Nat, filled < MaxLength,
         NEW memory \in [GuestCells -> Nat],
         Completes(message, code, filled, memory)
  PROVE  /\ guest' \in [GuestCells -> Nat]
         /\ \A a \in GuestCells :
              a # StatusCell(message).addr => guest'[a] = memory[a]
         /\ reply'.outcome = "completed" /\ reply'.code = code
         /\ UsedLengthIsInitialised'
<1> DEFINE writable == Cardinality({i \in DOMAIN DataCells(message) :
                                      DataCells(message)[i].writable})
<1>1. /\ guest' = [memory EXCEPT ![StatusCell(message).addr] = code]
      /\ reply'.outcome = "completed" /\ reply'.code = code
      /\ reply'.length = filled + (IF filled = writable THEN 1 ELSE 0)
      /\ reply'.wrote = 1 .. filled \cup {writable + 1}
  BY DEF Completes, Answer, WrittenLength
<1>2. reply'.length <= MaxLength /\ 1 .. reply'.length \subseteq reply'.wrote
  <2> HIDE DEF writable
  <2>1. MaxLength \in Nat
    BY DiskAssumption
  <2>2. CASE filled = writable
    <3>1. reply'.length = filled + 1 /\ reply'.wrote = 1 .. filled \cup {filled + 1}
      BY <1>1, <2>2
    <3> QED BY <2>1, <3>1
  <2>3. CASE filled # writable
    <3>1. reply'.length = filled
      BY <1>1, <2>3
    <3> QED BY <1>1, <2>1, <3>1
  <2> QED BY <2>2, <2>3
<1>3. UsedLengthIsInitialised'
  BY <1>2 DEF UsedLengthIsInitialised
<1> QED BY <1>1, <1>3

\* A transfer into guest memory.
LEMMA ReadStep ==
  ASSUME NEW message \in Seq(CellsOfChains), Answerable(message),
         guest \in [GuestCells -> Nat], media \in [MediaCells -> Nat],
         NEW offset \in Nat,
         ValidTransfer(DataCells(message), offset, TRUE),
         NEW n \in 0 .. Len(DataCells(message)), NEW code \in Nat,
         Completes(message, code, n, ReadInto(DataCells(message), offset, n))
  PROVE  /\ guest' \in [GuestCells -> Nat]
         /\ reply'.outcome = "completed" /\ reply'.code = code
         /\ UsedLengthIsInitialised'
         /\ OnlyWritable(message)
         /\ n = Len(DataCells(message)) =>
              \A i \in DOMAIN DataCells(message) :
                \/ guest'[DataCells(message)[i].addr] = media[offset + i - 1]
                \/ \E j \in 3 .. Len(message) :
                     j # i + 2 /\ message[j].addr = DataCells(message)[i].addr
<1> DEFINE data == DataCells(message)
           L == Len(message)
           Into(a) == {i \in 1 .. n : data[i].addr = a}
           last(a) == CHOOSE i \in Into(a) : \A j \in Into(a) : j <= i
           memory == ReadInto(data, offset, n)
<1>1. /\ L \in Nat /\ L > 2 /\ DOMAIN message = 1 .. L
      /\ StatusCell(message) = message[L]
      /\ StatusCell(message).writable /\ StatusCell(message).addr \in GuestCells
      /\ Len(data) = L - 3 /\ DOMAIN data = 1 .. L - 3
      /\ \A i \in 1 .. L - 3 : data[i] = message[i + 2]
  BY Layout
<1>2. /\ \A i \in 1 .. L - 3 : data[i].writable /\ data[i].addr \in GuestCells
      /\ offset + (L - 3) <= MediaSize
  BY <1>1 DEF ValidTransfer
<1>3. memory = [a \in GuestCells |->
                  IF Into(a) = {} THEN guest[a] ELSE media[offset + last(a) - 1]]
  BY DEF ReadInto
<1>4. n \in Nat /\ n <= L - 3 /\ n \in 0 .. L - 3 /\ MediaSize \in Nat
  BY <1>1, DiskAssumption
<1> HIDE DEF data, memory
<1>5. ASSUME NEW a \in GuestCells, Into(a) # {}
      PROVE  last(a) \in Into(a) /\ \A j \in Into(a) : j <= last(a)
  <2>1. Into(a) \in SUBSET Nat /\ \A x \in Into(a) : x <= n
    OBVIOUS
  <2>2. \E i \in Into(a) : \A j \in Into(a) : j <= i
    <3> HIDE DEF Into
    <3> QED BY <1>4, <1>5, <2>1, Greatest
  <2> HIDE DEF Into
  <2> QED BY <2>2
<1>6. ASSUME NEW a \in GuestCells, Into(a) # {}
      PROVE  offset + last(a) - 1 \in MediaCells
  <2>1. PICK k \in 1 .. n : k = last(a)
    BY <1>5, <1>6
  <2>2. k \in 1 .. L - 3 /\ offset + (L - 3) <= MediaSize
    BY <1>2, <1>4
  <2> HIDE DEF last, L
  <2>3. offset + k - 1 \in 0 .. MediaSize - 1
    BY <1>1, <1>4, <2>2
  <2> QED BY <2>1, <2>3 DEF MediaCells
<1>7. memory \in [GuestCells -> Nat]
  <2> HIDE DEF last, Into
  <2> QED BY <1>3, <1>6
<1>8. /\ guest' \in [GuestCells -> Nat]
      /\ \A a \in GuestCells :
           a # StatusCell(message).addr => guest'[a] = memory[a]
      /\ reply'.outcome = "completed" /\ reply'.code = code
      /\ UsedLengthIsInitialised'
  <2>1. Completes(message, code, n, memory)
    BY DEF memory, data
  <2>2. n < MaxLength
    <3>1. Len(DataCells(message)) < MaxLength
      BY DEF ValidTransfer
    <3>2. MaxLength \in Nat /\ Len(DataCells(message)) = L - 3
      BY <1>1, DiskAssumption DEF data
    <3> QED BY <1>1, <1>4, <3>1, <3>2
  <2> QED BY <1>1, <1>4, <1>7, <2>1, <2>2, CompleteStep
<1>9. OnlyWritable(message)
  <2> SUFFICES ASSUME NEW a \in GuestCells, guest'[a] # guest[a]
               PROVE  \E i \in DOMAIN message :
                        message[i].addr = a /\ message[i].writable
    BY DEF OnlyWritable
  <2>1. CASE a = StatusCell(message).addr
    <3>1. L \in DOMAIN message
      BY <1>1
    <3>2. message[L].addr = a /\ message[L].writable
      BY <1>1, <2>1
    <3> QED BY <3>1, <3>2
  <2>2. CASE a # StatusCell(message).addr
    <3>1. Into(a) # {}
      <4> HIDE DEF last, Into
      <4> QED BY <1>3, <1>8, <2>2
    <3>2. PICK i \in 1 .. n : data[i].addr = a
      BY <3>1
    <3>3. i \in 1 .. L - 3 /\ i + 2 \in 1 .. L
      BY <1>1, <1>4
    <3> QED BY <1>1, <1>2, <3>2, <3>3
  <2> QED BY <2>1, <2>2
<1>10. ASSUME n = Len(data), NEW i \in DOMAIN data
       PROVE  \/ guest'[data[i].addr] = media[offset + i - 1]
              \/ \E j \in 3 .. L :
                   j # i + 2 /\ message[j].addr = data[i].addr
  <2> SUFFICES ASSUME \A j \in 3 .. L :
                        j # i + 2 => message[j].addr # data[i].addr
               PROVE  guest'[data[i].addr] = media[offset + i - 1]
    OBVIOUS
  <2> DEFINE a == data[i].addr
  <2>1. i \in 1 .. L - 3 /\ i \in 1 .. n /\ a \in GuestCells
    BY <1>1, <1>2, <1>10
  <2>2. a # StatusCell(message).addr
    <3>1. L \in 3 .. L /\ L # i + 2
      BY <1>1, <2>1
    <3> QED BY <1>1, <3>1
  <2>3. i \in Into(a) /\ \A j \in Into(a) : j = i
    <3>1. ASSUME NEW j \in Into(a), j # i PROVE FALSE
      <4>1. j \in 1 .. L - 3 /\ j + 2 \in 3 .. L /\ j + 2 # i + 2
        BY <1>1, <1>4, <2>1, <3>1
      <4> QED BY <1>1, <3>1, <4>1
    <3> QED BY <2>1, <3>1
  <2>4. last(a) = i
    BY <1>5, <2>1, <2>3
  <2> HIDE DEF last, Into
  <2> QED BY <1>3, <1>8, <2>1, <2>2, <2>3, <2>4
<1> QED BY <1>8, <1>9, <1>10 DEF data

\* A transfer onto the medium.
LEMMA WriteStep ==
  ASSUME NEW message \in Seq(CellsOfChains), Answerable(message),
         guest \in [GuestCells -> Nat], media \in [MediaCells -> Nat],
         NEW offset \in Nat,
         ValidTransfer(DataCells(message), offset, FALSE),
         NEW n \in 0 .. Len(DataCells(message)),
         media' = WrittenTo(DataCells(message), offset, n)
  PROVE  /\ media' \in [MediaCells -> Nat]
         /\ n = Len(DataCells(message)) =>
              \A i \in DOMAIN DataCells(message) :
                media'[offset + i - 1] = guest[DataCells(message)[i].addr]
<1> DEFINE data == DataCells(message)
           L == Len(message)
<1>1. /\ L \in Nat /\ L > 2 /\ Len(data) = L - 3 /\ DOMAIN data = 1 .. L - 3
  BY Layout
<1>2. /\ \A i \in 1 .. L - 3 : data[i].addr \in GuestCells
      /\ offset + (L - 3) <= MediaSize /\ MediaSize \in Nat
  BY <1>1, DiskAssumption DEF ValidTransfer
<1>3. media' = [b \in MediaCells |-> IF b - offset \in 0 .. n - 1
                                     THEN guest[data[b - offset + 1].addr]
                                     ELSE media[b]]
  BY DEF WrittenTo
<1> HIDE DEF data
<1>4. ASSUME NEW b \in MediaCells, b - offset \in 0 .. n - 1
      PROVE  guest[data[b - offset + 1].addr] \in Nat
  <2>1. n \in 0 .. L - 3
    BY <1>1 DEF data
  <2>2. b \in Int /\ L \in Nat
    BY <1>1 DEF MediaCells
  <2> HIDE DEF L
  <2>3. b - offset + 1 \in 1 .. L - 3
    BY <1>4, <2>1, <2>2
  <2> QED BY <1>2, <2>3
<1>5. ASSUME n = Len(data), NEW i \in DOMAIN data
      PROVE  media'[offset + i - 1] = guest[data[i].addr]
  <2>1. i \in 1 .. L - 3
    BY <1>1, <1>5
  <2>2. /\ offset + i - 1 \in MediaCells
        /\ (offset + i - 1) - offset \in 0 .. n - 1
        /\ (offset + i - 1) - offset + 1 = i
    <3>1. L \in Nat /\ n = L - 3
      BY <1>1, <1>5
    <3> HIDE DEF L
    <3>2. i \in Int /\ 1 <= i /\ i <= n
      BY <2>1, <3>1
    <3>3. offset + n <= MediaSize /\ MediaSize \in Nat
      BY <1>2, <3>1
    <3>4. offset + i - 1 \in 0 .. MediaSize - 1
      BY <3>1, <3>2, <3>3
    <3>5. (offset + i - 1) - offset = i - 1
      BY <3>2
    <3> QED BY <3>1, <3>2, <3>4, <3>5 DEF MediaCells
  <2> QED BY <1>3, <2>2
<1> QED BY <1>3, <1>4, <1>5 DEF data

\* A completion that moves nothing into guest memory touches the status only.
LEMMA OnlyStatus ==
  ASSUME NEW message \in Seq(CellsOfChains), Answerable(message),
         guest \in [GuestCells -> Nat], NEW code \in Nat,
         Completes(message, code, 0, guest)
  PROVE  /\ guest' \in [GuestCells -> Nat]
         /\ reply'.outcome = "completed" /\ reply'.code = code
         /\ UsedLengthIsInitialised'
         /\ OnlyWritable(message)
<1>1. /\ Len(message) \in Nat /\ Len(message) > 2
      /\ DOMAIN message = 1 .. Len(message)
      /\ StatusCell(message) = message[Len(message)]
      /\ StatusCell(message).writable /\ StatusCell(message).addr \in GuestCells
  BY Layout
<1>2. /\ guest' \in [GuestCells -> Nat]
      /\ \A a \in GuestCells :
           a # StatusCell(message).addr => guest'[a] = guest[a]
      /\ reply'.outcome = "completed" /\ reply'.code = code
      /\ UsedLengthIsInitialised'
  BY <1>1, CompleteStep, DiskAssumption
<1>3. Len(message) \in DOMAIN message
  BY <1>1
<1> QED BY <1>1, <1>2, <1>3 DEF OnlyWritable

\* Whatever the request is and wherever the backend fails, the device answers
\* truthfully.
Serves(message) ==
  LET data   == DataCells(message)
      type   == guest[message[1].addr]
      offset == guest[message[2].addr] * SectorSize
  IN  \/ \E code \in {IoErr, Unsupp} :
           Completes(message, code, 0, guest) /\ UNCHANGED media
      \/ /\ type \in {In, Out} /\ ValidTransfer(data, offset, type = In)
         /\ \E n \in Moves(data) :
              LET code == IF n = Len(data) THEN Ok ELSE IoErr
              IN  \/ /\ type = In
                     /\ Completes(message, code, n, ReadInto(data, offset, n))
                     /\ UNCHANGED media
                  \/ /\ type = Out
                     /\ Completes(message, code, 0, guest)
                     /\ media' = WrittenTo(data, offset, n)
LEMMA ServeStep ==
  ASSUME NEW message \in Seq(CellsOfChains), Answerable(message),
         guest \in [GuestCells -> Nat], media \in [MediaCells -> Nat],
         Serves(message)
  PROVE  /\ guest' \in [GuestCells -> Nat] /\ media' \in [MediaCells -> Nat]
         /\ reply'.outcome = "completed"
         /\ UsedLengthIsInitialised'
         /\ OnlyWritable(message)
         /\ guest[message[1].addr] # Out => media' = media
         /\ reply'.code = Ok => Transferred(message)
<1> DEFINE data == DataCells(message)
           type == guest[message[1].addr]
           offset == guest[message[2].addr] * SectorSize
<1>1. Ok \in Nat /\ IoErr \in Nat /\ Unsupp \in Nat
      /\ Ok # IoErr /\ Ok # Unsupp /\ In # Out
  BY DEF Ok, IoErr, Unsupp, In, Out
<1>2. offset \in Nat /\ DOMAIN data = 1 .. Len(data) /\ Len(data) \in Nat
  <2>1. message[2].addr \in GuestCells /\ data \in Seq(CellsOfChains)
    BY Layout
  <2>2. guest[message[2].addr] \in Nat /\ SectorSize \in Nat
    BY <2>1, DiskAssumption
  <2>3. offset \in Nat
    <3>1. \A x, y \in Nat : x * y \in Nat
      OBVIOUS
    <3> QED BY <2>2, <3>1
  <2> QED BY <2>1, <2>3, LenProperties
<1>3. CASE \E code \in {IoErr, Unsupp} :
             Completes(message, code, 0, guest) /\ UNCHANGED media
  <2>1. PICK code \in {IoErr, Unsupp} :
          Completes(message, code, 0, guest) /\ UNCHANGED media
    BY <1>3
  <2>2. Completes(message, code, 0, guest) /\ media' = media
    BY <2>1
  <2>3. code \in Nat /\ code # Ok
    BY <1>1
  <2> QED BY <2>2, <2>3, OnlyStatus
<1>4. ASSUME type \in {In, Out}, ValidTransfer(data, offset, type = In),
             NEW n \in Moves(data),
             NEW code \in {Ok, IoErr}, code = IF n = Len(data) THEN Ok ELSE IoErr,
             \/ /\ type = In
                /\ Completes(message, code, n, ReadInto(data, offset, n))
                /\ UNCHANGED media
             \/ /\ type = Out
                /\ Completes(message, code, 0, guest)
                /\ media' = WrittenTo(data, offset, n)
      PROVE  /\ guest' \in [GuestCells -> Nat] /\ media' \in [MediaCells -> Nat]
             /\ reply'.outcome = "completed"
             /\ UsedLengthIsInitialised'
             /\ OnlyWritable(message)
             /\ type # Out => media' = media
             /\ reply'.code = Ok => Transferred(message)
  <2>1. n \in 0 .. Len(data) /\ code \in Nat /\ (code = Ok => n = Len(data))
    BY <1>1, <1>4 DEF Moves
  <2>2. CASE type = In
    <3>1. /\ Completes(message, code, n, ReadInto(data, offset, n))
          /\ UNCHANGED media /\ ValidTransfer(data, offset, TRUE) /\ type # Out
      BY <1>1, <1>4, <2>2
    <3> HIDE DEF offset
    <3>2. /\ guest' \in [GuestCells -> Nat]
          /\ reply'.outcome = "completed" /\ reply'.code = code
          /\ UsedLengthIsInitialised'
          /\ OnlyWritable(message)
          /\ n = Len(data) =>
               \A i \in DOMAIN data :
                 \/ guest'[data[i].addr] = media[offset + i - 1]
                 \/ \E j \in 3 .. Len(message) :
                      j # i + 2 /\ message[j].addr = data[i].addr
      BY <1>2, <2>1, <3>1, ReadStep
    <3>3. reply'.code = Ok => Transferred(message)
      BY <2>1, <3>1, <3>2 DEF Transferred, offset
    <3> QED BY <3>1, <3>2, <3>3
  <2>3. CASE type = Out
    <3>1. /\ Completes(message, code, 0, guest)
          /\ media' = WrittenTo(data, offset, n)
          /\ ValidTransfer(data, offset, FALSE)
      <4>1. (type = In) = FALSE
        BY <1>1, <2>3
      <4> QED BY <1>1, <1>4, <2>3, <4>1
    <3> HIDE DEF offset
    <3>2. /\ guest' \in [GuestCells -> Nat]
          /\ reply'.outcome = "completed" /\ reply'.code = code
          /\ UsedLengthIsInitialised'
          /\ OnlyWritable(message)
      BY <2>1, <3>1, OnlyStatus
    <3>3. /\ media' \in [MediaCells -> Nat]
          /\ n = Len(data) => \A i \in DOMAIN data :
                                media'[offset + i - 1] = guest[data[i].addr]
      BY <1>2, <2>1, <3>1, WriteStep
    <3>4. reply'.code = Ok => Transferred(message)
      BY <2>1, <2>3, <3>2, <3>3 DEF Transferred, offset
    <3> QED BY <2>3, <3>2, <3>3, <3>4
  <2> QED BY <1>4, <2>2, <2>3
<1>5. \/ \E code \in {IoErr, Unsupp} : Completes(message, code, 0, guest) /\ UNCHANGED media
      \/ /\ type \in {In, Out} /\ ValidTransfer(data, offset, type = In)
         /\ \E n \in Moves(data) :
              LET code == IF n = Len(data) THEN Ok ELSE IoErr
              IN  \/ /\ type = In
                     /\ Completes(message, code, n, ReadInto(data, offset, n))
                     /\ UNCHANGED media
                  \/ /\ type = Out
                     /\ Completes(message, code, 0, guest)
                     /\ media' = WrittenTo(data, offset, n)
  BY DEF Serves
<1>6. \A n : (IF n = Len(data) THEN Ok ELSE IoErr) \in {Ok, IoErr}
  OBVIOUS
<1> QED BY <1>3, <1>4, <1>5, <1>6

\* A request that a step of the handler has stopped has changed nothing: what
\* can fail after the transfer has been validated before. One that goes through
\* is answered.
LEMMA ProcessedIs ==
  ASSUME guest \in [GuestCells -> Nat], media \in [MediaCells -> Nat],
         NEW message, NEW usable,
         NEW t \in Transferring(Validated(Begun, message, usable), message),
         NEW r, r = Published(t, message, usable)
  PROVE  /\ ~r.ok => r.guest = guest /\ r.media = media
         /\ r.ok /\ guest' = r.guest /\ media' = r.media
            /\ reply' = Answer(message, r.code, r.filled)
            => Serves(message) /\ StatusCell(message).addr \in GuestCells
<1> DEFINE data == DataCells(message)
           type == guest[message[1].addr]
           offset == guest[message[2].addr] * SectorSize
           at == StatusCell(message).addr
<1>1. PICK good \in BOOLEAN :
        good <=> /\ at \in GuestCells /\ "element" \in usable /\ "index" \in usable
                 /\ guest[message[2].addr] <= MaxSector
  OBVIOUS
<1>2. PICK v : v = Validated(Begun, message, usable)
  OBVIOUS
<1>3. v = [ok |-> good, guest |-> guest, media |-> media, code |-> NoStatus, filled |-> 0]
  BY <1>1, <1>2 DEF Validated, Check, Begun
<1>4. t \in Transferring(v, message)
  BY <1>2
<1>5. CASE ~good
  <2>1. t = v
    BY <1>3, <1>4, <1>5 DEF Transferring
  <2>2. ~r.ok /\ r.guest = guest /\ r.media = media
    BY <1>3, <1>5, <2>1 DEF Published, Check
  <2> QED BY <2>2
<1>6. CASE good
  <2>1. /\ t.ok /\ t = [ok |-> t.ok, guest |-> t.guest, media |-> t.media,
                        code |-> t.code, filled |-> t.filled]
        /\ \/ /\ t.code \in {IoErr, Unsupp} /\ t.filled = 0
              /\ t.guest = guest /\ t.media = media
           \/ /\ type \in {In, Out} /\ ValidTransfer(data, offset, type = In)
              /\ \E n \in Moves(data) :
                   /\ t.code = IF n = Len(data) THEN Ok ELSE IoErr
                   /\ \/ /\ type = In /\ t.filled = n
                         /\ t.guest = ReadInto(data, offset, n) /\ t.media = media
                      \/ /\ type = Out /\ t.filled = 0
                         /\ t.guest = guest /\ t.media = WrittenTo(data, offset, n)
    <3>1. CASE type \notin {In, Out}
      <4>1. t = [v EXCEPT !.code = Unsupp]
        BY <1>3, <1>4, <1>6, <3>1 DEF Transferring
      <4> QED BY <1>3, <1>6, <4>1
    <3>2. CASE type \in {In, Out} /\ ~ValidTransfer(data, offset, type = In)
      <4>1. t = [v EXCEPT !.code = IoErr]
        BY <1>3, <1>4, <1>6, <3>2 DEF Transferring
      <4> QED BY <1>3, <1>6, <4>1
    <3>3. CASE type \in {In, Out} /\ ValidTransfer(data, offset, type = In)
      <4>1. PICK n \in Moves(data) : t = Moved(v, data, offset, type, n)
        BY <1>3, <1>4, <1>6, <3>3 DEF Transferring
      <4>2. PICK code : code = IF n = Len(data) THEN Ok ELSE IoErr
        OBVIOUS
      <4>3. CASE type = In
        <5>1. PICK memory : memory = ReadInto(data, offset, n)
          OBVIOUS
        <5>2. t = [v EXCEPT !.code = code, !.filled = n, !.guest = memory]
          BY <4>1, <4>2, <4>3, <5>1 DEF Moved
        <5>3. t = [ok |-> TRUE, guest |-> memory, media |-> media, code |-> code, filled |-> n]
          BY <1>3, <1>6, <5>2
        <5> QED BY <3>3, <4>2, <4>3, <5>1, <5>3
      <4>4. CASE type # In
        <5>1. PICK disk : disk = WrittenTo(data, offset, n)
          OBVIOUS
        <5>2. t = [v EXCEPT !.code = code, !.media = disk]
          BY <4>1, <4>2, <4>4, <5>1 DEF Moved
        <5>3. t = [ok |-> TRUE, guest |-> guest, media |-> disk, code |-> code, filled |-> 0]
          BY <1>3, <1>6, <5>2
        <5> QED BY <3>3, <4>2, <4>4, <5>1, <5>3
      <4> QED BY <4>3, <4>4
    <3> QED BY <3>1, <3>2, <3>3
  <2>2. /\ r.ok /\ r.guest = [t.guest EXCEPT ![at] = t.code]
        /\ r.media = t.media /\ r.code = t.code /\ r.filled = t.filled
    <3>1. PICK o, g, m, c, f : t = [ok |-> o, guest |-> g, media |-> m, code |-> c, filled |-> f]
                               /\ o
      BY <2>1
    <3>2. Check(t, at \in GuestCells) = t
      BY <1>1, <1>6, <3>1 DEF Check
    <3>3. PICK byte : byte = Check(t, at \in GuestCells)
      OBVIOUS
    <3>4. PICK w : w = IF byte.ok THEN [byte EXCEPT !.guest[at] = t.code] ELSE byte
      OBVIOUS
    <3>5. r = Check(Check(w, "element" \in usable), "index" \in usable)
      BY <3>3, <3>4 DEF Published
    <3>6. byte = t /\ t.ok
      BY <3>1, <3>2, <3>3
    <3>7. PICK h : h = [g EXCEPT ![at] = c]
      OBVIOUS
    <3>8. w = [ok |-> o, guest |-> h, media |-> m, code |-> c, filled |-> f]
      BY <3>1, <3>4, <3>6, <3>7
    <3>9. r = [ok |-> TRUE, guest |-> h, media |-> m, code |-> c, filled |-> f]
      BY <1>1, <1>6, <3>1, <3>5, <3>8 DEF Check
    <3>10. t.guest = g /\ t.media = m /\ t.code = c /\ t.filled = f
      BY <3>1
    <3>11. r.ok /\ r.guest = h /\ r.media = m /\ r.code = c /\ r.filled = f
      BY <3>9
    <3> QED BY <3>7, <3>10, <3>11
  <2>3. ASSUME guest' = r.guest, media' = r.media,
               reply' = Answer(message, r.code, r.filled)
        PROVE  Serves(message)
    <3>1. Completes(message, t.code, t.filled, t.guest) /\ media' = t.media
      BY <2>2, <2>3 DEF Completes
    <3> HIDE DEF type, offset, data
    <3>2. \/ \E code \in {IoErr, Unsupp} : Completes(message, code, 0, guest) /\ UNCHANGED media
          \/ /\ type \in {In, Out} /\ ValidTransfer(data, offset, type = In)
             /\ \E n \in Moves(data) :
                  LET code == IF n = Len(data) THEN Ok ELSE IoErr
                  IN  \/ /\ type = In
                         /\ Completes(message, code, n, ReadInto(data, offset, n))
                         /\ UNCHANGED media
                      \/ /\ type = Out
                         /\ Completes(message, code, 0, guest)
                         /\ media' = WrittenTo(data, offset, n)
      BY <2>1, <3>1
    <3> QED BY <3>2 DEF Serves, type, offset, data
  <2> QED BY <1>1, <1>6, <2>2, <2>3
<1> QED BY <1>5, <1>6

\* The inductive invariant of the device with its medium: registers, memory
\* and medium have their types, an answer belongs to a request, and its length
\* covers written cells only.
DiskInv ==
  /\ TransportInv
  /\ table \in Tables \cup {<<>>}
  /\ guest \in [GuestCells -> Nat] /\ media \in [MediaCells -> Nat]
  /\ table = <<>> => reply = NoReply
  /\ UsedLengthIsInitialised

\* What one step promises about the request it answers.
AnswersHonestly ==
  /\ reply'.outcome = "failed" => UNCHANGED <<guest, media>>
  /\ reply = NoReply /\ reply'.outcome = "completed" =>
       /\ OnlyWritable(Request)
       /\ guest[Request[1].addr] # Out => media' = media
       /\ reply'.code = Ok => Transferred(Request)

\* Memory and medium as the driver and the host prepare them.
LEMMA FreshTyped ==
  FreshGuest \in [GuestCells -> Nat] /\ FreshMedia \in [MediaCells -> Nat]
<1>1. \A a \in GuestCells : 100 + a \in Nat
  BY DEF GuestCells
<1>2. \A b \in MediaCells : 200 + b \in Nat
  BY DEF MediaCells
<1> QED BY <1>1, <1>2 DEF FreshGuest, FreshMedia

\* A state without an answer owes nothing.
LEMMA NoReplyIsInitialised ==
  NoReply.length <= MaxLength /\ 1 .. NoReply.length \subseteq NoReply.wrote
BY DiskAssumption DEF NoReply

\* The queue has at most MaxQueueSize entries.
LEMMA NumBounded == TransportInv => num \in Nat /\ num <= MaxQueueSize
BY TransportAssumption DEF TransportInv, TransportTypeOK, QueueSizes

\* A notification is a step of the transport and keeps every promise.
LEMMA NotifyDisk ==
  ASSUME DiskInv, NEW usable \in SUBSET UsedRing, NEW suppressed \in BOOLEAN,
         Notify(usable, suppressed)
  PROVE  /\ NextTransport /\ AnswersHonestly
         /\ table' = table /\ table # <<>>
         /\ guest' \in [GuestCells -> Nat] /\ media' \in [MediaCells -> Nat]
         /\ UsedLengthIsInitialised'
<1> DEFINE chains == {n \in 1 .. num : IsChain(0, n)}
           message == Message(0, CHOOSE n \in chains : TRUE)
<1>1. /\ table # <<>> /\ table \in Tables /\ reply = NoReply /\ table' = table
      /\ ~IgnoresNotification
      /\ guest \in [GuestCells -> Nat] /\ media \in [MediaCells -> Nat]
  BY DEF Notify, DiskInv
<1>2. num \in Nat /\ num <= MaxQueueSize
  BY NumBounded DEF DiskInv
<1>3. PICK r \in Processed(0, usable) :
        /\ guest' = r.guest /\ media' = r.media
        /\ IF r.ok
           THEN reply' = Answer(Request, r.code, r.filled) /\ UsedBuffers(suppressed)
           ELSE reply' = [NoReply EXCEPT !.outcome = "failed"] /\ FailDevice
  BY DEF Notify
<1>4. NextTransport
  BY <1>1, <1>3 DEF NextTransport, NotifyAnything
<1>5. ASSUME ~r.ok, r.guest = guest, r.media = media
      PROVE  /\ AnswersHonestly /\ UsedLengthIsInitialised'
             /\ guest' = guest /\ media' = media
  <2>1. /\ reply' = [NoReply EXCEPT !.outcome = "failed"]
        /\ UNCHANGED <<guest, media>>
    BY <1>3, <1>5
  <2>2. /\ reply'.outcome = "failed" /\ reply'.length = NoReply.length
        /\ reply'.wrote = NoReply.wrote
    BY <2>1 DEF NoReply
  <2>3. UsedLengthIsInitialised'
    BY <2>2, NoReplyIsInitialised DEF UsedLengthIsInitialised
  <2> QED BY <2>1, <2>2, <2>3 DEF AnswersHonestly
<1>6. CASE chains = {} \/ ~WellFormed(message)
  <2>1. r = Check(Begun, FALSE)
    BY <1>6 DEF Processed
  <2>2. ~r.ok /\ r.guest = guest /\ r.media = media
    BY <2>1 DEF Check, Begun
  <2> QED BY <1>1, <1>4, <1>5, <2>2
<1>7. CASE chains # {} /\ WellFormed(message)
  <2>1. PICK n \in chains : n = CHOOSE k \in chains : TRUE
    BY <1>7
  <2>2. n \in 1 .. num /\ IsChain(0, n) /\ message = Message(0, n)
    BY <2>1
  <2>3. message = Request
    <3>1. \A k \in 1 .. num : IsChain(0, k) => k = n
      BY <1>2, <2>2, OneLength
    <3>2. (CHOOSE k \in 1 .. num : IsChain(0, k)) = n
      BY <2>2, <3>1
    <3> QED BY <2>2, <3>2 DEF Request
  <2>4. message \in Seq(CellsOfChains)
    BY <1>1, <1>2, <2>2, MessageTyped
  <2>5. PICK t \in Transferring(Validated(Begun, message, usable), message) :
          r = Published(t, message, usable)
    BY <1>3, <1>7 DEF Processed
  <2> HIDE DEF message
  <2>6. /\ ~r.ok => r.guest = guest /\ r.media = media
        /\ r.ok /\ guest' = r.guest /\ media' = r.media
           /\ reply' = Answer(message, r.code, r.filled)
           => Serves(message) /\ StatusCell(message).addr \in GuestCells
    BY <1>1, <2>5, ProcessedIs
  <2>7. CASE ~r.ok
    BY <1>1, <1>4, <1>5, <2>6, <2>7
  <2>8. CASE r.ok
    <3>1. Serves(message) /\ Answerable(message)
      BY <1>3, <1>7, <2>3, <2>6, <2>8 DEF Answerable
    <3>2. /\ guest' \in [GuestCells -> Nat] /\ media' \in [MediaCells -> Nat]
          /\ reply'.outcome = "completed"
          /\ UsedLengthIsInitialised'
          /\ OnlyWritable(message)
          /\ guest[message[1].addr] # Out => media' = media
          /\ reply'.code = Ok => Transferred(message)
      BY <1>1, <2>4, <3>1, ServeStep
    <3>3. AnswersHonestly
      BY <2>3, <3>2 DEF AnswersHonestly
    <3> QED BY <1>1, <1>4, <3>2, <3>3
  <2> QED BY <2>7, <2>8
<1> QED BY <1>6, <1>7

\* Every step preserves the invariant, keeps the promises, and is one of the
\* transport or leaves it alone.
LEMMA DiskStep ==
  ASSUME DiskInv, [NextDisk]_allVars
  PROVE  DiskInv' /\ [NextTransport]_transportVars
         /\ (AnswersHonestly \/ UNCHANGED allVars)
<1>1. ASSUME NextTransport, UNCHANGED diskVars, table = <<>>
      PROVE  DiskInv' /\ AnswersHonestly
  <2>1. TransportInv'
    BY <1>1, TransportStep DEF DiskInv
  <2>2. UNCHANGED <<table, guest, media, reply>> /\ reply.outcome = "none"
    BY <1>1 DEF diskVars, DiskInv, NoReply
  <2> QED BY <2>1, <2>2 DEF DiskInv, AnswersHonestly, UsedLengthIsInitialised
<1>2. ASSUME table = <<>>, InterruptAck(interruptStatus), UNCHANGED diskVars
      PROVE  DiskInv' /\ NextTransport /\ AnswersHonestly
  <2>1. interruptStatus \in SUBSET Causes
    BY DEF DiskInv, TransportInv, TransportTypeOK
  <2>2. NextTransport
    BY <1>2, <2>1 DEF NextTransport, WriteRegister
  <2> QED BY <1>1, <1>2, <2>2
<1>3. UNCHANGED transportVars => TransportInv'
  BY TransportStep DEF DiskInv
<1>4. ASSUME NEW descriptors \in Tables, NEW header \in Headers,
             MakeRequest(descriptors, header)
      PROVE  DiskInv' /\ UNCHANGED transportVars /\ AnswersHonestly
  <2>1. /\ UNCHANGED transportVars /\ media' = media /\ reply' = reply
        /\ table = <<>> /\ table' = descriptors
        /\ guest' = [FreshGuest EXCEPT ![0] = header.type, ![1] = header.sector]
    BY <1>4 DEF MakeRequest
  <2>2. header.type \in Nat /\ header.sector \in Nat
    BY DiskAssumption
  <2>3. guest' \in [GuestCells -> Nat]
    BY <2>1, <2>2, FreshTyped
  <2>4. reply = NoReply /\ reply.outcome = "none"
    BY <2>1 DEF DiskInv, NoReply
  <2>5. table' = <<>> => reply' = NoReply
    BY <2>1, <2>4
  <2> QED BY <1>3, <2>1, <2>3, <2>4, <2>5
          DEF DiskInv, AnswersHonestly, UsedLengthIsInitialised
<1>5. ASSUME NEW usable \in SUBSET UsedRing, NEW suppressed \in BOOLEAN,
             Notify(usable, suppressed)
      PROVE  DiskInv' /\ NextTransport /\ AnswersHonestly
  <2>1. /\ NextTransport /\ AnswersHonestly
        /\ table' = table /\ table # <<>>
        /\ guest' \in [GuestCells -> Nat] /\ media' \in [MediaCells -> Nat]
        /\ UsedLengthIsInitialised'
    BY <1>5, NotifyDisk
  <2>2. TransportInv'
    BY <2>1, TransportStep DEF DiskInv
  <2> QED BY <2>1, <2>2 DEF DiskInv
<1>6. ASSUME TakeReply
      PROVE  DiskInv' /\ UNCHANGED transportVars /\ AnswersHonestly
  <2>1. /\ UNCHANGED transportVars /\ media' = media
        /\ table' = <<>> /\ guest' = FreshGuest /\ reply' = NoReply
    BY <1>6 DEF TakeReply
  <2>2. reply'.outcome = "none"
    BY <2>1 DEF NoReply
  <2> QED BY <1>3, <2>1, <2>2, FreshTyped, NoReplyIsInitialised
          DEF DiskInv, AnswersHonestly, UsedLengthIsInitialised
<1>7. ASSUME ReplaceMedia
      PROVE  DiskInv' /\ UNCHANGED transportVars /\ AnswersHonestly
  <2>1. /\ UNCHANGED <<transportVars, table, guest, reply>>
        /\ table = <<>> /\ media' = FreshMedia
    BY <1>7 DEF ReplaceMedia
  <2>2. reply.outcome = "none"
    BY <2>1 DEF DiskInv, NoReply
  <2> QED BY <1>3, <2>1, <2>2, FreshTyped
          DEF DiskInv, AnswersHonestly, UsedLengthIsInitialised
<1>8. CASE UNCHANGED allVars
  <2>1. UNCHANGED <<transportVars, table, guest, media, reply>>
    BY <1>8 DEF allVars, diskVars
  <2> QED BY <1>3, <1>8, <2>1 DEF DiskInv, UsedLengthIsInitialised
<1> QED
  BY <1>1, <1>2, <1>4, <1>5, <1>6, <1>7, <1>8 DEF NextDisk

\* The invariant holds throughout.
LEMMA DiskInvariant == SpecDisk => []DiskInv
<1>1. InitDisk => DiskInv
  BY TransportInit, FreshTyped, NoReplyIsInitialised
     DEF InitDisk, DiskInv, UsedLengthIsInitialised
<1>2. DiskInv /\ [NextDisk]_allVars => DiskInv'
  BY DiskStep
<1> QED BY <1>1, <1>2, PTL DEF SpecDisk

\* The device with its medium refines the transport: what holds of the
\* registers whatever the rings hold, holds while requests are served.
THEOREM DiskImplementsTransport == SpecDisk => SpecTransport
<1>1. InitDisk => InitTransport
  BY DEF InitDisk
<1>2. DiskInv /\ [NextDisk]_allVars => [NextTransport]_transportVars
  BY DiskStep
<1> QED BY <1>1, <1>2, DiskInvariant, PTL DEF SpecDisk, SpecTransport

\* Every length published in the used ring covers memory the device has
\* written (complete_request, written_length), whatever chain and header the
\* driver wrote and however much of the transfer came about.
THEOREM LengthsAreInitialised == SpecDisk => []UsedLengthIsInitialised
<1>1. DiskInv => UsedLengthIsInitialised
  BY DEF DiskInv
<1> QED BY <1>1, DiskInvariant, PTL

\* A device that fails on a request has left memory and medium as they were,
\* wherever the handler stopped: process_request and complete_request use `?`
\* also after the transfer, but only on what was validated before it.
THEOREM FailuresTransferNothing == SpecDisk => FailureTransfersNothing
<1>1. DiskInv /\ [NextDisk]_allVars =>
        [reply'.outcome = "failed" => UNCHANGED <<guest, media>>]_allVars
  BY DiskStep DEF AnswersHonestly
<1> QED BY <1>1, DiskInvariant, PTL DEF SpecDisk, FailureTransfersNothing

\* A request answered with success was transferred completely, cell by cell,
\* and none changes what it only lets the device read (process_request,
\* read_into_guest, write_from_guest).
THEOREM StatusesAreTruthful == SpecDisk => StatusIsTruthful
<1>1. DiskInv /\ [NextDisk]_allVars =>
        [reply = NoReply /\ reply'.outcome = "completed" =>
           /\ OnlyWritable(Request)
           /\ guest[Request[1].addr] # Out => media' = media
           /\ reply'.code = Ok => Transferred(Request)]_allVars
  BY DiskStep DEF AnswersHonestly
<1> QED BY <1>1, DiskInvariant, PTL DEF SpecDisk, StatusIsTruthful
=============================================================================

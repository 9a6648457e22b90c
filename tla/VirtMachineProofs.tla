-------------------------- MODULE VirtMachineProofs --------------------------
(***************************************************************************)
(* Theorems about the UART, for every transmit delay and tick length, and  *)
(* about the machine composed with it, for any amount of input and any     *)
(* depth of nested locks.                                                  *)
(***************************************************************************)
EXTENDS VirtMachine, FiniteSetTheorems, TLAPS

-----------------------------------------------------------------------------
(* The transmitter of the UART.                                            *)

\* The inductive invariant: the types, and the countdown that runs exactly
\* while the transmitter is busy.
UartInv == TypeOK /\ TransmitterOK

\* What IIR reports, by the two causes: received data goes first.
LEMMA IdentificationCases ==
  /\ Identification = "RxAvailable" <=> RxCause
  /\ Identification = "ThrEmpty" <=> ThreCause /\ ~RxCause
  /\ Identification = "None" <=> ~RxCause /\ ~ThreCause
BY DEF Identification

\* Every access, tick and reset keeps the transmitter consistent.
LEMMA UartStep == UartInv /\ [Next]_vars => UartInv'
<1> SUFFICES ASSUME UartInv, [Next]_vars
             PROVE  UartInv'
    OBVIOUS
<1> USE UartAssumption DEF UartInv, TypeOK, TransmitterOK
<1>1. CASE HostInput
      BY <1>1 DEF HostInput, transmitter
<1>2. CASE ReadData
      BY <1>2 DEF ReadData, RefreshInterruptLine, transmitter
<1>3. CASE ReadIdentification
      BY <1>3 DEF ReadIdentification, RefreshInterruptLine
<1>4. CASE AccessStorage
      BY <1>4 DEF AccessStorage, RefreshInterruptLine, transmitter
<1>5. CASE Transmit
  <2>1. interruptEnable' \in SUBSET Causes /\ dlab' \in BOOLEAN /\ input' \in Nat
        BY <1>5 DEF Transmit
  <2>2. remaining' \in 0 .. TransmitDelay /\ remaining' # 0
        BY <1>5 DEF Transmit
  <2>3. ~transmitterEmpty' /\ ~threPending'
        BY <1>5 DEF Transmit
  <2>5. transmitterEmpty' \in BOOLEAN /\ threPending' \in BOOLEAN
        BY <1>5 DEF Transmit
  <2>4. lineHigh' \in BOOLEAN
        BY <1>5 DEF Transmit, RefreshInterruptLine
  <2>6. QED
        BY <2>1, <2>2, <2>3, <2>4, <2>5
<1>6. ASSUME NEW causes \in SUBSET Causes, WriteInterruptEnable(causes)
      PROVE  UartInv'
      BY <1>6 DEF WriteInterruptEnable, RefreshInterruptLine
<1>7. ASSUME NEW clearRx \in BOOLEAN, NEW clearTx \in BOOLEAN,
             WriteFifoControl(clearRx, clearTx)
      PROVE  UartInv'
  <2>1. /\ interruptEnable' \in SUBSET Causes /\ dlab' \in BOOLEAN
        /\ input' \in Nat
        BY <1>7 DEF WriteFifoControl
  <2>2. lineHigh' \in BOOLEAN
        BY <1>7 DEF WriteFifoControl, RefreshInterruptLine
  <2>3. CASE clearTx
    <3>1. remaining' = 0 /\ transmitterEmpty'
          BY <1>7, <2>3 DEF WriteFifoControl
    <3>2. transmitterEmpty' \in BOOLEAN /\ threPending' \in BOOLEAN
          BY <1>7, <2>3 DEF WriteFifoControl
    <3>3. QED
          BY <2>1, <2>2, <3>1, <3>2
  <2>4. CASE ~clearTx
    <3>1. UNCHANGED transmitter
          BY <1>7, <2>4 DEF WriteFifoControl
    <3>2. QED
          BY <2>1, <2>2, <3>1 DEF transmitter
  <2>5. QED
        BY <2>3, <2>4
<1>8. ASSUME NEW latch \in BOOLEAN, WriteLineControl(latch)
      PROVE  UartInv'
      BY <1>8 DEF WriteLineControl, RefreshInterruptLine, transmitter
<1>9. CASE Reset
  <2>1. /\ interruptEnable' \in SUBSET Causes /\ input' \in Nat
        /\ remaining' = 0
        BY <1>9 DEF Reset
  <2>2. transmitterEmpty' /\ ~threPending'
        BY <1>9 DEF Reset
  <2>3. /\ transmitterEmpty' \in BOOLEAN /\ threPending' \in BOOLEAN
        /\ dlab' \in BOOLEAN /\ lineHigh' \in BOOLEAN
        BY <1>9 DEF Reset
  <2>4. QED
        BY <2>1, <2>2, <2>3
<1>10. CASE Tick
  <2> DEFINE left == IF remaining > CyclesPerTick
                     THEN remaining - CyclesPerTick ELSE 0
  <2>1. /\ interruptEnable' \in SUBSET Causes /\ dlab' \in BOOLEAN
        /\ input' \in Nat /\ remaining' = left
        BY <1>10 DEF Tick
  <2>2. lineHigh' \in BOOLEAN
        BY <1>10 DEF Tick, RefreshInterruptLine
  <2>3. left \in 0 .. TransmitDelay /\ (remaining = 0 => left = 0)
        OBVIOUS
  <2>4. CASE ~transmitterEmpty /\ left = 0
    <3>1. /\ transmitterEmpty' = TRUE
          /\ threPending' = ("ThrEmpty" \in interruptEnable)
          BY <1>10, <2>4, Zenon DEF Tick
    <3>2. transmitterEmpty' \in BOOLEAN /\ threPending' \in BOOLEAN
      <4>1. CASE "ThrEmpty" \in interruptEnable
            BY <3>1, <4>1
      <4>2. CASE "ThrEmpty" \notin interruptEnable
            BY <3>1, <4>2
      <4>3. QED
            BY <4>1, <4>2
    <3>3. remaining' = 0
          BY <2>1, <2>4
    <3>4. QED
          BY <2>1, <2>2, <3>1, <3>2, <3>3
  <2>5. CASE ~(~transmitterEmpty /\ left = 0)
    <3>1. UNCHANGED <<transmitterEmpty, threPending>>
          BY <1>10, <2>5 DEF Tick
    <3>2. transmitterEmpty' <=> remaining' = 0
          BY <2>1, <2>3, <2>5, <3>1
    <3>3. QED
          BY <2>1, <2>2, <2>3, <3>1, <3>2
  <2>6. QED
        BY <2>4, <2>5
<1>11. CASE UNCHANGED vars
       BY <1>11 DEF vars, transmitter
<1>12. QED
       BY <1>1, <1>2, <1>3, <1>4, <1>5, <1>6, <1>7, <1>8, <1>9, <1>10, <1>11
       DEF Next, GuestAccess

\* Every register has its type and the transmitter is consistent.
THEOREM TransmitterCorrect == Spec => [](TypeOK /\ TransmitterOK)
<1>1. Init => UartInv
  <2> SUFFICES ASSUME Init
               PROVE  UartInv
      OBVIOUS
  <2>1. transmitterEmpty /\ ~threPending /\ remaining = 0
        BY DEF Init
  <2>2. /\ transmitterEmpty \in BOOLEAN /\ threPending \in BOOLEAN
        /\ dlab \in BOOLEAN /\ lineHigh \in BOOLEAN
        BY DEF Init
  <2>3. interruptEnable \in SUBSET Causes /\ input \in Nat
        BY DEF Init
  <2>4. QED
        BY <2>1, <2>2, <2>3, UartAssumption DEF UartInv, TypeOK, TransmitterOK
<1>2. QED
      BY <1>1, UartStep, PTL DEF Spec, UartInv

-----------------------------------------------------------------------------
(* The interrupt line.                                                     *)

\* After a refresh the line is high exactly when IIR reports a cause.
LEMMA RefreshedLine ==
  ASSUME RefreshInterruptLine
  PROVE  LineFollowsCause'
<1>1. lineHigh' <=> Identification' # "None"
      BY DEF RefreshInterruptLine
<1>2. QED
      BY <1>1 DEF LineFollowsCause, Identification

\* Every access and every tick refreshes the line; host input alone moves a
\* cause without it, and only the cause of received data.
LEMMA LineStep == UartInv /\ LineFollowsCause /\ [Next]_vars => LineFollowsCause'
<1> SUFFICES ASSUME UartInv, LineFollowsCause, [Next]_vars
             PROVE  LineFollowsCause'
    OBVIOUS
<1>1. CASE HostInput
  <2>1. /\ UNCHANGED <<interruptEnable, threPending, lineHigh>>
        /\ input \in Nat /\ input' = input + 1
        BY <1>1 DEF HostInput, transmitter, UartInv, TypeOK
  <2>2. (RxCause => RxCause') /\ (ThreCause' <=> ThreCause)
        BY <2>1 DEF RxCause, ThreCause
  <2>3. Identification # "None" => Identification' # "None"
        BY <2>2, IdentificationCases DEF Identification
  <2>4. Identification' = "ThrEmpty" => Identification = "ThrEmpty"
        BY <2>2 DEF Identification
  <2>5. QED
        BY <2>1, <2>3, <2>4 DEF LineFollowsCause
<1>2. CASE GuestAccess \/ Tick
      BY <1>2, RefreshedLine
      DEF GuestAccess, ReadData, ReadIdentification, AccessStorage, Transmit,
          WriteInterruptEnable, WriteFifoControl, WriteLineControl, Tick
<1>3. CASE Reset
  <2>1. ~lineHigh' /\ ~threPending'
        BY <1>3 DEF Reset
  <2>2. QED
        BY <2>1 DEF LineFollowsCause, Identification, ThreCause
<1>4. CASE UNCHANGED vars
  <2>1. UNCHANGED <<interruptEnable, input, threPending, lineHigh>>
        BY <1>4 DEF vars, transmitter
  <2>2. QED
        BY <2>1 DEF LineFollowsCause, Identification, RxCause, ThreCause
<1>5. QED
      BY <1>1, <1>2, <1>3, <1>4 DEF Next

\* The level the interrupt controller samples is right, but for the delay of
\* host input.
THEOREM LineIsRight == Spec => []LineFollowsCause
<1>1. Init => LineFollowsCause
  <2> SUFFICES ASSUME Init
               PROVE  LineFollowsCause
      OBVIOUS
  <2>1. ~lineHigh /\ ~threPending
        BY DEF Init
  <2>2. QED
        BY <2>1 DEF LineFollowsCause, Identification, ThreCause
<1>2. Spec => []UartInv
      BY TransmitterCorrect, PTL DEF UartInv
<1>3. QED
      BY <1>1, <1>2, LineStep, PTL DEF Spec

-----------------------------------------------------------------------------
(* Interrupts of the transmitter.                                          *)

\* A THRE cause that disappears was reported, answered, masked or reset.
LEMMA ThreStep ==
  ASSUME UartInv, [Next]_vars, ThreCause, ~ThreCause'
  PROVE  \/ ReadIdentification /\ Identification = "ThrEmpty"
         \/ ~transmitterEmpty'
         \/ "ThrEmpty" \notin interruptEnable'
<1>1. "ThrEmpty" \in interruptEnable /\ threPending /\ transmitterEmpty
  BY DEF ThreCause, UartInv, TransmitterOK
<1>2. ~("ThrEmpty" \in interruptEnable' /\ threPending')
  BY DEF ThreCause
<1>3. CASE UNCHANGED <<interruptEnable, threPending>>
  BY <1>1, <1>2, <1>3
<1>4. CASE HostInput \/ ReadData \/ AccessStorage \/ UNCHANGED vars
  BY <1>3, <1>4 DEF HostInput, ReadData, AccessStorage, vars, transmitter
<1>5. ASSUME NEW latch, WriteLineControl(latch)
      PROVE  UNCHANGED <<interruptEnable, threPending>>
  BY <1>5 DEF WriteLineControl, transmitter
<1>6. CASE ReadIdentification
  <2>1. CASE Identification # "ThrEmpty"
    <3>1. interruptEnable' = interruptEnable /\ threPending'
      BY <1>1, <1>6, <2>1, Zenon DEF ReadIdentification
    <3> QED BY <1>1, <1>2, <3>1
  <2> QED BY <1>6, <2>1
<1>7. CASE Transmit
  BY <1>7 DEF Transmit
<1>8. ASSUME NEW causes, WriteInterruptEnable(causes)
      PROVE  "ThrEmpty" \notin interruptEnable'
  <2>1. threPending' = (threPending \/ ("ThrEmpty" \in causes \ interruptEnable
                                          /\ transmitterEmpty))
    BY <1>8, Zenon DEF WriteInterruptEnable
  <2>2. threPending'
    BY <1>1, <2>1, Zenon
  <2> QED BY <1>2, <2>2
<1>9. ASSUME NEW clearRx, NEW clearTx, WriteFifoControl(clearRx, clearTx)
      PROVE  FALSE
  <2>1. interruptEnable' = interruptEnable
    BY <1>9 DEF WriteFifoControl
  <2>2. threPending'
    <3>1. CASE clearTx
      <4>1. threPending' = ("ThrEmpty" \in interruptEnable)
        BY <1>9, <3>1, Zenon DEF WriteFifoControl
      <4> QED BY <1>1, <4>1, Zenon
    <3>2. CASE ~clearTx
      BY <1>1, <1>9, <3>2 DEF WriteFifoControl, transmitter
    <3> QED BY <3>1, <3>2
  <2> QED BY <1>1, <1>2, <2>1, <2>2
<1>10. CASE Reset
  BY <1>10 DEF Reset
<1>11. CASE Tick
  <2>1. UNCHANGED <<interruptEnable, threPending>>
    BY <1>1, <1>11 DEF Tick
  <2> QED BY <1>3, <2>1
<1> QED
  BY <1>3, <1>4, <1>5, <1>6, <1>7, <1>8, <1>9, <1>10, <1>11
  DEF Next, GuestAccess

\* An interrupt the driver has not been told of is not withdrawn.
THEOREM ThreIsNotLost == Spec => ThreNotLost
<1> DEFINE Kept ==
      ThreCause /\ ~ThreCause' =>
        \/ ReadIdentification /\ Identification = "ThrEmpty"
        \/ ~transmitterEmpty'
        \/ "ThrEmpty" \notin interruptEnable'
<1>1. UartInv /\ [Next]_vars => Kept
  BY ThreStep
<1>2. Spec => []UartInv
  BY TransmitterCorrect, PTL DEF UartInv
<1> QED BY <1>1, <1>2, PTL DEF Spec, ThreNotLost

\* A transmission that ends with THRE enabled raises the line at once.
LEMMA CompletionStep ==
  ASSUME UartInv, [Next]_vars, ~transmitterEmpty, transmitterEmpty',
         "ThrEmpty" \in interruptEnable'
  PROVE  lineHigh'
<1>1. ASSUME threPending', RefreshInterruptLine PROVE lineHigh'
  <2>1. Identification' # "None"
    BY <1>1 DEF Identification, RxCause, ThreCause
  <2> QED BY <1>1, <2>1 DEF RefreshInterruptLine
<1>2. CASE UNCHANGED transmitterEmpty
  BY <1>2
<1>3. CASE HostInput \/ ReadData \/ ReadIdentification \/ AccessStorage
           \/ UNCHANGED vars
  BY <1>2, <1>3 DEF HostInput, ReadData, ReadIdentification, AccessStorage,
                    vars, transmitter
<1>4. ASSUME NEW causes, WriteInterruptEnable(causes) PROVE lineHigh'
  BY <1>2, <1>4 DEF WriteInterruptEnable
<1>5. ASSUME NEW latch, WriteLineControl(latch) PROVE lineHigh'
  BY <1>2, <1>5 DEF WriteLineControl, transmitter
<1>6. CASE Transmit
  BY <1>6 DEF Transmit
<1>7. ASSUME NEW clearRx, NEW clearTx, WriteFifoControl(clearRx, clearTx)
      PROVE  lineHigh'
  <2>1. CASE clearTx
    <3>1. /\ interruptEnable' = interruptEnable
          /\ threPending' = ("ThrEmpty" \in interruptEnable)
      BY <1>7, <2>1, Zenon DEF WriteFifoControl
    <3>2. threPending'
      BY <3>1, Zenon
    <3> QED BY <1>1, <1>7, <3>2 DEF WriteFifoControl
  <2>2. CASE ~clearTx
    BY <1>2, <1>7, <2>2 DEF WriteFifoControl, transmitter
  <2> QED BY <2>1, <2>2
<1>8. CASE Reset
  BY <1>8 DEF Reset
<1>9. CASE Tick
  <2> DEFINE left == IF remaining > CyclesPerTick
                     THEN remaining - CyclesPerTick ELSE 0
  <2>1. CASE left = 0
    <3>1. /\ interruptEnable' = interruptEnable
          /\ threPending' = ("ThrEmpty" \in interruptEnable)
      BY <1>9, <2>1, Zenon DEF Tick
    <3>2. threPending'
      BY <3>1, Zenon
    <3> QED BY <1>1, <1>9, <3>2 DEF Tick
  <2>2. CASE left # 0
    BY <1>2, <1>9, <2>2 DEF Tick
  <2> QED BY <2>1, <2>2
<1> QED
  BY <1>3, <1>4, <1>5, <1>6, <1>7, <1>8, <1>9 DEF Next, GuestAccess

\* Whenever a transmission ends with THRE enabled, the line is high at once.
THEOREM CompletionsInterrupt == Spec => CompletionInterrupts
<1>1. UartInv /\ [Next]_vars =>
        (~transmitterEmpty /\ transmitterEmpty'
           /\ "ThrEmpty" \in interruptEnable' => lineHigh')
  BY CompletionStep
<1>2. Spec => []UartInv
  BY TransmitterCorrect, PTL DEF UartInv
<1> QED BY <1>1, <1>2, PTL DEF Spec, CompletionInterrupts

-----------------------------------------------------------------------------
(* The locks. Interrupts are off from the first push_off to the last       *)
(* pop_off; so the frame that runs is the only one that can own the lock,  *)
(* and what the first push_off saved is still there for the last pop_off.  *)
(* Before the kernel boots, memory may hold anything.                      *)

LockTypes ==
  /\ noff \in Nat
  /\ sie \in BOOLEAN /\ spie \in BOOLEAN /\ intena \in BOOLEAN
  /\ sieBefore \in BOOLEAN
  /\ booted \in BOOLEAN /\ handling \in BOOLEAN

LockInv ==
  /\ LockTypes
  /\ handling => booted /\ ~sie
  /\ booted =>
       /\ noff > 0 => ~sie /\ (intena <=> sieBefore)
       /\ handling /\ noff > 0 => ~intena
       /\ owners \subseteq {Frame}
       /\ owners # {} => noff > 0 /\ locked

\* The part of the invariant that only the lock primitives touch.
Untouched == UNCHANGED <<sie, handling, booted, spie, noff, intena, locked, owners, sieBefore>>

\* Whatever leaves it alone keeps the invariant.
LEMMA UntouchedKeeps == LockInv /\ Untouched => LockInv'
BY DEF LockInv, LockTypes, Untouched, Frame

\* Nothing is pushed or owned.
LEMMA NothingPushed ==
  ASSUME LockTypes, noff = 0, owners = {}, handling => booted /\ ~sie
  PROVE  LockInv
<1>1. ~(noff > 0)
      OBVIOUS
<1>2. QED
      BY <1>1 DEF LockInv

\* A push_off, alone or in acquire.
LEMMA PushKeeps ==
  ASSUME LockInv, booted, PushOff, UNCHANGED trapVars,
         \/ UNCHANGED <<locked, owners>>
         \/ locked' = TRUE /\ owners' = owners \cup {Frame}
  PROVE  LockInv'
<1>1. /\ noff' = noff + 1 /\ noff \in Nat /\ sie' = FALSE
      /\ intena' = (IF noff = 0 THEN sie ELSE intena)
      /\ sieBefore' = (IF noff = 0 THEN sie ELSE sieBefore)
      BY DEF PushOff, LockInv, LockTypes
<1>2. noff' \in Nat /\ noff' > 0
      BY <1>1
<1>3. LockTypes'
      BY <1>1, <1>2 DEF LockInv, LockTypes, trapVars
<1>4. intena' <=> sieBefore'
  <2>1. CASE noff = 0
        BY <1>1, <2>1
  <2>2. CASE noff > 0
    <3>1. noff # 0 /\ (intena <=> sieBefore)
          BY <1>1, <2>2 DEF LockInv
    <3>2. QED
          BY <1>1, <3>1
  <2>3. QED
        BY <1>1, <2>1, <2>2
<1>5. handling' => ~intena'
  <2>1. CASE noff = 0
        BY <1>1, <2>1 DEF LockInv, trapVars
  <2>2. CASE noff > 0
    <3>1. noff # 0 /\ (handling => ~intena)
          BY <1>1, <2>2 DEF LockInv
    <3>2. QED
          BY <1>1, <3>1 DEF trapVars
  <2>3. QED
        BY <1>1, <2>1, <2>2
<1>6. /\ owners' \subseteq {Frame'}
      /\ owners' # {} => locked'
      BY DEF LockInv, trapVars, Frame
<1>7. QED
      BY <1>1, <1>2, <1>3, <1>4, <1>5, <1>6 DEF LockInv, trapVars

\* A pop_off, alone or in release, of a level that was pushed.
LEMMA PopKeeps ==
  ASSUME LockInv, booted, PopOff, noff > 0, UNCHANGED trapVars,
         \/ UNCHANGED <<locked, owners>> /\ (owners # {} => noff > 1)
         \/ owners' = {}
  PROVE  LockInv'
<1>1. /\ noff \in Nat /\ noff' = noff - 1
      /\ sie' = (sie \/ (noff' = 0 /\ intena))
      /\ intena' = intena /\ sieBefore' = sieBefore
      /\ ~sie /\ (intena <=> sieBefore) /\ (handling => ~intena)
      BY DEF PopOff, LockInv, LockTypes
<1>2. noff' \in Nat /\ (noff' > 0 => noff' # 0)
      BY <1>1
<1>3. LockTypes'
      BY <1>1, <1>2 DEF LockInv, LockTypes, trapVars
<1>4. owners' # {} => noff' > 0 /\ locked'
      BY <1>1 DEF LockInv
<1>5. owners' \subseteq {Frame'}
      BY DEF LockInv, trapVars, Frame
<1>6. noff' > 0 => ~sie'
      BY <1>1, <1>2
<1>7. handling' => booted' /\ ~sie'
      BY <1>1 DEF LockInv, trapVars
<1>8. QED
      BY <1>1, <1>3, <1>4, <1>5, <1>6, <1>7 DEF LockInv, trapVars

\* The lock primitives, and the guest's own change of SIE.
LEMMA LockStepKeeps ==
  ASSUME LockInv, booted, LockStep
  PROVE  LockInv'
<1>1. UNCHANGED trapVars
      BY DEF LockStep
<1>2. CASE Acquire
      BY <1>1, <1>2, PushKeeps DEF Acquire
<1>3. CASE Release
  <2>1. owners' = {} /\ noff > 0 /\ PopOff
        BY <1>3 DEF Release, LockInv
  <2>2. QED
        BY <1>1, <2>1, PopKeeps
<1>4. CASE PushOff /\ UNCHANGED <<locked, owners>>
      BY <1>1, <1>4, PushKeeps
<1>5. CASE /\ noff > Cardinality({Frame} \cap owners)
           /\ PopOff /\ UNCHANGED <<locked, owners>>
  <2>1. noff \in Nat /\ owners \subseteq {Frame}
        BY DEF LockInv, LockTypes
  <2>2. CASE owners = {}
    <3>1. Cardinality({Frame} \cap owners) = 0
          BY <2>2, FS_EmptySet
    <3>2. QED
          BY <1>1, <1>5, <2>2, <3>1, PopKeeps
  <2>3. CASE owners # {}
    <3>1. {Frame} \cap owners = {Frame}
          BY <2>1, <2>3
    <3>2. Cardinality({Frame} \cap owners) = 1
          BY <3>1, FS_Singleton
    <3>3. noff > 1 /\ noff > 0
          BY <1>5, <2>1, <3>2
    <3>4. QED
          BY <1>1, <1>5, <3>3, PopKeeps
  <2>4. QED
        BY <2>2, <2>3
<1>6. CASE /\ noff = 0 /\ ~handling
           /\ sie' = ~sie
           /\ UNCHANGED <<locked, noff, intena, owners, sieBefore>>
      BY <1>1, <1>6 DEF LockInv, LockTypes, trapVars, Frame
<1>7. QED
      BY <1>2, <1>3, <1>4, <1>5, <1>6 DEF LockStep

\* Every step of the machine keeps the invariant of the locks.
LEMMA LockInvStep == LockInv /\ [MachineNext]_machineVars => LockInv'
<1> SUFFICES ASSUME LockInv, [MachineNext]_machineVars
             PROVE  LockInv'
    OBVIOUS
<1>1. CASE TickPlic \/ TickUart \/ ResetPlic \/ HostTypes
      BY <1>1, UntouchedKeeps
      DEF TickPlic, TickUart, ResetPlic, HostTypes, trapVars, lockVars, Untouched
<1>2. CASE Poll
  <2>1. /\ UNCHANGED <<booted, locked, noff, intena, owners, sieBefore>>
        /\ \/ UNCHANGED <<sie, spie, handling>>
           \/ /\ booted /\ sie
              /\ handling' = TRUE /\ sie' = FALSE /\ spie' = TRUE
        BY <1>2 DEF Poll
  <2>2. CASE UNCHANGED <<sie, spie, handling>>
        BY <2>1, <2>2, UntouchedKeeps DEF Untouched
  <2>3. CASE /\ booted /\ sie
             /\ handling' = TRUE /\ sie' = FALSE /\ spie' = TRUE
    <3>1. ~(noff > 0) /\ owners = {}
          BY <2>3 DEF LockInv
    <3>2. QED
          BY <2>1, <2>3, <3>1 DEF LockInv, LockTypes
  <2>4. QED
        BY <2>1, <2>2, <2>3
<1>3. CASE Execute
  <2>1. CASE DriverAccess
        BY <2>1, UntouchedKeeps DEF DriverAccess, trapVars, lockVars, Untouched
  <2>2. CASE booted /\ LockStep
        BY <2>2, LockStepKeeps
  <2>3. CASE Claim \/ Complete
        BY <2>3, UntouchedKeeps
        DEF Claim, Complete, trapVars, lockVars, Untouched
  <2>4. CASE ReturnToTask
    <3>1. noff = 0 /\ owners = {}
          BY <2>4 DEF ReturnToTask
    <3>2. /\ noff' = 0 /\ owners' = {} /\ handling' = FALSE
          /\ sie' = spie /\ spie' = TRUE
          /\ UNCHANGED <<booted, intena, sieBefore>>
          BY <2>4, <3>1 DEF ReturnToTask
    <3>3. LockTypes'
          BY <3>2 DEF LockInv, LockTypes
    <3>4. QED
          BY <3>2, <3>3 DEF LockInv
  <2>5. CASE Boot
    <3>1. /\ noff' = 0 /\ owners' = {} /\ intena' = FALSE /\ sieBefore' = FALSE
          /\ booted' = TRUE /\ UNCHANGED <<sie, spie, handling>>
          BY <2>5 DEF Boot
    <3>2. LockTypes'
          BY <3>1 DEF LockInv, LockTypes
    <3>3. QED
          BY <3>1, <3>2 DEF LockInv
  <2>6. QED
        BY <1>3, <2>1, <2>2, <2>3, <2>4, <2>5 DEF Execute
<1>4. CASE ResetUartAndHart
      BY <1>4 DEF ResetUartAndHart, LockInv, LockTypes
<1>5. CASE UNCHANGED machineVars
      BY <1>5, UntouchedKeeps DEF machineVars, trapVars, lockVars, Untouched
<1>6. QED
      BY <1>1, <1>2, <1>3, <1>4, <1>5 DEF MachineNext, MachineStep

\* The invariant of the locks holds at every step of the machine.
LEMMA LockInvariant == MachineSpec => []LockInv
<1>1. MachineInit => LockInv
  <2> SUFFICES ASSUME MachineInit PROVE LockInv
      OBVIOUS
  <2>1. LockTypes /\ noff = 0 /\ owners = {} /\ ~handling
        BY DEF MachineInit, LockTypes
  <2>2. QED
        BY <2>1, NothingPushed
<1>2. QED
      BY <1>1, LockInvStep, PTL DEF MachineSpec

\* The handler never runs while a lock is held or interrupts are pushed off,
\* although acquire takes the lock without testing it.
THEOREM LocksExclude == MachineSpec => []LockExcludesHandler
<1>1. LockInv => LockExcludesHandler
  <2> SUFFICES ASSUME LockInv, booted
               PROVE  /\ noff > 0 => ~sie
                      /\ owners # {} => noff > 0 /\ locked
                      /\ owners # {"task", "handler"}
      BY DEF LockExcludesHandler
  <2>1. owners \subseteq {Frame}
        BY DEF LockInv
  <2>2. "task" # "handler"
        OBVIOUS
  <2>3. owners # {"task", "handler"}
        BY <2>1, <2>2
  <2>4. QED
        BY <2>3 DEF LockInv
<1>2. QED
      BY <1>1, LockInvariant, PTL

\* The last release leaves interrupts as the first acquire found them.
THEOREM EnablesAreRestored == MachineSpec => EnableIsRestored
<1> DEFINE Restored == booted /\ noff > 0 /\ noff' = 0 /\ booted'
                         => sie' = sieBefore
<1>1. LockInv /\ [MachineNext]_machineVars => [Restored]_machineVars
  <2> SUFFICES ASSUME LockInv, [MachineNext]_machineVars,
                      booted, noff > 0, noff' = 0, booted'
               PROVE  sie' = sieBefore
      OBVIOUS
  <2>1. PopOff
    <3>1. noff' # noff /\ noff' # noff + 1 /\ noff \in Nat
          BY DEF LockInv, LockTypes
    <3>2. QED
          BY <3>1
          DEF MachineNext, MachineStep, TickPlic, TickUart, ResetPlic, HostTypes,
              Poll, Execute, DriverAccess, LockStep, Acquire, Release, PushOff,
              Claim, Complete, ReturnToTask, Boot, ResetUartAndHart, machineVars,
              lockVars
  <2>2. ~sie /\ (intena <=> sieBefore) /\ sie' = (sie \/ intena)
        BY <2>1 DEF PopOff, LockInv
  <2>3. QED
        BY <2>2 DEF LockInv, LockTypes
<1>2. QED
      BY <1>1, LockInvariant, PTL DEF MachineSpec, EnableIsRestored

-----------------------------------------------------------------------------
(* Interrupts and instructions. A level that stands when the hart polls is *)
(* notified, because its gateway is idle, or its request is pending, or it *)
(* is in service; and only the handler, which runs with interrupts off,    *)
(* has anything in service.                                                *)

RequestInv ==
  /\ priority \in [{0, UartSource} -> {0, 1}]
  /\ enabled \in [{Supervisor} -> SUBSET {UartSource}]
  /\ threshold \in [{Supervisor} -> {0}]
  /\ handlers \in [{0, UartSource} -> SUBSET {Supervisor}]
  /\ UartSource \in busy => UartSource \in pendingSources \/ InService
  /\ InService => handling
  /\ phase = "resetUart" => ~InService
  /\ booted /\ phase # "resetUart" =>
       enabled[Supervisor] = {UartSource} /\ priority[UartSource] = 1

Settings == <<priority, enabled, threshold>>

\* The only sources of this controller are the reserved one and the UART.
LEMMA SlotsAre == Controller!Slots = {0, UartSource} /\ UartSource = 1
BY DEF Controller!Slots, UartSource

\* A synchronisation forms requests where it closes gateways.
LEMMA SyncKeeps ==
  ASSUME RequestInv, NEW b \in SUBSET busy, Controller!SyncGateways(b),
         UNCHANGED Settings, handlers' = handlers,
         InService => handling',
         booted' = booted, phase # "resetUart", phase' # "resetUart"
  PROVE  RequestInv'
<1>1. InService' <=> InService
      BY DEF InService, Controller!InService
<1>2. UartSource \in busy' => UartSource \in pendingSources' \/ InService'
  <2>1. CASE UartSource \in b
        BY <1>1, <2>1 DEF RequestInv, Controller!SyncGateways
  <2>2. CASE UartSource \notin b
        BY <2>2 DEF Controller!SyncGateways
  <2>3. QED
        BY <2>1, <2>2
<1>3. QED
      BY <1>1, <1>2 DEF RequestInv, Settings

\* A step of another part.
LEMMA OthersKeep ==
  ASSUME RequestInv, UNCHANGED plicVars, InService => handling',
         phase' = "resetUart" => phase = "resetUart",
         booted' /\ phase' # "resetUart" => booted /\ phase # "resetUart"
  PROVE  RequestInv'
<1>1. InService' <=> InService
      BY DEF InService, Controller!InService, plicVars
<1>2. QED
      BY <1>1 DEF RequestInv, plicVars

\* The handler claims.
LEMMA ClaimKeeps ==
  ASSUME RequestInv, Claim, phase = "execute", phase' = "plic"
  PROVE  RequestInv'
<1>1. handling /\ handling' = handling /\ booted' = booted
      BY DEF Claim, trapVars
<1>2. CASE Controller!ClaimSource(Supervisor, UartSource)
  <2>1. /\ UNCHANGED Settings
        /\ handlers' = [handlers EXCEPT ![UartSource] = @ \cup {Supervisor}]
        BY <1>2 DEF Controller!ClaimSource, Controller!plicRegisters, Settings
  <2>2. handlers'[UartSource] # {}
        BY <2>1 DEF RequestInv
  <2>3. InService'
        BY <2>2 DEF InService, Controller!InService
  <2>4. handlers' \in [{0, UartSource} -> SUBSET {Supervisor}]
        BY <2>1 DEF RequestInv
  <2>5. QED
        BY <1>1, <2>1, <2>3, <2>4 DEF RequestInv, Settings
<1>3. CASE Controller!ClaimNothing(Supervisor)
      BY <1>1, <1>3, SyncKeeps
      DEF Controller!ClaimNothing, Controller!plicRegisters, Settings, RequestInv
<1>4. QED
      BY <1>2, <1>3 DEF Claim

\* The handler completes.
LEMMA CompleteKeeps ==
  ASSUME RequestInv, Complete, phase = "execute", phase' = "plic"
  PROVE  RequestInv'
<1>1. handling /\ handling' = handling /\ booted' = booted
      BY DEF Complete, trapVars
<1>2. CASE Controller!Accepts(Supervisor, UartSource)
  <2>1. /\ UNCHANGED Settings
        /\ handlers' = [handlers EXCEPT ![UartSource] = {}]
        /\ Controller!SyncGateways(busy \ {UartSource})
        BY <1>2
        DEF Complete, Controller!Complete, Controller!plicRegisters, Settings
  <2>2. UartSource \in busy' => UartSource \in pendingSources'
        BY <2>1 DEF Controller!SyncGateways
  <2>3. handlers' \in [{0, UartSource} -> SUBSET {Supervisor}]
        BY <2>1 DEF RequestInv
  <2>4. QED
        BY <1>1, <2>1, <2>2, <2>3 DEF RequestInv, Settings
<1>3. CASE ~Controller!Accepts(Supervisor, UartSource)
  <2>1. UNCHANGED plicVars
        BY <1>3 DEF Complete, Controller!Complete, Controller!vars, plicVars
  <2>2. QED
        BY <1>1, <2>1, OthersKeep DEF RequestInv
<1>4. QED
      BY <1>2, <1>3

\* Every step keeps what is known of requests.
LEMMA RequestStep ==
  LockInv /\ RequestInv /\ [MachineNext]_machineVars => RequestInv'
<1> SUFFICES ASSUME LockInv, RequestInv, [MachineNext]_machineVars
             PROVE  RequestInv'
    OBVIOUS
<1>1. CASE TickPlic
      BY <1>1, SyncKeeps
      DEF TickPlic, trapVars, Controller!Synchronise, Controller!plicRegisters,
          Settings, RequestInv
<1>2. CASE TickUart \/ HostTypes
      BY <1>2, OthersKeep DEF TickUart, HostTypes, trapVars, RequestInv
<1>3. CASE Poll
  <2>1. /\ phase = "cpu" /\ phase' \in {"plic", "execute"}
        /\ Controller!Synchronise /\ booted' = booted
        /\ handling' = TRUE \/ handling' = handling
        BY <1>3 DEF Poll
  <2>2. QED
        BY <2>1, SyncKeeps
        DEF Controller!Synchronise, Controller!plicRegisters, Settings, RequestInv
<1>4. CASE Execute
  <2>1. phase = "execute" /\ phase' = "plic"
        BY <1>4 DEF Execute
  <2>2. CASE DriverAccess \/ LockStep
        BY <2>1, <2>2, OthersKeep
        DEF DriverAccess, LockStep, trapVars, RequestInv
  <2>3. CASE Claim
        BY <2>1, <2>3, ClaimKeeps
  <2>4. CASE Complete
        BY <2>1, <2>4, CompleteKeeps
  <2>5. CASE ReturnToTask
        BY <2>1, <2>5, OthersKeep DEF ReturnToTask
  <2>6. CASE Boot
    <3>1. /\ priority' = [priority EXCEPT ![UartSource] = 1]
          /\ enabled' = [enabled EXCEPT ![Supervisor] = {UartSource}]
          /\ UNCHANGED <<threshold, handlers, busy, pendingSources, handling>>
          BY <2>6 DEF Boot
    <3>2. /\ priority'[UartSource] = 1 /\ enabled'[Supervisor] = {UartSource}
          /\ priority' \in [{0, UartSource} -> {0, 1}]
          /\ enabled' \in [{Supervisor} -> SUBSET {UartSource}]
          BY <3>1 DEF RequestInv
    <3>3. InService' <=> InService
          BY <3>1 DEF InService, Controller!InService
    <3>4. QED
          BY <2>1, <3>1, <3>2, <3>3 DEF RequestInv
  <2>7. QED
        BY <1>4, <2>2, <2>3, <2>4, <2>5, <2>6 DEF Execute
<1>5. CASE ResetPlic
  <2>1. /\ priority' = [s \in {0, UartSource} |-> 0] /\ busy' = {}
        /\ enabled' = [c \in {Supervisor} |-> {}]
        /\ threshold' = [c \in {Supervisor} |-> 0]
        /\ handlers' = [s \in {0, UartSource} |-> {}]
        /\ phase' = "resetUart"
        BY <1>5, SlotsAre DEF ResetPlic, Controller!Reset
  <2>2. ~InService'
        BY <2>1 DEF InService, Controller!InService
  <2>3. QED
        BY <2>1, <2>2 DEF RequestInv
<1>6. CASE ResetUartAndHart
      BY <1>6, OthersKeep DEF ResetUartAndHart, RequestInv
<1>7. CASE UNCHANGED machineVars
      BY <1>7, OthersKeep DEF machineVars, trapVars, RequestInv
<1>8. QED
      BY <1>1, <1>2, <1>3, <1>4, <1>5, <1>6, <1>7 DEF MachineNext, MachineStep

\* Both invariants hold at every step of the machine.
LEMMA RequestInvariant == MachineSpec => [](LockInv /\ RequestInv)
<1>1. MachineInit => RequestInv
  <2> SUFFICES ASSUME MachineInit PROVE RequestInv
      OBVIOUS
  <2>1. /\ handlers = [s \in {0, UartSource} |-> {}]
        /\ priority = [s \in {0, UartSource} |-> 0]
        BY SlotsAre DEF MachineInit
  <2>2. ~InService
        BY <2>1 DEF InService, Controller!InService
  <2>3. QED
        BY <2>1, <2>2 DEF MachineInit, RequestInv
<1>2. QED
      BY <1>1, RequestStep, LockInvariant, PTL DEF MachineSpec

\* When the hart polls with interrupts on, a level that stands is notified.
LEMMA StandingLevelIsNotified ==
  ASSUME LockInv, RequestInv, booted, sie, phase = "cpu", lineHigh
  PROVE  Notification
<1>1. /\ ~InService
      /\ enabled[Supervisor] = {UartSource} /\ priority[UartSource] = 1
      /\ threshold[Supervisor] = 0
      BY DEF LockInv, RequestInv
<1> DEFINE known == pendingSources \cup Controller!Latched(busy)
<1>2. UartSource \in known
      BY <1>1 DEF RequestInv, Controller!Latched
<1>3. Controller!Candidates(Supervisor, known, 0) = {UartSource}
      BY <1>1, <1>2 DEF Controller!Candidates
<1>4. Controller!Beats(UartSource, UartSource)
      BY SlotsAre DEF Controller!Beats
<1>5. UartSource \in Controller!EligibleSource(Supervisor, known, 0)
      BY <1>3, <1>4 DEF Controller!EligibleSource
<1>6. QED
      BY <1>1, <1>5 DEF Notification, Controller!PendingInterrupts

\* No instruction of a guest that accepts the interrupt of the UART overtakes
\* it.
THEOREM InterruptsComeFirst == MachineSpec => []InterruptsAreNotOvertaken
<1>1. MachineInit => InterruptsAreNotOvertaken
      BY DEF MachineInit, InterruptsAreNotOvertaken
<1>2. LockInv /\ RequestInv /\ InterruptsAreNotOvertaken
        /\ [MachineNext]_machineVars => InterruptsAreNotOvertaken'
  <2> SUFFICES ASSUME LockInv, RequestInv, InterruptsAreNotOvertaken,
                      [MachineNext]_machineVars,
                      phase' = "execute", booted', sie'
               PROVE  ~lineHigh'
      BY DEF InterruptsAreNotOvertaken
  <2>1. CASE Poll
    <3>1. /\ phase = "cpu" /\ booted' = booted /\ lineHigh' = lineHigh
          /\ externalPending' = Notification
          /\ ~(booted /\ externalPending' /\ sie) /\ sie' = sie
          BY <2>1 DEF Poll, uartVars, vars
    <3>2. QED
          BY <3>1, StandingLevelIsNotified
  <2>2. CASE UNCHANGED machineVars
        BY <2>2
        DEF machineVars, uartVars, vars, trapVars, lockVars,
            InterruptsAreNotOvertaken
  <2>3. CASE phase' # "execute"
        BY <2>3
  <2>4. QED
        BY <2>1, <2>2, <2>3
        DEF MachineNext, MachineStep, TickPlic, TickUart, Execute, ResetPlic,
            ResetUartAndHart, HostTypes
<1>3. QED
      BY <1>1, <1>2, RequestInvariant, PTL DEF MachineSpec


-----------------------------------------------------------------------------
(* The UART inside the machine. Whatever the machine does, its UART takes  *)
(* a step of its own or none, so it is right there too.                    *)

\* Every step of the machine is one of its UART, or leaves it alone.
LEMMA UartSteps == [MachineNext]_machineVars => [Next]_vars
<1> SUFFICES ASSUME [MachineNext]_machineVars PROVE [Next]_vars
    OBVIOUS
<1> USE DEF uartVars
<1>1. CASE TickPlic \/ Poll \/ ResetPlic
      BY <1>1 DEF TickPlic, Poll, ResetPlic
<1>2. CASE TickUart
      BY <1>2 DEF TickUart, Next
<1>3. CASE Execute
  <2>1. CASE DriverAccess
        BY <2>1 DEF DriverAccess, Next
  <2>2. CASE LockStep \/ Claim \/ Complete \/ ReturnToTask \/ Boot
        BY <2>2 DEF LockStep, Claim, Complete, ReturnToTask, Boot
  <2> QED BY <1>3, <2>1, <2>2 DEF Execute
<1>4. CASE ResetUartAndHart
      BY <1>4 DEF ResetUartAndHart, Next
<1>5. CASE HostTypes
      BY <1>5 DEF HostTypes, Next
<1>6. CASE UNCHANGED machineVars
      BY <1>6 DEF machineVars
<1> QED
    BY <1>1, <1>2, <1>3, <1>4, <1>5, <1>6 DEF MachineNext, MachineStep

\* The machine's UART is the UART of uart.rs under some guest, host and timing.
THEOREM MachineContainsUart == MachineSpec => Init /\ [][Next]_vars
<1>1. MachineInit => Init
      BY DEF MachineInit
<1> QED BY <1>1, UartSteps, PTL DEF MachineSpec
=============================================================================

-------------------------------- MODULE Uart --------------------------------
(***************************************************************************)
(* The 16550-compatible UART of src/uart.rs: receive and transmit-holding- *)
(* register-empty (THRE) interrupts, their acknowledgement, the timed      *)
(* completion of a transmission, and the level of the interrupt line.      *)
(*                                                                         *)
(* Bytes are not told apart: the backend's input is the number of bytes    *)
(* queued. Registers that only store what is written (modem control,       *)
(* scratch, divisor, the FIFO flag reported in the high bits of IIR, the   *)
(* LCR bits other than DLAB) are left out; accessing one refreshes the     *)
(* interrupt line, as every access does. Accesses of a wrong width or      *)
(* outside the window fail before any effect and have no action.           *)
(***************************************************************************)
EXTENDS Integers

CONSTANTS
  TransmitDelay,    \* transmit_delay_cycles
  CyclesPerTick,    \* cycles the platform passes to one tick
  MaxInput          \* bound on queued input, for model checking only

ASSUME UartAssumption ==
  /\ TransmitDelay \in Nat \ {0}
  /\ CyclesPerTick \in Nat \ {0}
  /\ MaxInput \in Nat

VARIABLES
  interruptEnable,  \* interrupt_enable: the enabled causes
  dlab,             \* the divisor latch access bit of line_control
  input,            \* bytes queued in the backend
  remaining,        \* transmit_cycles_remaining
  transmitterEmpty, \* transmitter_empty
  threPending,      \* transmitter_interrupt_pending
  lineHigh          \* the level of interrupt_line

transmitter == <<remaining, transmitterEmpty, threPending>>
vars == <<interruptEnable, dlab, input, transmitter, lineHigh>>

Causes == {"RxAvailable", "ThrEmpty"}

\* The conditions under which interrupt_identification reports each cause;
\* received data takes precedence.
RxCause == "RxAvailable" \in interruptEnable /\ input > 0
ThreCause == "ThrEmpty" \in interruptEnable /\ threPending

\* interrupt_identification, without the FIFO bits.
Identification ==
  IF RxCause THEN "RxAvailable"
  ELSE IF ThreCause THEN "ThrEmpty" ELSE "None"

\* refresh_interrupt_line, run on the state an access leaves.
RefreshInterruptLine == lineHigh' = (Identification' # "None")

-----------------------------------------------------------------------------
(* Operations.                                                             *)

Init ==
  /\ interruptEnable = {}
  /\ dlab = FALSE
  /\ input = 0
  /\ remaining = 0
  /\ transmitterEmpty = TRUE
  /\ threPending = FALSE
  /\ lineHigh = FALSE

\* The host queues a byte behind the UART's back (queue_input on the shared
\* backend): the line does not move yet.
HostInput ==
  /\ input < MaxInput
  /\ input' = input + 1
  /\ UNCHANGED <<interruptEnable, dlab, transmitter, lineHigh>>

\* A read of RBR takes a byte if there is one; with DLAB set the divisor is
\* read instead.
ReadData ==
  /\ input' = IF dlab \/ input = 0 THEN input ELSE input - 1
  /\ UNCHANGED <<interruptEnable, dlab, transmitter>>
  /\ RefreshInterruptLine

\* Mutant: reading IIR acknowledges THRE whatever cause it reports.
BugReadClearsAnyCause ==
  /\ threPending' = FALSE
  /\ UNCHANGED <<interruptEnable, dlab, input, remaining, transmitterEmpty>>
  /\ RefreshInterruptLine

\* A read of IIR acknowledges the THRE interrupt if that is what it reports.
ReadIdentification ==
  /\ threPending' = (threPending /\ Identification # "ThrEmpty")
  /\ UNCHANGED <<interruptEnable, dlab, input, remaining, transmitterEmpty>>
  /\ RefreshInterruptLine

\* A read of any other register, or a write to one that only stores.
AccessStorage ==
  /\ UNCHANGED <<interruptEnable, dlab, input, transmitter>>
  /\ RefreshInterruptLine

\* A write to THR the backend accepts: the byte is out at once, but the
\* transmitter stays busy for the delay, counted again from this byte. If
\* the backend fails the access fails, with no effect at all.
Transmit ==
  /\ ~dlab
  /\ transmitterEmpty' = FALSE
  /\ remaining' = TransmitDelay
  /\ threPending' = FALSE
  /\ UNCHANGED <<interruptEnable, dlab, input>>
  /\ RefreshInterruptLine

\* Mutant: a write to IER that leaves the line as it was.
BugMaskKeepsLine(causes) ==
  /\ ~dlab
  /\ interruptEnable' = causes
  /\ threPending' = \/ threPending
                    \/ /\ "ThrEmpty" \in causes \ interruptEnable
                       /\ transmitterEmpty
  /\ UNCHANGED <<dlab, input, remaining, transmitterEmpty, lineHigh>>

\* A write to IER keeps the implemented bits; newly enabling THRE while the
\* transmitter is empty requests the interrupt.
WriteInterruptEnable(causes) ==
  /\ ~dlab
  /\ interruptEnable' = causes
  /\ threPending' = \/ threPending
                    \/ /\ "ThrEmpty" \in causes \ interruptEnable
                       /\ transmitterEmpty
  /\ UNCHANGED <<dlab, input, remaining, transmitterEmpty>>
  /\ RefreshInterruptLine

\* A write to FCR may clear either direction.
WriteFifoControl(clearRx, clearTx) ==
  /\ input' = IF clearRx THEN 0 ELSE input
  /\ IF clearTx
     THEN /\ remaining' = 0
          /\ transmitterEmpty' = TRUE
          /\ threPending' = ("ThrEmpty" \in interruptEnable)
     ELSE UNCHANGED transmitter
  /\ UNCHANGED <<interruptEnable, dlab>>
  /\ RefreshInterruptLine

WriteLineControl(latch) ==
  /\ dlab' = latch
  /\ UNCHANGED <<interruptEnable, input, transmitter>>
  /\ RefreshInterruptLine

\* reset also resets the backend, and lowers the line.
Reset ==
  /\ interruptEnable' = {}
  /\ dlab' = FALSE
  /\ input' = 0
  /\ remaining' = 0
  /\ transmitterEmpty' = TRUE
  /\ threPending' = FALSE
  /\ lineHigh' = FALSE

\* Mutant: a countdown that does not saturate, and so never gets past a
\* remainder smaller than a tick.
BugTickNeedsMultiple ==
  LET left == IF remaining < CyclesPerTick THEN remaining
              ELSE remaining - CyclesPerTick
  IN  /\ remaining' = left
      /\ IF ~transmitterEmpty /\ left = 0
         THEN /\ transmitterEmpty' = TRUE
              /\ threPending' = ("ThrEmpty" \in interruptEnable)
         ELSE UNCHANGED <<transmitterEmpty, threPending>>
      /\ UNCHANGED <<interruptEnable, dlab, input>>
      /\ RefreshInterruptLine

\* tick: the saturating countdown, and the completion it may reach.
Tick ==
  LET left == IF remaining > CyclesPerTick THEN remaining - CyclesPerTick ELSE 0
  IN  /\ remaining' = left
      /\ IF ~transmitterEmpty /\ left = 0
         THEN /\ transmitterEmpty' = TRUE
              /\ threPending' = ("ThrEmpty" \in interruptEnable)
         ELSE UNCHANGED <<transmitterEmpty, threPending>>
      /\ UNCHANGED <<interruptEnable, dlab, input>>
      /\ RefreshInterruptLine

GuestAccess ==
  \/ ReadData
  \/ ReadIdentification
  \/ AccessStorage
  \/ Transmit
  \/ \E causes \in SUBSET Causes : WriteInterruptEnable(causes)
  \/ \E clearRx, clearTx \in BOOLEAN : WriteFifoControl(clearRx, clearTx)
  \/ \E latch \in BOOLEAN : WriteLineControl(latch)

Next == HostInput \/ GuestAccess \/ Reset \/ Tick

\* The machine ticks every device before every instruction.
Spec == Init /\ [][Next]_vars /\ WF_vars(Tick)

-----------------------------------------------------------------------------
(* Properties.                                                             *)

\* Every register has its type.
TypeOK ==
  /\ interruptEnable \in SUBSET Causes
  /\ dlab \in BOOLEAN
  /\ input \in Nat
  /\ remaining \in 0 .. TransmitDelay
  /\ transmitterEmpty \in BOOLEAN
  /\ threPending \in BOOLEAN
  /\ lineHigh \in BOOLEAN

\* The countdown runs exactly while the transmitter is busy, and a THRE
\* request stands only while it is empty: a driver that takes the interrupt
\* never finds the transmitter busy, and a busy one always has an end.
TransmitterOK ==
  /\ transmitterEmpty <=> remaining = 0
  /\ threPending => transmitterEmpty

\* The level the interrupt controller samples is never wrong in either
\* direction, but for one delay: it is high only for a cause IIR would
\* report, and low in spite of a cause only for input the host queued since
\* the last access or tick.
LineFollowsCause ==
  /\ lineHigh => Identification # "None"
  /\ ~lineHigh => Identification # "ThrEmpty"

\* An interrupt the driver has not been told of is not withdrawn: a THRE
\* cause disappears only when a read of IIR reports it (received data masks
\* it there), when a new byte is written, or when the driver masks or resets
\* it.
ThreNotLost ==
  [][ThreCause /\ ~ThreCause' =>
       \/ ReadIdentification /\ Identification = "ThrEmpty"
       \/ ~transmitterEmpty'
       \/ "ThrEmpty" \notin interruptEnable']_vars

\* Whenever a transmission ends, by time or by a flush, with THRE enabled,
\* the line is high at once.
CompletionInterrupts ==
  [][~transmitterEmpty /\ transmitterEmpty' /\ "ThrEmpty" \in interruptEnable'
       => lineHigh']_vars

\* A transmission ends unless the driver keeps writing: only a further byte
\* restarts the countdown.
TransmitterDrains == []<>transmitterEmpty \/ []<><<Transmit>>_vars

=============================================================================

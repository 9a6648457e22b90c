----------------------------- MODULE VirtMachine -----------------------------
(***************************************************************************)
(* The machine of src/machine.rs with its UART, its PLIC and one hart: a   *)
(* step ticks the devices on the bus in address order, the PLIC before the *)
(* UART, then refreshes the hart's external interrupt and either enters a  *)
(* trap or executes one instruction. Every part of a step is an action;    *)
(* phase says which one is next. A reset runs in the same order.           *)
(*                                                                         *)
(* The guest is an xv6 kernel in supervisor mode: a task, and a handler    *)
(* that interrupts it. Its lock primitives are the fast paths of           *)
(* src/cpu/xv6_accelerator.rs, one instruction each; acquire takes the     *)
(* lock without testing it. The kernel's words are mapped: the fast paths  *)
(* do not fault. For the rest the guest uses the UART as it likes.         *)
(***************************************************************************)
EXTENDS Uart, FiniteSets

CONSTANT MaxNoff    \* bound on nested push_offs, for model checking only

VARIABLES
  priority, pending, pendingSources, enabled, threshold, busy, handlers,
                    \* the PLIC (see Plic)
  phase,            \* the part of the step, or of the reset, that is next
  externalPending,  \* SEIP as the last refresh left it
  booted,           \* the guest has enabled the UART's interrupt
  sie, spie,        \* sstatus.SIE, SPIE
  handling,         \* the handler runs, not the task
  locked,           \* the lock word of a lock that task and handler share
  noff, intena,     \* the guest's struct cpu
  owners,           \* which of them hold the lock (history)
  sieBefore         \* SIE when interrupts were last turned off (history)

uartVars == vars
plicVars == <<priority, pending, pendingSources, enabled, threshold, busy,
              handlers>>
trapVars == <<externalPending, booted, spie, handling>>
lockVars == <<sie, locked, noff, intena, owners, sieBefore>>
machineVars == <<uartVars, plicVars, phase, trapVars, lockVars>>

UartSource == 1
Supervisor == "SupervisorExternal"

Controller ==
  INSTANCE Plic WITH SourceCount <- UartSource, ActiveSources <- {UartSource},
    Contexts <- {Supervisor}, MaximumPriority <- 1, WordBits <- 2,
    line <- IF lineHigh THEN {UartSource} ELSE {}

InService == Controller!InService(UartSource)
Frame == IF handling THEN "handler" ELSE "task"

-----------------------------------------------------------------------------
(* The step: Machine::step, Bus::tick and Cpu::step.                       *)

TickPlic ==
  /\ phase = "plic" /\ phase' = "uart"
  /\ UNCHANGED <<uartVars, trapVars, lockVars>>
  /\ Controller!Synchronise

TickUart ==
  /\ phase = "uart" /\ phase' = "cpu"
  /\ Tick
  /\ UNCHANGED <<plicVars, trapVars, lockVars>>

\* Mutant: the hart is given the outcome of the PLIC's last tick.
BugStaleNotification ==
  Controller!EligibleSource(Supervisor, pendingSources, threshold[Supervisor]) # {}

\* What Bus::pending_interrupts merges for the supervisor.
Notification == Supervisor \in Controller!PendingInterrupts

\* take_pending_interrupt: the refresh, and the trap if it is taken.
Poll ==
  /\ phase = "cpu"
  /\ UNCHANGED uartVars
  /\ Controller!Synchronise
  /\ externalPending' = Notification
  /\ IF booted /\ externalPending' /\ sie
     THEN /\ phase' = "plic" /\ handling' = TRUE
          /\ sie' = FALSE /\ spie' = TRUE
     ELSE phase' = "execute" /\ UNCHANGED <<sie, spie, handling>>
  /\ UNCHANGED <<booted, locked, noff, intena, owners, sieBefore>>

-----------------------------------------------------------------------------
(* The lock primitives.                                                    *)

\* Mutant: every level saves SIE, not the outermost only.
BugSavesEveryLevel ==
  /\ noff < MaxNoff
  /\ sie' = FALSE
  /\ intena' = sie
  /\ noff' = noff + 1
  /\ sieBefore' = IF noff = 0 THEN sie ELSE sieBefore

\* fast_push_off_inline.
PushOff ==
  /\ noff < MaxNoff
  /\ sie' = FALSE
  /\ intena' = IF noff = 0 THEN sie ELSE intena
  /\ noff' = noff + 1
  /\ sieBefore' = IF noff = 0 THEN sie ELSE sieBefore

\* Mutant: interrupts come back on with the innermost level.
BugPopEnablesEarly ==
  /\ noff' = IF noff = 0 THEN 0 ELSE noff - 1
  /\ sie' = (sie \/ intena)
  /\ UNCHANGED <<intena, sieBefore>>

\* fast_pop_off_inline.
PopOff ==
  /\ noff' = IF noff = 0 THEN 0 ELSE noff - 1
  /\ sie' = (sie \/ (noff' = 0 /\ intena))
  /\ UNCHANGED <<intena, sieBefore>>

\* fast_xv6_acquire. The guest does not take a lock it has taken.
Acquire ==
  /\ Frame \notin owners
  /\ PushOff
  /\ locked' = TRUE
  /\ owners' = owners \cup {Frame}

\* fast_xv6_release. The guest releases what holding (fast_xv6_holding) tells
\* it is taken, and by itself.
Release ==
  /\ locked /\ Frame \in owners
  /\ PopOff
  /\ locked' = FALSE
  /\ owners' = owners \ {Frame}

\* The guest nests push_off and pop_off, and turns interrupts on and off
\* itself only when it has pushed nothing; the handler leaves them off.
LockStep ==
  /\ \/ Acquire
     \/ Release
     \/ PushOff /\ UNCHANGED <<locked, owners>>
     \/ /\ noff > Cardinality({Frame} \cap owners)
        /\ PopOff /\ UNCHANGED <<locked, owners>>
     \/ /\ noff = 0 /\ ~handling
        /\ sie' = ~sie
        /\ UNCHANGED <<locked, noff, intena, owners, sieBefore>>
  /\ UNCHANGED <<uartVars, plicVars, trapVars>>

-----------------------------------------------------------------------------
(* The other instructions.                                                 *)

DriverAccess == GuestAccess /\ UNCHANGED <<plicVars, trapVars, lockVars>>

\* The handler claims once, and completes what it has claimed.
Claim ==
  /\ handling /\ ~InService
  /\ UNCHANGED <<uartVars, trapVars, lockVars>>
  /\ \/ Controller!ClaimSource(Supervisor, UartSource)
     \/ Controller!ClaimNothing(Supervisor)

Complete ==
  /\ handling /\ InService
  /\ UNCHANGED <<uartVars, trapVars, lockVars>>
  /\ Controller!Complete(Supervisor, UartSource)

\* sret, at the end of the handler.
ReturnToTask ==
  /\ handling /\ ~InService /\ owners = {} /\ noff = 0
  /\ handling' = FALSE /\ sie' = spie /\ spie' = TRUE
  /\ UNCHANGED <<uartVars, plicVars, externalPending, booted, locked, noff,
                 intena, owners, sieBefore>>

\* The kernel starts: it enables the UART in the PLIC and clears its memory.
Boot ==
  /\ ~booted /\ booted' = TRUE
  /\ priority' = [priority EXCEPT ![UartSource] = 1]
  /\ enabled' = [enabled EXCEPT ![Supervisor] = {UartSource}]
  /\ locked' = FALSE /\ noff' = 0 /\ intena' = FALSE
  /\ owners' = {} /\ sieBefore' = FALSE
  /\ UNCHANGED <<uartVars, pending, pendingSources, threshold, busy, handlers,
                 externalPending, sie, spie, handling>>

Execute ==
  /\ phase = "execute" /\ phase' = "plic"
  /\ IF booted THEN DriverAccess \/ LockStep \/ Claim \/ Complete \/ ReturnToTask
     ELSE DriverAccess \/ Boot

-----------------------------------------------------------------------------
(* Machine::reset, between two steps: memory keeps its contents.           *)

ResetPlic ==
  /\ phase = "plic" /\ phase' = "resetUart"
  /\ UNCHANGED <<uartVars, trapVars, lockVars>>
  /\ Controller!Reset

ResetUartAndHart ==
  /\ phase = "resetUart" /\ phase' = "plic"
  /\ Reset
  /\ externalPending' = FALSE /\ booted' = FALSE
  /\ sie' = FALSE /\ spie' = FALSE /\ handling' = FALSE
  /\ UNCHANGED <<plicVars, locked, noff, intena, owners, sieBefore>>

\* The user types.
HostTypes ==
  /\ phase = "plic"
  /\ HostInput
  /\ UNCHANGED <<plicVars, phase, trapVars, lockVars>>

MachineInit ==
  /\ Init
  /\ priority = [s \in Controller!Slots |-> 0]
  /\ pending = {} /\ pendingSources = {} /\ busy = {}
  /\ enabled = [c \in {Supervisor} |-> {}]
  /\ threshold = [c \in {Supervisor} |-> 0]
  /\ handlers = [s \in Controller!Slots |-> {}]
  /\ phase = "plic"
  /\ externalPending = FALSE /\ booted = FALSE
  /\ sie = FALSE /\ spie = FALSE /\ handling = FALSE
  /\ locked = FALSE /\ noff = 0 /\ intena = FALSE
  /\ owners = {} /\ sieBefore = FALSE

MachineStep == TickPlic \/ TickUart \/ Poll \/ Execute \/ ResetUartAndHart

MachineNext == MachineStep \/ ResetPlic \/ HostTypes

\* Machine::run steps for ever.
MachineSpec ==
  MachineInit /\ [][MachineNext]_machineVars /\ WF_machineVars(MachineStep)

-----------------------------------------------------------------------------
(* Properties.                                                             *)

\* No instruction of a guest that accepts the UART's interrupt overtakes it:
\* when the hart executes one, the line is low, also if a tick of this very
\* step, which the PLIC's tick did not see, has raised it.
InterruptsAreNotOvertaken ==
  phase = "execute" /\ booted /\ sie => ~lineHigh

\* An interrupt is delivered again as long as its cause stands: after each
\* completion a level that is still high makes a new request.
CauseReachesHandler ==
  (booted /\ sie /\ Identification # "None")
    ~> (handling \/ ~sie \/ ~booted \/ Identification = "None")

\* While anyone holds the lock or has pushed interrupts off they stay off, and
\* so the lock that acquire takes untested is free: the handler never finds
\* it held by the task it has interrupted.
LockExcludesHandler ==
  booted => /\ noff > 0 => ~sie
            /\ owners # {} => noff > 0 /\ locked
            /\ owners # {"task", "handler"}

\* However locks and push_offs nest, the last release leaves interrupts as
\* the first acquire found them.
EnableIsRestored ==
  [][booted /\ noff > 0 /\ noff' = 0 /\ booted' => sie' = sieBefore]_machineVars
=============================================================================

---------------------------- MODULE InterruptCsrs ---------------------------
(***************************************************************************)
(* The interrupt registers of src/csr.rs and their supervisor views: mip   *)
(* (software bits and hardware levels kept apart), mie, mideleg, and the   *)
(* Sstc timer registers, with the refresh of the hardware levels that      *)
(* src/cpu.rs performs at the start of every step.                         *)
(*                                                                         *)
(* A register is the set of the interrupts whose bits are 1. TIME and      *)
(* STIMECMP are modelled by the outcome of their comparison: time only     *)
(* grows, so once the deadline is reached it stays so until STIMECMP is    *)
(* written. An instance whose Interrupts lack STI leaves the timer alone.  *)
(***************************************************************************)
EXTENDS Integers

CONSTANTS
  Interrupts,       \* the interrupts this instance tells apart
  DeviceInterrupts  \* those a device (the PLIC) may drive

AllInterrupts == {"SSI", "MSI", "STI", "MTI", "SEI", "MEI"}

ASSUME InterruptAssumption ==
  /\ Interrupts \subseteq AllInterrupts
  /\ DeviceInterrupts \subseteq Interrupts \cap {"SEI", "MEI"}

VARIABLES
  mideleg,          \* csrs[MIDELEG]
  mie,              \* csrs[MIE]
  mipSoft,          \* csrs[MIP]: what software wrote
  hardwarePending,  \* hardware_pending: the levels of the last refresh
  stce,             \* menvcfg.STCE
  counterTM,        \* mcounteren.TM
  expired,          \* TIME >= STIMECMP
  asked             \* history: delegable bits (the only ones mip can latch)
                    \* that software asked for and did not clear

interruptVars == <<mideleg, mie, mipSoft, hardwarePending, stce, counterTM,
                   expired, asked>>

User == 0
Supervisor == 1
Machine == 3
Privileges == {User, Supervisor, Machine}

Delegable == {"SSI", "STI", "SEI"}
HasTimer == "STI" \in Interrupts

\* The bits of mip a machine-mode write changes.
MipWritable == {"SSI", "SEI"} \cup (IF stce THEN {} ELSE {"STI"})

\* What a read-modify-write instruction computes from the old bits.
Operations == {"write", "set", "clear"}

Computed(old, op, bits) ==
  CASE op = "write" -> bits
    [] op = "set"   -> old \cup bits
    [] op = "clear" -> old \ bits

\* Mutant: the old value of a read-modify-write includes hardware levels.
BugLoadsLevels(view) == (mipSoft \cup hardwarePending') \cap view

\* load_for_write of mip or sip: the software bits a view shows.
LoadForWrite(view) == mipSoft \cap view

-----------------------------------------------------------------------------
(* The start of a step: time passes, the timer and the devices set the     *)
(* hardware levels.                                                        *)

Refresh(devices, late) ==
  /\ hardwarePending' =
       devices \cup (IF HasTimer /\ stce /\ late THEN {"STI"} ELSE {})
  /\ expired => late
  /\ late => HasTimer

-----------------------------------------------------------------------------
(* CSR instructions at privilege p. Each says what becomes of expired;     *)
(* late is its value after this step's tick.                               *)

\* A bit that was delegated and is no longer keeps its enable.
WriteMideleg(p, bits) ==
  /\ p = Machine
  /\ mideleg' = bits \cap Delegable
  /\ UNCHANGED <<mie, mipSoft, stce, counterTM, asked>>

WriteMie(p, bits) ==
  /\ p = Machine
  /\ mie' = bits
  /\ UNCHANGED <<mideleg, mipSoft, stce, counterTM, asked>>

\* Mutant: a write of sie that reaches interrupts not delegated.
BugSieWritesAll(p, bits) ==
  /\ p \in {Supervisor, Machine}
  /\ mie' = bits
  /\ UNCHANGED <<mideleg, mipSoft, stce, counterTM, asked>>

\* sie is the delegated part of mie.
WriteSie(p, bits) ==
  /\ p \in {Supervisor, Machine}
  /\ mie' = (mie \ mideleg) \cup (bits \cap mideleg)
  /\ UNCHANGED <<mideleg, mipSoft, stce, counterTM, asked>>

WriteMip(p, op, bits) ==
  /\ p = Machine
  /\ mipSoft' = (mipSoft \ MipWritable)
                  \cup (Computed(LoadForWrite(Interrupts), op, bits)
                          \cap MipWritable)
  /\ asked' = Computed(asked, op, bits) \cap Delegable
  /\ UNCHANGED <<mideleg, mie, stce, counterTM>>

\* Of sip only a delegated SSI can be written.
WriteSip(p, op, bits) ==
  LET writable == mideleg \cap {"SSI"}
  IN  /\ p \in {Supervisor, Machine}
      /\ mipSoft' = (mipSoft \ writable)
                      \cup (Computed(LoadForWrite(mideleg), op, bits)
                              \cap writable)
      /\ asked' = IF op = "clear" THEN asked
                  ELSE asked \cup (bits \cap Delegable)
      /\ UNCHANGED <<mideleg, mie, stce, counterTM>>

\* When STCE rises the software STIP is dropped: the timer owns the bit.
WriteMenvcfg(p, enable) ==
  /\ p = Machine /\ HasTimer
  /\ stce' = enable
  /\ mipSoft' = IF ~stce /\ enable THEN mipSoft \ {"STI"} ELSE mipSoft
  /\ UNCHANGED <<mideleg, mie, counterTM, asked>>

WriteMcounteren(p, enable) ==
  /\ p = Machine /\ HasTimer
  /\ counterTM' = enable
  /\ UNCHANGED <<mideleg, mie, mipSoft, stce, asked>>

\* Below machine mode stimecmp needs both enables.
StimecmpAllowed(p) ==
  /\ HasTimer
  /\ p = Machine \/ (p = Supervisor /\ stce /\ counterTM)

\* An instruction that writes one of these registers.
WriteRegister(p) ==
  \/ \E bits \in SUBSET Interrupts :
       WriteMideleg(p, bits) \/ WriteMie(p, bits) \/ WriteSie(p, bits)
  \/ \E op \in Operations, bits \in SUBSET Interrupts :
       WriteMip(p, op, bits) \/ WriteSip(p, op, bits)
  \/ \E enable \in BOOLEAN : WriteMenvcfg(p, enable) \/ WriteMcounteren(p, enable)

\* The interrupt registers over an instruction that runs at privilege p.
CsrStep(p, late) ==
  \/ WriteRegister(p) /\ expired' = late
  \/ /\ StimecmpAllowed(p)
     /\ expired' \in BOOLEAN
     /\ UNCHANGED <<mideleg, mie, mipSoft, stce, counterTM, asked>>

\* The interrupt registers over any other instruction, or a trap.
NoCsrStep(late) ==
  /\ expired' = late
  /\ UNCHANGED <<mideleg, mie, mipSoft, stce, counterTM, asked>>

InitRegisters ==
  /\ mideleg = {}
  /\ mie = {}
  /\ mipSoft = {}
  /\ hardwarePending = {}
  /\ stce = FALSE
  /\ counterTM = FALSE
  /\ expired = FALSE
  /\ asked = {}

\* A reset replaces the whole CSR file; STIMECMP becomes the largest value.
ResetRegisters ==
  /\ mideleg' = {}
  /\ mie' = {}
  /\ mipSoft' = {}
  /\ hardwarePending' = {}
  /\ stce' = FALSE
  /\ counterTM' = FALSE
  /\ expired' = FALSE
  /\ asked' = {}

\* The registers on their own, written at any privilege in any order.
NextRegisters ==
  \/ \E devices \in SUBSET DeviceInterrupts, late \in BOOLEAN :
       /\ Refresh(devices, late)
       /\ NoCsrStep(late) \/ \E p \in Privileges : CsrStep(p, late)
  \/ ResetRegisters

SpecRegisters == InitRegisters /\ [][NextRegisters]_interruptVars

-----------------------------------------------------------------------------
(* Properties.                                                             *)

\* Only delegable interrupts are delegated and only writable ones are ever
\* set by software.
RegistersTypeOK ==
  /\ mideleg \subseteq Delegable \cap Interrupts
  /\ mie \subseteq Interrupts
  /\ mipSoft \subseteq Delegable \cap Interrupts
  /\ hardwarePending \subseteq Interrupts
  /\ stce \in BOOLEAN /\ counterTM \in BOOLEAN /\ expired \in BOOLEAN
  /\ asked \subseteq Delegable \cap Interrupts

\* While Sstc is enabled the timer alone drives STIP: no software bit set
\* before or during that time keeps the interrupt pending once the deadline
\* has been moved.
SstcOwnsStip == stce => "STI" \notin mipSoft

\* A read-modify-write of mip or sip, whatever it sets or clears, never
\* turns a hardware level it happens to see into a software bit: what is
\* latched was asked for.
LevelsAreNotLatched == mipSoft \subseteq asked
=============================================================================

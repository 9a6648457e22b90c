-------------------------------- MODULE Hart --------------------------------
(***************************************************************************)
(* The privilege architecture of src/cpu.rs: one step of the hart is a     *)
(* tick and a refresh of the pending interrupts, then either the entry of  *)
(* an interrupt or one instruction, which may trap, return from a trap or  *)
(* write a CSR. The registers that only hold an address or a value (xEPC,  *)
(* xCAUSE, xTVAL, xTVEC, xSCRATCH, the integer registers) are left out, as *)
(* are the mstatus fields that only gate other accesses (TVM, TW: their    *)
(* effect is one more way to raise an illegal instruction; SUM, MXR).      *)
(***************************************************************************)
EXTENDS InterruptCsrs

CONSTANTS
  Exceptions,         \* synchronous exceptions this instance tells apart
  DelegableExceptions \* those medeleg implements

ASSUME ExceptionAssumption == DelegableExceptions \subseteq Exceptions

VARIABLES
  privilege,  \* privilege
  mstatus,    \* csrs[MSTATUS]: the fields below
  medeleg,    \* csrs[MEDELEG]
  mframe,     \* history: what the last trap to machine mode interrupted,
  sframe      \* and to supervisor mode; empty when software overwrote it

hartVars == <<privilege, mstatus, medeleg, mframe, sframe>>
vars == <<hartVars, interruptVars>>

StatusFields ==
  [sie : BOOLEAN, mie : BOOLEAN, spie : BOOLEAN, mpie : BOOLEAN,
   spp : {User, Supervisor}, mpp : Privileges,
   mprv : BOOLEAN, tsr : BOOLEAN]

Frames == [priv : Privileges, ie : BOOLEAN]

\* A history frame survives while the fields that hold it do.
Keep(frame, same) == IF same THEN frame ELSE {}

SameMachineFrame(old, new) == new.mpp = old.mpp /\ new.mpie = old.mpie
SameSupervisorFrame(old, new) == new.spp = old.spp /\ new.spie = old.spie

-----------------------------------------------------------------------------
(* Traps.                                                                  *)

\* Mutant: the interrupt enable is saved after it was cleared.
BugSavesClearedEnable(target) ==
  /\ privilege' = target
  /\ mstatus' =
       IF target = Machine
       THEN [mstatus EXCEPT !.mpie = FALSE, !.mpp = privilege, !.mie = FALSE]
       ELSE [mstatus EXCEPT !.spie = FALSE, !.sie = FALSE,
               !.spp = IF privilege = Supervisor THEN Supervisor ELSE User]
  /\ mframe' = IF target = Machine
               THEN {[priv |-> privilege, ie |-> mstatus.mie]} ELSE mframe
  /\ sframe' = IF target = Supervisor
               THEN {[priv |-> privilege, ie |-> mstatus.sie]} ELSE sframe
  /\ UNCHANGED medeleg

\* enter_trap, to machine or supervisor mode.
EnterTrap(target) ==
  /\ privilege' = target
  /\ mstatus' =
       IF target = Machine
       THEN [mstatus EXCEPT !.mpie = mstatus.mie, !.mpp = privilege,
                            !.mie = FALSE]
       ELSE [mstatus EXCEPT !.spie = mstatus.sie, !.sie = FALSE,
               !.spp = IF privilege = Supervisor THEN Supervisor ELSE User]
  /\ mframe' = IF target = Machine
               THEN {[priv |-> privilege, ie |-> mstatus.mie]} ELSE mframe
  /\ sframe' = IF target = Supervisor
               THEN {[priv |-> privilege, ie |-> mstatus.sie]} ELSE sframe
  /\ UNCHANGED medeleg

\* Mutant: interrupts are looked up before the levels are refreshed.
BugStalePending == (mipSoft \cup hardwarePending) \cap mie

\* The pending and enabled interrupts, after the refresh.
Pending == (mipSoft \cup hardwarePending') \cap mie

InterruptTarget(i) == IF i \in mideleg THEN Supervisor ELSE Machine

\* The tests under which take_pending_interrupt passes an interrupt over.
Masked(i) ==
  IF i \in mideleg
  THEN privilege = Machine \/ (privilege = Supervisor /\ ~mstatus.sie)
  ELSE privilege = Machine /\ ~mstatus.mie

Takeable == {i \in Pending : ~Masked(i)}

Rank ==
  [MEI |-> 1, MSI |-> 2, MTI |-> 3, SEI |-> 4, SSI |-> 5, STI |-> 6]

TakeInterrupt ==
  \E i \in Takeable :
    /\ \A j \in Takeable : Rank[i] <= Rank[j]
    /\ EnterTrap(InterruptTarget(i))

\* trap_exception: delegated unless raised in machine mode.
ExceptionTarget(e) ==
  IF privilege # Machine /\ e \in medeleg THEN Supervisor ELSE Machine

\* The one exception medeleg does not implement, the environment call from
\* machine mode, is raised there only.
Raise(e) ==
  /\ e \in DelegableExceptions \/ privilege = Machine
  /\ EnterTrap(ExceptionTarget(e))

-----------------------------------------------------------------------------
(* Returns.                                                                *)

\* Mutant: mret that leaves MPRV set below machine mode.
BugReturnKeepsMprv ==
  /\ privilege = Machine
  /\ privilege' = mstatus.mpp
  /\ mstatus' = [mstatus EXCEPT !.mie = mstatus.mpie, !.mpie = TRUE,
                                !.mpp = User]
  /\ mframe' = {}
  /\ UNCHANGED <<sframe, medeleg>>

\* mret; in a lower mode it is an illegal instruction (Raise).
MachineReturn ==
  /\ privilege = Machine
  /\ privilege' = mstatus.mpp
  /\ mstatus' = [mstatus EXCEPT !.mie = mstatus.mpie, !.mpie = TRUE,
                   !.mpp = User,
                   !.mprv = @ /\ mstatus.mpp = Machine]
  /\ mframe' = {}
  /\ UNCHANGED <<sframe, medeleg>>

\* sret; illegal in user mode, and in supervisor mode under TSR.
SupervisorReturn ==
  /\ privilege = Machine \/ (privilege = Supervisor /\ ~mstatus.tsr)
  /\ privilege' = mstatus.spp
  /\ mstatus' = [mstatus EXCEPT !.sie = mstatus.spie, !.spie = TRUE,
                   !.spp = User, !.mprv = FALSE]
  /\ sframe' = {}
  /\ UNCHANGED <<mframe, medeleg>>

-----------------------------------------------------------------------------
(* Status and delegation registers.                                        *)

\* sanitize_mstatus replaces the reserved encoding 2 of MPP.
SanitizeMpp(mpp) == IF mpp = 2 THEN User ELSE mpp

\* Values that differ from mstatus in one field, as csrrs and csrrc with one
\* bit write them; longer writes are sequences of these.
SupervisorChanges ==
       {[mstatus EXCEPT !.sie = b] : b \in BOOLEAN}
  \cup {[mstatus EXCEPT !.spie = b] : b \in BOOLEAN}
  \cup {[mstatus EXCEPT !.spp = q] : q \in {User, Supervisor}}

MachineChanges ==
       {[mstatus EXCEPT !.mie = b] : b \in BOOLEAN}
  \cup {[mstatus EXCEPT !.mpie = b] : b \in BOOLEAN}
  \cup {[mstatus EXCEPT !.mpp = SanitizeMpp(q)] : q \in 0 .. 3}
  \cup {[mstatus EXCEPT !.mprv = b] : b \in BOOLEAN}
  \cup {[mstatus EXCEPT !.tsr = b] : b \in BOOLEAN}

StoreStatus(value) ==
  /\ mstatus' = value
  /\ mframe' = Keep(mframe, SameMachineFrame(mstatus, value))
  /\ sframe' = Keep(sframe, SameSupervisorFrame(mstatus, value))
  /\ UNCHANGED <<privilege, medeleg>>

WriteMstatus ==
  /\ privilege = Machine
  /\ \E value \in MachineChanges \cup SupervisorChanges : StoreStatus(value)

\* sstatus shows and writes the supervisor fields only.
WriteSstatus ==
  /\ privilege # User
  /\ \E value \in SupervisorChanges : StoreStatus(value)

WriteMedeleg(bits) ==
  /\ privilege = Machine
  /\ medeleg' = bits \cap DelegableExceptions
  /\ UNCHANGED <<privilege, mstatus, mframe, sframe>>

-----------------------------------------------------------------------------
(* Steps.                                                                  *)

\* One instruction; late is the state of the deadline after the tick.
Instruction(late) ==
  \/ /\ NoCsrStep(late)
     /\ \/ \E e \in Exceptions : Raise(e)
        \/ MachineReturn
        \/ SupervisorReturn
        \/ WriteMstatus
        \/ WriteSstatus
        \/ \E bits \in SUBSET Exceptions : WriteMedeleg(bits)
        \/ UNCHANGED hartVars
  \/ CsrStep(privilege, late) /\ UNCHANGED hartVars

\* step: the tick and the refresh come first, so that what just became
\* pending is taken before the next instruction.
Step ==
  \E devices \in SUBSET DeviceInterrupts, late \in BOOLEAN :
    /\ Refresh(devices, late)
    /\ \/ TakeInterrupt /\ NoCsrStep(late)
       \/ Takeable = {} /\ Instruction(late)

Init ==
  /\ InitRegisters
  /\ privilege = Machine
  /\ mstatus = [sie |-> FALSE, mie |-> FALSE, spie |-> FALSE, mpie |-> FALSE,
                spp |-> User, mpp |-> User, mprv |-> FALSE, tsr |-> FALSE]
  /\ medeleg = {}
  /\ mframe = {}
  /\ sframe = {}

Reset ==
  /\ ResetRegisters
  /\ privilege' = Machine
  /\ mstatus' = [sie |-> FALSE, mie |-> FALSE, spie |-> FALSE, mpie |-> FALSE,
                 spp |-> User, mpp |-> User, mprv |-> FALSE, tsr |-> FALSE]
  /\ medeleg' = {}
  /\ mframe' = {}
  /\ sframe' = {}

Next == Step \/ Reset

Spec == Init /\ [][Next]_vars

-----------------------------------------------------------------------------
(* Properties.                                                             *)

\* Every register has its type: in particular MPP never holds the reserved
\* encoding, on which machine_return and effective_privilege would panic.
TypeOK ==
  /\ RegistersTypeOK
  /\ privilege \in Privileges
  /\ mstatus \in StatusFields
  /\ medeleg \subseteq DelegableExceptions
  /\ mframe \subseteq Frames
  /\ sframe \subseteq Frames

\* MPRV, which lets loads and stores use the privilege in MPP, is never set
\* while code below machine mode runs, whichever way that code was reached.
MprvOnlyInMachine == privilege # Machine => ~mstatus.mprv

\* However traps to the two modes nest, a return restores the privilege and
\* the interrupt enable of the code the last trap to its mode interrupted,
\* unless software overwrote the saved fields.
ReturnRestores ==
  /\ [][MachineReturn =>
          \A f \in mframe : privilege' = f.priv /\ mstatus'.mie = f.ie]_vars
  /\ [][SupervisorReturn =>
          \A f \in sframe : privilege' = f.priv /\ mstatus'.sie = f.ie]_vars

\* A step that starts and ends below machine mode (an instruction, a trap or
\* a return in user and supervisor code) changes no machine-level state: not
\* the machine fields of mstatus, nor delegation, nor the enables and
\* pending bits of interrupts that are not delegated.
MachineStateIsolated ==
  [][privilege # Machine /\ privilege' # Machine =>
       /\ SameMachineFrame(mstatus, mstatus')
       /\ mstatus'.mie = mstatus.mie
       /\ mstatus'.mprv = mstatus.mprv /\ mstatus'.tsr = mstatus.tsr
       /\ mideleg' = mideleg /\ medeleg' = medeleg
       /\ stce' = stce /\ counterTM' = counterTM
       /\ mie' \ mideleg = mie \ mideleg
       /\ mipSoft' \ (mideleg \cap {"SSI"}) = mipSoft \ (mideleg \cap {"SSI"})
    ]_vars

\* An interrupt the architecture delivers: pending and enabled, and its
\* target mode is above the current one, or equal with interrupts enabled.
Delivered(i) ==
  LET target == InterruptTarget(i)
  IN  /\ i \in (mipSoft \cup hardwarePending') \cap mie
      /\ \/ privilege < target
         \/ privilege = Machine /\ target = Machine /\ mstatus.mie
         \/ privilege = Supervisor /\ target = Supervisor /\ mstatus.sie

\* No instruction overtakes an interrupt that arrived at the start of its
\* step: the step enters a trap for an interrupt the architecture delivers.
InterruptsAreTaken ==
  [][(\E i \in Interrupts : Delivered(i)) =>
       \/ Reset
       \/ \E i \in Interrupts :
            /\ Delivered(i)
            /\ privilege' = InterruptTarget(i)
            /\ IF privilege' = Machine THEN ~mstatus'.mie ELSE ~mstatus'.sie
    ]_vars

\* Only returns lower the privilege, and only to the mode a trap or machine
\* software recorded; no trap, delegated or not, ever does.
OnlyReturnsLowerPrivilege ==
  [][privilege' < privilege =>
       \/ privilege = Machine /\ privilege' = mstatus.mpp
       \/ privilege' = mstatus.spp]_vars
=============================================================================

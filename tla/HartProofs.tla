----------------------------- MODULE HartProofs -----------------------------
(***************************************************************************)
(* Proofs about the interrupt registers (on their own, written at any      *)
(* privilege in any order) and about the hart that contains them, for      *)
(* every choice of interrupts and exceptions; about its reservations, for  *)
(* any memory, accesses and page tables; at the end, about the byte and    *)
(* string routines of the kernel that it runs in one step.                 *)
(*                                                                         *)
(* RegisterInv is inductive for the registers: that latched bits were      *)
(* asked for (LevelsAreNotLatched) needs SstcOwnsStip, because a write of  *)
(* mip leaves STIP alone while Sstc owns it. HartInv adds, for the hart,   *)
(* the types, MprvOnlyInMachine and FramesMatch: the history of what each  *)
(* trap interrupted agrees with the fields of mstatus that save it.        *)
(***************************************************************************)
EXTENDS Hart, Reservation, KernelRoutines, IntegerLemmas

RegisterInv == RegistersTypeOK /\ SstcOwnsStip /\ LevelsAreNotLatched

FramesMatch ==
  /\ \A f \in mframe : f.priv = mstatus.mpp /\ f.ie = mstatus.mpie
  /\ \A f \in sframe : f.priv = mstatus.spp /\ f.ie = mstatus.spie

HartTypes ==
  /\ privilege \in Privileges
  /\ mstatus \in StatusFields
  /\ medeleg \subseteq DelegableExceptions
  /\ mframe \subseteq Frames
  /\ sframe \subseteq Frames

HartInv == HartTypes /\ MprvOnlyInMachine /\ FramesMatch

-----------------------------------------------------------------------------
(* The interrupt registers.                                                *)

\* The refresh sets only interrupts the instance knows.
LEMMA RefreshedLevels ==
  ASSUME NEW devices \in SUBSET DeviceInterrupts, NEW late, Refresh(devices, late)
  PROVE  hardwarePending' \subseteq Interrupts
BY InterruptAssumption DEF Refresh, HasTimer

\* What a step leaves alone stays right, whatever the new levels are.
LEMMA NoCsrStepKeeps ==
  ASSUME RegisterInv, NEW late \in BOOLEAN, NoCsrStep(late),
         hardwarePending' \subseteq Interrupts
  PROVE  RegisterInv'
BY DEF RegisterInv, RegistersTypeOK, SstcOwnsStip, LevelsAreNotLatched, NoCsrStep

\* Every register write keeps the invariant of the registers.
LEMMA WriteRegisterKeeps ==
  ASSUME RegisterInv, NEW p, WriteRegister(p), expired' \in BOOLEAN,
         hardwarePending' \subseteq Interrupts
  PROVE  RegisterInv'
<1> USE DEF RegisterInv, RegistersTypeOK, SstcOwnsStip, LevelsAreNotLatched
<1>1. ASSUME NEW bits \in SUBSET Interrupts, WriteMideleg(p, bits)
      PROVE  RegisterInv'
  BY <1>1 DEF WriteMideleg
<1>2. ASSUME NEW bits \in SUBSET Interrupts, WriteMie(p, bits)
      PROVE  RegisterInv'
  BY <1>2 DEF WriteMie
<1>3. ASSUME NEW bits \in SUBSET Interrupts, WriteSie(p, bits)
      PROVE  RegisterInv'
  BY <1>3 DEF WriteSie
<1>4. ASSUME NEW op \in Operations, NEW bits \in SUBSET Interrupts,
             WriteMip(p, op, bits)
      PROVE  RegisterInv'
  <2>1. mipSoft \ MipWritable = {}
    BY DEF MipWritable, Delegable
  <2>2. Computed(LoadForWrite(Interrupts), op, bits)
          \subseteq Computed(asked, op, bits)
    BY DEF Computed, LoadForWrite, Operations
  <2>3. Computed(asked, op, bits) \subseteq Interrupts
    BY DEF Computed, Operations
  <2>4. MipWritable \subseteq Delegable /\ (stce => "STI" \notin MipWritable)
    BY DEF MipWritable, Delegable
  <2>5. mipSoft' \subseteq
          Computed(asked, op, bits) \cap Delegable \cap MipWritable
    BY <1>4, <2>1, <2>2, <2>4 DEF WriteMip
  <2>6. asked' = Computed(asked, op, bits) \cap Delegable
    BY <1>4 DEF WriteMip
  <2>7. UNCHANGED <<mideleg, mie, stce, counterTM>>
    BY <1>4 DEF WriteMip
  <2> QED
    BY <2>3, <2>4, <2>5, <2>6, <2>7
<1>5. ASSUME NEW op \in Operations, NEW bits \in SUBSET Interrupts,
             WriteSip(p, op, bits)
      PROVE  RegisterInv'
  <2>1. mipSoft' \subseteq mipSoft \cup
          (Computed(LoadForWrite(mideleg), op, bits) \cap mideleg \cap {"SSI"})
    BY <1>5 DEF WriteSip
  <2>2. Computed(LoadForWrite(mideleg), op, bits) \subseteq
          mipSoft \cup (IF op = "clear" THEN {} ELSE bits)
    BY DEF Computed, LoadForWrite, Operations
  <2>3. asked' = asked \cup (IF op = "clear" THEN {} ELSE bits \cap Delegable)
    BY <1>5 DEF WriteSip
  <2>4. UNCHANGED <<mideleg, mie, stce, counterTM>>
    BY <1>5 DEF WriteSip
  <2>5. "STI" \in mipSoft' => "STI" \in mipSoft
    BY <2>1
  <2>6. mipSoft' \subseteq Delegable \cap Interrupts
    BY <2>1
  <2> QED
    BY <2>1, <2>2, <2>3, <2>4, <2>5, <2>6
<1>6. ASSUME NEW enable \in BOOLEAN, WriteMenvcfg(p, enable)
      PROVE  RegisterInv'
  BY <1>6 DEF WriteMenvcfg
<1>7. ASSUME NEW enable \in BOOLEAN, WriteMcounteren(p, enable)
      PROVE  RegisterInv'
  BY <1>7 DEF WriteMcounteren
<1> QED
  BY <1>1, <1>2, <1>3, <1>4, <1>5, <1>6, <1>7 DEF WriteRegister

\* So does every instruction that writes one of these registers.
LEMMA CsrStepKeeps ==
  ASSUME RegisterInv, NEW p, NEW late \in BOOLEAN, CsrStep(p, late),
         hardwarePending' \subseteq Interrupts
  PROVE  RegisterInv'
<1>1. CASE WriteRegister(p) /\ expired' = late
  BY <1>1, WriteRegisterKeeps
<1>2. CASE /\ expired' \in BOOLEAN
           /\ UNCHANGED <<mideleg, mie, mipSoft, stce, counterTM, asked>>
  BY <1>2 DEF RegisterInv, RegistersTypeOK, SstcOwnsStip, LevelsAreNotLatched
<1> QED
  BY <1>1, <1>2 DEF CsrStep

\* The reset state satisfies the invariant of the registers.
LEMMA RegistersStart ==
  /\ InitRegisters => RegisterInv
  /\ ResetRegisters => RegisterInv'
BY DEF InitRegisters, ResetRegisters, RegisterInv, RegistersTypeOK,
       SstcOwnsStip, LevelsAreNotLatched

\* The registers on their own keep their invariant.
LEMMA RegistersInvariant == SpecRegisters => []RegisterInv
<1>1. RegisterInv /\ [NextRegisters]_interruptVars => RegisterInv'
  <2> SUFFICES ASSUME RegisterInv, [NextRegisters]_interruptVars
               PROVE  RegisterInv'
    OBVIOUS
  <2>1. ASSUME NEW devices \in SUBSET DeviceInterrupts, NEW late \in BOOLEAN,
               Refresh(devices, late),
               NoCsrStep(late) \/ \E p \in Privileges : CsrStep(p, late)
        PROVE  RegisterInv'
    BY <2>1, RefreshedLevels, NoCsrStepKeeps, CsrStepKeeps
  <2>2. CASE ResetRegisters
    BY <2>2, RegistersStart
  <2>3. CASE UNCHANGED interruptVars
    BY <2>3 DEF interruptVars, RegisterInv, RegistersTypeOK, SstcOwnsStip,
                LevelsAreNotLatched
  <2> QED
    BY <2>1, <2>2, <2>3 DEF NextRegisters
<1> QED
  BY RegistersStart, <1>1, PTL DEF SpecRegisters

\* While Sstc is enabled no software bit keeps the timer interrupt pending:
\* the stimecmp comparison alone drives STIP (menvcfg and mip writes of
\* src/csr.rs), whoever writes the registers in whatever order.
THEOREM TimerOwnsStip == SpecRegisters => []SstcOwnsStip
<1>1. RegisterInv => SstcOwnsStip
  BY DEF RegisterInv
<1> QED
  BY RegistersInvariant, <1>1, PTL

\* A read-modify-write of mip or sip never turns a hardware level into a
\* software bit (load_for_write of src/csr.rs).
THEOREM NothingLatched == SpecRegisters => []LevelsAreNotLatched
<1>1. RegisterInv => LevelsAreNotLatched
  BY DEF RegisterInv
<1> QED
  BY RegistersInvariant, <1>1, PTL

-----------------------------------------------------------------------------
(* The hart.                                                               *)

\* A trap keeps the invariant, provided none is delegated from machine mode.
LEMMA EnterTrapKeeps ==
  ASSUME HartInv, NEW target \in {Supervisor, Machine}, EnterTrap(target),
         target = Supervisor => privilege # Machine
  PROVE  HartInv'
<1> USE DEF HartInv, HartTypes, MprvOnlyInMachine, FramesMatch,
            Privileges, User, Supervisor, Machine
<1>1. CASE target = Machine
  <2>1. /\ privilege' = Machine /\ UNCHANGED <<medeleg, sframe>>
        /\ mframe' = {[priv |-> privilege, ie |-> mstatus.mie]}
        /\ mstatus' = [mstatus EXCEPT !.mpie = mstatus.mie, !.mpp = privilege,
                                       !.mie = FALSE]
    BY <1>1 DEF EnterTrap
  <2>2. mstatus' \in StatusFields /\ [priv |-> privilege, ie |-> mstatus.mie] \in Frames
    BY <2>1 DEF StatusFields, Frames
  <2>3. /\ mstatus'.spp = mstatus.spp /\ mstatus'.spie = mstatus.spie
        /\ mstatus'.mpp = privilege /\ mstatus'.mpie = mstatus.mie
    BY <2>1 DEF StatusFields
  <2> QED
    BY <2>1, <2>2, <2>3
<1>2. CASE target = Supervisor
  <2>1. /\ privilege' = Supervisor /\ UNCHANGED <<medeleg, mframe>>
        /\ sframe' = {[priv |-> privilege, ie |-> mstatus.sie]}
        /\ mstatus' = [mstatus EXCEPT !.spie = mstatus.sie, !.sie = FALSE,
               !.spp = IF privilege = Supervisor THEN Supervisor ELSE User]
    BY <1>2 DEF EnterTrap
  <2>2. mstatus' \in StatusFields /\ [priv |-> privilege, ie |-> mstatus.sie] \in Frames
    BY <2>1 DEF StatusFields, Frames
  <2>3. privilege \in {User, Supervisor}
    BY <1>2
  <2>4. /\ mstatus'.mpp = mstatus.mpp /\ mstatus'.mpie = mstatus.mpie
        /\ mstatus'.spp = privilege /\ mstatus'.spie = mstatus.sie
        /\ mstatus'.mprv = mstatus.mprv
    BY <2>1, <2>3 DEF StatusFields
  <2> QED
    BY <1>2, <2>1, <2>2, <2>4
<1> QED
  BY <1>1, <1>2

\* An interrupt that is not masked is not delegated from machine mode.
LEMMA InterruptTraps ==
  ASSUME TakeInterrupt
  PROVE  \E target \in {Supervisor, Machine} :
           /\ target = Supervisor => privilege # Machine
           /\ EnterTrap(target)
BY DEF TakeInterrupt, Takeable, Masked, InterruptTarget, Supervisor, Machine

\* Nor is an exception.
LEMMA ExceptionTraps ==
  ASSUME NEW e \in Exceptions, Raise(e)
  PROVE  \E target \in {Supervisor, Machine} :
           /\ target = Supervisor => privilege # Machine
           /\ EnterTrap(target)
BY DEF Raise, ExceptionTarget, Supervisor, Machine

\* Both returns keep the invariant; sret always, mret below machine mode,
\* clears MPRV.
LEMMA ReturnsKeep ==
  ASSUME HartInv, MachineReturn \/ SupervisorReturn
  PROVE  HartInv'
<1> USE DEF HartInv, HartTypes, MprvOnlyInMachine, FramesMatch,
            Privileges, User, Supervisor, Machine, StatusFields, Frames
<1>1. CASE MachineReturn
  <2>1. privilege' = mstatus.mpp /\ mframe' = {} /\ UNCHANGED <<sframe, medeleg>>
    BY <1>1 DEF MachineReturn
  <2>2. mstatus' = [mstatus EXCEPT !.mie = mstatus.mpie, !.mpie = TRUE,
                      !.mpp = User, !.mprv = @ /\ mstatus.mpp = Machine]
    BY <1>1 DEF MachineReturn
  <2>3. (mstatus.mprv /\ mstatus.mpp = Machine) \in BOOLEAN
    OBVIOUS
  <2>4. mstatus' \in StatusFields
    BY <2>2, <2>3
  <2>5. mstatus'.spp = mstatus.spp /\ mstatus'.spie = mstatus.spie
    BY <2>2
  <2>6. mstatus'.mprv = (mstatus.mprv /\ mstatus.mpp = Machine)
    BY <2>2
  <2> QED
    BY <2>1, <2>4, <2>5, <2>6
<1>2. CASE SupervisorReturn
  BY <1>2 DEF SupervisorReturn
<1> QED
  BY <1>1, <1>2

\* A value written by supervisor code changes supervisor fields only.
LEMMA SupervisorValue ==
  ASSUME HartInv, NEW value \in SupervisorChanges
  PROVE  /\ value \in StatusFields
         /\ value.mprv = mstatus.mprv /\ value.tsr = mstatus.tsr
         /\ value.mie = mstatus.mie
         /\ SameMachineFrame(mstatus, value)
BY DEF HartInv, HartTypes, SupervisorChanges, StatusFields, SameMachineFrame,
       Privileges, User, Supervisor, Machine

\* A value written by machine code has the type of mstatus.
LEMMA MachineValue ==
  ASSUME HartInv, NEW value \in MachineChanges
  PROVE  value \in StatusFields
BY DEF HartInv, HartTypes, MachineChanges, SanitizeMpp, StatusFields,
       Privileges, User, Supervisor, Machine

\* Storing a value of mstatus keeps the invariant, as long as supervisor
\* code cannot set MPRV.
LEMMA StoreStatusKeeps ==
  ASSUME HartInv, NEW value \in StatusFields, StoreStatus(value),
         privilege # Machine => ~value.mprv
  PROVE  HartInv'
BY DEF HartInv, HartTypes, MprvOnlyInMachine, FramesMatch, StoreStatus, Keep,
       SameMachineFrame, SameSupervisorFrame

\* What an instruction does to the part of the hart outside the interrupt
\* registers keeps the invariant.
LEMMA InstructionKeeps ==
  ASSUME HartInv, NEW late, Instruction(late)
  PROVE  HartInv'
<1>1. ASSUME NEW e \in Exceptions, Raise(e)
      PROVE  HartInv'
  BY <1>1, ExceptionTraps, EnterTrapKeeps
<1>2. CASE MachineReturn \/ SupervisorReturn
  BY <1>2, ReturnsKeep
<1>3. CASE WriteMstatus
  <2>1. PICK value \in MachineChanges \cup SupervisorChanges : StoreStatus(value)
    BY <1>3 DEF WriteMstatus
  <2>2. value \in StatusFields
    BY MachineValue, SupervisorValue
  <2> QED
    BY <1>3, <2>1, <2>2, StoreStatusKeeps DEF WriteMstatus
<1>4. CASE WriteSstatus
  <2>1. PICK value \in SupervisorChanges : StoreStatus(value)
    BY <1>4 DEF WriteSstatus
  <2>2. value \in StatusFields /\ value.mprv = mstatus.mprv
    BY SupervisorValue
  <2>3. privilege # Machine => ~value.mprv
    BY <2>2 DEF HartInv, MprvOnlyInMachine
  <2> QED
    BY <2>1, <2>2, <2>3, StoreStatusKeeps
<1>5. ASSUME NEW bits \in SUBSET Exceptions, WriteMedeleg(bits)
      PROVE  HartInv'
  BY <1>5 DEF WriteMedeleg, HartInv, HartTypes, MprvOnlyInMachine, FramesMatch
<1>6. CASE UNCHANGED hartVars
  BY <1>6 DEF hartVars, HartInv, HartTypes, MprvOnlyInMachine, FramesMatch
<1> QED
  BY <1>1, <1>2, <1>3, <1>4, <1>5, <1>6 DEF Instruction

\* Every reachable state of the hart satisfies both invariants.
LEMMA HartInvariant == Spec => [](RegisterInv /\ HartInv)
<1>1. Init => RegisterInv /\ HartInv
  BY RegistersStart
     DEF Init, HartInv, HartTypes, MprvOnlyInMachine, FramesMatch, Privileges,
         User, Supervisor, Machine, StatusFields, Frames
<1>2. RegisterInv /\ HartInv /\ [Next]_vars => (RegisterInv /\ HartInv)'
  <2> SUFFICES ASSUME RegisterInv, HartInv, [Next]_vars
               PROVE  RegisterInv' /\ HartInv'
    OBVIOUS
  <2>1. CASE Step
    <3>1. PICK devices \in SUBSET DeviceInterrupts, late \in BOOLEAN :
            /\ Refresh(devices, late)
            /\ \/ TakeInterrupt /\ NoCsrStep(late)
               \/ Takeable = {} /\ Instruction(late)
      BY <2>1 DEF Step
    <3>2. hardwarePending' \subseteq Interrupts
      BY <3>1, RefreshedLevels
    <3>3. RegisterInv'
      BY <3>1, <3>2, NoCsrStepKeeps, CsrStepKeeps DEF Instruction
    <3>4. HartInv'
      BY <3>1, InterruptTraps, EnterTrapKeeps, InstructionKeeps
    <3> QED
      BY <3>3, <3>4
  <2>2. CASE Reset
    BY <2>2, RegistersStart
       DEF Reset, HartInv, HartTypes, MprvOnlyInMachine, FramesMatch,
           Privileges, User, Supervisor, Machine, StatusFields, Frames
  <2>3. CASE UNCHANGED vars
    BY <2>3 DEF vars, hartVars, interruptVars, HartInv, HartTypes,
                MprvOnlyInMachine, FramesMatch, RegisterInv, RegistersTypeOK,
                SstcOwnsStip, LevelsAreNotLatched
  <2> QED
    BY <2>1, <2>2, <2>3 DEF Next
<1> QED
  BY <1>1, <1>2, PTL DEF Spec

\* Every register keeps its type; MPP never holds the encoding on which
\* machine_return and effective_privilege panic (sanitize_mstatus).
THEOREM HartTypeCorrect == Spec => []TypeOK
<1>1. RegisterInv /\ HartInv => TypeOK
  BY DEF RegisterInv, HartInv, HartTypes, TypeOK
<1> QED
  BY HartInvariant, <1>1, PTL

\* MPRV is never set while code below machine mode runs (machine_return,
\* supervisor_return and the sstatus mask).
THEOREM MprvStaysInMachine == Spec => []MprvOnlyInMachine
<1>1. HartInv => MprvOnlyInMachine
  BY DEF HartInv
<1> QED
  BY HartInvariant, <1>1, PTL

-----------------------------------------------------------------------------
(* Action properties of the hart.                                          *)

\* Returns restore what the last trap to their mode interrupted, however
\* traps nest (enter_trap, machine_return, supervisor_return).
THEOREM ReturnsRestore == Spec => ReturnRestores
<1>1. HartInv /\ MachineReturn =>
        \A f \in mframe : privilege' = f.priv /\ mstatus'.mie = f.ie
  BY DEF HartInv, HartTypes, FramesMatch, MachineReturn, StatusFields
<1>2. HartInv /\ SupervisorReturn =>
        \A f \in sframe : privilege' = f.priv /\ mstatus'.sie = f.ie
  BY DEF HartInv, HartTypes, FramesMatch, SupervisorReturn, StatusFields
<1> QED
  BY HartInvariant, <1>1, <1>2, PTL DEF ReturnRestores

\* Only returns lower the privilege: delegation is never from machine mode
\* (trap_exception, take_pending_interrupt).
THEOREM TrapsNeverLower == Spec => OnlyReturnsLowerPrivilege
<1> DEFINE Legal == privilege' < privilege =>
             \/ privilege = Machine /\ privilege' = mstatus.mpp
             \/ privilege' = mstatus.spp
<1>1. ASSUME HartInv, NEW target \in {Supervisor, Machine}, EnterTrap(target),
             target = Supervisor => privilege # Machine
      PROVE  Legal
  BY <1>1 DEF HartInv, HartTypes, EnterTrap, Privileges, User, Supervisor,
              Machine
<1>2. ASSUME HartInv, privilege' = privilege
      PROVE  Legal
  BY <1>2 DEF HartInv, HartTypes, Privileges, User, Supervisor, Machine
<1>3. HartInv /\ [Next]_vars => Legal
  <2> SUFFICES ASSUME HartInv, [Next]_vars
               PROVE  Legal
    OBVIOUS
  <2>1. CASE TakeInterrupt
    BY <2>1, <1>1, InterruptTraps
  <2>2. ASSUME NEW e \in Exceptions, Raise(e)
        PROVE  Legal
    BY <2>2, <1>1, ExceptionTraps
  <2>3. CASE MachineReturn \/ SupervisorReturn
    BY <2>3 DEF MachineReturn, SupervisorReturn
  <2>4. CASE \/ WriteMstatus \/ WriteSstatus \/ UNCHANGED hartVars
             \/ \E bits \in SUBSET Exceptions : WriteMedeleg(bits)
    BY <2>4, <1>2 DEF WriteMstatus, WriteSstatus, StoreStatus, WriteMedeleg,
                      hartVars
  <2>5. CASE Reset
    BY <2>5 DEF Reset, HartInv, HartTypes, Privileges, User, Supervisor, Machine
  <2>6. CASE UNCHANGED vars
    BY <2>6, <1>2 DEF vars, hartVars
  <2> HIDE DEF Legal
  <2> QED
    BY <2>1, <2>2, <2>3, <2>4, <2>5, <2>6 DEF Next, Step, Instruction
<1> QED
  BY HartInvariant, <1>3, PTL DEF Spec, OnlyReturnsLowerPrivilege

\* The machine-level part of the interrupt registers.
RegistersIsolated ==
  /\ mideleg' = mideleg /\ stce' = stce /\ counterTM' = counterTM
  /\ mie' \ mideleg = mie \ mideleg
  /\ mipSoft' \ (mideleg \cap {"SSI"}) = mipSoft \ (mideleg \cap {"SSI"})

\* The machine-level part of the rest.
StatusIsolated ==
  /\ SameMachineFrame(mstatus, mstatus')
  /\ mstatus'.mie = mstatus.mie
  /\ mstatus'.mprv = mstatus.mprv /\ mstatus'.tsr = mstatus.tsr
  /\ medeleg' = medeleg

\* No CSR instruction below machine mode reaches machine-level registers.
LEMMA CsrStepIsolated ==
  ASSUME NEW p, p # Machine, NEW late, CsrStep(p, late)
  PROVE  RegistersIsolated
<1>1. ASSUME NEW bits \in SUBSET Interrupts, WriteSie(p, bits)
      PROVE  RegistersIsolated
  BY <1>1 DEF WriteSie, RegistersIsolated
<1>2. ASSUME NEW op, NEW bits \in SUBSET Interrupts, WriteSip(p, op, bits)
      PROVE  RegistersIsolated
  BY <1>2 DEF WriteSip, RegistersIsolated
<1>3. CASE UNCHANGED <<mideleg, mie, mipSoft, stce, counterTM, asked>>
  BY <1>3 DEF RegistersIsolated
<1> QED
  BY <1>1, <1>2, <1>3
     DEF CsrStep, WriteRegister, WriteMideleg, WriteMie, WriteMip,
         WriteMenvcfg, WriteMcounteren

\* A trap to supervisor mode leaves the machine fields of mstatus alone.
LEMMA SupervisorTrapIsolated ==
  ASSUME HartInv, NEW target \in {Supervisor, Machine}, EnterTrap(target),
         privilege' # Machine
  PROVE  StatusIsolated
<1>1. target = Supervisor
  BY DEF EnterTrap
<1>2. /\ medeleg' = medeleg
      /\ mstatus' = [mstatus EXCEPT !.spie = mstatus.sie, !.sie = FALSE,
           !.spp = IF privilege = Supervisor THEN Supervisor ELSE User]
  BY <1>1 DEF EnterTrap, Supervisor, Machine
<1> QED
  BY <1>2 DEF HartInv, HartTypes, StatusFields, StatusIsolated,
              SameMachineFrame

\* Neither does any instruction that stays below machine mode.
LEMMA InstructionIsolated ==
  ASSUME HartInv, privilege # Machine, privilege' # Machine, NEW late,
         Instruction(late)
  PROVE  StatusIsolated
<1>1. ASSUME NEW e \in Exceptions, Raise(e)
      PROVE  StatusIsolated
  BY <1>1, ExceptionTraps, SupervisorTrapIsolated
<1>2. CASE SupervisorReturn
  <2>1. /\ medeleg' = medeleg
        /\ mstatus' = [mstatus EXCEPT !.sie = mstatus.spie, !.spie = TRUE,
                          !.spp = User, !.mprv = FALSE]
    BY <1>2 DEF SupervisorReturn
  <2>2. mstatus.mprv = FALSE
    BY DEF HartInv, HartTypes, MprvOnlyInMachine, StatusFields
  <2> QED
    BY <2>1, <2>2 DEF HartInv, HartTypes, StatusFields, StatusIsolated,
                      SameMachineFrame
<1>3. CASE WriteSstatus
  <2>1. PICK value \in SupervisorChanges : StoreStatus(value)
    BY <1>3 DEF WriteSstatus
  <2> QED
    BY <2>1, SupervisorValue DEF StoreStatus, StatusIsolated
<1>4. CASE UNCHANGED hartVars
  BY <1>4 DEF hartVars, StatusIsolated, SameMachineFrame
<1> QED
  BY <1>1, <1>2, <1>3, <1>4
     DEF Instruction, MachineReturn, WriteMstatus, WriteMedeleg

\* Supervisor and user code, with the traps and returns between them, change
\* no machine-level state (the masks of src/csr.rs, the guards of
\* csr_access_allowed, and enter_trap).
THEOREM MachineIsolated == Spec => MachineStateIsolated
<1> DEFINE Below == privilege # Machine /\ privilege' # Machine
<1>1. HartInv /\ [Next]_vars /\ Below => RegistersIsolated /\ StatusIsolated
  <2> SUFFICES ASSUME HartInv, [Next]_vars, Below
               PROVE  RegistersIsolated /\ StatusIsolated
    OBVIOUS
  <2>1. CASE Step
    <3>1. PICK devices \in SUBSET DeviceInterrupts, late \in BOOLEAN :
            /\ Refresh(devices, late)
            /\ \/ TakeInterrupt /\ NoCsrStep(late)
               \/ Takeable = {} /\ Instruction(late)
      BY <2>1 DEF Step
    <3>2. NoCsrStep(late) => RegistersIsolated
      BY DEF NoCsrStep, RegistersIsolated
    <3>3. RegistersIsolated
      BY <3>1, <3>2, CsrStepIsolated DEF Instruction
    <3>4. StatusIsolated
      BY <3>1, InterruptTraps, SupervisorTrapIsolated, InstructionIsolated
    <3> QED
      BY <3>3, <3>4
  <2>2. CASE Reset
    BY <2>2 DEF Reset
  <2>3. CASE UNCHANGED vars
    BY <2>3 DEF vars, hartVars, interruptVars, RegistersIsolated,
                StatusIsolated, SameMachineFrame
  <2> QED
    BY <2>1, <2>2, <2>3 DEF Next
<1>2. HartInv /\ [Next]_vars =>
        (privilege # Machine /\ privilege' # Machine =>
           /\ SameMachineFrame(mstatus, mstatus')
           /\ mstatus'.mie = mstatus.mie
           /\ mstatus'.mprv = mstatus.mprv /\ mstatus'.tsr = mstatus.tsr
           /\ mideleg' = mideleg /\ medeleg' = medeleg
           /\ stce' = stce /\ counterTM' = counterTM
           /\ mie' \ mideleg = mie \ mideleg
           /\ mipSoft' \ (mideleg \cap {"SSI"})
                = mipSoft \ (mideleg \cap {"SSI"}))
  BY <1>1 DEF RegistersIsolated, StatusIsolated
<1> QED
  BY HartInvariant, <1>2, PTL DEF Spec, MachineStateIsolated

\* The tests of take_pending_interrupt are those of the architecture.
LEMMA DeliveredIsTakeable ==
  ASSUME RegisterInv, HartInv
  PROVE  \A i : i \in Takeable <=> i \in Interrupts /\ Delivered(i)
BY DEF RegisterInv, RegistersTypeOK, HartInv, HartTypes, Takeable, Pending,
       Masked, Delivered, InterruptTarget, Privileges, User, Supervisor,
       Machine

\* No instruction overtakes an interrupt that is deliverable once the levels
\* are refreshed (step, take_pending_interrupt).
THEOREM InterruptsComeFirst == Spec => InterruptsAreTaken
<1> DEFINE Taken(i) ==
      /\ Delivered(i)
      /\ privilege' = InterruptTarget(i)
      /\ IF privilege' = Machine THEN ~mstatus'.mie ELSE ~mstatus'.sie
<1>1. ASSUME HartInv, NEW i, Delivered(i), EnterTrap(InterruptTarget(i))
      PROVE  Taken(i)
  <2>1. CASE InterruptTarget(i) = Machine
    <3>1. /\ privilege' = Machine
          /\ mstatus' = [mstatus EXCEPT !.mpie = mstatus.mie,
                            !.mpp = privilege, !.mie = FALSE]
      BY <1>1, <2>1 DEF EnterTrap
    <3>2. ~mstatus'.mie
      BY <3>1 DEF HartInv, HartTypes, StatusFields
    <3> QED
      BY <1>1, <2>1, <3>1, <3>2
  <2>2. CASE InterruptTarget(i) = Supervisor
    <3>1. /\ privilege' = Supervisor
          /\ mstatus' = [mstatus EXCEPT !.spie = mstatus.sie, !.sie = FALSE,
               !.spp = IF privilege = Supervisor THEN Supervisor ELSE User]
      BY <1>1, <2>2 DEF EnterTrap, Supervisor, Machine
    <3>2. ~mstatus'.sie
      BY <3>1 DEF HartInv, HartTypes, StatusFields
    <3>3. privilege' # Machine
      BY <3>1 DEF Supervisor, Machine
    <3> QED
      BY <1>1, <2>2, <3>1, <3>2, <3>3
  <2> QED
    BY <2>1, <2>2 DEF InterruptTarget
<1> HIDE DEF Taken
<1>2. RegisterInv /\ HartInv /\ Next =>
        ((\E i \in Interrupts : Delivered(i)) =>
           Reset \/ \E i \in Interrupts : Taken(i))
  <2> SUFFICES ASSUME RegisterInv, HartInv, Step,
                      NEW i \in Interrupts, Delivered(i)
               PROVE  \E j \in Interrupts : Taken(j)
    BY DEF Next
  <2>1. Takeable # {}
    BY DeliveredIsTakeable
  <2>2. TakeInterrupt
    BY <2>1 DEF Step
  <2>3. PICK j \in Takeable : EnterTrap(InterruptTarget(j))
    BY <2>2 DEF TakeInterrupt
  <2>4. j \in Interrupts /\ Delivered(j)
    BY DeliveredIsTakeable
  <2> QED
    BY <2>3, <2>4, <1>1
<1>3. RegisterInv /\ HartInv /\ [Next]_vars =>
        [(\E i \in Interrupts : Delivered(i)) =>
           \/ Reset
           \/ \E i \in Interrupts :
                /\ Delivered(i)
                /\ privilege' = InterruptTarget(i)
                /\ IF privilege' = Machine THEN ~mstatus'.mie ELSE ~mstatus'.sie
        ]_vars
  BY <1>2 DEF Taken
<1> QED
  BY HartInvariant, <1>3, PTL DEF Spec, InterruptsAreTaken

-----------------------------------------------------------------------------
(***************************************************************************)
(* Reservations. That a store is exclusive follows from what a comparison  *)
(* of two epochs tells: Witnessed says that, while there is a reservation, *)
(* the epoch of its page has moved on exactly if something disturbed it.   *)
(* UnspentStays is the converse that UndisturbedSucceeds needs.            *)
(***************************************************************************)


Witnessed ==
  \A r \in reservation :
    /\ r.access = linked /\ stored = {}
    /\ r.epoch <= epochs[PageIndex(linked)]
    /\ disturbed => r.epoch # epochs[PageIndex(linked)]
    /\ ~disturbed => r.epoch = epochs[PageIndex(linked)]
                       /\ touched \cap linked = {}

UnspentStays == ~disturbed /\ stored = {} => reservation # {}

ReservationInv ==
  ReservationTypeOK /\ Witnessed /\ UnspentStays /\ ConditionalStoreIsExclusive

\* An access lies in one page.
LEMMA PageIndexIsPage ==
  ASSUME NEW a \in Accesses
  PROVE  /\ PageIndex(a) \in Pages
         /\ PagesOf(a) = {PageIndex(a)}
<1>1. PICK c \in a : c \in Cells
  BY MemoryAssumption
<1>2. PageOf[c] \in Pages /\ \A d \in a : PageOf[d] = PageOf[c]
  BY <1>1, MemoryAssumption
<1>3. PageIndex(a) \in Pages /\ \A d \in a : PageOf[d] = PageIndex(a)
  BY <1>2 DEF PageIndex
<1> QED BY <1>1, <1>3 DEF PagesOf

\* Recording a write adds one to the pages it touches and leaves the others.
LEMMA WritesCount ==
  ASSUME epochs \in [Pages -> Nat], NEW cells, RecordWrite(cells)
  PROVE  /\ epochs' \in [Pages -> Nat]
         /\ \A p \in Pages : /\ epochs'[p] >= epochs[p]
                             /\ p \in PagesOf(cells) => epochs'[p] # epochs[p]
                             /\ p \notin PagesOf(cells) => epochs'[p] = epochs[p]
BY DEF RecordWrite

\* Recording two writes one after the other does not lose the types.
LEMMA TwoWritesCount ==
  ASSUME epochs \in [Pages -> Nat], NEW walk, NEW access,
         epochs' = [p \in Pages |->
                  epochs[p] + (IF p \in PagesOf(walk) THEN 1 ELSE 0)
                            + (IF p \in PagesOf(access) THEN 1 ELSE 0)]
  PROVE  epochs' \in [Pages -> Nat]
OBVIOUS

\* A write that leaves the reservation alone is witnessed by the epochs.
LEMMA ObservedWriteKeeps ==
  ASSUME ReservationInv, NEW cells \in SUBSET Cells, RecordWrite(cells),
         reservation' = reservation, Observe(cells, FALSE)
  PROVE  ReservationInv'
<1> USE DEF ReservationInv
<1>1. /\ epochs' \in [Pages -> Nat]
      /\ \A p \in Pages : /\ epochs'[p] >= epochs[p]
                          /\ p \in PagesOf(cells) => epochs'[p] # epochs[p]
                          /\ p \notin PagesOf(cells) => epochs'[p] = epochs[p]
  BY WritesCount DEF ReservationTypeOK
<1>2. ReservationTypeOK'
  BY <1>1 DEF ReservationTypeOK, Observe, Walks
<1>3. Witnessed'
  <2> SUFFICES ASSUME NEW r \in reservation
      PROVE  /\ r.access = linked' /\ stored' = {}
             /\ r.epoch <= epochs'[PageIndex(linked')]
             /\ disturbed' => r.epoch # epochs'[PageIndex(linked')]
             /\ ~disturbed' => r.epoch = epochs'[PageIndex(linked')]
                                 /\ touched' \cap linked' = {}
    BY DEF Witnessed
  <2>1. /\ linked \in Accesses /\ linked' = linked /\ stored = {} /\ stored' = {}
        /\ r.access = linked /\ r.epoch \in Nat
    BY DEF Witnessed, ReservationTypeOK, Observe
  <2> DEFINE page == PageIndex(linked)
  <2>2. page \in Pages /\ PagesOf(linked) = {page}
    BY <2>1, PageIndexIsPage
  <2>3. /\ r.epoch <= epochs[page]
        /\ disturbed => r.epoch # epochs[page]
        /\ ~disturbed => r.epoch = epochs[page] /\ touched \cap linked = {}
    BY DEF Witnessed
  <2>4. disturbed' <=> (disturbed \/ page \in PagesOf(cells))
    BY <2>1, <2>2 DEF Observe
  <2>5. epochs[page] \in Nat /\ epochs'[page] \in Nat
    BY <1>1, <2>2 DEF ReservationTypeOK
  <2>6. disturbed' => r.epoch # epochs'[page]
    BY <1>1, <2>1, <2>2, <2>3, <2>4, <2>5
  <2>7. ASSUME ~disturbed'
        PROVE  r.epoch = epochs'[page] /\ touched' \cap linked = {}
    <3>1. cells \cap linked = {}
      BY <2>2, <2>4, <2>7 DEF PagesOf
    <3>2. touched' = touched \cup cells
      BY DEF Observe
    <3> QED BY <1>1, <2>2, <2>3, <2>4, <2>7, <3>1, <3>2
  <2>8. r.epoch <= epochs'[page]
    BY <1>1, <2>1, <2>2, <2>3, <2>5
  <2> QED BY <2>1, <2>6, <2>7, <2>8
<1>4. UnspentStays'
  BY DEF UnspentStays, Observe
<1>5. ConditionalStoreIsExclusive'
  BY DEF ConditionalStoreIsExclusive, Observe
<1> QED BY <1>2, <1>3, <1>4, <1>5

\* What clears the reservation and counts as a disturbance keeps the rest.
LEMMA ClearedReservationKeeps ==
  ASSUME ReservationInv, NEW cells \in SUBSET Cells,
         epochs' \in [Pages -> Nat], reservation' = {}, Observe(cells, TRUE)
  PROVE  ReservationInv'
<1>1. ReservationTypeOK'
  BY DEF ReservationInv, ReservationTypeOK, Observe, Walks
<1>2. Witnessed' /\ UnspentStays' /\ ConditionalStoreIsExclusive'
  BY DEF Witnessed, UnspentStays, ConditionalStoreIsExclusive, Observe
<1> QED BY <1>1, <1>2 DEF ReservationInv

\* LR takes the epoch its own translation left.
LEMMA LoadReservedKeeps ==
  ASSUME ReservationInv, NEW access \in Accesses, NEW walk \in Walks,
         LoadReserved(access, walk)
  PROVE  ReservationInv'
<1>1. epochs' \in [Pages -> Nat]
  BY WritesCount DEF ReservationInv, ReservationTypeOK, LoadReserved
<1>2. PageIndex(access) \in Pages
  BY PageIndexIsPage
<1>3. epochs'[PageIndex(access)] \in Nat
  BY <1>1, <1>2
<1>4. ReservationTypeOK'
  <2>1. [access |-> access, epoch |-> epochs'[PageIndex(access)]]
          \in [access : Accesses, epoch : Nat]
    BY <1>3
  <2>2. /\ reservation' \subseteq [access : Accesses, epoch : Nat]
        /\ \A r, q \in reservation' : r = q
    BY <2>1 DEF LoadReserved
  <2>3. /\ linked' = access /\ touched' = {} /\ disturbed' = FALSE
        /\ stored' = {} /\ walked' = {}
    BY DEF LoadReserved
  <2> QED BY <1>1, <2>2, <2>3 DEF ReservationTypeOK, Walks
<1>5. Witnessed'
  BY <1>3 DEF Witnessed, LoadReserved
<1>6. UnspentStays' /\ ConditionalStoreIsExclusive'
  BY DEF UnspentStays, ConditionalStoreIsExclusive, LoadReserved
<1> QED BY <1>4, <1>5, <1>6 DEF ReservationInv

\* SC stores only after an undisturbed LR of the same access.
LEMMA StoreConditionalKeeps ==
  ASSUME ReservationInv, NEW access \in Accesses, NEW walk \in Walks,
         StoreConditional(access, walk)
  PROVE  ReservationInv'
<1>1. CASE access \in TakeReservation
  <2>1. PICK r \in reservation : r.access = access
                                   /\ epochs[PageIndex(access)] = r.epoch
    BY <1>1 DEF TakeReservation
  <2>2. access = linked /\ ~disturbed /\ touched \cap linked = {}
    BY <2>1 DEF ReservationInv, Witnessed
  <2>3. /\ reservation' = {} /\ stored' = access /\ walked' = walk
        /\ linked' = linked /\ touched' = touched /\ disturbed' = disturbed
        /\ epochs' = [p \in Pages |->
                        epochs[p] + (IF p \in PagesOf(walk) THEN 1 ELSE 0)
                                  + (IF p \in PagesOf(access) THEN 1 ELSE 0)]
    BY <1>1 DEF StoreConditional
  <2>4. epochs' \in [Pages -> Nat]
    BY <2>3, TwoWritesCount DEF ReservationInv, ReservationTypeOK
  <2>5. ReservationTypeOK'
    BY <2>3, <2>4 DEF ReservationInv, ReservationTypeOK
  <2>6. access # {}
    BY MemoryAssumption
  <2>7. Witnessed' /\ UnspentStays'
    BY <2>3, <2>6 DEF Witnessed, UnspentStays
  <2>8. ConditionalStoreIsExclusive'
    BY <2>2, <2>3 DEF ConditionalStoreIsExclusive
  <2> QED BY <2>5, <2>7, <2>8 DEF ReservationInv
<1>2. CASE access \notin TakeReservation
  <2>1. reservation' = {} /\ RecordWrite(walk) /\ Observe(walk, TRUE)
    BY <1>2 DEF StoreConditional
  <2>2. walk \in SUBSET Cells
    BY MemoryAssumption DEF Walks
  <2>3. epochs' \in [Pages -> Nat]
    BY <2>1, WritesCount DEF ReservationInv, ReservationTypeOK
  <2> QED BY <2>1, <2>2, <2>3, ClearedReservationKeeps
<1> QED BY <1>1, <1>2

\* Every step keeps the invariant.
LEMMA ReservationStep == ReservationInv /\ [NextReservation]_reservationVars => ReservationInv'
<1> SUFFICES ASSUME ReservationInv, [NextReservation]_reservationVars PROVE ReservationInv'
  OBVIOUS
<1> USE MemoryAssumption
<1>0. epochs \in [Pages -> Nat] /\ \A walk \in Walks : walk \in SUBSET Cells
  BY DEF ReservationInv, ReservationTypeOK, Walks
<1>1. ASSUME NEW access \in Accesses, NEW walk \in Walks,
             LoadReserved(access, walk)
      PROVE  ReservationInv'
  BY <1>1, LoadReservedKeeps
<1>2. ASSUME NEW access \in Accesses, NEW walk \in Walks,
             StoreConditional(access, walk)
      PROVE  ReservationInv'
  BY <1>2, StoreConditionalKeeps
<1>3. ASSUME NEW access \in Accesses, NEW walk \in Walks, Store(access, walk)
      PROVE  ReservationInv'
  <2>1. walk \cup access \in SUBSET Cells
    BY <1>0
  <2>2. epochs' \in [Pages -> Nat]
    BY <1>0, <1>3, TwoWritesCount DEF Store
  <2> QED BY <1>3, <2>1, <2>2, ClearedReservationKeeps DEF Store
<1>4. ASSUME NEW walk \in Walks, StoreElsewhereOrTrap(walk)
      PROVE  ReservationInv'
  <2>1. epochs' \in [Pages -> Nat]
    BY <1>0, <1>4, WritesCount DEF StoreElsewhereOrTrap
  <2> QED BY <1>0, <1>4, <2>1, ClearedReservationKeeps DEF StoreElsewhereOrTrap
<1>5. ASSUME NEW walk \in Walks, Walk(walk)
      PROVE  ReservationInv'
  BY <1>0, <1>5, ObservedWriteKeeps DEF Walk
<1>6. ASSUME NEW cells \in SUBSET Cells, WriteBytes(cells)
      PROVE  ReservationInv'
  BY <1>6, ObservedWriteKeeps DEF WriteBytes
<1>7. CASE ResetReservation
  BY <1>0, <1>7, ClearedReservationKeeps DEF ResetReservation
<1>8. CASE UNCHANGED reservationVars
  BY <1>8 DEF reservationVars, history, ReservationInv, ReservationTypeOK, Witnessed, UnspentStays,
              ConditionalStoreIsExclusive
<1> QED
  BY <1>1, <1>2, <1>3, <1>4, <1>5, <1>6, <1>7, <1>8 DEF NextReservation

\* The invariant holds in every state of the specification.
LEMMA ReservationInvariant == SpecReservation => []ReservationInv
<1>1. InitReservation => ReservationInv
  BY DEF InitReservation, ReservationInv, ReservationTypeOK, Witnessed, UnspentStays,
         ConditionalStoreIsExclusive, Walks
<1> QED BY <1>1, ReservationStep, PTL DEF SpecReservation

\* Every variable keeps its type; there is never more than one reservation.
THEOREM ReservationTypeCorrect == SpecReservation => []ReservationTypeOK
<1>1. ReservationInv => ReservationTypeOK
  BY DEF ReservationInv
<1> QED BY <1>1, ReservationInvariant, PTL

\* A store conditional that stores pairs with the last LR and nothing wrote
\* its cells in between, neither the hart nor a device.
THEOREM StoresAreExclusive == SpecReservation => []ConditionalStoreIsExclusive
<1>1. ReservationInv => ConditionalStoreIsExclusive
  BY DEF ReservationInv
<1> QED BY <1>1, ReservationInvariant, PTL

\* A store conditional to the last LR's access stores unless its page was
\* written or a trap, store or other store conditional came between.
THEOREM UndisturbedStores == SpecReservation => UndisturbedSucceeds
<1> DEFINE Succeeds == \A walk \in Walks :
                 ~disturbed /\ stored = {} /\ StoreConditional(linked, walk)
                   => stored' = linked
<1>1. ReservationInv => Succeeds
  <2> SUFFICES ASSUME ReservationInv, NEW walk \in Walks, ~disturbed,
                      stored = {}, StoreConditional(linked, walk)
               PROVE  stored' = linked
    OBVIOUS
  <2>1. PICK r \in reservation : TRUE
    BY DEF ReservationInv, UnspentStays
  <2>2. r.access = linked /\ epochs[PageIndex(r.access)] = r.epoch
    BY DEF ReservationInv, Witnessed
  <2>3. linked \in TakeReservation
    BY <2>2 DEF TakeReservation
  <2> QED BY <2>3 DEF StoreConditional
<1> QED BY <1>1, ReservationInvariant, PTL DEF UndisturbedSucceeds

-----------------------------------------------------------------------------
(* Loops of routines.                                                      *)

\* What each turn of a loop that stops with the routine hands on holds after it.
LEMMA Looping ==
  ASSUME NEW n \in Nat, NEW turn, NEW I, NEW r \in I[0],
         \A i \in 0 .. n - 1 :
           /\ I[i] \subseteq RoutineStates
           /\ \A s \in I[i] : IF s.how = "running" THEN turn[i][s] \in I[i + 1]
                              ELSE s \in I[i + 1]
  PROVE  Loop(turn, r, n) \in I[n]
<1> DEFINE guarded == [i \in Nat |-> [s \in RoutineStates |->
                         IF s.how = "running" THEN turn[i][s] ELSE s]]
<1>1. \A i \in 0 .. n - 1 : \A s \in I[i] : guarded[i][s] \in I[i + 1]
  <2> SUFFICES ASSUME NEW i \in 0 .. n - 1, NEW s \in I[i]
               PROVE  guarded[i][s] \in I[i + 1]
    OBVIOUS
  <2>1. i \in Nat /\ s \in RoutineStates
    OBVIOUS
  <2>2. guarded[i][s] = IF s.how = "running" THEN turn[i][s] ELSE s
    BY <2>1
  <2> HIDE DEF guarded
  <2> QED BY <2>2
<1>2. Loop(turn, r, n) = Repeat(guarded, r, n)
  BY DEF Loop
<1> HIDE DEF guarded
<1>3. Repeat(guarded, r, n) \in I[n]
  BY <1>1, RepeatKeeps
<1> QED BY <1>2, <1>3

\* Nothing is done by a loop of no turns.
LEMMA NoLoop ==
  ASSUME NEW n \in Int, n <= 0, NEW turn, NEW r
  PROVE  Loop(turn, r, n) = r
BY NoTurns DEF Loop

-----------------------------------------------------------------------------
(* Addresses.                                                              *)

LEMMA Numbers ==
  /\ ByteValues \in Nat \ {0} /\ AddressCount \in Nat \ {0}
  /\ PageBytes \in Nat \ {0} /\ AddressCount % PageBytes = 0
  /\ MaxBytes \in Nat /\ MaxBytes <= AddressCount /\ WordBytes \in Nat \ {0}
  /\ DramBase \in Nat
BY RoutinesAssumption DEF Addresses

\* Adding to an address stays within the address space.
LEMMA PlusTyped ==
  \A a, i \in Int : Plus(a, i) \in Addresses
<1> SUFFICES ASSUME NEW a \in Int, NEW i \in Int PROVE Plus(a, i) \in Addresses
  OBVIOUS
<1>1. a + i \in Int
  OBVIOUS
<1>2. (a + i) % AddressCount \in 0 .. AddressCount - 1
  BY <1>1, Numbers, DivMod
<1> QED BY <1>2 DEF Plus, Addresses

\* The addresses of a range are different.
LEMMA PlusInjective ==
  ASSUME NEW a \in Int, NEW n \in Int, n <= MaxBytes,
         NEW i \in 0 .. n - 1, NEW j \in 0 .. n - 1, Plus(a, i) = Plus(a, j)
  PROVE  i = j
<1>1. /\ a + i \in Int /\ a + j \in Int
      /\ (a + i) - (a + j) < AddressCount /\ (a + j) - (a + i) < AddressCount
  BY Numbers
<1>2. a + i = a + j
  BY <1>1, Numbers, ModInjective DEF Plus
<1> QED BY <1>2

\* A mapped address is translated to one of memory; no two to the same.
LEMMA PhysicalTyped ==
  ASSUME NEW map \in Mappings, NEW a \in Addresses, Mapped(map, a)
  PROVE  Physical(map, a) \in Addresses
<1>1. map[a \div PageBytes] \in PageNumbers
  BY DEF Mappings, Mapped
<1>2. PICK p \in Nat : p = map[a \div PageBytes] /\ p + 1 <= AddressCount \div PageBytes
  <2>1. AddressCount \div PageBytes \in Int
    BY Numbers, DivMod
  <2> QED BY <1>1, <2>1 DEF PageNumbers
<1>3. PICK o \in 0 .. PageBytes - 1 : o = a % PageBytes
  <2>1. a \in Int
    BY Numbers DEF Addresses
  <2>2. a % PageBytes \in 0 .. PageBytes - 1
    BY <2>1, Numbers, DivMod
  <2> QED BY <2>2
<1>4. PICK q \in Int : q = AddressCount \div PageBytes /\ AddressCount = PageBytes * q
  BY Numbers, DivMod
<1>5. p * PageBytes + o < AddressCount /\ p * PageBytes + o \in Nat
  <2>1. p + 1 <= q
    BY <1>2, <1>4
  <2>2. PageBytes * (q - (p + 1)) >= 0
    <3>1. q - (p + 1) \in Nat
      BY <2>1
    <3> QED BY <3>1, Numbers
  <2>3. PageBytes * (q - (p + 1)) = PageBytes * q - (p * PageBytes + PageBytes)
    BY Numbers
  <2>4. p * PageBytes \in Nat
    BY Numbers
  <2>5. PICK x \in Nat : x = p * PageBytes
    BY <2>4
  <2>6. x + PageBytes <= AddressCount
    <3>1. PICK y \in Int : y = PageBytes * q
      BY <1>4, Numbers
    <3> QED BY <1>4, <2>2, <2>3, <2>5, <3>1, Numbers
  <2> QED BY <2>5, <2>6, Numbers
<1>6. Physical(map, a) = p * PageBytes + o
  BY <1>2, <1>3 DEF Physical
<1> QED BY <1>5, <1>6, Numbers DEF Addresses

LEMMA PhysicalInjective ==
  ASSUME NEW map \in Mappings, NEW a \in Addresses, NEW b \in Addresses,
         Mapped(map, a), Mapped(map, b), Physical(map, a) = Physical(map, b)
  PROVE  a = b
<1>1. /\ map[a \div PageBytes] \in PageNumbers
      /\ map[b \div PageBytes] \in PageNumbers
      /\ map[a \div PageBytes] = map[b \div PageBytes] =>
           a \div PageBytes = b \div PageBytes
  BY DEF Mappings, Mapped
<1>2. /\ a \div PageBytes \in Int /\ a % PageBytes \in 0 .. PageBytes - 1
      /\ a = PageBytes * (a \div PageBytes) + (a % PageBytes)
      /\ b \div PageBytes \in Int /\ b % PageBytes \in 0 .. PageBytes - 1
      /\ b = PageBytes * (b \div PageBytes) + (b % PageBytes)
  BY Numbers, DivMod DEF Addresses
<1>3. PICK p \in Int, q \in Int : p = map[a \div PageBytes] /\ q = map[b \div PageBytes]
  BY <1>1 DEF PageNumbers
<1>4. PageBytes * p + (a % PageBytes) = PageBytes * q + (b % PageBytes)
  <2>1. PICK x \in 0 .. PageBytes - 1, y \in 0 .. PageBytes - 1 :
          x = a % PageBytes /\ y = b % PageBytes
    BY <1>2
  <2>2. (p * PageBytes) + x = (q * PageBytes) + y
    BY <1>3, <2>1 DEF Physical
  <2>3. p * PageBytes = PageBytes * p /\ q * PageBytes = PageBytes * q
    BY Numbers
  <2> QED BY <2>1, <2>2, <2>3
<1>5. p = q /\ a % PageBytes = b % PageBytes
  <2>1. PICK x \in 0 .. PageBytes - 1, y \in 0 .. PageBytes - 1 :
          x = a % PageBytes /\ y = b % PageBytes
    BY <1>2
  <2>2. PageBytes * p + x = PageBytes * q + y
    BY <1>4, <2>1
  <2>3. PageBytes \in Nat \ {0}
    BY Numbers
  <2>4. p = q /\ x = y
    BY <2>2, <2>3, DivModUnique
  <2> QED BY <2>1, <2>4
<1> QED BY <1>1, <1>2, <1>3, <1>5

\* So a range is mapped to different places of memory.
LEMMA RangeInjective ==
  ASSUME NEW map \in Mappings, NEW a \in Int, NEW n \in Int, n <= MaxBytes,
         NEW i \in 0 .. n - 1, NEW j \in 0 .. n - 1,
         Mapped(map, Plus(a, i)), Mapped(map, Plus(a, j)),
         Physical(map, Plus(a, i)) = Physical(map, Plus(a, j))
  PROVE  i = j
<1>1. Plus(a, i) \in Addresses /\ Plus(a, j) \in Addresses
  BY PlusTyped
<1>2. Plus(a, i) = Plus(a, j)
  BY <1>1, PhysicalInjective
<1> QED BY <1>2, PlusInjective

-----------------------------------------------------------------------------
(* Writing a range, byte by byte.                                          *)

AllMapped(map, a, n) == \A i \in 0 .. n - 1 : Mapped(map, Plus(a, i))

\* The first k bytes from a on are those of value, the others as before.
Wrote(map, before, after, a, k, value) ==
  /\ after \in [Addresses -> Bytes]
  /\ AllMapped(map, a, k)
  /\ \A i \in 0 .. k - 1 : after[Physical(map, Plus(a, i))] = value[i]
  /\ \A p \in Addresses :
       (\A i \in 0 .. k - 1 : Physical(map, Plus(a, i)) # p) => after[p] = before[p]

\* Nothing is written to an empty range.
LEMMA WroteNothing ==
  ASSUME NEW map, NEW mem \in [Addresses -> Bytes], NEW a, NEW value,
         NEW n \in Int, n <= 0
  PROVE  Wrote(map, mem, mem, a, n, value)
BY DEF Wrote, AllMapped

\* One more byte.
LEMMA WroteNext ==
  ASSUME NEW map \in Mappings, NEW before, NEW after, NEW a \in Int,
         NEW n \in Int, n <= MaxBytes, NEW k \in 0 .. n - 1, NEW value,
         Wrote(map, before, after, a, k, value), Mapped(map, Plus(a, k)),
         value[k] \in Bytes
  PROVE  Wrote(map, before,
               [after EXCEPT ![Physical(map, Plus(a, k))] = value[k]],
               a, k + 1, value)
<1> DEFINE place(i) == Physical(map, Plus(a, i))
           next == [after EXCEPT ![place(k)] = value[k]]
<1>1. /\ k \in Nat /\ k \in 0 .. (k + 1) - 1
      /\ \A i \in 0 .. (k + 1) - 1 : i \in 0 .. n - 1 /\ (i = k \/ i \in 0 .. k - 1)
      /\ \A i \in 0 .. k - 1 : i \in 0 .. (k + 1) - 1 /\ i # k
  OBVIOUS
<1>2. place(k) \in Addresses
  BY PlusTyped, PhysicalTyped
<1>3. AllMapped(map, a, k + 1)
  BY <1>1 DEF Wrote, AllMapped
<1>4. \A i \in 0 .. k - 1 : place(i) # place(k)
  BY <1>1, <1>3, RangeInjective DEF AllMapped
<1>5. /\ next \in [Addresses -> Bytes] /\ next[place(k)] = value[k]
      /\ \A p \in Addresses : p # place(k) => next[p] = after[p]
  BY <1>2 DEF Wrote
<1>6. \A i \in 0 .. k - 1 : place(i) \in Addresses
  BY PlusTyped, PhysicalTyped DEF Wrote, AllMapped
<1> HIDE DEF place, next
<1>7. \A i \in 0 .. k - 1 : after[place(i)] = value[i]
  BY DEF Wrote, place
<1>8. \A p \in Addresses : (\A i \in 0 .. k - 1 : place(i) # p) => after[p] = before[p]
  BY DEF Wrote, place
<1>9. \A i \in 0 .. (k + 1) - 1 : next[place(i)] = value[i]
  BY <1>1, <1>4, <1>5, <1>6, <1>7
<1>10. \A p \in Addresses :
         (\A i \in 0 .. (k + 1) - 1 : place(i) # p) => next[p] = before[p]
  BY <1>1, <1>5, <1>8
<1>11. Wrote(map, before, next, a, k + 1, value)
  BY <1>3, <1>5, <1>9, <1>10 DEF Wrote, place
<1> QED BY <1>11 DEF next, place

\* What was written is determined.
LEMMA WroteOnce ==
  ASSUME NEW map, NEW before, NEW after, NEW other, NEW a, NEW k, NEW value,
         before \in [Addresses -> Bytes],
         Wrote(map, before, after, a, k, value),
         Wrote(map, before, other, a, k, value)
  PROVE  after = other
<1>1. ASSUME NEW p \in Addresses PROVE after[p] = other[p]
  BY DEF Wrote
<1>2. after \in [Addresses -> Bytes] /\ other \in [Addresses -> Bytes]
  BY DEF Wrote
<1> QED BY <1>1, <1>2

\* In the terms of Writes.
Here(map, a, n, p) == {i \in 0 .. n - 1 : Physical(map, Plus(a, i)) = p}

Written(map, before, a, n, value, p) ==
  IF Here(map, a, n, p) = {} THEN before[p]
  ELSE value[CHOOSE i \in Here(map, a, n, p) : TRUE]

\* What has been written, byte by byte.
LEMMA WroteIs ==
  ASSUME NEW map \in Mappings, NEW before, NEW after, NEW a \in Int,
         NEW n \in Int, n <= MaxBytes, NEW value,
         Wrote(map, before, after, a, n, value)
  PROVE  after = [p \in Addresses |-> Written(map, before, a, n, value, p)]
<1> DEFINE here(p) == Here(map, a, n, p)
<1> USE DEF Here, Written
<1>1. ASSUME NEW p \in Addresses
      PROVE  after[p] = IF here(p) = {} THEN before[p]
                        ELSE value[CHOOSE i \in here(p) : TRUE]
  <2>1. CASE here(p) = {}
    BY <2>1 DEF Wrote
  <2>2. CASE here(p) # {}
    <3> DEFINE i == CHOOSE j \in here(p) : TRUE
    <3>1. i \in here(p)
      BY <2>2
    <3>2. i \in 0 .. n - 1 /\ Physical(map, Plus(a, i)) = p
      BY <3>1
    <3> HIDE DEF i
    <3>3. after[p] = value[i]
      BY <3>2 DEF Wrote
    <3> QED BY <2>2, <3>3 DEF i
  <2> QED BY <2>1, <2>2
<1>2. after \in [Addresses -> Bytes]
  BY DEF Wrote
<1> QED BY <1>1, <1>2

\* Bytes are read from memory.
LEMMA ReadTyped ==
  ASSUME NEW map \in Mappings, NEW r \in RoutineStates, NEW a \in Addresses,
         Mapped(map, a)
  PROVE  ReadByte(map, r, a) \in Bytes
<1>1. r.memory \in [Addresses -> Bytes] /\ Physical(map, a) \in Addresses
  BY PhysicalTyped DEF RoutineStates
<1> QED BY <1>1 DEF ReadByte

-----------------------------------------------------------------------------
(* Ends of routines.                                                       *)

Hows == {"running", "returned", "again", "declined", "faulted"}

\* A routine that stops leaves its registers and memory.
LEMMA Stopped ==
  ASSUME NEW r \in RoutineStates, NEW how \in Hows
  PROVE  /\ Stop(r, how) \in RoutineStates /\ Stop(r, how).how = how
         /\ Stop(r, how).memory = r.memory /\ Stop(r, how).a0 = r.a0
         /\ Stop(r, how).a1 = r.a1 /\ Stop(r, how).a2 = r.a2
BY DEF RoutineStates, Stop, Hows

\* A routine that returns leaves its memory.
LEMMA ReturnedIs ==
  ASSUME NEW r \in RoutineStates, NEW value \in Int
  PROVE  /\ Returned(r, value) \in RoutineStates
         /\ Returned(r, value).how = "returned"
         /\ Returned(r, value).memory = r.memory /\ Returned(r, value).a0 = value
         /\ Returned(r, value).a1 = r.a1 /\ Returned(r, value).a2 = r.a2
BY DEF RoutineStates, Returned

\* A byte is written, or the routine faults.
LEMMA ByteWritten ==
  ASSUME NEW map \in Mappings, NEW s \in RoutineStates, s.how = "running",
         NEW a \in Addresses, NEW byte \in Bytes
  PROVE  LET next == WriteByte(map, s, a, byte)
         IN  /\ next \in RoutineStates
             /\ next.a0 = s.a0 /\ next.a1 = s.a1 /\ next.a2 = s.a2
             /\ Mapped(map, a) => /\ next.how = "running"
                                  /\ next.memory = [s.memory EXCEPT
                                                      ![Physical(map, a)] = byte]
             /\ ~Mapped(map, a) => next = Stop(s, "faulted")
<1>1. CASE Mapped(map, a)
  <2>1. s.memory \in [Addresses -> Bytes] /\ Physical(map, a) \in Addresses
    BY <1>1, PhysicalTyped DEF RoutineStates
  <2>2. WriteByte(map, s, a, byte) =
          [s EXCEPT !.memory = [s.memory EXCEPT ![Physical(map, a)] = byte]]
    BY <1>1 DEF WriteByte
  <2>3. [s.memory EXCEPT ![Physical(map, a)] = byte] \in [Addresses -> Bytes]
    BY <2>1
  <2> QED BY <1>1, <2>2, <2>3 DEF RoutineStates
<1>2. CASE ~Mapped(map, a)
  BY <1>2, Stopped DEF WriteByte, Hows
<1> QED BY <1>1, <1>2

\* A state of a routine that may run: its registers and how it goes on.
SameArguments(s, r) == s.a0 = r.a0 /\ s.a1 = r.a1 /\ s.a2 = r.a2

-----------------------------------------------------------------------------
(* memmove.                                                                *)

Source(map, r) == [i \in Nat |-> ReadByte(map, r, Plus(r.a1, i))]

\* How memmove ends: it declines at once, has moved all, or stops at a page
\* that is not mapped, with the bytes before that moved if the source is.
MemmoveEnds(map, r, e) ==
  /\ e \in RoutineStates /\ SameArguments(e, r)
  /\ e.how = "declined" <=> Long(r.a2)
  /\ e.how = "declined" => e.memory = r.memory
  /\ ~Long(r.a2) =>
       \/ /\ e.how = "returned"
          /\ AllMapped(map, r.a1, r.a2)
          /\ Wrote(map, r.memory, e.memory, r.a0, r.a2, Source(map, r))
       \/ /\ e.how = "faulted" /\ e.memory = r.memory
          /\ ~AllMapped(map, r.a1, r.a2)
       \/ /\ e.how = "faulted" /\ ~AllMapped(map, r.a0, r.a2)
          /\ AllMapped(map, r.a1, r.a2)
          /\ \E k \in 0 .. r.a2 - 1 :
               Wrote(map, r.memory, e.memory, r.a0, k, Source(map, r))

\* The fast path of memmove, from its first byte to its end.
LEMMA MemmoveResult ==
  ASSUME NEW map \in Mappings, NEW r \in RoutineStates, r.how = "running"
  PROVE  MemmoveEnds(map, r, Memmove(map, r))
<1> DEFINE n == r.a2
           value == Source(map, r)
           Read == [i \in Nat |-> [s \in RoutineStates |->
             IF Mapped(map, Plus(r.a1, i)) THEN s ELSE Stop(s, "faulted")]]
           Write == [i \in Nat |-> [s \in RoutineStates |->
             WriteByte(map, s, Plus(r.a0, i), ReadByte(map, r, Plus(r.a1, i)))]]
           faulted == Stop(r, "faulted")
           read == Loop(Read, r, n)
           written == Loop(Write, read, n)
<1>1. /\ n \in Int /\ r.a0 \in Int /\ r.a1 \in Int
      /\ r.memory \in [Addresses -> Bytes]
  BY DEF RoutineStates
<1>2. Memmove(map, r) = IF Long(n) THEN Stop(r, "declined")
                        ELSE EndWith(r.a0, written)
  BY DEF Memmove
<1>3. CASE Long(n)
  BY <1>2, <1>3, Stopped DEF MemmoveEnds, SameArguments, Hows
<1>4. CASE ~Long(n)
  <2>1. n \in Nat /\ n <= MaxBytes /\ \A i \in 0 .. n - 1 : i \in Nat
    BY <1>1, <1>4, Numbers DEF Long
  <2>2. /\ faulted \in RoutineStates /\ faulted.how = "faulted"
        /\ faulted.memory = r.memory /\ SameArguments(faulted, r)
    BY Stopped DEF Hows, SameArguments
  <2> DEFINE I == [i \in 0 .. n |->
               {s \in RoutineStates :
                  \/ s = r /\ AllMapped(map, r.a1, i)
                  \/ s = faulted /\ ~AllMapped(map, r.a1, n)}]
  <2> HIDE DEF faulted, value
  <2>3. read \in I[n]
    <3>1. r \in I[0]
      BY <2>1 DEF AllMapped
    <3>2. ASSUME NEW i \in 0 .. n - 1
          PROVE  /\ I[i] \subseteq RoutineStates
                 /\ \A s \in I[i] : IF s.how = "running" THEN Read[i][s] \in I[i + 1]
                                    ELSE s \in I[i + 1]
      <4>1. /\ i \in Nat /\ i \in 0 .. n /\ i + 1 \in 0 .. n
            /\ \A j \in 0 .. (i + 1) - 1 : j = i \/ j \in 0 .. i - 1
        BY <2>1
      <4>2. I[i] \subseteq RoutineStates
        BY <4>1
      <4>3. ASSUME NEW s \in I[i]
            PROVE  IF s.how = "running" THEN Read[i][s] \in I[i + 1]
                   ELSE s \in I[i + 1]
        <5>0. s \in RoutineStates
          BY <4>2
        <5>1. CASE s = r /\ AllMapped(map, r.a1, i)
          <6>1. Read[i][s] = IF Mapped(map, Plus(r.a1, i)) THEN r
                             ELSE faulted
            BY <4>1, <5>0, <5>1 DEF faulted
          <6>2. CASE Mapped(map, Plus(r.a1, i))
            <7>1. AllMapped(map, r.a1, i + 1)
              BY <4>1, <5>1, <6>2 DEF AllMapped
            <7> QED BY <4>1, <5>1, <6>1, <6>2, <7>1
          <6>3. CASE ~Mapped(map, Plus(r.a1, i))
            <7>1. ~AllMapped(map, r.a1, n)
              BY <6>3 DEF AllMapped
            <7> QED BY <2>2, <4>1, <5>1, <6>1, <6>3, <7>1
          <6> QED BY <6>2, <6>3
        <5>2. CASE s = faulted /\ ~AllMapped(map, r.a1, n)
          BY <2>2, <4>1, <5>2
        <5> QED BY <4>1, <5>1, <5>2
      <4> QED BY <4>2, <4>3
    <3> HIDE DEF I, Read
    <3> QED BY <2>1, <3>1, <3>2, Looping
  <2>4. \/ read = r /\ AllMapped(map, r.a1, n)
        \/ read = faulted /\ ~AllMapped(map, r.a1, n)
    <3>1. n \in 0 .. n
      BY <2>1
    <3> HIDE DEF read
    <3> QED BY <2>3, <3>1
  <2> DEFINE J == [i \in 0 .. n |->
               {s \in RoutineStates :
                  /\ SameArguments(s, r)
                  /\ \/ s = faulted /\ ~AllMapped(map, r.a1, n)
                     \/ /\ s.how = "running" /\ AllMapped(map, r.a1, n)
                        /\ Wrote(map, r.memory, s.memory, r.a0, i, value)
                     \/ /\ s.how = "faulted" /\ AllMapped(map, r.a1, n)
                        /\ ~AllMapped(map, r.a0, n)
                        /\ \E k \in 0 .. n - 1 :
                             Wrote(map, r.memory, s.memory, r.a0, k, value)}]
  <2> HIDE DEF I, read
  <2>5. written \in J[n]
    <3>1. read \in J[0]
      <4>1. 0 \in 0 .. n
        BY <2>1
      <4>2. Wrote(map, r.memory, r.memory, r.a0, 0, value)
        BY <1>1, WroteNothing
      <4> QED BY <2>2, <2>4, <4>1, <4>2 DEF SameArguments
    <3>2. ASSUME NEW i \in 0 .. n - 1
          PROVE  /\ J[i] \subseteq RoutineStates
                 /\ \A s \in J[i] : IF s.how = "running" THEN Write[i][s] \in J[i + 1]
                                    ELSE s \in J[i + 1]
      <4>1. i \in Nat /\ i \in 0 .. n /\ i + 1 \in 0 .. n
        BY <2>1
      <4>2. J[i] \subseteq RoutineStates
        BY <4>1
      <4>3. ASSUME NEW s \in J[i]
            PROVE  IF s.how = "running" THEN Write[i][s] \in J[i + 1]
                   ELSE s \in J[i + 1]
        <5>0. s \in RoutineStates /\ SameArguments(s, r)
          BY <4>1
        <5>1. CASE s.how # "running"
          BY <4>1, <5>1
        <5>2. CASE s.how = "running"
          <6>1. /\ AllMapped(map, r.a1, n)
                /\ Wrote(map, r.memory, s.memory, r.a0, i, value)
            BY <2>2, <4>1, <5>2
          <6>2. Plus(r.a1, i) \in Addresses /\ Plus(r.a0, i) \in Addresses
            BY <1>1, <4>1, PlusTyped
          <6>3. Mapped(map, Plus(r.a1, i))
            BY <6>1 DEF AllMapped
          <6>4. value[i] = ReadByte(map, r, Plus(r.a1, i)) /\ value[i] \in Bytes
            BY <4>1, <6>2, <6>3, ReadTyped DEF value, Source
          <6>5. Write[i][s] = WriteByte(map, s, Plus(r.a0, i), value[i])
            BY <4>1, <5>0, <6>4
          <6> DEFINE next == WriteByte(map, s, Plus(r.a0, i), value[i])
          <6>6. /\ next \in RoutineStates
                /\ next.a0 = s.a0 /\ next.a1 = s.a1 /\ next.a2 = s.a2
                /\ Mapped(map, Plus(r.a0, i)) =>
                     /\ next.how = "running"
                     /\ next.memory = [s.memory EXCEPT
                               ![Physical(map, Plus(r.a0, i))] = value[i]]
                /\ ~Mapped(map, Plus(r.a0, i)) => next = Stop(s, "faulted")
            BY <5>0, <5>2, <6>2, <6>4, ByteWritten
          <6> HIDE DEF next
          <6>7. SameArguments(next, r)
            BY <5>0, <6>6 DEF SameArguments
          <6>8. CASE Mapped(map, Plus(r.a0, i))
            <7>1. Wrote(map, r.memory, next.memory, r.a0, i + 1, value)
              BY <1>1, <2>1, <6>1, <6>4, <6>6, <6>8, WroteNext
            <7>2. next \in J[i + 1]
              BY <4>1, <6>1, <6>6, <6>7, <6>8, <7>1
            <7> QED BY <5>2, <6>5, <7>2 DEF next
          <6>9. CASE ~Mapped(map, Plus(r.a0, i))
            <7>1. next.how = "faulted" /\ next.memory = s.memory
              BY <5>0, <6>6, <6>9, Stopped DEF Hows
            <7>2. ~AllMapped(map, r.a0, n)
              BY <6>9 DEF AllMapped
            <7>3. next \in J[i + 1]
              BY <4>1, <6>1, <6>6, <6>7, <7>1, <7>2
            <7> QED BY <5>2, <6>5, <7>3 DEF next
          <6> QED BY <6>8, <6>9
        <5> QED BY <5>1, <5>2
      <4> QED BY <4>2, <4>3
    <3> HIDE DEF J, Write
    <3> QED BY <2>1, <3>1, <3>2, Looping
  <2>6. /\ written \in RoutineStates /\ SameArguments(written, r)
        /\ \/ written = faulted /\ ~AllMapped(map, r.a1, n)
           \/ /\ written.how = "running" /\ AllMapped(map, r.a1, n)
              /\ Wrote(map, r.memory, written.memory, r.a0, n, value)
           \/ /\ written.how = "faulted" /\ AllMapped(map, r.a1, n)
              /\ ~AllMapped(map, r.a0, n)
              /\ \E k \in 0 .. n - 1 :
                   Wrote(map, r.memory, written.memory, r.a0, k, value)
    <3>1. n \in 0 .. n
      BY <2>1
    <3> HIDE DEF written
    <3> QED BY <2>5, <3>1
  <2> HIDE DEF written, J
  <2>7. Memmove(map, r) = EndWith(r.a0, written)
    BY <1>2, <1>4
  <2>8. CASE written.how = "running"
    <3>1. Memmove(map, r) = Returned(written, r.a0)
      BY <2>7, <2>8 DEF EndWith
    <3>2. /\ AllMapped(map, r.a1, n)
          /\ Wrote(map, r.memory, written.memory, r.a0, n, value)
      BY <2>2, <2>6, <2>8
    <3> DEFINE e == Returned(written, r.a0)
    <3>3. /\ e \in RoutineStates /\ e.how = "returned" /\ e.memory = written.memory
          /\ e.a0 = r.a0 /\ e.a1 = written.a1 /\ e.a2 = written.a2
      BY <1>1, <2>6, ReturnedIs
    <3> HIDE DEF e
    <3>4. SameArguments(e, r)
      BY <2>6, <3>3 DEF SameArguments
    <3>5. MemmoveEnds(map, r, e)
      BY <1>4, <3>2, <3>3, <3>4 DEF MemmoveEnds, value
    <3> QED BY <3>1, <3>5 DEF e
  <2>9. CASE written.how # "running"
    <3>1. Memmove(map, r) = written
      BY <2>7, <2>9 DEF EndWith
    <3> QED BY <1>4, <2>2, <2>6, <2>9, <3>1 DEF MemmoveEnds, value
  <2> QED BY <2>8, <2>9
<1> QED BY <1>3, <1>4

-----------------------------------------------------------------------------
(* strncpy.                                                                *)

\* What a mapping shows of a memory.
SeenBy(map, mem, address) ==
  IF Mapped(map, address) THEN mem[Physical(map, address)] ELSE -1

PaddedBy(map, mem, b) ==
  [i \in Nat |-> IF \E j \in 0 .. i : SeenBy(map, mem, Plus(b, j)) = 0 THEN 0
                 ELSE SeenBy(map, mem, Plus(b, i))]

\* How strncpy ends. What it has written is known if the ranges are apart.
StrncpyEnds(map, r, e) ==
  /\ e \in RoutineStates /\ SameArguments(e, r)
  /\ e.how = "declined" <=> r.a2 > MaxBytes
  /\ e.how = "declined" => e.memory = r.memory
  /\ r.a2 <= MaxBytes =>
       \/ e.how = "returned"
       \/ /\ e.how = "faulted"
          /\ ~AllMapped(map, r.a0, r.a2) \/ ~AllMapped(map, r.a1, r.a2)
  /\ r.a2 <= MaxBytes /\ Apart(r.a0, r.a1, r.a2) =>
       LET value == PaddedBy(map, r.memory, r.a1)
       IN  \/ /\ e.how = "returned"
              /\ Wrote(map, r.memory, e.memory, r.a0, r.a2, value)
           \/ /\ e.how = "faulted"
              /\ \E k \in 0 .. r.a2 - 1 :
                   Wrote(map, r.memory, e.memory, r.a0, k, value)

LEMMA ApartPlaces ==
  ASSUME NEW map \in Mappings, NEW a \in Int, NEW b \in Int, NEW n \in Int,
         Apart(a, b, n), NEW i \in 0 .. n - 1, NEW j \in 0 .. n - 1,
         Mapped(map, Plus(a, i)), Mapped(map, Plus(b, j))
  PROVE  Physical(map, Plus(a, i)) # Physical(map, Plus(b, j))
<1>1. Plus(a, i) \in Addresses /\ Plus(b, j) \in Addresses
  BY PlusTyped
<1>2. Plus(a, i) # Plus(b, j)
  BY DEF Apart
<1> QED BY <1>1, <1>2, PhysicalInjective

\* One turn of strncpy.
LEMMA StrncpyTurn ==
  ASSUME NEW map \in Mappings, NEW r \in RoutineStates, NEW s \in RoutineStates,
         s.how = "running", r.a2 <= MaxBytes, NEW i \in 0 .. r.a2 - 1,
         AllMapped(map, r.a0, i),
         Apart(r.a0, r.a1, r.a2) =>
           Wrote(map, r.memory, s.memory, r.a0, i, PaddedBy(map, r.memory, r.a1)),
         NEW ended, ended <=> \E j \in 0 .. i - 1 : ReadByte(map, s, Plus(r.a0, j)) = 0,
         ended \/ Mapped(map, Plus(r.a1, i)),
         NEW byte, byte = IF ended THEN 0 ELSE ReadByte(map, s, Plus(r.a1, i))
  PROVE  /\ byte \in Bytes
         /\ Apart(r.a0, r.a1, r.a2) => byte = PaddedBy(map, r.memory, r.a1)[i]
<1> DEFINE n == r.a2
           value == PaddedBy(map, r.memory, r.a1)
           seen(j) == SeenBy(map, r.memory, Plus(r.a1, j))
<1>1. /\ n \in Int /\ r.a0 \in Int /\ r.a1 \in Int /\ i \in Nat
      /\ r.memory \in [Addresses -> Bytes] /\ s.memory \in [Addresses -> Bytes]
      /\ \A j \in 0 .. i - 1 : j \in Nat /\ j \in 0 .. n - 1 /\ j \in 0 .. i
      /\ \A j \in 0 .. i : j = i \/ j \in 0 .. i - 1
  BY DEF RoutineStates
<1>2. Plus(r.a1, i) \in Addresses
  BY <1>1, PlusTyped
<1>3. byte \in Bytes
  <2>1. 0 \in Bytes
    BY Numbers DEF Bytes
  <2> QED BY <1>2, <2>1, ReadTyped
<1>4. ASSUME Apart(r.a0, r.a1, n) PROVE byte = value[i]
  <2>1. \A j \in 0 .. i - 1 : ReadByte(map, s, Plus(r.a0, j)) = value[j]
    BY <1>4 DEF Wrote, ReadByte
  <2>2. \A j \in Nat : value[j] = IF \E k \in 0 .. j : seen(k) = 0 THEN 0 ELSE seen(j)
    BY DEF PaddedBy
  <2> HIDE DEF value, seen
  <2>3. \A j \in 0 .. i - 1 : value[j] = 0 <=> \E k \in 0 .. j : seen(k) = 0
    <3> SUFFICES ASSUME NEW j \in 0 .. i - 1
                 PROVE  value[j] = 0 <=> \E k \in 0 .. j : seen(k) = 0
      OBVIOUS
    <3>1. j \in Nat /\ j \in 0 .. j
      OBVIOUS
    <3> QED BY <2>2, <3>1
  <2>4. ended <=> \E k \in 0 .. i - 1 : seen(k) = 0
    <3>1. \A j \in 0 .. i - 1 : j \in 0 .. j /\ \A k \in 0 .. j : k \in 0 .. i - 1
      OBVIOUS
    <3> QED BY <2>1, <2>3, <3>1
  <2>5. CASE ended
    BY <1>1, <2>2, <2>4, <2>5
  <2>6. CASE ~ended
    <3>1. Mapped(map, Plus(r.a1, i)) /\ Physical(map, Plus(r.a1, i)) \in Addresses
      BY <1>2, <2>6, PhysicalTyped
    <3>2. \A j \in 0 .. i - 1 :
            Physical(map, Plus(r.a0, j)) # Physical(map, Plus(r.a1, i))
      BY <1>1, <1>4, <3>1, ApartPlaces DEF AllMapped
    <3>3. s.memory[Physical(map, Plus(r.a1, i))] = r.memory[Physical(map, Plus(r.a1, i))]
      BY <1>4, <3>1, <3>2 DEF Wrote
    <3>4. byte = seen(i)
      BY <2>6, <3>1, <3>3 DEF seen, SeenBy, ReadByte
    <3>5. value[i] = seen(i)
      BY <1>1, <2>2, <2>4, <2>6
    <3> QED BY <3>4, <3>5
  <2> QED BY <2>5, <2>6
<1> QED BY <1>3, <1>4

\* The fast path of strncpy, from its first byte to its end.
LEMMA StrncpyResult ==
  ASSUME NEW map \in Mappings, NEW r \in RoutineStates, r.how = "running"
  PROVE  StrncpyEnds(map, r, Strncpy(map, r))
<1> DEFINE n == r.a2
           apart == Apart(r.a0, r.a1, n)
           value == PaddedBy(map, r.memory, r.a1)
           Copy == [i \in Nat |-> [s \in RoutineStates |->
             LET ended == \E j \in 0 .. i - 1 : ReadByte(map, s, Plus(r.a0, j)) = 0
                 byte  == IF ended THEN 0 ELSE ReadByte(map, s, Plus(r.a1, i))
             IN  IF ~ended /\ ~Mapped(map, Plus(r.a1, i)) THEN Stop(s, "faulted")
                 ELSE WriteByte(map, s, Plus(r.a0, i), byte)]]
           copied == Loop(Copy, r, n)
           I == [i \in 0 .. n |->
                  {s \in RoutineStates :
                     /\ SameArguments(s, r)
                     /\ \/ /\ s.how = "running" /\ AllMapped(map, r.a0, i)
                           /\ apart => Wrote(map, r.memory, s.memory, r.a0, i, value)
                        \/ /\ s.how = "faulted"
                           /\ ~AllMapped(map, r.a0, n) \/ ~AllMapped(map, r.a1, n)
                           /\ apart => \E k \in 0 .. n - 1 :
                                Wrote(map, r.memory, s.memory, r.a0, k, value)}]
<1>1. /\ n \in Int /\ r.a0 \in Int /\ r.a1 \in Int
      /\ r.memory \in [Addresses -> Bytes]
  BY DEF RoutineStates
<1>2. Strncpy(map, r) = IF n > MaxBytes THEN Stop(r, "declined")
                        ELSE EndWith(r.a0, copied)
  BY DEF Strncpy
<1> HIDE DEF value, apart
<1>3. CASE n > MaxBytes
  <2>1. ~(n <= MaxBytes)
    BY <1>1, <1>3, Numbers
  <2> QED BY <1>2, <1>3, <2>1, Stopped DEF StrncpyEnds, SameArguments, Hows
<1>4. CASE n <= MaxBytes
  <2>1. ~(n > MaxBytes)
    BY <1>1, <1>4, Numbers
  <2>2. /\ copied \in RoutineStates /\ SameArguments(copied, r)
        /\ \/ /\ copied.how = "running"
              /\ apart => Wrote(map, r.memory, copied.memory, r.a0, n, value)
           \/ /\ copied.how = "faulted"
              /\ ~AllMapped(map, r.a0, n) \/ ~AllMapped(map, r.a1, n)
              /\ apart => \E k \in 0 .. n - 1 :
                   Wrote(map, r.memory, copied.memory, r.a0, k, value)
    <3>1. CASE n <= 0
      <4>1. copied = r
        BY <1>1, <3>1, NoLoop
      <4> QED BY <1>1, <3>1, <4>1, WroteNothing DEF SameArguments
    <3>2. CASE n > 0
      <4>1. n \in Nat /\ n \in 0 .. n /\ 0 \in 0 .. n
        BY <1>1, <3>2
      <4>2. r \in I[0]
        <5>1. Wrote(map, r.memory, r.memory, r.a0, 0, value)
          BY <1>1, WroteNothing
        <5> QED BY <4>1, <5>1 DEF SameArguments, AllMapped
      <4>3. ASSUME NEW i \in 0 .. n - 1
            PROVE  /\ I[i] \subseteq RoutineStates
                   /\ \A s \in I[i] : IF s.how = "running" THEN Copy[i][s] \in I[i + 1]
                                      ELSE s \in I[i + 1]
        <5>1. /\ i \in Nat /\ i \in 0 .. n /\ i + 1 \in 0 .. n
              /\ \A j \in 0 .. (i + 1) - 1 : j = i \/ j \in 0 .. i - 1
          BY <4>1
        <5>2. I[i] \subseteq RoutineStates
          BY <5>1
        <5>3. ASSUME NEW s \in I[i]
              PROVE  IF s.how = "running" THEN Copy[i][s] \in I[i + 1]
                     ELSE s \in I[i + 1]
          <6>1. s \in RoutineStates /\ SameArguments(s, r)
            BY <5>1
          <6>2. CASE s.how # "running"
            BY <5>1, <6>2
          <6>3. CASE s.how = "running"
            <7> DEFINE ended == \E j \in 0 .. i - 1 : ReadByte(map, s, Plus(r.a0, j)) = 0
                       byte == IF ended THEN 0 ELSE ReadByte(map, s, Plus(r.a1, i))
                       next == WriteByte(map, s, Plus(r.a0, i), byte)
            <7>1. /\ AllMapped(map, r.a0, i)
                  /\ apart => Wrote(map, r.memory, s.memory, r.a0, i, value)
              BY <5>1, <6>3
            <7>2. Plus(r.a0, i) \in Addresses
              BY <1>1, <5>1, PlusTyped
            <7>3. Copy[i][s] = IF ~ended /\ ~Mapped(map, Plus(r.a1, i))
                               THEN Stop(s, "faulted") ELSE next
              BY <5>1, <6>1
            <7> HIDE DEF Copy
            <7>4. CASE ~ended /\ ~Mapped(map, Plus(r.a1, i))
              <8> DEFINE f == Stop(s, "faulted")
              <8>1. /\ f \in RoutineStates /\ f.how = "faulted" /\ f.memory = s.memory
                    /\ SameArguments(f, r)
                BY <6>1, Stopped DEF SameArguments, Hows
              <8>2. ~AllMapped(map, r.a1, n)
                BY <7>4 DEF AllMapped
              <8> HIDE DEF f
              <8>3. f \in I[i + 1]
                BY <5>1, <7>1, <8>1, <8>2
              <8> QED BY <6>3, <7>3, <7>4, <8>3 DEF f
            <7>5. CASE ended \/ Mapped(map, Plus(r.a1, i))
              <8>1. byte \in Bytes /\ (apart => byte = value[i])
                <9> HIDE DEF I
                <9>1. ended <=> \E j \in 0 .. i - 1 : ReadByte(map, s, Plus(r.a0, j)) = 0
                  OBVIOUS
                <9>2. byte = IF ended THEN 0 ELSE ReadByte(map, s, Plus(r.a1, i))
                  OBVIOUS
                <9> HIDE DEF ended, byte
                <9> QED
                  BY <1>4, <6>1, <6>3, <7>1, <7>5, <9>1, <9>2, StrncpyTurn
                  DEF apart, value
              <8> HIDE DEF byte, ended
              <8>2. /\ next \in RoutineStates
                    /\ next.a0 = s.a0 /\ next.a1 = s.a1 /\ next.a2 = s.a2
                    /\ Mapped(map, Plus(r.a0, i)) =>
                         /\ next.how = "running"
                         /\ next.memory = [s.memory EXCEPT
                                   ![Physical(map, Plus(r.a0, i))] = byte]
                    /\ ~Mapped(map, Plus(r.a0, i)) => next = Stop(s, "faulted")
                BY <6>1, <6>3, <7>2, <8>1, ByteWritten
              <8> HIDE DEF next
              <8>3. SameArguments(next, r)
                BY <6>1, <8>2 DEF SameArguments
              <8>4. CASE Mapped(map, Plus(r.a0, i))
                <9>1. AllMapped(map, r.a0, i + 1)
                  BY <5>1, <7>1, <8>4 DEF AllMapped
                <9>2. ASSUME apart
                      PROVE  Wrote(map, r.memory, next.memory, r.a0, i + 1, value)
                  <10>1. Wrote(map, r.memory, s.memory, r.a0, i, value)
                         /\ byte = value[i] /\ value[i] \in Bytes
                    BY <7>1, <8>1, <9>2
                  <10> QED BY <1>1, <1>4, <8>2, <8>4, <10>1, WroteNext
                <9>3. next \in I[i + 1]
                  BY <5>1, <8>2, <8>3, <8>4, <9>1, <9>2
                <9> QED BY <6>3, <7>3, <7>5, <9>3
              <8>5. CASE ~Mapped(map, Plus(r.a0, i))
                <9>1. next.how = "faulted" /\ next.memory = s.memory
                  BY <6>1, <8>2, <8>5, Stopped DEF Hows
                <9>2. ~AllMapped(map, r.a0, n)
                  BY <8>5 DEF AllMapped
                <9>3. next \in I[i + 1]
                  BY <5>1, <7>1, <8>2, <8>3, <9>1, <9>2
                <9> QED BY <6>3, <7>3, <7>5, <9>3
              <8> QED BY <8>4, <8>5
            <7> QED BY <7>4, <7>5
          <6> QED BY <6>2, <6>3
        <5> QED BY <5>2, <5>3
      <4>4. copied \in I[n]
        <5> HIDE DEF I, Copy
        <5> QED BY <4>1, <4>2, <4>3, Looping
      <4> HIDE DEF copied
      <4>5. \A s \in I[n] :
              /\ s \in RoutineStates /\ SameArguments(s, r)
              /\ \/ /\ s.how = "running"
                    /\ apart => Wrote(map, r.memory, s.memory, r.a0, n, value)
                 \/ /\ s.how = "faulted"
                    /\ ~AllMapped(map, r.a0, n) \/ ~AllMapped(map, r.a1, n)
                    /\ apart => \E k \in 0 .. n - 1 :
                         Wrote(map, r.memory, s.memory, r.a0, k, value)
        BY <4>1
      <4> HIDE DEF I
      <4> QED BY <4>4, <4>5
    <3>3. n <= 0 \/ n > 0
      BY <1>1
    <3> HIDE DEF I, copied, Copy, n
    <3> QED BY <3>1, <3>2, <3>3
  <2> HIDE DEF copied, I
  <2>3. Strncpy(map, r) = EndWith(r.a0, copied)
    BY <1>2, <2>1
  <2>4. CASE copied.how = "running"
    <3> DEFINE e == Returned(copied, r.a0)
    <3>1. Strncpy(map, r) = e
      BY <2>3, <2>4 DEF EndWith
    <3>2. /\ e \in RoutineStates /\ e.how = "returned" /\ e.memory = copied.memory
          /\ e.a0 = r.a0 /\ e.a1 = copied.a1 /\ e.a2 = copied.a2
      BY <1>1, <2>2, ReturnedIs
    <3> HIDE DEF e
    <3>3. SameArguments(e, r)
      BY <2>2, <3>2 DEF SameArguments
    <3>4. StrncpyEnds(map, r, e)
      BY <1>4, <2>1, <2>2, <2>4, <3>2, <3>3 DEF StrncpyEnds, value, apart
    <3> QED BY <3>1, <3>4
  <2>5. CASE copied.how # "running"
    <3>1. Strncpy(map, r) = copied
      BY <2>3, <2>5 DEF EndWith
    <3> QED BY <1>4, <2>1, <2>2, <2>5, <3>1 DEF StrncpyEnds, value, apart
  <2> QED BY <2>4, <2>5
<1>5. n > MaxBytes \/ n <= MaxBytes
  BY <1>1, Numbers
<1> QED BY <1>3, <1>4, <1>5

-----------------------------------------------------------------------------
(* memcmp, strncmp and strlen.                                             *)

LEMMA MinIs ==
  ASSUME NEW S \in SUBSET Int, NEW k \in S, \A j \in S : k <= j
  PROVE  Min(S) = k
<1>1. Min(S) \in S /\ \A j \in S : Min(S) <= j
  BY DEF Min
<1>2. Min(S) <= k /\ k <= Min(S) /\ Min(S) \in Int /\ k \in Int
  BY <1>1
<1> QED BY <1>2

\* The places at which a comparison can be decided.
DecidedBy(map, mem, a, b, n, string) ==
  {i \in 0 .. n - 1 :
     \/ SeenBy(map, mem, Plus(a, i)) # SeenBy(map, mem, Plus(b, i))
     \/ string /\ SeenBy(map, mem, Plus(a, i)) = 0}

\* A comparison changes no memory; it returns the difference at the first
\* place that decides.
CompareEnds(map, r, string, e) ==
  LET decided == DecidedBy(map, r.memory, r.a0, r.a1, r.a2, string)
      first == Min(decided)
  IN  /\ e \in RoutineStates /\ e.memory = r.memory
      /\ e.how \in {"returned", "declined", "faulted"}
      /\ e.how # "returned" => SameArguments(e, r)
      /\ e.how = "returned" =>
           e.a0 = IF decided = {} THEN 0
                  ELSE SeenBy(map, r.memory, Plus(r.a0, first))
                         - SeenBy(map, r.memory, Plus(r.a1, first))

\* The fast paths that compare, from their first byte to their end.
LEMMA CompareResult ==
  ASSUME NEW map \in Mappings, NEW r \in RoutineStates, r.how = "running",
         NEW string \in BOOLEAN
  PROVE  CompareEnds(map, r, string, Compare(map, r, string))
<1> DEFINE n == r.a2
           left(i) == SeenBy(map, r.memory, Plus(r.a0, i))
           right(i) == SeenBy(map, r.memory, Plus(r.a1, i))
           decided == DecidedBy(map, r.memory, r.a0, r.a1, n, string)
           faulted == Stop(r, "faulted")
           declined == Stop(r, "declined")
           Test == [i \in Nat |-> [s \in RoutineStates |->
             LET a == ReadByte(map, r, Plus(r.a0, i))
                 b == ReadByte(map, r, Plus(r.a1, i))
             IN  IF ~Mapped(map, Plus(r.a0, i)) \/ ~Mapped(map, Plus(r.a1, i))
                 THEN Stop(s, "faulted")
                 ELSE IF a # b \/ (string /\ a = 0) THEN Returned(s, a - b) ELSE s]]
           tested == Loop(Test, r, n)
           I == [i \in 0 .. n |->
                  {s \in RoutineStates :
                     \/ s = r /\ \A j \in 0 .. i - 1 : j \notin decided
                     \/ s = faulted
                     \/ \E k \in decided :
                          /\ s = Returned(r, left(k) - right(k))
                          /\ \A j \in 0 .. k - 1 : j \notin decided}]
<1>1. n \in Int /\ r.a0 \in Int /\ r.a1 \in Int
  BY DEF RoutineStates
<1>2. Compare(map, r, string) = IF Long(n) THEN declined ELSE EndWith(0, tested)
  BY DEF Compare
<1>3. /\ faulted \in RoutineStates /\ faulted.how = "faulted"
      /\ faulted.memory = r.memory /\ SameArguments(faulted, r)
      /\ declined \in RoutineStates /\ declined.how = "declined"
      /\ declined.memory = r.memory /\ SameArguments(declined, r)
  BY Stopped DEF Hows, SameArguments
<1>4. CASE Long(n)
  <2> HIDE DEF declined, tested
  <2> QED BY <1>2, <1>3, <1>4 DEF CompareEnds
<1>5. CASE ~Long(n)
  <2>1. /\ n \in Nat /\ n <= MaxBytes /\ n \in 0 .. n /\ 0 \in 0 .. n
        /\ \A i \in 0 .. n - 1 : i \in Nat
    BY <1>1, <1>5, Numbers DEF Long
  <2>2. \A i \in 0 .. n - 1 :
          i \in decided <=> left(i) # right(i) \/ (string /\ left(i) = 0)
    BY DEF DecidedBy
  <2>3. decided \in SUBSET (0 .. n - 1)
    BY DEF DecidedBy
  <2> HIDE DEF faulted, declined, decided
  <2>4. \A k \in decided : left(k) - right(k) \in Int
    <3> SUFFICES ASSUME NEW k \in decided PROVE left(k) - right(k) \in Int
      OBVIOUS
    <3>1. k \in Int /\ Plus(r.a0, k) \in Addresses /\ Plus(r.a1, k) \in Addresses
      BY <1>1, <2>3, PlusTyped
    <3>2. \A x \in Bytes : x \in Int
      BY Numbers DEF Bytes
    <3>3. \A x \in Addresses : SeenBy(map, r.memory, x) \in Int
      BY <3>2, ReadTyped DEF SeenBy, ReadByte
    <3> QED BY <3>1, <3>3
  <2>5. tested \in I[n]
    <3>1. r \in I[0]
      BY <2>1
    <3>2. ASSUME NEW i \in 0 .. n - 1
          PROVE  /\ I[i] \subseteq RoutineStates
                 /\ \A s \in I[i] : IF s.how = "running" THEN Test[i][s] \in I[i + 1]
                                    ELSE s \in I[i + 1]
      <4>1. /\ i \in Nat /\ i \in 0 .. n /\ i + 1 \in 0 .. n
            /\ \A j \in 0 .. (i + 1) - 1 : j = i \/ j \in 0 .. i - 1
        BY <2>1
      <4>2. I[i] \subseteq RoutineStates
        BY <4>1
      <4>3. ASSUME NEW s \in I[i]
            PROVE  IF s.how = "running" THEN Test[i][s] \in I[i + 1]
                   ELSE s \in I[i + 1]
        <5>1. s \in RoutineStates
          BY <4>2
        <5>2. CASE s = r /\ \A j \in 0 .. i - 1 : j \notin decided
          <6> DEFINE a == ReadByte(map, r, Plus(r.a0, i))
                     b == ReadByte(map, r, Plus(r.a1, i))
          <6>1. Test[i][s] =
                  IF ~Mapped(map, Plus(r.a0, i)) \/ ~Mapped(map, Plus(r.a1, i))
                  THEN faulted
                  ELSE IF a # b \/ (string /\ a = 0) THEN Returned(r, a - b) ELSE r
            BY <4>1, <5>1, <5>2 DEF faulted
          <6> HIDE DEF Test
          <6>2. CASE ~Mapped(map, Plus(r.a0, i)) \/ ~Mapped(map, Plus(r.a1, i))
            <7>1. faulted \in I[i + 1]
              BY <1>3, <4>1
            <7> HIDE DEF I
            <7> QED BY <5>2, <6>1, <6>2, <7>1
          <6>3. CASE Mapped(map, Plus(r.a0, i)) /\ Mapped(map, Plus(r.a1, i))
            <7>1. a = left(i) /\ b = right(i)
              BY <6>3 DEF SeenBy, ReadByte
            <7> HIDE DEF a, b
            <7>2. CASE i \in decided
              <8>1. Test[i][s] = Returned(r, left(i) - right(i))
                BY <2>2, <6>1, <6>3, <7>1, <7>2
              <8>2. Returned(r, left(i) - right(i)) \in RoutineStates
                BY <2>4, <7>2, ReturnedIs
              <8>3. Returned(r, left(i) - right(i)) \in I[i + 1]
                BY <4>1, <5>2, <7>2, <8>2
              <8> HIDE DEF I
              <8> QED BY <5>2, <8>1, <8>3
            <7>3. CASE i \notin decided
              <8>1. Test[i][s] = r
                BY <2>2, <6>1, <6>3, <7>1, <7>3
              <8>2. \A j \in 0 .. (i + 1) - 1 : j \notin decided
                BY <4>1, <5>2, <7>3
              <8>3. r \in I[i + 1]
                BY <4>1, <8>2
              <8> HIDE DEF I
              <8> QED BY <5>2, <8>1, <8>3
            <7> QED BY <7>2, <7>3
          <6> QED BY <6>2, <6>3
        <5>3. CASE \/ s = faulted
                   \/ \E k \in decided :
                        /\ s = Returned(r, left(k) - right(k))
                        /\ \A j \in 0 .. k - 1 : j \notin decided
          <6>1. s.how # "running"
            <7>1. ASSUME NEW k \in decided
                  PROVE  Returned(r, left(k) - right(k)).how # "running"
              BY <2>4, ReturnedIs
            <7> QED BY <1>3, <5>3, <7>1
          <6>2. s \in I[i + 1]
            BY <4>1, <5>1, <5>3
          <6> HIDE DEF I, Test
          <6> QED BY <6>1, <6>2
        <5>4. \/ s = r /\ \A j \in 0 .. i - 1 : j \notin decided
              \/ s = faulted
              \/ \E k \in decided :
                   /\ s = Returned(r, left(k) - right(k))
                   /\ \A j \in 0 .. k - 1 : j \notin decided
          BY <4>1
        <5> QED BY <5>2, <5>3, <5>4
      <4> QED BY <4>2, <4>3
    <3> HIDE DEF I, Test
    <3> QED BY <2>1, <3>1, <3>2, Looping
  <2>6. \/ tested = r /\ \A j \in 0 .. n - 1 : j \notin decided
        \/ tested = faulted
        \/ \E k \in decided :
             /\ tested = Returned(r, left(k) - right(k))
             /\ \A j \in 0 .. k - 1 : j \notin decided
    <3>1. \A s \in I[n] :
            \/ s = r /\ \A j \in 0 .. n - 1 : j \notin decided
            \/ s = faulted
            \/ \E k \in decided :
                 /\ s = Returned(r, left(k) - right(k))
                 /\ \A j \in 0 .. k - 1 : j \notin decided
      BY <2>1
    <3> HIDE DEF I, tested
    <3> QED BY <2>5, <3>1
  <2> HIDE DEF tested, I
  <2>7. Compare(map, r, string) = EndWith(0, tested)
    BY <1>2, <1>5
  <2>8. CASE tested = r /\ \A j \in 0 .. n - 1 : j \notin decided
    <3>1. decided = {}
      BY <2>3, <2>8
    <3>2. Compare(map, r, string) = Returned(r, 0)
      BY <2>7, <2>8 DEF EndWith
    <3>3. /\ Returned(r, 0) \in RoutineStates /\ Returned(r, 0).how = "returned"
          /\ Returned(r, 0).memory = r.memory /\ Returned(r, 0).a0 = 0
      BY ReturnedIs
    <3> QED BY <3>1, <3>2, <3>3 DEF CompareEnds, decided
  <2>9. CASE tested = faulted
    BY <1>3, <2>7, <2>9 DEF EndWith, CompareEnds
  <2>10. ASSUME NEW k \in decided, tested = Returned(r, left(k) - right(k)),
                \A j \in 0 .. k - 1 : j \notin decided
         PROVE  CompareEnds(map, r, string, Compare(map, r, string))
    <3>1. Min(decided) = k
      <4>1. decided \in SUBSET Int
        BY <2>3
      <4>2. \A j \in decided : k <= j
        BY <2>3, <2>10
      <4> QED BY <4>1, <4>2, MinIs
    <3> DEFINE e == Returned(r, left(k) - right(k))
    <3>2. /\ e \in RoutineStates /\ e.how = "returned"
          /\ e.memory = r.memory /\ e.a0 = left(k) - right(k)
      BY <2>4, ReturnedIs
    <3> HIDE DEF e
    <3>3. Compare(map, r, string) = e
      BY <2>7, <2>10, <3>2 DEF EndWith, e
    <3> QED BY <3>1, <3>2, <3>3 DEF CompareEnds, decided
  <2> QED BY <2>6, <2>8, <2>9, <2>10
<1> QED BY <1>4, <1>5

\* strlen changes no memory, and returns the place of the first zero.
StrlenEnds(map, r, e) ==
  /\ e \in RoutineStates /\ e.memory = r.memory
  /\ e.how \in {"returned", "declined", "faulted"}
  /\ e.how # "returned" => SameArguments(e, r)
  /\ e.how = "returned" =>
       e.a0 = Min({i \in Addresses : SeenBy(map, r.memory, Plus(r.a0, i)) = 0})

\* The fast path of strlen, from its first byte to its end.
LEMMA StrlenResult ==
  ASSUME NEW map \in Mappings, NEW r \in RoutineStates, r.how = "running"
  PROVE  StrlenEnds(map, r, Strlen(map, r))
<1> DEFINE seen(i) == SeenBy(map, r.memory, Plus(r.a0, i))
           faulted == Stop(r, "faulted")
           declined == Stop(r, "declined")
           Test == [i \in Nat |-> [s \in RoutineStates |->
             IF ~Mapped(map, Plus(r.a0, i)) THEN Stop(s, "faulted")
             ELSE IF ReadByte(map, r, Plus(r.a0, i)) = 0 THEN Returned(s, i) ELSE s]]
           tested == Loop(Test, r, MaxBytes)
           I == [i \in 0 .. MaxBytes |->
                  {s \in RoutineStates :
                     \/ s = r /\ \A j \in 0 .. i - 1 : seen(j) # 0
                     \/ s = faulted
                     \/ \E k \in 0 .. MaxBytes - 1 :
                          /\ s = Returned(r, k) /\ seen(k) = 0
                          /\ \A j \in 0 .. k - 1 : seen(j) # 0}]
<1>1. /\ r.a0 \in Int /\ MaxBytes \in Nat /\ MaxBytes <= AddressCount
      /\ AddressCount \in Nat
      /\ MaxBytes \in 0 .. MaxBytes /\ 0 \in 0 .. MaxBytes
  BY Numbers DEF RoutineStates
<1>2. Strlen(map, r) = IF tested.how = "running" THEN declined ELSE tested
  BY DEF Strlen
<1>3. /\ faulted \in RoutineStates /\ faulted.how = "faulted"
      /\ faulted.memory = r.memory /\ SameArguments(faulted, r)
      /\ declined \in RoutineStates /\ declined.how = "declined"
      /\ declined.memory = r.memory /\ SameArguments(declined, r)
  BY Stopped DEF Hows, SameArguments
<1> HIDE DEF faulted, declined, seen
<1>4. tested \in I[MaxBytes]
  <2>1. r \in I[0]
    BY <1>1
  <2>2. ASSUME NEW i \in 0 .. MaxBytes - 1
        PROVE  /\ I[i] \subseteq RoutineStates
               /\ \A s \in I[i] : IF s.how = "running" THEN Test[i][s] \in I[i + 1]
                                  ELSE s \in I[i + 1]
    <3>1. /\ i \in Nat /\ i \in 0 .. MaxBytes /\ i + 1 \in 0 .. MaxBytes
          /\ \A j \in 0 .. (i + 1) - 1 : j = i \/ j \in 0 .. i - 1
      BY <1>1
    <3>2. I[i] \subseteq RoutineStates
      BY <3>1
    <3>3. ASSUME NEW s \in I[i]
          PROVE  IF s.how = "running" THEN Test[i][s] \in I[i + 1]
                 ELSE s \in I[i + 1]
      <4>1. s \in RoutineStates
        BY <3>2
      <4>2. CASE s = r /\ \A j \in 0 .. i - 1 : seen(j) # 0
        <5>1. Test[i][s] =
                IF ~Mapped(map, Plus(r.a0, i)) THEN faulted
                ELSE IF ReadByte(map, r, Plus(r.a0, i)) = 0 THEN Returned(r, i) ELSE r
          BY <3>1, <4>1, <4>2 DEF faulted
        <5> HIDE DEF Test
        <5>2. CASE ~Mapped(map, Plus(r.a0, i))
          <6>1. faulted \in I[i + 1]
            BY <1>3, <3>1
          <6> HIDE DEF I
          <6> QED BY <4>2, <5>1, <5>2, <6>1
        <5>3. CASE Mapped(map, Plus(r.a0, i))
          <6>1. ReadByte(map, r, Plus(r.a0, i)) = seen(i)
            BY <5>3 DEF SeenBy, ReadByte, seen
          <6>2. CASE seen(i) = 0
            <7>1. Test[i][s] = Returned(r, i)
              BY <5>1, <5>3, <6>1, <6>2
            <7>2. Returned(r, i) \in RoutineStates
              BY <3>1, ReturnedIs
            <7>3. Returned(r, i) \in I[i + 1]
              BY <3>1, <4>2, <6>2, <7>2
            <7> HIDE DEF I
            <7> QED BY <4>2, <7>1, <7>3
          <6>3. CASE seen(i) # 0
            <7>1. Test[i][s] = r
              BY <5>1, <5>3, <6>1, <6>3
            <7>2. \A j \in 0 .. (i + 1) - 1 : seen(j) # 0
              BY <3>1, <4>2, <6>3
            <7>3. r \in I[i + 1]
              BY <3>1, <7>2
            <7> HIDE DEF I
            <7> QED BY <4>2, <7>1, <7>3
          <6> QED BY <6>2, <6>3
        <5> QED BY <5>2, <5>3
      <4>3. CASE \/ s = faulted
                 \/ \E k \in 0 .. MaxBytes - 1 :
                      /\ s = Returned(r, k) /\ seen(k) = 0
                      /\ \A j \in 0 .. k - 1 : seen(j) # 0
        <5>1. s.how # "running"
          <6>1. ASSUME NEW k \in 0 .. MaxBytes - 1
                PROVE  Returned(r, k).how # "running"
            <7>1. k \in Int
              BY <1>1
            <7> QED BY <7>1, ReturnedIs
          <6> QED BY <1>3, <4>3, <6>1
        <5>2. s \in I[i + 1]
          BY <3>1, <4>1, <4>3
        <5> HIDE DEF I, Test
        <5> QED BY <5>1, <5>2
      <4>4. \/ s = r /\ \A j \in 0 .. i - 1 : seen(j) # 0
            \/ s = faulted
            \/ \E k \in 0 .. MaxBytes - 1 :
                 /\ s = Returned(r, k) /\ seen(k) = 0
                 /\ \A j \in 0 .. k - 1 : seen(j) # 0
        BY <3>1
      <4> QED BY <4>2, <4>3, <4>4
    <3> QED BY <3>2, <3>3
  <2> HIDE DEF I, Test
  <2> QED BY <1>1, <2>1, <2>2, Looping
<1>5. \/ tested = r
      \/ tested = faulted
      \/ \E k \in 0 .. MaxBytes - 1 :
           /\ tested = Returned(r, k) /\ seen(k) = 0
           /\ \A j \in 0 .. k - 1 : seen(j) # 0
  <2>1. \A s \in I[MaxBytes] :
          \/ s = r
          \/ s = faulted
          \/ \E k \in 0 .. MaxBytes - 1 :
               /\ s = Returned(r, k) /\ seen(k) = 0
               /\ \A j \in 0 .. k - 1 : seen(j) # 0
    BY <1>1
  <2> HIDE DEF I, tested
  <2> QED BY <1>4, <2>1
<1> HIDE DEF tested, I
<1>6. CASE tested = r
  BY <1>2, <1>3, <1>6 DEF StrlenEnds
<1>7. CASE tested = faulted
  BY <1>2, <1>3, <1>7 DEF StrlenEnds
<1>8. ASSUME NEW k \in 0 .. MaxBytes - 1, tested = Returned(r, k), seen(k) = 0,
             \A j \in 0 .. k - 1 : seen(j) # 0
      PROVE  StrlenEnds(map, r, Strlen(map, r))
  <2> DEFINE zeros == {i \in Addresses : SeenBy(map, r.memory, Plus(r.a0, i)) = 0}
             e == Returned(r, k)
  <2>1. Min(zeros) = k
    <3>1. zeros \in SUBSET Int /\ \A i \in zeros : i \in Nat /\ seen(i) = 0
      BY Numbers DEF Addresses, seen
    <3>2. k \in zeros
      BY <1>1, <1>8 DEF Addresses, seen
    <3>3. \A i \in zeros : k <= i
      BY <1>8, <3>1
    <3> HIDE DEF zeros
    <3> QED BY <3>1, <3>2, <3>3, MinIs
  <2>2. e \in RoutineStates /\ e.how = "returned" /\ e.memory = r.memory /\ e.a0 = k
    BY ReturnedIs
  <2> HIDE DEF e, zeros
  <2>3. Strlen(map, r) = e
    BY <1>2, <1>8, <2>2 DEF e
  <2> QED BY <2>1, <2>2, <2>3 DEF StrlenEnds, zeros
<1> QED BY <1>5, <1>6, <1>7, <1>8

-----------------------------------------------------------------------------
(* The filling loop.                                                       *)

\* The multiples of w, up to w before the end.
Multiple(w, from, end) == {a \in from .. end - w : a % w = 0}

LEMMA Multiples ==
  ASSUME NEW w \in Nat \ {0}, NEW from \in Nat, from % w = 0,
         NEW end \in Nat, from <= end
  PROVE  \E k \in Nat :
           /\ Cardinality(Multiple(w, from, end)) = k
           /\ from + w * k <= end
           /\ UNION {a .. a + w - 1 : a \in Multiple(w, from, end)}
                = from .. from + w * k - 1
<1> DEFINE words == {a \in from .. end - w : a % w = 0}
<1>1. PICK k \in Int, x \in 0 .. w - 1 : end - from = w * k + x
  <2>1. end - from \in Int
    OBVIOUS
  <2>2. PICK q \in Int, y \in 0 .. w - 1 : q = (end - from) \div w /\ y = (end - from) % w
    BY <2>1, DivMod
  <2> QED BY <2>1, <2>2, DivMod
<1>2. PICK f \in Int : from = w * f
  <2>0. from \in Int
    OBVIOUS
  <2>1. PICK q \in Int, y \in 0 .. w - 1 : q = from \div w /\ y = from % w
    <3>1. from \div w \in Int /\ from % w \in 0 .. w - 1
      BY <2>0, DivMod
    <3> QED BY <3>1
  <2>2. y = 0 /\ from = w * q + y
    BY <2>0, <2>1, DivMod
  <2>3. w * q \in Int
    OBVIOUS
  <2> QED BY <2>2, <2>3
<1>3. k \in Nat
  <2>1. CASE k < 0
    <3>1. (-k) \in Int /\ (-k) >= 1
      BY <2>1
    <3>2. w * (-k) >= w
      BY <3>1, Product
    <3>3. w * (-k) = -(w * k)
      OBVIOUS
    <3>4. PICK p \in Int : p = w * k
      OBVIOUS
    <3> QED BY <1>1, <3>2, <3>3, <3>4
  <2> QED BY <2>1
<1>4. PICK p \in Nat : p = w * k
  <2>1. w * k \in Nat
    BY <1>3
  <2> QED BY <2>1
<1>5. from + p <= end /\ end < from + p + w
  BY <1>1, <1>4
\* i-th word
<1>6. \A i \in 0 .. k - 1 : w * i \in Nat /\ w * i + w <= p /\ from + w * i \in words
  <2> SUFFICES ASSUME NEW i \in 0 .. k - 1
               PROVE  w * i \in Nat /\ w * i + w <= p /\ from + w * i \in words
    OBVIOUS
  <2>1. PICK z \in Nat : z = w * i
    <3>1. w * i \in Nat
      BY <1>3
    <3> QED BY <3>1
  <2>2. z + w <= p
    <3>1. k - i \in Int /\ k - i >= 1
      BY <1>3
    <3>2. w * (k - i) >= w
      BY <3>1, Product
    <3>3. w * (k - i) = w * k - w * i
      BY <1>3
    <3> QED BY <1>4, <2>1, <3>2, <3>3
  <2>3. (from + w * i) % w = 0
    <3>1. i \in Int /\ from \in Int
      BY <1>3
    <3>2. (from + w * i) % w = from % w
      BY <3>1, ModMultiple
    <3> QED BY <3>2
  <2>4. from + z \in from .. end - w
    BY <1>5, <2>2
  <2> QED BY <2>1, <2>2, <2>3, <2>4
<1>7. \A a \in words : \E i \in 0 .. k - 1 : a = from + w * i
  <2> SUFFICES ASSUME NEW a \in words PROVE \E i \in 0 .. k - 1 : a = from + w * i
    OBVIOUS
  <2>1. a \in Nat /\ from <= a /\ a + w <= end /\ a % w = 0
    OBVIOUS
  <2>2. PICK q \in Int : a = w * q
    <3>0. a \div w \in Int /\ a % w \in 0 .. w - 1
      BY <2>1, DivMod
    <3>1. PICK q \in Int, y \in 0 .. w - 1 : q = a \div w /\ y = a % w
      BY <3>0
    <3>2. y = 0 /\ a = w * q + y
      BY <2>1, <3>1, DivMod
    <3>3. w * q \in Int
      OBVIOUS
    <3> QED BY <3>2, <3>3
  <2> HIDE DEF words
  <2>3. q - f \in Int /\ a = from + w * (q - f)
    <3>1. w * (q - f) = w * q - w * f
      OBVIOUS
    <3>2. PICK u \in Int, v \in Int : u = w * q /\ v = w * f
      OBVIOUS
    <3> QED BY <1>2, <2>2, <3>1, <3>2
  <2>4. PICK i \in Int, z \in Int : i = q - f /\ z = w * i
    OBVIOUS
  <2>5. a = from + z
    BY <2>3, <2>4
  <2>6. i >= 0
    <3>1. CASE i < 0
      <4>1. (-i) \in Int /\ (-i) >= 1
        BY <3>1
      <4>2. w * (-i) >= w
        BY <4>1, Product
      <4>3. w * (-i) = -(w * i)
        OBVIOUS
      <4> QED BY <2>1, <2>4, <2>5, <4>2, <4>3
    <3> QED BY <3>1
  <2>7. i < k
    <3>1. CASE i >= k
      <4>1. PICK d \in Nat : d = i - k
        BY <1>3, <3>1
      <4>2. w * d \in Nat /\ w * d = w * i - w * k
        BY <1>3, <4>1
      <4>3. z - p \in Nat
        BY <1>4, <2>4, <4>2
      <4> QED BY <1>5, <2>1, <2>5, <4>3
    <3> QED BY <1>3, <3>1
  <2> QED BY <1>3, <2>4, <2>5, <2>6, <2>7
<1>8. IsFiniteSet(words) /\ Cardinality(words) = k
  <2> DEFINE T == 0 .. k - 1
             g == [i \in T |-> from + w * i]
  <2>1. IsFiniteSet(T) /\ Cardinality(T) = k
    BY <1>3, FS_Interval
  <2>2. g \in [T -> words]
    BY <1>6
  <2>3. \A i, j \in T : g[i] = g[j] => i = j
    <3> SUFFICES ASSUME NEW i \in T, NEW j \in T, g[i] = g[j] PROVE i = j
      OBVIOUS
    <3>1. i \in Int /\ j \in Int
      BY <1>3
    <3>2. PICK u \in Int, v \in Int : u = w * i /\ v = w * j
      BY <3>1
    <3>3. u = v
      BY <3>2
    <3>4. 0 \in 0 .. w - 1 /\ w * i + 0 = w * j + 0
      BY <3>2, <3>3
    <3> QED BY <3>1, <3>4, DivModUnique
  <2>4. \A a \in words : \E i \in T : g[i] = a
    BY <1>7
  <2> HIDE DEF g, words, T
  <2>5. g \in Bijection(T, words)
    BY <2>2, <2>3, <2>4, Fun_IsBij
  <2>6. ExistsBijection(T, words)
    BY <2>5 DEF ExistsBijection
  <2> QED BY <2>1, <2>6, FS_Bijection
<1>9. UNION {a .. a + w - 1 : a \in words} = from .. from + p - 1
  <2>1. ASSUME NEW a \in words, NEW b \in a .. a + w - 1 PROVE b \in from .. from + p - 1
    <3>1. PICK i \in 0 .. k - 1 : a = from + w * i
      BY <1>7
    <3>2. PICK z \in Nat : z = w * i /\ z + w <= p
      BY <1>6
    <3> QED BY <3>1, <3>2
  <2>2. ASSUME NEW b \in from .. from + p - 1
        PROVE  \E a \in words : b \in a .. a + w - 1
    <3>1. PICK i \in Int, y \in 0 .. w - 1 : b - from = w * i + y
      <4>1. b - from \in Int
        OBVIOUS
      <4>2. PICK q \in Int, y \in 0 .. w - 1 : q = (b - from) \div w /\ y = (b - from) % w
        BY <4>1, DivMod
      <4> QED BY <4>1, <4>2, DivMod
    <3>2. PICK z \in Int : z = w * i
      OBVIOUS
    <3>3. i >= 0
      <4>1. CASE i < 0
        <5>1. (-i) \in Int /\ (-i) >= 1
          BY <4>1
        <5>2. w * (-i) >= w
          BY <5>1, Product
        <5>3. w * (-i) = -(w * i)
          OBVIOUS
        <5> QED BY <3>1, <3>2, <5>2, <5>3
      <4> QED BY <4>1
    <3>4. i < k
      <4>1. CASE i >= k
        <5>1. PICK d \in Nat : d = i - k
          BY <1>3, <4>1
        <5>2. w * d \in Nat /\ w * d = w * i - w * k
          BY <1>3, <5>1
        <5>3. z - p \in Nat
          BY <1>4, <3>2, <5>2
        <5> QED BY <3>1, <3>2, <5>3
      <4> QED BY <1>3, <4>1
    <3>5. from + w * i \in words
      <4>1. i \in 0 .. k - 1
        BY <1>3, <3>3, <3>4
      <4> HIDE DEF words
      <4> QED BY <1>6, <4>1
    <3>6. b \in (from + z) .. (from + z) + w - 1
      BY <3>1, <3>2
    <3> HIDE DEF words
    <3> QED BY <3>2, <3>5, <3>6
  <2> HIDE DEF words
  <2>3. \A b : b \in UNION {a .. a + w - 1 : a \in words} <=> b \in from .. from + p - 1
    BY <2>1, <2>2
  <2> QED BY <2>3
<1> HIDE DEF words
<1>10. from + w * k <= end
  BY <1>4, <1>5
<1> QED BY <1>3, <1>4, <1>8, <1>9, <1>10 DEF words, Multiple

\* So the fill stores exactly the bytes up to the end.
LEMMA FillRange ==
  ASSUME NEW start \in Nat, NEW end \in Nat, start <= end
  PROVE  FillDramBytes(start, end) = start .. end - 1
<1> DEFINE w == WordBytes
           S == {a \in start .. end : a = end \/ a % w = 0}
           aligned == Min(S)
           words == {a \in aligned .. end - w : a % w = 0}
           middle == UNION {a .. a + w - 1 : a \in words}
           rest == aligned + Cardinality(words) * w
<1>1. w \in Nat \ {0}
  BY Numbers
<1>2. aligned \in start .. end /\ (aligned = end \/ aligned % w = 0)
  <2>1. S \in SUBSET Nat /\ S # {}
    OBVIOUS
  <2>2. \A a \in S : a \in start .. end /\ (a = end \/ a % w = 0)
    OBVIOUS
  <2> HIDE DEF S
  <2>3. PICK m \in S : \A a \in S : m <= a
    BY <2>1, Least
  <2>4. S \in SUBSET Int
    BY <2>1
  <2>5. aligned = m
    BY <2>3, <2>4, MinIs
  <2> QED BY <2>2, <2>3, <2>5
<1>3. FillDramBytes(start, end) =
        (start .. aligned - 1) \cup middle \cup (rest .. end - 1)
  BY DEF FillDramBytes
<1> HIDE DEF aligned, w
<1>4. \E k \in Nat : /\ Cardinality(words) = k /\ aligned + w * k <= end
                     /\ middle = aligned .. aligned + w * k - 1
  <2>1. CASE aligned % w = 0
    <3>1. aligned \in Nat /\ aligned <= end
      BY <1>2
    <3>2. words = Multiple(w, aligned, end)
      BY DEF Multiple
    <3> HIDE DEF words
    <3> QED BY <1>1, <2>1, <3>1, <3>2, Multiples
  <2>2. CASE aligned % w # 0
    <3>1. words = {}
      BY <1>1, <1>2, <2>2
    <3>2. Cardinality(words) = 0 /\ middle = {}
      BY <3>1, FS_EmptySet
    <3>3. aligned + w * 0 <= end /\ aligned .. aligned + w * 0 - 1 = {}
      BY <1>1, <1>2
    <3> HIDE DEF words, middle
    <3> QED BY <3>2, <3>3
  <2> QED BY <2>1, <2>2
<1>5. PICK k \in Nat : /\ Cardinality(words) = k /\ aligned + w * k <= end
                       /\ middle = aligned .. aligned + w * k - 1
  BY <1>4
<1>6. PICK p \in Nat : p = w * k /\ rest = aligned + p
  <2>1. w * k \in Nat /\ k * w = w * k
    BY <1>1
  <2> HIDE DEF words
  <2> QED BY <1>5, <2>1
<1> HIDE DEF rest, middle, words
<1>7. (start .. aligned - 1) \cup (aligned .. aligned + p - 1)
        \cup ((aligned + p) .. end - 1) = start .. end - 1
  <2>1. aligned \in Int /\ start <= aligned /\ aligned + p <= end
    BY <1>2, <1>5, <1>6
  <2> QED BY <2>1
<1> QED BY <1>3, <1>5, <1>6, <1>7

\* How the filling loop ends: it declines, or has made some turns, the last
\* of them if it returns.
FillEnds(map, r, storesPointer, e) ==
  /\ e \in RoutineStates
  /\ e.how \in {"declined", "returned", "again"}
  /\ e.how = "declined" => SameArguments(e, r) /\ e.memory = r.memory
  /\ e.how # "declined" =>
       /\ ~storesPointer
       /\ e.a0 > r.a0 /\ e.a0 - r.a0 <= MaxBytes
       /\ e.how = "returned" <=> e.a0 = r.a1
       /\ Wrote(map, r.memory, e.memory, r.a0, e.a0 - r.a0,
                [i \in Nat |-> r.a2 % ByteValues])

\* The fast path of memset, by words and then by bytes.
LEMMA FillResult ==
  ASSUME NEW map \in Mappings, NEW r \in RoutineStates, r.how = "running",
         r.a1 <= AddressCount, NEW storesPointer \in BOOLEAN
  PROVE  FillEnds(map, r, storesPointer, FillLoop(map, r, storesPointer))
<1> DEFINE end == Min({r.a1, r.a0 + MaxBytes})
           filled == FillDramBytes(r.a0, end)
           declines == \/ storesPointer \/ r.a0 >= r.a1 \/ r.a0 < DramBase
                       \/ r.a1 > DramEnd \/ ~IdentityStoreRange(map, r.a0, end)
           byte == r.a2 % ByteValues
           value == [i \in Nat |-> byte]
           after == [a \in Addresses |-> IF a \in filled THEN byte ELSE r.memory[a]]
           e == [r EXCEPT !.how = IF end = r.a1 THEN "returned" ELSE "again",
                          !.a0 = end, !.memory = after]
<1>1. /\ r.a0 \in Int /\ r.a1 \in Int /\ r.a2 \in Int
      /\ r.memory \in [Addresses -> Bytes]
      /\ MaxBytes \in Nat /\ MaxBytes > 0 /\ DramBase \in Nat /\ AddressCount \in Nat
      /\ DramEnd \in Int
  BY Numbers, RoutinesAssumption DEF RoutineStates
<1>2. FillLoop(map, r, storesPointer) = IF declines THEN Stop(r, "declined") ELSE e
  BY DEF FillLoop
<1>3. CASE declines
  <2>1. FillLoop(map, r, storesPointer) = Stop(r, "declined")
    BY <1>2, <1>3
  <2> QED BY <2>1, Stopped DEF FillEnds, SameArguments, Hows
<1>4. CASE ~declines
  <2>1. /\ ~storesPointer /\ r.a0 < r.a1 /\ r.a0 >= DramBase
        /\ IdentityStoreRange(map, r.a0, end)
    BY <1>1, <1>4
  <2>2. /\ end \in Int /\ end <= r.a1 /\ end <= r.a0 + MaxBytes
        /\ end = r.a1 \/ end = r.a0 + MaxBytes
    <3>1. CASE r.a1 <= r.a0 + MaxBytes
      <4>1. end = r.a1
        BY <1>1, <3>1, MinIs
      <4> HIDE DEF end
      <4> QED BY <1>1, <3>1, <4>1
    <3>2. CASE ~(r.a1 <= r.a0 + MaxBytes)
      <4>1. end = r.a0 + MaxBytes
        <5>1. PICK m \in Int : m = r.a0 + MaxBytes
          BY <1>1
        <5>2. Min({r.a1, m}) = m
          <6> DEFINE T == {r.a1, m}
          <6>1. T \in SUBSET Int /\ m \in T /\ \A j \in T : m <= j
            BY <1>1, <3>2, <5>1
          <6> HIDE DEF T
          <6>2. Min(T) = m
            BY <6>1, MinIs
          <6> QED BY <6>2 DEF T
        <5> QED BY <5>1, <5>2
      <4> HIDE DEF end
      <4> QED BY <1>1, <3>2, <4>1
    <3> QED BY <3>1, <3>2
  <2> HIDE DEF end, after
  <2>3. PICK n \in Nat : n = end - r.a0 /\ n > 0 /\ n <= MaxBytes
    BY <1>1, <2>1, <2>2
  <2>4. filled = r.a0 .. end - 1
    <3>1. r.a0 \in Nat /\ end \in Nat /\ r.a0 <= end
      BY <1>1, <2>1, <2>2, <2>3
    <3> QED BY <3>1, FillRange
  <2>5. byte \in Bytes
    BY <1>1, Numbers, DivMod DEF Bytes
  <2> HIDE DEF filled, byte
  <2>6. /\ after \in [Addresses -> Bytes]
        /\ \A a \in Addresses : after[a] = IF a \in filled THEN byte ELSE r.memory[a]
    BY <1>1, <2>5 DEF after
  <2>7. /\ e \in RoutineStates /\ e.how = (IF end = r.a1 THEN "returned" ELSE "again")
        /\ e.a0 = end /\ e.memory = after
    BY <2>2, <2>6 DEF RoutineStates
  <2>8. \A i \in 0 .. n - 1 :
          /\ Plus(r.a0, i) = r.a0 + i /\ r.a0 + i \in filled /\ r.a0 + i \in Addresses
          /\ Mapped(map, r.a0 + i) /\ Physical(map, r.a0 + i) = r.a0 + i
    <3> SUFFICES ASSUME NEW i \in 0 .. n - 1
                 PROVE  /\ Plus(r.a0, i) = r.a0 + i /\ r.a0 + i \in filled
                        /\ r.a0 + i \in Addresses
                        /\ Mapped(map, r.a0 + i) /\ Physical(map, r.a0 + i) = r.a0 + i
      OBVIOUS
    <3>1. /\ r.a0 + i \in Int /\ r.a0 + i \in r.a0 .. end - 1
          /\ 0 <= r.a0 + i /\ r.a0 + i < AddressCount
      BY <1>1, <2>1, <2>2, <2>3
    <3>2. Plus(r.a0, i) = r.a0 + i
      BY <3>1, Numbers, ModNear DEF Plus
    <3>3. r.a0 + i \in Addresses
      BY <1>1, <3>1 DEF Addresses
    <3> QED BY <2>1, <2>4, <3>1, <3>2, <3>3 DEF IdentityStoreRange
  <2>9. \A a \in filled : \E i \in 0 .. n - 1 : a = r.a0 + i
    <3> SUFFICES ASSUME NEW a \in filled PROVE \E i \in 0 .. n - 1 : a = r.a0 + i
      OBVIOUS
    <3>1. a \in Int /\ a - r.a0 \in 0 .. n - 1 /\ a = r.a0 + (a - r.a0)
      BY <1>1, <2>2, <2>3, <2>4
    <3> QED BY <3>1
  <2>10. Wrote(map, r.memory, after, r.a0, n, value)
    <3>1. AllMapped(map, r.a0, n)
      BY <2>8 DEF AllMapped
    <3>2. \A i \in 0 .. n - 1 : after[Physical(map, Plus(r.a0, i))] = value[i]
      <4>1. \A i \in 0 .. n - 1 : value[i] = byte
        BY <2>3
      <4> HIDE DEF value
      <4> QED BY <2>6, <2>8, <4>1
    <3>3. ASSUME NEW a \in Addresses,
                 \A i \in 0 .. n - 1 : Physical(map, Plus(r.a0, i)) # a
          PROVE  after[a] = r.memory[a]
      BY <2>6, <2>8, <2>9, <3>3
    <3> QED BY <2>6, <3>1, <3>2, <3>3 DEF Wrote
  <2> HIDE DEF value, e
  <2>11. e.a0 > r.a0 /\ e.a0 - r.a0 <= MaxBytes /\ e.a0 - r.a0 = n
    BY <1>1, <2>2, <2>3, <2>7
  <2>12. FillEnds(map, r, storesPointer, e)
    BY <2>1, <2>7, <2>10, <2>11 DEF FillEnds, value, byte
  <2> QED BY <1>2, <1>4, <2>12
<1> QED BY <1>3, <1>4

-----------------------------------------------------------------------------
(* Calls.                                                                  *)

RoutineInv == bytes \in [Addresses -> Bytes] /\ frames \in Mappings

\* The state in which the last call found the hart, for a memory and a map.
Begun(mem) ==
  [how |-> "running", memory |-> mem, a0 |-> lastCall'.args[1],
   a1 |-> lastCall'.args[2], a2 |-> lastCall'.args[3]]

Ended == Run(lastCall'.routine, frames, Begun(bytes))

LEMMA CallIs ==
  ASSUME NEW routine, NEW a0 \in Int, NEW a1 \in Int, NEW a2 \in Int,
         Call(routine, a0, a1, a2)
  PROVE  /\ lastCall'.routine = routine
         /\ lastCall'.args = <<a0, a1, a2>>
         /\ lastCall'.args[1] = a0 /\ lastCall'.args[2] = a1 /\ lastCall'.args[3] = a2
         /\ bytes' = Ended.memory /\ frames' = frames
         /\ lastCall'.how = Ended.how
         /\ lastCall'.regs = <<Ended.a0, Ended.a1, Ended.a2>>
         /\ lastCall'.regs[1] = Ended.a0
<1> DEFINE r == [how |-> "running", memory |-> bytes, a0 |-> a0, a1 |-> a1, a2 |-> a2]
           end == Run(routine, frames, r)
<1>1. /\ bytes' = end.memory /\ frames' = frames
      /\ lastCall' = [routine |-> routine, args |-> <<a0, a1, a2>>, how |-> end.how,
                      regs |-> <<end.a0, end.a1, end.a2>>]
  BY DEF Call
<1> HIDE DEF end
<1>2. /\ lastCall'.routine = routine
      /\ lastCall'.args = <<a0, a1, a2>>
      /\ lastCall'.args[1] = a0 /\ lastCall'.args[2] = a1 /\ lastCall'.args[3] = a2
  BY <1>1
<1>3. Begun(bytes) = r
  BY <1>2 DEF Begun
<1>4. Ended = end
  BY <1>2, <1>3 DEF Ended, end
<1> QED BY <1>1, <1>2, <1>4

LEMMA BegunTyped ==
  ASSUME NEW mem \in [Addresses -> Bytes], lastCall'.args[1] \in Int,
         lastCall'.args[2] \in Int, lastCall'.args[3] \in Int
  PROVE  /\ Begun(mem) \in RoutineStates /\ Begun(mem).how = "running"
         /\ Begun(mem).memory = mem
         /\ Begun(mem).a0 = lastCall'.args[1] /\ Begun(mem).a1 = lastCall'.args[2]
         /\ Begun(mem).a2 = lastCall'.args[3]
BY DEF Begun, RoutineStates

\* A call of a routine, with arguments of the range that RoutineNext allows.
ACall ==
  \E routine, a0, a1, a2 :
    /\ a0 \in Int /\ a1 \in Int /\ a2 \in Int
    /\ Call(routine, a0, a1, a2)
    /\ routine \in Copies \cup Compares \cup Fills \cup {"strlen"}
    /\ routine \in Fills => a1 <= AddressCount

\* A step of the hart is a call of a routine, or changes nothing that matters here.
LEMMA StepIsCall ==
  ASSUME RoutineNext
  PROVE  \/ ACall
         \/ \E a \in Addresses, byte \in Bytes : StoreByte(a, byte)
         \/ \E map \in Mappings : Remap(map)
<1>1. /\ \A a \in Addresses : a \in Int
      /\ \A n \in -1 .. MaxBytes + 1 : n \in Int
      /\ \A n \in 0 .. AddressCount : n \in Int /\ n <= AddressCount
      /\ \A n \in Bytes : n \in Int
  BY Numbers DEF Addresses, Bytes
<1>2. CASE \E a0, a1 \in Addresses, n \in -1 .. MaxBytes + 1 :
             \E routine \in Copies \cup Compares : Call(routine, a0, a1, n)
  BY <1>1, <1>2 DEF ACall, Copies, Compares, Fills
<1>3. CASE \E a0 \in Addresses : Call("strlen", a0, 0, 0)
  <2>1. PICK a0 \in Addresses : Call("strlen", a0, 0, 0)
    BY <1>3
  <2>2. a0 \in Int /\ 0 \in Int /\ "strlen" \notin Fills
    BY <1>1 DEF Fills
  <2>3. ACall
    BY <2>1, <2>2 DEF ACall
  <2> QED BY <2>3
<1>4. CASE \E a0 \in Addresses, a1 \in 0 .. AddressCount, byte \in Bytes :
             \E routine \in Fills : Call(routine, a0, a1, byte)
  BY <1>1, <1>4 DEF ACall
<1> QED BY <1>2, <1>3, <1>4 DEF RoutineNext

\* What a call is, and how its routine has ended.
LEMMA CallEnds ==
  ASSUME RoutineInv, ACall
  PROVE  LET routine == lastCall'.routine
             r == Begun(bytes)
         IN  /\ lastCall'.args[1] \in Int /\ lastCall'.args[2] \in Int
             /\ lastCall'.args[3] \in Int
             /\ lastCall'.args = <<r.a0, r.a1, r.a2>>
             /\ bytes' = Ended.memory /\ frames' = frames
             /\ lastCall'.how = Ended.how
             /\ lastCall'.regs = <<Ended.a0, Ended.a1, Ended.a2>>
             /\ lastCall'.regs[1] = Ended.a0
             /\ Ended \in RoutineStates
             /\ routine \in Copies \cup Compares \cup Fills \cup {"strlen"}
             /\ routine = "memmove" => MemmoveEnds(frames, r, Ended)
             /\ routine = "strncpy" => StrncpyEnds(frames, r, Ended)
             /\ routine = "memcmp" => CompareEnds(frames, r, FALSE, Ended)
             /\ routine = "strncmp" => CompareEnds(frames, r, TRUE, Ended)
             /\ routine = "strlen" => StrlenEnds(frames, r, Ended)
             /\ routine = "fill" => FillEnds(frames, r, FALSE, Ended)
             /\ routine = "fill pointer" => FillEnds(frames, r, TRUE, Ended)
<1> DEFINE routine == lastCall'.routine
           r == Begun(bytes)
<1>1. PICK c, a0, a1, a2 :
        /\ a0 \in Int /\ a1 \in Int /\ a2 \in Int
        /\ Call(c, a0, a1, a2)
        /\ c \in Copies \cup Compares \cup Fills \cup {"strlen"}
        /\ c \in Fills => a1 <= AddressCount
  BY DEF ACall
<1>2. /\ routine = c
      /\ lastCall'.args = <<a0, a1, a2>>
      /\ lastCall'.args[1] = a0 /\ lastCall'.args[2] = a1 /\ lastCall'.args[3] = a2
      /\ bytes' = Ended.memory /\ frames' = frames
      /\ lastCall'.how = Ended.how
      /\ lastCall'.regs = <<Ended.a0, Ended.a1, Ended.a2>>
      /\ lastCall'.regs[1] = Ended.a0
  BY <1>1, CallIs
<1>3. /\ r \in RoutineStates /\ r.how = "running" /\ r.memory = bytes
      /\ r.a0 = a0 /\ r.a1 = a1 /\ r.a2 = a2
  BY <1>1, <1>2, BegunTyped DEF RoutineInv
<1>4. /\ frames \in Mappings
      /\ routine \in Copies \cup Compares \cup Fills \cup {"strlen"}
      /\ routine \in Fills => r.a1 <= AddressCount
  BY <1>1, <1>2, <1>3 DEF RoutineInv, Fills, Copies, Compares
<1>5. Ended = Run(routine, frames, r)
  BY DEF Ended
<1> HIDE DEF r, routine
<1>6. routine = "memmove" => Ended \in RoutineStates /\ MemmoveEnds(frames, r, Ended)
  <2>1. SUFFICES ASSUME routine = "memmove"
                 PROVE  Ended \in RoutineStates /\ MemmoveEnds(frames, r, Ended)
    OBVIOUS
  <2>2. Ended = Memmove(frames, r)
    BY <1>5, <2>1 DEF Run
  <2>3. MemmoveEnds(frames, r, Ended)
    BY <1>3, <1>4, <2>2, MemmoveResult
  <2> QED BY <2>3 DEF MemmoveEnds
<1>7. routine = "strncpy" => Ended \in RoutineStates /\ StrncpyEnds(frames, r, Ended)
  <2>1. SUFFICES ASSUME routine = "strncpy"
                 PROVE  Ended \in RoutineStates /\ StrncpyEnds(frames, r, Ended)
    OBVIOUS
  <2>2. Ended = Strncpy(frames, r)
    BY <1>5, <2>1 DEF Run
  <2>3. StrncpyEnds(frames, r, Ended)
    BY <1>3, <1>4, <2>2, StrncpyResult
  <2> QED BY <2>3 DEF StrncpyEnds
<1>8. routine = "memcmp" => Ended \in RoutineStates /\ CompareEnds(frames, r, FALSE, Ended)
  <2>1. SUFFICES ASSUME routine = "memcmp"
                 PROVE  Ended \in RoutineStates /\ CompareEnds(frames, r, FALSE, Ended)
    OBVIOUS
  <2>2. Ended = Compare(frames, r, FALSE)
    BY <1>5, <2>1 DEF Run
  <2>3. CompareEnds(frames, r, FALSE, Ended)
    BY <1>3, <1>4, <2>2, CompareResult
  <2> QED BY <2>3 DEF CompareEnds
<1>9. routine = "strncmp" => Ended \in RoutineStates /\ CompareEnds(frames, r, TRUE, Ended)
  <2>1. SUFFICES ASSUME routine = "strncmp"
                 PROVE  Ended \in RoutineStates /\ CompareEnds(frames, r, TRUE, Ended)
    OBVIOUS
  <2>2. Ended = Compare(frames, r, TRUE)
    BY <1>5, <2>1 DEF Run
  <2>3. CompareEnds(frames, r, TRUE, Ended)
    BY <1>3, <1>4, <2>2, CompareResult
  <2> QED BY <2>3 DEF CompareEnds
<1>10. routine = "strlen" => Ended \in RoutineStates /\ StrlenEnds(frames, r, Ended)
  <2>1. SUFFICES ASSUME routine = "strlen"
                 PROVE  Ended \in RoutineStates /\ StrlenEnds(frames, r, Ended)
    OBVIOUS
  <2>2. Ended = Strlen(frames, r)
    BY <1>5, <2>1 DEF Run
  <2>3. StrlenEnds(frames, r, Ended)
    BY <1>3, <1>4, <2>2, StrlenResult
  <2> QED BY <2>3 DEF StrlenEnds
<1>11. routine = "fill" => Ended \in RoutineStates /\ FillEnds(frames, r, FALSE, Ended)
  <2>1. SUFFICES ASSUME routine = "fill"
                 PROVE  Ended \in RoutineStates /\ FillEnds(frames, r, FALSE, Ended)
    OBVIOUS
  <2>2. Ended = FillLoop(frames, r, FALSE)
    BY <1>5, <2>1 DEF Run
  <2>3. FillEnds(frames, r, FALSE, Ended)
    BY <1>3, <1>4, <2>1, <2>2, FillResult DEF Fills
  <2> QED BY <2>3 DEF FillEnds
<1>12. routine = "fill pointer" =>
         Ended \in RoutineStates /\ FillEnds(frames, r, TRUE, Ended)
  <2>1. SUFFICES ASSUME routine = "fill pointer"
                 PROVE  Ended \in RoutineStates /\ FillEnds(frames, r, TRUE, Ended)
    OBVIOUS
  <2>2. Ended = FillLoop(frames, r, TRUE)
    BY <1>5, <2>1 DEF Run
  <2>3. FillEnds(frames, r, TRUE, Ended)
    BY <1>3, <1>4, <2>1, <2>2, FillResult DEF Fills
  <2> QED BY <2>3 DEF FillEnds
<1>13. Ended \in RoutineStates
  BY <1>4, <1>6, <1>7, <1>8, <1>9, <1>10, <1>11, <1>12 DEF Copies, Compares, Fills
<1>14. lastCall'.args = <<r.a0, r.a1, r.a2>>
  BY <1>2, <1>3
<1> QED BY <1>1, <1>2, <1>4, <1>6, <1>7, <1>8, <1>9, <1>10, <1>11, <1>12, <1>13, <1>14
           DEF r, routine

LEMMA NoCallStep ==
  ASSUME lastCall' = NoCall
  PROVE  IsExact /\ IsTheLoop
<1>1. lastCall'.routine = "none" /\ lastCall'.how = "returned"
  BY DEF NoCall
<1> QED BY <1>1 DEF IsExact, IsTheLoop, Fills

\* Memory is made of bytes, and no two pages are mapped to one frame.
LEMMA RoutineInvariant == RoutineSpec => []RoutineInv
<1>1. RoutineInit => RoutineInv
  <2> SUFFICES ASSUME RoutineInit PROVE RoutineInv
    OBVIOUS
  <2>1. 0 \in Bytes
    BY Numbers DEF Bytes
  <2>2. frames \in [PageNumbers -> PageNumbers] /\ \A p \in PageNumbers : frames[p] = p
    BY DEF RoutineInit
  <2>3. PageNumbers \in SUBSET PageNumbers
    OBVIOUS
  <2>4. frames \in Mappings
    BY <2>2, <2>3 DEF Mappings
  <2> QED BY <2>1, <2>4 DEF RoutineInit, RoutineInv
<1>2. RoutineInv /\ [RoutineNext]_routineVars => RoutineInv'
  <2> SUFFICES ASSUME RoutineInv, [RoutineNext]_routineVars PROVE RoutineInv'
    OBVIOUS
  <2>1. CASE ACall
    <3>1. /\ bytes' = Ended.memory /\ frames' = frames /\ Ended \in RoutineStates
      BY <2>1, CallEnds
    <3>2. Ended.memory \in [Addresses -> Bytes]
      BY <3>1 DEF RoutineStates
    <3> QED BY <3>1, <3>2 DEF RoutineInv
  <2>2. CASE \E a \in Addresses, byte \in Bytes : StoreByte(a, byte)
    BY <2>2 DEF RoutineInv, StoreByte
  <2>3. CASE \E map \in Mappings : Remap(map)
    BY <2>3 DEF RoutineInv, Remap
  <2>4. CASE UNCHANGED routineVars
    BY <2>4 DEF RoutineInv, routineVars
  <2> QED BY <2>1, <2>2, <2>3, <2>4, StepIsCall
<1> QED BY <1>1, <1>2, PTL DEF RoutineSpec

\* A call does what the guest's own routine is to do.
LEMMA ExactCall ==
  ASSUME RoutineInv, ACall
  PROVE  IsExact
<1> DEFINE a == lastCall'.args[1]
           b == lastCall'.args[2]
           n == lastCall'.args[3]
           how == lastCall'.how
           routine == lastCall'.routine
           value == lastCall'.regs[1]
           r == Begun(bytes)
           Copied(i) == Seen(Plus(b, i))
           Padded(i) == IF \E j \in 0 .. i : Copied(j) = 0 THEN 0 ELSE Copied(i)
           here(p) == Here(frames, a, n, p)
<1>1. /\ a \in Int /\ b \in Int /\ n \in Int
      /\ bytes' = Ended.memory /\ how = Ended.how /\ value = Ended.a0
      /\ frames \in Mappings /\ bytes \in [Addresses -> Bytes]
  BY CallEnds DEF RoutineInv
<1>2. r.memory = bytes /\ r.a0 = a /\ r.a1 = b /\ r.a2 = n
  BY <1>1, BegunTyped
<1>3. \A i \in Int : Copied(i) = SeenBy(frames, bytes, Plus(b, i))
  BY DEF Seen, SeenBy
<1>4. \A p : here(p) # {} => (CHOOSE i \in here(p) : TRUE) \in 0 .. n - 1
  <2> SUFFICES ASSUME NEW p, here(p) # {}
               PROVE  (CHOOSE i \in here(p) : TRUE) \in 0 .. n - 1
    OBVIOUS
  <2>1. (CHOOSE i \in here(p) : TRUE) \in here(p)
    OBVIOUS
  <2> QED BY <2>1 DEF Here
<1>5. ASSUME routine = "memmove", how = "returned"
      PROVE  value = a /\ Writes(a, n, Copied)
  <2> DEFINE moved == Source(frames, r)
  <2>1. MemmoveEnds(frames, r, Ended)
    BY <1>5, CallEnds
  <2>2. /\ Ended.a0 = r.a0 /\ n <= MaxBytes
        /\ AllMapped(frames, b, n)
        /\ Wrote(frames, bytes, bytes', a, n, moved)
    BY <1>1, <1>2, <1>5, <2>1, Numbers DEF MemmoveEnds, SameArguments, Long
  <2>3. \A i \in 0 .. n - 1 : moved[i] = Copied(i)
    <3> SUFFICES ASSUME NEW i \in 0 .. n - 1 PROVE moved[i] = Copied(i)
      OBVIOUS
    <3>1. i \in Nat /\ Mapped(frames, Plus(b, i))
      BY <2>2 DEF AllMapped
    <3> QED BY <1>2, <3>1 DEF Source, ReadByte, Seen
  <2> HIDE DEF moved, Copied
  <2>4. bytes' = [p \in Addresses |-> Written(frames, bytes, a, n, moved, p)]
    BY <1>1, <2>2, WroteIs
  <2>5. bytes' = [p \in Addresses |-> IF here(p) = {} THEN bytes[p]
                                      ELSE Copied(CHOOSE i \in here(p) : TRUE)]
    BY <1>4, <2>3, <2>4 DEF Written
  <2>6. Writes(a, n, Copied)
    BY <2>5 DEF Writes, Here
  <2> QED BY <1>1, <1>2, <2>2, <2>6
<1>6. ASSUME routine = "strncpy", how = "returned", Apart(a, b, n)
      PROVE  value = a /\ Writes(a, n, Padded)
  <2> DEFINE padded == PaddedBy(frames, bytes, b)
  <2>1. StrncpyEnds(frames, r, Ended)
    BY <1>6, CallEnds
  <2>2. n <= MaxBytes
    BY <1>1, <1>2, <1>6, <2>1, Numbers DEF StrncpyEnds
  <2>3. /\ Ended.a0 = r.a0 /\ Wrote(frames, bytes, bytes', a, n, padded)
    BY <1>1, <1>2, <1>6, <2>1, <2>2 DEF StrncpyEnds, SameArguments
  <2>4. \A i \in 0 .. n - 1 : padded[i] = Padded(i)
    <3> SUFFICES ASSUME NEW i \in 0 .. n - 1 PROVE padded[i] = Padded(i)
      OBVIOUS
    <3>1. i \in Nat /\ \A j \in 0 .. i : j \in Int
      OBVIOUS
    <3> QED BY <3>1 DEF PaddedBy, SeenBy, Seen
  <2> HIDE DEF padded, Padded
  <2>5. bytes' = [p \in Addresses |-> Written(frames, bytes, a, n, padded, p)]
    BY <1>1, <2>2, <2>3, WroteIs
  <2>6. bytes' = [p \in Addresses |-> IF here(p) = {} THEN bytes[p]
                                      ELSE Padded(CHOOSE i \in here(p) : TRUE)]
    BY <1>4, <2>4, <2>5 DEF Written
  <2>7. Writes(a, n, Padded)
    BY <2>6 DEF Writes, Here
  <2> QED BY <1>1, <1>2, <2>3, <2>7
<1>7. ASSUME routine \in Compares, how = "returned"
      PROVE  LET decided == Decided(a, b, n, routine = "strncmp")
             IN  /\ UNCHANGED bytes
                 /\ value = IF decided = {} THEN 0
                            ELSE Seen(Plus(a, Min(decided))) - Copied(Min(decided))
  <2> DEFINE string == routine = "strncmp"
             decided == Decided(a, b, n, string)
  <2>1. CompareEnds(frames, r, string, Ended)
    <3>1. CASE routine = "memcmp"
      <4>1. string = FALSE
        BY <3>1
      <4> HIDE DEF string
      <4> QED BY <3>1, <4>1, CallEnds
    <3>2. CASE routine = "strncmp"
      <4>1. string = TRUE
        BY <3>2
      <4> HIDE DEF string
      <4> QED BY <3>2, <4>1, CallEnds
    <3> QED BY <1>7, <3>1, <3>2 DEF Compares
  <2>2. decided = DecidedBy(frames, bytes, a, b, n, string)
    BY DEF Decided, DecidedBy, Seen, SeenBy
  <2> HIDE DEF decided, string
  <2>3. /\ Ended.memory = bytes
        /\ Ended.a0 = IF decided = {} THEN 0
                      ELSE SeenBy(frames, bytes, Plus(a, Min(decided)))
                             - SeenBy(frames, bytes, Plus(b, Min(decided)))
    BY <1>1, <1>2, <1>7, <2>1, <2>2 DEF CompareEnds
  <2> QED BY <1>1, <2>3 DEF Seen, SeenBy, decided, string
<1>8. ASSUME routine = "strlen", how = "returned"
      PROVE  /\ UNCHANGED bytes
             /\ value = Min({i \in Addresses : Seen(Plus(a, i)) = 0})
  <2>1. StrlenEnds(frames, r, Ended)
    BY <1>8, CallEnds
  <2>2. {i \in Addresses : Seen(Plus(a, i)) = 0}
          = {i \in Addresses : SeenBy(frames, bytes, Plus(a, i)) = 0}
    BY DEF Seen, SeenBy
  <2> QED BY <1>1, <1>2, <1>8, <2>1, <2>2 DEF StrlenEnds
<1> HIDE DEF r, here
<1>9. (routine = "strncmp" /\ how = "returned") =>
         Decided(a, b, n, routine = "strncmp" /\ how = "returned")
           = Decided(a, b, n, routine = "strncmp")
  BY DEF Decided
<1> QED BY <1>5, <1>6, <1>7, <1>8, <1>9 DEF IsExact, Compares

\* A routine that returns has done what the C function it replaces does
\* (fast_xv6_memmove and its like of src/cpu/xv6_accelerator.rs).
THEOREM RoutinesExact == RoutineSpec => RoutinesAreExact
<1>1. RoutineInv /\ [RoutineNext]_routineVars => [IsExact]_routineVars
  <2> SUFFICES ASSUME RoutineInv, RoutineNext PROVE IsExact
    OBVIOUS
  <2>1. CASE ACall
    BY <2>1, ExactCall
  <2>2. CASE \E a \in Addresses, byte \in Bytes : StoreByte(a, byte)
    BY <2>2, NoCallStep DEF StoreByte
  <2>3. CASE \E map \in Mappings : Remap(map)
    BY <2>3, NoCallStep DEF Remap
  <2> QED BY <2>1, <2>2, <2>3, StepIsCall
<1> QED BY <1>1, RoutineInvariant, PTL DEF RoutineSpec, RoutinesAreExact

\* The fill does what a loop over single bytes does.
LEMMA LoopCall ==
  ASSUME RoutineInv, ACall
  PROVE  IsTheLoop
<1> DEFINE a == lastCall'.args[1]
           b == lastCall'.args[2]
           byte == lastCall'.args[3]
           how == lastCall'.how
           routine == lastCall'.routine
           end == lastCall'.regs[1]
           r == Begun(bytes)
           Stored(i) == (IF routine = "fill" THEN byte ELSE a + i) % ByteValues
           value == [i \in Nat |-> byte % ByteValues]
<1>1. /\ a \in Int /\ b \in Int /\ byte \in Int
      /\ bytes' = Ended.memory /\ how = Ended.how /\ end = Ended.a0
      /\ frames \in Mappings /\ bytes \in [Addresses -> Bytes]
      /\ Ended \in RoutineStates
  BY CallEnds DEF RoutineInv
<1>2. r.memory = bytes /\ r.a0 = a /\ r.a1 = b /\ r.a2 = byte
  BY <1>1, BegunTyped
<1>3. SUFFICES ASSUME routine \in Fills, how # "declined"
               PROVE  /\ end > a
                      /\ how = "returned" <=> end = b
                      /\ Writes(a, end - a, Stored)
  BY DEF IsTheLoop
<1>4. CASE routine = "fill pointer"
  <2>1. FillEnds(frames, r, TRUE, Ended)
    BY <1>4, CallEnds
  <2> QED BY <1>1, <1>3, <2>1 DEF FillEnds
<1>5. CASE routine = "fill"
  <2>1. FillEnds(frames, r, FALSE, Ended)
    BY <1>5, CallEnds
  <2> HIDE DEF r, value
  <2>2. /\ end > a /\ end - a <= MaxBytes
        /\ how = "returned" <=> end = b
        /\ Wrote(frames, bytes, bytes', a, end - a, value)
    BY <1>1, <1>2, <1>3, <2>1 DEF FillEnds, value
  <2>3. end \in Int /\ end - a \in Int
    BY <1>1 DEF RoutineStates
  <2>4. bytes' = [p \in Addresses |-> Written(frames, bytes, a, end - a, value, p)]
    BY <1>1, <2>2, <2>3, WroteIs
  <2>5. \A i \in 0 .. end - a - 1 : value[i] = Stored(i)
    BY <1>5, <2>3 DEF value
  <2>6. \A p : Here(frames, a, end - a, p) # {} =>
          (CHOOSE i \in Here(frames, a, end - a, p) : TRUE) \in 0 .. end - a - 1
    <3> SUFFICES ASSUME NEW p, Here(frames, a, end - a, p) # {}
                 PROVE  (CHOOSE i \in Here(frames, a, end - a, p) : TRUE)
                          \in 0 .. end - a - 1
      OBVIOUS
    <3>1. (CHOOSE i \in Here(frames, a, end - a, p) : TRUE)
            \in Here(frames, a, end - a, p)
      OBVIOUS
    <3> QED BY <3>1 DEF Here
  <2> HIDE DEF Stored
  <2>7. bytes' = [p \in Addresses |->
                    IF Here(frames, a, end - a, p) = {} THEN bytes[p]
                    ELSE Stored(CHOOSE i \in Here(frames, a, end - a, p) : TRUE)]
    BY <2>4, <2>5, <2>6 DEF Written
  <2>8. Writes(a, end - a, Stored)
    BY <2>7 DEF Writes, Here
  <2> QED BY <2>2, <2>8
<1> QED BY <1>3, <1>4, <1>5 DEF Fills

\* The filling loop is where the guest's loop would be, and has stored what
\* that would have stored (try_accelerate_memset_loop of src/instruction.rs).
THEOREM FillsAreLoops == RoutineSpec => FillIsTheLoop
<1>1. RoutineInv /\ [RoutineNext]_routineVars => [IsTheLoop]_routineVars
  <2> SUFFICES ASSUME RoutineInv, RoutineNext PROVE IsTheLoop
    OBVIOUS
  <2>1. CASE ACall
    BY <2>1, LoopCall
  <2>2. CASE \E a \in Addresses, byte \in Bytes : StoreByte(a, byte)
    BY <2>2, NoCallStep DEF StoreByte
  <2>3. CASE \E map \in Mappings : Remap(map)
    BY <2>3, NoCallStep DEF Remap
  <2> QED BY <2>1, <2>2, <2>3, StepIsCall
<1> QED BY <1>1, RoutineInvariant, PTL DEF RoutineSpec, FillIsTheLoop

-----------------------------------------------------------------------------
(* A second call.                                                          *)

\* When everything is mapped, every address is, and what was mapped is where
\* it was.
LEMMA AllIsMapped ==
  ASSUME NEW map, MapsMore(map)
  PROVE  /\ \A address \in Addresses : Mapped(map, address)
         /\ \A address : Mapped(frames, address) =>
              Physical(map, address) = Physical(frames, address)
<1>1. ASSUME NEW address \in Addresses PROVE address \div PageBytes \in PageNumbers
  <2>1. PICK q \in Int, x \in 0 .. PageBytes - 1 :
          q = address \div PageBytes /\ address = PageBytes * q + x
    <3>1. address \in Int
      BY Numbers DEF Addresses
    <3>2. /\ address \div PageBytes \in Int /\ address % PageBytes \in 0 .. PageBytes - 1
          /\ address = PageBytes * (address \div PageBytes) + (address % PageBytes)
      BY <3>1, Numbers, DivMod
    <3> QED BY <3>2
  <2>2. PICK c \in Int : c = AddressCount \div PageBytes /\ AddressCount = PageBytes * c
    BY Numbers, DivMod
  <2>3. 0 <= address /\ address < AddressCount /\ address \in Int
    BY Numbers DEF Addresses
  <2>4. PICK u \in Int, v \in Int : u = PageBytes * q /\ v = PageBytes * c
    BY Numbers
  <2>5. PageBytes \in Nat \ {0}
    BY Numbers
  <2>6. q >= 0
    <3>1. CASE q < 0
      <4>1. -q \in Int /\ -q >= 1
        BY <3>1
      <4>2. PageBytes * (-q) >= PageBytes
        BY <2>5, <4>1, Product
      <4>3. PageBytes * (-q) = -(PageBytes * q)
        BY <2>5
      <4> QED BY <2>1, <2>3, <2>4, <2>5, <4>2, <4>3
    <3> QED BY <3>1
  <2>7. q < c
    <3>1. CASE q >= c
      <4>1. PICK d \in Nat : d = q - c
        BY <3>1
      <4>2. PageBytes * d \in Nat /\ PageBytes * d = PageBytes * q - PageBytes * c
        BY <2>5, <4>1
      <4> QED BY <2>1, <2>2, <2>3, <2>4, <2>5, <4>2
    <3> QED BY <3>1
  <2> QED BY <2>1, <2>2, <2>6, <2>7 DEF PageNumbers
<1>2. ASSUME NEW address, Mapped(frames, address)
      PROVE  Physical(map, address) = Physical(frames, address)
  BY <1>2 DEF MapsMore, Mapped, Physical
<1> QED BY <1>1, <1>2 DEF MapsMore, Mapped

\* Two memories that agree, but for the range, are the same once the range is
\* written with the same bytes.
LEMMA WroteAgain ==
  ASSUME NEW map, NEW a, NEW n, NEW before, NEW after, NEW value,
         NEW before2, NEW after2, NEW value2,
         Wrote(map, before, after, a, n, value),
         Wrote(map, before2, after2, a, n, value2),
         \A i \in 0 .. n - 1 : value[i] = value2[i],
         \A p \in Addresses :
           (\A i \in 0 .. n - 1 : Physical(map, Plus(a, i)) # p) => before[p] = before2[p]
  PROVE  after = after2
<1>1. ASSUME NEW p \in Addresses PROVE after[p] = after2[p]
  BY DEF Wrote
<1> QED BY <1>1 DEF Wrote

\* A call that faulted has left alone what it did not write, so the source.
LEMMA Untouched ==
  ASSUME frames \in Mappings, NEW map \in Mappings, MapsMore(map),
         NEW a \in Int, NEW b \in Int, NEW n \in Int, Apart(a, b, n),
         NEW k \in 0 .. n - 1, NEW before, NEW after, NEW value,
         Wrote(frames, before, after, a, k, value)
  PROVE  /\ \A p \in Addresses :
              (\A i \in 0 .. n - 1 : Physical(map, Plus(a, i)) # p) =>
                after[p] = before[p]
         /\ \A i \in 0 .. n - 1 :
              /\ Mapped(map, Plus(b, i))
              /\ after[Physical(map, Plus(b, i))] = before[Physical(map, Plus(b, i))]
<1>1. \A i \in 0 .. k - 1 :
        /\ i \in 0 .. n - 1
        /\ Physical(map, Plus(a, i)) = Physical(frames, Plus(a, i))
  BY AllIsMapped DEF Wrote, AllMapped
<1>2. \A p \in Addresses :
        (\A i \in 0 .. n - 1 : Physical(map, Plus(a, i)) # p) => after[p] = before[p]
  BY <1>1 DEF Wrote
<1>3. ASSUME NEW i \in 0 .. n - 1
      PROVE  /\ Mapped(map, Plus(b, i))
             /\ after[Physical(map, Plus(b, i))] = before[Physical(map, Plus(b, i))]
  <2>1. \A j \in 0 .. n - 1 : Mapped(map, Plus(a, j)) /\ Mapped(map, Plus(b, j))
    BY PlusTyped, AllIsMapped
  <2>2. \A j \in 0 .. n - 1 : Physical(map, Plus(a, j)) # Physical(map, Plus(b, i))
    BY <2>1, ApartPlaces
  <2>3. Physical(map, Plus(b, i)) \in Addresses
    BY <2>1, PlusTyped, PhysicalTyped
  <2> QED BY <1>2, <2>1, <2>2, <2>3
<1> QED BY <1>2, <1>3

LEMMA SameRecord ==
  ASSUME NEW e \in RoutineStates, NEW f \in RoutineStates, e.how = f.how,
         e.memory = f.memory, e.a0 = f.a0, e.a1 = f.a1, e.a2 = f.a2
  PROVE  e = f
BY DEF RoutineStates

LEMMA MemmoveAgain ==
  ASSUME RoutineInv, NEW map \in Mappings, MapsMore(map),
         NEW r \in RoutineStates, r.how = "running", r.memory = bytes,
         NEW s \in RoutineStates, s.how = "running", SameArguments(s, r),
         Apart(r.a0, r.a1, r.a2), ~Long(r.a2),
         NEW k \in 0 .. r.a2 - 1, NEW value,
         Wrote(frames, bytes, s.memory, r.a0, k, value)
  PROVE  Memmove(map, s) = Memmove(map, r)
<1> DEFINE n == r.a2
           e == Memmove(map, r)
           f == Memmove(map, s)
<1>1. /\ n \in Int /\ r.a0 \in Int /\ r.a1 \in Int /\ frames \in Mappings
      /\ s.a0 = r.a0 /\ s.a1 = r.a1 /\ s.a2 = n
  BY DEF RoutineStates, RoutineInv, SameArguments
<1>2. MemmoveEnds(map, r, e) /\ MemmoveEnds(map, s, f)
  BY MemmoveResult
<1> HIDE DEF e, f
<1>3. AllMapped(map, r.a0, n) /\ AllMapped(map, r.a1, n)
  <2>1. \A i \in 0 .. n - 1 : i \in Int
    OBVIOUS
  <2> QED BY <1>1, <2>1, PlusTyped, AllIsMapped DEF AllMapped
<1>4. /\ e \in RoutineStates /\ SameArguments(e, r) /\ e.how = "returned"
      /\ Wrote(map, bytes, e.memory, r.a0, n, Source(map, r))
  BY <1>2, <1>3 DEF MemmoveEnds
<1>5. /\ f \in RoutineStates /\ SameArguments(f, s) /\ f.how = "returned"
      /\ Wrote(map, s.memory, f.memory, r.a0, n, Source(map, s))
  BY <1>1, <1>2, <1>3 DEF MemmoveEnds
<1>6. /\ \A p \in Addresses :
           (\A i \in 0 .. n - 1 : Physical(map, Plus(r.a0, i)) # p) =>
             s.memory[p] = bytes[p]
      /\ \A i \in 0 .. n - 1 :
           s.memory[Physical(map, Plus(r.a1, i))] = bytes[Physical(map, Plus(r.a1, i))]
  BY <1>1, Untouched
<1>7. \A i \in 0 .. n - 1 : Source(map, s)[i] = Source(map, r)[i]
  <2> SUFFICES ASSUME NEW i \in 0 .. n - 1
               PROVE  Source(map, s)[i] = Source(map, r)[i]
    OBVIOUS
  <2>1. i \in Nat
    OBVIOUS
  <2> QED BY <1>1, <1>6, <2>1 DEF Source, ReadByte
<1>8. f.memory = e.memory
  BY <1>4, <1>5, <1>6, <1>7, WroteAgain
<1>9. f = e
  BY <1>4, <1>5, <1>8, SameRecord DEF SameArguments
<1> QED BY <1>9 DEF e, f

LEMMA StrncpyAgain ==
  ASSUME RoutineInv, NEW map \in Mappings, MapsMore(map),
         NEW r \in RoutineStates, r.how = "running", r.memory = bytes,
         NEW s \in RoutineStates, s.how = "running", SameArguments(s, r),
         Apart(r.a0, r.a1, r.a2), r.a2 <= MaxBytes,
         NEW k \in 0 .. r.a2 - 1, NEW value,
         Wrote(frames, bytes, s.memory, r.a0, k, value)
  PROVE  Strncpy(map, s) = Strncpy(map, r)
<1> DEFINE n == r.a2
           e == Strncpy(map, r)
           f == Strncpy(map, s)
           first == PaddedBy(map, bytes, r.a1)
           second == PaddedBy(map, s.memory, r.a1)
<1>1. /\ n \in Int /\ r.a0 \in Int /\ r.a1 \in Int /\ frames \in Mappings
      /\ s.a0 = r.a0 /\ s.a1 = r.a1 /\ s.a2 = n
  BY DEF RoutineStates, RoutineInv, SameArguments
<1>2. StrncpyEnds(map, r, e) /\ StrncpyEnds(map, s, f)
  BY StrncpyResult
<1> HIDE DEF e, f, first, second
<1>3. AllMapped(map, r.a0, n) /\ AllMapped(map, r.a1, n)
  <2>1. \A i \in 0 .. n - 1 : i \in Int
    OBVIOUS
  <2> QED BY <1>1, <2>1, PlusTyped, AllIsMapped DEF AllMapped
<1>4. /\ e \in RoutineStates /\ SameArguments(e, r) /\ e.how = "returned"
      /\ Wrote(map, bytes, e.memory, r.a0, n, first)
  BY <1>2, <1>3 DEF StrncpyEnds, first
<1>5. /\ f \in RoutineStates /\ SameArguments(f, s) /\ f.how = "returned"
      /\ Wrote(map, s.memory, f.memory, r.a0, n, second)
  BY <1>1, <1>2, <1>3 DEF StrncpyEnds, second
<1>6. /\ \A p \in Addresses :
           (\A i \in 0 .. n - 1 : Physical(map, Plus(r.a0, i)) # p) =>
             s.memory[p] = bytes[p]
      /\ \A i \in 0 .. n - 1 :
           s.memory[Physical(map, Plus(r.a1, i))] = bytes[Physical(map, Plus(r.a1, i))]
  BY <1>1, Untouched
<1>7. \A i \in 0 .. n - 1 : second[i] = first[i]
  <2> SUFFICES ASSUME NEW i \in 0 .. n - 1 PROVE second[i] = first[i]
    OBVIOUS
  <2>1. i \in Nat /\ i \in 0 .. i /\ \A j \in 0 .. i : j \in 0 .. n - 1
    BY <1>1
  <2>2. \A j \in 0 .. i : SeenBy(map, s.memory, Plus(r.a1, j))
                            = SeenBy(map, bytes, Plus(r.a1, j))
    BY <1>6, <2>1 DEF SeenBy
  <2> QED BY <2>1, <2>2 DEF PaddedBy, first, second
<1>8. f.memory = e.memory
  BY <1>4, <1>5, <1>6, <1>7, WroteAgain
<1>9. f = e
  BY <1>4, <1>5, <1>8, SameRecord DEF SameArguments
<1> QED BY <1>9 DEF e, f

\* A call that is declined or faults can be made again.
LEMMA RepeatCall ==
  ASSUME RoutineInv, ACall
  PROVE  CanBeRepeated
<1> DEFINE a == lastCall'.args[1]
           b == lastCall'.args[2]
           n == lastCall'.args[3]
           how == lastCall'.how
           routine == lastCall'.routine
           r == Begun(bytes)
           s == Begun(bytes')
<1>1. /\ a \in Int /\ b \in Int /\ n \in Int
      /\ lastCall'.args = <<r.a0, r.a1, r.a2>>
      /\ lastCall'.regs = <<Ended.a0, Ended.a1, Ended.a2>>
      /\ bytes' = Ended.memory /\ how = Ended.how
      /\ frames \in Mappings /\ bytes \in [Addresses -> Bytes]
      /\ Ended \in RoutineStates
      /\ routine \in Copies \cup Compares \cup Fills \cup {"strlen"}
  BY CallEnds DEF RoutineInv
<1>2. /\ r \in RoutineStates /\ r.how = "running"
      /\ r.memory = bytes /\ r.a0 = a /\ r.a1 = b /\ r.a2 = n
  BY <1>1, BegunTyped
<1>3. bytes' \in [Addresses -> Bytes]
  BY <1>1 DEF RoutineStates
<1>4. /\ s \in RoutineStates /\ s.how = "running"
      /\ s.memory = bytes' /\ SameArguments(s, r)
  BY <1>1, <1>2, <1>3, BegunTyped DEF SameArguments
<1> HIDE DEF r, s
<1>5. SUFFICES ASSUME how \in {"declined", "faulted"}
      PROVE  /\ SameArguments(Ended, r)
             /\ how = "declined" => bytes' = bytes
             /\ bytes' # bytes /\ Apart(a, b, n) =>
                  \A map \in Mappings :
                    MapsMore(map) => Run(routine, map, s) = Run(routine, map, r)
  <2>1. SUFFICES ASSUME how \in {"declined", "faulted"} PROVE CanBeRepeated
    BY DEF CanBeRepeated
  <2>2. lastCall'.regs = lastCall'.args
    BY <1>1, <1>5, <2>1 DEF SameArguments
  <2>3. \A mem : [how |-> "running", memory |-> mem, a0 |-> lastCall'.regs[1],
                     a1 |-> lastCall'.regs[2], a2 |-> lastCall'.regs[3]] = Begun(mem)
    BY <2>2 DEF Begun
  <2> QED BY <1>5, <2>1, <2>2, <2>3 DEF CanBeRepeated, r, s
<1>6. CASE routine = "memmove"
  <2>1. MemmoveEnds(frames, r, Ended)
    BY <1>6, CallEnds DEF r
  <2>2. SameArguments(Ended, r) /\ (how = "declined" => bytes' = bytes)
    BY <1>1, <1>2, <2>1 DEF MemmoveEnds
  <2>3. ASSUME bytes' # bytes, Apart(a, b, n), NEW map \in Mappings, MapsMore(map)
        PROVE  Run(routine, map, s) = Run(routine, map, r)
    <3>1. ~Long(n) /\ how = "faulted"
      BY <1>1, <1>2, <1>5, <2>1, <2>3 DEF MemmoveEnds
    <3>2. PICK k \in 0 .. n - 1 :
            Wrote(frames, bytes, bytes', a, k, Source(frames, r))
      BY <1>1, <1>2, <2>1, <2>3, <3>1 DEF MemmoveEnds
    <3>3. Memmove(map, s) = Memmove(map, r)
      BY <1>2, <1>4, <2>3, <3>1, <3>2, MemmoveAgain
    <3> QED BY <1>6, <3>3 DEF Run
  <2> QED BY <2>2, <2>3
<1>7. CASE routine = "strncpy"
  <2>1. StrncpyEnds(frames, r, Ended)
    BY <1>7, CallEnds DEF r
  <2>2. SameArguments(Ended, r) /\ (how = "declined" => bytes' = bytes)
    BY <1>1, <1>2, <2>1 DEF StrncpyEnds
  <2>3. ASSUME bytes' # bytes, Apart(a, b, n), NEW map \in Mappings, MapsMore(map)
        PROVE  Run(routine, map, s) = Run(routine, map, r)
    <3>1. how = "faulted"
      BY <1>5, <2>2, <2>3
    <3>2. n <= MaxBytes
      BY <1>1, <1>2, <2>1, <3>1, Numbers DEF StrncpyEnds
    <3>3. PICK k \in 0 .. n - 1 :
            Wrote(frames, bytes, bytes', a, k, PaddedBy(frames, bytes, b))
      BY <1>1, <1>2, <2>1, <2>3, <3>1, <3>2 DEF StrncpyEnds
    <3>4. Strncpy(map, s) = Strncpy(map, r)
      BY <1>2, <1>4, <2>3, <3>2, <3>3, StrncpyAgain
    <3> QED BY <1>7, <3>4 DEF Run
  <2> QED BY <2>2, <2>3
<1>8. CASE routine \in Compares \cup Fills \cup {"strlen"}
  <2>1. SameArguments(Ended, r) /\ bytes' = bytes
    <3>1. CASE routine = "memcmp"
      <4>1. CompareEnds(frames, r, FALSE, Ended)
        BY <3>1, CallEnds DEF r
      <4> QED BY <1>1, <1>2, <1>5, <4>1 DEF CompareEnds
    <3>2. CASE routine = "strncmp"
      <4>1. CompareEnds(frames, r, TRUE, Ended)
        BY <3>2, CallEnds DEF r
      <4> QED BY <1>1, <1>2, <1>5, <4>1 DEF CompareEnds
    <3>3. CASE routine = "strlen"
      <4>1. StrlenEnds(frames, r, Ended)
        BY <3>3, CallEnds DEF r
      <4> QED BY <1>1, <1>2, <1>5, <4>1 DEF StrlenEnds
    <3>4. CASE routine = "fill"
      <4>1. FillEnds(frames, r, FALSE, Ended)
        BY <3>4, CallEnds DEF r
      <4> QED BY <1>1, <1>2, <1>5, <4>1 DEF FillEnds
    <3>5. CASE routine = "fill pointer"
      <4>1. FillEnds(frames, r, TRUE, Ended)
        BY <3>5, CallEnds DEF r
      <4> QED BY <1>1, <1>2, <1>5, <4>1 DEF FillEnds
    <3> QED BY <1>8, <3>1, <3>2, <3>3, <3>4, <3>5 DEF Compares, Fills
  <2> QED BY <2>1
<1> QED BY <1>1, <1>6, <1>7, <1>8 DEF Copies

\* A call that declines has done nothing; one that faults, with nothing written
\* or with source and destination apart, can be repeated once its pages are
\* mapped (fast_xv6_strncpy of src/cpu/xv6_accelerator.rs, which writes before it
\* may fault, and its like). An overlapping memmove that has written is not
\* among these calls.
THEOREM CallsRepeat == RoutineSpec => CallsCanBeRepeated
<1>1. RoutineInv /\ [RoutineNext]_routineVars => [CanBeRepeated]_routineVars
  <2> SUFFICES ASSUME RoutineInv, RoutineNext PROVE CanBeRepeated
    OBVIOUS
  <2>1. CASE ACall
    BY <2>1, RepeatCall
  <2>2. CASE lastCall' = NoCall
    <3>1. lastCall'.how = "returned"
      BY <2>2 DEF NoCall
    <3> QED BY <3>1 DEF CanBeRepeated
  <2> QED BY <2>1, <2>2, StepIsCall DEF StoreByte, Remap
<1> QED BY <1>1, RoutineInvariant, PTL DEF RoutineSpec, CallsCanBeRepeated
=============================================================================

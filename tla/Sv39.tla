--------------------------------- MODULE Sv39 ---------------------------------
(***************************************************************************)
(* Address translation (src/cpu.rs, src/paging.rs) behind physical memory  *)
(* protection: the privilege an access is made with, the page walk, its    *)
(* permission checks, and its updates of accessed and dirty bits, which    *)
(* are writes to memory that a mere load may make.                         *)
(*                                                                         *)
(* Page tables are all that memory holds. The number of levels and the     *)
(* sizes of tables and pages are parameters; addresses are numbers, so     *)
(* that indices, offsets and superpages are arithmetic. An environment is  *)
(* what mstatus and the hart say about an access.                          *)
(***************************************************************************)
EXTENDS Pmp, Sequences

CONSTANTS
  RootLevel,        \* SV39_ROOT_LEVEL
  TableSize,        \* entries of a page table; a page has 8 bytes for each
  UpperSize,        \* values of the address bits above the translated ones
  Dram,             \* the frames where memory is
  Frames,           \* all frames that entries point to
  PmpSettings,      \* the settings in which translations are looked at
  Tables,           \* what the kernel puts into memory
  Environments,     \* [privilege, mprv, mpp, sum, mxr]
  VirtualAddresses,
  Sizes             \* of loads and stores

ASSUME Sv39Assumption ==
  /\ {RootLevel, TableSize, UpperSize} \subseteq Nat
  /\ TableSize > 1 /\ UpperSize > 1
  /\ Dram \subseteq Frames /\ Frames \subseteq Nat

PteFlags == {"V", "R", "W", "X", "U", "A", "D"}
Ptes == [flags : SUBSET PteFlags, ppn : Frames, reserved : BOOLEAN]
Memories == [Dram -> [0 .. TableSize - 1 -> Ptes]]
Privileges == {"machine", "supervisor", "user"}
EnvironmentRecords ==
  [privilege : Privileges, mprv : BOOLEAN, mpp : Privileges, sum : BOOLEAN,
   mxr : BOOLEAN]

ASSUME InputAssumption ==
  /\ Tables \subseteq Memories
  /\ Environments \subseteq EnvironmentRecords
  /\ VirtualAddresses \subseteq Nat
  /\ Sizes \subseteq Nat \ {0}

VARIABLES
  memory,           \* frame -> index -> entry
  satp              \* [mode, root]

memoryVars == <<memory, satp>>
allVars == <<vars, memoryVars>>

PageSize == 8 * TableSize
None == <<>>

-----------------------------------------------------------------------------
(* Entries and addresses.                                                  *)

\* The frames that an entry of a level maps.
FramesAt[level \in 0 .. RootLevel + 1] ==
  IF level = 0 THEN 1 ELSE TableSize * FramesAt[level - 1]

VpnIndex(level, va) == (va \div (PageSize * FramesAt[level])) % TableSize

\* The bits above the translated ones repeat the highest of these.
Canonical(va) ==
  LET high == PageSize * FramesAt[RootLevel + 1]
  IN  va \div high =
        IF VpnIndex(RootLevel, va) < TableSize \div 2 THEN 0 ELSE UpperSize - 1

EntryBytes(at) ==
  at[1] * PageSize + 8 * at[2] .. at[1] * PageSize + 8 * at[2] + 7

Malformed(pte) ==
  \/ "V" \notin pte.flags
  \/ "W" \in pte.flags /\ "R" \notin pte.flags
  \/ pte.reserved

IsLeaf(pte) == pte.flags \cap {"R", "X"} # {}

\* Mutant: a supervisor page is anybody's.
BugUserUnchecked(env, access, pte) ==
  /\ "U" \in pte.flags =>
       env.privilege = "user" \/ (env.sum /\ access # "fetch")
  /\ CASE access = "fetch" -> "X" \in pte.flags
       [] access = "load"  -> "R" \in pte.flags \/ (env.mxr /\ "X" \in pte.flags)
       [] access = "store" -> "W" \in pte.flags

\* privilege_allowed and allowed; env.privilege is the effective one.
Permits(env, access, pte) ==
  /\ IF env.privilege = "user" THEN "U" \in pte.flags
     ELSE "U" \in pte.flags => env.sum /\ access # "fetch"
  /\ CASE access = "fetch" -> "X" \in pte.flags
       [] access = "load"  -> "R" \in pte.flags \/ (env.mxr /\ "X" \in pte.flags)
       [] access = "store" -> "W" \in pte.flags

\* effective_privilege: MPRV lends machine code the privilege in MPP, but not
\* for fetching.
Effective(env, access) ==
  IF env.privilege = "machine" /\ access # "fetch" /\ env.mprv
  THEN [env EXCEPT !.privilege = env.mpp] ELSE env

\* The privilege that physical memory protection knows.
PmpPrivilege(env) == IF env.privilege = "machine" THEN "machine" ELSE "lower"

-----------------------------------------------------------------------------
(* The walk. An access is a record [env, access, va, size]. Its translation *)
(* has an outcome, "ok" or the kind of its fault, and leaves memory behind.  *)

Fault(kind, mem) == [outcome |-> kind, physical |-> -1, memory |-> mem]

\* check_physical_access.
Physical(mem, in, addr) ==
  IF CheckPmp(addr .. addr + in.size - 1, PmpPrivilege(in.env), in.access)
  THEN [outcome |-> "ok", physical |-> addr, memory |-> mem]
  ELSE Fault("access", mem)

\* Mutant: an access replaces the bits of the one before.
BugReplacesBits(mem, at, access) ==
  [mem EXCEPT ![at[1]][at[2]].flags =
     (@ \ {"A", "D"}) \cup (IF access = "store" THEN {"D"} ELSE {"A"})]

\* The entry with the bits that an access sets.
Updated(mem, at, access) ==
  [mem EXCEPT ![at[1]][at[2]].flags =
     @ \cup (IF access = "store" THEN {"A", "D"} ELSE {"A"})]

\* The walk has come to a leaf.
AtLeaf(mem, at, level, in) ==
  LET pte      == mem[at[1]][at[2]]
      span     == PageSize * FramesAt[level]
      physical == pte.ppn * PageSize + (in.va % span)
      found    == Physical(mem, in, physical)
      mem2     == Updated(mem, at, in.access)
  IN  IF ~Permits(in.env, in.access, pte) \/ pte.ppn % FramesAt[level] # 0
      THEN Fault("page", mem)
      ELSE IF found.outcome # "ok" \/ mem2 = mem THEN found
      ELSE IF ~CheckPmp(EntryBytes(at), "lower", "store")
      THEN Fault("access", mem)
      ELSE [found EXCEPT !.memory = mem2]

\* One turn of the loop, for the level and the table that the walk has come to;
\* below[table] is what it finds if it goes on to a table of the next level.
Visit(mem, in, level, table, below) ==
  LET at  == <<table, VpnIndex(level, in.va)>>
      pte == mem[at[1]][at[2]]
  IN  IF \/ ~CheckPmp(EntryBytes(at), "lower", "load")
         \/ table \notin Dram
      THEN Fault("access", mem)
      ELSE IF Malformed(pte) THEN Fault("page", mem)
      ELSE IF IsLeaf(pte) THEN AtLeaf(mem, at, level, in)
      ELSE IF level = 0 \/ pte.flags \cap {"U", "A", "D"} # {}
      THEN Fault("page", mem)
      ELSE below[pte.ppn]

\* The loop over the levels.
Walk(mem, in) ==
  LET walk[level \in 0 .. RootLevel] ==
        [table \in Frames |-> Visit(mem, in, level, table, walk[level - 1])]
  IN  walk[RootLevel][satp.root]

\* translate_sized.
Translate(mem, in) ==
  LET env       == Effective(in.env, in.access)
      effective == [in EXCEPT !.env = env]
  IN  IF env.privilege = "machine" \/ satp.mode = "bare"
      THEN Physical(mem, effective, in.va)
      ELSE IF ~Canonical(in.va) THEN Fault("page", mem)
      ELSE Walk(mem, effective)

-----------------------------------------------------------------------------
(* Actions.                                                                *)

\* execute_load and execute_store; misaligned addresses trap before.
LoadOrStore(in) ==
  /\ in.access # "fetch"
  /\ memory' = Translate(memory, in).memory
  /\ UNCHANGED <<vars, satp>>

\* A fetch of half an instruction.
Half(env, pc) == [env |-> env, access |-> "fetch", va |-> pc, size |-> 2]

\* fetch: an instruction is fetched by halves. The second is fetched if the
\* first was and says so, from another page perhaps; when it faults, what the
\* first has set stays.
Fetch(env, pc, long) ==
  LET low  == Translate(memory, Half(env, pc))
      high == Translate(low.memory, Half(env, pc + 2))
  IN  /\ pc % 2 = 0
      /\ memory' = IF low.outcome = "ok" /\ long THEN high.memory
                   ELSE low.memory
      /\ UNCHANGED <<vars, satp>>

Inputs == {in \in [env : Environments, access : Kinds, va : VirtualAddresses,
                   size : Sizes] : in.va % in.size = 0}

\* The kernel fills its tables and turns translation on. A bound: once, with
\* the registers of memory protection in one of a few settings.
Install(tables) ==
  /\ memory = None
  /\ <<pmpcfg, pmpaddr>> \in PmpSettings
  /\ memory' = tables
  /\ UNCHANGED <<vars, satp>>

\* A write of satp; other modes than these two are ignored.
WriteSatp(value) ==
  /\ memory # None
  /\ satp' = value
  /\ UNCHANGED <<vars, memory>>

Bare == [mode |-> "bare", root |-> 0]

InitMemory == Init /\ memory = None /\ satp = Bare

\* A bound: memory protection is configured before there are tables.
NextMemory ==
  \/ memory = None /\ Next /\ UNCHANGED memoryVars
  \/ \E tables \in Tables : Install(tables)
  \/ \E root \in Dram : WriteSatp([mode |-> "sv39", root |-> root])
  \/ WriteSatp(Bare)
  \/ /\ memory # None
     /\ \/ \E in \in Inputs : LoadOrStore(in)
        \/ \E env \in Environments, pc \in VirtualAddresses, long \in BOOLEAN :
             Fetch(env, pc, long)

SpecMemory == InitMemory /\ [][NextMemory]_allVars

-----------------------------------------------------------------------------
(* Properties.                                                             *)

\* Setting accessed and dirty bits for one access does not change how any
\* other access is translated, nor its fault, and none of them has to be made
\* twice: software may ignore the bits until it reads them. Nothing else of an
\* entry ever changes, in memory that tables and data may share.
UpdatesAreInvisible ==
  [][memory # None /\ memory' # memory =>
       /\ \A in \in Inputs :
            LET before == Translate(memory, in)
                after  == Translate(memory', in)
            IN  /\ after.outcome = before.outcome
                /\ after.physical = before.physical
       /\ \A f \in Dram, i \in 0 .. TableSize - 1 :
            LET old == memory[f][i]
                new == memory'[f][i]
            IN  /\ [new EXCEPT !.flags = {}] = [old EXCEPT !.flags = {}]
                /\ old.flags \subseteq new.flags
                /\ new.flags \subseteq old.flags \cup {"A", "D"}]_allVars

\* Protection in the architecture's words: the first region that has any byte
\* of the access must have them all and give the permission. A region is a
\* range of words, one word, or the words that agree with its address above
\* the lowest zero of it.
Covers(i, b) ==
  LET word == b \div 4
  IN  CASE pmpcfg[i].mode = "off" -> FALSE
        [] pmpcfg[i].mode = "tor" ->
             word < pmpaddr[i] /\ (i = 0 \/ word >= pmpaddr[i - 1])
        [] pmpcfg[i].mode = "na4" -> word = pmpaddr[i]
        [] pmpcfg[i].mode = "napot" ->
             \A n \in PmpAddresses :
               (pmpaddr[i] + 1) % (2 * TwoTo[n]) = TwoTo[n]
                 => word \div (2 * TwoTo[n]) = pmpaddr[i] \div (2 * TwoTo[n])

Protection(bytes, access) ==
  \E i \in Entries :
    /\ access \in pmpcfg[i].perms
    /\ \A b \in bytes : Covers(i, b)
    /\ \A j \in Entries : j < i => \A b \in bytes : ~Covers(j, b)

\* The chain of entries that maps an access in the sense of the architecture:
\* from the root, pointers lead to a leaf that permits the access and is aligned
\* to its size; protection lets the walk read the entries and set the bits, and
\* lets the access reach all its bytes.
Target(in, leaf, level) ==
  leaf.ppn * PageSize + (in.va % (PageSize * FramesAt[level]))

Wanted(in) == IF in.access = "store" THEN {"A", "D"} ELSE {"A"}

Maps(in, env, path, level) ==
  LET At(l)  == <<path[l], VpnIndex(l, in.va)>>
      Pte(l) == memory[path[l]][VpnIndex(l, in.va)]
      leaf   == Pte(level)
      target == Target(in, leaf, level)
  IN  /\ path[RootLevel] = satp.root
      /\ \A l \in level .. RootLevel :
           /\ "V" \in Pte(l).flags /\ ~Pte(l).reserved
      /\ \A l \in level + 1 .. RootLevel :
           Pte(l).flags = {"V"} /\ Pte(l).ppn = path[l - 1]
      /\ leaf.flags \cap {"R", "W", "X"} \in
           {{"R"}, {"X"}, {"R", "W"}, {"R", "X"}, {"R", "W", "X"}}
      /\ leaf.ppn % FramesAt[level] = 0
      /\ CASE in.access = "fetch" -> "X" \in leaf.flags
           [] in.access = "load"  ->
                "R" \in leaf.flags \/ ("X" \in leaf.flags /\ env.mxr)
           [] in.access = "store" -> "W" \in leaf.flags
      /\ CASE env.privilege = "user" -> "U" \in leaf.flags
           [] env.privilege = "supervisor" ->
                "U" \notin leaf.flags \/ (env.sum /\ in.access # "fetch")
      /\ \A l \in level .. RootLevel : Protection(EntryBytes(At(l)), "load")
      /\ Protection(target .. target + in.size - 1, in.access)
      /\ \/ Wanted(in) \subseteq leaf.flags
         \/ Protection(EntryBytes(At(level)), "store")

\* An access that is translated succeeds exactly if it is mapped. It then
\* reaches the byte of the page, or superpage, at its offset, and its bits are
\* set; when it faults, nothing is.
TranslationIsArchitectural ==
  memory # None /\ satp.mode = "sv39" =>
    \A in \in {i \in Inputs : Effective(i.env, i.access).privilege # "machine"} :
      LET env   == Effective(in.env, in.access)
          done  == Translate(memory, in)
          chains(level) == {path \in [level .. RootLevel -> Dram] :
                              Canonical(in.va) /\ Maps(in, env, path, level)}
      IN  IF done.outcome # "ok"
          THEN /\ done.memory = memory
               /\ \A level \in 0 .. RootLevel : chains(level) = {}
          ELSE \E level \in 0 .. RootLevel : \E path \in chains(level) :
                 LET i == VpnIndex(level, in.va)
                 IN  /\ done.physical = Target(in, memory[path[level]][i], level)
                     /\ Wanted(in) \subseteq done.memory[path[level]][i].flags
=============================================================================

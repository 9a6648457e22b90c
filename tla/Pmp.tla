-------------------------------- MODULE Pmp --------------------------------
(***************************************************************************)
(* Physical memory protection: the configuration and address registers     *)
(* with their locks (src/csr.rs) and the check of an access against them   *)
(* (src/cpu.rs). Entries are numbered from 0, the first that matches any   *)
(* byte of an access decides.                                              *)
(*                                                                         *)
(* An access is the set of its bytes, a region likewise; the code compares *)
(* their ends. An access that would wrap around the address space, which   *)
(* the code refuses, is not a set of bytes.                                *)
(***************************************************************************)
EXTENDS Integers

CONSTANTS
  EntryCount,       \* PMP_ENTRIES
  PerRegister,      \* PMP_CONFIGS_PER_CSR: entries per configuration register
  PmpAddrMask,      \* PMPADDR_MASK, one less than a power of two
  ConfigBytes,      \* the configurations that software writes
  WrittenAddresses, \* the addresses that software writes, masked
  Accesses          \* the accesses whose verdicts the properties look at

ASSUME PmpAssumption ==
  /\ EntryCount \in Nat \ {0}
  /\ PerRegister \in Nat \ {0}
  /\ PmpAddrMask \in Nat

Kinds == {"load", "store", "fetch"}
Modes == {"off", "tor", "na4", "napot"}
PmpConfigs == [perms : SUBSET Kinds, mode : Modes, locked : BOOLEAN]

ASSUME ConfigAssumption ==
  ConfigBytes \subseteq PmpConfigs /\ WrittenAddresses \subseteq 0 .. PmpAddrMask

VARIABLES
  pmpcfg,           \* entry -> configuration
  pmpaddr           \* entry -> address, in words of four bytes

vars == <<pmpcfg, pmpaddr>>

Entries == 0 .. EntryCount - 1
Registers == {i \div PerRegister : i \in Entries}
EntriesOf(register) == {i \in Entries : i \div PerRegister = register}
PmpAddresses == 0 .. PmpAddrMask

-----------------------------------------------------------------------------
(* The check.                                                              *)

\* The powers of two.
TwoTo[n \in PmpAddresses] == IF n = 0 THEN 1 ELSE 2 * TwoTo[n - 1]

\* The bytes of a NAPOT entry: the trailing ones of the address encode the
\* size, its other bits the start.
NapotRegion ==
  [address \in PmpAddresses |->
    LET ones  == CHOOSE n \in PmpAddresses :
                   address % (2 * TwoTo[n]) = TwoTo[n] - 1
        start == (address - (TwoTo[ones] - 1)) * 4
    IN  start .. start + 8 * TwoTo[ones] - 1]

\* pmp_range: the bytes of an entry, given the address of the one before.
PmpRange(previous, address, mode) ==
  CASE mode = "off"   -> {}
    [] mode = "tor"   -> previous * 4 .. address * 4 - 1
    [] mode = "na4"   -> address * 4 .. address * 4 + 3
    [] mode = "napot" -> NapotRegion[address]

Previous(i) == IF i = 0 THEN 0 ELSE pmpaddr[i - 1]
Region(i) == PmpRange(Previous(i), pmpaddr[i], pmpcfg[i].mode)

\* The entry that decides about an access, if there is one.
Decides(i, bytes) ==
  /\ Region(i) \cap bytes # {}
  /\ \A j \in Entries : j < i => Region(j) \cap bytes = {}

\* Mutant: the decisive entry need not match every byte.
BugPartialMatch(i, bytes, privilege, kind) ==
  \/ privilege = "machine" /\ ~pmpcfg[i].locked
  \/ kind \in pmpcfg[i].perms

\* What the decisive entry says: it must match every byte, and binds machine
\* mode only when locked.
Grants(i, bytes, privilege, kind) ==
  /\ bytes \subseteq Region(i)
  /\ \/ privilege = "machine" /\ ~pmpcfg[i].locked
     \/ kind \in pmpcfg[i].perms

\* check_pmp.
CheckPmp(bytes, privilege, kind) ==
  \/ \E i \in Entries : /\ Decides(i, bytes)
                        /\ Grants(i, bytes, privilege, kind)
  \/ /\ \A i \in Entries : Region(i) \cap bytes = {}
     /\ privilege = "machine"

-----------------------------------------------------------------------------
(* The registers.                                                          *)

\* sanitize_pmp_config: write permission needs read permission.
SanitizePmpConfig(config) ==
  IF "load" \in config.perms THEN config
  ELSE [config EXCEPT !.perms = @ \ {"store"}]

\* Software writes a configuration register: all its entries that are not
\* locked.
StorePmpcfg(register, values) ==
  /\ pmpcfg' = [i \in Entries |->
                  IF i \in EntriesOf(register) /\ ~pmpcfg[i].locked
                  THEN SanitizePmpConfig(values[i]) ELSE pmpcfg[i]]
  /\ UNCHANGED pmpaddr

LockedTorSuccessor(i) ==
  i + 1 \in Entries /\ pmpcfg[i + 1].locked /\ pmpcfg[i + 1].mode = "tor"

\* Mutant: the address below a locked top-of-range entry can be changed.
BugSuccessorIgnored(i, value) ==
  /\ ~pmpcfg[i].locked
  /\ pmpaddr' = [pmpaddr EXCEPT ![i] = value]
  /\ UNCHANGED pmpcfg

\* Software writes an address register; otherwise the write is ignored.
StorePmpaddr(i, value) ==
  /\ ~pmpcfg[i].locked /\ ~LockedTorSuccessor(i)
  /\ pmpaddr' = [pmpaddr EXCEPT ![i] = value]
  /\ UNCHANGED pmpcfg

Unused == [perms |-> {}, mode |-> "off", locked |-> FALSE]

\* A reset of the hart installs a new CSR file.
Reset ==
  /\ pmpcfg' = [i \in Entries |-> Unused]
  /\ pmpaddr' = [i \in Entries |-> 0]

Init ==
  /\ pmpcfg = [i \in Entries |-> Unused]
  /\ pmpaddr = [i \in Entries |-> 0]

Next ==
  \/ \E register \in Registers :
       \E values \in [EntriesOf(register) -> ConfigBytes] :
         StorePmpcfg(register, values)
  \/ \E i \in Entries, value \in WrittenAddresses : StorePmpaddr(i, value)
  \/ Reset

Spec == Init /\ [][Next]_vars

-----------------------------------------------------------------------------
(* Properties.                                                             *)

\* Every register has its type, and no entry lets memory be written that it
\* does not let be read.
TypeOK ==
  /\ pmpcfg \in [Entries -> PmpConfigs]
  /\ pmpaddr \in [Entries -> PmpAddresses]
  /\ \A i \in Entries :
       "store" \in pmpcfg[i].perms => "load" \in pmpcfg[i].perms

\* A locked entry keeps its configuration and its bytes until a reset,
\* whatever is written to any register; its bytes may depend on the address
\* register of another entry.
LockedStays(i) ==
  pmpcfg[i].locked => pmpcfg[i]' = pmpcfg[i] /\ Region(i)' = Region(i)
LockedRegionsAreFrozen == [][Reset \/ \A i \in Entries : LockedStays(i)]_vars

\* A verdict that rests on locked entries only is final until a reset: no
\* write to any register opens or closes the access.
Final(bytes) ==
  \E i \in Entries :
    Decides(i, bytes) /\ \A j \in Entries : j <= i => pmpcfg[j].locked
VerdictStays(bytes) ==
  Final(bytes) =>
    \A privilege \in {"machine", "lower"}, kind \in Kinds :
      CheckPmp(bytes, privilege, kind)' = CheckPmp(bytes, privilege, kind)
LockedVerdictsAreFrozen ==
  [][Reset \/ \A bytes \in Accesses : VerdictStays(bytes)]_vars

\* Checking an access at once is never more permissive than checking each of
\* its bytes on its own: no access reaches into bytes it may not touch.
AccessIsBytewiseSound ==
  \A bytes \in Accesses, privilege \in {"machine", "lower"}, kind \in Kinds :
    CheckPmp(bytes, privilege, kind) =>
      \A b \in bytes : CheckPmp({b}, privilege, kind)
=============================================================================

----------------------------- MODULE Sv39Proofs -----------------------------
(***************************************************************************)
(* Proofs about physical memory protection and address translation, for    *)
(* any number of entries, registers and levels, any sizes of tables and    *)
(* pages, and whatever software puts into registers and tables.            *)
(***************************************************************************)
EXTENDS Sv39, IntegerLemmas

-----------------------------------------------------------------------------
(* Protection. The arithmetic of regions is needed only where a locked     *)
(* top-of-range entry takes its start from its predecessor; otherwise a    *)
(* region is a set.                                                        *)

\* Sanitising yields a configuration that does not write without reading.
LEMMA SanitizedConfig ==
  ASSUME NEW config \in PmpConfigs
  PROVE  /\ SanitizePmpConfig(config) \in PmpConfigs
         /\ "store" \in SanitizePmpConfig(config).perms
              => "load" \in SanitizePmpConfig(config).perms
BY DEF SanitizePmpConfig, PmpConfigs

LEMMA TypeStep ==
  ASSUME TypeOK, [Next]_vars PROVE TypeOK'
<1>1. ASSUME NEW register \in Registers,
             NEW values \in [EntriesOf(register) -> ConfigBytes],
             StorePmpcfg(register, values)
      PROVE  TypeOK'
  <2>1. ASSUME NEW i \in Entries
        PROVE  /\ pmpcfg'[i] \in PmpConfigs
               /\ "store" \in pmpcfg'[i].perms => "load" \in pmpcfg'[i].perms
    <3>1. CASE i \in EntriesOf(register) /\ ~pmpcfg[i].locked
      <4>1. values[i] \in PmpConfigs
        BY <3>1, ConfigAssumption
      <4>2. pmpcfg'[i] = SanitizePmpConfig(values[i])
        BY <1>1, <3>1 DEF StorePmpcfg
      <4> QED BY <4>1, <4>2, SanitizedConfig
    <3>2. CASE ~(i \in EntriesOf(register) /\ ~pmpcfg[i].locked)
      BY <1>1, <3>2 DEF StorePmpcfg, TypeOK
    <3> QED BY <3>1, <3>2
  <2>2. pmpcfg' \in [Entries -> PmpConfigs]
    BY <1>1, <2>1 DEF StorePmpcfg
  <2>3. pmpaddr' = pmpaddr
    BY <1>1 DEF StorePmpcfg
  <2> QED BY <2>1, <2>2, <2>3 DEF TypeOK
<1>2. ASSUME NEW i \in Entries, NEW value \in WrittenAddresses,
             StorePmpaddr(i, value)
      PROVE  TypeOK'
  BY <1>2, ConfigAssumption DEF StorePmpaddr, TypeOK, PmpAddresses
<1>3. CASE Reset
  BY <1>3, PmpAssumption
  DEF Reset, TypeOK, Unused, PmpConfigs, Modes, PmpAddresses
<1>4. CASE UNCHANGED vars
  BY <1>4 DEF vars, TypeOK
<1> QED BY <1>1, <1>2, <1>3, <1>4 DEF Next

\* The registers keep their types, and never allow writing without reading.
THEOREM TypeCorrect == Spec => []TypeOK
<1>1. Init => TypeOK
  BY PmpAssumption DEF Init, TypeOK, Unused, PmpConfigs, Modes, PmpAddresses
<1>2. TypeOK /\ [Next]_vars => TypeOK'
  BY TypeStep
<1> QED BY <1>1, <1>2, PTL DEF Spec

\* No step but a reset changes what a locked entry says or covers.
LEMMA LockedStep ==
  ASSUME TypeOK, [Next]_vars, NEW i \in Entries, pmpcfg[i].locked
  PROVE  Reset \/ (pmpcfg'[i] = pmpcfg[i] /\ Region(i)' = Region(i))
<1>1. ASSUME NEW register, NEW values, StorePmpcfg(register, values)
      PROVE  pmpcfg'[i] = pmpcfg[i] /\ Region(i)' = Region(i)
  <2>1. pmpcfg'[i] = pmpcfg[i] /\ pmpaddr' = pmpaddr
    BY <1>1 DEF StorePmpcfg
  <2> QED BY <2>1 DEF Region, Previous
<1>2. ASSUME NEW k \in Entries, NEW value, StorePmpaddr(k, value)
      PROVE  pmpcfg'[i] = pmpcfg[i] /\ Region(i)' = Region(i)
  <2>1. /\ ~pmpcfg[k].locked /\ ~LockedTorSuccessor(k) /\ pmpcfg' = pmpcfg
        /\ pmpaddr' = [pmpaddr EXCEPT ![k] = value]
    BY <1>2 DEF StorePmpaddr
  <2>2. pmpaddr'[i] = pmpaddr[i]
    BY <2>1 DEF TypeOK
  <2>3. CASE pmpcfg[i].mode = "tor"
    <3>1. i # k + 1
      BY <2>1, <2>3 DEF LockedTorSuccessor
    <3>2. i # 0 => i - 1 # k /\ i - 1 \in Entries
      BY <3>1, PmpAssumption DEF Entries
    <3>3. i # 0 => pmpaddr'[i - 1] = pmpaddr[i - 1]
      BY <2>1, <3>2 DEF TypeOK
    <3> QED BY <2>1, <2>2, <3>3 DEF Region, Previous
  <2>4. CASE pmpcfg[i].mode # "tor"
    <3>1. pmpcfg[i].mode \in {"off", "na4", "napot"}
      BY <2>4 DEF TypeOK, PmpConfigs, Modes
    <3>2. \A p, q : PmpRange(p, pmpaddr[i], pmpcfg[i].mode)
                      = PmpRange(q, pmpaddr[i], pmpcfg[i].mode)
      BY <3>1 DEF PmpRange
    <3> QED BY <2>1, <2>2, <3>2 DEF Region
  <2> QED BY <2>1, <2>3, <2>4
<1>3. CASE UNCHANGED vars
  BY <1>3 DEF vars, Region, Previous
<1> QED BY <1>1, <1>2, <1>3 DEF Next

\* A locked entry keeps its configuration and its bytes until a reset.
THEOREM LockedRegionsStay == Spec => LockedRegionsAreFrozen
<1>1. TypeOK /\ [Next]_vars => Reset \/ \A i \in Entries : LockedStays(i)
  BY LockedStep DEF LockedStays
<1> QED BY <1>1, TypeCorrect, PTL DEF Spec, LockedRegionsAreFrozen

\* If an entry decides about an access, its grant is the verdict.
LEMMA VerdictOfDecisive ==
  ASSUME NEW i \in Entries, NEW bytes, Decides(i, bytes),
         NEW privilege, NEW kind
  PROVE  CheckPmp(bytes, privilege, kind) <=> Grants(i, bytes, privilege, kind)
<1>1. ASSUME NEW j \in Entries, Decides(j, bytes) PROVE j = i
  <2>1. i \in Int /\ j \in Int
    BY DEF Entries
  <2>2. ~(j < i) /\ ~(i < j)
    BY <1>1 DEF Decides
  <2> QED BY <2>1, <2>2
<1>2. ~ \A j \in Entries : Region(j) \cap bytes = {}
  BY DEF Decides
<1> QED BY <1>1, <1>2 DEF CheckPmp

\* A verdict that rests on locked entries only is final until a reset.
THEOREM LockedVerdictsStay == Spec => LockedVerdictsAreFrozen
<1>1. TypeOK /\ [Next]_vars =>
        Reset \/ \A bytes \in Accesses : VerdictStays(bytes)
  <2> SUFFICES ASSUME TypeOK, [Next]_vars, ~Reset, NEW bytes, Final(bytes),
                      NEW privilege, NEW kind
               PROVE  CheckPmp(bytes, privilege, kind)'
                        = CheckPmp(bytes, privilege, kind)
    BY DEF VerdictStays
  <2>1. PICK i \in Entries :
          Decides(i, bytes) /\ \A j \in Entries : j <= i => pmpcfg[j].locked
    BY DEF Final
  <2>2. \A j \in Entries :
          j <= i => pmpcfg'[j] = pmpcfg[j] /\ Region(j)' = Region(j)
    BY <2>1, LockedStep
  <2>3. i \in Int /\ \A j \in Entries : j \in Int
    BY DEF Entries
  <2>4. Decides(i, bytes)'
    BY <2>1, <2>2, <2>3 DEF Decides
  <2>5. Grants(i, bytes, privilege, kind)'
          <=> Grants(i, bytes, privilege, kind)
    BY <2>2, <2>3 DEF Grants
  <2>6. CheckPmp(bytes, privilege, kind)
          <=> Grants(i, bytes, privilege, kind)
    BY <2>1, VerdictOfDecisive
  <2>7. CheckPmp(bytes, privilege, kind)'
          <=> Grants(i, bytes, privilege, kind)'
    BY <2>4, VerdictOfDecisive, PTL
  <2> QED BY <2>5, <2>6, <2>7 DEF CheckPmp
<1> QED BY <1>1, TypeCorrect, PTL DEF Spec, LockedVerdictsAreFrozen

\* No access is granted at once that is not granted byte by byte.
THEOREM AccessesAreBytewiseSound == Spec => []AccessIsBytewiseSound
<1>1. AccessIsBytewiseSound
  <2> SUFFICES ASSUME NEW bytes, NEW privilege, NEW kind,
                      CheckPmp(bytes, privilege, kind), NEW b \in bytes
               PROVE  CheckPmp({b}, privilege, kind)
    BY DEF AccessIsBytewiseSound
  <2>1. CASE \E i \in Entries : /\ Decides(i, bytes)
                                /\ Grants(i, bytes, privilege, kind)
    <3>1. PICK i \in Entries : /\ Decides(i, bytes)
                               /\ Grants(i, bytes, privilege, kind)
      BY <2>1
    <3>2. b \in Region(i)
      BY <3>1 DEF Grants
    <3>3. Decides(i, {b})
      BY <3>1, <3>2 DEF Decides
    <3>4. Grants(i, {b}, privilege, kind)
      BY <3>1, <3>2 DEF Grants
    <3> QED BY <3>3, <3>4 DEF CheckPmp
  <2>2. CASE /\ \A i \in Entries : Region(i) \cap bytes = {}
             /\ privilege = "machine"
    BY <2>2 DEF CheckPmp
  <2> QED BY <2>1, <2>2 DEF CheckPmp
<1> QED BY <1>1, PTL

-----------------------------------------------------------------------------
(* Powers, which the sizes of regions and pages are.                       *)

\* f[n] is the power of the base, as a recursive definition gives it.
IsPower(f, base, bound) ==
  f = [n \in 0 .. bound |-> IF n = 0 THEN 1 ELSE base * f[n - 1]]

\* The recursive definition has a solution.
LEMMA PowerExists ==
  ASSUME NEW base \in Nat \ {0}, NEW bound \in Nat
  PROVE  \E f : IsPower(f, base, bound)
<1> DEFINE step == [x \in (Nat \ {0}) \X (0 .. bound) |-> base * x[1]]
<1>1. step \in Steps(Nat \ {0}, 0, bound)
  <2>1. \A x \in Nat \ {0} : base * x \in Nat \ {0}
    OBVIOUS
  <2> QED BY <2>1 DEF Steps
<1>2. PICK f : IsRecursive(f, Nat \ {0}, 1, 0, bound, step)
  <2> HIDE DEF step
  <2> QED BY <1>1, Recursion
<1>3. \A n \in 0 .. bound : n # 0 => n - 1 \in 0 .. bound
  OBVIOUS
<1>4. /\ f \in [0 .. bound -> Nat \ {0}]
      /\ \A n \in 0 .. bound : f[n] = IF n = 0 THEN 1 ELSE base * f[n - 1]
  <2>1. f \in [0 .. bound -> Nat \ {0}]
    BY <1>2 DEF IsRecursive
  <2>2. ASSUME NEW n \in 0 .. bound, n # 0
        PROVE  f[n] = base * f[n - 1]
    <3>1. <<f[n - 1], n>> \in (Nat \ {0}) \X (0 .. bound)
      BY <1>3, <2>1, <2>2
    <3>2. f[n] = step[<<f[n - 1], n>>]
      BY <1>2, <2>2 DEF IsRecursive
    <3> QED BY <3>1, <3>2
  <2>3. 0 \in 0 .. bound => f[0] = 1
    BY <1>2 DEF IsRecursive
  <2> QED BY <2>1, <2>2, <2>3
<1> QED BY <1>4 DEF IsPower

\* A solution is a function to the positive numbers, and grows.
LEMMA PowerPositive ==
  ASSUME NEW base \in Nat \ {0}, NEW bound \in Nat,
         NEW f, IsPower(f, base, bound)
  PROVE  /\ f \in [0 .. bound -> Nat \ {0}]
         /\ f[0] = 1
         /\ \A n \in 0 .. bound : n # 0 => f[n] = base * f[n - 1]
         /\ base > 1 => \A n \in 0 .. bound : f[n] > n
<1>1. /\ DOMAIN f = 0 .. bound
      /\ f[0] = 1
      /\ \A n \in 0 .. bound : n # 0 => f[n] = base * f[n - 1]
      /\ f = [n \in 0 .. bound |-> f[n]]
  BY DEF IsPower
<1> DEFINE Bad == {n \in 0 .. bound :
                     ~(f[n] \in Nat \ {0} /\ (base > 1 => f[n] > n))}
<1>2. Bad = {}
  <2> SUFFICES ASSUME Bad # {} PROVE FALSE
    OBVIOUS
  <2>1. PICK n \in Bad : \A m \in Bad : n <= m
    <3>1. Bad \in SUBSET Nat
      OBVIOUS
    <3> QED BY <3>1, Least
  <2>2. n # 0
    BY <1>1, <2>1
  <2>3. n - 1 \in 0 .. bound /\ n - 1 \notin Bad /\ n \in 0 .. bound
    BY <2>1, <2>2
  <2>4. f[n] = base * f[n - 1] /\ f[n - 1] \in Nat \ {0}
    BY <1>1, <2>2, <2>3
  <2>5. base * f[n - 1] \in Nat \ {0}
    BY <2>4
  <2>6. ASSUME base > 1 PROVE f[n] > n
    <3>1. f[n - 1] > n - 1
      BY <2>3, <2>6
    <3>2. base * f[n - 1] >= 2 * f[n - 1]
      BY <2>4, <2>6
    <3> QED BY <2>3, <2>4, <2>5, <3>1, <3>2
  <2> QED BY <2>1, <2>4, <2>5, <2>6
<1> QED BY <1>1, <1>2

\* The powers of two that regions are made of.
LEMMA PowersOfTwo ==
  /\ TwoTo \in [PmpAddresses -> Nat \ {0}]
  /\ TwoTo[0] = 1
  /\ \A n \in PmpAddresses : n # 0 => TwoTo[n] = 2 * TwoTo[n - 1]
  /\ \A n \in PmpAddresses : TwoTo[n] > n
<1>1. \E f : IsPower(f, 2, PmpAddrMask)
  BY PmpAssumption, PowerExists
<1>2. IsPower(TwoTo, 2, PmpAddrMask)
  BY <1>1 DEF TwoTo, IsPower, PmpAddresses
<1> QED BY <1>2, PowerPositive, PmpAssumption DEF PmpAddresses

\* The frames that entries of a level map.
LEMMA FramesOfLevels ==
  /\ FramesAt \in [0 .. RootLevel + 1 -> Nat \ {0}]
  /\ FramesAt[0] = 1
<1>1. \E f : IsPower(f, TableSize, RootLevel + 1)
  BY Sv39Assumption, PowerExists
<1>2. IsPower(FramesAt, TableSize, RootLevel + 1)
  BY <1>1 DEF FramesAt, IsPower
<1> QED BY <1>2, PowerPositive, Sv39Assumption

\* A greater power is a multiple of the double of a smaller one.
LEMMA PowersDivide ==
  ASSUME NEW n \in PmpAddresses, NEW m \in PmpAddresses, n < m
  PROVE  \E k \in Nat : TwoTo[m] = (2 * TwoTo[n]) * k
<1> DEFINE Bad == {x \in PmpAddresses :
                     n < x /\ ~ \E k \in Nat : TwoTo[x] = (2 * TwoTo[n]) * k}
<1>1. Bad \in SUBSET Nat
  BY DEF PmpAddresses
<1>2. SUFFICES ASSUME Bad # {} PROVE FALSE
  OBVIOUS
<1>3. PICK x \in Bad : \A y \in Bad : x <= y
  BY <1>1, <1>2, Least
<1>4. x \in PmpAddresses /\ x - 1 \in PmpAddresses /\ x # 0 /\ n < x
  BY <1>3, PmpAssumption DEF PmpAddresses
<1>5. TwoTo[x] = 2 * TwoTo[x - 1]
  BY <1>4, PowersOfTwo
<1>6. x - 1 # n
  <2>1. TwoTo[n] \in Nat
    BY PowersOfTwo
  <2>2. (2 * TwoTo[n]) * 1 = 2 * TwoTo[n]
    BY <2>1
  <2> QED BY <1>3, <1>5, <2>2
<1>7. x - 1 \notin Bad /\ n < x - 1
  BY <1>3, <1>4, <1>6 DEF PmpAddresses
<1>8. PICK k \in Nat : TwoTo[x - 1] = (2 * TwoTo[n]) * k
  BY <1>4, <1>7
<1>9. TwoTo[x] = (2 * TwoTo[n]) * (2 * k)
  <2>1. PICK p \in Nat : p = 2 * TwoTo[n]
    BY PowersOfTwo
  <2> QED BY <1>5, <1>8, <2>1
<1>10. 2 * k \in Nat
  OBVIOUS
<1> QED BY <1>3, <1>9, <1>10

\* A number has a lowest one in binary.
LEMMA LowestOneExists ==
  ASSUME NEW c \in 1 .. PmpAddrMask + 1
  PROVE  \E n \in PmpAddresses : c % (2 * TwoTo[n]) = TwoTo[n]
<1> DEFINE D == {n \in PmpAddresses : \E k \in Nat : c = TwoTo[n] * k}
<1> USE PmpAssumption
<1>1. D \in SUBSET Nat /\ \A n \in D : n <= PmpAddrMask
  BY DEF PmpAddresses
<1>2. 0 \in D
  <2>1. c \in Nat /\ c = TwoTo[0] * c /\ 0 \in PmpAddresses
    BY PowersOfTwo DEF PmpAddresses
  <2> QED BY <2>1
<1>3. PICK n \in D : \A m \in D : m <= n
  BY <1>1, <1>2, Greatest
<1>4. PICK k \in Nat : c = TwoTo[n] * k
  OBVIOUS
<1>5. PICK p \in Nat \ {0} : p = TwoTo[n]
  BY PowersOfTwo
<1>6. c = p * k /\ p > n /\ n \in PmpAddresses
  BY <1>4, <1>5, PowersOfTwo
<1>7. ASSUME NEW j \in Nat, k = 2 * j PROVE FALSE
  <2>1. c = (2 * p) * j
    BY <1>6, <1>7
  <2>2. n + 1 \notin D
    BY <1>1, <1>3
  <2>3. CASE n + 1 \in PmpAddresses
    <3>1. n + 1 # 0 /\ (n + 1) - 1 = n
      BY <1>1
    <3>2. TwoTo[n + 1] = 2 * p
      BY <1>5, <2>3, <3>1, PowersOfTwo
    <3> QED BY <2>1, <2>2, <2>3, <3>2
  <2>4. CASE n + 1 \notin PmpAddresses
    <3>1. n = PmpAddrMask
      BY <1>6, <2>4 DEF PmpAddresses
    <3>2. 2 * p > PmpAddrMask + 1
      BY <1>6, <3>1
    <3>3. j >= 1
      BY <2>1
    <3>4. (2 * p) * j >= 2 * p
      BY <3>3, Product
    <3> QED BY <2>1, <3>2, <3>4
  <2> QED BY <2>3, <2>4
<1>8. PICK j \in Nat : k = 2 * j + 1
  <2>1. k = 2 * (k \div 2) + (k % 2) /\ k % 2 \in 0 .. 1 /\ k \div 2 \in Nat
    OBVIOUS
  <2> QED BY <1>7, <2>1
<1>9. c = (2 * p) * j + p
  BY <1>6, <1>8
<1>10. c % (2 * p) = p
  <2>1. 2 * p \in Nat \ {0} /\ p \in 0 .. 2 * p - 1 /\ c \in Int
    OBVIOUS
  <2>2. PICK q \in Nat \ {0} : q = 2 * p
    BY <2>1
  <2>3. c = q * (c \div q) + (c % q) /\ c % q \in 0 .. q - 1 /\ c \div q \in Int
    <3> HIDE DEF D
    <3> QED BY <2>1, <2>2, DivMod
  <2>4. c = q * j + p /\ p \in 0 .. q - 1
    BY <1>9, <2>1, <2>2
  <2> QED BY <2>2, <2>3, <2>4, DivModUnique
<1> QED BY <1>5, <1>6, <1>10

\* It has only one.
LEMMA LowestOneUnique ==
  ASSUME NEW c \in Nat, NEW n \in PmpAddresses, NEW m \in PmpAddresses,
         c % (2 * TwoTo[n]) = TwoTo[n], c % (2 * TwoTo[m]) = TwoTo[m]
  PROVE  n = m
<1>1. ASSUME NEW x \in PmpAddresses, NEW y \in PmpAddresses, x < y,
             c % (2 * TwoTo[x]) = TwoTo[x], c % (2 * TwoTo[y]) = TwoTo[y]
      PROVE  FALSE
  <2>1. PICK k \in Nat : TwoTo[y] = (2 * TwoTo[x]) * k
    BY <1>1, PowersDivide
  <2>2. PICK p \in Nat \ {0} : p = TwoTo[x]
    BY PowersOfTwo
  <2>3. PICK q \in Nat \ {0} : q = TwoTo[y]
    BY PowersOfTwo
  <2>4. PICK r \in Nat \ {0} : r = 2 * p
    OBVIOUS
  <2>5. c = (2 * q) * (c \div (2 * q)) + q /\ c \div (2 * q) \in Int
    <3>1. PICK u \in Nat \ {0} : u = 2 * q
      OBVIOUS
    <3>2. c % u = q
      BY <1>1, <2>3, <3>1
    <3>3. c = u * (c \div u) + (c % u) /\ c \div u \in Int
      BY DivMod
    <3> QED BY <3>1, <3>2, <3>3
  <2>6. PICK d \in Int : c = (2 * q) * d + q
    BY <2>5
  <2>7. q = r * k
    BY <2>1, <2>2, <2>3, <2>4
  <2>8. c = r * (2 * k * d + k) + 0
    BY <2>6, <2>7
  <2>9. c = r * (c \div r) + p /\ c \div r \in Int
    <3>1. c % r = p
      BY <1>1, <2>2, <2>4
    <3> QED BY <3>1, DivMod
  <2>10. 2 * k * d + k \in Int /\ 0 \in 0 .. r - 1 /\ p \in 0 .. r - 1
    BY <2>4
  <2>11. PICK e \in Int : e = 2 * k * d + k
    BY <2>10
  <2> QED BY <2>8, <2>9, <2>10, <2>11, DivModUnique
<1>2. n \in Int /\ m \in Int
  BY DEF PmpAddresses
<1> QED BY <1>1, <1>2

-----------------------------------------------------------------------------
(* What protection covers.                                                 *)

\* A byte lies in the region of a NAPOT address if its word agrees with the
\* address above the lowest zero.
LEMMA NapotCovers ==
  ASSUME NEW a \in PmpAddresses, NEW b \in Nat
  PROVE  b \in NapotRegion[a]
           <=> \A n \in PmpAddresses :
                 (a + 1) % (2 * TwoTo[n]) = TwoTo[n]
                   => (b \div 4) \div (2 * TwoTo[n]) = a \div (2 * TwoTo[n])
<1> DEFINE Size(n) == a % (2 * TwoTo[n]) = TwoTo[n] - 1
<1>1. a \in Nat /\ a + 1 \in 1 .. PmpAddrMask + 1
  BY PmpAssumption DEF PmpAddresses
<1>2. \A n \in PmpAddresses :
        (a + 1) % (2 * TwoTo[n]) = TwoTo[n] <=> Size(n)
  <2> SUFFICES ASSUME NEW n \in PmpAddresses
               PROVE  (a + 1) % (2 * TwoTo[n]) = TwoTo[n] <=> Size(n)
    OBVIOUS
  <2>1. PICK p \in Nat \ {0} : p = TwoTo[n]
    BY PowersOfTwo
  <2>2. PICK q \in Nat \ {0} : q = 2 * p
    OBVIOUS
  <2>3. (a + 1) % q = p <=> a % q = p - 1
    <3>1. a = q * (a \div q) + (a % q) /\ a % q \in 0 .. q - 1 /\ a \div q \in Int
      BY <1>1, DivMod
    <3>2. /\ a + 1 = q * ((a + 1) \div q) + ((a + 1) % q)
          /\ (a + 1) % q \in 0 .. q - 1 /\ (a + 1) \div q \in Int
      BY <1>1, DivMod
    <3>3. PICK x \in Int, r \in 0 .. q - 1 :
            a = q * x + r /\ x = a \div q /\ r = a % q
      BY <3>1
    <3>4. PICK y \in Int, s \in 0 .. q - 1 :
            a + 1 = q * y + s /\ y = (a + 1) \div q /\ s = (a + 1) % q
      BY <3>2
    <3>5. ASSUME s = p PROVE r = p - 1
      <4>1. q * x + r = q * y + (p - 1) /\ p - 1 \in 0 .. q - 1
        <5>1. q * x \in Int /\ q * y \in Int
          OBVIOUS
        <5>2. q * x + r = q * y + (p - 1)
          BY <3>3, <3>4, <3>5, <5>1
        <5>3. p - 1 \in 0 .. q - 1
          BY <2>2
        <5> QED BY <5>2, <5>3
      <4> QED BY <4>1, DivModUnique
    <3>6. ASSUME r = p - 1 PROVE s = p
      <4>1. q * y + s = q * x + p /\ p \in 0 .. q - 1
        <5>1. q * x \in Int /\ q * y \in Int
          OBVIOUS
        <5>2. q * y + s = q * x + p
          <6>1. a = q * x + r /\ a + 1 = q * y + s
            BY <3>3, <3>4
          <6>2. r \in Int /\ s \in Int
            OBVIOUS
          <6> QED BY <1>1, <3>6, <5>1, <6>1, <6>2
        <5>3. p \in 0 .. q - 1
          BY <2>2
        <5> QED BY <5>2, <5>3
      <4> QED BY <4>1, DivModUnique
    <3> QED BY <3>3, <3>4, <3>5, <3>6
  <2> QED BY <2>1, <2>2, <2>3
<1>3. PICK n \in PmpAddresses :
        Size(n) /\ \A m \in PmpAddresses : Size(m) => m = n
  <2>1. \E n \in PmpAddresses : (a + 1) % (2 * TwoTo[n]) = TwoTo[n]
    BY <1>1, LowestOneExists
  <2>2. \A n, m \in PmpAddresses :
          /\ (a + 1) % (2 * TwoTo[n]) = TwoTo[n]
          /\ (a + 1) % (2 * TwoTo[m]) = TwoTo[m]
          => m = n
    BY <1>1, LowestOneUnique
  <2> QED BY <1>2, <2>1, <2>2
<1>4. (CHOOSE m \in PmpAddresses : Size(m)) = n
  BY <1>3
<1>5. PICK p \in Nat \ {0} : p = TwoTo[n]
  BY PowersOfTwo
<1>6. NapotRegion[a] = (a - (p - 1)) * 4 .. (a - (p - 1)) * 4 + 8 * p - 1
  BY <1>4, <1>5 DEF NapotRegion
<1>7. PICK j \in Int : a = (2 * p) * j + (p - 1) /\ j = a \div (2 * p)
  <2>1. PICK q \in Nat \ {0} : q = 2 * p
    OBVIOUS
  <2>2. a = q * (a \div q) + (a % q) /\ a \div q \in Int
    BY <1>1, DivMod
  <2>3. a % q = p - 1
    BY <1>3, <1>5, <2>1
  <2> QED BY <2>1, <2>2, <2>3
<1>8. PICK w \in Nat, s \in 0 .. 3 : b = 4 * w + s /\ w = b \div 4
  <2>1. b = 4 * (b \div 4) + (b % 4) /\ b % 4 \in 0 .. 3 /\ b \div 4 \in Nat
    OBVIOUS
  <2> QED BY <2>1
<1>9. PICK e \in Int, f \in 0 .. 2 * p - 1 :
        w = (2 * p) * e + f /\ e = w \div (2 * p)
  <2>1. PICK q \in Nat \ {0} : q = 2 * p
    OBVIOUS
  <2>2. w = q * (w \div q) + (w % q) /\ w % q \in 0 .. q - 1 /\ w \div q \in Int
    BY DivMod
  <2> QED BY <2>1, <2>2
<1>10. b \in NapotRegion[a] <=> e = j
  <2>1. PICK z \in Nat \ {0} : z = 8 * p
    OBVIOUS
  <2>2. NapotRegion[a] = z * j .. z * j + z - 1
    BY <1>6, <1>7, <2>1
  <2>3. b = z * e + (4 * f + s) /\ 4 * f + s \in 0 .. z - 1
    <3>1. b = z * e + (4 * f + s)
      <4>1. PICK g \in Int : g = p * e
        OBVIOUS
      <4>2. (2 * p) * e = 2 * g /\ z * e = 8 * g
        BY <2>1, <4>1
      <4>3. PICK h \in Int : h = (2 * p) * e
        BY <4>2
      <4>4. b = 4 * w + s /\ w = h + f
        BY <1>8, <1>9, <4>3
      <4>5. f \in Int /\ s \in Int
        OBVIOUS
      <4> QED BY <4>2, <4>3, <4>4, <4>5
    <3>2. 4 * f + s \in 0 .. z - 1
      BY <2>1
    <3> QED BY <3>1, <3>2
  <2>4. z * j \in Int /\ z * e \in Int
    OBVIOUS
  <2>5. ASSUME b \in NapotRegion[a] PROVE e = j
    <3>1. b - z * j \in 0 .. z - 1
      BY <2>2, <2>4, <2>5
    <3>2. z * j + (b - z * j) = z * e + (4 * f + s)
      BY <2>3, <2>4
    <3> QED BY <2>3, <3>1, <3>2, DivModUnique
  <2>6. ASSUME e = j PROVE b \in NapotRegion[a]
    BY <2>2, <2>3, <2>4, <2>6
  <2> QED BY <2>5, <2>6
<1>11. (b \div 4) \div (2 * TwoTo[n]) = a \div (2 * TwoTo[n]) <=> e = j
  BY <1>5, <1>7, <1>8, <1>9
<1> QED
  <2> HIDE DEF Size
  <2> QED BY <1>2, <1>3, <1>10, <1>11

\* The region of an entry is what the architecture says it covers.
LEMMA RegionCovers ==
  ASSUME TypeOK, NEW i \in Entries, NEW b \in Nat
  PROVE  b \in Region(i) <=> Covers(i, b)
<1>1. PICK w \in Nat, s \in 0 .. 3 : b = 4 * w + s /\ w = b \div 4
  <2>1. b = 4 * (b \div 4) + (b % 4) /\ b % 4 \in 0 .. 3 /\ b \div 4 \in Nat
    OBVIOUS
  <2> QED BY <2>1
<1>2. PICK a \in PmpAddresses : a = pmpaddr[i]
  BY DEF TypeOK
<1>3. i # 0 => i - 1 \in Entries
  BY PmpAssumption DEF Entries
<1>4. PICK q \in Nat : q = Previous(i)
  BY <1>3 DEF Previous, TypeOK, PmpAddresses
<1>5. a \in Nat
  BY DEF PmpAddresses
<1>6. pmpcfg[i].mode \in Modes
  BY DEF TypeOK, PmpConfigs
<1>7. CASE pmpcfg[i].mode = "off"
  BY <1>7 DEF Region, PmpRange, Covers
<1>8. CASE pmpcfg[i].mode = "tor"
  <2>1. b \in Region(i) <=> b \in q * 4 .. a * 4 - 1
    BY <1>2, <1>4, <1>8 DEF Region, PmpRange
  <2>2. Covers(i, b) <=> w < a /\ (i = 0 \/ w >= pmpaddr[i - 1])
    BY <1>1, <1>2, <1>8 DEF Covers
  <2>3. (i = 0 \/ w >= pmpaddr[i - 1]) <=> w >= q
    BY <1>4 DEF Previous
  <2>4. b \in q * 4 .. a * 4 - 1 <=> w < a /\ w >= q
    BY <1>1, <1>5
  <2> QED BY <2>1, <2>2, <2>3, <2>4
<1>9. CASE pmpcfg[i].mode = "na4"
  <2>1. b \in Region(i) <=> b \in a * 4 .. a * 4 + 3
    BY <1>2, <1>9 DEF Region, PmpRange
  <2>2. Covers(i, b) <=> w = a
    BY <1>1, <1>2, <1>9 DEF Covers
  <2> QED BY <1>1, <1>5, <2>1, <2>2
<1>10. CASE pmpcfg[i].mode = "napot"
  <2>1. Region(i) = NapotRegion[a]
    BY <1>2, <1>10 DEF Region, PmpRange
  <2>2. Covers(i, b)
          <=> \A n \in PmpAddresses :
                (a + 1) % (2 * TwoTo[n]) = TwoTo[n]
                  => (b \div 4) \div (2 * TwoTo[n]) = a \div (2 * TwoTo[n])
    BY <1>2, <1>10 DEF Covers
  <2> QED BY <2>1, <2>2, NapotCovers
<1> QED BY <1>6, <1>7, <1>8, <1>9, <1>10 DEF Modes

\* The check of an access below machine mode is the architecture's.
LEMMA CheckIsProtection ==
  ASSUME TypeOK, NEW bytes \in SUBSET Nat, bytes # {}, NEW kind
  PROVE  CheckPmp(bytes, "lower", kind) <=> Protection(bytes, kind)
<1>1. \A i \in Entries, b \in bytes : b \in Region(i) <=> Covers(i, b)
  BY RegionCovers
<1>2. CheckPmp(bytes, "lower", kind)
        <=> \E i \in Entries : /\ Decides(i, bytes) /\ bytes \subseteq Region(i)
                               /\ kind \in pmpcfg[i].perms
  BY DEF CheckPmp, Grants
<1>3. \A i \in Entries :
        /\ bytes \subseteq Region(i) <=> \A b \in bytes : Covers(i, b)
        /\ Region(i) \cap bytes = {} <=> \A b \in bytes : ~Covers(i, b)
  BY <1>1
<1>4. \A i \in Entries :
        Decides(i, bytes) /\ bytes \subseteq Region(i)
          <=> /\ \A b \in bytes : Covers(i, b)
              /\ \A j \in Entries : j < i => \A b \in bytes : ~Covers(j, b)
  BY <1>3 DEF Decides
<1> QED BY <1>2, <1>4 DEF Protection

-----------------------------------------------------------------------------
(* Memory, accesses and what a translation may leave behind.               *)

Indices == 0 .. TableSize - 1
AccessRecords ==
  [env : EnvironmentRecords, access : Kinds, va : Nat, size : Nat \ {0}]

\* The bits that an access sets.
Bits(access) == IF access = "store" THEN {"A", "D"} ELSE {"A"}

\* An entry in which some of them have been set.
Marked(old, new) ==
  \E more \in SUBSET {"A", "D"} : new = [old EXCEPT !.flags = @ \cup more]

\* The second memory differs from the first in accessed and dirty bits that
\* have been set in leaves, where a walk may write.
Silent(m1, m2) ==
  \A f \in Dram, i \in Indices :
    \/ m2[f][i] = m1[f][i]
    \/ /\ IsLeaf(m1[f][i])
       /\ CheckPmp(EntryBytes(<<f, i>>), "lower", "store")
       /\ Marked(m1[f][i], m2[f][i])

\* What a translation from a memory may be.
Results(mem) ==
  {r \in [outcome : {"ok", "page", "access"}, physical : Int, memory : Memories] :
     /\ r.outcome # "ok" => r.memory = mem
     /\ Silent(mem, r.memory)}

Same(r, s) == r.outcome = s.outcome /\ r.physical = s.physical

LEMMA IndexInTable ==
  ASSUME NEW level \in 0 .. RootLevel, NEW va \in Nat
  PROVE  VpnIndex(level, va) \in Indices
<1>1. PICK n \in Nat \ {0} : n = FramesAt[level]
  <2>1. level \in 0 .. RootLevel + 1
    BY Sv39Assumption
  <2> QED BY <2>1, FramesOfLevels
<1>2. PICK t \in Nat \ {0} : t = TableSize
  BY Sv39Assumption
<1>3. PICK p \in Nat \ {0} : p = PageSize * FramesAt[level]
  <2>1. (8 * t) * n \in Nat \ {0}
    OBVIOUS
  <2> QED BY <1>1, <1>2, <2>1 DEF PageSize
<1>4. va \div p \in Nat
  <2>1. va = p * (va \div p) + (va % p) /\ va \div p \in Int /\ va % p \in 0 .. p - 1
    BY DivMod
  <2>2. PICK d \in Int : d = va \div p
    BY <2>1
  <2>3. d >= 0
    <3> SUFFICES ASSUME -d >= 1 PROVE FALSE
      OBVIOUS
    <3>1. p * (-d) >= p
      BY Product
    <3> QED BY <2>1, <2>2, <3>1
  <2> QED BY <2>2, <2>3
<1> QED BY <1>2, <1>3, <1>4 DEF VpnIndex, Indices

\* The bytes of an entry are addresses.
LEMMA EntryIsBytes ==
  ASSUME NEW f \in Frames, NEW i \in Indices
  PROVE  /\ EntryBytes(<<f, i>>) \in SUBSET Nat
         /\ EntryBytes(<<f, i>>) # {}
<1>1. PICK x \in Nat : x = f * PageSize + 8 * i
  <2>1. PICK t \in Nat : t = TableSize
    BY Sv39Assumption
  <2>2. f \in Nat /\ i \in Nat
    BY Sv39Assumption DEF Indices
  <2>3. f * (8 * t) \in Nat
    BY <2>1, <2>2
  <2> QED BY <2>1, <2>2, <2>3 DEF PageSize
<1>2. EntryBytes(<<f, i>>) = x .. x + 7
  BY <1>1 DEF EntryBytes
<1>3. x \in x .. x + 7 /\ x .. x + 7 \subseteq Nat
  OBVIOUS
<1> QED BY <1>2, <1>3

\* Setting bits changes one entry, and nothing but its flags.
LEMMA BitsSet ==
  ASSUME NEW mem \in Memories, NEW f \in Dram, NEW i \in Indices, NEW access
  PROVE  /\ Updated(mem, <<f, i>>, access) \in Memories
         /\ \A g \in Dram, j \in Indices :
              Updated(mem, <<f, i>>, access)[g][j] =
                IF g = f /\ j = i
                THEN [mem[f][i] EXCEPT !.flags = @ \cup Bits(access)]
                ELSE mem[g][j]
<1> DEFINE u == Updated(mem, <<f, i>>, access)
           new == [mem[f][i] EXCEPT !.flags = @ \cup Bits(access)]
<1>1. /\ mem \in [Dram -> [Indices -> Ptes]]
      /\ Memories = [Dram -> [Indices -> Ptes]]
  BY DEF Memories, Indices
<1>2. new \in Ptes
  <2>1. mem[f][i] \in Ptes
    BY <1>1
  <2>2. Bits(access) \subseteq PteFlags
    BY DEF Bits, PteFlags
  <2> QED BY <2>1, <2>2 DEF Ptes
<1>3. u = [mem EXCEPT ![f] = [mem[f] EXCEPT ![i] = new]]
  BY <1>1 DEF Updated, Bits
<1> HIDE DEF new, u
<1>4. [mem[f] EXCEPT ![i] = new] \in [Indices -> Ptes]
  BY <1>1, <1>2
<1>5. u \in Memories
  BY <1>1, <1>3, <1>4
<1>6. ASSUME NEW g \in Dram, NEW j \in Indices
      PROVE  u[g][j] = IF g = f /\ j = i THEN new ELSE mem[g][j]
  BY <1>1, <1>3
<1> QED BY <1>5, <1>6 DEF u, new

LEMMA EffectiveTyped ==
  ASSUME NEW env \in EnvironmentRecords, NEW access
  PROVE  Effective(env, access) \in EnvironmentRecords
BY DEF Effective, EnvironmentRecords

LEMMA SilentReflexive == \A mem : Silent(mem, mem)
BY DEF Silent

LEMMA SilentTransitive ==
  ASSUME NEW m1 \in Memories, NEW m2 \in Memories, NEW m3 \in Memories,
         Silent(m1, m2), Silent(m2, m3)
  PROVE  Silent(m1, m3)
<1> SUFFICES ASSUME NEW f \in Dram, NEW i \in Indices, m3[f][i] # m1[f][i]
             PROVE  /\ IsLeaf(m1[f][i])
                    /\ CheckPmp(EntryBytes(<<f, i>>), "lower", "store")
                    /\ Marked(m1[f][i], m3[f][i])
  BY DEF Silent
<1>1. m1[f][i] \in Ptes /\ m2[f][i] \in Ptes
  BY DEF Memories, Indices
<1>2. CASE m2[f][i] = m1[f][i]
  BY <1>2 DEF Silent
<1>3. CASE m3[f][i] = m2[f][i]
  BY <1>3 DEF Silent
<1>4. CASE m2[f][i] # m1[f][i] /\ m3[f][i] # m2[f][i]
  <2>1. /\ IsLeaf(m1[f][i])
        /\ CheckPmp(EntryBytes(<<f, i>>), "lower", "store")
    BY <1>4 DEF Silent
  <2>2. PICK x \in SUBSET {"A", "D"} :
          m2[f][i] = [m1[f][i] EXCEPT !.flags = @ \cup x]
    BY <1>4 DEF Silent, Marked
  <2>3. PICK y \in SUBSET {"A", "D"} :
          m3[f][i] = [m2[f][i] EXCEPT !.flags = @ \cup y]
    BY <1>4 DEF Silent, Marked
  <2>4. m3[f][i] = [m1[f][i] EXCEPT !.flags = @ \cup (x \cup y)]
    BY <1>1, <2>2, <2>3 DEF Ptes
  <2>5. x \cup y \in SUBSET {"A", "D"}
    OBVIOUS
  <2>6. Marked(m1[f][i], m3[f][i])
    BY <2>4, <2>5 DEF Marked
  <2> QED BY <2>1, <2>6
<1> QED BY <1>2, <1>3, <1>4

LEMMA FaultIsResult ==
  ASSUME NEW mem \in Memories, NEW kind \in {"page", "access"}
  PROVE  Fault(kind, mem) \in Results(mem)
BY SilentReflexive DEF Fault, Results

LEMMA PhysicalIsResult ==
  ASSUME NEW mem \in Memories, NEW in, NEW addr \in Int
  PROVE  /\ Physical(mem, in, addr) \in Results(mem)
         /\ Physical(mem, in, addr).memory = mem
         /\ Physical(mem, in, addr).outcome \in {"ok", "access"}
         /\ Physical(mem, in, addr).outcome = "ok"
              => Physical(mem, in, addr).physical = addr
BY SilentReflexive DEF Physical, Fault, Results

\* Where a leaf leads.
Reached(mem, f, i, level, in) ==
  mem[f][i].ppn * PageSize + (in.va % (PageSize * FramesAt[level]))

LEMMA ReachedTyped ==
  ASSUME NEW mem \in Memories, NEW f \in Dram, NEW i \in Indices,
         NEW level \in 0 .. RootLevel, NEW in \in AccessRecords
  PROVE  Reached(mem, f, i, level, in) \in Nat
<1>1. PICK v \in Nat : v = in.va
  BY DEF AccessRecords
<1>2. PICK n \in Nat \ {0} : n = FramesAt[level]
  <2>1. level \in 0 .. RootLevel + 1
    BY Sv39Assumption
  <2> QED BY <2>1, FramesOfLevels
<1>3. PICK p \in Nat \ {0} : p = PageSize
  <2>1. PICK t \in Nat \ {0} : t = TableSize
    BY Sv39Assumption
  <2> QED BY <2>1 DEF PageSize
<1>4. PICK x \in Nat : x = mem[f][i].ppn
  <2>1. mem[f][i] \in Ptes
    BY DEF Memories, Indices
  <2> QED BY <2>1, Sv39Assumption DEF Ptes
<1>5. PICK s \in Nat \ {0} : s = p * n
  OBVIOUS
<1>6. v % s \in Nat
  BY DivMod
<1>7. x * p + (v % s) \in Nat
  <2>1. x * p \in Nat
    OBVIOUS
  <2>2. PICK r \in Nat : r = v % s
    BY <1>6
  <2>3. (x * p) + r \in Nat
    BY <2>1
  <2> QED BY <2>2, <2>3
<1> QED BY <1>1, <1>2, <1>3, <1>4, <1>5, <1>7 DEF Reached

-----------------------------------------------------------------------------
(* The walk, one turn at a time.                                           *)

\* What a leaf must be like for an access.
Fitting(mem, f, i, level, in) ==
  Permits(in.env, in.access, mem[f][i]) /\ mem[f][i].ppn % FramesAt[level] = 0

\* What protection must allow.
Allowed(mem, f, i, level, in) ==
  LET addr == Reached(mem, f, i, level, in)
  IN  /\ CheckPmp(addr .. addr + in.size - 1, PmpPrivilege(in.env), in.access)
      /\ \/ Bits(in.access) \subseteq mem[f][i].flags
         \/ CheckPmp(EntryBytes(<<f, i>>), "lower", "store")

\* What happens at a leaf.
LEMMA LeafVisited ==
  ASSUME NEW mem \in Memories, NEW f \in Dram, NEW i \in Indices,
         NEW level \in 0 .. RootLevel, NEW in \in AccessRecords,
         IsLeaf(mem[f][i])
  PROVE  LET r == AtLeaf(mem, <<f, i>>, level, in)
             fits == Fitting(mem, f, i, level, in)
             allowed == Allowed(mem, f, i, level, in)
         IN  /\ r \in Results(mem)
             /\ r.outcome = IF ~fits THEN "page"
                            ELSE IF ~allowed THEN "access" ELSE "ok"
             /\ r.physical = IF fits /\ allowed
                             THEN Reached(mem, f, i, level, in) ELSE -1
             /\ fits /\ allowed => Bits(in.access) \subseteq r.memory[f][i].flags
<1> DEFINE r == AtLeaf(mem, <<f, i>>, level, in)
           pte == mem[f][i]
           fits == Fitting(mem, f, i, level, in)
           allowed == Allowed(mem, f, i, level, in)
           addr == Reached(mem, f, i, level, in)
           found == Physical(mem, in, addr)
           mem2 == Updated(mem, <<f, i>>, in.access)
<1> SUFFICES /\ r \in Results(mem)
             /\ r.outcome = IF ~fits THEN "page"
                            ELSE IF ~allowed THEN "access" ELSE "ok"
             /\ r.physical = IF fits /\ allowed THEN addr ELSE -1
             /\ fits /\ allowed => Bits(in.access) \subseteq r.memory[f][i].flags
  OBVIOUS
<1>1. r = IF ~fits THEN Fault("page", mem)
          ELSE IF found.outcome # "ok" \/ mem2 = mem THEN found
          ELSE IF ~CheckPmp(EntryBytes(<<f, i>>), "lower", "store")
          THEN Fault("access", mem)
          ELSE [found EXCEPT !.memory = mem2]
  BY DEF AtLeaf, Fitting, Reached
<1>2. addr \in Int
  BY ReachedTyped
<1>3. /\ found = IF CheckPmp(addr .. addr + in.size - 1, PmpPrivilege(in.env), in.access)
                 THEN [outcome |-> "ok", physical |-> addr, memory |-> mem]
                 ELSE Fault("access", mem)
      /\ found \in Results(mem)
  BY <1>2, PhysicalIsResult DEF Physical
<1>4. /\ mem2 \in Memories
      /\ \A g \in Dram, j \in Indices :
           mem2[g][j] = IF g = f /\ j = i
                        THEN [pte EXCEPT !.flags = @ \cup Bits(in.access)]
                        ELSE mem[g][j]
  <2>1. PICK a \in Kinds : a = in.access
    BY DEF AccessRecords
  <2>2. /\ Updated(mem, <<f, i>>, a) \in Memories
        /\ \A g \in Dram, j \in Indices :
             Updated(mem, <<f, i>>, a)[g][j] =
               IF g = f /\ j = i
               THEN [mem[f][i] EXCEPT !.flags = @ \cup Bits(a)]
               ELSE mem[g][j]
    BY BitsSet
  <2> QED BY <2>1, <2>2
<1>5. pte \in Ptes
  BY DEF Memories, Indices
<1>6. mem2[f][i].flags = pte.flags \cup Bits(in.access)
  BY <1>4, <1>5 DEF Ptes
<1>7. mem2 = mem => Bits(in.access) \subseteq pte.flags
  BY <1>6
<1>8. Bits(in.access) \subseteq pte.flags => mem2 = mem
  <2> SUFFICES ASSUME Bits(in.access) \subseteq pte.flags
               PROVE  mem2 = mem
    OBVIOUS
  <2>1. [pte EXCEPT !.flags = @ \cup Bits(in.access)] = pte
    <3>1. pte.flags \cup Bits(in.access) = pte.flags
      OBVIOUS
    <3>2. [pte EXCEPT !.flags = pte.flags] = pte
      BY <1>5 DEF Ptes
    <3> QED BY <3>1, <3>2
  <2>2. \A g \in Dram, j \in Indices : mem2[g][j] = mem[g][j]
    BY <1>4, <2>1
  <2>3. /\ mem2 \in [Dram -> [Indices -> Ptes]]
        /\ mem \in [Dram -> [Indices -> Ptes]]
    BY <1>4 DEF Memories, Indices
  <2> HIDE DEF mem2, pte
  <2>4. \A g \in Dram : mem2[g] = mem[g]
    BY <2>2, <2>3
  <2> QED BY <2>3, <2>4
<1> HIDE DEF r, fits, addr, found, mem2
<1>9. allowed
        <=> /\ CheckPmp(addr .. addr + in.size - 1, PmpPrivilege(in.env), in.access)
            /\ \/ mem2 = mem
               \/ CheckPmp(EntryBytes(<<f, i>>), "lower", "store")
  BY <1>7, <1>8 DEF Allowed, addr
<1> HIDE DEF allowed
<1>10. CASE ~fits
  <2>1. r = Fault("page", mem)
    BY <1>1, <1>10
  <2> QED BY <1>10, <2>1, FaultIsResult DEF Fault
<1>11. CASE fits /\ ~allowed
  <2>1. r = Fault("access", mem)
    BY <1>1, <1>3, <1>9, <1>11 DEF Fault
  <2> QED BY <1>11, <2>1, FaultIsResult DEF Fault
<1>12. CASE fits /\ allowed /\ mem2 = mem
  <2>1. r = [outcome |-> "ok", physical |-> addr, memory |-> mem]
    BY <1>1, <1>3, <1>9, <1>12
  <2>2. r \in Results(mem)
    BY <1>1, <1>3, <1>12
  <2>3. Bits(in.access) \subseteq r.memory[f][i].flags
    BY <1>7, <1>12, <2>1
  <2> QED BY <1>12, <2>1, <2>2, <2>3
<1>13. CASE fits /\ allowed /\ mem2 # mem
  <2>1. /\ CheckPmp(addr .. addr + in.size - 1, PmpPrivilege(in.env), in.access)
        /\ CheckPmp(EntryBytes(<<f, i>>), "lower", "store")
    BY <1>9, <1>13
  <2>2. r = [outcome |-> "ok", physical |-> addr, memory |-> mem2]
    BY <1>1, <1>3, <1>13, <2>1
  <2>3. Silent(mem, mem2)
    <3>1. Bits(in.access) \in SUBSET {"A", "D"}
      BY DEF Bits
    <3>2. Marked(pte, mem2[f][i])
      BY <1>4, <3>1 DEF Marked
    <3> QED BY <1>4, <2>1, <3>2 DEF Silent
  <2>4. r \in Results(mem)
    BY <1>2, <1>4, <2>2, <2>3 DEF Results
  <2>5. Bits(in.access) \subseteq r.memory[f][i].flags
    BY <1>6, <2>2
  <2> QED BY <1>13, <2>2, <2>4, <2>5
<1> QED BY <1>10, <1>11, <1>12, <1>13

\* The access may not read the entry, or there is none.
Unreadable(level, table, in) ==
  \/ ~CheckPmp(EntryBytes(<<table, VpnIndex(level, in.va)>>), "lower", "load")
  \/ table \notin Dram

Pointer(pte) == ~IsLeaf(pte) /\ pte.flags \cap {"U", "A", "D"} = {}

\* A turn of the loop ends in a result, if what is below does.
LEMMA VisitIsResult ==
  ASSUME NEW mem \in Memories, NEW in \in AccessRecords,
         NEW level \in 0 .. RootLevel, NEW table \in Frames, NEW below,
         level # 0 => below \in [Frames -> Results(mem)]
  PROVE  Visit(mem, in, level, table, below) \in Results(mem)
<1>1. PICK v \in Nat : v = in.va
  BY DEF AccessRecords
<1>2. PICK i \in Indices : i = VpnIndex(level, in.va)
  BY <1>1, IndexInTable
<1>3. CASE Unreadable(level, table, in)
  BY <1>3, FaultIsResult DEF Visit, Unreadable
<1>4. CASE ~Unreadable(level, table, in)
  <2>1. table \in Dram
    BY <1>4 DEF Unreadable
  <2>2. mem[table][i].ppn \in Frames
    BY <2>1 DEF Memories, Indices, Ptes
  <2>3. IsLeaf(mem[table][i])
          => AtLeaf(mem, <<table, i>>, level, in) \in Results(mem)
    BY <2>1, LeafVisited
  <2>4. level # 0 => below[mem[table][i].ppn] \in Results(mem)
    BY <2>2
  <2>5. Fault("page", mem) \in Results(mem)
    BY FaultIsResult
  <2> QED BY <1>2, <1>4, <2>3, <2>4, <2>5 DEF Visit, Unreadable
<1> QED BY <1>3, <1>4

\* At the bottom nothing is below.
LEMMA BottomVisit ==
  ASSUME NEW mem, NEW in, NEW table, NEW b1, NEW b2
  PROVE  Visit(mem, in, 0, table, b1) = Visit(mem, in, 0, table, b2)
BY DEF Visit

\* What the walk finds from each table of each level.
IsWalk(walk, mem, in) ==
  /\ walk \in [0 .. RootLevel -> [Frames -> Results(mem)]]
  /\ \A level \in 0 .. RootLevel, table \in Frames :
       walk[level][table] = Visit(mem, in, level, table, walk[level - 1])

\* The loop is such a walk.
LEMMA WalkUnfolds ==
  ASSUME NEW mem \in Memories, NEW in \in AccessRecords
  PROVE  \E walk : /\ IsWalk(walk, mem, in)
                   /\ Walk(mem, in) = walk[RootLevel][satp.root]
<1> DEFINE S == [Frames -> Results(mem)]
           D == 0 .. RootLevel
           turn(level, below) ==
             [table \in Frames |-> Visit(mem, in, level, table, below)]
           Equation(f) == f = [level \in D |-> turn(level, f[level - 1])]
           step == [x \in S \X D |-> turn(x[2], x[1])]
           first == turn(0, <<>>)
<1>1. RootLevel \in Nat
  BY Sv39Assumption
<1>2. \A level \in D, below \in S : turn(level, below) \in S
  BY VisitIsResult
<1>3. first \in S
  <2>1. \A table \in Frames : Visit(mem, in, 0, table, <<>>) \in Results(mem)
    BY <1>1, VisitIsResult
  <2> QED BY <2>1
<1>4. \A below : turn(0, below) = first
  BY BottomVisit
<1> HIDE DEF turn
<1>5. step \in Steps(S, 0, RootLevel)
  BY <1>2 DEF Steps
<1>6. \A level \in D : level # 0 => level - 1 \in D
  BY <1>1
<1>7. PICK f : /\ f \in [D -> S]
               /\ \A level \in D : f[level] = turn(level, f[level - 1])
  <2>1. PICK f : IsRecursive(f, S, first, 0, RootLevel, step)
    <3> HIDE DEF S, first, step
    <3> QED BY <1>1, <1>3, <1>5, Recursion
  <2>2. f \in [D -> S]
    BY <2>1 DEF IsRecursive
  <2>3. ASSUME NEW level \in D PROVE f[level] = turn(level, f[level - 1])
    <3>1. CASE level = 0
      <4>1. f[level] = first
        BY <2>1, <3>1 DEF IsRecursive
      <4> QED BY <1>4, <3>1, <4>1
    <3>2. CASE level # 0
      <4>1. f[level] = step[<<f[level - 1], level>>]
        BY <2>1, <3>2 DEF IsRecursive
      <4>2. f[level - 1] \in S
        BY <1>6, <2>2, <3>2
      <4> QED BY <4>1, <4>2
    <3> QED BY <3>1, <3>2
  <2> QED BY <2>2, <2>3
<1>8. Equation(f)
  <2> HIDE DEF S
  <2> QED BY <1>7
<1> DEFINE w == CHOOSE g : Equation(g)
<1>9. Equation(w)
  <2> HIDE DEF Equation
  <2> QED BY <1>8
<1>10. \A level \in D : w[level] = turn(level, w[level - 1])
  BY <1>9
<1>11. w = [level \in D |-> w[level]]
  BY <1>9
<1>12. Walk(mem, in) = w[RootLevel][satp.root]
  BY DEF Walk, turn
<1> HIDE DEF w, Equation
<1>13. w \in [D -> S]
  <2> DEFINE Bad == {level \in D : w[level] \notin S}
  <2>1. SUFFICES ASSUME Bad # {} PROVE FALSE
    BY <1>11
  <2>2. Bad \in SUBSET Nat
    BY <1>1
  <2>3. PICK level \in Bad : \A l \in Bad : level <= l
    <3> HIDE DEF Bad
    <3> QED BY <2>1, <2>2, Least
  <2>4. CASE level = 0
    BY <1>3, <1>4, <1>10, <2>3, <2>4
  <2>5. CASE level # 0
    <3>1. level - 1 \in D /\ level - 1 \notin Bad
      BY <1>6, <2>3, <2>5
    <3>2. w[level - 1] \in S
      BY <3>1
    <3> QED BY <1>2, <1>10, <2>3, <3>2
  <2> QED BY <2>4, <2>5
<1>14. IsWalk(w, mem, in)
  <2>1. \A level \in D, table \in Frames :
          w[level][table] = Visit(mem, in, level, table, w[level - 1])
    BY <1>10 DEF turn
  <2> QED BY <1>13, <2>1 DEF IsWalk
<1> QED BY <1>12, <1>14

-----------------------------------------------------------------------------
(* Translations before and after bits have been set.                       *)

\* Setting bits silently leaves of an entry all that a walk looks at.
LEMMA SilentEntry ==
  ASSUME NEW m1 \in Memories, NEW m2 \in Memories, Silent(m1, m2),
         NEW f \in Dram, NEW i \in Indices,
         NEW old \in Ptes, old = m1[f][i], NEW new \in Ptes, new = m2[f][i]
  PROVE  /\ new.ppn = old.ppn /\ new.reserved = old.reserved
         /\ old.flags \subseteq new.flags
         /\ new.flags \subseteq old.flags \cup {"A", "D"}
         /\ Malformed(new) <=> Malformed(old)
         /\ IsLeaf(new) <=> IsLeaf(old)
         /\ ~IsLeaf(old) => new = old
         /\ new # old => CheckPmp(EntryBytes(<<f, i>>), "lower", "store")
<1>3. \/ new = old
      \/ /\ IsLeaf(old) /\ Marked(old, new)
         /\ CheckPmp(EntryBytes(<<f, i>>), "lower", "store")
  BY DEF Silent
<1>4. PICK more \in SUBSET {"A", "D"} : new = [old EXCEPT !.flags = @ \cup more]
  <2>1. CASE new = old
    <3>1. old = [old EXCEPT !.flags = @ \cup {}]
      <4>1. old.flags \cup {} = old.flags
        OBVIOUS
      <4> QED BY <4>1 DEF Ptes
    <3> QED BY <2>1, <3>1
  <2>2. CASE Marked(old, new)
    BY <2>2 DEF Marked
  <2> QED BY <1>3, <2>1, <2>2
<1>5. /\ new.ppn = old.ppn /\ new.reserved = old.reserved
      /\ new.flags = old.flags \cup more
  BY <1>4 DEF Ptes
<1>7. Malformed(new) <=> Malformed(old)
  BY <1>5 DEF Malformed
<1>8. IsLeaf(new) <=> IsLeaf(old)
  BY <1>5 DEF IsLeaf
<1> QED BY <1>3, <1>5, <1>7, <1>8

\* Nothing of an entry changes but that bits are set.
OnlyBits(old, new) ==
  /\ [new EXCEPT !.flags = {}] = [old EXCEPT !.flags = {}]
  /\ old.flags \subseteq new.flags
  /\ new.flags \subseteq old.flags \cup {"A", "D"}

LEMMA SilentIsOnlyBits ==
  ASSUME NEW m1 \in Memories, NEW m2 \in Memories, Silent(m1, m2)
  PROVE  \A f \in Dram, i \in 0 .. TableSize - 1 : OnlyBits(m1[f][i], m2[f][i])
<1> SUFFICES ASSUME NEW f \in Dram, NEW i \in Indices
             PROVE  OnlyBits(m1[f][i], m2[f][i])
  BY DEF Indices
<1>1. PICK old \in Ptes : old = m1[f][i]
  BY DEF Memories, Indices
<1>2. PICK new \in Ptes : new = m2[f][i]
  BY DEF Memories, Indices
<1>3. /\ new.ppn = old.ppn /\ new.reserved = old.reserved
      /\ old.flags \subseteq new.flags
      /\ new.flags \subseteq old.flags \cup {"A", "D"}
      /\ new # old => CheckPmp(EntryBytes(<<f, i>>), "lower", "store")
  BY <1>1, <1>2, SilentEntry
<1>4. [new EXCEPT !.flags = {}] = [old EXCEPT !.flags = {}]
  BY <1>3 DEF Ptes
<1> QED BY <1>1, <1>2, <1>3, <1>4 DEF OnlyBits

\* A turn of the loop finds the same, if it does below.
LEMMA SameVisit ==
  ASSUME NEW m1 \in Memories, NEW m2 \in Memories, Silent(m1, m2),
         NEW in \in AccessRecords, NEW level \in 0 .. RootLevel,
         NEW table \in Frames, NEW b1, NEW b2,
         level # 0 => \A t \in Frames : Same(b1[t], b2[t])
  PROVE  Same(Visit(m1, in, level, table, b1), Visit(m2, in, level, table, b2))
<1>1. PICK v \in Nat : v = in.va
  BY DEF AccessRecords
<1>2. PICK i \in Indices : i = VpnIndex(level, in.va)
  BY <1>1, IndexInTable
<1>3. CASE Unreadable(level, table, in)
  BY <1>3 DEF Visit, Unreadable, Fault, Same
<1>4. CASE ~Unreadable(level, table, in)
  <2>1. table \in Dram
    BY <1>4 DEF Unreadable
  <2>2. PICK old \in Ptes : old = m1[table][i]
    BY <2>1 DEF Memories, Indices
  <2>3. PICK new \in Ptes : new = m2[table][i]
    BY <2>1 DEF Memories, Indices
  <2>4. /\ new.ppn = old.ppn
        /\ old.flags \subseteq new.flags
        /\ new.flags \subseteq old.flags \cup {"A", "D"}
        /\ Malformed(new) <=> Malformed(old)
        /\ IsLeaf(new) <=> IsLeaf(old)
        /\ ~IsLeaf(old) => new = old
        /\ new # old => CheckPmp(EntryBytes(<<table, i>>), "lower", "store")
    BY <2>1, <2>2, <2>3, SilentEntry
  <2>5. CASE Malformed(old)
    <3>1. Visit(m1, in, level, table, b1) = Fault("page", m1)
      BY <1>2, <1>4, <2>2, <2>5 DEF Visit, Unreadable
    <3>2. Visit(m2, in, level, table, b2) = Fault("page", m2)
      BY <1>2, <1>4, <2>3, <2>4, <2>5 DEF Visit, Unreadable
    <3> QED BY <3>1, <3>2 DEF Fault, Same
  <2>6. CASE ~Malformed(old) /\ IsLeaf(old)
    <3>1. Visit(m1, in, level, table, b1) = AtLeaf(m1, <<table, i>>, level, in)
      BY <1>2, <1>4, <2>2, <2>6 DEF Visit, Unreadable
    <3>2. Visit(m2, in, level, table, b2) = AtLeaf(m2, <<table, i>>, level, in)
      BY <1>2, <1>4, <2>3, <2>4, <2>6 DEF Visit, Unreadable
    <3>3. Reached(m1, table, i, level, in) = Reached(m2, table, i, level, in)
      BY <2>2, <2>3, <2>4 DEF Reached
    <3>4. Permits(in.env, in.access, old) <=> Permits(in.env, in.access, new)
      BY <2>4 DEF Permits, AccessRecords, Kinds
    <3>5. Fitting(m1, table, i, level, in) <=> Fitting(m2, table, i, level, in)
      BY <2>2, <2>3, <2>4, <3>4 DEF Fitting
    <3>6. \/ Bits(in.access) \subseteq old.flags
          \/ CheckPmp(EntryBytes(<<table, i>>), "lower", "store")
          <=>
          \/ Bits(in.access) \subseteq new.flags
          \/ CheckPmp(EntryBytes(<<table, i>>), "lower", "store")
      BY <2>4
    <3>7. Allowed(m1, table, i, level, in) <=> Allowed(m2, table, i, level, in)
      BY <2>2, <2>3, <3>3, <3>6 DEF Allowed
    <3>8. LET r == AtLeaf(m1, <<table, i>>, level, in)
              fits == Fitting(m1, table, i, level, in)
              allowed == Allowed(m1, table, i, level, in)
          IN  /\ r.outcome = IF ~fits THEN "page"
                             ELSE IF ~allowed THEN "access" ELSE "ok"
              /\ r.physical = IF fits /\ allowed
                              THEN Reached(m1, table, i, level, in) ELSE -1
      BY <2>1, <2>2, <2>6, LeafVisited
    <3>9. LET r == AtLeaf(m2, <<table, i>>, level, in)
              fits == Fitting(m2, table, i, level, in)
              allowed == Allowed(m2, table, i, level, in)
          IN  /\ r.outcome = IF ~fits THEN "page"
                             ELSE IF ~allowed THEN "access" ELSE "ok"
              /\ r.physical = IF fits /\ allowed
                              THEN Reached(m2, table, i, level, in) ELSE -1
      BY <2>1, <2>3, <2>4, <2>6, LeafVisited
    <3> QED BY <3>1, <3>2, <3>3, <3>5, <3>7, <3>8, <3>9 DEF Same
  <2>7. CASE ~Malformed(old) /\ ~IsLeaf(old)
    <3>1. new = old /\ old.ppn \in Frames
      BY <2>4, <2>7 DEF Ptes
    <3>2. CASE level = 0 \/ ~Pointer(old)
      <4>1. Visit(m1, in, level, table, b1) = Fault("page", m1)
        BY <1>2, <1>4, <2>2, <2>7, <3>2 DEF Visit, Unreadable, Pointer
      <4>2. Visit(m2, in, level, table, b2) = Fault("page", m2)
        BY <1>2, <1>4, <2>3, <2>7, <3>1, <3>2 DEF Visit, Unreadable, Pointer
      <4> QED BY <4>1, <4>2 DEF Fault, Same
    <3>3. CASE level # 0 /\ Pointer(old)
      <4>1. Visit(m1, in, level, table, b1) = b1[old.ppn]
        BY <1>2, <1>4, <2>2, <2>7, <3>3 DEF Visit, Unreadable, Pointer
      <4>2. Visit(m2, in, level, table, b2) = b2[old.ppn]
        BY <1>2, <1>4, <2>3, <2>7, <3>1, <3>3 DEF Visit, Unreadable, Pointer
      <4> QED BY <3>1, <3>3, <4>1, <4>2
    <3> QED BY <3>2, <3>3
  <2> QED BY <2>5, <2>6, <2>7
<1> QED BY <1>3, <1>4

\* So does the whole walk.
LEMMA SameWalk ==
  ASSUME NEW m1 \in Memories, NEW m2 \in Memories, Silent(m1, m2),
         NEW in \in AccessRecords, satp.root \in Frames
  PROVE  Same(Walk(m1, in), Walk(m2, in))
<1>1. PICK w1 : IsWalk(w1, m1, in) /\ Walk(m1, in) = w1[RootLevel][satp.root]
  BY WalkUnfolds
<1>2. PICK w2 : IsWalk(w2, m2, in) /\ Walk(m2, in) = w2[RootLevel][satp.root]
  BY WalkUnfolds
<1> DEFINE Bad == {level \in 0 .. RootLevel :
                     \E table \in Frames : ~Same(w1[level][table], w2[level][table])}
<1>3. Bad = {}
  <2> SUFFICES ASSUME Bad # {} PROVE FALSE
    OBVIOUS
  <2>1. Bad \in SUBSET Nat
    BY Sv39Assumption
  <2>2. PICK level \in Bad : \A l \in Bad : level <= l
    <3> HIDE DEF Bad
    <3> QED BY <2>1, Least
  <2>3. level # 0 => level - 1 \in 0 .. RootLevel /\ level - 1 \notin Bad
    BY <2>2, Sv39Assumption
  <2>4. level # 0 =>
          \A t \in Frames : Same(w1[level - 1][t], w2[level - 1][t])
    BY <2>3
  <2>5. PICK table \in Frames : ~Same(w1[level][table], w2[level][table])
    BY <2>2
  <2>6. /\ w1[level][table] = Visit(m1, in, level, table, w1[level - 1])
        /\ w2[level][table] = Visit(m2, in, level, table, w2[level - 1])
    BY <1>1, <1>2, <2>2 DEF IsWalk
  <2>7. Same(Visit(m1, in, level, table, w1[level - 1]),
             Visit(m2, in, level, table, w2[level - 1]))
    <3>1. level \in 0 .. RootLevel
      BY <2>2
    <3> HIDE DEF Bad
    <3> QED BY <2>4, <3>1, SameVisit
  <2> QED BY <2>5, <2>6, <2>7
<1>4. RootLevel \in 0 .. RootLevel
  BY Sv39Assumption
<1> QED BY <1>1, <1>2, <1>3, <1>4

\* The state of translation.
MemoryInv ==
  /\ TypeOK
  /\ memory # None => memory \in Memories
  /\ satp \in {Bare} \cup [mode : {"sv39"}, root : Dram]

LEMMA SatpTyped ==
  ASSUME MemoryInv, satp.mode # "bare"
  PROVE  satp.root \in Dram /\ satp.root \in Frames
<1>1. satp # Bare
  BY DEF Bare
<1>2. satp \in [mode : {"sv39"}, root : Dram]
  BY <1>1 DEF MemoryInv
<1>3. satp.root \in Dram
  BY <1>2
<1>4. Dram \subseteq Frames
  BY Sv39Assumption
<1> QED BY <1>3, <1>4

\* A translation ends in a result, and finds the same when bits were set before.
LEMMA TranslateCorrect ==
  ASSUME MemoryInv, NEW mem \in Memories, NEW in \in AccessRecords
  PROVE  /\ Translate(mem, in) \in Results(mem)
         /\ \A m2 \in Memories :
              Silent(mem, m2) => Same(Translate(mem, in), Translate(m2, in))
<1> DEFINE env == Effective(in.env, in.access)
           effective == [in EXCEPT !.env = env]
<1>1. env \in EnvironmentRecords
  <2>1. PICK e \in EnvironmentRecords : e = in.env
    BY DEF AccessRecords
  <2> QED BY <2>1, EffectiveTyped
<1>2. effective \in AccessRecords
  <2> HIDE DEF env
  <2> QED BY <1>1 DEF AccessRecords
<1>3. PICK eff \in AccessRecords : eff = effective
  BY <1>2
<1>4. PICK va \in Nat : va = in.va
  BY DEF AccessRecords
<1>5. \A m : Translate(m, in) =
          IF env.privilege = "machine" \/ satp.mode = "bare"
          THEN Physical(m, eff, va)
          ELSE IF ~Canonical(va) THEN Fault("page", m) ELSE Walk(m, eff)
  BY <1>3, <1>4 DEF Translate
<1> HIDE DEF env, effective
<1>6. CASE env.privilege = "machine" \/ satp.mode = "bare"
  <2>1. \A m \in Memories : Physical(m, eff, va) \in Results(m)
    BY PhysicalIsResult
  <2>2. \A m : Same(Physical(mem, eff, va), Physical(m, eff, va))
    BY DEF Same, Physical, Fault
  <2> QED BY <1>5, <1>6, <2>1, <2>2
<1>7. CASE ~(env.privilege = "machine" \/ satp.mode = "bare") /\ ~Canonical(va)
  <2>1. \A m : Translate(m, in) = Fault("page", m)
    BY <1>5, <1>7
  <2>2. \A m : Same(Fault("page", mem), Fault("page", m))
    BY DEF Same, Fault
  <2> QED BY <2>1, <2>2, FaultIsResult
<1>8. CASE ~(env.privilege = "machine" \/ satp.mode = "bare") /\ Canonical(va)
  <2>1. \A m : Translate(m, in) = Walk(m, eff)
    BY <1>5, <1>8
  <2>2. satp.root \in Frames
    BY <1>8, SatpTyped
  <2>3. Walk(mem, eff) \in Results(mem)
    <3>1. PICK w : IsWalk(w, mem, eff) /\ Walk(mem, eff) = w[RootLevel][satp.root]
      BY WalkUnfolds
    <3>2. RootLevel \in 0 .. RootLevel
      BY Sv39Assumption
    <3> QED BY <2>2, <3>1, <3>2 DEF IsWalk
  <2>4. \A m2 \in Memories :
          Silent(mem, m2) => Same(Walk(mem, eff), Walk(m2, eff))
    BY <2>2, SameWalk
  <2> QED BY <2>1, <2>3, <2>4
<1> QED BY <1>6, <1>7, <1>8

-----------------------------------------------------------------------------
(* The steps of the system.                                                *)

\* All that a step does to memory that holds tables is to set bits.
LEMMA StepIsSilent ==
  ASSUME MemoryInv, [NextMemory]_allVars, memory # None
  PROVE  memory' \in Memories /\ Silent(memory, memory')
<1>1. memory \in Memories
  BY DEF MemoryInv
<1>2. CASE UNCHANGED memory
  BY <1>1, <1>2, SilentReflexive
<1>3. ASSUME NEW in \in Inputs, LoadOrStore(in)
      PROVE  memory' \in Memories /\ Silent(memory, memory')
  <2>1. in \in AccessRecords
    BY InputAssumption DEF Inputs, AccessRecords
  <2>2. Translate(memory, in) \in Results(memory)
    BY <1>1, <2>1, TranslateCorrect
  <2>3. memory' = Translate(memory, in).memory
    BY <1>3 DEF LoadOrStore
  <2> QED BY <2>2, <2>3 DEF Results
<1>4. ASSUME NEW env \in Environments, NEW pc \in VirtualAddresses,
             NEW long \in BOOLEAN, Fetch(env, pc, long)
      PROVE  memory' \in Memories /\ Silent(memory, memory')
  <2> DEFINE low == Translate(memory, Half(env, pc))
             high == Translate(low.memory, Half(env, pc + 2))
  <2>1. /\ Half(env, pc) \in AccessRecords
        /\ Half(env, pc + 2) \in AccessRecords
    BY InputAssumption DEF Half, AccessRecords, Kinds
  <2>2. low \in Results(memory)
    BY <1>1, <2>1, TranslateCorrect
  <2>3. low.memory \in Memories /\ Silent(memory, low.memory)
    BY <2>2 DEF Results
  <2>4. PICK m \in Memories : m = low.memory
    BY <2>3
  <2>5. high \in Results(m)
    BY <2>1, <2>4, TranslateCorrect
  <2>6. high.memory \in Memories /\ Silent(m, high.memory)
    BY <2>5 DEF Results
  <2>7. PICK h \in Memories : h = high.memory
    BY <2>6
  <2>8. Silent(memory, h)
    BY <1>1, <2>3, <2>4, <2>6, <2>7, SilentTransitive
  <2>9. memory' = m \/ memory' = h
    BY <1>4, <2>4, <2>7 DEF Fetch
  <2> QED BY <2>3, <2>4, <2>8, <2>9
<1> QED
  BY <1>2, <1>3, <1>4
  DEF NextMemory, memoryVars, allVars, Install, WriteSatp

\* The tables stay tables, and the registers of translation have their types.
THEOREM MemoryTypeCorrect == SpecMemory => []MemoryInv
<1>1. InitMemory => MemoryInv
  BY PmpAssumption DEF InitMemory, Init, MemoryInv, TypeOK, Unused, PmpConfigs, Modes, PmpAddresses
<1>2. MemoryInv /\ [NextMemory]_allVars => MemoryInv'
  <2> SUFFICES ASSUME MemoryInv, [NextMemory]_allVars PROVE MemoryInv'
    OBVIOUS
  <2>1. TypeOK'
    <3>1. [Next]_vars
      BY DEF NextMemory, allVars, Install, WriteSatp, LoadOrStore, Fetch
    <3> QED BY <3>1, TypeStep DEF MemoryInv
  <2>2. memory' # None => memory' \in Memories
    <3>1. CASE memory # None
      BY <3>1, StepIsSilent
    <3>2. CASE memory = None
      BY <3>2, InputAssumption
      DEF NextMemory, memoryVars, allVars, Install, WriteSatp
    <3> QED BY <3>1, <3>2
  <2>3. satp' \in {Bare} \cup [mode : {"sv39"}, root : Dram]
    BY DEF MemoryInv, NextMemory, memoryVars, allVars, Install, WriteSatp, LoadOrStore, Fetch
  <2> QED BY <2>1, <2>2, <2>3 DEF MemoryInv
<1> QED BY <1>1, <1>2, PTL DEF SpecMemory

\* Setting bits for one access changes no translation of another, and no
\* entry otherwise.
THEOREM BitsAreInvisible == SpecMemory => UpdatesAreInvisible
<1>1. MemoryInv /\ [NextMemory]_allVars =>
        [memory # None /\ memory' # memory =>
           /\ \A in \in Inputs :
                LET before == Translate(memory, in)
                    after  == Translate(memory', in)
                IN  /\ after.outcome = before.outcome
                    /\ after.physical = before.physical
           /\ \A f \in Dram, i \in 0 .. TableSize - 1 :
                LET old == memory[f][i]
                    new == memory'[f][i]
                IN  /\ [new EXCEPT !.flags = {}] = [old EXCEPT !.flags = {}]
                    /\ old.flags \subseteq new.flags
                    /\ new.flags \subseteq old.flags \cup {"A", "D"}]_allVars
  <2> SUFFICES ASSUME MemoryInv, [NextMemory]_allVars, memory # None
               PROVE
           /\ \A in \in Inputs :
                LET before == Translate(memory, in)
                    after  == Translate(memory', in)
                IN  /\ after.outcome = before.outcome
                    /\ after.physical = before.physical
           /\ \A f \in Dram, i \in 0 .. TableSize - 1 :
                LET old == memory[f][i]
                    new == memory'[f][i]
                IN  /\ [new EXCEPT !.flags = {}] = [old EXCEPT !.flags = {}]
                    /\ old.flags \subseteq new.flags
                    /\ new.flags \subseteq old.flags \cup {"A", "D"}
    OBVIOUS
  <2>1. PICK m1 \in Memories : m1 = memory
    BY DEF MemoryInv
  <2>2. PICK m2 \in Memories : m2 = memory'
    BY StepIsSilent
  <2>3. Silent(m1, m2)
    BY <2>1, <2>2, StepIsSilent
  <2>4. ASSUME NEW in \in Inputs
        PROVE  Same(Translate(m1, in), Translate(m2, in))
    <3>1. in \in AccessRecords
      BY InputAssumption DEF Inputs, AccessRecords
    <3> QED BY <2>3, <3>1, TranslateCorrect
  <2>5. \A f \in Dram, i \in 0 .. TableSize - 1 : OnlyBits(m1[f][i], m2[f][i])
    BY <2>3, SilentIsOnlyBits
  <2> QED BY <2>1, <2>2, <2>4, <2>5 DEF Same, OnlyBits
<1> QED BY <1>1, MemoryTypeCorrect, PTL DEF SpecMemory, UpdatesAreInvisible

-----------------------------------------------------------------------------
(* The architecture's chains of entries, one entry at a time.              *)

Entry(in, level, f) == memory[f][VpnIndex(level, in.va)]

\* The walk may read the entry.
Readable(in, level, f) ==
  Protection(EntryBytes(<<f, VpnIndex(level, in.va)>>), "load")

\* The entry points to table g.
Links(in, level, f, g) ==
  /\ Entry(in, level, f).flags = {"V"} /\ ~Entry(in, level, f).reserved
  /\ Entry(in, level, f).ppn = g

\* The entry is a leaf for the access.
LeafFor(in, level, f) ==
  LET leaf   == Entry(in, level, f)
      target == Target(in, leaf, level)
  IN  /\ "V" \in leaf.flags /\ ~leaf.reserved
      /\ leaf.flags \cap {"R", "W", "X"} \in
           {{"R"}, {"X"}, {"R", "W"}, {"R", "X"}, {"R", "W", "X"}}
      /\ leaf.ppn % FramesAt[level] = 0
      /\ CASE in.access = "fetch" -> "X" \in leaf.flags
           [] in.access = "load"  ->
                "R" \in leaf.flags \/ ("X" \in leaf.flags /\ in.env.mxr)
           [] in.access = "store" -> "W" \in leaf.flags
      /\ CASE in.env.privilege = "user" -> "U" \in leaf.flags
           [] in.env.privilege = "supervisor" ->
                "U" \notin leaf.flags \/ (in.env.sum /\ in.access # "fetch")
      /\ Protection(target .. target + in.size - 1, in.access)
      /\ \/ Wanted(in) \subseteq leaf.flags
         \/ Protection(EntryBytes(<<f, VpnIndex(level, in.va)>>), "store")

\* A chain from a table of a level down to a leaf.
MapsFrom(in, path, level, top, table) ==
  /\ path[top] = table
  /\ \A l \in level .. top : Readable(in, l, path[l])
  /\ \A l \in level + 1 .. top : Links(in, l, path[l], path[l - 1])
  /\ LeafFor(in, level, path[level])

\* The chains of an access are those from the root.
LEMMA MapsFromRoot ==
  ASSUME NEW in, NEW env, NEW eff, NEW path, NEW level \in 0 .. RootLevel,
         eff.env = env, eff.access = in.access, eff.va = in.va,
         eff.size = in.size
  PROVE  Maps(in, env, path, level)
           <=> MapsFrom(eff, path, level, RootLevel, satp.root)
<1>1. \A l \in level .. RootLevel : l = level \/ l \in level + 1 .. RootLevel
  BY Sv39Assumption
<1>2. level \in level .. RootLevel /\ level + 1 .. RootLevel \subseteq level .. RootLevel
  BY Sv39Assumption
<1> DEFINE Pte(l) == memory[path[l]][VpnIndex(l, in.va)]
           Valid(l) == "V" \in Pte(l).flags /\ ~Pte(l).reserved
           Link(l) == Pte(l).flags = {"V"} /\ Pte(l).ppn = path[l - 1]
<1>3. /\ \A l \in level .. RootLevel : Valid(l)
      /\ \A l \in level + 1 .. RootLevel : Link(l)
      <=>
      /\ Valid(level)
      /\ \A l \in level + 1 .. RootLevel : Link(l) /\ ~Pte(l).reserved
  BY <1>1, <1>2
<1>4. \A l \in level + 1 .. RootLevel :
        Link(l) /\ ~Pte(l).reserved <=> Links(eff, l, path[l], path[l - 1])
  BY DEF Links, Entry
<1>5. \A l \in level .. RootLevel :
        Protection(EntryBytes(<<path[l], VpnIndex(l, in.va)>>), "load")
          <=> Readable(eff, l, path[l])
  BY DEF Readable
<1> DEFINE leaf == Pte(level)
           target == Target(in, leaf, level)
           Rest ==
             /\ leaf.flags \cap {"R", "W", "X"} \in
                  {{"R"}, {"X"}, {"R", "W"}, {"R", "X"}, {"R", "W", "X"}}
             /\ leaf.ppn % FramesAt[level] = 0
             /\ CASE in.access = "fetch" -> "X" \in leaf.flags
                  [] in.access = "load"  ->
                       "R" \in leaf.flags \/ ("X" \in leaf.flags /\ env.mxr)
                  [] in.access = "store" -> "W" \in leaf.flags
             /\ CASE env.privilege = "user" -> "U" \in leaf.flags
                  [] env.privilege = "supervisor" ->
                       "U" \notin leaf.flags \/ (env.sum /\ in.access # "fetch")
             /\ Protection(target .. target + in.size - 1, in.access)
             /\ \/ Wanted(in) \subseteq leaf.flags
                \/ Protection(EntryBytes(<<path[level], VpnIndex(level, in.va)>>), "store")
<1>6. Valid(level) /\ Rest <=> LeafFor(eff, level, path[level])
  BY DEF LeafFor, Entry, Target, Wanted
<1>7. Maps(in, env, path, level)
        <=> /\ path[RootLevel] = satp.root
            /\ \A l \in level .. RootLevel : Valid(l)
            /\ \A l \in level + 1 .. RootLevel : Link(l)
            /\ \A l \in level .. RootLevel :
                 Protection(EntryBytes(<<path[l], VpnIndex(l, in.va)>>), "load")
            /\ Rest
  BY DEF Maps
<1> HIDE DEF Valid, Link, Rest, leaf, target, Pte
<1> QED BY <1>3, <1>4, <1>5, <1>6, <1>7 DEF MapsFrom

\* A chain of one entry.
LEMMA LastLink ==
  ASSUME NEW in, NEW top \in Nat, NEW table, NEW path
  PROVE  MapsFrom(in, path, top, top, table)
           <=> /\ path[top] = table
               /\ Readable(in, top, table) /\ LeafFor(in, top, table)
<1>1. \A l \in top .. top : l = top
  OBVIOUS
<1>2. top \in top .. top /\ top + 1 .. top = {}
  OBVIOUS
<1> QED BY <1>1, <1>2 DEF MapsFrom

\* A chain of more, which goes on with the rest of it.
LEMMA FirstLink ==
  ASSUME NEW in, NEW top \in Nat, NEW level \in 0 .. top - 1, NEW table,
         NEW path, NEW rest, \A l \in level .. top - 1 : rest[l] = path[l]
  PROVE  MapsFrom(in, path, level, top, table)
           <=> /\ path[top] = table
               /\ Readable(in, top, table)
               /\ Links(in, top, table, rest[top - 1])
               /\ MapsFrom(in, rest, level, top - 1, rest[top - 1])
<1>1. /\ \A l \in level .. top : l = top \/ l \in level .. top - 1
      /\ \A l \in level + 1 .. top : l = top \/ l \in level + 1 .. top - 1
      /\ \A l \in level .. top - 1 : l \in level .. top /\ l # top
      /\ \A l \in level + 1 .. top - 1 :
           /\ l \in level + 1 .. top /\ l # top
           /\ l - 1 \in level .. top - 1 /\ l \in level .. top - 1
      /\ top \in level .. top /\ top \in level + 1 .. top
      /\ top - 1 \in level .. top - 1 /\ level \in level .. top - 1
  OBVIOUS
<1>2. /\ rest[top - 1] = path[top - 1] /\ rest[level] = path[level]
      /\ \A l \in level + 1 .. top - 1 : rest[l] = path[l] /\ rest[l - 1] = path[l - 1]
  BY <1>1
<1>3. (\A l \in level .. top : Readable(in, l, path[l]))
        <=> /\ Readable(in, top, path[top])
            /\ \A l \in level .. top - 1 : Readable(in, l, rest[l])
  BY <1>1
<1>4. (\A l \in level + 1 .. top : Links(in, l, path[l], path[l - 1]))
        <=> /\ Links(in, top, path[top], path[top - 1])
            /\ \A l \in level + 1 .. top - 1 : Links(in, l, rest[l], rest[l - 1])
  BY <1>1, <1>2
<1> QED BY <1>2, <1>3, <1>4 DEF MapsFrom

\* The walk accepts exactly the leaves that the architecture accepts.
LEMMA LeafAccepted ==
  ASSUME MemoryInv, memory \in Memories, NEW in \in AccessRecords,
         in.env.privilege # "machine", NEW level \in 0 .. RootLevel,
         NEW f \in Dram, NEW i \in Indices, i = VpnIndex(level, in.va)
  PROVE  LeafFor(in, level, f)
           <=> /\ ~Malformed(memory[f][i]) /\ IsLeaf(memory[f][i])
               /\ Fitting(memory, f, i, level, in)
               /\ Allowed(memory, f, i, level, in)
<1>1. PICK pte \in Ptes : pte = memory[f][i]
  BY DEF Memories, Indices
<1>2. PICK env \in EnvironmentRecords : env = in.env
  BY DEF AccessRecords
<1>3. PICK access \in Kinds : access = in.access
  BY DEF AccessRecords
<1>4. PICK addr \in Nat : addr = Reached(memory, f, i, level, in)
  BY ReachedTyped
<1>5. PICK size \in Nat \ {0} : size = in.size
  BY DEF AccessRecords
<1> DEFINE Combination ==
             pte.flags \cap {"R", "W", "X"} \in
               {{"R"}, {"X"}, {"R", "W"}, {"R", "X"}, {"R", "W", "X"}}
           Kind == CASE access = "fetch" -> "X" \in pte.flags
                     [] access = "load"  ->
                          "R" \in pte.flags \/ ("X" \in pte.flags /\ env.mxr)
                     [] access = "store" -> "W" \in pte.flags
           User == CASE env.privilege = "user" -> "U" \in pte.flags
                     [] env.privilege = "supervisor" ->
                          "U" \notin pte.flags \/ (env.sum /\ access # "fetch")
           Marks == \/ Bits(access) \subseteq pte.flags
                    \/ Protection(EntryBytes(<<f, i>>), "store")
           Reach == Protection(addr .. addr + size - 1, access)
           Aligned == pte.ppn % FramesAt[level] = 0
<1>6. LeafFor(in, level, f)
        <=> /\ "V" \in pte.flags /\ ~pte.reserved
            /\ Combination /\ Aligned /\ Kind /\ User /\ Reach /\ Marks
  <2>1. Entry(in, level, f) = pte
    BY <1>1 DEF Entry
  <2>2. Target(in, pte, level) = addr
    BY <1>1, <1>4 DEF Target, Reached
  <2>3. Wanted(in) = Bits(access)
    BY <1>3 DEF Wanted, Bits
  <2> QED BY <1>2, <1>3, <1>5, <2>1, <2>2, <2>3 DEF LeafFor
<1>7. "V" \in pte.flags /\ ~pte.reserved /\ Combination
        <=> ~Malformed(pte) /\ IsLeaf(pte)
  <2>1. PICK R \in SUBSET PteFlags : R = pte.flags
    BY DEF Ptes
  <2>2. R \cap {"R", "W", "X"} \in
          {{"R"}, {"X"}, {"R", "W"}, {"R", "X"}, {"R", "W", "X"}}
          <=> ("R" \in R \/ "X" \in R) /\ ("W" \in R => "R" \in R)
    <3>1. ASSUME R \cap {"R", "W", "X"} \in
                   {{"R"}, {"X"}, {"R", "W"}, {"R", "X"}, {"R", "W", "X"}}
          PROVE  ("R" \in R \/ "X" \in R) /\ ("W" \in R => "R" \in R)
      BY <3>1
    <3>2. ASSUME "R" \in R \/ "X" \in R, "W" \in R => "R" \in R
          PROVE  R \cap {"R", "W", "X"} \in
                   {{"R"}, {"X"}, {"R", "W"}, {"R", "X"}, {"R", "W", "X"}}
      <4>1. CASE "R" \in R /\ "W" \in R /\ "X" \in R
        <5>1. R \cap {"R", "W", "X"} = {"R", "W", "X"}
          BY <4>1
        <5> QED BY <5>1
      <4>2. CASE "R" \in R /\ "W" \in R /\ "X" \notin R
        <5>1. R \cap {"R", "W", "X"} = {"R", "W"}
          BY <4>2
        <5> QED BY <5>1
      <4>3. CASE "R" \in R /\ "W" \notin R /\ "X" \in R
        <5>1. R \cap {"R", "W", "X"} = {"R", "X"}
          BY <4>3
        <5> QED BY <5>1
      <4>4. CASE "R" \in R /\ "W" \notin R /\ "X" \notin R
        <5>1. R \cap {"R", "W", "X"} = {"R"}
          BY <4>4
        <5> QED BY <5>1
      <4>5. CASE "R" \notin R
        <5>1. R \cap {"R", "W", "X"} = {"X"}
          BY <3>2, <4>5
        <5> QED BY <5>1
      <4> QED BY <4>1, <4>2, <4>3, <4>4, <4>5
    <3> QED BY <3>1, <3>2
  <2>3. pte.reserved \in BOOLEAN
    BY DEF Ptes
  <2> QED BY <2>1, <2>2, <2>3 DEF Malformed, IsLeaf
<1>8. Aligned /\ Kind /\ User <=> Fitting(memory, f, i, level, in)
  <2>1. env.privilege \in {"user", "supervisor"}
    BY <1>2 DEF EnvironmentRecords, Privileges
  <2>2. User <=> IF env.privilege = "user" THEN "U" \in pte.flags
                 ELSE "U" \in pte.flags => env.sum /\ access # "fetch"
    BY <2>1
  <2>3. Kind <=> CASE access = "fetch" -> "X" \in pte.flags
                   [] access = "load"  ->
                        "R" \in pte.flags \/ (env.mxr /\ "X" \in pte.flags)
                   [] access = "store" -> "W" \in pte.flags
    BY DEF Kinds
  <2> HIDE DEF Kind, User
  <2> QED BY <1>1, <1>2, <1>3, <2>2, <2>3 DEF Fitting, Permits
<1>9. Reach /\ Marks <=> Allowed(memory, f, i, level, in)
  <2>1. TypeOK
    BY DEF MemoryInv
  <2>2. /\ addr .. addr + size - 1 \in SUBSET Nat
        /\ addr .. addr + size - 1 # {}
    <3>1. addr \in addr .. addr + size - 1
      OBVIOUS
    <3>2. \A b \in addr .. addr + size - 1 : b \in Nat
      OBVIOUS
    <3> QED BY <3>1, <3>2
  <2>3. PmpPrivilege(in.env) = "lower"
    BY DEF PmpPrivilege
  <2>4. CheckPmp(addr .. addr + size - 1, PmpPrivilege(in.env), access) <=> Reach
    BY <2>1, <2>2, <2>3, CheckIsProtection
  <2>5. CheckPmp(EntryBytes(<<f, i>>), "lower", "store")
          <=> Protection(EntryBytes(<<f, i>>), "store")
    <3>1. f \in Frames
      BY Sv39Assumption
    <3> QED BY <2>1, <3>1, EntryIsBytes, CheckIsProtection
  <2> HIDE DEF Reach
  <2> QED BY <1>1, <1>3, <1>4, <1>5, <2>4, <2>5 DEF Allowed
<1> HIDE DEF Combination, Kind, User, Marks, Reach, Aligned
<1> QED BY <1>1, <1>6, <1>7, <1>8, <1>9

\* The walk reads exactly the entries that the architecture lets it read.
LEMMA ReadableIs ==
  ASSUME MemoryInv, NEW in \in AccessRecords, NEW level \in 0 .. RootLevel,
         NEW table \in Frames
  PROVE  Unreadable(level, table, in)
           <=> ~(table \in Dram /\ Readable(in, level, table))
<1>1. PICK v \in Nat : v = in.va
  BY DEF AccessRecords
<1>2. PICK i \in Indices : i = VpnIndex(level, in.va)
  BY <1>1, IndexInTable
<1>3. CheckPmp(EntryBytes(<<table, i>>), "lower", "load")
        <=> Protection(EntryBytes(<<table, i>>), "load")
  BY EntryIsBytes, CheckIsProtection DEF MemoryInv
<1> QED BY <1>2, <1>3 DEF Unreadable, Readable

\* An entry is a pointer for the walk exactly if it links to a table.
LEMMA PointerLinks ==
  ASSUME MemoryInv, memory \in Memories, NEW in \in AccessRecords,
         NEW level, NEW f \in Dram, NEW i \in Indices, i = VpnIndex(level, in.va),
         NEW g
  PROVE  Links(in, level, f, g)
           <=> /\ ~Malformed(memory[f][i]) /\ Pointer(memory[f][i])
               /\ memory[f][i].ppn = g
<1>1. PICK pte \in Ptes : pte = memory[f][i]
  BY DEF Memories, Indices
<1>2. Entry(in, level, f) = pte
  BY <1>1 DEF Entry
<1>3. pte.flags \in SUBSET PteFlags /\ pte.reserved \in BOOLEAN
  BY DEF Ptes
<1>4. pte.flags = {"V"} /\ ~pte.reserved <=> ~Malformed(pte) /\ Pointer(pte)
  BY <1>3 DEF Malformed, Pointer, IsLeaf, PteFlags
<1> QED BY <1>1, <1>2, <1>4 DEF Links

-----------------------------------------------------------------------------
(* The walk finds the architecture's chains, and no others.                *)

\* A result is right about the chains from a table of a level.
Agrees(r, in, top, table) ==
  IF r.outcome = "ok"
  THEN \E level \in 0 .. top : \E path \in [level .. top -> Dram] :
         LET f == path[level]
             i == VpnIndex(level, in.va)
         IN  /\ MapsFrom(in, path, level, top, table)
             /\ r.physical = Reached(memory, f, i, level, in)
             /\ Bits(in.access) \subseteq r.memory[f][i].flags
  ELSE \A level \in 0 .. top : \A path \in [level .. top -> Dram] :
         ~MapsFrom(in, path, level, top, table)

\* What follows from a chain about its first entry.
LEMMA ChainStarts ==
  ASSUME MemoryInv, memory \in Memories, NEW in \in AccessRecords,
         in.env.privilege # "machine", NEW top \in 0 .. RootLevel,
         NEW table \in Frames, NEW level \in 0 .. top,
         NEW path \in [level .. top -> Dram],
         MapsFrom(in, path, level, top, table),
         NEW i \in Indices, i = VpnIndex(top, in.va)
  PROVE  /\ table \in Dram /\ ~Unreadable(top, table, in)
         /\ ~Malformed(memory[table][i])
         /\ IsLeaf(memory[table][i]) =>
              /\ Fitting(memory, table, i, top, in)
              /\ Allowed(memory, table, i, top, in)
         /\ ~IsLeaf(memory[table][i]) =>
              /\ level # top /\ Pointer(memory[table][i])
              /\ level \in 0 .. top - 1
              /\ \E rest \in [level .. top - 1 -> Dram] :
                   MapsFrom(in, rest, level, top - 1, memory[table][i].ppn)
<1>1. top \in level .. top /\ top \in Nat /\ level \in Nat
  OBVIOUS
<1>2. table \in Dram
  BY <1>1 DEF MapsFrom
<1>3. ~Unreadable(top, table, in)
  BY <1>1, <1>2, ReadableIs DEF MapsFrom
<1>4. CASE level = top
  <2>1. LeafFor(in, top, table)
    BY <1>4 DEF MapsFrom
  <2> QED BY <1>2, <1>3, <2>1, LeafAccepted
<1>5. CASE level # top
  <2>1. level \in 0 .. top - 1
    BY <1>5
  <2> DEFINE rest == [l \in level .. top - 1 |-> path[l]]
  <2>2. /\ rest \in [level .. top - 1 -> Dram]
        /\ \A l \in level .. top - 1 : rest[l] = path[l]
    <3>1. \A l \in level .. top - 1 : l \in level .. top
      BY <1>1
    <3> QED BY <3>1
  <2> HIDE DEF rest
  <2>3. /\ Links(in, top, table, rest[top - 1])
        /\ MapsFrom(in, rest, level, top - 1, rest[top - 1])
    BY <1>1, <2>1, <2>2, FirstLink
  <2>4. /\ ~Malformed(memory[table][i]) /\ Pointer(memory[table][i])
        /\ memory[table][i].ppn = rest[top - 1]
    BY <1>2, <2>3, PointerLinks
  <2>5. ~IsLeaf(memory[table][i])
    BY <2>4 DEF Pointer
  <2> QED BY <1>2, <1>3, <1>5, <2>1, <2>2, <2>3, <2>4, <2>5
<1> QED BY <1>4, <1>5

\* A turn of the loop is right, if what is below is.
LEMMA VisitAgrees ==
  ASSUME MemoryInv, memory \in Memories, NEW in \in AccessRecords,
         in.env.privilege # "machine", NEW top \in 0 .. RootLevel,
         NEW table \in Frames, NEW below,
         top # 0 => \A t \in Frames : Agrees(below[t], in, top - 1, t)
  PROVE  Agrees(Visit(memory, in, top, table, below), in, top, table)
<1> DEFINE r == Visit(memory, in, top, table, below)
<1> SUFFICES Agrees(r, in, top, table)
  OBVIOUS
<1>1. PICK v \in Nat : v = in.va
  BY DEF AccessRecords
<1>2. PICK i \in Indices : i = VpnIndex(top, in.va)
  BY <1>1, IndexInTable
<1>3. top \in Nat
  OBVIOUS
<1>4. \A mem, kind : Fault(kind, mem).outcome = kind
  BY DEF Fault
<1>5. CASE Unreadable(top, table, in)
  <2>1. r.outcome = "access"
    BY <1>4, <1>5 DEF Visit, Unreadable
  <2>2. \A level \in 0 .. top : \A path \in [level .. top -> Dram] :
          ~MapsFrom(in, path, level, top, table)
    BY <1>2, <1>5, ChainStarts
  <2> QED BY <2>1, <2>2 DEF Agrees
<1>6. CASE ~Unreadable(top, table, in)
  <2>1. table \in Dram /\ Readable(in, top, table)
    BY <1>6, ReadableIs
  <2>2. PICK pte \in Ptes : pte = memory[table][i]
    BY <2>1 DEF Memories, Indices
  <2>3. CASE Malformed(pte)
    <3>1. r.outcome = "page"
      BY <1>2, <1>4, <1>6, <2>2, <2>3 DEF Visit, Unreadable
    <3>2. \A level \in 0 .. top : \A path \in [level .. top -> Dram] :
            ~MapsFrom(in, path, level, top, table)
      BY <1>2, <2>2, <2>3, ChainStarts
    <3> QED BY <3>1, <3>2 DEF Agrees
  <2>4. CASE ~Malformed(pte) /\ IsLeaf(pte)
    <3>1. r = AtLeaf(memory, <<table, i>>, top, in)
      BY <1>2, <1>6, <2>2, <2>4 DEF Visit, Unreadable
    <3> DEFINE fits == Fitting(memory, table, i, top, in)
               allowed == Allowed(memory, table, i, top, in)
    <3>2. /\ r.outcome = IF ~fits THEN "page"
                         ELSE IF ~allowed THEN "access" ELSE "ok"
          /\ r.physical = IF fits /\ allowed
                          THEN Reached(memory, table, i, top, in) ELSE -1
          /\ fits /\ allowed => Bits(in.access) \subseteq r.memory[table][i].flags
      BY <2>1, <2>2, <2>4, <3>1, LeafVisited
    <3>3. CASE fits /\ allowed
      <4> DEFINE path == [l \in top .. top |-> table]
      <4>1. path \in [top .. top -> Dram] /\ path[top] = table /\ top \in 0 .. top
        BY <1>3, <2>1
      <4>2. LeafFor(in, top, table)
        BY <1>2, <2>1, <2>2, <2>4, <3>3, LeafAccepted
      <4> HIDE DEF path
      <4>3. MapsFrom(in, path, top, top, table)
        BY <1>3, <2>1, <4>1, <4>2, LastLink
      <4>4. r.outcome = "ok"
        BY <3>2, <3>3
      <4> HIDE DEF r
      <4> QED BY <1>2, <3>2, <3>3, <4>1, <4>3, <4>4 DEF Agrees
    <3>4. CASE ~(fits /\ allowed)
      <4>1. r.outcome # "ok"
        BY <3>2, <3>4
      <4>2. \A level \in 0 .. top : \A path \in [level .. top -> Dram] :
              ~MapsFrom(in, path, level, top, table)
        BY <1>2, <2>2, <2>4, <3>4, ChainStarts
      <4> QED BY <4>1, <4>2 DEF Agrees
    <3> QED BY <3>3, <3>4
  <2>5. CASE ~Malformed(pte) /\ ~IsLeaf(pte) /\ (top = 0 \/ ~Pointer(pte))
    <3>1. r.outcome = "page"
      BY <1>2, <1>4, <1>6, <2>2, <2>5 DEF Visit, Unreadable, Pointer
    <3>2. \A level \in 0 .. top : \A path \in [level .. top -> Dram] :
            ~MapsFrom(in, path, level, top, table)
      BY <1>2, <2>2, <2>5, ChainStarts
    <3> QED BY <3>1, <3>2 DEF Agrees
  <2>6. CASE ~Malformed(pte) /\ ~IsLeaf(pte) /\ top # 0 /\ Pointer(pte)
    <3>1. r = below[pte.ppn] /\ pte.ppn \in Frames
      BY <1>2, <1>6, <2>2, <2>6 DEF Visit, Unreadable, Pointer, Ptes
    <3>2. Agrees(r, in, top - 1, pte.ppn)
      BY <2>6, <3>1
    <3> HIDE DEF r
    <3>3. CASE r.outcome = "ok"
      <4> DEFINE Finds(level, rest) ==
                   LET f == rest[level]
                       j == VpnIndex(level, in.va)
                   IN  /\ MapsFrom(in, rest, level, top - 1, pte.ppn)
                       /\ r.physical = Reached(memory, f, j, level, in)
                       /\ Bits(in.access) \subseteq r.memory[f][j].flags
      <4>0. PICK level \in 0 .. top - 1 :
              \E rest \in [level .. top - 1 -> Dram] : Finds(level, rest)
        BY <3>2, <3>3 DEF Agrees
      <4>1. PICK rest \in [level .. top - 1 -> Dram] : Finds(level, rest)
        BY <4>0
      <4> DEFINE path == [l \in level .. top |-> IF l = top THEN table ELSE rest[l]]
      <4>2. /\ \A l \in level .. top - 1 : l \in level .. top /\ l # top
            /\ \A l \in level .. top : l # top => l \in level .. top - 1
            /\ top \in level .. top /\ level \in level .. top - 1
            /\ level \in 0 .. top
        BY <1>3
      <4>3. /\ path \in [level .. top -> Dram] /\ path[top] = table
            /\ \A l \in level .. top - 1 : rest[l] = path[l]
        BY <2>1, <4>2
      <4> HIDE DEF path
      <4>4. rest[top - 1] = pte.ppn
        BY <4>1 DEF MapsFrom
      <4>5. Links(in, top, table, rest[top - 1])
        BY <1>2, <2>1, <2>2, <2>6, <4>4, PointerLinks
      <4>6. MapsFrom(in, path, level, top, table)
        BY <1>3, <2>1, <4>1, <4>3, <4>4, <4>5, FirstLink
      <4>7. path[level] = rest[level]
        BY <4>2, <4>3
      <4> QED BY <3>3, <4>1, <4>2, <4>3, <4>6, <4>7 DEF Agrees
    <3>4. CASE r.outcome # "ok"
      <4>1. \A level \in 0 .. top : \A path \in [level .. top -> Dram] :
              ~MapsFrom(in, path, level, top, table)
        <5> SUFFICES ASSUME NEW level \in 0 .. top,
                            NEW path \in [level .. top -> Dram],
                            MapsFrom(in, path, level, top, table)
                     PROVE  FALSE
          OBVIOUS
        <5>1. /\ level \in 0 .. top - 1
              /\ \E rest \in [level .. top - 1 -> Dram] :
                   MapsFrom(in, rest, level, top - 1, memory[table][i].ppn)
          BY <1>2, <2>2, <2>6, ChainStarts
        <5> QED BY <2>2, <3>2, <3>4, <5>1 DEF Agrees
      <4> QED BY <3>4, <4>1 DEF Agrees
    <3> QED BY <3>3, <3>4 DEF r
  <2> QED BY <2>3, <2>4, <2>5, <2>6
<1> QED BY <1>5, <1>6

\* The walk is right about the chains from the root.
LEMMA WalkAgrees ==
  ASSUME MemoryInv, memory \in Memories, NEW in \in AccessRecords,
         in.env.privilege # "machine", satp.root \in Frames
  PROVE  /\ Agrees(Walk(memory, in), in, RootLevel, satp.root)
         /\ Walk(memory, in) \in Results(memory)
<1>1. PICK w : /\ IsWalk(w, memory, in)
               /\ Walk(memory, in) = w[RootLevel][satp.root]
  BY WalkUnfolds
<1>2. RootLevel \in 0 .. RootLevel
  BY Sv39Assumption
<1> DEFINE Bad == {level \in 0 .. RootLevel :
                     \E table \in Frames : ~Agrees(w[level][table], in, level, table)}
<1>3. Bad = {}
  <2> SUFFICES ASSUME Bad # {} PROVE FALSE
    OBVIOUS
  <2>1. Bad \in SUBSET Nat
    BY Sv39Assumption
  <2>2. PICK top \in Bad : \A l \in Bad : top <= l
    <3> HIDE DEF Bad
    <3> QED BY <2>1, Least
  <2>3. top \in 0 .. RootLevel
    BY <2>2
  <2>4. top # 0 => top - 1 \in 0 .. RootLevel /\ top - 1 \notin Bad
    BY <2>2, Sv39Assumption
  <2>5. top # 0 => \A t \in Frames : Agrees(w[top - 1][t], in, top - 1, t)
    BY <2>4
  <2>6. PICK table \in Frames : ~Agrees(w[top][table], in, top, table)
    BY <2>2
  <2>7. w[top][table] = Visit(memory, in, top, table, w[top - 1])
    BY <1>1, <2>3 DEF IsWalk
  <2>8. Agrees(Visit(memory, in, top, table, w[top - 1]), in, top, table)
    <3> HIDE DEF Bad
    <3> QED BY <2>3, <2>5, VisitAgrees
  <2> QED BY <2>6, <2>7, <2>8
<1>4. w[RootLevel][satp.root] \in Results(memory)
  BY <1>1, <1>2 DEF IsWalk
<1> QED BY <1>1, <1>2, <1>3, <1>4

\* Every access that is translated succeeds exactly if the architecture maps
\* it, and reaches what the architecture says.
THEOREM TranslationsAreArchitectural ==
  SpecMemory => []TranslationIsArchitectural
<1>1. MemoryInv => TranslationIsArchitectural
  <2> SUFFICES ASSUME MemoryInv, memory # None, satp.mode = "sv39",
                      NEW in \in Inputs,
                      Effective(in.env, in.access).privilege # "machine"
               PROVE
        LET env   == Effective(in.env, in.access)
            done  == Translate(memory, in)
            chains(level) == {path \in [level .. RootLevel -> Dram] :
                                Canonical(in.va) /\ Maps(in, env, path, level)}
        IN  IF done.outcome # "ok"
            THEN /\ done.memory = memory
                 /\ \A level \in 0 .. RootLevel : chains(level) = {}
            ELSE \E level \in 0 .. RootLevel : \E path \in chains(level) :
                   LET i == VpnIndex(level, in.va)
                   IN  /\ done.physical = Target(in, memory[path[level]][i], level)
                       /\ Wanted(in) \subseteq done.memory[path[level]][i].flags
    BY DEF TranslationIsArchitectural
  <2> DEFINE env == Effective(in.env, in.access)
             done == Translate(memory, in)
             chains(level) == {path \in [level .. RootLevel -> Dram] :
                                 Canonical(in.va) /\ Maps(in, env, path, level)}
             Reaches(path, level) ==
               LET i == VpnIndex(level, in.va)
               IN  /\ done.physical = Target(in, memory[path[level]][i], level)
                   /\ Wanted(in) \subseteq done.memory[path[level]][i].flags
  <2> SUFFICES IF done.outcome # "ok"
               THEN /\ done.memory = memory
                    /\ \A level \in 0 .. RootLevel : chains(level) = {}
               ELSE \E level \in 0 .. RootLevel : \E path \in chains(level) :
                      Reaches(path, level)
    OBVIOUS
  <2>1. memory \in Memories
    BY DEF MemoryInv
  <2>2. in \in AccessRecords
    BY InputAssumption DEF Inputs, AccessRecords
  <2>3. env \in EnvironmentRecords
    <3>1. PICK e \in EnvironmentRecords : e = in.env
      BY <2>2 DEF AccessRecords
    <3> QED BY <3>1, EffectiveTyped
  <2>4. env.privilege # "machine"
    OBVIOUS
  <2>5. PICK e \in EnvironmentRecords : e = env
    BY <2>3
  <2> HIDE DEF env
  <2>6. PICK eff \in AccessRecords :
          /\ eff = [in EXCEPT !.env = e]
          /\ eff.env = e /\ eff.access = in.access /\ eff.va = in.va
          /\ eff.size = in.size
    <3> DEFINE x == [in EXCEPT !.env = e]
    <3>1. x \in AccessRecords
      BY <2>2 DEF AccessRecords
    <3>2. x.env = e /\ x.access = in.access /\ x.va = in.va /\ x.size = in.size
      BY <2>2 DEF AccessRecords
    <3> QED BY <3>1, <3>2
  <2>7. done = IF ~Canonical(in.va) THEN Fault("page", memory)
               ELSE Walk(memory, eff)
    BY <2>4, <2>5, <2>6 DEF Translate, env
  <2>8. \A level \in 0 .. RootLevel : \A path :
          Maps(in, env, path, level)
            <=> MapsFrom(eff, path, level, RootLevel, satp.root)
    BY <2>5, <2>6, MapsFromRoot
  <2>9. CASE ~Canonical(in.va)
    <3>1. done.outcome # "ok" /\ done.memory = memory
      BY <2>7, <2>9 DEF Fault
    <3>2. \A level \in 0 .. RootLevel : chains(level) = {}
      BY <2>9
    <3> QED BY <3>1, <3>2
  <2>10. CASE Canonical(in.va)
    <3>1. satp.root \in Frames
      BY SatpTyped
    <3>2. eff.env.privilege # "machine"
      BY <2>4, <2>5, <2>6
    <3>3. Agrees(done, eff, RootLevel, satp.root) /\ done \in Results(memory)
      BY <2>1, <2>7, <2>10, <3>1, <3>2, WalkAgrees
    <3> HIDE DEF done
    <3>4. \A level \in 0 .. RootLevel : \A path :
            path \in chains(level)
              <=> /\ path \in [level .. RootLevel -> Dram]
                  /\ MapsFrom(eff, path, level, RootLevel, satp.root)
      BY <2>8, <2>10
    <3> HIDE DEF chains, Reaches
    <3>5. CASE done.outcome # "ok"
      <4>1. done.memory = memory
        BY <3>3, <3>5 DEF Results
      <4>2. \A level \in 0 .. RootLevel : chains(level) = {}
        BY <3>3, <3>4, <3>5 DEF Agrees, chains
      <4> QED BY <3>5, <4>1, <4>2
    <3>6. CASE done.outcome = "ok"
      <4> DEFINE Finds(level, path) ==
                   LET f == path[level]
                       i == VpnIndex(level, eff.va)
                   IN  /\ MapsFrom(eff, path, level, RootLevel, satp.root)
                       /\ done.physical = Reached(memory, f, i, level, eff)
                       /\ Bits(eff.access) \subseteq done.memory[f][i].flags
      <4>1. PICK level \in 0 .. RootLevel :
              \E path \in [level .. RootLevel -> Dram] : Finds(level, path)
        BY <3>3, <3>6 DEF Agrees
      <4>2. PICK path \in [level .. RootLevel -> Dram] : Finds(level, path)
        BY <4>1
      <4>3. path \in chains(level)
        BY <3>4, <4>2
      <4>4. Reaches(path, level)
        BY <2>6, <4>2 DEF Reaches, Reached, Target, Wanted, Bits
      <4> QED BY <3>6, <4>3, <4>4
    <3> QED BY <3>5, <3>6
  <2> QED BY <2>9, <2>10
<1> QED BY <1>1, MemoryTypeCorrect, PTL

\* Protection keeps its promises while memory is translated: the whole system
\* is one of its users.
THEOREM MemoryUsesProtection == SpecMemory => Spec
<1>1. InitMemory => Init
  BY DEF InitMemory
<1>2. [NextMemory]_allVars => [Next]_vars
  BY DEF NextMemory, allVars, Install, WriteSatp, LoadOrStore, Fetch
<1> QED BY <1>1, <1>2, PTL DEF SpecMemory, Spec
=============================================================================

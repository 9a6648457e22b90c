--------------------------- MODULE KernelRoutines ---------------------------
(***************************************************************************)
(* The fast paths of src/cpu/xv6_accelerator.rs for memmove, memcmp,       *)
(* strncmp, strncpy and strlen, and the byte-filling loop recognised in    *)
(* src/instruction.rs. Each does in one step what the guest would do in    *)
(* many, or declines and leaves it to the guest's own code. Every byte is  *)
(* translated on its own, so that a page that is not mapped stops a        *)
(* routine half-way: the hart then takes the fault at its entry.           *)
(*                                                                         *)
(* A routine is a function of the mapping and of a record r: the memory it *)
(* finds, its argument registers a0, a1 and a2, and how it ended. Bytes    *)
(* are small numbers; addresses wrap. Pages are mapped for every access or *)
(* for none.                                                               *)
(***************************************************************************)
EXTENDS FiniteSets, Integers, FiniteSetsExt, Loops

CONSTANTS
  ByteValues,       \* a byte is one of 0 .. ByteValues - 1
  AddressCount,     \* addresses
  PageBytes,        \* PAGE_SIZE
  WordBytes,        \* the bytes the fill writes at once
  DramBase,         \* dram_base
  DramEnd,          \* dram_end
  MaxBytes          \* XV6_FAST_PATH_MAX_BYTES

Bytes == 0 .. ByteValues - 1
Addresses == 0 .. AddressCount - 1
PageNumbers == 0 .. AddressCount \div PageBytes - 1

ASSUME RoutinesAssumption ==
  /\ ByteValues \in Nat \ {0} /\ AddressCount \in Nat \ {0}
  /\ PageBytes \in Nat \ {0} /\ AddressCount % PageBytes = 0
  /\ WordBytes \in Nat \ {0}
  /\ DramBase \in Addresses /\ DramEnd \in DramBase .. AddressCount
  /\ MaxBytes \in 1 .. AddressCount

VARIABLES
  bytes,            \* the memory, by physical address
  frames,           \* page -> its frame; a page not in the domain is not mapped
  lastCall          \* the last call: its routine, its arguments and the record
                    \* it ended with (history)

routineVars == <<bytes, frames, lastCall>>

Plus(address, n) == (address + n) % AddressCount
Mapped(map, address) == address \div PageBytes \in DOMAIN map
Physical(map, address) ==
  (map[address \div PageBytes] * PageBytes) + (address % PageBytes)

\* A routine between two of its steps, and at its end.
RoutineStates ==
  [how : {"running", "returned", "again", "declined", "faulted"},
   memory : [Addresses -> Bytes], a0 : Int, a1 : Int, a2 : Int]

Stop(r, how) == [r EXCEPT !.how = how]
Returned(r, value) == [r EXCEPT !.how = "returned", !.a0 = value]

-----------------------------------------------------------------------------
(* Bytes and loops.                                                        *)

\* read_u8, after the test that the address is mapped.
ReadByte(map, r, address) == r.memory[Physical(map, address)]

\* write_u8.
WriteByte(map, r, address, byte) ==
  IF Mapped(map, address)
  THEN [r EXCEPT !.memory[Physical(map, address)] = byte]
  ELSE Stop(r, "faulted")

\* The turns 0 .. n - 1 of a routine's own loop, as long as it runs: a fault
\* (`?`) or a return ends it.
Loop(turn, r, n) ==
  Repeat([i \in Nat |-> [s \in RoutineStates |->
            IF s.how = "running" THEN turn[i][s] ELSE s]], r, n)

\* A loop that came to its end returns value.
EndWith(value, r) == IF r.how = "running" THEN Returned(r, value) ELSE r

\* A length taken as an unsigned number exceeds the budget.
Long(n) == n < 0 \/ n > MaxBytes

-----------------------------------------------------------------------------
(* The routines.                                                           *)

\* Mutant: bytes are moved one by one, from the first to the last.
BugMovesForward(map, r) ==
  LET Move[i \in Nat] == [s \in RoutineStates |->
        IF Mapped(map, Plus(r.a1, i))
        THEN WriteByte(map, s, Plus(r.a0, i), ReadByte(map, s, Plus(r.a1, i)))
        ELSE Stop(s, "faulted")]
  IN  IF Long(r.a2) THEN Stop(r, "declined")
      ELSE EndWith(r.a0, Loop(Move, r, r.a2))

\* memmove(dst, src, len) reads everything before it writes.
Memmove(map, r) ==
  LET Read[i \in Nat] == [s \in RoutineStates |->
        IF Mapped(map, Plus(r.a1, i)) THEN s ELSE Stop(s, "faulted")]
      Write[i \in Nat] == [s \in RoutineStates |->
        WriteByte(map, s, Plus(r.a0, i), ReadByte(map, r, Plus(r.a1, i)))]
  IN  IF Long(r.a2) THEN Stop(r, "declined")
      ELSE EndWith(r.a0, Loop(Write, Loop(Read, r, r.a2), r.a2))

\* memcmp(lhs, rhs, len), and strncmp, which ends with the string.
Compare(map, r, string) ==
  LET Test[i \in Nat] == [s \in RoutineStates |->
        LET a == ReadByte(map, r, Plus(r.a0, i))
            b == ReadByte(map, r, Plus(r.a1, i))
        IN  IF ~Mapped(map, Plus(r.a0, i)) \/ ~Mapped(map, Plus(r.a1, i))
            THEN Stop(s, "faulted")
            ELSE IF a # b \/ (string /\ a = 0) THEN Returned(s, a - b) ELSE s]
  IN  IF Long(r.a2) THEN Stop(r, "declined")
      ELSE EndWith(0, Loop(Test, r, r.a2))

\* Mutant: the argument registers serve as the running pointers.
BugMovesArguments(map, r) ==
  LET Copy[i \in Nat] == [s \in RoutineStates |->
        LET ended == \E j \in 0 .. i - 1 : ReadByte(map, s, Plus(r.a0, j)) = 0
            byte  == IF ended THEN 0 ELSE ReadByte(map, s, s.a1)
        IN  IF ~ended /\ ~Mapped(map, s.a1) THEN Stop(s, "faulted")
            ELSE [WriteByte(map, s, s.a0, byte) EXCEPT
                    !.a0 = Plus(@, 1), !.a1 = Plus(@, 1)]]
  IN  IF r.a2 > MaxBytes THEN Stop(r, "declined")
      ELSE EndWith(r.a0, Loop(Copy, r, r.a2))

\* strncpy(dst, src, n): the string, then zeros. Here n is signed.
Strncpy(map, r) ==
  LET Copy[i \in Nat] == [s \in RoutineStates |->
        LET ended == \E j \in 0 .. i - 1 : ReadByte(map, s, Plus(r.a0, j)) = 0
            byte  == IF ended THEN 0 ELSE ReadByte(map, s, Plus(r.a1, i))
        IN  IF ~ended /\ ~Mapped(map, Plus(r.a1, i)) THEN Stop(s, "faulted")
            ELSE WriteByte(map, s, Plus(r.a0, i), byte)]
  IN  IF r.a2 > MaxBytes THEN Stop(r, "declined")
      ELSE EndWith(r.a0, Loop(Copy, r, r.a2))

\* strlen(base) gives up when it has read as many bytes as the budget allows.
Strlen(map, r) ==
  LET Test[i \in Nat] == [s \in RoutineStates |->
        IF ~Mapped(map, Plus(r.a0, i)) THEN Stop(s, "faulted")
        ELSE IF ReadByte(map, r, Plus(r.a0, i)) = 0 THEN Returned(s, i) ELSE s]
      done == Loop(Test, r, MaxBytes)
  IN  IF done.how = "running" THEN Stop(r, "declined") ELSE done

\* Mutant: the last word may reach beyond the end.
BugFillOverruns(start, end) ==
  LET aligned == Min({a \in start .. end : a = end \/ a % WordBytes = 0})
      words == {a \in aligned .. end - 1 : a % WordBytes = 0}
  IN  (start .. aligned - 1) \cup
      ((UNION {a .. a + WordBytes - 1 : a \in words}) \cap Addresses)

\* fill_dram_bytes: the addresses of start .. end - 1, as single bytes up to
\* a word boundary, words, and the bytes that remain.
FillDramBytes(start, end) ==
  LET aligned == Min({a \in start .. end : a = end \/ a % WordBytes = 0})
      words == {a \in aligned .. end - WordBytes : a % WordBytes = 0}
      rest  == aligned + Cardinality(words) * WordBytes
  IN  (start .. aligned - 1)
        \cup (UNION {a .. a + WordBytes - 1 : a \in words})
        \cup (rest .. end - 1)

\* identity_store_range.
IdentityStoreRange(map, start, end) ==
  \A a \in start .. end - 1 : Mapped(map, a) /\ Physical(map, a) = a

\* What follows the branch at the end of sb, addi, bne: a0 points to the next
\* byte, a1 behind the last, and the loop stores a2, or the pointer itself.
\* "again" goes back to the sb. Any other code around the branch declines, as
\* "fill pointer" does. The accessed and dirty bits that the translation sets
\* are not part of the bytes.
FillLoop(map, r, storesPointer) ==
  LET end == Min({r.a1, r.a0 + MaxBytes})
      filled == FillDramBytes(r.a0, end)
  IN  IF \/ storesPointer \/ r.a0 >= r.a1 \/ r.a0 < DramBase \/ r.a1 > DramEnd
         \/ ~IdentityStoreRange(map, r.a0, end)
      THEN Stop(r, "declined")
      ELSE [r EXCEPT !.how = IF end = r.a1 THEN "returned" ELSE "again",
                     !.a0 = end,
                     !.memory = [a \in Addresses |->
                       IF a \in filled THEN r.a2 % ByteValues ELSE @[a]]]

\* The hart is at the entry of a routine, or at the branch of the loop, in
\* supervisor mode with tp = 0, as the kernel is: the guards on these hold.
Run(routine, map, r) ==
  CASE routine = "memmove" -> Memmove(map, r)
    [] routine = "memcmp"  -> Compare(map, r, FALSE)
    [] routine = "strncmp" -> Compare(map, r, TRUE)
    [] routine = "strncpy" -> Strncpy(map, r)
    [] routine = "strlen"  -> Strlen(map, r)
    [] routine = "fill"    -> FillLoop(map, r, FALSE)
    [] routine = "fill pointer" -> FillLoop(map, r, TRUE)

Copies == {"memmove", "strncpy"}
Compares == {"memcmp", "strncmp"}
Fills == {"fill", "fill pointer"}

-----------------------------------------------------------------------------

Call(routine, a0, a1, a2) ==
  LET end == Run(routine, frames, [how |-> "running", memory |-> bytes,
                                   a0 |-> a0, a1 |-> a1, a2 |-> a2])
  IN  /\ bytes' = end.memory
      /\ lastCall' = [routine |-> routine, args |-> <<a0, a1, a2>>,
                      how |-> end.how, regs |-> <<end.a0, end.a1, end.a2>>]
      /\ UNCHANGED frames

NoCall == [routine |-> "none", args |-> <<0, 0, 0>>, how |-> "returned",
           regs |-> <<0, 0, 0>>]

\* The guest stores a byte itself, or maps pages in another way.
StoreByte(a, byte) ==
  /\ bytes' = [bytes EXCEPT ![a] = byte]
  /\ lastCall' = NoCall
  /\ UNCHANGED frames

\* No two pages share a frame.
Mappings ==
  {map \in UNION {[mapped -> PageNumbers] : mapped \in SUBSET PageNumbers} :
     \A p, q \in DOMAIN map : map[p] = map[q] => p = q}

Remap(map) ==
  /\ frames' = map
  /\ lastCall' = NoCall
  /\ UNCHANGED bytes

RoutineInit ==
  /\ bytes = [a \in Addresses |-> 0]
  /\ frames = [p \in PageNumbers |-> p]
  /\ lastCall = NoCall

RoutineNext ==
  \/ \E a0, a1 \in Addresses, n \in -1 .. MaxBytes + 1 :
       \E routine \in Copies \cup Compares : Call(routine, a0, a1, n)
  \/ \E a0 \in Addresses : Call("strlen", a0, 0, 0)
  \/ \E a0 \in Addresses, a1 \in 0 .. AddressCount, byte \in Bytes :
       \E routine \in Fills : Call(routine, a0, a1, byte)
  \/ \E a \in Addresses, byte \in Bytes : StoreByte(a, byte)
  \/ \E map \in Mappings : Remap(map)

RoutineSpec == RoutineInit /\ [][RoutineNext]_routineVars

-----------------------------------------------------------------------------
(* Properties.                                                             *)

\* The byte the guest sees at an address; -1 where nothing is mapped.
Seen(address) ==
  IF Mapped(frames, address) THEN bytes[Physical(frames, address)] ELSE -1

\* After a call, the guest sees New(i) at the i-th of n addresses from a on,
\* and everything else as it was.
Writes(a, n, New(_)) ==
  bytes' = [p \in Addresses |->
              LET here == {i \in 0 .. n - 1 : Physical(frames, Plus(a, i)) = p}
              IN  IF here = {} THEN bytes[p] ELSE New(CHOOSE i \in here : TRUE)]

Apart(a, b, n) ==
  {Plus(a, i) : i \in 0 .. n - 1} \cap {Plus(b, i) : i \in 0 .. n - 1} = {}

\* The place at which a comparison of n bytes is decided, if there is one.
Decided(a, b, n, string) ==
  {i \in 0 .. n - 1 : \/ Seen(Plus(a, i)) # Seen(Plus(b, i))
                      \/ string /\ Seen(Plus(a, i)) = 0}

IsExact ==
  LET a == lastCall'.args[1]
      b == lastCall'.args[2]
      n == lastCall'.args[3]
      value == lastCall'.regs[1]
      Is(routine) == lastCall'.routine = routine /\ lastCall'.how = "returned"
      Copied(i) == Seen(Plus(b, i))
      Padded(i) == IF \E j \in 0 .. i : Copied(j) = 0 THEN 0 ELSE Copied(i)
      decided == Decided(a, b, n, Is("strncmp"))
  IN  /\ Is("memmove") => value = a /\ Writes(a, n, Copied)
      /\ Is("strncpy") /\ Apart(a, b, n) => value = a /\ Writes(a, n, Padded)
      /\ Is("memcmp") \/ Is("strncmp") =>
           /\ UNCHANGED bytes
           /\ value = IF decided = {} THEN 0
                      ELSE Seen(Plus(a, Min(decided))) - Copied(Min(decided))
      /\ Is("strlen") =>
           /\ UNCHANGED bytes
           /\ value = Min({i \in Addresses : Seen(Plus(a, i)) = 0})

\* A routine that returns has done what the C function it replaces does:
\* memmove also when the ranges overlap, strncpy when they do not.
RoutinesAreExact == [][IsExact]_routineVars

IsTheLoop ==
  LET a == lastCall'.args[1]
      end == lastCall'.regs[1]
      Stored(i) == (IF lastCall'.routine = "fill" THEN lastCall'.args[3]
                    ELSE a + i) % ByteValues
  IN  lastCall'.routine \in Fills /\ lastCall'.how # "declined" =>
        /\ end > a
        /\ lastCall'.how = "returned" <=> end = lastCall'.args[2]
        /\ Writes(a, end - a, Stored)

\* The filling loop is where the guest's loop would be after as many rounds
\* as the pointer has advanced, and has stored what these would have stored.
FillIsTheLoop == [][IsTheLoop]_routineVars

\* Every page is mapped, and those that were are where they were.
MapsMore(map) ==
  /\ \A p \in DOMAIN frames : p \in DOMAIN map /\ map[p] = frames[p]
  /\ DOMAIN map = PageNumbers

CanBeRepeated ==
  LET a == lastCall'.args[1]
      Again(memory, map) ==
        Run(lastCall'.routine, map,
            [how |-> "running", memory |-> memory, a0 |-> lastCall'.regs[1],
             a1 |-> lastCall'.regs[2], a2 |-> lastCall'.regs[3]])
  IN  lastCall'.how \in {"declined", "faulted"} =>
        /\ lastCall'.regs = lastCall'.args
        /\ lastCall'.how = "declined" => UNCHANGED bytes
        /\ bytes' # bytes /\ Apart(a, lastCall'.args[2], lastCall'.args[3])
           => \A map \in Mappings :
                MapsMore(map) => Again(bytes', map) = Again(bytes, map)

\* A routine that declines has done nothing. One that faults leaves its
\* arguments as they were. If it has written nothing, or its source and its
\* destination are apart, a second call on mapped pages has the outcome the
\* first would have had. An overlapping memmove that has written reads its own
\* bytes the second time: of that call nothing more is said.
CallsCanBeRepeated == [][CanBeRepeated]_routineVars
=============================================================================

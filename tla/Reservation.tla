----------------------------- MODULE Reservation ----------------------------
(***************************************************************************)
(* Load-reserved and store-conditional: the reservation of the hart        *)
(* (src/cpu.rs, src/instruction.rs) against the write epochs of DRAM pages *)
(* (src/dram.rs), under stores and atomics of the hart, the updates of     *)
(* page table entries that its address translations make, traps, DMA and   *)
(* resets.                                                                 *)
(*                                                                         *)
(* Memory is a set of cells; an access is the set of the cells it covers,  *)
(* which stands for its address and width. What is written does not        *)
(* matter, only that it is: the history variables record it.               *)
(***************************************************************************)
EXTENDS Integers

CONSTANTS
  Cells,            \* the smallest units of memory told apart
  Pages,
  PageOf,           \* cell -> page
  Accesses,         \* naturally aligned accesses of 4 or 8 bytes
  Entries,          \* those of 8 bytes that may be page table entries
  MaxEpoch          \* bound on epochs (64-bit in the code)

ASSUME MemoryAssumption ==
  /\ PageOf \in [Cells -> Pages]
  /\ Accesses \subseteq (SUBSET Cells) \ {{}}
  /\ \A a \in Accesses : \A c, d \in a : PageOf[c] = PageOf[d]
  /\ Entries \subseteq Accesses
  /\ MaxEpoch \in Nat

VARIABLES
  epochs,           \* page_epochs: page -> number of writes
  reservation,      \* reservation: none ({}) or one record
  linked,           \* history: the access of the last LR,
  touched,          \*   the cells written since,
  disturbed,        \*   whether its page was written, a trap was taken or
                    \*   the hart stored since,
  stored,           \* history: what the SC just executed stored
  walked            \*   and what its own translation wrote before

history == <<linked, touched, disturbed, stored, walked>>
reservationVars == <<epochs, reservation, history>>

PagesOf(cells) == {PageOf[c] : c \in cells}

\* The page an access lies in (page_index).
PageIndex(access) == CHOOSE p \in Pages : \A c \in access : PageOf[c] = p

\* What the page walk of an instruction may write: nothing, or the entry
\* whose accessed and dirty bits it updates.
Walks == {{}} \cup Entries

-----------------------------------------------------------------------------
(* Memory.                                                                 *)

\* Mutant: a write that crosses a page border is recorded in one page only.
BugRecordsOnePage(cells) ==
  epochs' = IF cells = {} THEN epochs
            ELSE LET page == CHOOSE p \in PagesOf(cells) : TRUE
                 IN  [epochs EXCEPT ![page] = @ + 1]

\* record_write.
RecordWrite(cells) ==
  epochs' = [p \in Pages |->
               IF p \in PagesOf(cells) THEN epochs[p] + 1 ELSE epochs[p]]

Room == \A p \in Pages : epochs[p] < MaxEpoch

\* What the history makes of a write that is not the store of an SC.
Observe(cells, disturbs) ==
  /\ touched' = touched \cup cells
  /\ disturbed' = (disturbed \/ disturbs \/ stored # {}
                     \/ PagesOf(cells) \cap PagesOf(linked) # {})
  /\ stored' = {} /\ walked' = {}
  /\ UNCHANGED linked

-----------------------------------------------------------------------------
(* Instructions of the hart. A walk is the write of the instruction's own  *)
(* translation.                                                            *)

\* Mutant: the reservation is taken before the translation.
BugReservesBeforeWalk(access, walk) ==
  /\ Room
  /\ RecordWrite(walk)
  /\ reservation' = {[access |-> access,
                      epoch |-> epochs[PageIndex(access)]]}
  /\ linked' = access
  /\ touched' = {} /\ disturbed' = FALSE
  /\ stored' = {} /\ walked' = {}

\* LR of memory that supports reservations.
LoadReserved(access, walk) ==
  /\ Room
  /\ RecordWrite(walk)
  /\ reservation' = {[access |-> access,
                      epoch |-> epochs'[PageIndex(access)]]}
  /\ linked' = access
  /\ touched' = {} /\ disturbed' = FALSE
  /\ stored' = {} /\ walked' = {}

\* take_reservation: the access reserved, if its page was not written.
TakeReservation ==
  {r.access : r \in {q \in reservation :
                        epochs[PageIndex(q.access)] = q.epoch}}

\* SC: the reservation is taken, then the address is translated, and only
\* then the two are compared.
StoreConditional(access, walk) ==
  /\ Room
  /\ reservation' = {}
  /\ IF access \in TakeReservation
     THEN /\ epochs' = [p \in Pages |->
                          epochs[p] + (IF p \in PagesOf(walk) THEN 1 ELSE 0)
                                    + (IF p \in PagesOf(access) THEN 1 ELSE 0)]
          /\ stored' = access /\ walked' = walk
          /\ UNCHANGED <<linked, touched, disturbed>>
     ELSE RecordWrite(walk) /\ Observe(walk, TRUE)

\* A store or AMO to DRAM; both clear the reservation.
Store(access, walk) ==
  /\ Room
  /\ epochs' = [p \in Pages |->
                  epochs[p] + (IF p \in PagesOf(walk) THEN 1 ELSE 0)
                            + (IF p \in PagesOf(access) THEN 1 ELSE 0)]
  /\ reservation' = {}
  /\ Observe(walk \cup access, TRUE)

\* A store to a device, or an instruction that traps after its translation
\* or before it; enter_trap clears the reservation, as interrupts do.
StoreElsewhereOrTrap(walk) ==
  /\ Room
  /\ RecordWrite(walk)
  /\ reservation' = {}
  /\ Observe(walk, TRUE)

\* Any other instruction: its fetch or load may update an entry.
Walk(walk) ==
  /\ Room
  /\ RecordWrite(walk)
  /\ UNCHANGED reservation
  /\ Observe(walk, FALSE)

-----------------------------------------------------------------------------
\* A DMA transfer, or an image loaded into memory.
WriteBytes(cells) ==
  /\ Room
  /\ RecordWrite(cells)
  /\ UNCHANGED reservation
  /\ Observe(cells, FALSE)

\* A reset of the hart; memory keeps its contents and epochs.
ResetReservation ==
  /\ reservation' = {}
  /\ UNCHANGED epochs
  /\ Observe({}, TRUE)

InitReservation ==
  /\ epochs = [p \in Pages |-> 0]
  /\ reservation = {}
  /\ linked = {} /\ touched = {} /\ disturbed = TRUE
  /\ stored = {} /\ walked = {}

NextReservation ==
  \/ \E access \in Accesses, walk \in Walks : LoadReserved(access, walk)
  \/ \E access \in Accesses, walk \in Walks : StoreConditional(access, walk)
  \/ \E access \in Accesses, walk \in Walks : Store(access, walk)
  \/ \E walk \in Walks : StoreElsewhereOrTrap(walk)
  \/ \E walk \in Walks : Walk(walk)
  \/ \E cells \in SUBSET Cells : WriteBytes(cells)
  \/ ResetReservation

SpecReservation == InitReservation /\ [][NextReservation]_reservationVars

-----------------------------------------------------------------------------
(* Properties.                                                             *)

\* Every variable has its type; there is at most one reservation.
ReservationTypeOK ==
  /\ epochs \in [Pages -> Nat]
  /\ reservation \subseteq [access : Accesses, epoch : Nat]
  /\ \A r, q \in reservation : r = q
  /\ linked \in {{}} \cup Accesses
  /\ touched \subseteq Cells /\ disturbed \in BOOLEAN
  /\ stored \in {{}} \cup Accesses /\ walked \in Walks

\* An SC that stores pairs with an LR of the same address and width, and
\* nothing wrote the cells, no trap was taken and the hart did not store in
\* between: also not by DMA, not by writing the old value back, and not from
\* another context.
ConditionalStoreIsExclusive ==
  stored # {} => stored = linked /\ stored \cap touched = {} /\ ~disturbed

\* An SC does not fail without a reason: if it names the access of the last
\* LR, and neither the page was written nor a trap, a store or another SC
\* came between, it stores. (A loop of LR and SC therefore makes progress.)
UndisturbedSucceeds ==
  [][\A walk \in Walks :
       ~disturbed /\ stored = {} /\ StoreConditional(linked, walk)
         => stored' = linked]_reservationVars

\* The CPU notices that reserved memory was modified: an SC that stores
\* overwrites nothing that was written after the LR, by whomever.
ModificationIsNoticed == stored \cap (touched \cup walked) = {}
=============================================================================

----------------------------- MODULE KernelPages -----------------------------
(***************************************************************************)
(* The fast paths of src/cpu/xv6_accelerator.rs that work on the page      *)
(* tables of an xv6 kernel: uvmunmap, freewalk and uvmcopy, with the page  *)
(* allocator. Each replaces a whole function of the guest in one step of   *)
(* the hart, or declines: then, as after an exception, the hart executes   *)
(* the guest's own code, on the memory the fast path has left.             *)
(*                                                                         *)
(* A virtual address is a page number, a page a function from slots to     *)
(* words. Words are told apart by what reading one as a page table entry,  *)
(* or as an address, gives. The kernel maps all memory one to one, so that *)
(* an access to it does not fault; arguments refused before any memory is  *)
(* read (an address that is not page aligned) are left out. A pointer to a *)
(* table outside DRAM, at which the code raises an exception, makes the     *)
(* model decline or give up: collecting and checking tables, nothing has    *)
(* been changed by then, and the guest copies only into spaces of its own   *)
(* tables, so that xv6_walk meets no such pointer.                          *)
(***************************************************************************)
EXTENDS FiniteSets, Integers, Sequences, SequencesExt, Loops

CONSTANTS
  Pages,            \* kernel_end .. phys_top, the pages of the allocator
  KernelPage,       \* a page of DRAM below kernel_end
  DevicePage,       \* a page outside DRAM
  NoPage,           \* address 0, the end of the free list
  Spaces,           \* the page tables the guest keeps
  Slots,            \* entries per page
  RootLevel,        \* SV39_ROOT_LEVEL
  MaxVa,            \* XV6_MAXVA, in pages
  MaxPages,         \* XV6_FAST_PATH_MAX_PAGES
  UserFlags,        \* the permissions of the user pages the guest maps
  ForeignVas,       \* where the guest maps KernelPage and DevicePage
  OddSpaces,        \* the spaces in which it does, or makes odd entries
  MaxHeld           \* bound on the pages it keeps, for model checking only

\* The pages below an entry of a level.
Span(level) == Repeat([i \in Nat |-> [pages \in Nat |-> pages * Slots]], 1, level)

ASSUME PagesAssumption ==
  /\ IsFiniteSet(Pages) /\ Pages # {}
  /\ KernelPage \notin Pages /\ DevicePage \notin Pages /\ NoPage \notin Pages
  /\ KernelPage # DevicePage /\ KernelPage # NoPage /\ DevicePage # NoPage
  /\ Slots \in Nat \ {0} /\ RootLevel \in Nat \ {0} /\ MaxPages \in Nat
  /\ MaxVa \in 1 .. Span(RootLevel + 1)
  /\ UserFlags # {} /\ ForeignVas \subseteq Nat

VARIABLES
  memory,           \* page -> slot -> word
  freelist,         \* kmem.freelist, the first free page
  root,             \* space -> its root table, or NoPage
  held,             \* pages the guest has unmapped and not yet freed (history)
  call              \* the last call and its outcome: it "completed", "failed"
                    \* (returned -1) or "declined" (history)

vars == <<memory, freelist, root, held, call>>

SlotNumbers == 0 .. Slots - 1
Dram == Pages \cup {KernelPage}
AllPages == Dram \cup {DevicePage, NoPage}

-----------------------------------------------------------------------------
(* Words.                                                                  *)

Word(kind, page, flags) ==
  [kind |-> kind, page |-> page, flags |-> flags, value |-> 0]
Zero == Word("zero", NoPage, {})
Address(page) == IF page = NoPage THEN Zero ELSE Word("address", page, {})
Pte(page, flags) == Word("pte", page, flags)
Freed == Word("freed", NoPage, {})   \* 0x0101..., to an entry a valid pointer
Fresh == Word("fresh", NoPage, {})   \* 0x0505..., to an entry a valid leaf
Data(va) == [Word("data", NoPage, {}) EXCEPT !.value = va]

Valid(word) == word.kind \in {"pte", "freed", "fresh"}
Leaf(word) == word.kind = "fresh" \/ word.flags # {}
Filled(word) == [slot \in SlotNumbers |-> word]

Words ==
  {word \in [kind : {"zero", "address", "pte", "freed", "fresh", "data"},
             page : AllPages, flags : {{}, UserFlags}, value : 0 .. MaxVa] :
     word.kind = "data" \/ word.value = 0}
Memories == [Dram -> [SlotNumbers -> Words]]

\* vpn_index.
Index(level, va) == (va \div Span(level)) % Slots

-----------------------------------------------------------------------------
(* The allocator. A call that runs several of these operations threads the *)
(* memory it changes through them; ok is their Boolean or optional result. *)

Store == [memory |-> memory, free |-> freelist, ok |-> TRUE, table |-> NoPage]
Stores == [memory : Memories, free : AllPages, ok : BOOLEAN, table : AllPages]
Fail(m) == [m EXCEPT !.ok = FALSE]

\* xv6_kfree_page: the page is overwritten, then linked into the free list.
KfreePage(m, page) ==
  IF page \notin Pages THEN Fail(m)
  ELSE [m EXCEPT !.memory[page] = [Filled(Freed) EXCEPT ![0] = Address(m.free)],
                 !.free = page, !.ok = TRUE]

\* xv6_kalloc_page: takes the page m.free, if there is one.
KallocPage(m) ==
  IF m.free = NoPage THEN Fail(m)
  ELSE [m EXCEPT !.free = m.memory[m.free][0].page,
                 !.memory[m.free] = Filled(Fresh), !.ok = TRUE]

\* A new, empty table under the entry for va of m.table.
AddTable(m, level, va) ==
  LET table == m.table
      slot  == Index(level, va)
      fresh == KallocPage(m)
  IN  IF ~fresh.ok THEN fresh
      ELSE [fresh EXCEPT !.memory[m.free] = Filled(Zero),
                         !.memory[table][slot] = Pte(m.free, {}),
                         !.table = m.free]

\* One level of xv6_walk.
Descend(w, level, va, alloc) ==
  IF ~w.ok THEN w
  ELSE IF w.table \notin Dram THEN Fail(w)
  ELSE LET pte == w.memory[w.table][Index(level, va)]
       IN  IF Valid(pte) THEN [w EXCEPT !.table = pte.page]
           ELSE IF alloc THEN AddTable(w, level, va) ELSE Fail(w)

\* xv6_walk: finds the table of level 0 for va, or makes it if alloc.
Walk(m, top, va, alloc) ==
  LET Turn[i \in Nat] == [w \in Stores |-> Descend(w, RootLevel - i, va, alloc)]
  IN  Repeat(Turn, [m EXCEPT !.table = top, !.ok = va < MaxVa], RootLevel)

\* xv6_mappage. A failure may leave new tables behind.
Mappage(m, top, va, page, flags) ==
  LET w    == Walk(m, top, va, TRUE)
      slot == Index(0, va)
  IN  IF ~w.ok THEN w
      ELSE IF Valid(w.memory[w.table][slot]) THEN Fail(w)
      ELSE [w EXCEPT !.memory[w.table][slot] = Pte(page, flags)]

-----------------------------------------------------------------------------
(* Collecting mappings, before anything is changed.                        *)

\* The places of entries, and what they map.
LeafMapping ==
  [table : Dram, slot : SlotNumbers, va : Int, page : AllPages,
   flags : {{}, UserFlags}]
Walks == [ok : BOOLEAN, visited : SUBSET Dram, mappings : Seq(LeafMapping),
          physical : SUBSET AllPages]
Parts == [walk : Walks, table : AllPages, first : Int, last : Int]

\* What xv6_collect_mappings does with an entry of the last level.
CollectLeaf(w, table, slot, va) ==
  LET pte == memory[table][slot]
  IN  IF \/ ~Leaf(pte) \/ Len(w.mappings) >= MaxPages
         \/ pte.page \notin w.physical
      THEN Fail(w)
      ELSE [w EXCEPT !.mappings = Append(@,
              [table |-> table, slot |-> slot, va |-> va,
               page |-> pte.page, flags |-> pte.flags])]

\* xv6_collect_mappings at a level: the leaves of a part of a table, in order.
\* Refused are superpages, pointers in the last level, tables met twice, pages
\* outside walk.physical, and more work than the budget.
CollectAt(level, below) ==
  [part \in Parts |->
     LET table == part.table
         base  == part.first - (part.first % Span(level + 1))
         from  == Index(level, part.first)
         Visit[i \in Nat] == [w \in Walks |->
           LET pte == memory[table][from + i]
               va  == base + ((from + i) * Span(level))
               end == va + Span(level)
           IN  IF ~w.ok \/ ~Valid(pte) THEN w
               ELSE IF level = 0 THEN CollectLeaf(w, table, from + i, va)
               ELSE IF Leaf(pte) THEN Fail(w)
               ELSE below[[walk |-> w, table |-> pte.page,
                           first |-> IF part.first > va THEN part.first ELSE va,
                           last |-> IF part.last < end THEN part.last ELSE end - 1]]]
         met == part.walk.visited
     IN  IF table \notin Dram \/ Cardinality(met) >= MaxPages \/ table \in met
         THEN Fail(part.walk)
         ELSE Repeat(Visit, [part.walk EXCEPT !.visited = @ \cup {table}],
                     Index(level, part.last) - from + 1)]

CollectMappings(part) ==
  LET at[level \in 0 .. RootLevel] ==
        CollectAt(level, IF level = 0 THEN <<>> ELSE at[level - 1])
  IN  at[RootLevel][part]

\* Mutant: the end of the range is taken to be its last page.
BugOneTooMany(top, first, end, physical) ==
  LET walk == [ok |-> end <= MaxVa, visited |-> {}, mappings |-> <<>>,
               physical |-> physical]
  IN  IF walk.ok /\ first < end
      THEN CollectMappings([walk |-> walk, table |-> top,
                            first |-> first, last |-> end])
      ELSE walk

\* xv6_leaf_mappings of first .. end - 1.
LeafMappings(top, first, end, physical) ==
  LET walk == [ok |-> end <= MaxVa, visited |-> {}, mappings |-> <<>>,
               physical |-> physical]
  IN  IF walk.ok /\ first < end
      THEN CollectMappings([walk |-> walk, table |-> top,
                            first |-> first, last |-> end - 1])
      ELSE walk

-----------------------------------------------------------------------------
(* The fast paths.                                                         *)

\* A call ends: what it did to memory stays, whatever it returns.
Return(m, op, args, outcome) ==
  /\ memory' = m.memory
  /\ freelist' = m.free
  /\ call' = [op |-> op, args |-> args, outcome |-> outcome]

GuestReturn(m) == Return(m, "guest", <<>>, "completed")

\* uvmunmap's work on one mapping.
ClearMapping(m, mapping, doFree) ==
  LET freed == IF doFree THEN KfreePage(m, mapping.page) ELSE m
  IN  IF ~m.ok THEN m
      ELSE IF ~freed.ok THEN freed
      ELSE [freed EXCEPT !.memory[mapping.table][mapping.slot] = Zero]

\* uvmunmap of count pages from va on.
Uvmunmap(space, va, count, doFree) ==
  LET walk == LeafMappings(root[space], va, va + count,
                           IF doFree THEN Pages ELSE Dram \cup {DevicePage})
      Clear[i \in Nat] == [m \in Stores |-> ClearMapping(m, walk.mappings[i + 1], doFree)]
      done == Repeat(Clear, Store, Len(walk.mappings))
      unmapped == {walk.mappings[i].page : i \in DOMAIN walk.mappings}
  IN  /\ IF walk.ok
         THEN /\ Return(done, "uvmunmap", <<space, va, count>>,
                        IF done.ok THEN "completed" ELSE "declined")
              /\ held' = IF doFree THEN held ELSE held \cup (unmapped \cap Pages)
         ELSE /\ Return(Store, "uvmunmap", <<space, va, count>>, "declined")
              /\ UNCHANGED held
      /\ UNCHANGED root

\* Mutant: a page that is taken back stays mapped.
BugStaysMapped(m, top, va) ==
  LET w    == Walk(m, top, va, FALSE)
      slot == Index(0, va)
  IN  IF ~w.ok \/ ~Valid(w.memory[w.table][slot]) THEN m
      ELSE KfreePage(m, w.memory[w.table][slot].page)

\* One page of xv6_unmap_copied_pages.
UnmapPage(m, top, va) ==
  LET w    == Walk(m, top, va, FALSE)
      slot == Index(0, va)
  IN  IF ~w.ok \/ ~Valid(w.memory[w.table][slot]) THEN m
      ELSE [KfreePage(m, w.memory[w.table][slot].page)
              EXCEPT !.memory[w.table][slot] = Zero]

\* Mutant: the first mapping is forgotten.
BugKeepsFirst(m, top, mappings, count) ==
  LET Unmap[i \in Nat] == [s \in Stores |-> UnmapPage(s, top, mappings[i + 2].va)]
  IN  Repeat(Unmap, m, count - 1)

\* xv6_unmap_copied_pages: takes back the first count mappings.
UnmapCopiedPages(m, top, mappings, count) ==
  LET Unmap[i \in Nat] == [s \in Stores |-> UnmapPage(s, top, mappings[i + 1].va)]
  IN  Repeat(Unmap, m, count)

\* One page of uvmcopy; a failure undoes the pages before it.
CopyPage(m, top, mappings, i) ==
  LET mapping == mappings[i]
      page    == m.free
      fresh   == KallocPage(m)
      copied  == [fresh EXCEPT !.memory[page] = fresh.memory[mapping.page]]
      mapped  == Mappage(copied, top, mapping.va, page, mapping.flags)
  IN  IF ~fresh.ok THEN Fail(UnmapCopiedPages(m, top, mappings, i - 1))
      ELSE IF mapped.ok THEN mapped
      ELSE Fail(UnmapCopiedPages(KfreePage(mapped, page), top, mappings, i - 1))

\* uvmcopy of the pages below size.
Uvmcopy(old, new, size) ==
  LET walk == LeafMappings(root[old], 0, size, Dram)
      Copy[i \in Nat] == [m \in Stores |->
        IF m.ok THEN CopyPage(m, root[new], walk.mappings, i + 1) ELSE m]
      done == Repeat(Copy, Store, Len(walk.mappings))
  IN  /\ IF walk.ok
         THEN Return(done, "uvmcopy", <<old, new, size>>,
                     IF done.ok THEN "completed" ELSE "failed")
         ELSE Return(Store, "uvmcopy", <<old, new, size>>, "declined")
      /\ UNCHANGED <<root, held>>

Searches == [ok : BOOLEAN, visited : SUBSET Pages, table : AllPages]

\* freewalk_is_safe at a level: the tree consists of tables of the allocator,
\* each met once, with no leaf and nothing below the last level.
SafeAt(level, below) ==
  [walk \in Searches |->
     LET table == walk.table
         Visit[slot \in Nat] == [w \in Searches |->
           LET pte == memory[table][slot]
           IN  IF ~w.ok \/ ~Valid(pte) THEN w
               ELSE IF level = 0 \/ Leaf(pte) THEN Fail(w)
               ELSE below[[w EXCEPT !.table = pte.page]]]
     IN  IF \/ Cardinality(walk.visited) >= MaxPages
            \/ table \in walk.visited
            \/ table \notin Pages
         THEN Fail(walk)
         ELSE Repeat(Visit, [walk EXCEPT !.visited = @ \cup {table}], Slots)]

\* Mutant: only the root is looked at.
BugChecksRootOnly(top) == top \in Pages

FreewalkIsSafe(top) ==
  LET at[level \in 0 .. RootLevel] ==
        SafeAt(level, IF level = 0 THEN <<>> ELSE at[level - 1])
  IN  at[RootLevel][[ok |-> TRUE, visited |-> {}, table |-> top]].ok

\* freewalk_page_table at a level: frees the tables below m.table.
FreeTablesAt(level, below) ==
  [m \in Stores |->
     LET table == m.table
         Visit[slot \in Nat] == [c \in Stores |->
           LET pte   == c.memory[table][slot]
               freed == below[[c EXCEPT !.table = pte.page]]
           IN  IF ~c.ok \/ ~Valid(pte) THEN c
               ELSE IF Leaf(pte) \/ level = 0 THEN Fail(c)
               ELSE IF ~freed.ok THEN freed
               ELSE KfreePage([freed EXCEPT !.memory[table][slot] = Zero], pte.page)]
     IN  IF table \notin Dram THEN Fail(m) ELSE Repeat(Visit, m, Slots)]

FreewalkPageTable(m) ==
  LET at[level \in 0 .. RootLevel] ==
        FreeTablesAt(level, IF level = 0 THEN <<>> ELSE at[level - 1])
  IN  at[RootLevel][m]

\* freewalk; the guest forgets the space when it succeeds.
Freewalk(space) ==
  LET top  == root[space]
      safe == FreewalkIsSafe(top)
      tables == FreewalkPageTable([Store EXCEPT !.table = top])
      done == IF tables.ok THEN KfreePage(tables, top) ELSE tables
  IN  /\ IF safe
         THEN Return(done, "freewalk", <<space>>,
                     IF done.ok THEN "completed" ELSE "declined")
         ELSE Return(Store, "freewalk", <<space>>, "declined")
      /\ root' = IF safe /\ done.ok THEN [root EXCEPT ![space] = NoPage] ELSE root
      /\ UNCHANGED held

-----------------------------------------------------------------------------
(* The guest: what its own code, which uses the same allocator and the     *)
(* same walk, does between these calls.                                    *)

\* uvmcreate: an empty table for a space.
Create(space) ==
  LET fresh == KallocPage(Store)
  IN  /\ root[space] = NoPage /\ fresh.ok
      /\ GuestReturn([fresh EXCEPT !.memory[freelist] = Filled(Zero)])
      /\ root' = [root EXCEPT ![space] = freelist]
      /\ UNCHANGED held

\* The kernel follows no superpage: it makes none in a space it adds to.
NoSuperpage(space) ==
  /\ root[space] # NoPage
  /\ \A slot \in SlotNumbers : ~Leaf(memory[root[space]][slot])

\* A user page with contents of its own.
MapUser(space, va) ==
  LET fresh  == KallocPage(Store)
      filled == [fresh EXCEPT !.memory[freelist] = Filled(Data(va))]
      mapped == Mappage(filled, root[space], va, freelist, UserFlags)
  IN  /\ NoSuperpage(space) /\ fresh.ok /\ mapped.ok
      /\ GuestReturn(mapped)
      /\ UNCHANGED <<root, held>>

\* A page the allocator does not own: kernel code, or a device.
MapForeign(space, va, page) ==
  LET mapped == Mappage(Store, root[space], va, page, UserFlags)
  IN  /\ NoSuperpage(space) /\ mapped.ok
      /\ GuestReturn(mapped)
      /\ UNCHANGED <<root, held>>

\* The guest writes an unused entry of a root table itself: as a superpage, or
\* as a second way to a table.
WriteRootEntry(space, slot, pte) ==
  /\ root[space] # NoPage
  /\ ~Valid(memory[root[space]][slot])
  /\ GuestReturn([Store EXCEPT !.memory[root[space]][slot] = pte])
  /\ UNCHANGED <<root, held>>

OddEntries(space) ==
  {Pte(KernelPage, UserFlags)} \cup
  {memory[root[space]][slot] : slot \in
     {s \in SlotNumbers : Valid(memory[root[space]][s])}}

Kfree(page) ==
  /\ page \in held
  /\ held' = held \ {page}
  /\ GuestReturn(KfreePage(Store, page))
  /\ UNCHANGED root

-----------------------------------------------------------------------------

\* All pages are free, in some order.
Init ==
  LET order == SetToSeq(Pages)
  IN  /\ memory = [p \in Dram |->
                     IF p = KernelPage THEN Filled(Data(MaxVa))
                     ELSE LET i == CHOOSE n \in DOMAIN order : order[n] = p
                          IN  [Filled(Freed) EXCEPT ![0] =
                                 IF i = Len(order) THEN Zero
                                 ELSE Address(order[i + 1])]]
      /\ freelist = order[1]
      /\ root = [space \in Spaces |-> NoPage]
      /\ held = {}
      /\ call = [op |-> "guest", args |-> <<>>, outcome |-> "completed"]

Alive == {space \in Spaces : root[space] # NoPage}

Next ==
  \/ \E space \in Alive, va \in 0 .. MaxVa - 1, doFree \in BOOLEAN :
       \E count \in 1 .. MaxVa - va + 1 :
         /\ Uvmunmap(space, va, count, doFree)
         /\ Cardinality(held') <= MaxHeld
  \/ \E space \in Alive : Freewalk(space)
  \/ \E old, new \in Alive, size \in 0 .. MaxVa :
       NoSuperpage(new) /\ Uvmcopy(old, new, size)
  \/ \E space \in Spaces : Create(space)
  \/ \E space \in Alive, va \in 0 .. MaxVa - 1 : MapUser(space, va)
  \/ \E space \in Alive \cap OddSpaces, va \in ForeignVas, page \in {KernelPage, DevicePage} :
       MapForeign(space, va, page)
  \/ \E space \in Alive \cap OddSpaces, slot \in SlotNumbers :
       \E pte \in OddEntries(space) : WriteRootEntry(space, slot, pte)
  \/ \E page \in Pages : Kfree(page)

Spec == Init /\ [][Next]_vars

-----------------------------------------------------------------------------
(* Properties.                                                             *)

\* A call that declines has not touched memory, however far it had come: the
\* guest's own code, which then runs from the start, finds what it was called
\* with.
DeclinedChangesNothing ==
  [][call'.outcome = "declined" => UNCHANGED <<memory, freelist>>]_vars

Points(word) == Valid(word) /\ ~Leaf(word)
Maps(word) == Valid(word) /\ Leaf(word)

\* The tables of a space that a level has.
TablesOf(space, level) ==
  LET Children(tables) ==
        {memory[at[1]][at[2]].page : at \in
           {x \in (tables \cap Dram) \X SlotNumbers : Points(memory[x[1]][x[2]])}}
      Below[i \in Nat] == [tables \in SUBSET AllPages |-> Children(tables)]
  IN  Repeat(Below, {root[space]} \ {NoPage}, RootLevel - level)

\* The places of the entries that map pages.
LeafPlaces(space) ==
  {at \in (TablesOf(space, 0) \cap Dram) \X SlotNumbers :
     Maps(memory[at[1]][at[2]])}

\* The n-th page of the free list, or its end.
FreeChain(n) ==
  LET Follow[i \in Nat] == [page \in AllPages |->
        IF page \in Dram THEN memory[page][0].page ELSE page]
  IN  Repeat(Follow, freelist, n)

\* No page is lost, none is used twice: each is on the free list, which ends,
\* or a table, or mapped by one entry, or kept by the guest, and only one of
\* these. So it is also when memory runs out in the middle of a copy, and when
\* a table is reached on two ways.
PagesAreOwnedOnce ==
  LET free    == {FreeChain(n) : n \in 0 .. Cardinality(Pages)} \ {NoPage}
      tables  == UNION {TablesOf(s, n) : s \in Spaces, n \in 0 .. RootLevel}
      places  == UNION {LeafPlaces(s) : s \in Spaces}
      owned   == {at \in places : memory[at[1]][at[2]].page \in Pages}
      mapped  == {memory[at[1]][at[2]].page : at \in owned}
  IN  /\ FreeChain(Cardinality(Pages)) = NoPage
      /\ free \cup tables \cup mapped \cup held = Pages
      /\ Cardinality(free) + Cardinality(tables) + Cardinality(owned)
           + Cardinality(held) = Cardinality(Pages)

\* What a user of the space sees at an address: nothing, or a page with its
\* permissions and contents.
Content(space, va) ==
  LET Down[i \in Nat] == [table \in AllPages |->
        LET pte == memory[table][Index(RootLevel - i, va)]
        IN  IF table \in Dram /\ Points(pte) THEN pte.page ELSE NoPage]
      table == Repeat(Down, root[space], RootLevel)
      pte   == IF table \in Dram THEN memory[table][Index(0, va)] ELSE Zero
  IN  IF ~Valid(pte) THEN {}
      ELSE {<<pte.flags, IF pte.page \in Dram THEN memory[pte.page] ELSE <<>>>>}

\* No two ways lead to one table: what changes at one address shows at no
\* other.
Unshared(space) ==
  \A level \in 1 .. RootLevel :
    \A a, b \in TablesOf(space, level) \X SlotNumbers :
      /\ Points(memory[a[1]][a[2]])
      /\ memory[a[1]][a[2]] = memory[b[1]][b[2]]
      => a = b

Vas == 0 .. MaxVa - 1

\* uvmunmap takes away exactly the pages of its range, in this space only.
UnmapIsExact ==
  [][LET space == call'.args[1]
         range == call'.args[2] .. call'.args[2] + call'.args[3] - 1
     IN  call'.op = "uvmunmap" /\ call'.outcome = "completed" /\ Unshared(space)
         => \A s \in Spaces, va \in Vas :
              Content(s, va)' = IF s = space /\ va \in range THEN {}
                                ELSE Content(s, va)]_vars

\* uvmcopy gives the new space, at every address below the size, what the old
\* one has there, or, when memory or addresses run out on the way, leaves the
\* new space as it was. All other addresses stay as they were.
CopyIsAllOrNothing ==
  [][LET old == call'.args[1]
         new == call'.args[2]
         Copied(va) == /\ call'.outcome = "completed"
                       /\ va < call'.args[3] /\ Content(old, va) # {}
     IN  call'.op = "uvmcopy" /\ Unshared(new)
         => \A s \in Spaces, va \in Vas :
              Content(s, va)' = IF s = new /\ Copied(va) THEN Content(old, va)
                                ELSE Content(s, va)]_vars
=============================================================================

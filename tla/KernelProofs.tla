---------------------------- MODULE KernelProofs ----------------------------
(***************************************************************************)
(* Proofs about the fast paths of the xv6 accelerator for page tables and  *)
(* their pages, for any number of pages, spaces, levels and entries.       *)
(*                                                                         *)
(* PageInv, the inductive invariant, says that every page of the allocator *)
(* has an owner that agrees with the memory (Sound). What an address shows *)
(* follows from the way to it through the tables (Follows): each table has *)
(* one parent, so that ways that meet in a space that is not shared are    *)
(* ways to one entry. A primitive keeps the views of all addresses         *)
(* (Steady), or of all but one (Alike); uvmcopy is a sum of these.         *)
(***************************************************************************)
EXTENDS KernelPages, IntegerLemmas

-----------------------------------------------------------------------------
(* Who owns a page.                                                        *)

\* What the constants are.
LEMMA PageConstants ==
  /\ IsFiniteSet(Pages) /\ Pages # {}
  /\ KernelPage \notin Pages /\ DevicePage \notin Pages /\ NoPage \notin Pages
  /\ KernelPage # DevicePage /\ KernelPage # NoPage /\ DevicePage # NoPage
  /\ Slots \in Nat \ {0} /\ RootLevel \in Nat \ {0} /\ MaxPages \in Nat
  /\ UserFlags # {} /\ MaxVa \in Int /\ MaxVa >= 1
<1>1. \A x \in 1 .. Span(RootLevel + 1) : x \in Int /\ x >= 1
  OBVIOUS
<1> QED BY <1>1, PagesAssumption

\* What a page of the allocator is used for: it is free, at a height above the
\* end of the list; a table of a level, the child of another; mapped by an
\* entry; or loose, known only to the code that has just taken it or to the
\* guest.
Owners == [use : {"free", "table", "mapped", "loose"}, num : Nat,
           up : AllPages, slot : SlotNumbers]
Owner(use, num, up, slot) ==
  [use |-> use, num |-> num, up |-> up, slot |-> slot]
Ownership == [Pages -> Owners]

Used(own, p, use) == p \in Pages /\ own[p].use = use
TableAt(own, t, level) == Used(own, t, "table") /\ own[t].num = level

\* A pointer leads to a table one level below, a leaf to a page that is
\* mapped here, if the allocator has it.
PointerOK(own, t, word) ==
  /\ word.kind = "pte" /\ own[t].num > 0
  /\ TableAt(own, word.page, own[t].num - 1) /\ own[word.page].up = t
LeafOK(own, t, slot, word) ==
  /\ word.kind = "pte"
  /\ IF own[t].num = 0
     THEN word.page \in Pages => /\ own[word.page].use = "mapped"
                                 /\ own[word.page].up = t
                                 /\ own[word.page].slot = slot
     ELSE own[t].num = RootLevel /\ word.page = KernelPage
EntryOK(own, m, t, slot) ==
  /\ Points(m.memory[t][slot]) => PointerOK(own, t, m.memory[t][slot])
  /\ Maps(m.memory[t][slot]) => LeafOK(own, t, slot, m.memory[t][slot])
TablesOK(own, m) ==
  \A t \in Pages : own[t].use = "table" =>
    /\ own[t].num <= RootLevel
    /\ \A slot \in SlotNumbers : EntryOK(own, m, t, slot)

\* The entries that lead to tables and mapped pages exist.
ParentOK(own, m, p) ==
  /\ TableAt(own, own[p].up, own[p].num + 1)
  /\ \E slot \in SlotNumbers : /\ Points(m.memory[own[p].up][slot])
                               /\ m.memory[own[p].up][slot].page = p
PlaceOK(own, m, p) ==
  /\ TableAt(own, own[p].up, 0)
  /\ Maps(m.memory[own[p].up][own[p].slot])
  /\ m.memory[own[p].up][own[p].slot].page = p
ReachedOK(own, m) ==
  \A p \in Pages :
    /\ own[p].use = "table" /\ own[p].num < RootLevel => ParentOK(own, m, p)
    /\ own[p].use = "mapped" => PlaceOK(own, m, p)

\* Heights: the list starts at the highest page and goes down by one.
NextFree(own, p, next) ==
  IF own[p].num = 1 THEN next = NoPage
  ELSE Used(own, next, "free") /\ own[next].num = own[p].num - 1
FreeOK(own, m) ==
  /\ m.free # NoPage => Used(own, m.free, "free")
  /\ \A p \in Pages : own[p].use = "free" =>
       /\ m.free # NoPage /\ own[p].num >= 1 /\ own[p].num <= own[m.free].num
       /\ NextFree(own, p, m.memory[p][0].page)
       /\ \A q \in Pages : own[q].use = "free" /\ own[q].num = own[p].num => q = p

\* The roots are the tables of the highest level.
RootsOK(own, roots) ==
  /\ \A space \in Spaces :
       roots[space] # NoPage => TableAt(own, roots[space], RootLevel)
  /\ \A t \in Pages : TableAt(own, t, RootLevel) =>
       \E space \in Spaces : roots[space] = t
  /\ \A a, b \in Spaces : roots[a] = roots[b] /\ roots[a] # NoPage => a = b

Sound(own, m, loose, roots) ==
  /\ own \in Ownership
  /\ TablesOK(own, m)
  /\ ReachedOK(own, m)
  /\ FreeOK(own, m)
  /\ RootsOK(own, roots)
  /\ loose = {p \in Pages : own[p].use = "loose"}

-----------------------------------------------------------------------------
(* Changes of memory.                                                      *)

\* n is m after a write of an entry, or of a whole page.
SetEntry(m, n, t, slot, word) ==
  /\ n \in Stores /\ n.free = m.free
  /\ \A q \in Dram : q # t => n.memory[q] = m.memory[q]
  /\ \A x \in SlotNumbers :
       n.memory[t][x] = IF x = slot THEN word ELSE m.memory[t][x]
SetPage(m, n, p, content) ==
  /\ n \in Stores /\ n.free = m.free
  /\ \A q \in Dram : q # p => n.memory[q] = m.memory[q]
  /\ n.memory[p] = content

\* Words, and the pages they fill.
LEMMA WordTypes ==
  /\ Zero \in Words /\ Freed \in Words /\ Fresh \in Words
  /\ \A page \in AllPages : Address(page) \in Words /\ Address(page).page = page
  /\ \A page \in AllPages, flags \in {{}, UserFlags} : Pte(page, flags) \in Words
  /\ \A va \in 0 .. MaxVa : Data(va) \in Words
  /\ \A word \in Words : Filled(word) \in [SlotNumbers -> Words]
  /\ \A word : \A slot \in SlotNumbers : Filled(word)[slot] = word
  /\ 0 \in SlotNumbers
<1> USE PageConstants
<1>1. 0 \in 0 .. MaxVa /\ 0 \in SlotNumbers
  BY DEF SlotNumbers
<1>2. NoPage \in AllPages
  BY DEF AllPages
<1>3. Zero \in Words /\ Freed \in Words /\ Fresh \in Words
  BY <1>1, <1>2 DEF Zero, Freed, Fresh, Word, Words
<1>4. \A page \in AllPages : Address(page) \in Words /\ Address(page).page = page
  BY <1>1, <1>3 DEF Address, Zero, Word, Words
<1>5. \A page \in AllPages, flags \in {{}, UserFlags} : Pte(page, flags) \in Words
  BY <1>1 DEF Pte, Word, Words
<1>6. \A va \in 0 .. MaxVa : Data(va) \in Words
  BY <1>1, <1>2 DEF Data, Word, Words
<1>7. \A word \in Words : Filled(word) \in [SlotNumbers -> Words]
  BY DEF Filled
<1>8. \A word : \A slot \in SlotNumbers : Filled(word)[slot] = word
  BY DEF Filled
<1> QED BY <1>1, <1>3, <1>4, <1>5, <1>6, <1>7, <1>8

\* What an entry is: unused, a pointer or a leaf.
LEMMA WordKinds ==
  /\ ~Valid(Zero) /\ ~Points(Zero) /\ ~Maps(Zero)
  /\ \A page : Pte(page, {}).page = page /\ Pte(page, {}).kind = "pte"
  /\ \A page : Points(Pte(page, {})) /\ ~Maps(Pte(page, {})) /\ Valid(Pte(page, {}))
  /\ \A page, flags : flags # {} =>
       /\ Maps(Pte(page, flags)) /\ ~Points(Pte(page, flags))
       /\ Pte(page, flags).page = page /\ Pte(page, flags).kind = "pte"
       /\ Valid(Pte(page, flags))
  /\ \A word : Valid(word) <=> Points(word) \/ Maps(word)
  /\ \A word : ~(Points(word) /\ Maps(word))
  /\ \A word : Maps(word) <=> Valid(word) /\ Leaf(word)
  /\ \A word : Points(word) <=> Valid(word) /\ ~Leaf(word)
BY DEF Zero, Pte, Word, Valid, Leaf, Points, Maps

\* The parts of a state of memory, and a failure, which changes none.
LEMMA StoreTypes ==
  ASSUME NEW m \in Stores
  PROVE  /\ m.free \in AllPages /\ m.ok \in BOOLEAN /\ m.table \in AllPages
         /\ \A p \in Dram : m.memory[p] \in [SlotNumbers -> Words]
         /\ \A p \in Dram, slot \in SlotNumbers :
              m.memory[p][slot] \in Words /\ m.memory[p][slot].page \in AllPages
         /\ Fail(m) \in Stores
         /\ Fail(m).memory = m.memory /\ Fail(m).free = m.free
         /\ Fail(m).table = m.table /\ ~Fail(m).ok
BY DEF Stores, Memories, Words, Fail

\* The pages there are.
LEMMA PagesInDram ==
  /\ Pages \subseteq Dram /\ Dram \subseteq AllPages /\ NoPage \in AllPages
  /\ DevicePage \in AllPages /\ KernelPage \in Dram /\ NoPage \notin Dram
  /\ DevicePage \notin Dram
  /\ \A p \in Dram : p \in Pages \/ p = KernelPage
BY PageConstants DEF Dram, AllPages

\* Writing an entry, or a page.
LEMMA Writing ==
  ASSUME NEW m \in Stores
  PROVE  /\ \A t \in Dram, slot \in SlotNumbers, word \in Words :
              SetEntry(m, [m EXCEPT !.memory[t][slot] = word], t, slot, word)
         /\ \A p \in Dram, content \in [SlotNumbers -> Words] :
              SetPage(m, [m EXCEPT !.memory[p] = content], p, content)
<1>1. ASSUME NEW t \in Dram, NEW slot \in SlotNumbers, NEW word \in Words
      PROVE  SetEntry(m, [m EXCEPT !.memory[t][slot] = word], t, slot, word)
  BY DEF SetEntry, Stores, Memories
<1>2. ASSUME NEW p \in Dram, NEW content \in [SlotNumbers -> Words]
      PROVE  SetPage(m, [m EXCEPT !.memory[p] = content], p, content)
  BY DEF SetPage, Stores, Memories
<1> QED BY <1>1, <1>2

\* A loose page may be written, and KernelPage.
LEMMA WriteLoose ==
  ASSUME NEW own, NEW m \in Stores, NEW n, NEW loose, NEW roots,
         Sound(own, m, loose, roots),
         NEW p \in loose \cup {KernelPage}, NEW content, SetPage(m, n, p, content)
  PROVE  Sound(own, n, loose, roots)
<1>1. \A q \in Pages : own[q].use # "loose" => n.memory[q] = m.memory[q]
  BY PagesInDram, PageConstants DEF Sound, SetPage
<1>2. n.free = m.free
  BY DEF SetPage
<1>3. TablesOK(own, n)
  BY <1>1 DEF Sound, TablesOK, EntryOK
<1>4. ReachedOK(own, n)
  BY <1>1 DEF Sound, ReachedOK, ParentOK, PlaceOK, TableAt, Used
<1>5. FreeOK(own, n)
  BY <1>1, <1>2 DEF Sound, FreeOK
<1> QED BY <1>3, <1>4, <1>5 DEF Sound

Loose == Owner("loose", 0, NoPage, 0)

\* The owners there are.
LEMMA OwnerTypes ==
  /\ Loose \in Owners
  /\ \A num \in Nat : Owner("free", num, NoPage, 0) \in Owners
  /\ \A num \in Nat, up \in AllPages : Owner("table", num, up, 0) \in Owners
  /\ \A up \in AllPages, slot \in SlotNumbers : Owner("mapped", 0, up, slot) \in Owners
  /\ \A use, num, up, slot : LET o == Owner(use, num, up, slot)
                             IN  o.use = use /\ o.num = num /\ o.up = up /\ o.slot = slot
BY WordTypes, PagesInDram DEF Loose, Owners, Owner

\* xv6_kalloc_page takes the first page of the free list.
LEMMA Kalloc ==
  ASSUME NEW own, NEW m \in Stores, NEW loose, NEW roots,
         Sound(own, m, loose, roots), m.free # NoPage
  PROVE  LET n == KallocPage(m)
         IN  /\ n \in Stores /\ n.ok /\ n.table = m.table
             /\ m.free \in Pages /\ m.free \notin loose
             /\ \A q \in Dram : q # m.free => n.memory[q] = m.memory[q]
             /\ n.memory[m.free] = Filled(Fresh)
             /\ Sound([own EXCEPT ![m.free] = Loose], n, loose \cup {m.free}, roots)
<1> DEFINE n == KallocPage(m)
           p == m.free
           new == [own EXCEPT ![p] = Loose]
<1>1. p \in Pages /\ own[p].use = "free" /\ p \in Dram /\ p \notin loose
  BY PagesInDram DEF Sound, FreeOK, Used
<1>2. m.memory[p][0].page \in AllPages
  BY <1>1, StoreTypes, WordTypes
<1>3. /\ n \in Stores /\ n.ok /\ n.free = m.memory[p][0].page /\ n.table = m.table
      /\ \A q \in Dram : q # p => n.memory[q] = m.memory[q]
      /\ n.memory[p] = Filled(Fresh)
  <2>1. Filled(Fresh) \in [SlotNumbers -> Words]
    BY WordTypes
  <2>2. n = [m EXCEPT !.free = m.memory[p][0].page, !.memory[p] = Filled(Fresh),
                      !.ok = TRUE]
    BY DEF KallocPage
  <2> HIDE DEF n
  <2>3. /\ n.memory = [m.memory EXCEPT ![p] = Filled(Fresh)] /\ n.table = m.table
        /\ n.free = m.memory[p][0].page /\ n.ok = TRUE
        /\ n = [memory |-> n.memory, free |-> n.free, ok |-> n.ok, table |-> n.table]
    BY <2>2 DEF Stores
  <2>4. n.memory \in Memories
    BY <1>1, <2>1, <2>3 DEF Stores, Memories
  <2>5. n \in Stores
    BY <1>2, <2>3, <2>4 DEF Stores
  <2> QED BY <1>1, <2>3, <2>5 DEF Stores, Memories
<1> HIDE DEF n
<1>4. /\ new \in Ownership /\ new[p].use = "loose"
      /\ \A q \in Pages : q # p => new[q] = own[q]
  BY <1>1, OwnerTypes DEF Sound, Ownership, Loose
<1> HIDE DEF new
<1>5. \A q \in Pages : own[q].use # "free" => new[q] = own[q] /\ n.memory[q] = m.memory[q]
  BY <1>1, <1>3, <1>4, PagesInDram
<1>6. \A q \in Pages : new[q].use # "loose" => new[q] = own[q] /\ n.memory[q] = m.memory[q]
  BY <1>1, <1>3, <1>4, PagesInDram
<1>7. TablesOK(new, n)
  <2> SUFFICES ASSUME NEW t \in Pages, new[t].use = "table", NEW slot \in SlotNumbers
               PROVE  new[t].num <= RootLevel /\ EntryOK(new, n, t, slot)
    BY WordTypes DEF TablesOK
  <2>1. own[t] = new[t] /\ n.memory[t] = m.memory[t]
    BY <1>6
  <2>2. own[t].num <= RootLevel /\ EntryOK(own, m, t, slot)
    BY <2>1 DEF Sound, TablesOK
  <2> QED BY <1>5, <2>1, <2>2 DEF EntryOK, PointerOK, LeafOK, TableAt, Used
<1>8. ReachedOK(new, n)
  BY <1>5, <1>6, SMTT(20) DEF Sound, ReachedOK, ParentOK, PlaceOK, TableAt, Used
<1>9. FreeOK(new, n)
  <2>1. own \in Ownership /\ \A q \in Pages : own[q].num \in Nat
    BY DEF Sound, Ownership, Owners
  <2>2. NextFree(own, p, n.free)
    BY <1>1, <1>3 DEF Sound, FreeOK
  <2>3. ASSUME NEW q \in Pages, new[q].use = "free"
        PROVE  /\ q # p /\ own[q].use = "free" /\ own[q] = new[q]
               /\ n.memory[q][0].page = m.memory[q][0].page
               /\ own[q].num >= 1 /\ own[q].num <= own[p].num - 1
               /\ n.free # NoPage /\ n.free \in Pages /\ n.free # p
               /\ own[n.free].num = own[p].num - 1
               /\ own[n.free].use = "free"
    <3>1. q # p /\ own[q] = new[q] /\ n.memory[q] = m.memory[q] /\ own[q].use = "free"
      BY <1>4, <1>6, <2>3
    <3>2. own[q].num >= 1 /\ own[q].num <= own[p].num /\ own[q].num # own[p].num
      BY <1>1, <3>1 DEF Sound, FreeOK
    <3>3. own[p].num # 1
      BY <1>1, <2>1, <3>2
    <3>4. Used(own, n.free, "free") /\ own[n.free].num = own[p].num - 1
      BY <2>2, <3>3 DEF NextFree
    <3>5. n.free \in Pages /\ n.free # p /\ n.free # NoPage
      BY <1>1, <2>1, <3>4, PageConstants DEF Used
    <3> QED BY <1>1, <2>1, <3>1, <3>2, <3>4, <3>5 DEF Used
  <2>4. n.free # NoPage => Used(new, n.free, "free")
    <3> SUFFICES ASSUME n.free # NoPage PROVE Used(new, n.free, "free")
      OBVIOUS
    <3>1. Used(own, n.free, "free") /\ own[n.free].num = own[p].num - 1
      BY <2>2 DEF NextFree
    <3> QED BY <1>1, <1>4, <2>1, <3>1 DEF Used
  <2>5. ASSUME NEW q \in Pages, new[q].use = "free"
        PROVE  NextFree(new, q, n.memory[q][0].page)
    <3>1. NextFree(own, q, m.memory[q][0].page)
      BY <2>3, <2>5 DEF Sound, FreeOK
    <3>2. q # p /\ new[q] = own[q] /\ n.memory[q][0].page = m.memory[q][0].page
      BY <2>3, <2>5
    <3>3. own[q].num <= own[p].num - 1
      BY <2>3, <2>5
    <3> DEFINE next == m.memory[q][0].page
    <3>4. CASE own[q].num = 1
      BY <3>1, <3>2, <3>4 DEF NextFree
    <3>5. CASE own[q].num # 1
      <4>1. Used(own, next, "free") /\ own[next].num = own[q].num - 1
        BY <3>1, <3>5 DEF NextFree
      <4>2. next # p /\ next \in Pages
        BY <1>1, <2>1, <3>3, <4>1 DEF Used
      <4> QED BY <1>4, <3>2, <3>5, <4>1, <4>2 DEF NextFree, Used
    <3> QED BY <3>4, <3>5
  <2>6. ASSUME NEW q \in Pages, new[q].use = "free"
        PROVE  /\ n.free # NoPage /\ new[q].num >= 1 /\ new[q].num <= new[n.free].num
               /\ \A r \in Pages : new[r].use = "free" /\ new[r].num = new[q].num => r = q
    <3>1. /\ own[q].use = "free" /\ own[q] = new[q]
          /\ own[q].num >= 1 /\ own[q].num <= own[p].num - 1
          /\ n.free # NoPage /\ n.free \in Pages /\ n.free # p
          /\ own[n.free].num = own[p].num - 1
      BY <2>3, <2>6
    <3>2. new[n.free] = own[n.free]
      BY <1>4, <3>1
    <3>3. \A r \in Pages : new[r].use = "free" => own[r] = new[r]
      BY <1>6
    <3>4. \A r \in Pages : own[r].use = "free" /\ own[r].num = own[q].num => r = q
      BY <3>1 DEF Sound, FreeOK
    <3> QED BY <3>1, <3>2, <3>3, <3>4
  <2> QED BY <2>4, <2>5, <2>6 DEF FreeOK
<1>10. RootsOK(new, roots)
  BY <1>1, <1>4 DEF Sound, RootsOK, TableAt, Used
<1>11. loose \cup {p} = {q \in Pages : new[q].use = "loose"}
  BY <1>1, <1>4 DEF Sound
<1>12. Sound(new, n, loose \cup {p}, roots)
  BY <1>4, <1>7, <1>8, <1>9, <1>10, <1>11 DEF Sound
<1> QED BY <1>1, <1>3, <1>12 DEF n, new

\* Only a page changes.
OnlyPage(m, n, p) == \A q \in Dram : q # p => n.memory[q] = m.memory[q]

\* xv6_kfree_page of a page of the allocator.
LEMMA KfreeIs ==
  ASSUME NEW m \in Stores, NEW p \in Pages, NEW n, n = KfreePage(m, p)
  PROVE  /\ n \in Stores /\ n.ok /\ n.free = p /\ n.table = m.table
         /\ OnlyPage(m, n, p)
         /\ n.memory[p][0].page = m.free
<1> DEFINE content == [Filled(Freed) EXCEPT ![0] = Address(m.free)]
<1>1. p \in Dram /\ p \in AllPages
  BY PagesInDram
<1>2. content \in [SlotNumbers -> Words] /\ content[0].page = m.free
  BY WordTypes, StoreTypes
<1> HIDE DEF content
<1>3. n = [m EXCEPT !.memory[p] = content, !.free = p, !.ok = TRUE]
  BY DEF KfreePage, content
<1>4. /\ n.memory = [m.memory EXCEPT ![p] = content] /\ n.table = m.table
      /\ n.free = p /\ n.ok = TRUE
      /\ n = [memory |-> n.memory, free |-> n.free, ok |-> n.ok, table |-> n.table]
  BY <1>3 DEF Stores
<1>5. n.memory \in Memories
  BY <1>1, <1>2, <1>4 DEF Stores, Memories
<1>6. n \in Stores
  BY <1>1, <1>4, <1>5 DEF Stores
<1> QED BY <1>1, <1>2, <1>4, <1>6 DEF Stores, Memories, OnlyPage

\* Ownership n has after m, the same but for a page.
SoundBut(own, p, n, loose, roots) ==
  \E new : /\ Sound(new, n, loose, roots)
           /\ \A q \in Pages : q # p => new[q] = own[q]

\* xv6_kfree_page puts a loose page in front of the free list.
LEMMA KfreeLinks ==
  ASSUME NEW own, NEW m \in Stores, NEW more, NEW roots, Sound(own, m, more, roots),
         NEW p \in more, NEW n, n = KfreePage(m, p), NEW loose, loose = more \ {p}
  PROVE  SoundBut(own, p, n, loose, roots)
<1> DEFINE height == IF m.free = NoPage THEN 1 ELSE own[m.free].num + 1
           new == [own EXCEPT ![p] = Owner("free", height, NoPage, 0)]
<1>1. p \in Pages /\ own[p].use = "loose" /\ p \in Dram /\ p # NoPage /\ p \in AllPages
  BY PagesInDram, PageConstants DEF Sound
<1>2. m.free # NoPage => m.free \in Pages /\ m.free # p /\ own[m.free].use = "free"
  BY <1>1 DEF Sound, FreeOK, Used
<1>3. own \in Ownership /\ \A q \in Pages : own[q].num \in Nat
  BY DEF Sound, Ownership, Owners
<1>4. height \in Nat /\ height >= 1
  BY <1>2, <1>3
<1>5. /\ n \in Stores /\ n.free = p /\ n.memory[p][0].page = m.free
      /\ \A q \in Dram : q # p => n.memory[q] = m.memory[q]
  BY <1>1, KfreeIs DEF OnlyPage
<1>6. /\ new \in Ownership /\ new[p].use = "free" /\ new[p].num = height
      /\ \A q \in Pages : q # p => new[q] = own[q]
  BY <1>1, <1>3, <1>4, OwnerTypes DEF Ownership
<1> HIDE DEF new
<1>7. \A q \in Pages : q # p => new[q] = own[q] /\ n.memory[q] = m.memory[q]
  BY <1>5, <1>6, PagesInDram
<1>8. TablesOK(new, n)
  <2> SUFFICES ASSUME NEW t \in Pages, new[t].use = "table", NEW slot \in SlotNumbers
               PROVE  new[t].num <= RootLevel /\ EntryOK(new, n, t, slot)
    BY WordTypes DEF TablesOK
  <2>1. own[t] = new[t] /\ n.memory[t] = m.memory[t]
    BY <1>6, <1>7
  <2>2. own[t].num <= RootLevel /\ EntryOK(own, m, t, slot)
    BY <2>1 DEF Sound, TablesOK
  <2> QED BY <1>1, <1>6, <2>1, <2>2 DEF EntryOK, PointerOK, LeafOK, TableAt, Used
<1>9. ReachedOK(new, n)
  <2> SUFFICES ASSUME NEW q \in Pages, new[q].use = "table" \/ new[q].use = "mapped"
               PROVE  /\ new[q].use = "table" /\ new[q].num < RootLevel => ParentOK(new, n, q)
                      /\ new[q].use = "mapped" => PlaceOK(new, n, q)
    BY DEF ReachedOK
  <2>1. q # p /\ new[q] = own[q]
    BY <1>6
  <2>2. /\ own[q].use = "table" /\ own[q].num < RootLevel => ParentOK(own, m, q)
        /\ own[q].use = "mapped" => PlaceOK(own, m, q)
    BY DEF Sound, ReachedOK
  <2> QED BY <1>1, <1>7, <2>1, <2>2 DEF ParentOK, PlaceOK, TableAt, Used
<1>10. FreeOK(new, n)
  <2>1. NextFree(new, p, n.memory[p][0].page)
    <3>1. CASE m.free = NoPage
      BY <1>5, <1>6, <3>1 DEF NextFree
    <3>2. CASE m.free # NoPage
      <4>1. /\ new[m.free] = own[m.free] /\ own[m.free].num \in Nat
            /\ new[p].num = own[m.free].num + 1
        BY <1>2, <1>3, <1>6, <3>2
      <4>2. own[m.free].num >= 1
        BY <1>2, <3>2 DEF Sound, FreeOK
      <4>3. new[p].num # 1 /\ new[p].num - 1 = own[m.free].num
        BY <4>1, <4>2
      <4> QED BY <1>2, <1>5, <3>2, <4>1, <4>3 DEF NextFree, Used
    <3> QED BY <3>1, <3>2
  <2>2. ASSUME NEW q \in Pages, new[q].use = "free", q # p
        PROVE  /\ m.free # NoPage /\ new[q] = own[q]
               /\ new[q].num >= 1 /\ new[q].num <= height - 1
               /\ NextFree(new, q, n.memory[q][0].page)
               /\ \A r \in Pages : new[r].use = "free" /\ new[r].num = new[q].num => r = q
    <3>1. new[q] = own[q] /\ n.memory[q] = m.memory[q]
      BY <1>7, <2>2
    <3>2. /\ m.free # NoPage /\ own[q].num >= 1 /\ own[q].num <= own[m.free].num
          /\ NextFree(own, q, m.memory[q][0].page)
          /\ \A r \in Pages : own[r].use = "free" /\ own[r].num = own[q].num => r = q
      BY <2>2, <3>1 DEF Sound, FreeOK
    <3>3. height = own[m.free].num + 1 /\ own[m.free].num \in Nat /\ own[q].num \in Nat
      BY <1>2, <1>3, <3>2
    <3>4. own[q].num <= height - 1
      BY <3>2, <3>3
    <3>5. NextFree(new, q, n.memory[q][0].page)
      BY <1>1, <1>7, <3>1, <3>2 DEF NextFree, Used
    <3>6. \A r \in Pages : new[r].use = "free" /\ new[r].num = new[q].num => r = q
      BY <1>6, <3>1, <3>2, <3>3, <3>4
    <3> QED BY <3>1, <3>2, <3>4, <3>5, <3>6
  <2>3. \A r \in Pages : new[r].use = "free" /\ new[r].num = height => r = p
    <3> SUFFICES ASSUME NEW r \in Pages, new[r].use = "free", r # p
                 PROVE  new[r].num # height
      OBVIOUS
    <3>1. new[r].num <= height - 1 /\ new[r].num \in Nat
      BY <1>3, <2>2
    <3> QED BY <1>4, <3>1
  <2>4. \A q \in Pages : new[q].use = "free" => new[q].num <= height
    <3> SUFFICES ASSUME NEW q \in Pages, new[q].use = "free", q # p
                 PROVE  new[q].num <= height
      BY <1>4, <1>6
    <3>1. new[q].num <= height - 1 /\ new[q].num \in Nat
      BY <1>3, <2>2
    <3> QED BY <1>4, <3>1
  <2> QED BY <1>1, <1>4, <1>5, <1>6, <2>1, <2>2, <2>3, <2>4 DEF FreeOK, Used
<1>11. RootsOK(new, roots)
  BY <1>1, <1>6 DEF Sound, RootsOK, TableAt, Used
<1>12. loose = {q \in Pages : new[q].use = "loose"}
  BY <1>1, <1>6 DEF Sound
<1>13. Sound(new, n, loose, roots)
  BY <1>6, <1>8, <1>9, <1>10, <1>11, <1>12 DEF Sound
<1> QED BY <1>6, <1>13 DEF SoundBut

\* A loose page without valid entries becomes a table.
LEMMA LinkTable ==
  ASSUME NEW own, NEW m \in Stores, NEW n, NEW loose, NEW roots,
         Sound(own, m, loose, roots),
         NEW level \in Nat, NEW t, TableAt(own, t, level), level > 0,
         NEW slot \in SlotNumbers, ~Valid(m.memory[t][slot]),
         NEW p \in loose, \A x \in SlotNumbers : ~Valid(m.memory[p][x]),
         SetEntry(m, n, t, slot, Pte(p, {}))
  PROVE  LET new == [own EXCEPT ![p] = Owner("table", level - 1, t, 0)]
         IN  Sound(new, n, loose \ {p}, roots)
<1> DEFINE new == [own EXCEPT ![p] = Owner("table", level - 1, t, 0)]
<1>1. /\ p \in Pages /\ own[p].use = "loose" /\ p \in Dram /\ t \in Pages /\ t # p
      /\ own[t].use = "table" /\ own[t].num = level /\ t \in AllPages /\ level - 1 \in Nat
      /\ t \in Dram /\ own \in Ownership /\ level <= RootLevel
  <2>1. t \in Pages /\ own[t].use = "table" /\ own[t].num = level
    BY DEF TableAt, Used
  <2>2. p \in Pages /\ own[p].use = "loose" /\ own \in Ownership
    BY DEF Sound
  <2>3. level <= RootLevel
    BY <2>1, WordTypes DEF Sound, TablesOK
  <2>4. level - 1 \in Nat
    OBVIOUS
  <2> QED BY <2>1, <2>2, <2>3, <2>4, PagesInDram
<1>2. /\ new \in Ownership /\ new[p].use = "table" /\ new[p].num = level - 1
      /\ new[p].up = t /\ \A q \in Pages : q # p => new[q] = own[q]
  BY <1>1, OwnerTypes DEF Ownership
<1> HIDE DEF new
<1>3. /\ n.free = m.free /\ \A q \in Pages : q # t => n.memory[q] = m.memory[q]
      /\ \A x \in SlotNumbers :
           n.memory[t][x] = IF x = slot THEN Pte(p, {}) ELSE m.memory[t][x]
  BY PagesInDram DEF SetEntry
<1>4. TablesOK(new, n)
  <2> SUFFICES ASSUME NEW q \in Pages, new[q].use = "table", NEW x \in SlotNumbers
               PROVE  new[q].num <= RootLevel /\ EntryOK(new, n, q, x)
    BY WordTypes DEF TablesOK
  <2>1. CASE q = p
    BY <1>1, <1>2, <1>3, <2>1, WordKinds, PageConstants DEF EntryOK
  <2>2. CASE q # p
    <3>1. own[q].num <= RootLevel /\ EntryOK(own, m, q, x)
      BY <1>2, <2>2 DEF Sound, TablesOK
    <3>2. CASE q = t /\ x = slot
      <4>1. EntryOK(new, n, q, x)
        BY <1>1, <1>2, <1>3, <3>2, WordKinds DEF EntryOK, PointerOK, TableAt, Used
      <4> QED BY <1>2, <2>2, <3>1, <4>1
    <3>3. CASE ~(q = t /\ x = slot)
      <4>1. n.memory[q][x] = m.memory[q][x]
        BY <1>3, <3>3
      <4> QED BY <1>1, <1>2, <2>2, <3>1, <4>1 DEF EntryOK, PointerOK, LeafOK, TableAt, Used
    <3> QED BY <3>2, <3>3
  <2> QED BY <2>1, <2>2
<1>5. \A q \in Pages, x \in SlotNumbers : Valid(m.memory[q][x]) => n.memory[q][x] = m.memory[q][x]
  BY <1>3
<1>6. ReachedOK(new, n)
  <2> SUFFICES ASSUME NEW q \in Pages
               PROVE  /\ new[q].use = "table" /\ new[q].num < RootLevel => ParentOK(new, n, q)
                      /\ new[q].use = "mapped" => PlaceOK(new, n, q)
    BY DEF ReachedOK
  <2>1. CASE q = p
    <3>1. ParentOK(new, n, q)
      BY <1>1, <1>2, <1>3, <2>1, WordKinds DEF ParentOK, TableAt, Used
    <3> QED BY <1>2, <2>1, <3>1
  <2>2. CASE q # p
    <3>1. /\ own[q].use = "table" /\ own[q].num < RootLevel => ParentOK(own, m, q)
          /\ own[q].use = "mapped" => PlaceOK(own, m, q)
      BY DEF Sound, ReachedOK
    <3>2. own[q].slot \in SlotNumbers
      BY <1>1 DEF Ownership, Owners
    <3>3. ASSUME own[q].use = "table", own[q].num < RootLevel PROVE ParentOK(new, n, q)
      <4>1. PICK x \in SlotNumbers : /\ Points(m.memory[own[q].up][x])
                                     /\ m.memory[own[q].up][x].page = q
        BY <3>1, <3>3 DEF ParentOK
      <4>2. TableAt(own, own[q].up, own[q].num + 1)
        BY <3>1, <3>3 DEF ParentOK
      <4>3. n.memory[own[q].up][x] = m.memory[own[q].up][x]
        BY <1>5, <4>1, <4>2, WordKinds DEF TableAt, Used
      <4> QED BY <1>1, <1>2, <2>2, <4>1, <4>2, <4>3 DEF ParentOK, TableAt, Used
    <3>4. ASSUME own[q].use = "mapped" PROVE PlaceOK(new, n, q)
      <4>1. /\ TableAt(own, own[q].up, 0) /\ Maps(m.memory[own[q].up][own[q].slot])
            /\ m.memory[own[q].up][own[q].slot].page = q
        BY <3>1, <3>4 DEF PlaceOK
      <4>2. n.memory[own[q].up][own[q].slot] = m.memory[own[q].up][own[q].slot]
        BY <1>5, <3>2, <4>1, WordKinds, SMTT(20) DEF TableAt, Used
      <4> QED BY <1>1, <1>2, <2>2, <4>1, <4>2 DEF PlaceOK, TableAt, Used
    <3> QED BY <1>2, <2>2, <3>3, <3>4
  <2> QED BY <2>1, <2>2
<1>7. FreeOK(new, n)
  BY <1>1, <1>2, <1>3 DEF Sound, FreeOK, NextFree, Used
<1>8. RootsOK(new, roots)
  <2>1. level - 1 # RootLevel
    BY <1>1, PageConstants
  <2> QED BY <1>1, <1>2, <2>1 DEF Sound, RootsOK, TableAt, Used
<1>9. loose \ {p} = {q \in Pages : new[q].use = "loose"}
  BY <1>1, <1>2 DEF Sound
<1> QED BY <1>2, <1>4, <1>6, <1>7, <1>8, <1>9 DEF Sound, new

\* A page is still reached if the entries that lead to it are still there.
LEMMA StillReached ==
  ASSUME NEW own \in Ownership, NEW m, ReachedOK(own, m), NEW new, NEW n,
         NEW q \in Pages, new[q] = own[q],
         \A t \in Pages, x \in SlotNumbers :
           own[t].use = "table" /\ Valid(m.memory[t][x]) /\ m.memory[t][x].page = q =>
             /\ new[t].use = "table" /\ new[t].num = own[t].num
             /\ n.memory[t][x] = m.memory[t][x]
  PROVE  /\ new[q].use = "table" /\ new[q].num < RootLevel => ParentOK(new, n, q)
         /\ new[q].use = "mapped" => PlaceOK(new, n, q)
<1>1. /\ own[q].use = "table" /\ own[q].num < RootLevel => ParentOK(own, m, q)
      /\ own[q].use = "mapped" => PlaceOK(own, m, q)
  BY DEF ReachedOK
<1>2. own[q].slot \in SlotNumbers
  BY DEF Ownership, Owners
<1>3. ASSUME own[q].use = "table", own[q].num < RootLevel PROVE ParentOK(new, n, q)
  <2>1. PICK x \in SlotNumbers : /\ Points(m.memory[own[q].up][x])
                                 /\ m.memory[own[q].up][x].page = q
    BY <1>1, <1>3 DEF ParentOK
  <2>2. TableAt(own, own[q].up, own[q].num + 1)
    BY <1>1, <1>3 DEF ParentOK
  <2>3. /\ n.memory[own[q].up][x] = m.memory[own[q].up][x]
        /\ new[own[q].up].use = "table" /\ new[own[q].up].num = own[own[q].up].num
    BY <2>1, <2>2, WordKinds DEF TableAt, Used
  <2> QED BY <2>1, <2>2, <2>3 DEF ParentOK, TableAt, Used
<1>4. ASSUME own[q].use = "mapped" PROVE PlaceOK(new, n, q)
  <2>1. /\ TableAt(own, own[q].up, 0) /\ Maps(m.memory[own[q].up][own[q].slot])
        /\ m.memory[own[q].up][own[q].slot].page = q
    BY <1>1, <1>4 DEF PlaceOK
  <2>2. /\ n.memory[own[q].up][own[q].slot] = m.memory[own[q].up][own[q].slot]
        /\ new[own[q].up].use = "table" /\ new[own[q].up].num = own[own[q].up].num
    BY <1>2, <2>1, WordKinds DEF TableAt, Used
  <2> QED BY <2>1, <2>2 DEF PlaceOK, TableAt, Used
<1> QED BY <1>3, <1>4

\* A loose page is mapped by an entry of the last level.
LEMMA MapLoose ==
  ASSUME NEW own, NEW m \in Stores, NEW n, NEW loose, NEW roots,
         Sound(own, m, loose, roots),
         NEW t, TableAt(own, t, 0),
         NEW slot \in SlotNumbers, ~Valid(m.memory[t][slot]),
         NEW p \in loose, NEW flags, flags # {},
         SetEntry(m, n, t, slot, Pte(p, flags))
  PROVE  LET new == [own EXCEPT ![p] = Owner("mapped", 0, t, slot)]
         IN  Sound(new, n, loose \ {p}, roots)
<1> DEFINE new == [own EXCEPT ![p] = Owner("mapped", 0, t, slot)]
<1>1. /\ p \in Pages /\ own[p].use = "loose" /\ t \in Pages /\ t # p /\ t \in AllPages
      /\ own[t].use = "table" /\ own[t].num = 0 /\ own \in Ownership
  BY PagesInDram DEF Sound, TableAt, Used
<1>2. /\ new \in Ownership /\ new[p].use = "mapped" /\ new[p].num = 0
      /\ new[p].up = t /\ new[p].slot = slot /\ \A q \in Pages : q # p => new[q] = own[q]
  BY <1>1, OwnerTypes DEF Ownership
<1> HIDE DEF new
<1>3. /\ n.free = m.free /\ \A q \in Pages : q # t => n.memory[q] = m.memory[q]
      /\ \A x \in SlotNumbers :
           n.memory[t][x] = IF x = slot THEN Pte(p, flags) ELSE m.memory[t][x]
  BY PagesInDram DEF SetEntry
<1>4. TablesOK(new, n)
  <2> SUFFICES ASSUME NEW q \in Pages, new[q].use = "table", NEW x \in SlotNumbers
               PROVE  new[q].num <= RootLevel /\ EntryOK(new, n, q, x)
    BY WordTypes DEF TablesOK
  <2>1. q # p /\ own[q] = new[q]
    BY <1>2
  <2>2. own[q].num <= RootLevel /\ EntryOK(own, m, q, x)
    BY <2>1 DEF Sound, TablesOK
  <2>3. CASE q = t /\ x = slot
    <3>1. EntryOK(new, n, q, x)
      BY <1>1, <1>2, <1>3, <2>1, <2>3, WordKinds DEF EntryOK, LeafOK
    <3> QED BY <2>1, <2>2, <3>1
  <2>4. CASE ~(q = t /\ x = slot)
    <3>1. n.memory[q][x] = m.memory[q][x]
      BY <1>3, <2>4
    <3> QED BY <1>1, <1>2, <2>1, <2>2, <3>1 DEF EntryOK, PointerOK, LeafOK, TableAt, Used
  <2> QED BY <2>3, <2>4
<1>5. ReachedOK(new, n)
  <2> SUFFICES ASSUME NEW q \in Pages
               PROVE  /\ new[q].use = "table" /\ new[q].num < RootLevel => ParentOK(new, n, q)
                      /\ new[q].use = "mapped" => PlaceOK(new, n, q)
    BY DEF ReachedOK
  <2>1. CASE q = p
    <3>1. PlaceOK(new, n, q)
      BY <1>1, <1>2, <1>3, <2>1, WordKinds DEF PlaceOK, TableAt, Used
    <3> QED BY <1>2, <2>1, <3>1
  <2>2. CASE q # p
    <3>1. \A u \in Pages, x \in SlotNumbers :
            own[u].use = "table" /\ Valid(m.memory[u][x]) /\ m.memory[u][x].page = q =>
             /\ new[u].use = "table" /\ new[u].num = own[u].num
             /\ n.memory[u][x] = m.memory[u][x]
      BY <1>1, <1>2, <1>3
    <3> QED BY <1>1, <1>2, <2>2, <3>1, StillReached DEF Sound
  <2> QED BY <2>1, <2>2
<1>6. FreeOK(new, n)
  BY <1>1, <1>2, <1>3 DEF Sound, FreeOK, NextFree, Used
<1>7. RootsOK(new, roots)
  BY <1>1, <1>2 DEF Sound, RootsOK, TableAt, Used
<1>8. loose \ {p} = {q \in Pages : new[q].use = "loose"}
  BY <1>1, <1>2 DEF Sound
<1> QED BY <1>2, <1>4, <1>5, <1>6, <1>7, <1>8 DEF Sound, new

\* A page that the allocator does not own is mapped, in the last level or by a
\* root, or a root leads to a table on a second way.
LEMMA MapOther ==
  ASSUME NEW own, NEW m \in Stores, NEW n, NEW loose, NEW roots,
         Sound(own, m, loose, roots),
         NEW t \in Pages, own[t].use = "table",
         NEW slot \in SlotNumbers, ~Valid(m.memory[t][slot]), NEW word,
         Points(word) => PointerOK(own, t, word),
         Maps(word) => word.page \notin Pages /\ LeafOK(own, t, slot, word),
         SetEntry(m, n, t, slot, word)
  PROVE  Sound(own, n, loose, roots)
<1>1. /\ n.free = m.free /\ \A q \in Pages : q # t => n.memory[q] = m.memory[q]
      /\ \A x \in SlotNumbers :
           n.memory[t][x] = IF x = slot THEN word ELSE m.memory[t][x]
  BY PagesInDram DEF SetEntry
<1>2. TablesOK(own, n)
  <2> SUFFICES ASSUME NEW q \in Pages, own[q].use = "table", NEW x \in SlotNumbers
               PROVE  own[q].num <= RootLevel /\ EntryOK(own, n, q, x)
    BY WordTypes DEF TablesOK
  <2>1. own[q].num <= RootLevel /\ EntryOK(own, m, q, x)
    BY DEF Sound, TablesOK
  <2>2. CASE q = t /\ x = slot
    BY <1>1, <2>1, <2>2 DEF EntryOK
  <2>3. CASE ~(q = t /\ x = slot)
    <3>1. n.memory[q][x] = m.memory[q][x]
      BY <1>1, <2>3
    <3> QED BY <2>1, <3>1 DEF EntryOK
  <2> QED BY <2>2, <2>3
<1>3. ReachedOK(own, n)
  <2> SUFFICES ASSUME NEW q \in Pages
               PROVE  /\ own[q].use = "table" /\ own[q].num < RootLevel => ParentOK(own, n, q)
                      /\ own[q].use = "mapped" => PlaceOK(own, n, q)
    BY DEF ReachedOK
  <2>1. \A u \in Pages, x \in SlotNumbers :
          Valid(m.memory[u][x]) => n.memory[u][x] = m.memory[u][x]
    BY <1>1
  <2> QED BY <2>1, StillReached DEF Sound
<1>4. FreeOK(own, n)
  BY <1>1 DEF Sound, FreeOK
<1> QED BY <1>2, <1>3, <1>4 DEF Sound

\* An entry of the last level is cleared: the page it mapped, if the allocator
\* owns it, is loose.
LEMMA ClearLeaf ==
  ASSUME NEW own, NEW m \in Stores, NEW n, NEW loose, NEW roots,
         Sound(own, m, loose, roots),
         NEW t, TableAt(own, t, 0),
         NEW slot \in SlotNumbers, Maps(m.memory[t][slot]),
         SetEntry(m, n, t, slot, Zero),
         NEW p, p = m.memory[t][slot].page,
         NEW more, more = loose \cup ({p} \cap Pages)
  PROVE  SoundBut(own, p, n, more, roots)
<1> DEFINE new == IF p \in Pages THEN [own EXCEPT ![p] = Loose] ELSE own
<1>1. /\ t \in Pages /\ own[t].use = "table" /\ own[t].num = 0 /\ own \in Ownership
      /\ LeafOK(own, t, slot, m.memory[t][slot])
  <2>1. EntryOK(own, m, t, slot)
    BY DEF Sound, TablesOK, TableAt, Used
  <2> QED BY <2>1 DEF EntryOK, Sound, TableAt, Used
<1>2. p \in Pages => own[p].use = "mapped" /\ own[p].up = t /\ own[p].slot = slot
  BY <1>1 DEF LeafOK
<1>3. /\ new \in Ownership
      /\ p \in Pages => new[p].use = "loose"
      /\ \A q \in Pages : q # p => new[q] = own[q]
  BY <1>1, OwnerTypes DEF Ownership, Loose
<1>4. /\ n.free = m.free /\ \A q \in Pages : q # t => n.memory[q] = m.memory[q]
      /\ \A x \in SlotNumbers :
           n.memory[t][x] = IF x = slot THEN Zero ELSE m.memory[t][x]
  BY PagesInDram DEF SetEntry
<1> HIDE DEF new
<1>5. TablesOK(new, n)
  <2> SUFFICES ASSUME NEW q \in Pages, new[q].use = "table", NEW x \in SlotNumbers
               PROVE  new[q].num <= RootLevel /\ EntryOK(new, n, q, x)
    BY WordTypes DEF TablesOK
  <2>1. q # p /\ own[q] = new[q]
    BY <1>3
  <2>2. own[q].num <= RootLevel /\ EntryOK(own, m, q, x)
    BY <2>1 DEF Sound, TablesOK
  <2>3. CASE q = t /\ x = slot
    BY <1>4, <2>1, <2>2, <2>3, WordKinds DEF EntryOK
  <2>4. CASE ~(q = t /\ x = slot)
    <3>1. n.memory[q][x] = m.memory[q][x]
      BY <1>4, <2>4
    <3>2. Points(m.memory[q][x]) => PointerOK(new, q, m.memory[q][x])
      BY <1>2, <1>3, <2>1, <2>2 DEF EntryOK, PointerOK, TableAt, Used
    <3>3. Maps(m.memory[q][x]) => LeafOK(new, q, x, m.memory[q][x])
      BY <1>2, <1>3, <2>1, <2>2, <2>4 DEF EntryOK, LeafOK
    <3> QED BY <2>1, <2>2, <3>1, <3>2, <3>3 DEF EntryOK
  <2> QED BY <2>3, <2>4
<1>6. ReachedOK(new, n)
  <2> SUFFICES ASSUME NEW q \in Pages
               PROVE  /\ new[q].use = "table" /\ new[q].num < RootLevel => ParentOK(new, n, q)
                      /\ new[q].use = "mapped" => PlaceOK(new, n, q)
    BY DEF ReachedOK
  <2>1. CASE q = p
    BY <1>3, <2>1
  <2>2. CASE q # p
    <3>1. \A u \in Pages, x \in SlotNumbers :
            own[u].use = "table" /\ Valid(m.memory[u][x]) /\ m.memory[u][x].page = q =>
             /\ new[u].use = "table" /\ new[u].num = own[u].num
             /\ n.memory[u][x] = m.memory[u][x]
      BY <1>2, <1>3, <1>4, <2>2
    <3> QED BY <1>1, <1>3, <2>2, <3>1, StillReached DEF Sound
  <2> QED BY <2>1, <2>2
<1>7. FreeOK(new, n)
  <2>1. \A q \in Pages : own[q].use = "free" \/ new[q].use = "free" =>
          new[q] = own[q] /\ n.memory[q] = m.memory[q]
    BY <1>1, <1>2, <1>3, <1>4
  <2>2. FreeOK(own, m)
    BY DEF Sound
  <2> QED BY <1>4, <2>1, <2>2, SMTT(20) DEF FreeOK, NextFree, Used
<1>8. RootsOK(new, roots)
  BY <1>2, <1>3 DEF Sound, RootsOK, TableAt, Used
<1>9. more = {q \in Pages : new[q].use = "loose"}
  BY <1>2, <1>3 DEF Sound
<1>10. Sound(new, n, more, roots)
  BY <1>3, <1>5, <1>6, <1>7, <1>8, <1>9 DEF Sound
<1> QED BY <1>3, <1>10 DEF SoundBut

\* An empty table is unlinked from the one entry that leads to it: its page is
\* loose.
LEMMA UnlinkTable ==
  ASSUME NEW own, NEW m \in Stores, NEW n, NEW loose, NEW roots,
         Sound(own, m, loose, roots),
         NEW t \in Pages, own[t].use = "table",
         NEW slot \in SlotNumbers, NEW p, Points(m.memory[t][slot]),
         p = m.memory[t][slot].page,
         \A x \in SlotNumbers :
           Points(m.memory[t][x]) /\ m.memory[t][x].page = p => x = slot,
         \A x \in SlotNumbers : ~Valid(m.memory[p][x]),
         SetEntry(m, n, t, slot, Zero)
  PROVE  /\ TableAt(own, p, own[t].num - 1) /\ p # t
         /\ Sound([own EXCEPT ![p] = Loose], n, loose \cup {p}, roots)
<1> DEFINE new == [own EXCEPT ![p] = Loose]
<1>1. own \in Ownership /\ PointerOK(own, t, m.memory[t][slot])
  BY DEF Sound, TablesOK, EntryOK
<1>2. /\ p \in Pages /\ own[p].use = "table" /\ own[p].num = own[t].num - 1
      /\ own[p].up = t /\ own[t].num \in Nat /\ own[p].num \in Nat /\ p # t
      /\ own[t].num <= RootLevel
  <2>1. p \in Pages /\ own[p].use = "table" /\ own[p].num = own[t].num - 1 /\ own[p].up = t
    BY <1>1 DEF PointerOK, TableAt, Used
  <2>2. own[t].num \in Nat /\ own[p].num \in Nat
    BY <1>1, <2>1 DEF Ownership, Owners
  <2>3. own[t].num <= RootLevel
    BY WordTypes DEF Sound, TablesOK
  <2> QED BY <2>1, <2>2, <2>3
<1>3. /\ new \in Ownership /\ new[p].use = "loose"
      /\ \A q \in Pages : q # p => new[q] = own[q]
  BY <1>1, <1>2, OwnerTypes, SMTT(20) DEF Ownership, Loose
<1> HIDE DEF new
<1>4. /\ n.free = m.free /\ \A q \in Pages : q # t => n.memory[q] = m.memory[q]
      /\ \A x \in SlotNumbers :
           n.memory[t][x] = IF x = slot THEN Zero ELSE m.memory[t][x]
  BY PagesInDram DEF SetEntry
<1>5. TablesOK(new, n)
  <2> SUFFICES ASSUME NEW q \in Pages, new[q].use = "table", NEW x \in SlotNumbers
               PROVE  new[q].num <= RootLevel /\ EntryOK(new, n, q, x)
    BY WordTypes DEF TablesOK
  <2>1. q # p /\ own[q] = new[q]
    BY <1>3
  <2>2. own[q].num <= RootLevel /\ EntryOK(own, m, q, x)
    BY <2>1 DEF Sound, TablesOK
  <2>3. CASE q = t /\ x = slot
    BY <1>4, <2>1, <2>2, <2>3, WordKinds DEF EntryOK
  <2>4. CASE ~(q = t /\ x = slot)
    <3>1. n.memory[q][x] = m.memory[q][x]
      BY <1>4, <2>4
    <3>2. ASSUME Points(m.memory[q][x]) PROVE PointerOK(new, q, m.memory[q][x])
      <4>1. PointerOK(own, q, m.memory[q][x])
        BY <2>2, <3>2 DEF EntryOK
      <4>2. m.memory[q][x].page # p
        BY <1>2, <2>4, <3>2, <4>1 DEF PointerOK
      <4> QED BY <1>3, <2>1, <4>1, <4>2 DEF PointerOK, TableAt, Used
    <3>3. Maps(m.memory[q][x]) => LeafOK(new, q, x, m.memory[q][x])
      BY <1>2, <1>3, <2>1, <2>2 DEF EntryOK, LeafOK
    <3> QED BY <2>1, <2>2, <3>1, <3>2, <3>3 DEF EntryOK
  <2> QED BY <2>3, <2>4
<1>6. ReachedOK(new, n)
  <2> SUFFICES ASSUME NEW q \in Pages
               PROVE  /\ new[q].use = "table" /\ new[q].num < RootLevel => ParentOK(new, n, q)
                      /\ new[q].use = "mapped" => PlaceOK(new, n, q)
    BY DEF ReachedOK
  <2>1. CASE q = p
    BY <1>3, <2>1
  <2>2. CASE q # p
    <3>1. \A u \in Pages, x \in SlotNumbers :
            own[u].use = "table" /\ Valid(m.memory[u][x]) /\ m.memory[u][x].page = q =>
             /\ new[u].use = "table" /\ new[u].num = own[u].num
             /\ n.memory[u][x] = m.memory[u][x]
      BY <1>3, <1>4, <2>2
    <3> QED BY <1>1, <1>3, <2>2, <3>1, StillReached DEF Sound
  <2> QED BY <2>1, <2>2
<1>7. FreeOK(new, n)
  <2>1. \A q \in Pages : own[q].use = "free" \/ new[q].use = "free" =>
          new[q] = own[q] /\ n.memory[q] = m.memory[q]
    BY <1>2, <1>3, <1>4
  <2>2. FreeOK(own, m)
    BY DEF Sound
  <2> QED BY <1>4, <2>1, <2>2, SMTT(20) DEF FreeOK, NextFree, Used
<1>8. RootsOK(new, roots)
  <2>1. own[p].num # RootLevel
    BY <1>2, PageConstants
  <2> QED BY <1>2, <1>3, <2>1 DEF Sound, RootsOK, TableAt, Used
<1>9. loose \cup {p} = {q \in Pages : new[q].use = "loose"}
  BY <1>2, <1>3 DEF Sound
<1>10. Sound(new, n, loose \cup {p}, roots)
  BY <1>3, <1>5, <1>6, <1>7, <1>8, <1>9 DEF Sound
<1> QED BY <1>2, <1>10 DEF new, TableAt, Used

\* A loose page without valid entries becomes a root, or a root without valid
\* entries a loose page.
LEMMA AddRoot ==
  ASSUME NEW own, NEW m \in Stores, NEW loose, NEW roots \in [Spaces -> AllPages],
         Sound(own, m, loose, roots),
         NEW space \in Spaces, roots[space] = NoPage,
         NEW p \in loose, \A x \in SlotNumbers : ~Valid(m.memory[p][x])
  PROVE  Sound([own EXCEPT ![p] = Owner("table", RootLevel, NoPage, 0)], m,
               loose \ {p}, [roots EXCEPT ![space] = p])
<1> DEFINE new == [own EXCEPT ![p] = Owner("table", RootLevel, NoPage, 0)]
           after == [roots EXCEPT ![space] = p]
<1>1. p \in Pages /\ own[p].use = "loose" /\ own \in Ownership /\ p # NoPage
  BY PageConstants DEF Sound
<1>2. /\ new \in Ownership /\ new[p].use = "table" /\ new[p].num = RootLevel
      /\ \A q \in Pages : q # p => new[q] = own[q]
  <2>1. Owner("table", RootLevel, NoPage, 0) \in Owners
    BY OwnerTypes, PagesInDram, PageConstants
  <2> QED BY <1>1, <2>1, OwnerTypes DEF Ownership
<1>3. /\ after[space] = p
      /\ \A s \in Spaces : s # space => after[s] = roots[s]
  OBVIOUS
<1> HIDE DEF new, after
<1>4. TablesOK(new, m)
  <2> SUFFICES ASSUME NEW q \in Pages, new[q].use = "table", NEW x \in SlotNumbers
               PROVE  new[q].num <= RootLevel /\ EntryOK(new, m, q, x)
    BY WordTypes DEF TablesOK
  <2>1. CASE q = p
    BY <1>2, <2>1, WordKinds, PageConstants DEF EntryOK
  <2>2. CASE q # p
    <3>1. own[q].num <= RootLevel /\ EntryOK(own, m, q, x)
      BY <1>2, <2>2 DEF Sound, TablesOK
    <3> QED BY <1>1, <1>2, <2>2, <3>1 DEF EntryOK, PointerOK, LeafOK, TableAt, Used
  <2> QED BY <2>1, <2>2
<1>5. ReachedOK(new, m)
  <2> SUFFICES ASSUME NEW q \in Pages
               PROVE  /\ new[q].use = "table" /\ new[q].num < RootLevel => ParentOK(new, m, q)
                      /\ new[q].use = "mapped" => PlaceOK(new, m, q)
    BY DEF ReachedOK
  <2>1. CASE q = p
    BY <1>2, <2>1, PageConstants
  <2>2. CASE q # p
    <3>1. \A u \in Pages, x \in SlotNumbers :
            own[u].use = "table" /\ Valid(m.memory[u][x]) /\ m.memory[u][x].page = q =>
             /\ new[u].use = "table" /\ new[u].num = own[u].num
             /\ m.memory[u][x] = m.memory[u][x]
      BY <1>1, <1>2
    <3> QED BY <1>1, <1>2, <2>2, <3>1, StillReached DEF Sound
  <2> QED BY <2>1, <2>2
<1>6. FreeOK(new, m)
  <2>1. \A q \in Pages : own[q].use = "free" \/ new[q].use = "free" => new[q] = own[q]
    BY <1>1, <1>2
  <2>2. FreeOK(own, m)
    BY DEF Sound
  <2> QED BY <2>1, <2>2 DEF FreeOK, NextFree, Used
<1>7. RootsOK(new, after)
  <2>1. RootsOK(own, roots)
    BY DEF Sound
  <2>2. \A s \in Spaces : s # space => roots[s] # p
    BY <1>1, <2>1 DEF RootsOK, TableAt, Used
  <2>3. \A s \in Spaces : after[s] # NoPage => TableAt(new, after[s], RootLevel)
    BY <1>1, <1>2, <1>3, <2>1 DEF RootsOK, TableAt, Used
  <2>4. ASSUME NEW t \in Pages, TableAt(new, t, RootLevel)
        PROVE  \E s \in Spaces : after[s] = t
    <3>1. CASE t = p
      BY <1>3, <3>1
    <3>2. CASE t # p
      <4>1. PICK s \in Spaces : roots[s] = t
        BY <1>2, <2>1, <2>4, <3>2 DEF RootsOK, TableAt, Used
      <4>2. s # space
        BY <4>1, PageConstants
      <4> QED BY <1>3, <4>1, <4>2
    <3> QED BY <3>1, <3>2
  <2>5. \A a, b \in Spaces : after[a] = after[b] /\ after[a] # NoPage => a = b
    BY <1>3, <2>1, <2>2 DEF RootsOK
  <2> QED BY <2>3, <2>4, <2>5 DEF RootsOK
<1>8. loose \ {p} = {q \in Pages : new[q].use = "loose"}
  BY <1>1, <1>2 DEF Sound
<1> QED BY <1>2, <1>4, <1>5, <1>6, <1>7, <1>8 DEF Sound, new, after

LEMMA DropRoot ==
  ASSUME NEW own, NEW m \in Stores, NEW loose, NEW roots \in [Spaces -> AllPages],
         Sound(own, m, loose, roots),
         NEW space \in Spaces, NEW p, p = roots[space], p # NoPage,
         \A x \in SlotNumbers : ~Valid(m.memory[p][x])
  PROVE  Sound([own EXCEPT ![p] = Loose], m,
               loose \cup {p}, [roots EXCEPT ![space] = NoPage])
<1> DEFINE new == [own EXCEPT ![p] = Loose]
           after == [roots EXCEPT ![space] = NoPage]
<1>1. RootsOK(own, roots) /\ own \in Ownership
  BY DEF Sound
<1>2. p \in Pages /\ own[p].use = "table" /\ own[p].num = RootLevel
  BY <1>1 DEF RootsOK, TableAt, Used
<1>3. /\ new \in Ownership /\ new[p].use = "loose"
      /\ \A q \in Pages : q # p => new[q] = own[q]
  BY <1>1, <1>2, OwnerTypes, SMTT(20) DEF Ownership, Loose
<1>4. /\ after[space] = NoPage
      /\ \A s \in Spaces : s # space => after[s] = roots[s]
  BY PagesInDram
<1> HIDE DEF new, after
<1>5. \A q \in Pages, x \in SlotNumbers :
        own[q].use = "table" /\ Valid(m.memory[q][x]) => q # p /\ m.memory[q][x].page # p
  <2> SUFFICES ASSUME NEW q \in Pages, NEW x \in SlotNumbers,
                      own[q].use = "table", Valid(m.memory[q][x])
               PROVE  m.memory[q][x].page # p
    OBVIOUS
  <2>1. EntryOK(own, m, q, x) /\ own[q].num <= RootLevel
    BY DEF Sound, TablesOK
  <2>2. CASE Points(m.memory[q][x])
    <3>1. PointerOK(own, q, m.memory[q][x])
      BY <2>1, <2>2 DEF EntryOK
    <3>2. own[q].num \in Nat /\ own[q].num - 1 # RootLevel
      BY <1>1, <2>1, PageConstants DEF Ownership, Owners
    <3> QED BY <1>2, <3>1, <3>2 DEF PointerOK, TableAt, Used
  <2>3. CASE Maps(m.memory[q][x])
    BY <1>2, <2>1, <2>3, PageConstants DEF EntryOK, LeafOK
  <2> QED BY <2>2, <2>3, WordKinds
<1>6. TablesOK(new, m)
  <2> SUFFICES ASSUME NEW q \in Pages, new[q].use = "table", NEW x \in SlotNumbers
               PROVE  new[q].num <= RootLevel /\ EntryOK(new, m, q, x)
    BY WordTypes DEF TablesOK
  <2>1. q # p /\ own[q] = new[q]
    BY <1>3
  <2>2. own[q].num <= RootLevel /\ EntryOK(own, m, q, x)
    BY <2>1 DEF Sound, TablesOK
  <2>3. Valid(m.memory[q][x]) => m.memory[q][x].page # p
    BY <1>5, <2>1
  <2> QED BY <1>3, <2>1, <2>2, <2>3, WordKinds DEF EntryOK, PointerOK, LeafOK, TableAt, Used
<1>7. ReachedOK(new, m)
  <2> SUFFICES ASSUME NEW q \in Pages
               PROVE  /\ new[q].use = "table" /\ new[q].num < RootLevel => ParentOK(new, m, q)
                      /\ new[q].use = "mapped" => PlaceOK(new, m, q)
    BY DEF ReachedOK
  <2>1. CASE q = p
    BY <1>3, <2>1
  <2>2. CASE q # p
    <3>1. \A u \in Pages, x \in SlotNumbers :
            own[u].use = "table" /\ Valid(m.memory[u][x]) /\ m.memory[u][x].page = q =>
             /\ new[u].use = "table" /\ new[u].num = own[u].num
             /\ m.memory[u][x] = m.memory[u][x]
      BY <1>3, <1>5
    <3> QED BY <1>1, <1>3, <2>2, <3>1, StillReached DEF Sound
  <2> QED BY <2>1, <2>2
<1>8. FreeOK(new, m)
  <2>1. \A q \in Pages : own[q].use = "free" \/ new[q].use = "free" => new[q] = own[q]
    BY <1>2, <1>3
  <2>2. FreeOK(own, m)
    BY DEF Sound
  <2> QED BY <2>1, <2>2 DEF FreeOK, NextFree, Used
<1>9. RootsOK(new, after)
  <2>1. \A s \in Spaces : s # space => roots[s] # p
    BY <1>1 DEF RootsOK
  <2>2. \A s \in Spaces : after[s] # NoPage => TableAt(new, after[s], RootLevel)
    BY <1>1, <1>3, <1>4, <2>1 DEF RootsOK, TableAt, Used
  <2>3. \A t \in Pages : TableAt(new, t, RootLevel) => \E s \in Spaces : after[s] = t
    BY <1>1, <1>3, <1>4 DEF RootsOK, TableAt, Used
  <2>4. \A a, b \in Spaces : after[a] = after[b] /\ after[a] # NoPage => a = b
    BY <1>1, <1>4 DEF RootsOK
  <2> QED BY <2>2, <2>3, <2>4 DEF RootsOK
<1>10. loose \cup {p} = {q \in Pages : new[q].use = "loose"}
  BY <1>2, <1>3 DEF Sound
<1> QED BY <1>3, <1>6, <1>7, <1>8, <1>9, <1>10 DEF Sound, new, after

-----------------------------------------------------------------------------
(* Walks.                                                                  *)

\* A level spans at least a page.
LEMMA SpanPositive ==
  ASSUME NEW level \in Nat
  PROVE  Span(level) \in Nat \ {0}
<1> DEFINE turn == [i \in Nat |-> [pages \in Nat |-> pages * Slots]]
           I == [i \in Nat |-> Nat \ {0}]
<1>1. \A i \in 0 .. level - 1 : \A s \in I[i] : turn[i][s] \in I[i + 1]
  <2> SUFFICES ASSUME NEW i \in 0 .. level - 1, NEW s \in Nat \ {0}
               PROVE  s * Slots \in Nat \ {0}
    OBVIOUS
  <2>1. Slots \in Nat \ {0} /\ Slots \in Int /\ s \in Int /\ Slots >= 1
    BY PageConstants
  <2>2. s * Slots >= s
    BY <2>1, Product
  <2>3. s * Slots \in Int
    BY <2>1
  <2> QED BY <2>2, <2>3
<1>2. 1 \in I[0]
  OBVIOUS
<1> HIDE DEF turn
<1>3. I[level] = Nat \ {0}
  OBVIOUS
<1> HIDE DEF I
<1>4. Repeat(turn, 1, level) \in I[level]
  BY <1>1, <1>2, RepeatKeeps
<1> QED BY <1>3, <1>4 DEF Span, turn

\* An index is a slot.
LEMMA IndexTyped ==
  ASSUME NEW level \in Nat, NEW va \in Int
  PROVE  Index(level, va) \in SlotNumbers
<1>1. Span(level) \in Nat \ {0}
  BY SpanPositive
<1>2. va \div Span(level) \in Int
  BY <1>1, DivMod
<1>3. (va \div Span(level)) % Slots \in 0 .. Slots - 1
  BY <1>2, PageConstants, DivMod
<1> QED BY <1>3 DEF Index, SlotNumbers

\* Ownership does not depend on the other fields.
LEMMA SoundSame ==
  ASSUME NEW own, NEW m, NEW n, NEW loose, NEW roots, Sound(own, m, loose, roots),
         n.memory = m.memory, n.free = m.free
  PROVE  Sound(own, n, loose, roots)
BY DEF Sound, TablesOK, EntryOK, ReachedOK, ParentOK, PlaceOK, FreeOK

NoLeaf(m, t) == \A slot \in SlotNumbers : ~Maps(m.memory[t][slot])

\* A new table under an entry of a table on the way.
LEMMA AddTableKeeps ==
  ASSUME NEW own, NEW m \in Stores, NEW loose, NEW roots,
         Sound(own, m, loose, roots), NEW level \in Nat, level > 0,
         TableAt(own, m.table, level), NEW va \in Int,
         ~Valid(m.memory[m.table][Index(level, va)])
  PROVE  LET n == AddTable(m, level, va)
         IN  /\ n \in Stores
             /\ \E new : /\ Sound(new, n, loose, roots)
                         /\ n.ok => TableAt(new, n.table, level - 1)
                         /\ \A t, l : TableAt(own, t, l) => TableAt(new, t, l)
                         /\ \A t \in Pages : own[t].use = "table" /\ NoLeaf(m, t) => NoLeaf(n, t)
<1> DEFINE n == AddTable(m, level, va)
           slot == Index(level, va)
           t == m.table
           p == m.free
           n1 == KallocPage(m)
           own1 == [own EXCEPT ![p] = Loose]
           n2 == [n1 EXCEPT !.memory[p] = Filled(Zero)]
           n3 == [n2 EXCEPT !.memory[t][slot] = Pte(p, {})]
           own3 == [own1 EXCEPT ![p] = Owner("table", level - 1, t, 0)]
<1>1. CASE m.free = NoPage
  <2>1. n = Fail(m)
    <3>1. n1 = Fail(m)
      BY <1>1 DEF KallocPage
    <3>2. ~n1.ok
      BY <3>1, StoreTypes
    <3> QED BY <3>1, <3>2 DEF AddTable
  <2>2. n \in Stores /\ ~n.ok /\ n.memory = m.memory /\ n.free = m.free
    BY <2>1, StoreTypes
  <2> HIDE DEF n
  <2>3. Sound(own, n, loose, roots)
    BY <2>2, SoundSame
  <2>4. \A u \in Pages : NoLeaf(m, u) => NoLeaf(n, u)
    BY <2>2 DEF NoLeaf
  <2> QED BY <2>2, <2>3, <2>4 DEF n
<1>2. CASE m.free # NoPage
  <2>1. /\ n1 \in Stores /\ n1.ok /\ n1.table = m.table /\ p \in Pages /\ p \notin loose
        /\ \A q \in Dram : q # p => n1.memory[q] = m.memory[q]
        /\ Sound(own1, n1, loose \cup {p}, roots)
    BY <1>2, Kalloc
  <2>2. /\ t \in Pages /\ own[t].use = "table" /\ own[t].num = level /\ t # p
        /\ slot \in SlotNumbers /\ p \in Dram /\ t \in Dram /\ p \in AllPages
        /\ own \in Ownership
    <3>1. t \in Pages /\ own[t].use = "table" /\ own[t].num = level
      BY DEF TableAt, Used
    <3>2. own[p].use = "free"
      BY <1>2 DEF Sound, FreeOK, Used
    <3>3. slot \in SlotNumbers
      BY IndexTyped
    <3> QED BY <2>1, <3>1, <3>2, <3>3, PagesInDram DEF Sound
  <2> HIDE DEF n1, slot
  <2>3. SetPage(n1, n2, p, Filled(Zero)) /\ n2 \in Stores
    <3>1. Filled(Zero) \in [SlotNumbers -> Words]
      BY WordTypes
    <3>2. SetPage(n1, n2, p, Filled(Zero))
      BY <2>1, <2>2, <3>1, Writing
    <3> QED BY <3>2 DEF SetPage
  <2>4. Sound(own1, n2, loose \cup {p}, roots)
    <3>1. p \in (loose \cup {p}) \cup {KernelPage}
      OBVIOUS
    <3> HIDE DEF n2, own1
    <3> QED BY <2>1, <2>3, <3>1, WriteLoose
  <2>5. /\ \A x \in SlotNumbers : ~Valid(n2.memory[p][x])
        /\ \A q \in Dram : q # p => n2.memory[q] = m.memory[q]
    <3>1. /\ n2.memory[p] = Filled(Zero)
          /\ \A q \in Dram : q # p => n2.memory[q] = n1.memory[q]
      BY <2>3 DEF SetPage
    <3>2. \A x \in SlotNumbers : n2.memory[p][x] = Zero
      BY <3>1 DEF Filled
    <3> QED BY <2>1, <3>1, <3>2, WordKinds
  <2> HIDE DEF n2
  <2>6. SetEntry(n2, n3, t, slot, Pte(p, {})) /\ n3 \in Stores
    <3>1. Pte(p, {}) \in Words
      BY <2>2, WordTypes
    <3>2. SetEntry(n2, n3, t, slot, Pte(p, {}))
      BY <2>2, <2>3, <3>1, Writing
    <3> QED BY <3>2 DEF SetEntry
  <2> HIDE DEF n3
  <2>7. TableAt(own1, t, level)
    BY <2>1, <2>2 DEF TableAt, Used
  <2>8. ~Valid(n2.memory[t][slot])
    BY <2>2, <2>5 DEF slot
  <2>9. Sound(own3, n3, loose, roots)
    <3>1. p \in loose \cup {p} /\ (loose \cup {p}) \ {p} = loose
      BY <2>1
    <3> DEFINE more == loose \cup {p}
    <3>2. Sound(own1, n2, more, roots) /\ p \in more
      BY <2>4
    <3> HIDE DEF own1, more
    <3>3. Sound(own3, n3, more \ {p}, roots)
      BY <2>2, <2>3, <2>5, <2>6, <2>7, <2>8, <3>2, LinkTable
    <3> QED BY <3>1, <3>3 DEF more
  <2>10. n = [n3 EXCEPT !.table = p]
    <3>1. n = [n1 EXCEPT !.memory[p] = Filled(Zero), !.memory[t][slot] = Pte(p, {}),
                         !.table = p]
      BY <2>1 DEF AddTable, n1, slot
    <3> QED BY <2>1, <3>1 DEF n2, n3, Stores
  <2>11. n \in Stores /\ n.memory = n3.memory /\ n.free = n3.free /\ n.table = p
    BY <2>2, <2>6, <2>10 DEF Stores
  <2> HIDE DEF n, own3
  <2>12. Sound(own3, n, loose, roots)
    BY <2>9, <2>11, SoundSame
  <2>13. own3[p].use = "table" /\ own3[p].num = level - 1 /\ \A q \in Pages : q # p => own3[q] = own[q]
    BY <2>1, <2>2, OwnerTypes DEF own3, own1, Ownership
  <2>14. own[p].use = "free"
    BY <1>2 DEF Sound, FreeOK, Used
  <2>15. \A u, l : TableAt(own, u, l) => TableAt(own3, u, l)
    BY <2>13, <2>14 DEF TableAt, Used
  <2>16. ASSUME NEW u \in Pages, own[u].use = "table", NoLeaf(m, u) PROVE NoLeaf(n, u)
    <3>1. u # p /\ u \in Dram
      BY <2>14, <2>16, PagesInDram
    <3>2. \A x \in SlotNumbers : n.memory[u][x] = m.memory[u][x] \/ n.memory[u][x] = Pte(p, {})
      BY <2>5, <2>6, <2>11, <3>1 DEF SetEntry
    <3> QED BY <2>16, <3>2, WordKinds DEF NoLeaf
  <2> QED BY <2>1, <2>11, <2>12, <2>13, <2>15, <2>16 DEF n, TableAt, Used
<1> QED BY <1>1, <1>2

\* The states of a walk after i levels.
Way(m, top, alloc, loose, roots, i) ==
  {w \in Stores :
     /\ ~alloc => w.memory = m.memory /\ w.free = m.free
     /\ NoLeaf(w, top)
     /\ i = 0 => w.table = top
     /\ \E own : /\ Sound(own, w, loose, roots)
                 /\ TableAt(own, top, RootLevel)
                 /\ w.ok => TableAt(own, w.table, RootLevel - i)}

\* One level of xv6_walk.
LEMMA DescendKeeps ==
  ASSUME NEW m, NEW top, NEW alloc \in BOOLEAN, NEW loose, NEW roots,
         NEW i \in 0 .. RootLevel - 1, NEW va \in Int,
         NEW w \in Way(m, top, alloc, loose, roots, i)
  PROVE  Descend(w, RootLevel - i, va, alloc) \in Way(m, top, alloc, loose, roots, i + 1)
<1> DEFINE level == RootLevel - i
           n == Descend(w, level, va, alloc)
           slot == Index(level, va)
           pte == w.memory[w.table][slot]
<1>1. PICK own : /\ Sound(own, w, loose, roots)
                 /\ TableAt(own, top, RootLevel)
                 /\ w.ok => TableAt(own, w.table, level)
  BY DEF Way
<1>2. /\ w \in Stores /\ NoLeaf(w, top) /\ (i = 0 => w.table = top)
      /\ (~alloc => w.memory = m.memory /\ w.free = m.free)
  BY DEF Way
<1>3. /\ level \in Nat /\ level > 0 /\ level <= RootLevel /\ RootLevel - (i + 1) = level - 1
      /\ i + 1 # 0 /\ (i # 0 => level # RootLevel) /\ (i = 0 => level = RootLevel)
  BY PageConstants
<1>4. SUFFICES /\ n \in Stores
               /\ ~alloc => n.memory = m.memory /\ n.free = m.free
               /\ NoLeaf(n, top)
               /\ \E new : /\ Sound(new, n, loose, roots)
                           /\ TableAt(new, top, RootLevel)
                           /\ n.ok => TableAt(new, n.table, level - 1)
  BY <1>3 DEF Way
<1> HIDE DEF level
<1>5. slot \in SlotNumbers
  BY <1>3, IndexTyped
<1>6. ASSUME n \in Stores, n.memory = w.memory, n.free = w.free,
             n.ok => TableAt(own, n.table, level - 1)
      PROVE  /\ n \in Stores
             /\ ~alloc => n.memory = m.memory /\ n.free = m.free
             /\ NoLeaf(n, top)
             /\ \E new : /\ Sound(new, n, loose, roots)
                         /\ TableAt(new, top, RootLevel)
                         /\ n.ok => TableAt(new, n.table, level - 1)
  <2> HIDE DEF n
  <2>1. Sound(own, n, loose, roots)
    BY <1>1, <1>6, SoundSame
  <2>2. NoLeaf(n, top)
    BY <1>2, <1>6 DEF NoLeaf
  <2> QED BY <1>1, <1>2, <1>6, <2>1, <2>2
<1>7. CASE ~w.ok
  <2>1. n = w
    BY <1>7 DEF Descend
  <2> QED BY <1>2, <1>6, <1>7, <2>1
<1>8. CASE w.ok
  <2>1. /\ w.table \in Pages /\ own[w.table].use = "table" /\ own[w.table].num = level
        /\ w.table \in Dram /\ TableAt(own, w.table, level)
    BY <1>1, <1>8, PagesInDram DEF TableAt, Used
  <2>2. CASE Valid(pte)
    <3>1. n = [w EXCEPT !.table = pte.page]
      BY <1>8, <2>1, <2>2 DEF Descend
    <3>2. ~Maps(pte)
      <4>1. CASE i = 0
        BY <1>2, <1>5, <4>1 DEF NoLeaf
      <4>2. CASE i # 0
        <5>1. EntryOK(own, w, w.table, slot)
          BY <1>1, <1>5, <2>1 DEF Sound, TablesOK
        <5>2. level # RootLevel /\ level # 0
          BY <1>3, <4>2
        <5> QED BY <2>1, <5>1, <5>2 DEF EntryOK, LeafOK
      <4> QED BY <4>1, <4>2
    <3>3. TableAt(own, pte.page, level - 1)
      <4>1. EntryOK(own, w, w.table, slot) /\ Points(pte)
        BY <1>1, <1>5, <2>1, <2>2, <3>2, WordKinds DEF Sound, TablesOK
      <4> QED BY <2>1, <4>1 DEF EntryOK, PointerOK
    <3>4. pte.page \in AllPages
      BY <1>2, <1>5, <2>1, StoreTypes
    <3> HIDE DEF pte
    <3>5. n \in Stores /\ n.memory = w.memory /\ n.free = w.free /\ n.table = pte.page
      BY <1>2, <3>1, <3>4 DEF Stores
    <3> HIDE DEF n
    <3> QED BY <1>6, <3>3, <3>5 DEF n
  <2>3. CASE ~Valid(pte) /\ ~alloc
    <3>1. n = Fail(w)
      BY <1>8, <2>1, <2>3 DEF Descend
    <3>2. n \in Stores /\ n.memory = w.memory /\ n.free = w.free /\ ~n.ok
      BY <1>2, <3>1, StoreTypes
    <3> HIDE DEF n
    <3> QED BY <1>6, <3>2 DEF n
  <2>4. CASE ~Valid(pte) /\ alloc
    <3>1. n = AddTable(w, level, va)
      BY <1>8, <2>1, <2>4 DEF Descend
    <3>2. /\ n \in Stores
          /\ \E new : /\ Sound(new, n, loose, roots)
                      /\ n.ok => TableAt(new, n.table, level - 1)
                      /\ \A t, l : TableAt(own, t, l) => TableAt(new, t, l)
                      /\ \A t \in Pages : own[t].use = "table" /\ NoLeaf(w, t) => NoLeaf(n, t)
      <4>1. ~Valid(w.memory[w.table][Index(level, va)])
        BY <2>4
      <4> HIDE DEF n, pte, slot
      <4> QED BY <1>1, <1>2, <1>3, <2>1, <3>1, <4>1, AddTableKeeps
    <3> HIDE DEF n
    <3>3. top \in Pages /\ own[top].use = "table"
      BY <1>1 DEF TableAt, Used
    <3> QED BY <1>1, <1>2, <2>4, <3>2, <3>3 DEF n
  <2> QED BY <2>2, <2>3, <2>4
<1> QED BY <1>7, <1>8

\* xv6_walk ends at a table of the last level, or fails.
LEMMA WalkKeeps ==
  ASSUME NEW own, NEW m \in Stores, NEW loose, NEW roots, Sound(own, m, loose, roots),
         NEW top, TableAt(own, top, RootLevel), NoLeaf(m, top),
         NEW va \in Int, NEW alloc \in BOOLEAN
  PROVE  Walk(m, top, va, alloc) \in Way(m, top, alloc, loose, roots, RootLevel)
<1> DEFINE Turn == [i \in Nat |-> [w \in Stores |-> Descend(w, RootLevel - i, va, alloc)]]
           start == [m EXCEPT !.table = top, !.ok = va < MaxVa]
           I == [i \in Nat |-> Way(m, top, alloc, loose, roots, i)]
<1>1. /\ start \in Stores /\ start.memory = m.memory /\ start.free = m.free
      /\ start.table = top
  <2>1. top \in AllPages
    BY PagesInDram DEF TableAt, Used
  <2>2. (va < MaxVa) \in BOOLEAN
    BY PageConstants
  <2> DEFINE inRange == va < MaxVa
  <2> HIDE DEF inRange
  <2>3. start = [m EXCEPT !.table = top, !.ok = inRange] /\ inRange \in BOOLEAN
    BY <2>2 DEF inRange
  <2> HIDE DEF start
  <2> QED BY <2>1, <2>3 DEF Stores
<1>2. start \in I[0]
  <2> HIDE DEF start
  <2>1. Sound(own, start, loose, roots)
    BY <1>1, SoundSame
  <2>2. NoLeaf(start, top)
    BY <1>1 DEF NoLeaf
  <2>3. RootLevel - 0 = RootLevel
    BY PageConstants
  <2>4. start \in Way(m, top, alloc, loose, roots, 0)
    BY <1>1, <2>1, <2>2, <2>3 DEF Way
  <2> QED BY <2>4
<1>3. RootLevel \in Nat
  BY PageConstants
<1>4. \A i \in 0 .. RootLevel - 1 : \A s \in I[i] : Turn[i][s] \in I[i + 1]
  <2> SUFFICES ASSUME NEW i \in 0 .. RootLevel - 1, NEW s \in I[i]
               PROVE  Turn[i][s] \in I[i + 1]
    OBVIOUS
  <2>1. i \in Nat /\ i + 1 \in Nat
    OBVIOUS
  <2>2. s \in Way(m, top, alloc, loose, roots, i) /\ s \in Stores
    BY <2>1 DEF Way
  <2>3. Descend(s, RootLevel - i, va, alloc) \in Way(m, top, alloc, loose, roots, i + 1)
    BY <2>2, DescendKeeps
  <2> QED BY <2>1, <2>2, <2>3
<1>5. I[RootLevel] = Way(m, top, alloc, loose, roots, RootLevel)
  BY <1>3
<1> HIDE DEF Turn, I, start
<1>6. Repeat(Turn, start, RootLevel) \in I[RootLevel]
  BY <1>2, <1>3, <1>4, RepeatKeeps
<1> QED BY <1>5, <1>6 DEF Walk, Turn, start

\* xv6_mappage maps a loose page, or one the allocator does not own.
LEMMA MappageKeeps ==
  ASSUME NEW own, NEW m \in Stores, NEW loose, NEW roots, Sound(own, m, loose, roots),
         NEW top, TableAt(own, top, RootLevel), NoLeaf(m, top),
         NEW va \in Int, NEW p \in loose \cup {KernelPage, DevicePage},
         NEW flags \in {{}, UserFlags}, flags # {}
  PROVE  LET n == Mappage(m, top, va, p, flags)
         IN  /\ n \in Stores /\ NoLeaf(n, top)
             /\ \E new : /\ Sound(new, n, IF n.ok THEN loose \ {p} ELSE loose, roots)
                         /\ TableAt(new, top, RootLevel)
<1> DEFINE n == Mappage(m, top, va, p, flags)
           w == Walk(m, top, va, TRUE)
           slot == Index(0, va)
           t == w.table
<1>1. w \in Way(m, top, TRUE, loose, roots, RootLevel)
  BY WalkKeeps
<1> HIDE DEF w
<1>2. PICK new1 : /\ Sound(new1, w, loose, roots)
                  /\ TableAt(new1, top, RootLevel)
                  /\ w.ok => TableAt(new1, t, 0)
  <2>1. RootLevel - RootLevel = 0
    BY PageConstants
  <2> QED BY <1>1, <2>1 DEF Way
<1>3. w \in Stores /\ NoLeaf(w, top)
  BY <1>1 DEF Way
<1>4. slot \in SlotNumbers
  BY IndexTyped
<1>5. ASSUME n \in Stores, n.memory = w.memory, n.free = w.free, ~n.ok
      PROVE  /\ n \in Stores /\ NoLeaf(n, top)
             /\ \E new : /\ Sound(new, n, IF n.ok THEN loose \ {p} ELSE loose, roots)
                         /\ TableAt(new, top, RootLevel)
  <2> HIDE DEF n
  <2>1. Sound(new1, n, loose, roots)
    BY <1>2, <1>5, SoundSame
  <2>2. NoLeaf(n, top)
    BY <1>3, <1>5 DEF NoLeaf
  <2> QED BY <1>2, <1>5, <2>1, <2>2
<1>6. CASE ~w.ok
  <2>1. n = w
    BY <1>6 DEF Mappage, w
  <2> QED BY <1>3, <1>5, <1>6, <2>1
<1>7. CASE w.ok /\ Valid(w.memory[t][slot])
  <2>1. n = Fail(w)
    BY <1>7 DEF Mappage, w
  <2>2. n \in Stores /\ n.memory = w.memory /\ n.free = w.free /\ ~n.ok
    BY <1>3, <2>1, StoreTypes
  <2> QED BY <1>5, <2>2
<1>8. CASE w.ok /\ ~Valid(w.memory[t][slot])
  <2> DEFINE v == [w EXCEPT !.memory[t][slot] = Pte(p, flags)]
  <2>1. n = v
    BY <1>8 DEF Mappage, w
  <2>2. /\ t \in Pages /\ new1[t].use = "table" /\ new1[t].num = 0 /\ t \in Dram
        /\ TableAt(new1, t, 0) /\ t # top /\ top \in Pages /\ top \in Dram
    BY <1>2, <1>8, PagesInDram, PageConstants DEF TableAt, Used
  <2>3. loose \subseteq Pages
    BY DEF Sound
  <2>4. SetEntry(w, v, t, slot, Pte(p, flags)) /\ v \in Stores /\ v.ok
    <3>1. Pte(p, flags) \in Words
      BY <2>3, WordTypes, PagesInDram
    <3>2. SetEntry(w, v, t, slot, Pte(p, flags))
      BY <1>3, <1>4, <2>2, <3>1, Writing
    <3>3. v.ok = w.ok
      BY <1>3 DEF Stores
    <3> QED BY <1>8, <3>2, <3>3 DEF SetEntry
  <2> HIDE DEF v, slot
  <2>5. NoLeaf(v, top)
    <3>1. v.memory[top] = w.memory[top]
      BY <2>2, <2>4 DEF SetEntry
    <3> QED BY <1>3, <3>1 DEF NoLeaf
  <2>6. CASE p \in loose
    <3> DEFINE new == [new1 EXCEPT ![p] = Owner("mapped", 0, t, slot)]
    <3>1. Sound(new, v, loose \ {p}, roots)
      BY <1>2, <1>3, <1>4, <1>8, <2>2, <2>4, <2>6, MapLoose
    <3>2. p # top /\ new1 \in Ownership
      BY <1>2, <2>6 DEF Sound, TableAt, Used
    <3>3. TableAt(new, top, RootLevel)
      BY <1>2, <3>2 DEF TableAt, Used, Ownership
    <3> HIDE DEF new
    <3> QED BY <2>1, <2>4, <2>5, <3>1, <3>3
  <2>7. CASE p \notin loose
    <3>1. p \notin Pages /\ loose \ {p} = loose
      BY <2>7, PageConstants
    <3>2. ~Points(Pte(p, flags)) /\ LeafOK(new1, t, slot, Pte(p, flags)) /\ Pte(p, flags).page = p
      BY <2>2, <3>1, WordKinds DEF LeafOK
    <3>3. Sound(new1, v, loose, roots)
      BY <1>2, <1>3, <1>4, <1>8, <2>2, <2>4, <3>1, <3>2, MapOther
    <3> QED BY <1>2, <2>1, <2>4, <2>5, <3>1, <3>3
  <2> QED BY <2>6, <2>7
<1> QED BY <1>6, <1>7, <1>8

\* What remains of a table after its entry is cleared.
Cleared(m, n, t, slot) ==
  \A x \in SlotNumbers : n.memory[t][x] = IF x = slot THEN Zero ELSE m.memory[t][x]
Elsewhere(m, n, p, t) ==
  \A q \in Dram : q # p /\ q # t => n.memory[q] = m.memory[q]

\* A page and an entry change, in either order; everything else stays.
LEMMA PageThenEntry ==
  ASSUME NEW m, NEW f, NEW n, NEW p, NEW t, NEW slot, NEW word,
         OnlyPage(m, f, p), SetEntry(f, n, t, slot, word)
  PROVE  Elsewhere(m, n, p, t)
BY DEF OnlyPage, SetEntry, Elsewhere

LEMMA EntryThenPage ==
  ASSUME NEW m, NEW v, NEW g, NEW p, NEW t, NEW slot, NEW word,
         SetEntry(m, v, t, slot, word), OnlyPage(v, g, p)
  PROVE  Elsewhere(m, g, p, t)
BY DEF OnlyPage, SetEntry, Elsewhere

\* A mapped page is given back, and then its entry cleared.
LEMMA FreeMapped ==
  ASSUME NEW own, NEW m \in Stores, NEW loose, NEW roots, Sound(own, m, loose, roots),
         NEW t, TableAt(own, t, 0), NEW slot \in SlotNumbers,
         Maps(m.memory[t][slot]), NEW p \in Pages, p = m.memory[t][slot].page,
         NEW f, f = KfreePage(m, p), NEW n, SetEntry(f, n, t, slot, Zero),
         n.ok = f.ok, n.table = f.table
  PROVE  /\ f.ok /\ n \in Stores /\ n.ok /\ n.table = m.table
         /\ Elsewhere(m, n, p, t)
         /\ Cleared(m, n, t, slot)
         /\ own[p].use = "mapped" /\ own[p].up = t /\ own[p].slot = slot
         /\ SoundBut(own, p, n, loose, roots)
<1>1. /\ t \in Pages /\ own[t].use = "table" /\ own[t].num = 0 /\ t \in Dram
      /\ LeafOK(own, t, slot, m.memory[t][slot]) /\ p \in Dram
  <2>1. t \in Pages /\ own[t].use = "table" /\ own[t].num = 0
    BY DEF TableAt, Used
  <2>2. EntryOK(own, m, t, slot)
    BY <2>1 DEF Sound, TablesOK
  <2> QED BY <2>1, <2>2, PagesInDram DEF EntryOK
<1>2. own[p].use = "mapped" /\ own[p].up = t /\ own[p].slot = slot /\ p # t
  BY <1>1 DEF LeafOK
<1>3. PICK v : v = [m EXCEPT !.memory[t][slot] = Zero]
  OBVIOUS
<1>4. SetEntry(m, v, t, slot, Zero) /\ v \in Stores /\ v.free = m.free /\ v.table = m.table
  <2>1. SetEntry(m, v, t, slot, Zero)
    BY <1>1, <1>3, WordTypes, Writing
  <2>2. v.table = m.table
    BY <1>3 DEF Stores
  <2> QED BY <2>1, <2>2 DEF SetEntry
<1>5. PICK g : g = KfreePage(v, p)
  OBVIOUS
<1>6. /\ f \in Stores /\ f.ok /\ f.free = p /\ f.table = m.table /\ OnlyPage(m, f, p)
  BY KfreeIs
<1>7. g \in Stores /\ g.free = p /\ OnlyPage(v, g, p)
  BY <1>4, <1>5, KfreeIs, SMTT(20)
<1>8. n.ok /\ n.table = m.table /\ n \in Stores
  BY <1>6 DEF SetEntry
<1>9. PICK more : more = loose \cup {p}
  OBVIOUS
<1>10. p \in more /\ loose = more \ {p}
  BY <1>2, <1>9 DEF Sound
<1>11. PICK new1 : /\ Sound(new1, v, more, roots)
                   /\ \A q \in Pages : q # p => new1[q] = own[q]
  <2>1. SoundBut(own, p, v, more, roots)
    <3>1. more = loose \cup ({p} \cap Pages)
      BY <1>9
    <3> QED BY <1>4, <3>1, ClearLeaf
  <2> QED BY <2>1 DEF SoundBut
<1>17. PICK new : /\ Sound(new, g, loose, roots)
                  /\ \A q \in Pages : q # p => new[q] = new1[q]
  <2>1. SoundBut(new1, p, g, loose, roots)
    BY <1>4, <1>5, <1>10, <1>11, KfreeLinks, SMTT(20)
  <2> QED BY <2>1 DEF SoundBut
<1>12. n.memory = g.memory /\ n.free = g.free
  <2>1. \A q \in Dram : q # p /\ q # t => n.memory[q] = g.memory[q]
    <3>1. Elsewhere(m, n, p, t)
      BY <1>6, PageThenEntry
    <3>2. Elsewhere(m, g, p, t)
      BY <1>4, <1>7, EntryThenPage
    <3> QED BY <3>1, <3>2 DEF Elsewhere
  <2>2. n.memory[p] = g.memory[p]
    <3>1. n.memory[p] = f.memory[p]
      BY <1>1, <1>2, <1>8 DEF SetEntry
    <3>2. f.memory[p] = [Filled(Freed) EXCEPT ![0] = Address(m.free)]
      BY <1>1 DEF KfreePage, Stores, Memories
    <3>3. g.memory[p] = [Filled(Freed) EXCEPT ![0] = Address(m.free)]
      BY <1>1, <1>4, <1>5 DEF KfreePage, Stores, Memories
    <3> QED BY <3>1, <3>2, <3>3
  <2>3. n.memory[t] = g.memory[t]
    <3>1. g.memory[t] = v.memory[t] /\ f.memory[t] = m.memory[t]
      BY <1>1, <1>2, <1>6, <1>7 DEF OnlyPage
    <3>2. \A x \in SlotNumbers : n.memory[t][x] = g.memory[t][x]
      BY <1>4, <1>8, <3>1 DEF SetEntry
    <3>3. n.memory[t] \in [SlotNumbers -> Words] /\ g.memory[t] \in [SlotNumbers -> Words]
      BY <1>1, <1>7, <1>8, StoreTypes
    <3> QED BY <3>2, <3>3
  <2>4. n.memory \in [Dram -> [SlotNumbers -> Words]] /\ g.memory \in [Dram -> [SlotNumbers -> Words]]
    BY <1>7, <1>8 DEF Stores, Memories
  <2>5. \A q \in Dram : n.memory[q] = g.memory[q]
    BY <2>1, <2>2, <2>3
  <2>6. n.memory = g.memory
    BY <2>4, <2>5
  <2>7. n.free = f.free
    BY DEF SetEntry
  <2> QED BY <1>6, <1>7, <2>6, <2>7
<1>13. Sound(new, n, loose, roots)
  BY <1>12, <1>17, SoundSame
<1>14. SoundBut(own, p, n, loose, roots)
  BY <1>11, <1>13, <1>17, SMTT(20) DEF SoundBut
<1>15. Elsewhere(m, n, p, t)
  BY <1>6, PageThenEntry
<1>16. Cleared(m, n, t, slot)
  <2>1. f.memory[t] = m.memory[t]
    BY <1>1, <1>2, <1>6 DEF OnlyPage
  <2> QED BY <2>1 DEF SetEntry, Cleared
<1> QED BY <1>2, <1>6, <1>8, <1>14, <1>15, <1>16

\* States with a root table that has no leaf, as the code that adds to a space
\* expects it, and with some pages loose.
Based(top, loose, roots) ==
  {m \in Stores : /\ NoLeaf(m, top)
                  /\ \E own : /\ Sound(own, m, loose, roots)
                              /\ TableAt(own, top, RootLevel)}

\* The root stays a table when another page changes its owner.
LEMMA StaysRoot ==
  ASSUME NEW own, NEW n \in Stores, NEW p, NEW loose, NEW roots, NEW top,
         TableAt(own, top, RootLevel), SoundBut(own, p, n, loose, roots),
         p # top, NoLeaf(n, top)
  PROVE  n \in Based(top, loose, roots)
<1>1. PICK new : /\ Sound(new, n, loose, roots)
                 /\ \A q \in Pages : q # p => new[q] = own[q]
  BY DEF SoundBut
<1>2. TableAt(new, top, RootLevel)
  BY <1>1 DEF TableAt, Used
<1> QED BY <1>1, <1>2 DEF Based

\* One page of xv6_unmap_copied_pages.
LEMMA UnmapKeeps ==
  ASSUME NEW top, NEW loose, NEW roots, NEW m \in Based(top, loose, roots),
         NEW va \in Int
  PROVE  UnmapPage(m, top, va) \in Based(top, loose, roots)
<1> DEFINE n == UnmapPage(m, top, va)
           w == Walk(m, top, va, FALSE)
           slot == Index(0, va)
           t == w.table
           p == w.memory[t][slot].page
           f == KfreePage(m, p)
<1>1. PICK own : Sound(own, m, loose, roots) /\ TableAt(own, top, RootLevel)
  BY DEF Based
<1>2. m \in Stores /\ NoLeaf(m, top)
  BY DEF Based
<1>3. w \in Way(m, top, FALSE, loose, roots, RootLevel)
  BY <1>1, <1>2, WalkKeeps
<1> HIDE DEF w
<1>4. slot \in SlotNumbers
  BY IndexTyped
<1>5. PICK own1 : /\ Sound(own1, w, loose, roots)
                  /\ TableAt(own1, top, RootLevel)
                  /\ w.ok => TableAt(own1, t, 0)
  <2>1. RootLevel - RootLevel = 0
    BY PageConstants
  <2> QED BY <1>3, <2>1 DEF Way
<1>6. w.memory = m.memory /\ w.free = m.free
  BY <1>3 DEF Way
<1>7. Sound(own1, m, loose, roots)
  BY <1>5, <1>6, SoundSame
<1> HIDE DEF slot
<1>8. CASE ~w.ok \/ ~Valid(w.memory[t][slot])
  <2>1. n = m
    BY <1>8, Zenon DEF UnmapPage, w, slot
  <2> QED BY <2>1
<1>9. CASE w.ok /\ Valid(w.memory[t][slot])
  <2>1. /\ TableAt(own1, t, 0) /\ t \in Pages /\ t \in Dram /\ t # top
        /\ own1[t].use = "table" /\ own1[t].num = 0 /\ own1[top].use = "table"
    BY <1>5, <1>9, PagesInDram, PageConstants DEF TableAt, Used
  <2>2. EntryOK(own1, m, t, slot)
    BY <1>4, <1>7, <2>1 DEF Sound, TablesOK
  <2>3. Maps(m.memory[t][slot]) /\ LeafOK(own1, t, slot, m.memory[t][slot])
    BY <1>6, <1>9, <2>1, <2>2, WordKinds DEF EntryOK, PointerOK
  <2>4. p = m.memory[t][slot].page
    BY <1>6
  <2>8. n = [f EXCEPT !.memory[t][slot] = Zero]
    BY <1>9, Zenon DEF UnmapPage, w, slot
  <2> HIDE DEF p, t
  <2>5. p # top
    <3>1. top \in Pages
      BY <1>5 DEF TableAt, Used
    <3> QED BY <2>1, <2>3, <2>4, <3>1 DEF LeafOK
  <2>6. CASE p \in Pages
    <3>1. f \in Stores /\ f.ok /\ f = KfreePage(m, p)
      BY <1>2, <2>6, KfreeIs
    <3> HIDE DEF f, n
    <3>2. SetEntry(f, n, t, slot, Zero) /\ n.ok = f.ok /\ n.table = f.table
      <4>1. SetEntry(f, n, t, slot, Zero)
        BY <1>4, <2>1, <2>8, <3>1, WordTypes, Writing
      <4> QED BY <2>8, <3>1, <4>1 DEF Stores
    <3>3. /\ n \in Stores /\ SoundBut(own1, p, n, loose, roots)
          /\ Elsewhere(m, n, p, t)
      <4>1. m \in Stores /\ Sound(own1, m, loose, roots) /\ TableAt(own1, t, 0)
        BY <1>2, <1>7, <2>1
      <4>2. slot \in SlotNumbers /\ Maps(m.memory[t][slot])
        BY <1>4, <2>3
      <4>3. p \in Pages /\ p = m.memory[t][slot].page
        BY <2>4, <2>6
      <4>4. f = KfreePage(m, p) /\ SetEntry(f, n, t, slot, Zero) /\ n.ok = f.ok /\ n.table = f.table
        BY <3>1, <3>2
      <4>5. SoundBut(own1, p, n, loose, roots)
        BY <4>1, <4>2, <4>3, <4>4, FreeMapped
      <4>6. Elsewhere(m, n, p, t)
        BY <4>1, <4>2, <4>3, <4>4, FreeMapped
      <4>7. n \in Stores
        BY <4>1, <4>2, <4>3, <4>4, FreeMapped
      <4> QED BY <4>5, <4>6, <4>7
    <3>4. NoLeaf(n, top)
      <4>1. top \in Dram /\ top # p /\ top # t
        BY <1>5, <2>1, <2>5, PagesInDram DEF TableAt, Used
      <4> QED BY <1>2, <3>3, <4>1 DEF NoLeaf, Elsewhere
    <3>5. n \in Based(top, loose, roots)
      BY <1>5, <2>5, <3>3, <3>4, StaysRoot
    <3> QED BY <3>5 DEF n
  <2>7. CASE p \notin Pages
    <3>1. f = Fail(m)
      BY <2>7 DEF KfreePage
    <3>2. f \in Stores /\ f.memory = m.memory /\ f.free = m.free
      BY <1>2, <3>1, StoreTypes
    <3> HIDE DEF f, n
    <3>3. SetEntry(f, n, t, slot, Zero)
      BY <1>4, <2>1, <2>8, <3>2, WordTypes, Writing
    <3>4. SetEntry(m, n, t, slot, Zero) /\ n \in Stores
      BY <3>2, <3>3 DEF SetEntry
    <3>5. loose = loose \cup ({p} \cap Pages)
      BY <2>7
    <3>6. SoundBut(own1, p, n, loose, roots)
      BY <1>2, <1>4, <1>7, <2>1, <2>3, <2>4, <3>4, <3>5, ClearLeaf
    <3>7. NoLeaf(n, top)
      <4>1. top \in Dram /\ top # t
        BY <1>5, <2>1, PagesInDram DEF TableAt, Used
      <4> QED BY <1>2, <3>4, <4>1 DEF NoLeaf, SetEntry
    <3>8. n \in Based(top, loose, roots)
      BY <1>5, <2>5, <3>4, <3>6, <3>7, StaysRoot
    <3> QED BY <3>8 DEF n
  <2> QED BY <2>6, <2>7
<1> QED BY <1>8, <1>9

\* xv6_unmap_copied_pages.
LEMMA UnmapsKeep ==
  ASSUME NEW top, NEW loose, NEW roots, NEW m \in Based(top, loose, roots),
         NEW mappings, NEW count \in Nat,
         \A i \in 1 .. count : mappings[i].va \in Int
  PROVE  UnmapCopiedPages(m, top, mappings, count) \in Based(top, loose, roots)
<1> DEFINE Unmap == [i \in Nat |-> [s \in Stores |-> UnmapPage(s, top, mappings[i + 1].va)]]
           I == [i \in Nat |-> Based(top, loose, roots)]
<1>1. \A i \in 0 .. count - 1 : \A s \in I[i] : Unmap[i][s] \in I[i + 1]
  <2> SUFFICES ASSUME NEW i \in 0 .. count - 1, NEW s \in Based(top, loose, roots)
               PROVE  Unmap[i][s] \in Based(top, loose, roots)
    OBVIOUS
  <2>1. i \in Nat /\ mappings[i + 1].va \in Int /\ s \in Stores
    BY DEF Based
  <2>2. UnmapPage(s, top, mappings[i + 1].va) \in Based(top, loose, roots)
    BY <2>1, UnmapKeeps
  <2> QED BY <2>1, <2>2
<1>2. m \in I[0] /\ I[count] = Based(top, loose, roots)
  OBVIOUS
<1> HIDE DEF Unmap, I
<1>3. Repeat(Unmap, m, count) \in I[count]
  BY <1>1, <1>2, RepeatKeeps
<1> QED BY <1>2, <1>3 DEF UnmapCopiedPages, Unmap

\* The allocator, and an entry, seen from the root of a space.
LEMMA KallocBased ==
  ASSUME NEW top, NEW loose, NEW roots, NEW m \in Based(top, loose, roots),
         NEW p, p = m.free, p # NoPage, NEW n, n = KallocPage(m)
  PROVE  /\ n \in Based(top, loose \cup {p}, roots)
         /\ n.ok /\ p \in Pages /\ p \notin loose
<1>1. PICK own : Sound(own, m, loose, roots) /\ TableAt(own, top, RootLevel)
  BY DEF Based
<1>2. m \in Stores /\ NoLeaf(m, top)
  BY DEF Based
<1>3. /\ n \in Stores /\ n.ok /\ p \in Pages /\ p \notin loose
      /\ \A q \in Dram : q # p => n.memory[q] = m.memory[q]
      /\ Sound([own EXCEPT ![p] = Loose], n, loose \cup {p}, roots)
  BY <1>1, <1>2, Kalloc
<1>4. top \in Pages /\ top # p /\ top \in Dram
  <2>1. own[p].use = "free" /\ own[top].use = "table" /\ top \in Pages
    BY <1>1 DEF Sound, FreeOK, TableAt, Used
  <2> QED BY <2>1, PagesInDram
<1>5. NoLeaf(n, top)
  BY <1>2, <1>3, <1>4 DEF NoLeaf
<1>6. TableAt([own EXCEPT ![p] = Loose], top, RootLevel)
  BY <1>1, <1>4 DEF Sound, Ownership, TableAt, Used
<1>7. n \in Based(top, loose \cup {p}, roots)
  BY <1>3, <1>5, <1>6 DEF Based
<1> QED BY <1>3, <1>7

LEMMA PageBased ==
  ASSUME NEW top, NEW loose, NEW roots, NEW m \in Based(top, loose, roots),
         NEW p \in loose \cup {KernelPage}, NEW content, NEW n, SetPage(m, n, p, content)
  PROVE  n \in Based(top, loose, roots)
<1>1. PICK own : Sound(own, m, loose, roots) /\ TableAt(own, top, RootLevel)
  BY DEF Based
<1>2. m \in Stores /\ NoLeaf(m, top)
  BY DEF Based
<1>3. Sound(own, n, loose, roots)
  BY <1>1, <1>2, WriteLoose
<1>4. top # p /\ top \in Dram
  <2>1. own[top].use = "table" /\ top \in Pages
    BY <1>1 DEF TableAt, Used
  <2> QED BY <1>1, <2>1, PagesInDram, PageConstants DEF Sound
<1>5. NoLeaf(n, top) /\ n \in Stores
  BY <1>2, <1>4 DEF NoLeaf, SetPage
<1> QED BY <1>1, <1>3, <1>5 DEF Based

LEMMA KfreeBased ==
  ASSUME NEW top, NEW more, NEW roots, NEW m \in Based(top, more, roots),
         NEW p \in more, NEW n, n = KfreePage(m, p), NEW loose, loose = more \ {p}
  PROVE  n \in Based(top, loose, roots)
<1>1. PICK own : Sound(own, m, more, roots) /\ TableAt(own, top, RootLevel)
  BY DEF Based
<1>2. m \in Stores /\ NoLeaf(m, top)
  BY DEF Based
<1>3. p \in Pages /\ own[p].use = "loose"
  BY <1>1 DEF Sound
<1>4. n \in Stores /\ OnlyPage(m, n, p)
  BY <1>2, <1>3, KfreeIs
<1>5. SoundBut(own, p, n, loose, roots)
  BY <1>1, <1>2, KfreeLinks
<1>6. p # top /\ top \in Dram
  BY <1>1, <1>3, PagesInDram DEF TableAt, Used
<1>7. NoLeaf(n, top)
  BY <1>2, <1>4, <1>6 DEF NoLeaf, OnlyPage
<1> QED BY <1>1, <1>4, <1>5, <1>6, <1>7, StaysRoot

LEMMA MappageBased ==
  ASSUME NEW top, NEW more, NEW roots, NEW m \in Based(top, more, roots),
         NEW va \in Int, NEW p \in more \cup {KernelPage, DevicePage},
         NEW flags \in {{}, UserFlags}, flags # {}, NEW n, n = Mappage(m, top, va, p, flags)
  PROVE  n \in Based(top, IF n.ok THEN more \ {p} ELSE more, roots)
<1>1. PICK own : Sound(own, m, more, roots) /\ TableAt(own, top, RootLevel)
  BY DEF Based
<1>2. m \in Stores /\ NoLeaf(m, top)
  BY DEF Based
<1>3. /\ n \in Stores /\ NoLeaf(n, top)
      /\ \E new : /\ Sound(new, n, IF n.ok THEN more \ {p} ELSE more, roots)
                  /\ TableAt(new, top, RootLevel)
  BY <1>1, <1>2, MappageKeeps
<1> QED BY <1>3 DEF Based

\* One page of uvmcopy.
LEMMA CopyKeeps ==
  ASSUME NEW top, NEW loose, NEW roots, NEW m \in Based(top, loose, roots),
         NEW mappings, NEW i \in Nat \ {0},
         \A j \in 1 .. i : mappings[j].va \in Int,
         mappings[i].page \in Dram, mappings[i].flags = UserFlags
  PROVE  CopyPage(m, top, mappings, i) \in Based(top, loose, roots)
<1> DEFINE mapping == mappings[i]
           p == m.free
           fresh == KallocPage(m)
           copied == [fresh EXCEPT !.memory[p] = fresh.memory[mapping.page]]
           mapped == Mappage(copied, top, mapping.va, p, mapping.flags)
           freed == KfreePage(mapped, p)
           n == CopyPage(m, top, mappings, i)
           more == loose \cup {p}
<1>1. m \in Stores
  BY DEF Based
<1>2. i - 1 \in Nat /\ mapping.va \in Int /\ \A j \in 1 .. i - 1 : mappings[j].va \in Int
  OBVIOUS
<1>3. ASSUME NEW s \in Based(top, loose, roots)
      PROVE  Fail(UnmapCopiedPages(s, top, mappings, i - 1)) \in Based(top, loose, roots)
  <2>1. PICK u : u = UnmapCopiedPages(s, top, mappings, i - 1)
    OBVIOUS
  <2>2. u \in Based(top, loose, roots)
    BY <1>2, <2>1, UnmapsKeep
  <2>3. u \in Stores /\ NoLeaf(u, top)
    BY <2>2 DEF Based
  <2>4. PICK own : Sound(own, u, loose, roots) /\ TableAt(own, top, RootLevel)
    BY <2>2 DEF Based
  <2>5. Fail(u) \in Stores /\ Fail(u).memory = u.memory /\ Fail(u).free = u.free
    BY <2>3, StoreTypes
  <2>6. Sound(own, Fail(u), loose, roots)
    BY <2>4, <2>5, SoundSame
  <2>7. NoLeaf(Fail(u), top)
    BY <2>3, <2>5 DEF NoLeaf
  <2> QED BY <2>1, <2>4, <2>5, <2>6, <2>7 DEF Based
<1>4. CASE p = NoPage
  <2>1. fresh = Fail(m)
    BY <1>4 DEF KallocPage
  <2>2. ~fresh.ok
    BY <1>1, <2>1, StoreTypes
  <2>3. n = Fail(UnmapCopiedPages(m, top, mappings, i - 1))
    BY <2>2 DEF CopyPage
  <2> QED BY <1>3, <2>3
<1>5. CASE p # NoPage
  <2>1. fresh \in Based(top, more, roots) /\ fresh.ok /\ p \in Pages /\ p \notin loose
    BY <1>5, KallocBased
  <2> HIDE DEF fresh
  <2>2. fresh \in Stores
    BY <2>1 DEF Based
  <2>3. SetPage(fresh, copied, p, fresh.memory[mapping.page])
    <3>1. fresh.memory[mapping.page] \in [SlotNumbers -> Words] /\ p \in Dram
      BY <2>1, <2>2, StoreTypes, PagesInDram
    <3> QED BY <2>2, <3>1, Writing
  <2>4. p \in more /\ more \ {p} = loose
    BY <2>1
  <2> HIDE DEF copied, more
  <2>5. copied \in Based(top, more, roots)
    BY <2>1, <2>3, <2>4, PageBased
  <2>6. mapping.flags \in {{}, UserFlags} /\ mapping.flags # {}
    BY PageConstants
  <2> HIDE DEF mapping
  <2>7. mapped \in Based(top, IF mapped.ok THEN more \ {p} ELSE more, roots)
    BY <1>2, <2>4, <2>5, <2>6, MappageBased
  <2> HIDE DEF mapped
  <2>8. CASE mapped.ok
    <3>1. n = mapped
      BY <2>1, <2>8 DEF CopyPage, mapped, copied, fresh, mapping
    <3> QED BY <2>4, <2>7, <2>8, <3>1
  <2>9. CASE ~mapped.ok
    <3>1. mapped \in Based(top, more, roots)
      BY <2>7, <2>9
    <3>2. freed \in Based(top, loose, roots)
      BY <2>4, <3>1, KfreeBased
    <3>3. n = Fail(UnmapCopiedPages(freed, top, mappings, i - 1))
      BY <2>1, <2>9 DEF CopyPage, mapped, copied, fresh, mapping
    <3> HIDE DEF freed, n
    <3>4. n \in Based(top, loose, roots)
      BY <1>3, <3>2, <3>3
    <3> QED BY <3>4 DEF n
  <2> QED BY <2>8, <2>9
<1> QED BY <1>4, <1>5

-----------------------------------------------------------------------------
(* Collecting mappings.                                                    *)

\* A mapping is the entry of a table met on the way.
MappingOK(own, w, x) ==
  /\ TableAt(own, x.table, 0) /\ x.table \in w.visited /\ x.slot \in SlotNumbers
  /\ Maps(memory[x.table][x.slot])
  /\ memory[x.table][x.slot].page = x.page /\ memory[x.table][x.slot].flags = x.flags
  /\ x.page \in w.physical
\* No mapping is collected twice.
Good(own, w) ==
  /\ \A i \in 1 .. Len(w.mappings) : MappingOK(own, w, w.mappings[i])
  /\ \A i, j \in 1 .. Len(w.mappings) :
       w.mappings[i].table = w.mappings[j].table /\ w.mappings[i].slot = w.mappings[j].slot
       => i = j
\* The mappings of a table, so far.
Before(w, table, slot) ==
  \A j \in 1 .. Len(w.mappings) : w.mappings[j].table = table => w.mappings[j].slot < slot

\* The parts of a walk that collects, and its failure.
LEMMA WalkTypes ==
  ASSUME NEW w \in Walks
  PROVE  /\ w.visited \subseteq Dram /\ w.mappings \in Seq(LeafMapping)
         /\ w.physical \subseteq AllPages /\ w.ok \in BOOLEAN
         /\ Fail(w) \in Walks /\ Fail(w).mappings = w.mappings
         /\ Fail(w).visited = w.visited /\ Fail(w).physical = w.physical /\ ~Fail(w).ok
BY DEF Walks, Fail

LEMMA GoodSame ==
  ASSUME NEW own, NEW w, NEW v, Good(own, w), v.mappings = w.mappings,
         v.physical = w.physical, w.visited \subseteq v.visited
  PROVE  Good(own, v)
BY DEF Good, MappingOK

\* An entry of the last level is collected, or the walk fails.
LEMMA CollectLeafTyped ==
  ASSUME memory \in Memories, NEW w \in Walks, NEW table \in Dram,
         NEW slot \in SlotNumbers, NEW va \in Int, NEW n, n = CollectLeaf(w, table, slot, va)
  PROVE  n \in Walks /\ n.physical = w.physical /\ n.visited = w.visited
<1> DEFINE pte == memory[table][slot]
           x == [table |-> table, slot |-> slot, va |-> va,
                 page |-> pte.page, flags |-> pte.flags]
<1>1. n = Fail(w) \/ n = [w EXCEPT !.mappings = Append(@, x)]
  BY DEF CollectLeaf
<1>2. CASE n = Fail(w)
  BY <1>2, WalkTypes
<1>3. CASE n = [w EXCEPT !.mappings = Append(@, x)]
  <2>1. pte.page \in AllPages /\ pte.flags \in {{}, UserFlags}
    BY DEF Memories, Words
  <2>2. x \in LeafMapping
    BY <2>1 DEF LeafMapping
  <2> HIDE DEF x, pte
  <2>3. Append(w.mappings, x) \in Seq(LeafMapping)
    BY <2>2, WalkTypes
  <2>4. /\ n.mappings = Append(w.mappings, x) /\ n.ok = w.ok
        /\ n.visited = w.visited /\ n.physical = w.physical
        /\ n = [ok |-> n.ok, visited |-> n.visited, mappings |-> n.mappings,
                physical |-> n.physical]
    BY <1>3 DEF Walks
  <2> QED BY <2>3, <2>4 DEF Walks
<1> QED BY <1>1, <1>2, <1>3

LEMMA CollectLeafGood ==
  ASSUME memory \in Memories, NEW own, NEW w \in Walks, Good(own, w),
         NEW table, TableAt(own, table, 0), table \in w.visited,
         NEW slot \in SlotNumbers, Before(w, table, slot), Valid(memory[table][slot]),
         NEW va \in Int, NEW n, n = CollectLeaf(w, table, slot, va)
  PROVE  Good(own, n) /\ Before(n, table, slot + 1)
<1> DEFINE pte == memory[table][slot]
           x == [table |-> table, slot |-> slot, va |-> va,
                 page |-> pte.page, flags |-> pte.flags]
<1>1. \/ n = Fail(w)
      \/ n = [w EXCEPT !.mappings = Append(@, x)] /\ Leaf(pte) /\ pte.page \in w.physical
  BY DEF CollectLeaf
<1>2. slot \in Int
  BY DEF SlotNumbers
<1>3. w.mappings \in Seq(LeafMapping) /\ Len(w.mappings) \in Nat
  BY WalkTypes
<1>4. Before(w, table, slot + 1)
  <2> SUFFICES ASSUME NEW j \in 1 .. Len(w.mappings), w.mappings[j].table = table
               PROVE  w.mappings[j].slot < slot + 1
    BY DEF Before
  <2>1. w.mappings[j].slot < slot
    BY DEF Before
  <2>2. w.mappings[j] \in LeafMapping
    BY <1>3
  <2>3. w.mappings[j].slot \in Int
    BY <2>2 DEF LeafMapping, SlotNumbers
  <2> QED BY <1>2, <2>1, <2>3
<1>5. CASE n = Fail(w)
  <2>1. n.mappings = w.mappings /\ n.physical = w.physical /\ n.visited = w.visited
    BY <1>5, WalkTypes
  <2>2. Good(own, n)
    BY <2>1, GoodSame
  <2> QED BY <1>4, <2>1, <2>2 DEF Before
<1>6. CASE n = [w EXCEPT !.mappings = Append(@, x)] /\ Leaf(pte) /\ pte.page \in w.physical
  <2>1. x.table = table /\ x.slot = slot /\ x.page = pte.page /\ x.flags = pte.flags
    OBVIOUS
  <2> HIDE DEF x
  <2>2. /\ n.mappings = Append(w.mappings, x)
        /\ n.visited = w.visited /\ n.physical = w.physical
    BY <1>6 DEF Walks
  <2>3. Maps(pte)
    BY <1>6 DEF Maps
  <2>4. MappingOK(own, n, x)
    BY <1>6, <2>1, <2>2, <2>3 DEF MappingOK
  <2>5. PICK k \in Nat : k = Len(w.mappings)
    BY <1>3
  <2>6. /\ Len(n.mappings) = k + 1 /\ n.mappings[k + 1] = x
        /\ \A i \in 1 .. k : n.mappings[i] = w.mappings[i]
    BY <1>3, <2>2, <2>5
  <2> HIDE DEF pte
  <2>7. \A i \in 1 .. k : n.mappings[i] = w.mappings[i] /\ MappingOK(own, n, n.mappings[i])
    <3> SUFFICES ASSUME NEW i \in 1 .. k PROVE MappingOK(own, n, w.mappings[i])
      BY <2>6
    <3>1. MappingOK(own, w, w.mappings[i])
      BY <2>5 DEF Good
    <3> QED BY <2>2, <3>1 DEF MappingOK
  <2>8. \A i \in 1 .. k : w.mappings[i].table = table => w.mappings[i].slot < slot
    BY <2>5 DEF Before
  <2>9. \A i \in 1 .. k : w.mappings[i].slot \in Int
    <3>1. \A i \in 1 .. k : w.mappings[i] \in LeafMapping
      BY <1>3, <2>5
    <3> QED BY <3>1 DEF LeafMapping, SlotNumbers
  <2>10. \A i \in 1 .. k : w.mappings[i].table = table => w.mappings[i].slot # slot
    <3> SUFFICES ASSUME NEW i \in 1 .. k, w.mappings[i].table = table
                 PROVE  w.mappings[i].slot # slot
      OBVIOUS
    <3>1. w.mappings[i].slot < slot /\ w.mappings[i].slot \in Int
      BY <2>8, <2>9
    <3> QED BY <1>2, <3>1
  <2>11. \A i, j \in 1 .. k :
           w.mappings[i].table = w.mappings[j].table /\ w.mappings[i].slot = w.mappings[j].slot
           => i = j
    BY <2>5 DEF Good
  <2>12. \A i \in 1 .. k + 1 : i \in 1 .. k \/ i = k + 1
    BY <2>5
  <2>13. Good(own, n)
    <3>1. \A i \in 1 .. k + 1 : MappingOK(own, n, n.mappings[i])
      BY <2>4, <2>6, <2>7, <2>12
    <3>2. ASSUME NEW i \in 1 .. k + 1, NEW j \in 1 .. k + 1,
                 n.mappings[i].table = n.mappings[j].table,
                 n.mappings[i].slot = n.mappings[j].slot
          PROVE  i = j
      <4>1. CASE i \in 1 .. k /\ j \in 1 .. k
        BY <2>6, <2>11, <3>2, <4>1
      <4>2. CASE i \in 1 .. k /\ j = k + 1
        BY <2>1, <2>6, <2>10, <3>2, <4>2
      <4>3. CASE i = k + 1 /\ j \in 1 .. k
        BY <2>1, <2>6, <2>10, <3>2, <4>3
      <4> QED BY <2>12, <4>1, <4>2, <4>3
    <3> QED BY <2>6, <3>1, <3>2 DEF Good
  <2>14. Before(n, table, slot + 1)
    <3>1. \A i \in 1 .. k : w.mappings[i].table = table => w.mappings[i].slot < slot + 1
      BY <1>4, <2>5 DEF Before
    <3>2. \A i \in 1 .. k : n.mappings[i].table = table => n.mappings[i].slot < slot + 1
      BY <2>6, <3>1
    <3>3. n.mappings[k + 1].slot < slot + 1
      BY <1>2, <2>1, <2>6
    <3>4. \A i \in 1 .. k + 1 : n.mappings[i].table = table => n.mappings[i].slot < slot + 1
      BY <2>12, <3>2, <3>3
    <3> QED BY <2>6, <3>4 DEF Before
  <2> QED BY <2>13, <2>14
<1> QED BY <1>1, <1>5, <1>6

\* What a level of xv6_collect_mappings makes of a part r of a tree.
Collects(own, level, part, r) ==
  /\ r.physical = part.walk.physical
  /\ Good(own, part.walk) /\ TableAt(own, part.table, level) => Good(own, r)
Collectors(own, level) ==
  {f \in [Parts -> Walks] : \A part \in Parts : Collects(own, level, part, f[part])}

\* One entry of a table.
VisitEntry(level, below, part, slot, w) ==
  LET table == part.table
      base  == part.first - (part.first % Span(level + 1))
      pte   == memory[table][slot]
      va    == base + (slot * Span(level))
      end   == va + Span(level)
  IN  IF ~w.ok \/ ~Valid(pte) THEN w
      ELSE IF level = 0 THEN CollectLeaf(w, table, slot, va)
      ELSE IF Leaf(pte) THEN Fail(w)
      ELSE below[[walk |-> w, table |-> pte.page,
                  first |-> IF part.first > va THEN part.first ELSE va,
                  last |-> IF part.last < end THEN part.last ELSE end - 1]]

\* The walks in a table when its entries below slot have been visited.
InTable(own, level, part, slot) ==
  {w \in Walks :
     /\ w.physical = part.walk.physical
     /\ Good(own, part.walk) /\ TableAt(own, part.table, level) =>
          /\ Good(own, w)
          /\ level = 0 => part.table \in w.visited /\ Before(w, part.table, slot)}

\* One entry of a table is visited.
LEMMA VisitEntryKeeps ==
  ASSUME memory \in Memories, NEW own, TablesOK(own, Store), NEW level \in 0 .. RootLevel, NEW below,
         level # 0 => below \in Collectors(own, level - 1),
         NEW part \in Parts, part.table \in Dram, NEW slot \in SlotNumbers,
         NEW w \in InTable(own, level, part, slot)
  PROVE  VisitEntry(level, below, part, slot, w) \in InTable(own, level, part, slot + 1)
<1> DEFINE table == part.table
           base == part.first - (part.first % Span(level + 1))
           pte == memory[table][slot]
           va == base + (slot * Span(level))
           end == va + Span(level)
           n == VisitEntry(level, below, part, slot, w)
           hyp == Good(own, part.walk) /\ TableAt(own, table, level)
<1>1. /\ w \in Walks /\ w.physical = part.walk.physical
      /\ hyp => /\ Good(own, w)
                /\ level = 0 => table \in w.visited /\ Before(w, table, slot)
  BY DEF InTable
<1>2. part.first \in Int /\ part.last \in Int /\ slot \in Int /\ level \in Nat
  BY PageConstants DEF Parts, SlotNumbers
<1>3. va \in Int /\ end \in Int
  <2>1. PICK s \in Int : s = Span(level)
    BY <1>2, SpanPositive
  <2>2. base \in Int
    <3>1. level + 1 \in Nat
      BY <1>2
    <3>2. PICK t \in Nat \ {0} : t = Span(level + 1)
      BY <3>1, SpanPositive
    <3>3. PICK r \in Int : r = part.first % t
      <4>1. \A a \in Int : a % t \in Int
        BY <3>2
      <4> QED BY <1>2, <4>1
    <3> QED BY <1>2, <3>2, <3>3
  <2> HIDE DEF base
  <2>3. PICK o \in Int : o = slot * s
    BY <1>2, <2>1
  <2> QED BY <2>1, <2>2, <2>3
<1> HIDE DEF va, end, hyp
<1>4. ASSUME n.mappings = w.mappings, n.visited = w.visited, n.physical = w.physical, n \in Walks
      PROVE  n \in InTable(own, level, part, slot + 1)
  <2> HIDE DEF n
  <2>1. hyp => Good(own, n)
    BY <1>1, <1>4, GoodSame
  <2>2. Before(w, table, slot) => Before(n, table, slot + 1)
    <3> SUFFICES ASSUME Before(w, table, slot), NEW j \in 1 .. Len(w.mappings),
                        w.mappings[j].table = table
                 PROVE  w.mappings[j].slot < slot + 1
      BY <1>4 DEF Before
    <3>1. w.mappings[j].slot < slot
      BY DEF Before
    <3>2. w.mappings[j] \in LeafMapping
      BY <1>1, WalkTypes
    <3>3. w.mappings[j].slot \in Int
      BY <3>2 DEF LeafMapping, SlotNumbers
    <3> QED BY <1>2, <3>1, <3>3
  <2> QED BY <1>1, <1>4, <2>1, <2>2 DEF InTable, hyp
<1>5. CASE ~w.ok \/ ~Valid(pte)
  <2>1. n = w
    BY <1>5 DEF VisitEntry
  <2> QED BY <1>1, <1>4, <2>1
<1>6. CASE w.ok /\ Valid(pte) /\ level = 0
  <2>1. n = CollectLeaf(w, table, slot, va)
    BY <1>6 DEF VisitEntry, va, base
  <2>2. n \in Walks /\ n.physical = w.physical /\ n.visited = w.visited
    BY <1>1, <1>3, <2>1, CollectLeafTyped
  <2>3. hyp => Good(own, n) /\ Before(n, table, slot + 1)
    <3> SUFFICES ASSUME hyp PROVE Good(own, n) /\ Before(n, table, slot + 1)
      OBVIOUS
    <3>1. TableAt(own, table, 0)
      BY <1>6 DEF hyp
    <3>2. Good(own, w) /\ table \in w.visited /\ Before(w, table, slot)
      BY <1>1, <1>6
    <3> HIDE DEF n, table
    <3> QED BY <1>1, <1>3, <1>6, <2>1, <3>1, <3>2, CollectLeafGood DEF table
  <2> HIDE DEF n
  <2>4. n \in InTable(own, level, part, slot + 1)
    BY <1>1, <1>6, <2>2, <2>3 DEF InTable, hyp
  <2> QED BY <2>4 DEF n
<1>7. CASE w.ok /\ Valid(pte) /\ level # 0 /\ Leaf(pte)
  <2>1. n = Fail(w)
    BY <1>7 DEF VisitEntry
  <2> QED BY <1>1, <1>4, <2>1, WalkTypes
<1>8. CASE w.ok /\ Valid(pte) /\ level # 0 /\ ~Leaf(pte)
  <2> DEFINE sub == [walk |-> w, table |-> pte.page,
                     first |-> IF part.first > va THEN part.first ELSE va,
                     last |-> IF part.last < end THEN part.last ELSE end - 1]
  <2>1. n = below[sub]
    BY <1>8 DEF VisitEntry, va, base, end
  <2>2. pte.page \in AllPages
    BY DEF Memories, Words
  <2>3. sub \in Parts /\ sub.walk = w /\ sub.table = pte.page
    BY <1>1, <1>2, <1>3, <2>2 DEF Parts
  <2> HIDE DEF sub
  <2>4. below \in [Parts -> Walks] /\ Collects(own, level - 1, sub, below[sub])
    BY <1>8, <2>3 DEF Collectors
  <2>5. n \in Walks /\ n.physical = w.physical
    BY <2>1, <2>3, <2>4 DEF Collects
  <2>6. hyp => Good(own, n)
    <3> SUFFICES ASSUME hyp PROVE Good(own, n)
      OBVIOUS
    <3>1. table \in Pages /\ own[table].use = "table" /\ own[table].num = level
      BY DEF hyp, TableAt, Used
    <3>2. EntryOK(own, Store, table, slot)
      BY <3>1 DEF TablesOK
    <3>3. PointerOK(own, table, pte)
      BY <1>8, <3>2 DEF EntryOK, Points, Store
    <3>4. TableAt(own, pte.page, level - 1)
      BY <3>1, <3>3 DEF PointerOK
    <3> HIDE DEF n
    <3> QED BY <1>1, <2>1, <2>3, <2>4, <3>4 DEF Collects
  <2> HIDE DEF n
  <2>7. n \in InTable(own, level, part, slot + 1)
    BY <1>1, <1>8, <2>5, <2>6 DEF InTable, hyp
  <2> QED BY <2>7 DEF n
<1> QED BY <1>5, <1>6, <1>7, <1>8

\* One level of xv6_collect_mappings.
LEMMA CollectAtKeeps ==
  ASSUME memory \in Memories, NEW own, TablesOK(own, Store), NEW level \in 0 .. RootLevel, NEW below,
         level # 0 => below \in Collectors(own, level - 1)
  PROVE  CollectAt(level, below) \in Collectors(own, level)
<1>1. ASSUME NEW part \in Parts
      PROVE  /\ CollectAt(level, below)[part] \in Walks
             /\ Collects(own, level, part, CollectAt(level, below)[part])
  <2> DEFINE table == part.table
             from == Index(level, part.first)
             count == Index(level, part.last) - from + 1
             Visit == [i \in Nat |-> [w \in Walks |-> VisitEntry(level, below, part, from + i, w)]]
             start == [part.walk EXCEPT !.visited = @ \cup {table}]
             r == CollectAt(level, below)[part]
  <2>1. part.walk \in Walks /\ part.first \in Int /\ part.last \in Int /\ level \in Nat
    BY PageConstants DEF Parts
  <2>2. from \in SlotNumbers /\ Index(level, part.last) \in SlotNumbers
    BY <2>1, IndexTyped
  <2>3. ASSUME r = Fail(part.walk)
        PROVE  r \in Walks /\ Collects(own, level, part, r)
    <3> HIDE DEF r
    <3>1. /\ r \in Walks /\ r.physical = part.walk.physical
          /\ r.mappings = part.walk.mappings /\ r.visited = part.walk.visited
      BY <2>1, <2>3, WalkTypes
    <3>2. Good(own, part.walk) => Good(own, r)
      BY <3>1, GoodSame
    <3> QED BY <3>1, <3>2 DEF Collects
  <2>4. CASE table \notin Dram \/ Cardinality(part.walk.visited) >= MaxPages
             \/ table \in part.walk.visited
    <3>1. r = Fail(part.walk)
      BY <2>4 DEF CollectAt
    <3> QED BY <2>3, <3>1
  <2>5. CASE ~(table \notin Dram \/ Cardinality(part.walk.visited) >= MaxPages
               \/ table \in part.walk.visited)
    <3>1. r = Repeat(Visit, start, count)
      BY <2>5 DEF CollectAt, VisitEntry
    <3>2. /\ start \in Walks /\ start.physical = part.walk.physical
          /\ start.mappings = part.walk.mappings /\ table \in start.visited
          /\ part.walk.visited \subseteq start.visited
      BY <2>1, <2>5 DEF Walks
    <3> DEFINE I == [i \in Nat |-> InTable(own, level, part, from + i)]
    <3>3. start \in InTable(own, level, part, from)
      <4> HIDE DEF start
      <4>1. Good(own, part.walk) => Good(own, start)
        BY <3>2, GoodSame, SMTT(20)
      <4>2. Good(own, part.walk) => Before(start, table, from)
        <5> SUFFICES ASSUME Good(own, part.walk), NEW j \in 1 .. Len(part.walk.mappings),
                            part.walk.mappings[j].table = table
                     PROVE  FALSE
          BY <3>2 DEF Before
        <5>1. MappingOK(own, part.walk, part.walk.mappings[j])
          BY DEF Good
        <5> QED BY <2>5, <5>1 DEF MappingOK
      <4> QED BY <3>2, <4>1, <4>2 DEF InTable
    <3>4. from + 0 = from /\ from \in Int /\ count \in Int
      BY <2>2 DEF SlotNumbers
    <3>5. start \in I[0]
      BY <3>3, <3>4
    <3>6. ASSUME NEW i \in Nat, NEW v \in InTable(own, level, part, from + i)
          PROVE  v \in Walks /\ Collects(own, level, part, v)
      BY <3>6 DEF InTable, Collects
    <3>7. CASE count <= 0
      <4> HIDE DEF Visit, start
      <4>1. r = start
        <5>1. PICK c \in Int : c = count
          BY <3>4
        <5> HIDE DEF r, count
        <5> QED BY <3>1, <3>7, <5>1, NoTurns
      <4> QED BY <3>3, <3>4, <3>6, <4>1
    <3>8. CASE count > 0
      <4>1. PICK c \in Nat : c = count
        BY <3>4, <3>8
      <4>2. \A i \in 0 .. c - 1 : from + i \in SlotNumbers /\ from + i + 1 = from + (i + 1)
        <5>1. PICK a \in SlotNumbers, b \in SlotNumbers :
                a = from /\ b = Index(level, part.last)
          BY <2>2
        <5>2. c = b - a + 1
          BY <4>1, <5>1
        <5>3. \A i \in 0 .. c - 1 : a + i \in SlotNumbers /\ a + i + 1 = a + (i + 1)
          BY <5>2, PageConstants DEF SlotNumbers
        <5> HIDE DEF from
        <5> QED BY <5>1, <5>3
      <4>3. \A i \in 0 .. c - 1 : \A s \in I[i] : Visit[i][s] \in I[i + 1]
        <5> SUFFICES ASSUME NEW i \in 0 .. c - 1, NEW s \in I[i]
                     PROVE  Visit[i][s] \in I[i + 1]
          OBVIOUS
        <5>1. i \in Nat /\ i + 1 \in Nat
          OBVIOUS
        <5>2. s \in InTable(own, level, part, from + i) /\ s \in Walks
          BY <5>1 DEF InTable
        <5>3. PICK slot \in SlotNumbers : slot = from + i
          BY <4>2
        <5>4. VisitEntry(level, below, part, slot, s) \in InTable(own, level, part, slot + 1)
          BY <2>5, <5>2, <5>3, VisitEntryKeeps
        <5> QED BY <4>2, <5>1, <5>2, <5>3, <5>4
      <4> HIDE DEF Visit, start, I
      <4>4. Repeat(Visit, start, c) \in I[c]
        BY <3>5, <4>3, RepeatKeeps
      <4>5. r \in InTable(own, level, part, from + c)
        BY <3>1, <4>1, <4>4 DEF I
      <4> HIDE DEF r, from
      <4>6. r \in Walks /\ Collects(own, level, part, r)
        BY <3>6, <4>1, <4>5
      <4> QED BY <4>6 DEF r
    <3> QED BY <3>4, <3>7, <3>8
  <2> QED BY <2>4, <2>5
<1>2. CollectAt(level, below) = [part \in Parts |-> CollectAt(level, below)[part]]
  BY DEF CollectAt
<1>3. PICK f : f = CollectAt(level, below)
  OBVIOUS
<1>4. f = [part \in Parts |-> f[part]] /\ \A part \in Parts : f[part] \in Walks
  BY <1>1, <1>2, <1>3
<1>5. f \in [Parts -> Walks]
  BY <1>4
<1>6. \A part \in Parts : Collects(own, level, part, f[part])
  BY <1>1, <1>3
<1> QED BY <1>3, <1>5, <1>6 DEF Collectors

\* The levels of xv6_collect_mappings, as a function.
LEMMA CollectLevels ==
  ASSUME memory \in Memories, NEW own, TablesOK(own, Store)
  PROVE  \E at : /\ \A l \in 0 .. RootLevel :
                       /\ at[l] \in Collectors(own, l)
                       /\ at[l] = CollectAt(l, IF l = 0 THEN <<>> ELSE at[l - 1])
                 /\ \A part \in Parts : CollectMappings(part) = at[RootLevel][part]
<1> DEFINE D == 0 .. RootLevel
           Equation(f) == f = [level \in D |-> CollectAt(level, IF level = 0 THEN <<>> ELSE f[level - 1])]
           at == CHOOSE f : Equation(f)
           I == [i \in Nat |-> IF i = 0 THEN {<<>>} ELSE Collectors(own, i - 1)]
           X == UNION {I[i] : i \in Nat}
           C == [i \in D |-> [f \in X |-> CollectAt(i, f)]]
<1>1. RootLevel \in Nat /\ RootLevel \in D /\ 0 \in D
  BY PageConstants
<1>2. ASSUME NEW l \in D, NEW f \in I[l] PROVE CollectAt(l, f) \in I[l + 1]
  <2>1. l \in Nat /\ l + 1 \in Nat /\ l + 1 # 0 /\ l + 1 - 1 = l
    BY <1>1
  <2>2. l # 0 => f \in Collectors(own, l - 1)
    BY <2>1
  <2>3. CollectAt(l, f) \in Collectors(own, l)
    BY <2>2, CollectAtKeeps
  <2> QED BY <2>1, <2>3
<1>3. \E f : Equation(f)
  <2>1. \A l \in D : \A f \in I[l] : C[l][f] \in I[l + 1] /\ C[l][f] = CollectAt(l, f)
    <3> SUFFICES ASSUME NEW l \in D, NEW f \in I[l]
                 PROVE  C[l][f] \in I[l + 1] /\ C[l][f] = CollectAt(l, f)
      OBVIOUS
    <3>1. f \in X
      <4>1. l \in Nat
        BY <1>1
      <4> QED BY <4>1
    <3>2. C[l][f] = CollectAt(l, f)
      <4> HIDE DEF X
      <4> QED BY <3>1
    <3> HIDE DEF C, X, I
    <3> QED BY <1>2, <3>2
  <2>2. <<>> \in I[0] /\ \A l \in D : l # 0 => l - 1 \in D /\ l - 1 + 1 = l
    BY <1>1
  <2> HIDE DEF C, I, X
  <2>6. PICK b : b = <<>>
    OBVIOUS
  <2>7. b \in I[0] /\ \A l \in D : \A f \in I[l] : C[l][f] \in I[l + 1]
    BY <2>1, <2>2, <2>6
  <2>8. PICK f : /\ f = [l \in D |-> f[l]]
                 /\ \A l \in D : /\ f[l] \in I[l + 1]
                                 /\ f[l] = C[l][IF l = 0 THEN b ELSE f[l - 1]]
    <3>1. LevelSteps(RootLevel, C, I)
      BY <2>7 DEF LevelSteps
    <3>2. \E f : IsLevels(f, RootLevel, C, I, b)
      BY <1>1, <2>7, <3>1, LevelsExist
    <3> QED BY <3>2 DEF IsLevels
  <2>3. /\ f = [l \in D |-> f[l]]
        /\ \A l \in D : /\ f[l] \in I[l + 1]
                        /\ f[l] = C[l][IF l = 0 THEN <<>> ELSE f[l - 1]]
    BY <2>6, <2>8
  <2>4. \A l \in D : f[l] = CollectAt(l, IF l = 0 THEN <<>> ELSE f[l - 1])
    <3> SUFFICES ASSUME NEW l \in D
                 PROVE  f[l] = CollectAt(l, IF l = 0 THEN <<>> ELSE f[l - 1])
      OBVIOUS
    <3>1. PICK g : g = IF l = 0 THEN <<>> ELSE f[l - 1]
      OBVIOUS
    <3>2. g \in I[l]
      BY <2>2, <2>3, <3>1
    <3> QED BY <2>1, <2>3, <3>1, <3>2
  <2> HIDE DEF D
  <2>5. Equation(f)
    BY <2>3, <2>4
  <2> QED BY <2>5
<1>4. Equation(at)
  <2> HIDE DEF Equation
  <2> QED BY <1>3
<1> HIDE DEF at
<1>5. \A l \in D : at[l] = CollectAt(l, IF l = 0 THEN <<>> ELSE at[l - 1])
  <2> HIDE DEF D
  <2> QED BY <1>4
<1> DEFINE J == [i \in Nat |-> Collectors(own, i)]
<1>6. \A l \in 0 .. RootLevel : at[l] \in J[l]
  <2>1. at[0] \in J[0]
    <3>1. at[0] = CollectAt(0, <<>>)
      BY <1>1, <1>5
    <3>2. CollectAt(0, <<>>) \in Collectors(own, 0)
      BY <1>1, CollectAtKeeps
    <3> QED BY <3>1, <3>2
  <2>2. ASSUME NEW l \in 0 .. RootLevel - 1, at[l] \in J[l] PROVE at[l + 1] \in J[l + 1]
    <3>1. l + 1 \in D /\ l + 1 # 0 /\ l + 1 - 1 = l /\ l + 1 \in Nat /\ l \in Nat
      BY <1>1
    <3>2. at[l + 1] = CollectAt(l + 1, at[l])
      BY <1>5, <3>1
    <3>3. PICK k \in 0 .. RootLevel : k = l + 1
      BY <3>1
    <3>4. at[l] \in Collectors(own, k - 1)
      BY <2>2, <3>1, <3>3
    <3>5. CollectAt(k, at[l]) \in Collectors(own, k)
      BY <3>4, CollectAtKeeps
    <3> QED BY <3>1, <3>2, <3>3, <3>5
  <2> HIDE DEF J
  <2> QED BY <1>1, <2>1, <2>2, LevelInduction
<1>7. \A part \in Parts : CollectMappings(part) = at[RootLevel][part]
  BY DEF CollectMappings, at, D
<1> QED BY <1>5, <1>6, <1>7 DEF D, J

\* xv6_collect_mappings from the root.
LEMMA CollectKeeps ==
  ASSUME memory \in Memories, NEW own, TablesOK(own, Store), NEW part \in Parts
  PROVE  /\ CollectMappings(part) \in Walks
         /\ Collects(own, RootLevel, part, CollectMappings(part))
<1>1. PICK at : /\ \A l \in 0 .. RootLevel : at[l] \in Collectors(own, l)
                /\ CollectMappings(part) = at[RootLevel][part]
  BY CollectLevels
<1>2. at[RootLevel] \in Collectors(own, RootLevel)
  BY <1>1, PageConstants
<1> QED BY <1>1, <1>2 DEF Collectors

\* xv6_leaf_mappings.
LEMMA LeafMappingsGood ==
  ASSUME memory \in Memories, NEW own, TablesOK(own, Store), NEW top,
         TableAt(own, top, RootLevel), NEW first \in Int, NEW end \in Int,
         NEW physical \in SUBSET AllPages, NEW w, w = LeafMappings(top, first, end, physical)
  PROVE  w \in Walks /\ Good(own, w) /\ w.physical = physical
<1> DEFINE walk == [ok |-> end <= MaxVa, visited |-> {}, mappings |-> <<>>,
                    physical |-> physical]
           part == [walk |-> walk, table |-> top, first |-> first, last |-> end - 1]
<1>1. walk \in Walks /\ walk.physical = physical /\ walk.mappings = <<>>
  <2>1. (end <= MaxVa) \in BOOLEAN
    BY PageConstants
  <2>2. PICK b \in BOOLEAN : b = (end <= MaxVa)
    BY <2>1
  <2>3. walk = [ok |-> b, visited |-> {}, mappings |-> <<>>, physical |-> physical]
    BY <2>2
  <2> HIDE DEF walk
  <2>4. <<>> \in Seq(LeafMapping)
    OBVIOUS
  <2> QED BY <2>3, <2>4 DEF Walks
<1> HIDE DEF walk
<1>2. Good(own, walk)
  <2>1. Len(walk.mappings) = 0
    BY <1>1
  <2> QED BY <2>1 DEF Good
<1>3. part \in Parts /\ part.walk = walk /\ part.table = top
  <2>1. top \in AllPages /\ end - 1 \in Int
    BY PagesInDram DEF TableAt, Used
  <2> QED BY <1>1, <2>1 DEF Parts
<1>4. w = walk \/ w = CollectMappings(part)
  BY DEF LeafMappings, walk
<1> HIDE DEF part
<1>5. CollectMappings(part) \in Walks /\ Collects(own, RootLevel, part, CollectMappings(part))
  BY <1>3, CollectKeeps
<1> QED BY <1>1, <1>2, <1>3, <1>4, <1>5 DEF Collects

\* The entries of the mappings after the first i are still there.
Remaining(own, m, w, i) ==
  \A j \in i + 1 .. Len(w.mappings) :
    /\ TableAt(own, w.mappings[j].table, 0)
    /\ m.memory[w.mappings[j].table][w.mappings[j].slot]
         = memory[w.mappings[j].table][w.mappings[j].slot]

\* The states when the first i mappings are cleared.
TakenPages(w, i) == {w.mappings[j].page : j \in 1 .. i}
ClearedStores(w, doFree, i) ==
  {m \in Stores :
     /\ m.ok
     /\ \E own : /\ Sound(own, m, IF doFree THEN held ELSE held \cup (TakenPages(w, i) \cap Pages), root)
                 /\ Remaining(own, m, w, i)}

\* Clearing one of different entries leaves the others.
LEMMA RemainingKept ==
  ASSUME NEW own0, NEW w \in Walks, Good(own0, w), NEW i \in 0 .. Len(w.mappings) - 1,
         NEW own, NEW m, Remaining(own, m, w, i), NEW new, NEW n, NEW x, x = w.mappings[i + 1],
         NEW p, Elsewhere(m, n, p, x.table), Cleared(m, n, x.table, x.slot),
         \A q \in Pages : q # p => new[q] = own[q],
         p \in Pages => own[p].use = "mapped", p \notin Pages => p \notin Dram \/ p = KernelPage
  PROVE  Remaining(new, n, w, i + 1)
<1> SUFFICES ASSUME NEW j \in i + 1 + 1 .. Len(w.mappings)
             PROVE  /\ TableAt(new, w.mappings[j].table, 0)
                    /\ n.memory[w.mappings[j].table][w.mappings[j].slot]
                         = memory[w.mappings[j].table][w.mappings[j].slot]
  BY DEF Remaining
<1>1. Len(w.mappings) \in Nat
  BY WalkTypes
<1>2. /\ j \in i + 1 .. Len(w.mappings) /\ j \in 1 .. Len(w.mappings)
      /\ i + 1 \in 1 .. Len(w.mappings) /\ j # i + 1
  BY <1>1
<1>3. PICK y : y = w.mappings[j]
  OBVIOUS
<1>4. /\ TableAt(own, y.table, 0)
      /\ m.memory[y.table][y.slot] = memory[y.table][y.slot]
  BY <1>2, <1>3 DEF Remaining
<1>5. ~(y.table = x.table /\ y.slot = x.slot) /\ y.slot \in SlotNumbers
  BY <1>2, <1>3 DEF Good, MappingOK
<1>6. y.table # p /\ y.table \in Pages /\ y.table \in Dram
  BY <1>4, PagesInDram, PageConstants DEF TableAt, Used
<1>7. TableAt(new, y.table, 0)
  BY <1>4, <1>6 DEF TableAt, Used
<1>8. n.memory[y.table][y.slot] = m.memory[y.table][y.slot]
  BY <1>5, <1>6 DEF Elsewhere, Cleared
<1> QED BY <1>3, <1>4, <1>7, <1>8

\* One turn of uvmunmap: it succeeds, as the mapping was found good.
LEMMA ClearMappingKeeps ==
  ASSUME NEW own0, NEW w \in Walks, Good(own0, w), NEW doFree \in BOOLEAN,
         doFree => w.physical = Pages, w.physical \subseteq Dram \cup {DevicePage},
         NEW i \in 0 .. Len(w.mappings) - 1, NEW m \in ClearedStores(w, doFree, i)
  PROVE  ClearMapping(m, w.mappings[i + 1], doFree) \in ClearedStores(w, doFree, i + 1)
<1> DEFINE x == w.mappings[i + 1]
           n == ClearMapping(m, x, doFree)
           f == IF doFree THEN KfreePage(m, x.page) ELSE m
           loose == IF doFree THEN held ELSE held \cup (TakenPages(w, i) \cap Pages)
           more == IF doFree THEN held ELSE held \cup (TakenPages(w, i + 1) \cap Pages)
<1>1. PICK own : Sound(own, m, loose, root) /\ Remaining(own, m, w, i)
  BY DEF ClearedStores
<1>2. m \in Stores /\ m.ok /\ Len(w.mappings) \in Nat /\ i + 1 \in 1 .. Len(w.mappings)
      /\ i + 1 \in i + 1 .. Len(w.mappings)
  BY WalkTypes DEF ClearedStores
<1>3. PICK t, slot, p : t = x.table /\ slot = x.slot /\ p = x.page
  OBVIOUS
<1>4. /\ TableAt(own, t, 0) /\ slot \in SlotNumbers
      /\ Maps(m.memory[t][slot]) /\ p = m.memory[t][slot].page /\ p \in w.physical
  <2>1. MappingOK(own0, w, x)
    BY <1>2 DEF Good
  <2>2. TableAt(own, x.table, 0) /\ m.memory[x.table][x.slot] = memory[x.table][x.slot]
    BY <1>1, <1>2 DEF Remaining
  <2> HIDE DEF x
  <2> QED BY <1>3, <2>1, <2>2 DEF MappingOK
<1>5. t \in Pages /\ t \in Dram
  BY <1>4, PagesInDram DEF TableAt, Used
<1>6. TakenPages(w, i + 1) = TakenPages(w, i) \cup {p}
  <2>1. \A j : j \in 1 .. i + 1 <=> j \in 1 .. i \/ j = i + 1
    BY <1>2
  <2> QED BY <1>3, <2>1 DEF TakenPages
<1>7. more = IF doFree THEN loose ELSE loose \cup ({p} \cap Pages)
  BY <1>6
<1> HIDE DEF more, loose
<1>8. CASE doFree
  <2>1. p \in Pages
    BY <1>4, <1>8
  <2>2. f = KfreePage(m, p)
    BY <1>3, <1>8
  <2>3. f \in Stores /\ f.ok
    BY <1>2, <2>1, <2>2, KfreeIs, SMTT(20)
  <2> HIDE DEF f
  <2>4. n = [f EXCEPT !.memory[t][slot] = Zero]
    BY <1>2, <1>3, <1>8, <2>2, <2>3 DEF ClearMapping
  <2> HIDE DEF n
  <2>5. SetEntry(f, n, t, slot, Zero)
    BY <1>4, <1>5, <2>3, <2>4, WordTypes, Writing
  <2>6. n.ok = f.ok /\ n.table = f.table
    BY <2>3, <2>4 DEF Stores
  <2>7. SoundBut(own, p, n, loose, root)
    BY <1>1, <1>2, <1>4, <2>1, <2>2, <2>5, <2>6, FreeMapped
  <2>8. Elsewhere(m, n, p, t)
    BY <1>1, <1>2, <1>4, <2>1, <2>2, <2>5, <2>6, FreeMapped
  <2>9. Cleared(m, n, t, slot)
    BY <1>1, <1>2, <1>4, <2>1, <2>2, <2>5, <2>6, FreeMapped
  <2>10. own[p].use = "mapped"
    BY <1>1, <1>2, <1>4, <2>1, <2>2, <2>5, <2>6, FreeMapped
  <2>11. PICK new : /\ Sound(new, n, loose, root)
                    /\ \A q \in Pages : q # p => new[q] = own[q]
    BY <2>7 DEF SoundBut
  <2> HIDE DEF x
  <2>12. x = w.mappings[i + 1]
    BY DEF x
  <2>13. Remaining(new, n, w, i + 1)
    BY <1>1, <1>3, <2>1, <2>8, <2>9, <2>10, <2>11, <2>12, RemainingKept
  <2>14. n \in Stores
    BY <2>5 DEF SetEntry
  <2>15. n \in ClearedStores(w, doFree, i + 1)
    BY <1>7, <1>8, <2>3, <2>6, <2>11, <2>13, <2>14 DEF ClearedStores, more
  <2> QED BY <2>12, <2>15 DEF n
<1>9. CASE ~doFree
  <2>1. n = [m EXCEPT !.memory[t][slot] = Zero]
    BY <1>2, <1>3, <1>9 DEF ClearMapping
  <2> HIDE DEF n
  <2>2. SetEntry(m, n, t, slot, Zero)
    BY <1>2, <1>4, <1>5, <2>1, WordTypes, Writing
  <2>3. n.ok = m.ok
    BY <1>2, <2>1 DEF Stores
  <2>4. more = loose \cup ({p} \cap Pages)
    BY <1>7, <1>9
  <2>5. SoundBut(own, p, n, more, root)
    BY <1>1, <1>2, <1>4, <2>2, <2>4, ClearLeaf
  <2>6. PICK new : /\ Sound(new, n, more, root)
                   /\ \A q \in Pages : q # p => new[q] = own[q]
    BY <2>5 DEF SoundBut
  <2>7. Elsewhere(m, n, p, t) /\ Cleared(m, n, t, slot)
    BY <1>5, <2>2 DEF SetEntry, Elsewhere, Cleared
  <2>8. p \in Pages => own[p].use = "mapped"
    <3>1. EntryOK(own, m, t, slot) /\ own[t].num = 0
      BY <1>1, <1>4, <1>5 DEF Sound, TablesOK, TableAt, Used
    <3> QED BY <1>4, <3>1 DEF EntryOK, LeafOK
  <2>9. p \notin Pages => p \notin Dram \/ p = KernelPage
    BY PagesInDram
  <2> HIDE DEF x
  <2>10. x = w.mappings[i + 1]
    BY DEF x
  <2>11. Remaining(new, n, w, i + 1)
    BY <1>1, <1>3, <2>6, <2>7, <2>8, <2>9, <2>10, RemainingKept
  <2>12. n \in Stores
    BY <2>2 DEF SetEntry
  <2>13. n \in ClearedStores(w, doFree, i + 1)
    BY <1>2, <1>9, <2>3, <2>6, <2>11, <2>12 DEF ClearedStores, more
  <2> QED BY <2>10, <2>13 DEF n
<1> QED BY <1>8, <1>9

-----------------------------------------------------------------------------
(* The steps.                                                              *)

PageInv ==
  /\ Store \in Stores
  /\ root \in [Spaces -> AllPages]
  /\ \E own : Sound(own, Store, held, root)

\* Declining leaves memory alone.
Declined == call'.outcome = "declined" => UNCHANGED <<memory, freelist>>

\* The state that a call starts from.
LEMMA StoreIs ==
  /\ Store.memory = memory /\ Store.free = freelist /\ Store.ok /\ Store.table = NoPage
BY DEF Store

\* What a call leaves is sound if the state it returns is.
LEMMA ReturnedSound ==
  ASSUME NEW m \in Stores, NEW own, Sound(own, m, held', root'),
         memory' = m.memory, freelist' = m.free, root' \in [Spaces -> AllPages]
  PROVE  PageInv'
<1>1. Store' \in Stores /\ Store'.memory = m.memory /\ Store'.free = m.free
  BY PagesInDram DEF Stores, Store
<1>2. PICK n : n = Store'
  OBVIOUS
<1>3. Sound(own, n, held', root')
  BY <1>1, <1>2, SoundSame
<1>4. Sound(own, Store, held, root)'
  BY <1>2, <1>3 DEF Sound, TablesOK, EntryOK, ReachedOK, ParentOK, PlaceOK, FreeOK, RootsOK
<1> QED BY <1>1, <1>4 DEF PageInv

\* A step that leaves the pages alone.
LEMMA NothingDone ==
  ASSUME PageInv, memory' = memory, freelist' = freelist, root' = root, held' = held
  PROVE  PageInv'
<1>1. PICK own : Sound(own, Store, held, root)
  BY DEF PageInv
<1>2. Sound(own, Store, held', root')
  BY <1>1
<1>3. PICK m : m = Store
  OBVIOUS
<1>4. m \in Stores /\ m.memory = memory /\ m.free = freelist /\ Sound(own, m, held', root')
  BY <1>2, <1>3, StoreIs DEF PageInv
<1>5. root' \in [Spaces -> AllPages]
  BY DEF PageInv
<1> QED BY <1>4, <1>5, ReturnedSound

\* The root of a space that is there.
LEMMA RootIsTable ==
  ASSUME PageInv, NEW space \in Alive, NEW own, Sound(own, Store, held, root)
  PROVE  /\ TableAt(own, root[space], RootLevel) /\ space \in Spaces
         /\ root[space] # NoPage /\ root[space] \in Pages
BY DEF Sound, RootsOK, Alive, TableAt, Used

\* uvmunmap frees what it has collected, or has changed nothing.
LEMMA UvmunmapSound ==
  ASSUME PageInv, NEW space \in Alive, NEW va \in Int, NEW count \in Int,
         NEW doFree \in BOOLEAN, Uvmunmap(space, va, count, doFree)
  PROVE  PageInv' /\ Declined
<1> DEFINE walk == LeafMappings(root[space], va, va + count,
                                IF doFree THEN Pages ELSE Dram \cup {DevicePage})
           Clear == [i \in Nat |-> [m \in Stores |-> ClearMapping(m, walk.mappings[i + 1], doFree)]]
           done == Repeat(Clear, Store, Len(walk.mappings))
           unmapped == {walk.mappings[i].page : i \in DOMAIN walk.mappings}
<1>1. PICK own : Sound(own, Store, held, root)
  BY DEF PageInv
<1>2. /\ walk \in Walks /\ Good(own, walk)
      /\ walk.physical = IF doFree THEN Pages ELSE Dram \cup {DevicePage}
  <2>1. memory \in Memories
    BY StoreIs DEF PageInv, Stores
  <2>2. TablesOK(own, Store)
    BY <1>1 DEF Sound
  <2>3. TableAt(own, root[space], RootLevel)
    BY <1>1, RootIsTable
  <2>4. PICK physical \in SUBSET AllPages :
          physical = IF doFree THEN Pages ELSE Dram \cup {DevicePage}
    BY PagesInDram
  <2>5. PICK end \in Int : end = va + count
    OBVIOUS
  <2>6. walk = LeafMappings(root[space], va, end, physical)
    BY <2>4, <2>5
  <2> HIDE DEF walk
  <2>7. walk \in Walks
    BY <2>1, <2>2, <2>3, <2>6, LeafMappingsGood
  <2>8. Good(own, walk)
    BY <2>1, <2>2, <2>3, <2>6, LeafMappingsGood
  <2>9. walk.physical = physical
    BY <2>1, <2>2, <2>3, <2>6, LeafMappingsGood
  <2> QED BY <2>4, <2>7, <2>8, <2>9
<1>3. CASE walk.ok
  <2>1. /\ memory' = done.memory /\ freelist' = done.free
        /\ call'.outcome = IF done.ok THEN "completed" ELSE "declined"
        /\ held' = IF doFree THEN held ELSE held \cup (unmapped \cap Pages)
        /\ root' = root
    <3>1. /\ Return(done, "uvmunmap", <<space, va, count>>,
                    IF done.ok THEN "completed" ELSE "declined")
          /\ held' = IF doFree THEN held ELSE held \cup (unmapped \cap Pages)
          /\ root' = root
      BY <1>3 DEF Uvmunmap
    <3> HIDE DEF done, unmapped
    <3> QED BY <3>1 DEF Return
  <2> HIDE DEF walk
  <2>2. PICK w : w = walk
    OBVIOUS
  <2>3. w \in Walks /\ Good(own, w) /\ Len(w.mappings) \in Nat /\ DOMAIN w.mappings = 1 .. Len(w.mappings)
    BY <1>2, <2>2, WalkTypes
  <2>4. (doFree => w.physical = Pages) /\ w.physical \subseteq Dram \cup {DevicePage}
    BY <1>2, <2>2, PagesInDram
  <2> DEFINE I == [i \in Nat |-> ClearedStores(w, doFree, i)]
  <2>5. Store \in I[0]
    <3>1. TakenPages(w, 0) = {}
      BY DEF TakenPages
    <3>2. \A j \in 0 + 1 .. Len(w.mappings) : MappingOK(own, w, w.mappings[j])
      BY <2>3 DEF Good
    <3>3. Remaining(own, Store, w, 0)
      BY <3>2, StoreIs DEF Remaining, MappingOK
    <3>4. held = IF doFree THEN held ELSE held \cup (TakenPages(w, 0) \cap Pages)
      BY <3>1
    <3>5. Store \in Stores /\ Store.ok
      BY StoreIs DEF PageInv
    <3>6. Store \in ClearedStores(w, doFree, 0)
      BY <1>1, <3>3, <3>4, <3>5 DEF ClearedStores
    <3> QED BY <3>6
  <2>6. PICK k \in Nat : k = Len(w.mappings)
    BY <2>3
  <2>7. \A i \in 0 .. k - 1 : \A s \in I[i] : Clear[i][s] \in I[i + 1]
    <3> SUFFICES ASSUME NEW i \in 0 .. k - 1, NEW s \in I[i]
                 PROVE  Clear[i][s] \in I[i + 1]
      OBVIOUS
    <3>1. i \in Nat /\ i + 1 \in Nat /\ i \in 0 .. Len(w.mappings) - 1
      BY <2>6
    <3>2. s \in ClearedStores(w, doFree, i) /\ s \in Stores
      BY <3>1 DEF ClearedStores
    <3>3. ClearMapping(s, w.mappings[i + 1], doFree) \in ClearedStores(w, doFree, i + 1)
      BY <2>3, <2>4, <3>1, <3>2, ClearMappingKeeps
    <3> QED BY <2>2, <3>1, <3>2, <3>3
  <2>8. done = Repeat(Clear, Store, k)
    BY <2>2, <2>6
  <2> HIDE DEF Clear, I, done
  <2>9. Repeat(Clear, Store, k) \in I[k]
    BY <2>5, <2>7, RepeatKeeps
  <2>10. done \in ClearedStores(w, doFree, k)
    BY <2>8, <2>9 DEF I
  <2>11. PICK new : Sound(new, done, IF doFree THEN held ELSE held \cup (TakenPages(w, k) \cap Pages), root)
    BY <2>10 DEF ClearedStores
  <2>12. done \in Stores /\ done.ok
    BY <2>10 DEF ClearedStores
  <2>13. unmapped = TakenPages(w, k)
    BY <2>2, <2>3, <2>6 DEF TakenPages
  <2> HIDE DEF unmapped
  <2>14. Sound(new, done, held', root')
    BY <2>1, <2>11, <2>13
  <2>15. root' \in [Spaces -> AllPages]
    BY <2>1 DEF PageInv
  <2>16. PageInv'
    BY <2>1, <2>12, <2>14, <2>15, ReturnedSound
  <2> QED BY <2>1, <2>12, <2>16 DEF Declined
<1>4. CASE ~walk.ok
  <2>1. memory' = memory /\ freelist' = freelist /\ root' = root /\ held' = held
    BY <1>4, StoreIs DEF Uvmunmap, Return
  <2> QED BY <2>1, NothingDone DEF Declined
<1> QED BY <1>3, <1>4

\* uvmcopy copies, or takes back what it has copied.
LEMMA UvmcopySound ==
  ASSUME PageInv, NEW old \in Alive, NEW new \in Alive, NEW size \in Int,
         NoSuperpage(new), Uvmcopy(old, new, size)
  PROVE  PageInv' /\ Declined
<1> DEFINE walk == LeafMappings(root[old], 0, size, Dram)
           Copy == [i \in Nat |-> [m \in Stores |->
                      IF m.ok THEN CopyPage(m, root[new], walk.mappings, i + 1) ELSE m]]
           done == Repeat(Copy, Store, Len(walk.mappings))
           top == root[new]
<1>1. PICK own : Sound(own, Store, held, root)
  BY DEF PageInv
<1>2. walk \in Walks /\ Good(own, walk) /\ walk.physical = Dram
  <2>1. memory \in Memories
    BY StoreIs DEF PageInv, Stores
  <2>2. TablesOK(own, Store)
    BY <1>1 DEF Sound
  <2>3. TableAt(own, root[old], RootLevel)
    BY <1>1, RootIsTable
  <2>4. PICK physical \in SUBSET AllPages : physical = Dram
    BY PagesInDram
  <2>5. walk = LeafMappings(root[old], 0, size, physical)
    BY <2>4
  <2> HIDE DEF walk
  <2>6. walk \in Walks
    BY <2>1, <2>2, <2>3, <2>5, LeafMappingsGood
  <2>7. Good(own, walk)
    BY <2>1, <2>2, <2>3, <2>5, LeafMappingsGood
  <2>8. walk.physical = physical
    BY <2>1, <2>2, <2>3, <2>5, LeafMappingsGood
  <2> QED BY <2>4, <2>6, <2>7, <2>8
<1>3. Store \in Based(top, held, root)
  <2>1. TableAt(own, top, RootLevel)
    BY <1>1, RootIsTable
  <2>2. NoLeaf(Store, top)
    BY StoreIs DEF NoLeaf, NoSuperpage, Maps
  <2>3. Store \in Stores
    BY DEF PageInv
  <2> QED BY <1>1, <2>1, <2>2, <2>3 DEF Based
<1>4. CASE walk.ok
  <2>1. /\ memory' = done.memory /\ freelist' = done.free
        /\ call'.outcome = IF done.ok THEN "completed" ELSE "failed"
        /\ held' = held /\ root' = root
    BY <1>4 DEF Uvmcopy, Return
  <2> HIDE DEF walk
  <2>2. PICK w : w = walk
    OBVIOUS
  <2>3. w \in Walks /\ Good(own, w) /\ w.physical = Dram
    BY <1>2, <2>2
  <2>4. PICK k \in Nat : k = Len(w.mappings)
    BY <2>3, WalkTypes
  <2>5. ASSUME NEW j \in 1 .. k
        PROVE  /\ w.mappings[j].va \in Int /\ w.mappings[j].page \in Dram
               /\ w.mappings[j].flags = UserFlags
    <3>1. w.mappings[j] \in LeafMapping
      BY <2>3, <2>4, WalkTypes
    <3>2. PICK x : x = w.mappings[j]
      OBVIOUS
    <3>3. x.va \in Int /\ x.flags \in {{}, UserFlags}
      BY <3>1, <3>2 DEF LeafMapping
    <3>4. MappingOK(own, w, x)
      BY <2>3, <2>4, <3>2 DEF Good
    <3>5. /\ TableAt(own, x.table, 0) /\ x.slot \in SlotNumbers /\ x.page \in Dram
          /\ Maps(memory[x.table][x.slot]) /\ memory[x.table][x.slot].flags = x.flags
      BY <2>3, <3>4 DEF MappingOK
    <3>6. EntryOK(own, Store, x.table, x.slot)
      BY <1>1, <3>5 DEF Sound, TablesOK, TableAt, Used
    <3>7. memory[x.table][x.slot].kind = "pte"
      BY <3>5, <3>6, StoreIs DEF EntryOK, LeafOK
    <3>8. x.flags # {}
      BY <3>5, <3>7 DEF Maps, Leaf
    <3> QED BY <3>2, <3>3, <3>5, <3>8
  <2> DEFINE I == [i \in Nat |-> Based(top, held, root)]
  <2>6. \A i \in 0 .. k - 1 : \A s \in I[i] : Copy[i][s] \in I[i + 1]
    <3> SUFFICES ASSUME NEW i \in 0 .. k - 1, NEW s \in Based(top, held, root)
                 PROVE  Copy[i][s] \in Based(top, held, root)
      OBVIOUS
    <3>1. PICK j \in Nat \ {0} : j = i + 1
      OBVIOUS
    <3>2. \A x \in 1 .. j : x \in 1 .. k
      BY <3>1
    <3>3. \A x \in 1 .. j : w.mappings[x].va \in Int
      BY <2>5, <3>2
    <3>4. w.mappings[j].page \in Dram /\ w.mappings[j].flags = UserFlags
      BY <2>5, <3>2
    <3>5. CopyPage(s, top, w.mappings, j) \in Based(top, held, root)
      BY <3>3, <3>4, CopyKeeps
    <3>6. s \in Stores /\ i \in Nat
      BY DEF Based
    <3> QED BY <2>2, <3>1, <3>5, <3>6
  <2>7. Store \in I[0] /\ I[k] = Based(top, held, root)
    BY <1>3
  <2>8. done = Repeat(Copy, Store, k)
    BY <2>2, <2>4
  <2> HIDE DEF Copy, I, done
  <2>9. done \in Based(top, held, root)
    BY <2>6, <2>7, <2>8, RepeatKeeps
  <2>10. PICK own1 : Sound(own1, done, held, root)
    BY <2>9 DEF Based
  <2>11. done \in Stores
    BY <2>9 DEF Based
  <2>12. Sound(own1, done, held', root') /\ root' \in [Spaces -> AllPages]
    BY <2>1, <2>10 DEF PageInv
  <2>13. PageInv'
    BY <2>1, <2>11, <2>12, ReturnedSound
  <2> QED BY <2>1, <2>13 DEF Declined
<1>5. CASE ~walk.ok
  <2>1. memory' = memory /\ freelist' = freelist /\ root' = root /\ held' = held
    BY <1>5, StoreIs DEF Uvmcopy, Return
  <2> QED BY <2>1, NothingDone DEF Declined
<1> QED BY <1>4, <1>5

-----------------------------------------------------------------------------
(* freewalk.                                                               *)

\* The entries of a table below a slot lead to different tables of a set.
CleanUpTo(t, tables, slot) ==
  /\ \A x \in 0 .. slot - 1 :
       Valid(memory[t][x]) => ~Leaf(memory[t][x]) /\ memory[t][x].page \in tables
  /\ \A x, y \in 0 .. slot - 1 :
       /\ Valid(memory[t][x]) /\ Valid(memory[t][y])
       /\ memory[t][x].page = memory[t][y].page
       => x = y
Clean(t, tables) == t \in Pages /\ CleanUpTo(t, tables, Slots)

\* What a successful search of the tables below w.table has found.
Searched(w, r) ==
  r.ok => /\ w.ok /\ w.visited \subseteq r.visited
          /\ w.table \in r.visited /\ w.table \notin w.visited
          /\ \A t \in r.visited \ w.visited : Clean(t, r.visited)
Searchers == {f \in [Searches -> Searches] : \A w \in Searches : Searched(w, f[w])}

\* The searches in a table when its entries below slot have been visited.
InSearch(w, slot) ==
  {c \in Searches :
     c.ok => /\ w.ok /\ w.visited \subseteq c.visited /\ w.table \in c.visited
             /\ \A t \in c.visited \ (w.visited \cup {w.table}) : Clean(t, c.visited)
             /\ CleanUpTo(w.table, c.visited, slot)}

SearchEntry(level, below, table, slot, c) ==
  LET pte == memory[table][slot]
  IN  IF ~c.ok \/ ~Valid(pte) THEN c
      ELSE IF level = 0 \/ Leaf(pte) THEN Fail(c)
      ELSE below[[c EXCEPT !.table = pte.page]]

\* The parts of a search.
LEMMA SearchTypes ==
  ASSUME NEW w \in Searches
  PROVE  /\ w.visited \subseteq Pages /\ w.table \in AllPages /\ w.ok \in BOOLEAN
         /\ Fail(w) \in Searches /\ ~Fail(w).ok
BY DEF Searches, Fail

\* What was clean among some tables is so among more.
LEMMA CleanGrows ==
  ASSUME NEW t, NEW tables, NEW more, tables \subseteq more, NEW slot, CleanUpTo(t, tables, slot)
  PROVE  CleanUpTo(t, more, slot)
BY DEF CleanUpTo

\* One entry is searched.
LEMMA SearchEntryKeeps ==
  ASSUME memory \in Memories, NEW level \in Nat, NEW below, level # 0 => below \in Searchers,
         NEW w \in Searches, w.table \in Pages, NEW slot \in SlotNumbers,
         NEW c \in InSearch(w, slot)
  PROVE  SearchEntry(level, below, w.table, slot, c) \in InSearch(w, slot + 1)
<1> DEFINE table == w.table
           pte == memory[table][slot]
           n == SearchEntry(level, below, table, slot, c)
<1>1. /\ c \in Searches
      /\ c.ok => /\ w.ok /\ w.visited \subseteq c.visited /\ w.table \in c.visited
                 /\ \A t \in c.visited \ (w.visited \cup {w.table}) : Clean(t, c.visited)
                 /\ CleanUpTo(w.table, c.visited, slot)
  BY DEF InSearch
<1>2. PICK next \in Int : next = slot + 1
  BY PageConstants DEF SlotNumbers
<1>6. slot \in Int /\ \A x : x \in 0 .. next - 1 <=> x \in 0 .. slot - 1 \/ x = slot
  BY <1>2, PageConstants DEF SlotNumbers
<1>3. CASE ~c.ok \/ ~Valid(pte)
  <2>1. n = c
    BY <1>3 DEF SearchEntry
  <2>2. ~Valid(pte) /\ CleanUpTo(table, c.visited, slot) => CleanUpTo(table, c.visited, next)
    BY <1>6 DEF CleanUpTo
  <2> HIDE DEF n, pte
  <2>3. n \in InSearch(w, slot + 1)
    BY <1>1, <1>2, <1>3, <2>1, <2>2 DEF InSearch
  <2> QED BY <2>3 DEF n
<1>4. CASE c.ok /\ Valid(pte) /\ (level = 0 \/ Leaf(pte))
  <2>1. n = Fail(c)
    BY <1>4 DEF SearchEntry
  <2>2. n \in Searches /\ ~n.ok
    BY <1>1, <2>1, SearchTypes
  <2> HIDE DEF n
  <2>3. n \in InSearch(w, slot + 1)
    BY <2>2 DEF InSearch
  <2> QED BY <2>3 DEF n
<1>5. CASE c.ok /\ Valid(pte) /\ level # 0 /\ ~Leaf(pte)
  <2> DEFINE s == [c EXCEPT !.table = pte.page]
  <2>1. n = below[s]
    BY <1>5 DEF SearchEntry
  <2>2. pte.page \in AllPages
    BY PagesInDram DEF Memories, Words
  <2>3. s \in Searches /\ s.table = pte.page /\ s.visited = c.visited
    BY <1>1, <2>2 DEF Searches
  <2> HIDE DEF s
  <2>4. n \in Searches /\ Searched(s, n)
    BY <1>5, <2>1, <2>3 DEF Searchers
  <2> HIDE DEF n, pte
  <2>5. ASSUME n.ok
        PROVE  /\ w.ok /\ w.visited \subseteq n.visited /\ w.table \in n.visited
               /\ \A t \in n.visited \ (w.visited \cup {w.table}) : Clean(t, n.visited)
               /\ CleanUpTo(w.table, n.visited, next)
    <3>1. /\ c.visited \subseteq n.visited /\ pte.page \in n.visited /\ pte.page \notin c.visited
          /\ \A t \in n.visited \ c.visited : Clean(t, n.visited)
      BY <2>3, <2>4, <2>5 DEF Searched
    <3>2. ASSUME NEW t \in n.visited \ (w.visited \cup {w.table}) PROVE Clean(t, n.visited)
      <4>1. CASE t \in c.visited
        <5>1. Clean(t, c.visited)
          BY <1>1, <1>5, <4>1
        <5> QED BY <3>1, <5>1, CleanGrows DEF Clean
      <4>2. CASE t \notin c.visited
        BY <3>1, <4>2
      <4> QED BY <4>1, <4>2
    <3>3. CleanUpTo(table, c.visited, slot)
      BY <1>1, <1>5
    <3>4. CleanUpTo(table, n.visited, slot)
      BY <3>1, <3>3, CleanGrows
    <3>5. \A x \in 0 .. slot - 1 : Valid(memory[table][x]) => memory[table][x].page # pte.page
      BY <3>1, <3>3 DEF CleanUpTo
    <3>6. CleanUpTo(table, n.visited, next)
      <4>1. \A x \in 0 .. next - 1 :
              Valid(memory[table][x]) => ~Leaf(memory[table][x]) /\ memory[table][x].page \in n.visited
        BY <1>5, <1>6, <3>1, <3>4 DEF CleanUpTo, pte
      <4>2. ASSUME NEW x \in 0 .. next - 1, NEW y \in 0 .. next - 1,
                   Valid(memory[table][x]), Valid(memory[table][y]),
                   memory[table][x].page = memory[table][y].page
            PROVE  x = y
        <5>1. CASE x \in 0 .. slot - 1 /\ y \in 0 .. slot - 1
          BY <3>4, <4>2, <5>1 DEF CleanUpTo
        <5>2. CASE x \in 0 .. slot - 1 /\ y = slot
          BY <3>5, <4>2, <5>2 DEF pte
        <5>3. CASE x = slot /\ y \in 0 .. slot - 1
          BY <3>5, <4>2, <5>3 DEF pte
        <5> QED BY <1>6, <5>1, <5>2, <5>3
      <4>3. \A x, y \in 0 .. next - 1 :
              /\ Valid(memory[table][x]) /\ Valid(memory[table][y])
              /\ memory[table][x].page = memory[table][y].page
              => x = y
        BY <4>2
      <4> HIDE DEF table
      <4> QED BY <4>1, <4>3 DEF CleanUpTo
    <3> QED BY <1>1, <1>5, <3>1, <3>2, <3>6
  <2>6. n \in InSearch(w, slot + 1)
    BY <1>2, <2>4, <2>5 DEF InSearch
  <2> QED BY <2>6 DEF n
<1> QED BY <1>3, <1>4, <1>5

\* One level of freewalk_is_safe.
LEMMA SafeAtKeeps ==
  ASSUME memory \in Memories, NEW level \in Nat, NEW below, level # 0 => below \in Searchers
  PROVE  SafeAt(level, below) \in Searchers
<1>1. ASSUME NEW w \in Searches
      PROVE  SafeAt(level, below)[w] \in Searches /\ Searched(w, SafeAt(level, below)[w])
  <2> DEFINE r == SafeAt(level, below)[w]
             Visit == [i \in Nat |-> [c \in Searches |-> SearchEntry(level, below, w.table, i, c)]]
             start == [w EXCEPT !.visited = @ \cup {w.table}]
             I == [i \in Nat |-> InSearch(w, i)]
  <2>1. CASE \/ Cardinality(w.visited) >= MaxPages \/ w.table \in w.visited
             \/ w.table \notin Pages
    <3>1. r = Fail(w)
      BY <2>1 DEF SafeAt
    <3>2. r \in Searches /\ ~r.ok
      BY <3>1, SearchTypes
    <3> HIDE DEF r
    <3>3. r \in Searches /\ Searched(w, r)
      BY <3>2 DEF Searched
    <3> QED BY <3>3 DEF r
  <2>2. CASE ~(\/ Cardinality(w.visited) >= MaxPages \/ w.table \in w.visited
               \/ w.table \notin Pages)
    <3>1. r = Repeat(Visit, start, Slots)
      BY <2>2 DEF SafeAt, SearchEntry
    <3>2. /\ start \in Searches /\ start.ok = w.ok /\ start.visited = w.visited \cup {w.table}
      BY <2>2 DEF Searches
    <3>3. start \in I[0]
      <4> HIDE DEF start
      <4>1. \A x : x \notin 0 .. 0 - 1
        OBVIOUS
      <4>2. CleanUpTo(w.table, start.visited, 0)
        BY <4>1 DEF CleanUpTo
      <4>3. start \in InSearch(w, 0)
        BY <3>2, <4>2 DEF InSearch
      <4> QED BY <4>3
    <3>4. \A i \in 0 .. Slots - 1 : \A s \in I[i] : Visit[i][s] \in I[i + 1]
      <4> SUFFICES ASSUME NEW i \in 0 .. Slots - 1, NEW s \in I[i]
                   PROVE  Visit[i][s] \in I[i + 1]
        OBVIOUS
      <4>1. i \in Nat /\ i + 1 \in Nat /\ i \in SlotNumbers
        BY DEF SlotNumbers
      <4>2. s \in InSearch(w, i) /\ s \in Searches
        BY <4>1 DEF InSearch
      <4>3. SearchEntry(level, below, w.table, i, s) \in InSearch(w, i + 1)
        BY <2>2, <4>1, <4>2, SearchEntryKeeps
      <4> QED BY <4>1, <4>2, <4>3
    <3>5. Slots \in Nat
      BY PageConstants
    <3> HIDE DEF Visit, I, start, r
    <3>6. r \in I[Slots]
      BY <3>1, <3>3, <3>4, <3>5, RepeatKeeps
    <3>7. r \in InSearch(w, Slots)
      BY <3>5, <3>6 DEF I
    <3>8. r \in Searches
      BY <3>7 DEF InSearch
    <3>9. Searched(w, r)
      <4> SUFFICES ASSUME r.ok PROVE Searched(w, r)
        BY DEF Searched
      <4>1. /\ w.ok /\ w.visited \subseteq r.visited /\ w.table \in r.visited
            /\ \A t \in r.visited \ (w.visited \cup {w.table}) : Clean(t, r.visited)
            /\ CleanUpTo(w.table, r.visited, Slots)
        BY <3>7 DEF InSearch
      <4>2. Clean(w.table, r.visited)
        BY <2>2, <4>1 DEF Clean
      <4> QED BY <2>2, <4>1, <4>2 DEF Searched
    <3> QED BY <3>8, <3>9 DEF r
  <2> QED BY <2>1, <2>2
<1>2. SafeAt(level, below) = [w \in Searches |-> SafeAt(level, below)[w]]
  BY DEF SafeAt
<1>3. PICK f : f = SafeAt(level, below)
  OBVIOUS
<1>4. f = [w \in Searches |-> f[w]] /\ \A w \in Searches : f[w] \in Searches
  BY <1>1, <1>2, <1>3
<1>5. f \in [Searches -> Searches]
  BY <1>4
<1> QED BY <1>1, <1>3, <1>5 DEF Searchers

\* freewalk_is_safe.
LEMMA SafeTree ==
  ASSUME memory \in Memories, NEW top \in Pages, FreewalkIsSafe(top)
  PROVE  \E tables \in SUBSET Pages : top \in tables /\ \A t \in tables : Clean(t, tables)
<1> DEFINE D == 0 .. RootLevel
           Equation(f) == f = [level \in D |-> SafeAt(level, IF level = 0 THEN <<>> ELSE f[level - 1])]
           at == CHOOSE f : Equation(f)
           I == [i \in Nat |-> IF i = 0 THEN {<<>>} ELSE Searchers]
           X == UNION {I[i] : i \in Nat}
           C == [i \in D |-> [f \in X |-> SafeAt(i, f)]]
           w == [ok |-> TRUE, visited |-> {}, table |-> top]
<1>1. RootLevel \in Nat /\ RootLevel \in D /\ 0 \in D
  BY PageConstants
<1>2. ASSUME NEW l \in D, NEW f \in I[l] PROVE SafeAt(l, f) \in I[l + 1]
  <2>1. l \in Nat /\ l + 1 \in Nat /\ l + 1 # 0 /\ l + 1 - 1 = l
    BY <1>1
  <2>2. l # 0 => f \in Searchers
    BY <2>1
  <2>3. SafeAt(l, f) \in Searchers
    BY <2>1, <2>2, SafeAtKeeps
  <2> QED BY <2>1, <2>3
<1>3. \E f : Equation(f)
  <2>1. \A l \in D : \A f \in I[l] : C[l][f] \in I[l + 1] /\ C[l][f] = SafeAt(l, f)
    <3> SUFFICES ASSUME NEW l \in D, NEW f \in I[l]
                 PROVE  C[l][f] \in I[l + 1] /\ C[l][f] = SafeAt(l, f)
      OBVIOUS
    <3>1. f \in X
      <4>1. l \in Nat
        BY <1>1
      <4> QED BY <4>1
    <3>2. C[l][f] = SafeAt(l, f)
      <4> HIDE DEF X
      <4> QED BY <3>1
    <3> HIDE DEF C, X, I
    <3> QED BY <1>2, <3>2
  <2>2. <<>> \in I[0] /\ \A l \in D : l # 0 => l - 1 \in D /\ l - 1 + 1 = l
    BY <1>1
  <2> HIDE DEF C, I, X
  <2>6. PICK b : b = <<>>
    OBVIOUS
  <2>7. b \in I[0] /\ \A l \in D : \A f \in I[l] : C[l][f] \in I[l + 1]
    BY <2>1, <2>2, <2>6
  <2>8. PICK f : /\ f = [l \in D |-> f[l]]
                 /\ \A l \in D : /\ f[l] \in I[l + 1]
                                 /\ f[l] = C[l][IF l = 0 THEN b ELSE f[l - 1]]
    <3>1. LevelSteps(RootLevel, C, I)
      BY <2>7 DEF LevelSteps
    <3>2. \E f : IsLevels(f, RootLevel, C, I, b)
      BY <1>1, <2>7, <3>1, LevelsExist
    <3> QED BY <3>2 DEF IsLevels
  <2>3. /\ f = [l \in D |-> f[l]]
        /\ \A l \in D : /\ f[l] \in I[l + 1]
                        /\ f[l] = C[l][IF l = 0 THEN <<>> ELSE f[l - 1]]
    BY <2>6, <2>8
  <2>4. \A l \in D : f[l] = SafeAt(l, IF l = 0 THEN <<>> ELSE f[l - 1])
    <3> SUFFICES ASSUME NEW l \in D
                 PROVE  f[l] = SafeAt(l, IF l = 0 THEN <<>> ELSE f[l - 1])
      OBVIOUS
    <3>1. PICK g : g = IF l = 0 THEN <<>> ELSE f[l - 1]
      OBVIOUS
    <3>2. g \in I[l]
      BY <2>2, <2>3, <3>1
    <3> QED BY <2>1, <2>3, <3>1, <3>2
  <2> HIDE DEF D
  <2>5. Equation(f)
    BY <2>3, <2>4
  <2> QED BY <2>5
<1>4. Equation(at)
  <2> HIDE DEF Equation
  <2> QED BY <1>3
<1> HIDE DEF at
<1>5. \A l \in D : at[l] = SafeAt(l, IF l = 0 THEN <<>> ELSE at[l - 1])
  <2> HIDE DEF D
  <2> QED BY <1>4
<1> DEFINE J == [i \in Nat |-> Searchers]
<1>6. \A l \in 0 .. RootLevel : at[l] \in J[l]
  <2>1. at[0] \in J[0]
    <3>1. at[0] = SafeAt(0, <<>>)
      BY <1>1, <1>5
    <3>2. SafeAt(0, <<>>) \in Searchers
      BY <1>1, SafeAtKeeps
    <3> QED BY <3>1, <3>2
  <2>2. ASSUME NEW l \in 0 .. RootLevel - 1, at[l] \in J[l] PROVE at[l + 1] \in J[l + 1]
    <3>1. l + 1 \in D /\ l + 1 # 0 /\ l + 1 - 1 = l /\ l + 1 \in Nat /\ l \in Nat
      BY <1>1
    <3>2. at[l + 1] = SafeAt(l + 1, at[l])
      BY <1>5, <3>1
    <3>4. at[l] \in Searchers
      BY <2>2, <3>1
    <3>5. SafeAt(l + 1, at[l]) \in Searchers
      BY <3>1, <3>4, SafeAtKeeps
    <3> QED BY <3>1, <3>2, <3>5
  <2> HIDE DEF J
  <2> QED BY <1>1, <2>1, <2>2, LevelInduction
<1>7. at[RootLevel] \in Searchers
  BY <1>1, <1>6
<1>8. at[RootLevel][w].ok
  BY DEF FreewalkIsSafe, at, D
<1>9. w \in Searches /\ w.table = top /\ w.visited = {}
  BY PagesInDram DEF Searches
<1> HIDE DEF w
<1>10. PICK r : r = at[RootLevel][w]
  OBVIOUS
<1>11. Searched(w, r) /\ r \in Searches
  BY <1>7, <1>9, <1>10 DEF Searchers
<1>12. top \in r.visited /\ \A t \in r.visited : Clean(t, r.visited)
  BY <1>8, <1>9, <1>10, <1>11 DEF Searched
<1> QED BY <1>11, <1>12, SearchTypes

\* The tables of a set are as they were, but for entries that are cleared.
Thinned(own, m, tables) ==
  \A t \in tables : own[t].use = "table" =>
    \A x \in SlotNumbers : m.memory[t][x] = memory[t][x] \/ m.memory[t][x] = Zero

\* The tables above a level are the same.
SameAbove(own, m, new, n, level) ==
  \A q \in Pages : own[q].use = "table" /\ own[q].num > level =>
    new[q] = own[q] /\ n.memory[q] = m.memory[q]

\* What freewalk_page_table is called with, and what it leaves.
Freeing(tables, level, own, m) ==
  /\ m.ok /\ m.table \in tables /\ TableAt(own, m.table, level)
  /\ Sound(own, m, held, root) /\ Thinned(own, m, tables)
Emptied(tables, level, own, m, n, slot) ==
  /\ n.ok
  /\ \E new : /\ Sound(new, n, held, root)
              /\ Thinned(new, n, tables)
              /\ SameAbove(own, m, new, n, level)
              /\ new[m.table] = own[m.table]
              /\ \A x \in SlotNumbers : x < slot => ~Valid(n.memory[m.table][x])
EmptiedStores(tables, level, m, slot) ==
  {n \in Stores : \A own : Freeing(tables, level, own, m) => Emptied(tables, level, own, m, n, slot)}
Freers(tables, level) ==
  {f \in [Stores -> Stores] : \A m \in Stores : f[m] \in EmptiedStores(tables, level, m, Slots)}

FreeEntry(level, below, table, slot, c) ==
  LET pte   == c.memory[table][slot]
      freed == below[[c EXCEPT !.table = pte.page]]
  IN  IF ~c.ok \/ ~Valid(pte) THEN c
      ELSE IF Leaf(pte) \/ level = 0 THEN Fail(c)
      ELSE IF ~freed.ok THEN freed
      ELSE KfreePage([freed EXCEPT !.memory[table][slot] = Zero], pte.page)

\* One entry is freed.
LEMMA FreeEntryTyped ==
  ASSUME NEW level \in Nat, NEW below, level # 0 => below \in [Stores -> Stores],
         NEW table \in Dram, NEW slot \in SlotNumbers, NEW c \in Stores
  PROVE  FreeEntry(level, below, table, slot, c) \in Stores
<1> DEFINE pte == c.memory[table][slot]
           s == [c EXCEPT !.table = pte.page]
           freed == below[s]
           g == [freed EXCEPT !.memory[table][slot] = Zero]
           n == FreeEntry(level, below, table, slot, c)
<1>1. CASE ~c.ok \/ ~Valid(pte) \/ Leaf(pte) \/ level = 0
  <2>1. n = c \/ n = Fail(c)
    BY <1>1, Zenon DEF FreeEntry
  <2>2. c \in Stores /\ Fail(c) \in Stores
    BY StoreTypes
  <2> QED BY <2>1, <2>2
<1>2. CASE ~(~c.ok \/ ~Valid(pte) \/ Leaf(pte) \/ level = 0)
  <2>1. pte.page \in AllPages
    BY StoreTypes
  <2>2. s \in Stores
    BY <2>1 DEF Stores
  <2> HIDE DEF s
  <2>3. freed \in Stores
    BY <1>2, <2>2
  <2> HIDE DEF freed
  <2>4. SetEntry(freed, g, table, slot, Zero)
    BY <2>3, WordTypes, Writing
  <2>5. g \in Stores
    BY <2>4 DEF SetEntry
  <2> HIDE DEF g
  <2>6. KfreePage(g, pte.page) \in Stores
    <3>1. CASE pte.page \in Pages
      BY <2>5, <3>1, KfreeIs
    <3>2. CASE pte.page \notin Pages
      <4>1. KfreePage(g, pte.page) = Fail(g)
        BY <3>2 DEF KfreePage
      <4> QED BY <2>5, <4>1, StoreTypes
    <3> QED BY <3>1, <3>2
  <2>7. n = freed \/ n = KfreePage(g, pte.page)
    BY <1>2, Zenon DEF FreeEntry, freed, s, g
  <2> QED BY <2>3, <2>6, <2>7
<1> QED BY <1>1, <1>2

\* The child of a table is gone, and the entry that led to it.
ChildGone(tables, level, own, c, table, slot, n) ==
  \E new : /\ Sound(new, n, held, root) /\ Thinned(new, n, tables)
           /\ SameAbove(own, c, new, n, level)
           /\ new[table] = own[table]
           /\ Cleared(c, n, table, slot)

\* The child of a table is freed, unlinked and given back.
LEMMA FreeChild ==
  ASSUME NEW tables \in SUBSET Pages, \A t \in tables : Clean(t, tables),
         NEW level \in Nat, level # 0, NEW below, below \in Freers(tables, level - 1),
         NEW own, NEW c \in Stores, c.ok, Sound(own, c, held, root), Thinned(own, c, tables),
         NEW table \in tables, TableAt(own, table, level),
         NEW slot \in SlotNumbers, NEW pte, pte = c.memory[table][slot],
         Valid(pte), pte = memory[table][slot],
         NEW n, n = FreeEntry(level, below, table, slot, c)
  PROVE  n.ok /\ ChildGone(tables, level, own, c, table, slot, n)
<1>1. /\ table \in Pages /\ table \in Dram /\ own[table].use = "table" /\ own[table].num = level
      /\ own \in Ownership
  BY PagesInDram DEF TableAt, Used, Sound
<1>2. PICK p : p = pte.page
  OBVIOUS
<1>3. ~Leaf(pte) /\ p \in tables /\ p \in Pages
  <2>1. slot \in 0 .. Slots - 1
    BY DEF SlotNumbers
  <2> QED BY <1>2, <2>1 DEF Clean, CleanUpTo
<1>4. TableAt(own, p, level - 1) /\ Points(pte)
  <2>1. EntryOK(own, c, table, slot)
    BY <1>1 DEF Sound, TablesOK
  <2>2. Points(pte)
    BY <1>3 DEF Points
  <2> QED BY <1>1, <1>2, <2>1, <2>2 DEF EntryOK, PointerOK
<1>5. PICK s : s = [c EXCEPT !.table = p]
  OBVIOUS
<1>6. /\ s \in Stores /\ s.memory = c.memory /\ s.free = c.free /\ s.table = p /\ s.ok
  BY <1>3, <1>5, PagesInDram DEF Stores
<1>7. Freeing(tables, level - 1, own, s)
  <2>1. Sound(own, s, held, root)
    BY <1>6, SoundSame
  <2>2. Thinned(own, s, tables)
    BY <1>6 DEF Thinned
  <2> QED BY <1>3, <1>4, <1>6, <2>1, <2>2 DEF Freeing
<1>8. PICK f \in Stores : f = below[s] /\ Emptied(tables, level - 1, own, s, f, Slots)
  <2>1. below[s] \in EmptiedStores(tables, level - 1, s, Slots)
    BY <1>6 DEF Freers
  <2> QED BY <1>7, <2>1 DEF EmptiedStores
<1>9. f.ok
  BY <1>8 DEF Emptied
<1>10. PICK new2 : /\ Sound(new2, f, held, root) /\ Thinned(new2, f, tables)
                   /\ SameAbove(own, s, new2, f, level - 1)
                   /\ new2[p] = own[p]
                   /\ \A x \in SlotNumbers : x < Slots => ~Valid(f.memory[p][x])
  BY <1>6, <1>8 DEF Emptied
<1>11. \A x \in SlotNumbers : ~Valid(f.memory[p][x])
  <2>1. \A x \in SlotNumbers : x < Slots
    BY PageConstants DEF SlotNumbers
  <2> QED BY <1>10, <2>1
<1>12. new2[table] = own[table] /\ f.memory[table] = c.memory[table]
  <2>1. own[table].num > level - 1
    BY <1>1
  <2> QED BY <1>1, <1>6, <1>10, <2>1 DEF SameAbove
<1>13. PICK g : g = [f EXCEPT !.memory[table][slot] = Zero]
  OBVIOUS
<1>14. SetEntry(f, g, table, slot, Zero)
  BY <1>1, <1>13, WordTypes, Writing
<1>15. g \in Stores
  BY <1>14 DEF SetEntry
<1>16. n = KfreePage(g, p)
  <2>1. FreeEntry(level, below, table, slot, c) = KfreePage(g, p)
    BY <1>2, <1>3, <1>5, <1>8, <1>9, <1>13 DEF FreeEntry
  <2> QED BY <2>1
<1>17. \A x \in SlotNumbers :
         Points(f.memory[table][x]) /\ f.memory[table][x].page = p => x = slot
  <2> SUFFICES ASSUME NEW x \in SlotNumbers, Points(f.memory[table][x]),
                      f.memory[table][x].page = p
               PROVE  x = slot
    OBVIOUS
  <2>1. c.memory[table][x] = memory[table][x]
    BY <1>1, <1>12, WordKinds DEF Thinned
  <2>2. Valid(memory[table][x]) /\ Valid(memory[table][slot])
        /\ memory[table][x].page = memory[table][slot].page
    BY <1>2, <1>12, <2>1, WordKinds
  <2>3. CleanUpTo(table, tables, Slots) /\ x \in 0 .. Slots - 1 /\ slot \in 0 .. Slots - 1
    BY DEF Clean, SlotNumbers
  <2> QED BY <2>2, <2>3 DEF CleanUpTo
<1>18. PICK new3 : /\ Sound(new3, g, held \cup {p}, root) /\ p # table
                   /\ new3 = [new2 EXCEPT ![p] = Loose]
  <2>1. /\ table \in Pages /\ new2[table].use = "table"
        /\ Points(f.memory[table][slot]) /\ p = f.memory[table][slot].page
    BY <1>1, <1>2, <1>4, <1>12
  <2>2. f \in Stores /\ Sound(new2, f, held, root)
    BY <1>10
  <2>3. Sound([new2 EXCEPT ![p] = Loose], g, held \cup {p}, root)
    BY <1>11, <1>14, <1>17, <2>1, <2>2, UnlinkTable
  <2>4. p # table
    BY <1>1, <1>4 DEF TableAt
  <2> QED BY <2>3, <2>4
<1>19. \A q \in Pages : q # p => new3[q] = new2[q]
  BY <1>10, <1>18 DEF Sound, Ownership
<1>20. PICK more : more = held \cup {p}
  OBVIOUS
<1>21. p \in more /\ held = more \ {p} /\ Sound(new3, g, more, root)
  <2>1. p \notin held
    BY <1>4, <1>10 DEF Sound, TableAt, Used
  <2> QED BY <1>18, <1>20, <2>1
<1>22. SoundBut(new3, p, n, held, root)
  BY <1>15, <1>16, <1>21, KfreeLinks
<1>23. PICK new : /\ Sound(new, n, held, root)
                  /\ \A q \in Pages : q # p => new[q] = new3[q]
  BY <1>22 DEF SoundBut
<1>24. n.ok /\ n.free = p /\ OnlyPage(g, n, p)
  BY <1>3, <1>15, <1>16, KfreeIs
<1>25. new[p].use = "free"
  BY <1>3, <1>23, <1>24, PageConstants DEF Sound, FreeOK, Used
<1>26. \A q \in Pages : q # p => new[q] = new2[q]
  BY <1>19, <1>23
<1>27. \A q \in Pages : q # p /\ q # table => n.memory[q] = f.memory[q]
  BY <1>14, <1>24, PagesInDram DEF OnlyPage, SetEntry
<1>28. /\ n.memory[table] = g.memory[table]
       /\ \A x \in SlotNumbers : g.memory[table][x] = IF x = slot THEN Zero ELSE f.memory[table][x]
  BY <1>1, <1>14, <1>18, <1>24 DEF OnlyPage, SetEntry
<1>29. Cleared(c, n, table, slot)
  BY <1>12, <1>28 DEF Cleared
<1>30. Thinned(new, n, tables)
  <2> SUFFICES ASSUME NEW t \in tables, new[t].use = "table", NEW x \in SlotNumbers
               PROVE  n.memory[t][x] = memory[t][x] \/ n.memory[t][x] = Zero
    BY DEF Thinned
  <2>1. t # p /\ t \in Pages /\ new2[t].use = "table"
    BY <1>25, <1>26
  <2>2. f.memory[t][x] = memory[t][x] \/ f.memory[t][x] = Zero
    BY <1>10, <2>1 DEF Thinned
  <2>3. CASE t = table
    BY <1>28, <2>2, <2>3
  <2>4. CASE t # table
    BY <1>27, <2>1, <2>2, <2>4
  <2> QED BY <2>3, <2>4
<1>31. SameAbove(own, c, new, n, level)
  <2> SUFFICES ASSUME NEW q \in Pages, own[q].use = "table", own[q].num > level
               PROVE  new[q] = own[q] /\ n.memory[q] = c.memory[q]
    BY DEF SameAbove
  <2>1. own[q].num \in Nat
    BY <1>1 DEF Ownership, Owners
  <2>2. own[q].num > level - 1 /\ q # p /\ q # table
    <3>1. own[p].num = level - 1
      BY <1>4 DEF TableAt
    <3> QED BY <1>1, <2>1, <3>1
  <2>3. new2[q] = own[q] /\ f.memory[q] = c.memory[q]
    BY <1>6, <1>10, <2>2 DEF SameAbove
  <2> QED BY <1>26, <1>27, <2>2, <2>3
<1>32. new[table] = own[table]
  BY <1>1, <1>12, <1>18, <1>26
<1> QED BY <1>23, <1>24, <1>29, <1>30, <1>31, <1>32 DEF ChildGone

\* One entry is freed, with the tables below it, without failing.
LEMMA FreeEntryKeeps ==
  ASSUME NEW tables \in SUBSET Pages, \A t \in tables : Clean(t, tables),
         NEW level \in Nat, NEW below, level # 0 => below \in Freers(tables, level - 1),
         NEW m \in Stores, m.table \in Dram,
         NEW slot \in SlotNumbers, NEW c \in EmptiedStores(tables, level, m, slot)
  PROVE  FreeEntry(level, below, m.table, slot, c) \in EmptiedStores(tables, level, m, slot + 1)
<1> DEFINE table == m.table
           pte == c.memory[table][slot]
           n == FreeEntry(level, below, table, slot, c)
<1>1. c \in Stores
  BY DEF EmptiedStores
<1>2. n \in Stores
  <2>1. level # 0 => below \in [Stores -> Stores]
    BY DEF Freers
  <2> QED BY <1>1, <2>1, FreeEntryTyped
<1>3. slot \in Int /\ \A x \in SlotNumbers : x < slot + 1 => x < slot \/ x = slot
  BY PageConstants DEF SlotNumbers
<1>4. ASSUME NEW own, Freeing(tables, level, own, m)
      PROVE  Emptied(tables, level, own, m, n, slot + 1)
  <2>1. Emptied(tables, level, own, m, c, slot)
    BY <1>4 DEF EmptiedStores
  <2>2. c.ok
    BY <2>1 DEF Emptied
  <2>3. PICK own1 : /\ Sound(own1, c, held, root) /\ Thinned(own1, c, tables)
                    /\ SameAbove(own, m, own1, c, level)
                    /\ own1[table] = own[table]
                    /\ \A x \in SlotNumbers : x < slot => ~Valid(c.memory[table][x])
    BY <2>1 DEF Emptied
  <2>4. /\ table \in tables /\ TableAt(own, table, level) /\ table \in Pages
        /\ own[table].use = "table" /\ own[table].num = level
    BY <1>4 DEF Freeing, TableAt, Used
  <2>5. CASE ~Valid(pte)
    <3>1. n = c
      BY <2>5 DEF FreeEntry
    <3>2. \A x \in SlotNumbers : x < slot + 1 => ~Valid(c.memory[table][x])
      BY <1>3, <2>3, <2>5
    <3> HIDE DEF n
    <3> QED BY <2>2, <2>3, <3>1, <3>2 DEF Emptied
  <2>6. CASE Valid(pte)
    <3>1. pte = memory[table][slot]
      BY <2>3, <2>4, <2>6, WordKinds DEF Thinned
    <3>2. TableAt(own1, table, level)
      BY <2>3, <2>4 DEF TableAt, Used
    <3>3. level # 0
      <4>1. slot \in 0 .. Slots - 1
        BY DEF SlotNumbers
      <4>2. ~Leaf(pte)
        BY <2>4, <2>6, <3>1, <4>1 DEF Clean, CleanUpTo
      <4>3. EntryOK(own1, c, table, slot)
        BY <2>3, <3>2 DEF Sound, TablesOK, TableAt, Used
      <4>4. own1[table].num > 0
        BY <2>6, <4>2, <4>3 DEF EntryOK, Points, PointerOK
      <4> QED BY <3>2, <4>4 DEF TableAt
    <3>4. PICK w : w = pte
      OBVIOUS
    <3>5. w = c.memory[table][slot] /\ Valid(w) /\ w = memory[table][slot]
      BY <2>6, <3>1, <3>4
    <3>6. PICK k : k = n
      OBVIOUS
    <3>7. k = FreeEntry(level, below, table, slot, c)
      BY <3>6
    <3>8. Sound(own1, c, held, root) /\ Thinned(own1, c, tables)
      BY <2>3
    <3> HIDE DEF n, pte, table
    <3>9. k.ok
      BY <1>1, <2>2, <2>4, <3>2, <3>3, <3>5, <3>7, <3>8, FreeChild
    <3>10. ChildGone(tables, level, own1, c, table, slot, k)
      BY <1>1, <2>2, <2>4, <3>2, <3>3, <3>5, <3>7, <3>8, FreeChild
    <3>11. PICK new : /\ Sound(new, k, held, root) /\ Thinned(new, k, tables)
                      /\ SameAbove(own1, c, new, k, level)
                      /\ new[table] = own1[table]
                      /\ Cleared(c, k, table, slot)
      BY <3>10 DEF ChildGone
    <3>12. \A x \in SlotNumbers : x < slot + 1 => ~Valid(k.memory[table][x])
      BY <1>3, <2>3, <3>11, WordKinds DEF Cleared
    <3>13. SameAbove(own, m, new, k, level)
      BY <2>3, <3>11 DEF SameAbove
    <3> QED BY <2>3, <3>6, <3>9, <3>11, <3>12, <3>13 DEF Emptied, table
  <2> QED BY <2>5, <2>6
<1> HIDE DEF n
<1>5. n \in EmptiedStores(tables, level, m, slot + 1)
  BY <1>2, <1>4 DEF EmptiedStores
<1> QED BY <1>5 DEF n

\* One level of freewalk_page_table.
LEMMA FreeTablesAtKeeps ==
  ASSUME NEW tables \in SUBSET Pages, \A t \in tables : Clean(t, tables),
         NEW level \in Nat, NEW below, level # 0 => below \in Freers(tables, level - 1)
  PROVE  FreeTablesAt(level, below) \in Freers(tables, level)
<1>1. ASSUME NEW m \in Stores
      PROVE  FreeTablesAt(level, below)[m] \in EmptiedStores(tables, level, m, Slots)
  <2> DEFINE r == FreeTablesAt(level, below)[m]
             Visit == [i \in Nat |-> [c \in Stores |-> FreeEntry(level, below, m.table, i, c)]]
             I == [i \in Nat |-> EmptiedStores(tables, level, m, i)]
  <2>1. CASE m.table \notin Dram
    <3>1. r = Fail(m)
      BY <2>1 DEF FreeTablesAt
    <3>2. r \in Stores
      BY <3>1, StoreTypes
    <3>3. \A own : ~Freeing(tables, level, own, m)
      BY <2>1, PagesInDram DEF Freeing
    <3> HIDE DEF r
    <3>4. r \in EmptiedStores(tables, level, m, Slots)
      BY <3>2, <3>3 DEF EmptiedStores
    <3> QED BY <3>4 DEF r
  <2>2. CASE m.table \in Dram
    <3>1. r = Repeat(Visit, m, Slots)
      BY <2>2, Zenon DEF FreeTablesAt, FreeEntry
    <3>2. m \in I[0]
      <4>1. ASSUME NEW own, Freeing(tables, level, own, m)
            PROVE  Emptied(tables, level, own, m, m, 0)
        <5>1. \A x \in SlotNumbers : ~(x < 0)
          BY PageConstants DEF SlotNumbers
        <5>2. SameAbove(own, m, own, m, level)
          BY DEF SameAbove
        <5> QED BY <4>1, <5>1, <5>2 DEF Freeing, Emptied
      <4>2. m \in EmptiedStores(tables, level, m, 0)
        BY <4>1 DEF EmptiedStores
      <4> QED BY <4>2
    <3>3. \A i \in 0 .. Slots - 1 : \A s \in I[i] : Visit[i][s] \in I[i + 1]
      <4> SUFFICES ASSUME NEW i \in 0 .. Slots - 1, NEW s \in I[i]
                   PROVE  Visit[i][s] \in I[i + 1]
        OBVIOUS
      <4>1. i \in Nat /\ i + 1 \in Nat /\ i \in SlotNumbers
        BY DEF SlotNumbers
      <4>2. s \in EmptiedStores(tables, level, m, i) /\ s \in Stores
        BY <4>1 DEF EmptiedStores
      <4>3. FreeEntry(level, below, m.table, i, s) \in EmptiedStores(tables, level, m, i + 1)
        BY <2>2, <4>1, <4>2, FreeEntryKeeps
      <4> QED BY <4>1, <4>2, <4>3
    <3>4. Slots \in Nat
      BY PageConstants
    <3> HIDE DEF Visit, I, r
    <3>5. r \in I[Slots]
      BY <3>1, <3>2, <3>3, <3>4, RepeatKeeps
    <3>6. r \in EmptiedStores(tables, level, m, Slots)
      BY <3>4, <3>5 DEF I
    <3> QED BY <3>6 DEF r
  <2> QED BY <2>1, <2>2
<1>2. FreeTablesAt(level, below) = [m \in Stores |-> FreeTablesAt(level, below)[m]]
  BY DEF FreeTablesAt
<1>3. PICK f : f = FreeTablesAt(level, below)
  OBVIOUS
<1>4. f = [m \in Stores |-> f[m]] /\ \A m \in Stores : f[m] \in Stores
  BY <1>1, <1>2, <1>3 DEF EmptiedStores
<1>5. f \in [Stores -> Stores]
  BY <1>4
<1> QED BY <1>1, <1>3, <1>5 DEF Freers

\* freewalk_page_table.
LEMMA FreewalkKeeps ==
  ASSUME NEW tables \in SUBSET Pages, \A t \in tables : Clean(t, tables), NEW m \in Stores
  PROVE  FreewalkPageTable(m) \in EmptiedStores(tables, RootLevel, m, Slots)
<1> DEFINE D == 0 .. RootLevel
           Equation(f) == f = [level \in D |-> FreeTablesAt(level, IF level = 0 THEN <<>> ELSE f[level - 1])]
           at == CHOOSE f : Equation(f)
           I == [i \in Nat |-> IF i = 0 THEN {<<>>} ELSE Freers(tables, i - 1)]
           X == UNION {I[i] : i \in Nat}
           C == [i \in D |-> [f \in X |-> FreeTablesAt(i, f)]]
<1>1. RootLevel \in Nat /\ RootLevel \in D /\ 0 \in D
  BY PageConstants
<1>2. ASSUME NEW l \in D, NEW f \in I[l] PROVE FreeTablesAt(l, f) \in I[l + 1]
  <2>1. l \in Nat /\ l + 1 \in Nat /\ l + 1 # 0 /\ l + 1 - 1 = l
    BY <1>1
  <2>2. l # 0 => f \in Freers(tables, l - 1)
    BY <2>1
  <2>3. FreeTablesAt(l, f) \in Freers(tables, l)
    BY <2>1, <2>2, FreeTablesAtKeeps
  <2> QED BY <2>1, <2>3
<1>3. \E f : Equation(f)
  <2>1. \A l \in D : \A f \in I[l] : C[l][f] \in I[l + 1] /\ C[l][f] = FreeTablesAt(l, f)
    <3> SUFFICES ASSUME NEW l \in D, NEW f \in I[l]
                 PROVE  C[l][f] \in I[l + 1] /\ C[l][f] = FreeTablesAt(l, f)
      OBVIOUS
    <3>1. f \in X
      <4>1. l \in Nat
        BY <1>1
      <4> QED BY <4>1
    <3>2. C[l][f] = FreeTablesAt(l, f)
      <4> HIDE DEF X
      <4> QED BY <3>1
    <3> HIDE DEF C, X, I
    <3> QED BY <1>2, <3>2
  <2>2. <<>> \in I[0] /\ \A l \in D : l # 0 => l - 1 \in D /\ l - 1 + 1 = l
    BY <1>1
  <2> HIDE DEF C, I, X
  <2>3. PICK b : b = <<>>
    OBVIOUS
  <2>4. b \in I[0] /\ \A l \in D : \A f \in I[l] : C[l][f] \in I[l + 1]
    BY <2>1, <2>2, <2>3
  <2>5. PICK f : /\ f = [l \in D |-> f[l]]
                 /\ \A l \in D : /\ f[l] \in I[l + 1]
                                 /\ f[l] = C[l][IF l = 0 THEN b ELSE f[l - 1]]
    <3>1. LevelSteps(RootLevel, C, I)
      BY <2>4 DEF LevelSteps
    <3>2. \E f : IsLevels(f, RootLevel, C, I, b)
      BY <1>1, <2>4, <3>1, LevelsExist
    <3> QED BY <3>2 DEF IsLevels
  <2>6. \A l \in D : f[l] = FreeTablesAt(l, IF l = 0 THEN <<>> ELSE f[l - 1])
    <3> SUFFICES ASSUME NEW l \in D
                 PROVE  f[l] = FreeTablesAt(l, IF l = 0 THEN <<>> ELSE f[l - 1])
      OBVIOUS
    <3>1. PICK g : g = IF l = 0 THEN <<>> ELSE f[l - 1]
      OBVIOUS
    <3>2. g \in I[l] /\ f[l] = C[l][g]
      BY <2>2, <2>3, <2>5, <3>1
    <3> QED BY <2>1, <3>1, <3>2
  <2> HIDE DEF D
  <2>7. Equation(f)
    BY <2>5, <2>6
  <2> QED BY <2>7
<1>4. Equation(at)
  <2> HIDE DEF Equation
  <2> QED BY <1>3
<1> HIDE DEF at
<1>5. \A l \in D : at[l] = FreeTablesAt(l, IF l = 0 THEN <<>> ELSE at[l - 1])
  <2> HIDE DEF D
  <2> QED BY <1>4
<1> DEFINE J == [i \in Nat |-> Freers(tables, i)]
<1>6. \A l \in 0 .. RootLevel : at[l] \in J[l]
  <2>1. at[0] \in J[0]
    <3>1. at[0] = FreeTablesAt(0, <<>>)
      BY <1>1, <1>5
    <3>2. FreeTablesAt(0, <<>>) \in Freers(tables, 0)
      BY <1>1, FreeTablesAtKeeps
    <3> QED BY <3>1, <3>2
  <2>2. ASSUME NEW l \in 0 .. RootLevel - 1, at[l] \in J[l] PROVE at[l + 1] \in J[l + 1]
    <3>1. l + 1 \in D /\ l + 1 # 0 /\ l + 1 - 1 = l /\ l + 1 \in Nat /\ l \in Nat
      BY <1>1
    <3>2. at[l + 1] = FreeTablesAt(l + 1, at[l])
      BY <1>5, <3>1
    <3>3. PICK k \in Nat : k = l + 1
      BY <3>1
    <3>4. at[l] \in Freers(tables, k - 1)
      BY <2>2, <3>1, <3>3
    <3>5. FreeTablesAt(k, at[l]) \in Freers(tables, k)
      BY <3>4, FreeTablesAtKeeps
    <3> QED BY <3>1, <3>2, <3>3, <3>5
  <2> HIDE DEF J
  <2> QED BY <1>1, <2>1, <2>2, LevelInduction
<1>7. at[RootLevel] \in Freers(tables, RootLevel)
  BY <1>1, <1>6
<1>8. FreewalkPageTable(m) = at[RootLevel][m]
  BY DEF FreewalkPageTable, at, D
<1> QED BY <1>7, <1>8 DEF Freers

\* freewalk frees what it found safe, or has changed nothing.
LEMMA FreewalkSound ==
  ASSUME PageInv, NEW space \in Alive, Freewalk(space)
  PROVE  PageInv' /\ Declined
<1> DEFINE top == root[space]
           m == [Store EXCEPT !.table = top]
           emptied == FreewalkPageTable(m)
           done == IF emptied.ok THEN KfreePage(emptied, top) ELSE emptied
<1>1. PICK own : Sound(own, Store, held, root)
  BY DEF PageInv
<1>2. /\ TableAt(own, top, RootLevel) /\ space \in Spaces /\ top # NoPage /\ top \in Pages
      /\ root \in [Spaces -> AllPages] /\ Store \in Stores
  BY <1>1, RootIsTable DEF PageInv
<1>3. CASE ~FreewalkIsSafe(top)
  <2>1. memory' = memory /\ freelist' = freelist /\ root' = root /\ held' = held
    BY <1>3, StoreIs DEF Freewalk, Return
  <2> QED BY <2>1, NothingDone DEF Declined
<1>4. CASE FreewalkIsSafe(top)
  <2>1. memory \in Memories
    BY <1>2, StoreIs DEF Stores
  <2>2. PICK tables \in SUBSET Pages : top \in tables /\ \A t \in tables : Clean(t, tables)
    BY <1>2, <1>4, <2>1, SafeTree
  <2>3. m \in Stores /\ m.ok /\ m.table = top /\ m.memory = memory /\ m.free = freelist
    BY <1>2, StoreIs, PagesInDram DEF Stores
  <2>4. /\ Return(done, "freewalk", <<space>>, IF done.ok THEN "completed" ELSE "declined")
        /\ root' = IF done.ok THEN [root EXCEPT ![space] = NoPage] ELSE root
        /\ held' = held
    BY <1>4 DEF Freewalk
  <2> HIDE DEF done
  <2>5. /\ memory' = done.memory /\ freelist' = done.free
        /\ call'.outcome = IF done.ok THEN "completed" ELSE "declined"
    BY <2>4 DEF Return
  <2>6. Freeing(tables, RootLevel, own, m)
    <3> HIDE DEF m
    <3>1. Sound(own, m, held, root)
      BY <1>1, <2>3, StoreIs, SoundSame
    <3>2. Thinned(own, m, tables)
      BY <2>3 DEF Thinned
    <3> QED BY <1>2, <2>2, <2>3, <3>1, <3>2 DEF Freeing
  <2> HIDE DEF m, top
  <2>7. emptied \in EmptiedStores(tables, RootLevel, m, Slots)
    BY <2>2, <2>3, FreewalkKeeps
  <2> HIDE DEF emptied
  <2>8. emptied \in Stores /\ Emptied(tables, RootLevel, own, m, emptied, Slots)
    BY <2>6, <2>7 DEF EmptiedStores
  <2>9. emptied.ok
    BY <2>8 DEF Emptied
  <2>10. PICK new : /\ Sound(new, emptied, held, root)
                    /\ new[top] = own[top]
                    /\ \A x \in SlotNumbers : x < Slots => ~Valid(emptied.memory[top][x])
    BY <2>3, <2>8 DEF Emptied
  <2>11. \A x \in SlotNumbers : ~Valid(emptied.memory[top][x])
    <3>1. \A x \in SlotNumbers : x < Slots
      BY PageConstants DEF SlotNumbers
    <3> QED BY <2>10, <3>1
  <2>12. PICK after : after = [root EXCEPT ![space] = NoPage]
    OBVIOUS
  <2>13. PICK own1 : own1 = [new EXCEPT ![top] = Loose]
    OBVIOUS
  <2>14. PICK more : more = held \cup {top}
    OBVIOUS
  <2>15. Sound(own1, emptied, more, after)
    <3>1. top = root[space]
      BY DEF top
    <3> QED BY <1>2, <2>8, <2>10, <2>11, <2>12, <2>13, <2>14, <3>1, DropRoot
  <2>16. top \in more /\ held = more \ {top}
    <3>1. top \notin held
      BY <1>2, <2>10 DEF Sound, TableAt, Used
    <3> QED BY <2>14, <3>1
  <2>17. done = KfreePage(emptied, top)
    BY <2>9 DEF done
  <2>18. SoundBut(own1, top, done, held, after)
    BY <2>8, <2>15, <2>16, <2>17, KfreeLinks
  <2>19. PICK own2 : Sound(own2, done, held, after)
    BY <2>18 DEF SoundBut
  <2>20. done \in Stores /\ done.ok
    BY <1>2, <2>8, <2>17, KfreeIs
  <2>21. root' = after /\ held' = held /\ root' \in [Spaces -> AllPages]
    BY <1>2, <2>4, <2>12, <2>20, PagesInDram
  <2>22. Sound(own2, done, held', root')
    BY <2>19, <2>21
  <2>23. PageInv'
    BY <2>5, <2>20, <2>21, <2>22, ReturnedSound
  <2> QED BY <2>5, <2>20, <2>23 DEF Declined
<1> QED BY <1>3, <1>4

-----------------------------------------------------------------------------
(* The guest's own steps.                                                  *)

\* What the guest's own code leaves is never a declined call.
LEMMA GuestLeaves ==
  ASSUME NEW m \in Stores, NEW own, Sound(own, m, held', root'), GuestReturn(m),
         root' \in [Spaces -> AllPages]
  PROVE  PageInv' /\ Declined
<1>1. memory' = m.memory /\ freelist' = m.free /\ call'.outcome = "completed"
  BY DEF GuestReturn, Return
<1>2. PageInv'
  BY <1>1, ReturnedSound
<1> QED BY <1>1, <1>2 DEF Declined

\* A space without superpages can be added to.
LEMMA StoreBased ==
  ASSUME PageInv, NEW space \in Alive, NoSuperpage(space)
  PROVE  Store \in Based(root[space], held, root)
<1>1. PICK own : Sound(own, Store, held, root)
  BY DEF PageInv
<1>2. TableAt(own, root[space], RootLevel)
  BY <1>1, RootIsTable
<1>3. NoLeaf(Store, root[space])
  BY StoreIs DEF NoSuperpage, NoLeaf, Maps
<1> QED BY <1>1, <1>2, <1>3 DEF PageInv, Based

\* uvmcreate makes a loose page a root.
LEMMA CreateSound ==
  ASSUME PageInv, NEW space \in Spaces, Create(space)
  PROVE  PageInv' /\ Declined
<1> DEFINE fresh == KallocPage(Store)
           n == [fresh EXCEPT !.memory[freelist] = Filled(Zero)]
<1>1. PICK own : Sound(own, Store, held, root)
  BY DEF PageInv
<1>2. /\ root[space] = NoPage /\ fresh.ok /\ GuestReturn(n)
      /\ root' = [root EXCEPT ![space] = freelist] /\ held' = held
  BY DEF Create
<1>3. freelist # NoPage
  BY <1>2, StoreIs DEF KallocPage, Fail
<1>4. PICK p : p = freelist
  OBVIOUS
<1>5. PICK more : more = held \cup {p}
  OBVIOUS
<1>6. PICK own1 : own1 = [own EXCEPT ![p] = Loose]
  OBVIOUS
<1>7. /\ fresh \in Stores /\ p \in Pages /\ p \notin held
      /\ Sound(own1, fresh, more, root)
  <2>1. Store \in Stores /\ Store.free # NoPage /\ Store.free = p
    BY <1>3, <1>4, StoreIs DEF PageInv
  <2> QED BY <1>1, <1>5, <1>6, <2>1, Kalloc
<1> HIDE DEF fresh
<1>8. SetPage(fresh, n, p, Filled(Zero))
  <2>1. Filled(Zero) \in [SlotNumbers -> Words] /\ p \in Dram
    BY <1>7, WordTypes, PagesInDram
  <2> QED BY <1>4, <1>7, <2>1, Writing
<1> HIDE DEF n
<1>9. n \in Stores /\ \A x \in SlotNumbers : ~Valid(n.memory[p][x])
  <2>1. \A x \in SlotNumbers : Filled(Zero)[x] = Zero
    BY DEF Filled
  <2> QED BY <1>8, <2>1, WordKinds DEF SetPage
<1>10. Sound(own1, n, more, root)
  <2>1. p \in more \cup {KernelPage}
    BY <1>5
  <2> QED BY <1>7, <1>8, <2>1, WriteLoose
<1>11. PICK after : after = [root EXCEPT ![space] = p]
  OBVIOUS
<1>12. PICK own2 : own2 = [own1 EXCEPT ![p] = Owner("table", RootLevel, NoPage, 0)]
  OBVIOUS
<1>13. Sound(own2, n, held, after)
  <2>1. p \in more /\ held = more \ {p}
    BY <1>5, <1>7
  <2>2. root \in [Spaces -> AllPages]
    BY DEF PageInv
  <2> QED BY <1>2, <1>9, <1>10, <1>11, <1>12, <2>1, <2>2, AddRoot
<1>14. root' = after /\ root' \in [Spaces -> AllPages] /\ held' = held
  <2>1. p \in AllPages
    BY <1>7, PagesInDram
  <2> QED BY <1>2, <1>4, <1>11, <2>1 DEF PageInv
<1>15. Sound(own2, n, held', root')
  BY <1>13, <1>14
<1> QED BY <1>2, <1>9, <1>14, <1>15, GuestLeaves

\* A step that ends as such a space leaves sound pages.
LEMMA BasedLeaves ==
  ASSUME PageInv, NEW top, NEW m, m \in Based(top, held, root), GuestReturn(m),
         root' = root, held' = held
  PROVE  PageInv' /\ Declined
<1>1. PICK own : Sound(own, m, held, root)
  BY DEF Based
<1>2. m \in Stores
  BY DEF Based
<1>3. Sound(own, m, held', root')
  BY <1>1
<1>4. root' \in [Spaces -> AllPages]
  BY DEF PageInv
<1> QED BY <1>2, <1>3, <1>4, GuestLeaves

\* A user page is mapped.
LEMMA MapUserSound ==
  ASSUME PageInv, NEW space \in Alive, NEW va \in 0 .. MaxVa - 1, MapUser(space, va)
  PROVE  PageInv' /\ Declined
<1> DEFINE fresh == KallocPage(Store)
           filled == [fresh EXCEPT !.memory[freelist] = Filled(Data(va))]
           mapped == Mappage(filled, root[space], va, freelist, UserFlags)
<1>1. /\ NoSuperpage(space) /\ fresh.ok /\ mapped.ok /\ GuestReturn(mapped)
      /\ root' = root /\ held' = held
  BY DEF MapUser
<1>2. PICK p : p = freelist
  OBVIOUS
<1>3. Store.free = p /\ p # NoPage
  BY <1>1, <1>2, StoreIs DEF KallocPage, Fail
<1>4. PICK top : top = root[space]
  OBVIOUS
<1>5. Store \in Based(top, held, root)
  BY <1>1, <1>4, StoreBased
<1>6. PICK more : more = held \cup {p}
  OBVIOUS
<1>7. fresh \in Based(top, more, root) /\ p \in Pages /\ p \notin held
  BY <1>3, <1>5, <1>6, KallocBased
<1>8. fresh \in Stores
  BY <1>7 DEF Based
<1> HIDE DEF fresh
<1>9. va \in Int /\ va \in 0 .. MaxVa
  BY PageConstants
<1>10. SetPage(fresh, filled, p, Filled(Data(va)))
  <2>1. Filled(Data(va)) \in [SlotNumbers -> Words] /\ p \in Dram
    BY <1>7, <1>9, WordTypes, PagesInDram
  <2> QED BY <1>2, <1>8, <2>1, Writing
<1> HIDE DEF filled
<1>11. filled \in Based(top, more, root)
  <2>1. p \in more \cup {KernelPage}
    BY <1>6
  <2> QED BY <1>7, <1>10, <2>1, PageBased
<1>12. mapped = Mappage(filled, top, va, p, UserFlags)
  BY <1>2, <1>4
<1> HIDE DEF mapped
<1>13. mapped \in Based(top, held, root)
  <2>1. p \in more \cup {KernelPage, DevicePage} /\ UserFlags \in {{}, UserFlags} /\ UserFlags # {}
    BY <1>6, PageConstants
  <2>2. mapped \in Based(top, IF mapped.ok THEN more \ {p} ELSE more, root)
    BY <1>9, <1>11, <1>12, <2>1, MappageBased
  <2>3. held = more \ {p}
    BY <1>6, <1>7
  <2> QED BY <1>1, <2>2, <2>3
<1> QED BY <1>1, <1>13, BasedLeaves

\* A page that the allocator does not own is mapped.
LEMMA MapForeignSound ==
  ASSUME PageInv, NEW space \in Alive, NEW va \in Nat, NEW page \in {KernelPage, DevicePage},
         MapForeign(space, va, page)
  PROVE  PageInv' /\ Declined
<1> DEFINE mapped == Mappage(Store, root[space], va, page, UserFlags)
<1>1. /\ NoSuperpage(space) /\ mapped.ok /\ GuestReturn(mapped)
      /\ root' = root /\ held' = held
  BY DEF MapForeign
<1>2. PICK top : top = root[space]
  OBVIOUS
<1>3. Store \in Based(top, held, root)
  BY <1>1, <1>2, StoreBased
<1>4. PICK s : s = Store
  OBVIOUS
<1>5. s \in Based(top, held, root) /\ mapped = Mappage(s, top, va, page, UserFlags)
  BY <1>2, <1>3, <1>4
<1> HIDE DEF mapped
<1>6. mapped \in Based(top, held, root)
  <2>1. /\ page \in held \cup {KernelPage, DevicePage} /\ va \in Int
        /\ UserFlags \in {{}, UserFlags} /\ UserFlags # {}
    BY PageConstants
  <2>2. mapped \in Based(top, IF mapped.ok THEN held \ {page} ELSE held, root)
    BY <1>5, <2>1, MappageBased
  <2>3. held \ {page} = held
    <3>1. PICK own : Sound(own, Store, held, root)
      BY DEF PageInv
    <3> QED BY <3>1, PageConstants DEF Sound
  <2> QED BY <1>1, <2>2, <2>3
<1> QED BY <1>1, <1>6, BasedLeaves

\* A superpage, or a second way to a table.
LEMMA WriteRootEntrySound ==
  ASSUME PageInv, NEW space \in Alive, NEW slot \in SlotNumbers,
         NEW pte \in OddEntries(space), WriteRootEntry(space, slot, pte)
  PROVE  PageInv' /\ Declined
<1> DEFINE n == [Store EXCEPT !.memory[root[space]][slot] = pte]
<1>1. /\ ~Valid(memory[root[space]][slot]) /\ GuestReturn(n) /\ root' = root /\ held' = held
  BY DEF WriteRootEntry
<1>2. PICK own : Sound(own, Store, held, root)
  BY DEF PageInv
<1>3. PICK top : top = root[space]
  OBVIOUS
<1>4. top \in Pages /\ own[top].use = "table" /\ own[top].num = RootLevel /\ top \in Dram
  BY <1>2, <1>3, RootIsTable, PagesInDram DEF TableAt, Used
<1>5. PICK s : s = Store
  OBVIOUS
<1>6. s \in Stores /\ s.memory = memory /\ Sound(own, s, held, root)
  BY <1>2, <1>5, StoreIs DEF PageInv
<1>7. /\ pte \in Words
      /\ Points(pte) => PointerOK(own, top, pte)
      /\ Maps(pte) => pte.page \notin Pages /\ LeafOK(own, top, slot, pte)
  <2>1. CASE pte = Pte(KernelPage, UserFlags)
    <3>1. pte \in Words /\ ~Points(pte) /\ pte.page = KernelPage /\ pte.kind = "pte"
      <4>1. KernelPage \in AllPages /\ UserFlags \in {{}, UserFlags} /\ UserFlags # {}
        BY PagesInDram, PageConstants
      <4> QED BY <2>1, <4>1, WordTypes, WordKinds
    <3> QED BY <1>4, <3>1, PageConstants DEF LeafOK
  <2>2. CASE pte # Pte(KernelPage, UserFlags)
    <3>1. PICK x \in SlotNumbers : pte = s.memory[top][x]
      BY <1>3, <1>6, <2>2 DEF OddEntries
    <3>2. EntryOK(own, s, top, x)
      BY <1>4, <1>6 DEF Sound, TablesOK
    <3>3. own[top].num # 0
      BY <1>4, PageConstants
    <3>4. pte \in Words
      BY <1>4, <1>6, <3>1, StoreTypes
    <3> QED BY <3>1, <3>2, <3>3, <3>4, PageConstants DEF EntryOK, LeafOK
  <2> QED BY <2>1, <2>2
<1>8. SetEntry(s, n, top, slot, pte)
  BY <1>3, <1>4, <1>5, <1>6, <1>7, Writing
<1> HIDE DEF n
<1>9. Sound(own, n, held, root)
  BY <1>1, <1>3, <1>4, <1>6, <1>7, <1>8, MapOther
<1>10. n \in Stores /\ Sound(own, n, held', root') /\ root' \in [Spaces -> AllPages]
  BY <1>1, <1>8, <1>9 DEF SetEntry, PageInv
<1> QED BY <1>1, <1>10, GuestLeaves

\* The guest gives back a page that it kept.
LEMMA KfreeSound ==
  ASSUME PageInv, NEW page \in Pages, Kfree(page)
  PROVE  PageInv' /\ Declined
<1>1. PICK n : n = KfreePage(Store, page)
  OBVIOUS
<1>2. /\ page \in held /\ held' = held \ {page} /\ GuestReturn(n) /\ root' = root
  BY <1>1 DEF Kfree
<1>3. PICK own : Sound(own, Store, held, root)
  BY DEF PageInv
<1>4. PICK loose : loose = held \ {page}
  OBVIOUS
<1>5. SoundBut(own, page, n, loose, root)
  BY <1>1, <1>2, <1>3, <1>4, KfreeLinks DEF PageInv
<1>6. PICK new : Sound(new, n, loose, root)
  BY <1>5 DEF SoundBut
<1>7. n \in Stores
  BY <1>1, KfreeIs DEF PageInv
<1>8. Sound(new, n, held', root') /\ root' \in [Spaces -> AllPages]
  BY <1>2, <1>4, <1>6 DEF PageInv
<1> QED BY <1>2, <1>7, <1>8, GuestLeaves

-----------------------------------------------------------------------------
(* The steps together.                                                     *)

\* At first every page is free, at the height of its place in the list.
LEMMA InitSound == Init => PageInv
<1> SUFFICES ASSUME Init PROVE PageInv
  OBVIOUS
<1> DEFINE order == SetToSeq(Pages)
<1>1. PICK count \in Nat \ {0} : count = Cardinality(Pages)
  <2>1. Cardinality(Pages) \in Nat /\ Cardinality(Pages) # 0
    BY PageConstants, FS_CardinalityType, FS_EmptySet
  <2> QED BY <2>1
<1>2. order \in [1 .. count -> Pages] /\ IsInjective(order) /\ \A p \in Pages : \E i \in 1 .. count : order[i] = p
  <2>1. ExistsBijection(1 .. count, Pages)
    BY <1>1, PageConstants, FS_CardinalityType
  <2>2. PICK g : g \in Injection(1 .. count, Pages)
    BY <2>1 DEF ExistsBijection, Bijection
  <2>3. \E f \in [1 .. Cardinality(Pages) -> Pages] : IsInjective(f)
    BY <1>1, <2>2 DEF Injection
  <2>4. order \in [1 .. Cardinality(Pages) -> Pages] /\ IsInjective(order)
    BY <2>3 DEF SetToSeq
  <2>5. order \in Injection(1 .. count, Pages)
    BY <1>1, <2>4 DEF Injection
  <2> HIDE DEF order
  <2>6. IsFiniteSet(1 .. count) /\ Cardinality(1 .. count) = count
    BY FS_Interval
  <2>7. order \in Surjection(1 .. count, Pages)
    BY <1>1, <2>5, <2>6, PageConstants, FS_Injection
  <2> QED BY <2>5, <2>7 DEF Injection, Surjection
<1>3. PICK s : s = order
  OBVIOUS
<1>4. /\ freelist = s[1] /\ root = [space \in Spaces |-> NoPage] /\ held = {}
      /\ memory = [p \in Dram |->
                     IF p = KernelPage THEN Filled(Data(MaxVa))
                     ELSE LET i == CHOOSE n \in DOMAIN s : s[n] = p
                          IN  [Filled(Freed) EXCEPT ![0] =
                                 IF i = Len(s) THEN Zero ELSE Address(s[i + 1])]]
  BY <1>3 DEF Init
<1> HIDE DEF order
<1>5. /\ s \in [1 .. count -> Pages] /\ DOMAIN s = 1 .. count /\ Len(s) = count
      /\ \A i, j \in 1 .. count : s[i] = s[j] => i = j
      /\ \A p \in Pages : \E i \in 1 .. count : s[i] = p
  <2>1. s \in Seq(Pages) /\ DOMAIN s = 1 .. count
    BY <1>2, <1>3
  <2>2. Len(s) = count
    BY <2>1
  <2> QED BY <1>2, <1>3, <2>1, <2>2 DEF IsInjective
<1> DEFINE at == [p \in Pages |-> CHOOSE n \in 1 .. count : s[n] = p]
<1>6. \A p \in Pages : at[p] \in 1 .. count /\ s[at[p]] = p
  <2> SUFFICES ASSUME NEW p \in Pages PROVE at[p] \in 1 .. count /\ s[at[p]] = p
    OBVIOUS
  <2>1. \E n \in 1 .. count : s[n] = p
    BY <1>5
  <2> QED BY <2>1
<1>7. \A p \in Pages : memory[p] = [Filled(Freed) EXCEPT ![0] =
        IF at[p] = count THEN Zero ELSE Address(s[at[p] + 1])]
  BY <1>4, <1>5, PageConstants, PagesInDram
<1> HIDE DEF at
<1>8. \A p \in Pages : /\ memory[p] \in [SlotNumbers -> Words]
                       /\ memory[p][0].page = IF at[p] = count THEN NoPage ELSE s[at[p] + 1]
  <2> SUFFICES ASSUME NEW p \in Pages
               PROVE  /\ memory[p] \in [SlotNumbers -> Words]
                      /\ memory[p][0].page = IF at[p] = count THEN NoPage ELSE s[at[p] + 1]
    OBVIOUS
  <2>1. CASE at[p] = count
    <3>1. memory[p] = [Filled(Freed) EXCEPT ![0] = Zero]
      BY <1>7, <2>1
    <3>2. Zero.page = NoPage
      BY DEF Zero, Word
    <3> QED BY <2>1, <3>1, <3>2, WordTypes
  <2>2. CASE at[p] # count
    <3>1. memory[p] = [Filled(Freed) EXCEPT ![0] = Address(s[at[p] + 1])]
      BY <1>7, <2>2
    <3>2. s[at[p] + 1] \in Pages /\ s[at[p] + 1] \in AllPages
      BY <1>5, <1>6, <2>2, PagesInDram
    <3>3. Address(s[at[p] + 1]) \in Words /\ Address(s[at[p] + 1]).page = s[at[p] + 1]
      BY <3>2, WordTypes
    <3> QED BY <2>2, <3>1, <3>3, WordTypes
  <2> QED BY <2>1, <2>2
<1>9. memory \in Memories
  <2>1. MaxVa \in 0 .. MaxVa
    BY PageConstants
  <2>2. Filled(Data(MaxVa)) \in [SlotNumbers -> Words]
    BY <2>1, WordTypes
  <2>3. \A p \in Dram : memory[p] \in [SlotNumbers -> Words]
    BY <1>4, <1>8, <2>2, PagesInDram
  <2>4. memory = [p \in Dram |-> memory[p]]
    BY <1>4
  <2> QED BY <2>3, <2>4 DEF Memories
<1>10. Store \in Stores /\ root \in [Spaces -> AllPages] /\ freelist \in Pages
  BY <1>4, <1>5, <1>9, PagesInDram DEF Store, Stores
<1>11. PICK own : own = [p \in Pages |-> Owner("free", count - at[p] + 1, NoPage, 0)]
  OBVIOUS
<1>12. \A p \in Pages : own[p].use = "free" /\ own[p].num = count - at[p] + 1
  BY <1>11, OwnerTypes
<1>13. own \in Ownership
  <2>1. \A p \in Pages : count - at[p] + 1 \in Nat
    BY <1>6
  <2>2. \A p \in Pages : Owner("free", count - at[p] + 1, NoPage, 0) \in Owners
    BY <2>1, OwnerTypes
  <2> QED BY <1>11, <2>2 DEF Ownership
<1>14. FreeOK(own, Store)
  <2>1. Store.free # NoPage /\ Store.free \in Pages /\ Used(own, Store.free, "free")
    BY <1>10, <1>12, StoreIs, PageConstants DEF Used
  <2>2. at[freelist] = 1 /\ own[Store.free].num = count
    BY <1>4, <1>5, <1>6, <1>10, <1>12, StoreIs
  <2>3. ASSUME NEW p \in Pages
        PROVE  NextFree(own, p, memory[p][0].page)
    <3>1. CASE at[p] = count
      BY <1>6, <1>8, <1>12, <3>1 DEF NextFree
    <3>2. CASE at[p] # count
      <4>1. at[p] + 1 \in 1 .. count /\ at[p] \in Int
        BY <1>6, <3>2
      <4>2. PICK q \in Pages : q = s[at[p] + 1] /\ memory[p][0].page = q
        BY <1>5, <1>8, <3>2, <4>1
      <4>3. at[q] = at[p] + 1
        BY <1>5, <1>6, <4>1, <4>2
      <4> QED BY <1>12, <3>2, <4>1, <4>2, <4>3 DEF NextFree, Used
    <3> QED BY <3>1, <3>2
  <2>4. ASSUME NEW p \in Pages
        PROVE  /\ own[p].num >= 1 /\ own[p].num <= count
               /\ \A q \in Pages : own[q].num = own[p].num => q = p
    BY <1>6, <1>12
  <2> QED BY <2>1, <2>2, <2>3, <2>4, StoreIs DEF FreeOK
<1>15. Sound(own, Store, held, root)
  <2>1. TablesOK(own, Store) /\ ReachedOK(own, Store)
    BY <1>12 DEF TablesOK, ReachedOK
  <2>2. RootsOK(own, root)
    BY <1>4, <1>12 DEF RootsOK, TableAt, Used
  <2>3. held = {p \in Pages : own[p].use = "loose"}
    BY <1>4, <1>12
  <2> QED BY <1>13, <1>14, <2>1, <2>2, <2>3 DEF Sound
<1> QED BY <1>10, <1>15 DEF PageInv

\* Each step leaves sound pages, and does not decline after a change.
LEMMA NextSound ==
  ASSUME PageInv, Next
  PROVE  PageInv' /\ Declined
<1>1. ASSUME NEW space \in Alive, NEW va \in 0 .. MaxVa - 1, NEW doFree \in BOOLEAN,
             NEW count \in 1 .. MaxVa - va + 1, Uvmunmap(space, va, count, doFree)
      PROVE  PageInv' /\ Declined
  <2>1. va \in Int /\ count \in Int
    OBVIOUS
  <2> QED BY <1>1, <2>1, UvmunmapSound
<1>2. ASSUME NEW space \in Alive, Freewalk(space)
      PROVE  PageInv' /\ Declined
  BY <1>2, FreewalkSound
<1>3. ASSUME NEW old \in Alive, NEW new \in Alive, NEW size \in 0 .. MaxVa,
             NoSuperpage(new), Uvmcopy(old, new, size)
      PROVE  PageInv' /\ Declined
  <2>1. size \in Int
    OBVIOUS
  <2> QED BY <1>3, <2>1, UvmcopySound
<1>4. ASSUME NEW space \in Spaces, Create(space)
      PROVE  PageInv' /\ Declined
  BY <1>4, CreateSound
<1>5. ASSUME NEW space \in Alive, NEW va \in 0 .. MaxVa - 1, MapUser(space, va)
      PROVE  PageInv' /\ Declined
  BY <1>5, MapUserSound
<1>6. ASSUME NEW space \in Alive \cap OddSpaces, NEW va \in ForeignVas,
             NEW page \in {KernelPage, DevicePage}, MapForeign(space, va, page)
      PROVE  PageInv' /\ Declined
  <2>1. va \in Nat /\ space \in Alive
    BY PagesAssumption
  <2> QED BY <1>6, <2>1, MapForeignSound
<1>7. ASSUME NEW space \in Alive \cap OddSpaces, NEW slot \in SlotNumbers,
             NEW pte \in OddEntries(space), WriteRootEntry(space, slot, pte)
      PROVE  PageInv' /\ Declined
  <2>1. space \in Alive
    OBVIOUS
  <2> QED BY <1>7, <2>1, WriteRootEntrySound
<1>8. ASSUME NEW page \in Pages, Kfree(page)
      PROVE  PageInv' /\ Declined
  BY <1>8, KfreeSound
<1>9. \/ \E space \in Alive, va \in 0 .. MaxVa - 1, doFree \in BOOLEAN :
           \E count \in 1 .. MaxVa - va + 1 : Uvmunmap(space, va, count, doFree)
      \/ \E space \in Alive : Freewalk(space)
      \/ \E old, new \in Alive, size \in 0 .. MaxVa :
           NoSuperpage(new) /\ Uvmcopy(old, new, size)
      \/ \E space \in Spaces : Create(space)
      \/ \E space \in Alive, va \in 0 .. MaxVa - 1 : MapUser(space, va)
      \/ \E space \in Alive \cap OddSpaces, va \in ForeignVas, page \in {KernelPage, DevicePage} :
           MapForeign(space, va, page)
      \/ \E space \in Alive \cap OddSpaces, slot \in SlotNumbers :
           \E pte \in OddEntries(space) : WriteRootEntry(space, slot, pte)
      \/ \E page \in Pages : Kfree(page)
  BY DEF Next
<1> QED BY <1>1, <1>2, <1>3, <1>4, <1>5, <1>6, <1>7, <1>8, <1>9

\* Whatever the fast paths and the guest do, and wherever memory runs out, the
\* pages of the allocator have owners that agree with the free list, the tables,
\* the entries and what the guest keeps.
THEOREM PageInvariant == Spec => []PageInv
<1>1. PageInv /\ [Next]_vars => PageInv'
  <2>1. ASSUME PageInv, Next PROVE PageInv'
    BY <2>1, NextSound
  <2>2. ASSUME PageInv, UNCHANGED vars PROVE PageInv'
    BY <2>2, NothingDone DEF vars
  <2> QED BY <2>1, <2>2
<1> QED BY <1>1, InitSound, PTL DEF Spec

\* The fast paths for page tables keep their promise to the guest's code that
\* runs in their place: uvmunmap, freewalk and uvmcopy decline before they
\* change anything. Of a mapping that was collected, and of a table that was
\* found safe, everything can be freed.
THEOREM DecliningIsClean == Spec => DeclinedChangesNothing
<1>1. PageInv /\ [Next]_vars => [Declined]_vars
  BY NextSound
<1> QED BY <1>1, PageInvariant, PTL DEF DeclinedChangesNothing, Spec, Declined

-----------------------------------------------------------------------------
(* Every page has one owner.                                               *)

\* The free list visits the free pages from the highest down, and ends.
Highest(own) == IF freelist = NoPage THEN 0 ELSE own[freelist].num
ChainAt(own, n) ==
  {p \in AllPages : IF n < Highest(own)
                    THEN Used(own, p, "free") /\ own[p].num = Highest(own) - n
                    ELSE p = NoPage}

\* Following the list goes down one height at a time.
LEMMA ChainHeights ==
  ASSUME PageInv, NEW own, Sound(own, Store, held, root), NEW n \in Nat
  PROVE  Highest(own) \in Nat /\ FreeChain(n) \in ChainAt(own, n)
<1> DEFINE Follow == [i \in Nat |-> [page \in AllPages |->
                        IF page \in Dram THEN memory[page][0].page ELSE page]]
           I == [i \in Nat |-> ChainAt(own, i)]
<1>1. /\ own \in Ownership /\ FreeOK(own, Store) /\ memory \in Memories /\ freelist \in AllPages
      /\ Store.free = freelist /\ Store.memory = memory
  BY StoreIs DEF PageInv, Sound, Stores
<1>2. Highest(own) \in Nat
  BY <1>1 DEF Highest, FreeOK, Used, Ownership, Owners
<1>3. freelist \in I[0]
  <2>1. CASE freelist = NoPage
    BY <1>1, <2>1 DEF ChainAt, Highest
  <2>2. CASE freelist # NoPage
    <3>1. Used(own, freelist, "free") /\ own[freelist].num >= 1
      BY <1>1, <2>2 DEF FreeOK, Used
    <3> QED BY <1>1, <1>2, <2>2, <3>1 DEF ChainAt, Highest
  <2> QED BY <2>1, <2>2
<1>4. \A i \in 0 .. n - 1 : \A s \in I[i] : Follow[i][s] \in I[i + 1]
  <2> SUFFICES ASSUME NEW i \in 0 .. n - 1, NEW s \in I[i] PROVE Follow[i][s] \in I[i + 1]
    OBVIOUS
  <2>1. i \in Nat /\ i + 1 \in Nat /\ s \in ChainAt(own, i) /\ s \in AllPages
    BY DEF ChainAt
  <2>2. Follow[i][s] = IF s \in Dram THEN memory[s][0].page ELSE s
    BY <2>1
  <2>3. I[i + 1] = ChainAt(own, i + 1)
    BY <2>1
  <2> HIDE DEF Follow, I
  <2>4. CASE ~(i < Highest(own))
    <3>1. s = NoPage /\ s \notin Dram /\ ~(i + 1 < Highest(own))
      BY <1>2, <2>1, <2>4, PagesInDram DEF ChainAt
    <3> QED BY <2>1, <2>2, <2>3, <3>1 DEF ChainAt
  <2>5. CASE i < Highest(own)
    <3>1. s \in Pages /\ own[s].use = "free" /\ own[s].num = Highest(own) - i
      BY <2>1, <2>5 DEF ChainAt, Used
    <3>2. s \in Dram /\ 0 \in SlotNumbers
      BY <3>1, PagesInDram, WordTypes
    <3>3. PICK next : next = memory[s][0].page
      OBVIOUS
    <3>4. next \in AllPages
      BY <1>1, <3>2, <3>3 DEF Memories, Words
    <3>5. NextFree(own, s, next)
      BY <1>1, <3>1, <3>3 DEF FreeOK
    <3>6. next \in ChainAt(own, i + 1)
      <4>1. CASE own[s].num = 1
        BY <1>2, <2>1, <3>1, <3>4, <3>5, <4>1 DEF NextFree, ChainAt
      <4>2. CASE own[s].num # 1
        BY <1>2, <2>1, <2>5, <3>1, <3>4, <3>5, <4>2 DEF NextFree, ChainAt
      <4> QED BY <4>1, <4>2
    <3> QED BY <2>2, <2>3, <3>2, <3>3, <3>6
  <2> QED BY <2>4, <2>5
<1>5. FreeChain(n) = Repeat(Follow, freelist, n)
  BY DEF FreeChain
<1>6. ChainAt(own, n) = I[n]
  OBVIOUS
<1> HIDE DEF Follow, I
<1>7. Repeat(Follow, freelist, n) \in I[n]
  BY <1>3, <1>4, RepeatKeeps
<1> QED BY <1>2, <1>5, <1>6, <1>7

\* The list ends within the number of pages, and holds every free page.
LEMMA FreeListIs ==
  ASSUME PageInv, NEW own, Sound(own, Store, held, root)
  PROVE  /\ FreeChain(Cardinality(Pages)) = NoPage
         /\ {FreeChain(n) : n \in 0 .. Cardinality(Pages)} \ {NoPage}
              = {p \in Pages : own[p].use = "free"}
<1>1. PICK high \in Nat : high = Highest(own)
  <2>1. 0 \in Nat
    OBVIOUS
  <2> QED BY <2>1, ChainHeights
<1>2. PICK count \in Nat : count = Cardinality(Pages)
  BY PageConstants, FS_CardinalityType
<1>3. \A n \in Nat : FreeChain(n) \in ChainAt(own, n)
  BY ChainHeights
<1>4. high <= count
  <2>1. CASE high = 0
    BY <2>1
  <2>2. CASE high # 0
    <3>1. PICK g : g = [n \in 0 .. high - 1 |-> FreeChain(n)]
      OBVIOUS
    <3>2. \A n \in 0 .. high - 1 : g[n] \in Pages /\ own[g[n]].num = high - n
      BY <1>1, <1>3, <3>1 DEF ChainAt, Used
    <3>3. g \in Injection(0 .. high - 1, Pages)
      <4>1. \A a, b \in 0 .. high - 1 : g[a] = g[b] => a = b
        <5> SUFFICES ASSUME NEW a \in 0 .. high - 1, NEW b \in 0 .. high - 1, g[a] = g[b]
                     PROVE  a = b
          OBVIOUS
        <5>1. high - a = high - b
          BY <3>2
        <5> QED BY <5>1
      <4>2. g \in [0 .. high - 1 -> Pages] /\ DOMAIN g = 0 .. high - 1
        BY <3>1, <3>2
      <4> QED BY <4>1, <4>2 DEF Injection, IsInjective
    <3>4. Cardinality(0 .. high - 1) <= count
      BY <1>2, <3>3, PageConstants, FS_Injection
    <3>5. Cardinality(0 .. high - 1) = high
      <4>1. high - 1 \in Int /\ 0 \in Int /\ ~(0 > high - 1) /\ high - 1 - 0 + 1 = high
        BY <2>2
      <4> QED BY <4>1, FS_Interval
    <3> QED BY <3>4, <3>5
  <2> QED BY <2>1, <2>2
<1>5. FreeChain(count) = NoPage
  BY <1>1, <1>3, <1>4 DEF ChainAt
<1>6. ASSUME NEW n \in 0 .. count, FreeChain(n) # NoPage
      PROVE  FreeChain(n) \in Pages /\ own[FreeChain(n)].use = "free"
  BY <1>3, <1>6 DEF ChainAt, Used
<1>7. ASSUME NEW p \in Pages, own[p].use = "free"
      PROVE  \E n \in 0 .. count : FreeChain(n) = p
  <2>1. /\ freelist # NoPage /\ own[p].num >= 1 /\ own[p].num <= own[freelist].num
        /\ \A q \in Pages : own[q].use = "free" /\ own[q].num = own[p].num => q = p
        /\ own[p].num \in Nat
    BY <1>7, StoreIs DEF Sound, FreeOK, Ownership, Owners
  <2>2. PICK n \in Nat : n = high - own[p].num
    BY <1>1, <2>1 DEF Highest
  <2>3. n < high /\ n \in 0 .. count /\ high - n = own[p].num
    BY <1>4, <2>1, <2>2
  <2>4. FreeChain(n) \in Pages /\ own[FreeChain(n)].use = "free" /\ own[FreeChain(n)].num = own[p].num
    BY <1>1, <1>3, <2>3 DEF ChainAt, Used
  <2>5. FreeChain(n) = p
    BY <2>1, <2>4
  <2> QED BY <2>3, <2>5
<1>8. \A p \in Pages : p # NoPage
  BY PageConstants
<1> QED BY <1>2, <1>5, <1>6, <1>7, <1>8

ChildrenOf(tables) ==
  {memory[at[1]][at[2]].page : at \in
     {x \in (tables \cap Dram) \X SlotNumbers : Points(memory[x[1]][x[2]])}}
BelowTables == [i \in Nat |-> [tables \in SUBSET AllPages |-> ChildrenOf(tables)]]

\* The tables below some tables.
LEMMA ChildIs ==
  ASSUME NEW tables, NEW p
  PROVE  p \in ChildrenOf(tables) <=>
           \E t \in tables \cap Dram, slot \in SlotNumbers :
             Points(memory[t][slot]) /\ memory[t][slot].page = p
<1>1. ASSUME p \in ChildrenOf(tables)
      PROVE  \E t \in tables \cap Dram, slot \in SlotNumbers :
               Points(memory[t][slot]) /\ memory[t][slot].page = p
  <2>1. PICK x \in (tables \cap Dram) \X SlotNumbers :
          Points(memory[x[1]][x[2]]) /\ memory[x[1]][x[2]].page = p
    BY <1>1 DEF ChildrenOf
  <2>2. x[1] \in tables \cap Dram /\ x[2] \in SlotNumbers
    BY <2>1
  <2> QED BY <2>1, <2>2
<1>2. ASSUME NEW t \in tables \cap Dram, NEW slot \in SlotNumbers,
             Points(memory[t][slot]), memory[t][slot].page = p
      PROVE  p \in ChildrenOf(tables)
  <2>1. PICK x : x = <<t, slot>>
    OBVIOUS
  <2>2. x \in (tables \cap Dram) \X SlotNumbers /\ x[1] = t /\ x[2] = slot
    BY <2>1
  <2> QED BY <1>2, <2>2 DEF ChildrenOf
<1> QED BY <1>1, <1>2

\* The tables of a space, as a loop.
LEMMA TablesOfIs ==
  ASSUME PageInv, NEW space, NEW level \in 0 .. RootLevel
  PROVE  /\ TablesOf(space, level) = Repeat(BelowTables, {root[space]} \ {NoPage}, RootLevel - level)
         /\ \A i \in Nat : \A s \in SUBSET AllPages :
              BelowTables[i][s] \in SUBSET AllPages /\ BelowTables[i][s] = ChildrenOf(s)
<1>1. TablesOf(space, level) = Repeat(BelowTables, {root[space]} \ {NoPage}, RootLevel - level)
  BY DEF TablesOf, BelowTables, ChildrenOf
<1>2. ASSUME NEW s \in SUBSET AllPages PROVE ChildrenOf(s) \in SUBSET AllPages
  <2> SUFFICES ASSUME NEW p \in ChildrenOf(s) PROVE p \in AllPages
    OBVIOUS
  <2>1. PICK t \in s \cap Dram, slot \in SlotNumbers : memory[t][slot].page = p
    BY ChildIs
  <2>2. memory \in Memories
    BY StoreIs DEF PageInv, Stores
  <2> QED BY <2>1, <2>2 DEF Memories, Words
<1>3. \A i \in Nat : \A s \in SUBSET AllPages : BelowTables[i][s] = ChildrenOf(s)
  BY DEF BelowTables
<1> QED BY <1>1, <1>2, <1>3

\* The pages reached from the root of a space are tables.
LEMMA TablesAreTables ==
  ASSUME PageInv, NEW own, Sound(own, Store, held, root), NEW space \in Spaces,
         NEW level \in 0 .. RootLevel
  PROVE  TablesOf(space, level) \subseteq {p \in Pages : TableAt(own, p, level)}
<1> DEFINE I == [i \in Nat |-> SUBSET {p \in Pages : TableAt(own, p, RootLevel - i)}]
           start == {root[space]} \ {NoPage}
<1>1. PICK n \in Nat : n = RootLevel - level
  BY PageConstants
<1>2. /\ TablesOf(space, level) = Repeat(BelowTables, start, n)
      /\ \A i \in Nat : \A s \in SUBSET AllPages : BelowTables[i][s] = ChildrenOf(s)
  BY <1>1, TablesOfIs
<1>3. /\ TablesOK(own, Store) /\ RootsOK(own, root) /\ Store.memory = memory
      /\ own \in Ownership
  BY StoreIs DEF Sound
<1>4. start \in I[0]
  <2>1. RootLevel - 0 = RootLevel
    BY PageConstants
  <2> QED BY <1>3, <2>1 DEF RootsOK, TableAt, Used
<1>5. \A i \in 0 .. n - 1 : \A s \in I[i] : BelowTables[i][s] \in I[i + 1]
  <2> SUFFICES ASSUME NEW i \in 0 .. n - 1, NEW s \in I[i] PROVE BelowTables[i][s] \in I[i + 1]
    OBVIOUS
  <2>1. i \in Nat /\ i + 1 \in Nat /\ RootLevel \in Nat
    BY PageConstants
  <2>2. s \subseteq {p \in Pages : TableAt(own, p, RootLevel - i)} /\ s \in SUBSET AllPages
    BY <2>1, PagesInDram
  <2>3. BelowTables[i][s] = ChildrenOf(s)
    BY <1>2, <2>1, <2>2
  <2>4. I[i + 1] = SUBSET {p \in Pages : TableAt(own, p, RootLevel - (i + 1))}
    BY <2>1
  <2> HIDE DEF I
  <2>5. ASSUME NEW p \in ChildrenOf(s)
        PROVE  p \in Pages /\ TableAt(own, p, RootLevel - (i + 1))
    <3>1. PICK t \in s \cap Dram, slot \in SlotNumbers :
            Points(memory[t][slot]) /\ memory[t][slot].page = p
      BY ChildIs
    <3>2. t \in Pages /\ own[t].use = "table" /\ own[t].num = RootLevel - i
      BY <2>2, <3>1 DEF TableAt, Used
    <3>3. EntryOK(own, Store, t, slot)
      BY <1>3, <3>2 DEF TablesOK
    <3>4. TableAt(own, p, own[t].num - 1)
      BY <1>3, <3>1, <3>3 DEF EntryOK, PointerOK
    <3>5. RootLevel - i - 1 = RootLevel - (i + 1)
      BY <2>1
    <3> QED BY <3>2, <3>4, <3>5 DEF TableAt, Used
  <2> QED BY <2>3, <2>4, <2>5
<1>6. I[n] = SUBSET {p \in Pages : TableAt(own, p, level)}
  <2>1. RootLevel - n = level
    BY <1>1, PageConstants
  <2> QED BY <2>1
<1> HIDE DEF I, start
<1>7. Repeat(BelowTables, start, n) \in I[n]
  BY <1>4, <1>5, RepeatKeeps
<1> QED BY <1>2, <1>6, <1>7

\* From the roots every table is reached.
TablesAt(own, level) == {p \in Pages : TableAt(own, p, level)}
Reached(level) == UNION {TablesOf(space, level) : space \in Spaces}

\* Level by level, every table is reached from a root.
LEMMA TablesAreReached ==
  ASSUME PageInv, NEW own, Sound(own, Store, held, root)
  PROVE  \A n \in 0 .. RootLevel :
           TablesAt(own, RootLevel - n) \subseteq Reached(RootLevel - n)
<1> DEFINE at == [n \in Nat |-> TablesAt(own, RootLevel - n)]
           I == [n \in Nat |-> SUBSET Reached(RootLevel - n)]
<1>1. /\ ReachedOK(own, Store) /\ RootsOK(own, root) /\ Store.memory = memory
      /\ own \in Ownership /\ RootLevel \in Nat
  BY StoreIs, PageConstants DEF Sound
<1>2. at[0] \in I[0]
  <2> SUFFICES ASSUME NEW p \in TablesAt(own, RootLevel) PROVE p \in Reached(RootLevel)
    BY <1>1
  <2>1. p \in Pages /\ TableAt(own, p, RootLevel)
    BY DEF TablesAt
  <2>2. PICK space \in Spaces : root[space] = p
    BY <1>1, <2>1 DEF RootsOK
  <2>3. RootLevel \in 0 .. RootLevel /\ RootLevel - RootLevel = 0 /\ 0 \in Int /\ 0 <= 0
    BY <1>1
  <2>4. TablesOf(space, RootLevel) = Repeat(BelowTables, {root[space]} \ {NoPage}, 0)
    BY <2>3, TablesOfIs
  <2>5. TablesOf(space, RootLevel) = {root[space]} \ {NoPage}
    BY <2>3, <2>4, NoTurns
  <2>6. p \in TablesOf(space, RootLevel)
    BY <2>1, <2>2, <2>5, PageConstants
  <2> QED BY <2>6 DEF Reached
<1>3. \A n \in 0 .. RootLevel - 1 : at[n] \in I[n] => at[n + 1] \in I[n + 1]
  <2> SUFFICES ASSUME NEW n \in 0 .. RootLevel - 1,
                      TablesAt(own, RootLevel - n) \subseteq Reached(RootLevel - n),
                      NEW p \in TablesAt(own, RootLevel - (n + 1))
               PROVE  p \in Reached(RootLevel - (n + 1))
    <3>1. \A n \in 0 .. RootLevel - 1 : n \in Nat /\ n + 1 \in Nat
      OBVIOUS
    <3> QED BY <3>1
  <2>1. PICK up \in 0 .. RootLevel : up = RootLevel - n
    BY <1>1
  <2>2. PICK level \in 0 .. RootLevel :
          level = RootLevel - (n + 1) /\ level < RootLevel /\ level + 1 = up
    BY <1>1, <2>1
  <2>3. p \in Pages /\ own[p].use = "table" /\ own[p].num = level
    BY <2>2 DEF TablesAt, TableAt, Used
  <2>4. PICK t : t = own[p].up
    OBVIOUS
  <2>5. ParentOK(own, Store, p)
    BY <1>1, <2>2, <2>3 DEF ReachedOK
  <2>6. TableAt(own, t, up)
    BY <2>2, <2>3, <2>4, <2>5 DEF ParentOK
  <2>7. PICK slot \in SlotNumbers : Points(memory[t][slot]) /\ memory[t][slot].page = p
    BY <1>1, <2>4, <2>5 DEF ParentOK
  <2>8. t \in TablesAt(own, up)
    BY <2>6 DEF TablesAt, TableAt, Used
  <2>9. PICK space \in Spaces : t \in TablesOf(space, up)
    BY <2>1, <2>8 DEF Reached
  <2>10. PICK start : start = {root[space]} \ {NoPage}
    OBVIOUS
  <2>11. n \in Nat /\ RootLevel - up = n /\ RootLevel - level = n + 1
    BY <1>1, <2>1, <2>2
  <2>12. PICK S : S = SUBSET AllPages
    OBVIOUS
  <2>13. /\ TablesOf(space, up) = Repeat(BelowTables, start, n)
         /\ TablesOf(space, level) = Repeat(BelowTables, start, n + 1)
         /\ \A i \in Nat : \A s \in S : BelowTables[i][s] \in S /\ BelowTables[i][s] = ChildrenOf(s)
    BY <2>10, <2>11, <2>12, TablesOfIs
  <2>14. start \in S
    BY <2>10, <2>12 DEF PageInv
  <2>15. TablesOf(space, level) = BelowTables[n][TablesOf(space, up)]
    <3>1. \A i \in 0 .. n : \A s \in S : BelowTables[i][s] \in S
      BY <2>13
    <3>2. Repeat(BelowTables, start, n + 1) = BelowTables[n][Repeat(BelowTables, start, n)]
      BY <2>11, <2>14, <3>1, OneMoreTurn
    <3> QED BY <2>13, <3>2
  <2>16. TablesOf(space, up) \in S
    <3>1. TablesOf(space, up) \subseteq {q \in Pages : TableAt(own, q, up)}
      BY TablesAreTables
    <3> QED BY <2>12, <3>1, PagesInDram
  <2>17. TablesOf(space, level) = ChildrenOf(TablesOf(space, up))
    BY <2>11, <2>13, <2>15, <2>16
  <2>18. p \in TablesOf(space, level)
    <3>1. t \in Dram
      BY <2>8, PagesInDram DEF TablesAt
    <3> QED BY <2>7, <2>9, <2>17, <3>1, ChildIs
  <2> QED BY <2>2, <2>18 DEF Reached
<1>4. RootLevel \in Nat
  BY PageConstants
<1> HIDE DEF at, I
<1>5. \A n \in 0 .. RootLevel : at[n] \in I[n]
  BY <1>2, <1>3, <1>4, LevelInduction
<1> QED BY <1>4, <1>5 DEF at, I

\* The tables of the spaces are the pages used as tables.
LEMMA TablesAre ==
  ASSUME PageInv, NEW own, Sound(own, Store, held, root)
  PROVE  /\ UNION {TablesOf(s, n) : s \in Spaces, n \in 0 .. RootLevel}
              = {p \in Pages : own[p].use = "table"}
         /\ UNION {TablesOf(s, 0) : s \in Spaces} = TablesAt(own, 0)
<1>1. \A s \in Spaces, n \in 0 .. RootLevel : TablesOf(s, n) \subseteq TablesAt(own, n)
  BY TablesAreTables DEF TablesAt
<1>2. \A n \in 0 .. RootLevel : TablesAt(own, n) \subseteq Reached(n)
  <2> SUFFICES ASSUME NEW n \in 0 .. RootLevel PROVE TablesAt(own, n) \subseteq Reached(n)
    OBVIOUS
  <2>1. PICK i \in 0 .. RootLevel : RootLevel - i = n
    <3>1. RootLevel - n \in 0 .. RootLevel /\ RootLevel - (RootLevel - n) = n
      BY PageConstants
    <3> QED BY <3>1
  <2> QED BY <2>1, TablesAreReached
<1>3. \A p \in Pages : own[p].use = "table" => own[p].num \in 0 .. RootLevel
  BY PageConstants DEF Sound, TablesOK, Ownership, Owners
<1>4. ASSUME NEW p \in Pages, own[p].use = "table"
      PROVE  \E s \in Spaces, n \in 0 .. RootLevel : p \in TablesOf(s, n)
  <2>1. PICK n \in 0 .. RootLevel : own[p].num = n
    BY <1>3, <1>4
  <2>2. p \in Reached(n)
    BY <1>2, <1>4, <2>1 DEF TablesAt, TableAt, Used
  <2> QED BY <2>2 DEF Reached
<1>5. ASSUME NEW s \in Spaces, NEW n \in 0 .. RootLevel, NEW p \in TablesOf(s, n)
      PROVE  p \in Pages /\ own[p].use = "table"
  BY <1>1 DEF TablesAt, TableAt, Used
<1>6. 0 \in 0 .. RootLevel
  BY PageConstants
<1>7. UNION {TablesOf(s, 0) : s \in Spaces} = TablesAt(own, 0)
  BY <1>1, <1>2, <1>6 DEF Reached
<1>8. UNION {TablesOf(s, n) : s \in Spaces, n \in 0 .. RootLevel}
        = {p \in Pages : own[p].use = "table"}
  BY <1>4, <1>5
<1> QED BY <1>7, <1>8

\* The entries that map pages of the allocator.
OwnedPlaces ==
  {at \in UNION {LeafPlaces(s) : s \in Spaces} : memory[at[1]][at[2]].page \in Pages}

\* The places of entries that map pages, by what the entries are.
LEMMA PlaceIs ==
  ASSUME PageInv, NEW own, Sound(own, Store, held, root), NEW at
  PROVE  at \in OwnedPlaces <=>
           /\ at \in Pages \X SlotNumbers
           /\ TableAt(own, at[1], 0) /\ Maps(memory[at[1]][at[2]])
           /\ memory[at[1]][at[2]].page \in Pages
<1>1. UNION {TablesOf(s, 0) : s \in Spaces} = TablesAt(own, 0)
  BY TablesAre
<1>2. ASSUME at \in OwnedPlaces
      PROVE  /\ at \in Pages \X SlotNumbers
             /\ TableAt(own, at[1], 0) /\ Maps(memory[at[1]][at[2]])
             /\ memory[at[1]][at[2]].page \in Pages
  <2>1. PICK s \in Spaces : at \in LeafPlaces(s) /\ memory[at[1]][at[2]].page \in Pages
    BY <1>2 DEF OwnedPlaces
  <2>2. at \in (TablesOf(s, 0) \cap Dram) \X SlotNumbers /\ Maps(memory[at[1]][at[2]])
    BY <2>1 DEF LeafPlaces
  <2>3. at[1] \in TablesOf(s, 0) /\ at[2] \in SlotNumbers /\ at = <<at[1], at[2]>>
    BY <2>2
  <2>4. at[1] \in TablesAt(own, 0)
    BY <1>1, <2>3
  <2> QED BY <2>1, <2>2, <2>3, <2>4 DEF TablesAt
<1>3. ASSUME at \in Pages \X SlotNumbers, TableAt(own, at[1], 0),
             Maps(memory[at[1]][at[2]]), memory[at[1]][at[2]].page \in Pages
      PROVE  at \in OwnedPlaces
  <2>1. at[1] \in Pages /\ at[2] \in SlotNumbers /\ at = <<at[1], at[2]>>
    BY <1>3
  <2>2. at[1] \in TablesAt(own, 0) /\ at[1] \in Dram
    BY <1>3, <2>1, PagesInDram DEF TablesAt
  <2>3. PICK s \in Spaces : at[1] \in TablesOf(s, 0)
    BY <1>1, <2>2
  <2>4. at \in (TablesOf(s, 0) \cap Dram) \X SlotNumbers
    BY <2>1, <2>2, <2>3
  <2>5. at \in LeafPlaces(s)
    BY <1>3, <2>4 DEF LeafPlaces
  <2> QED BY <1>3, <2>5 DEF OwnedPlaces
<1> QED BY <1>2, <1>3

\* Each mapped page has one entry, and each entry one page.
LEMMA PlacesAre ==
  ASSUME PageInv, NEW own, Sound(own, Store, held, root)
  PROVE  /\ {memory[at[1]][at[2]].page : at \in OwnedPlaces} = {p \in Pages : own[p].use = "mapped"}
         /\ Cardinality(OwnedPlaces) = Cardinality({p \in Pages : own[p].use = "mapped"})
<1>1. PICK M : M = {p \in Pages : own[p].use = "mapped"}
  OBVIOUS
<1>2. PICK g : g = [p \in M |-> <<own[p].up, own[p].slot>>]
  OBVIOUS
<1>3. ASSUME NEW p \in M
      PROVE  /\ g[p] \in OwnedPlaces /\ g[p] = <<own[p].up, own[p].slot>>
             /\ memory[g[p][1]][g[p][2]].page = p
  <2>1. p \in Pages /\ own[p].use = "mapped" /\ own[p].slot \in SlotNumbers
    BY <1>1 DEF Sound, Ownership, Owners
  <2>2. PlaceOK(own, Store, p)
    BY <2>1 DEF Sound, ReachedOK
  <2>3. /\ TableAt(own, own[p].up, 0) /\ own[p].up \in Pages
        /\ Maps(memory[own[p].up][own[p].slot])
        /\ memory[own[p].up][own[p].slot].page = p
    BY <2>2, StoreIs DEF PlaceOK, TableAt, Used
  <2>4. PICK at : at = <<own[p].up, own[p].slot>>
    OBVIOUS
  <2>5. at[1] = own[p].up /\ at[2] = own[p].slot /\ at \in Pages \X SlotNumbers
    BY <2>1, <2>3, <2>4
  <2>6. at \in OwnedPlaces
    BY <2>1, <2>3, <2>5, PlaceIs
  <2> QED BY <1>2, <2>3, <2>4, <2>5, <2>6
<1>4. ASSUME NEW at \in OwnedPlaces
      PROVE  memory[at[1]][at[2]].page \in M /\ g[memory[at[1]][at[2]].page] = at
  <2>1. /\ at \in Pages \X SlotNumbers
        /\ TableAt(own, at[1], 0) /\ Maps(memory[at[1]][at[2]])
        /\ memory[at[1]][at[2]].page \in Pages
    BY PlaceIs
  <2>2. PICK t \in Pages, slot \in SlotNumbers : at = <<t, slot>> /\ at[1] = t /\ at[2] = slot
    BY <2>1
  <2>3. PICK p \in Pages : p = memory[t][slot].page
    BY <2>1, <2>2
  <2>4. own[t].use = "table" /\ own[t].num = 0
    BY <2>1, <2>2 DEF TableAt, Used
  <2>5. EntryOK(own, Store, t, slot)
    BY <2>4 DEF Sound, TablesOK
  <2>6. LeafOK(own, t, slot, memory[t][slot])
    BY <2>1, <2>2, <2>5, StoreIs DEF EntryOK
  <2>7. own[p].use = "mapped" /\ own[p].up = t /\ own[p].slot = slot
    BY <2>3, <2>4, <2>6 DEF LeafOK
  <2> QED BY <1>1, <1>2, <2>2, <2>3, <2>7
<1>5. {memory[at[1]][at[2]].page : at \in OwnedPlaces} = M
  <2>1. \A p \in M : \E at \in OwnedPlaces : memory[at[1]][at[2]].page = p
    BY <1>3
  <2> QED BY <1>4, <2>1
<1>6. ExistsBijection(M, OwnedPlaces)
  <2>1. g \in [M -> OwnedPlaces] /\ DOMAIN g = M
    BY <1>2, <1>3
  <2>2. \A a, b \in M : g[a] = g[b] => a = b
    BY <1>3
  <2>3. \A at \in OwnedPlaces : \E p \in M : g[p] = at
    BY <1>4
  <2>4. g \in Injection(M, OwnedPlaces)
    BY <2>1, <2>2 DEF Injection, IsInjective
  <2>5. g \in Surjection(M, OwnedPlaces)
    BY <2>1, <2>3 DEF Surjection
  <2> QED BY <2>4, <2>5 DEF ExistsBijection, Bijection
<1>7. IsFiniteSet(M)
  <2>1. M \in SUBSET Pages
    BY <1>1
  <2> QED BY <2>1, PageConstants, FS_Subset
<1>8. Cardinality(OwnedPlaces) = Cardinality(M)
  BY <1>6, <1>7, FS_Bijection
<1> QED BY <1>1, <1>5, <1>8

\* Sets without common elements.
LEMMA TwoParts ==
  ASSUME NEW A, NEW B, IsFiniteSet(A), IsFiniteSet(B), A \cap B = {}
  PROVE  IsFiniteSet(A \cup B) /\ Cardinality(A \cup B) = Cardinality(A) + Cardinality(B)
<1>1. Cardinality(A) \in Nat /\ Cardinality(B) \in Nat
  BY FS_CardinalityType
<1>2. Cardinality(A \cap B) = 0
  BY FS_EmptySet
<1>3. /\ IsFiniteSet(A \cup B)
      /\ Cardinality(A \cup B) = Cardinality(A) + Cardinality(B) - Cardinality(A \cap B)
  BY FS_Union
<1>4. PICK x : x = Cardinality(A \cap B)
  OBVIOUS
<1>5. Cardinality(A \cup B) = Cardinality(A) + Cardinality(B) - x /\ x = 0
  BY <1>2, <1>3, <1>4
<1> QED BY <1>1, <1>3, <1>5

\* Four sets.
LEMMA FourParts ==
  ASSUME NEW A, NEW B, NEW C, NEW D, NEW S, IsFiniteSet(S), A \cup B \cup C \cup D = S,
         A \cap B = {}, (A \cup B) \cap C = {}, (A \cup B \cup C) \cap D = {}
  PROVE  Cardinality(A) + Cardinality(B) + Cardinality(C) + Cardinality(D) = Cardinality(S)
<1>1. A \in SUBSET S /\ B \in SUBSET S /\ C \in SUBSET S /\ D \in SUBSET S
  OBVIOUS
<1>2. IsFiniteSet(A) /\ IsFiniteSet(B) /\ IsFiniteSet(C) /\ IsFiniteSet(D)
  BY <1>1, FS_Subset
<1>3. /\ Cardinality(A) \in Nat /\ Cardinality(B) \in Nat
      /\ Cardinality(C) \in Nat /\ Cardinality(D) \in Nat
  BY <1>2, FS_CardinalityType
<1>4. PICK two : two = A \cup B
  OBVIOUS
<1>5. IsFiniteSet(two) /\ Cardinality(two) = Cardinality(A) + Cardinality(B)
  BY <1>2, <1>4, TwoParts
<1>6. PICK three : three = two \cup C
  OBVIOUS
<1>7. IsFiniteSet(three) /\ Cardinality(three) = Cardinality(two) + Cardinality(C)
  <2>1. two \cap C = {}
    BY <1>4
  <2> QED BY <1>2, <1>5, <1>6, <2>1, TwoParts
<1>8. Cardinality(S) = Cardinality(three) + Cardinality(D)
  <2>1. three \cap D = {} /\ three \cup D = S
    BY <1>4, <1>6
  <2>2. Cardinality(three \cup D) = Cardinality(three) + Cardinality(D)
    BY <1>2, <1>7, <2>1, TwoParts
  <2> QED BY <2>1, <2>2
<1> QED BY <1>3, <1>5, <1>7, <1>8

\* Sound pages are owned once.
LEMMA OwnedOnce == PageInv => PagesAreOwnedOnce
<1> SUFFICES ASSUME PageInv PROVE PagesAreOwnedOnce
  OBVIOUS
<1>1. PICK own : Sound(own, Store, held, root)
  BY DEF PageInv
<1> DEFINE free    == {FreeChain(n) : n \in 0 .. Cardinality(Pages)} \ {NoPage}
           tables  == UNION {TablesOf(s, n) : s \in Spaces, n \in 0 .. RootLevel}
           mapped  == {memory[at[1]][at[2]].page : at \in OwnedPlaces}
           Uses(use) == {p \in Pages : own[p].use = use}
<1>2. FreeChain(Cardinality(Pages)) = NoPage /\ free = Uses("free")
  BY <1>1, FreeListIs
<1>3. tables = Uses("table")
  BY <1>1, TablesAre
<1>4. mapped = Uses("mapped") /\ Cardinality(OwnedPlaces) = Cardinality(Uses("mapped"))
  BY <1>1, PlacesAre
<1>5. held = Uses("loose")
  BY <1>1 DEF Sound
<1>6. Uses("free") \cup Uses("table") \cup Uses("mapped") \cup Uses("loose") = Pages
  BY <1>1 DEF Sound, Ownership, Owners
<1>7. Cardinality(Uses("free")) + Cardinality(Uses("table")) + Cardinality(Uses("mapped"))
        + Cardinality(Uses("loose")) = Cardinality(Pages)
  <2>1. /\ Uses("free") \cap Uses("table") = {}
        /\ (Uses("free") \cup Uses("table")) \cap Uses("mapped") = {}
        /\ (Uses("free") \cup Uses("table") \cup Uses("mapped")) \cap Uses("loose") = {}
    OBVIOUS
  <2> HIDE DEF Uses
  <2> QED BY <1>6, <2>1, PageConstants, FourParts
<1> HIDE DEF Uses
<1>8. PagesAreOwnedOnce <=>
        /\ FreeChain(Cardinality(Pages)) = NoPage
        /\ free \cup tables \cup mapped \cup held = Pages
        /\ Cardinality(free) + Cardinality(tables) + Cardinality(OwnedPlaces)
             + Cardinality(held) = Cardinality(Pages)
  BY DEF PagesAreOwnedOnce, OwnedPlaces
<1> HIDE DEF free, tables, mapped
<1> QED BY <1>2, <1>3, <1>4, <1>5, <1>6, <1>7, <1>8

\* No page of the allocator is lost and none is used twice, for any number of
\* pages, spaces, entries per table and levels: not when uvmcopy runs out of
\* memory and takes its copies back, not when uvmunmap or freewalk decline, and
\* not when a table can be reached on two ways.
THEOREM PagesOwnedOnce == Spec => []PagesAreOwnedOnce
BY PageInvariant, OwnedOnce, PTL

-----------------------------------------------------------------------------
(* Addresses and their indices.                                            *)

\* The pages below an entry of the next level.
LEMMA SpanNext ==
  /\ Span(0) = 1
  /\ \A level \in Nat : Span(level + 1) = Span(level) * Slots
<1> DEFINE turn == [i \in Nat |-> [pages \in Nat |-> pages * Slots]]
<1>1. Span(0) = 1
  BY NoTurns DEF Span
<1>2. ASSUME NEW level \in Nat PROVE Span(level + 1) = Span(level) * Slots
  <2>1. \A i \in 0 .. level : \A s \in Nat : turn[i][s] \in Nat
    <3>1. \A s \in Nat : s * Slots \in Nat
      BY PageConstants
    <3> QED BY <3>1
  <2>2. \A k \in Nat : Span(k) = Repeat(turn, 1, k)
    BY DEF Span
  <2>3. turn[level][Span(level)] = Span(level) * Slots
    BY SpanPositive
  <2> HIDE DEF turn
  <2>4. 1 \in Nat
    OBVIOUS
  <2>5. Repeat(turn, 1, level + 1) = turn[level][Repeat(turn, 1, level)]
    BY <2>1, <2>4, OneMoreTurn
  <2>6. level + 1 \in Nat
    OBVIOUS
  <2> QED BY <2>2, <2>3, <2>5, <2>6
<1> QED BY <1>1, <1>2

\* Addresses by their indices.
LEMMA IndexIs ==
  ASSUME NEW level \in Nat, NEW va \in Int
  PROVE  /\ va \div Span(level) = Slots * (va \div Span(level + 1)) + Index(level, va)
         /\ va \div Span(level) \in Int /\ Index(level, va) \in SlotNumbers
<1>1. PICK a \in Nat \ {0}, b \in Nat \ {0} : a = Span(level) /\ b = Slots
  BY SpanPositive, PageConstants
<1>2. Span(level + 1) = a * b
  BY <1>1, SpanNext
<1>3. va \div a = b * (va \div (a * b)) + ((va \div a) % b)
  BY DivideTwice
<1>4. va \div a \in Int
  BY DivMod
<1> QED BY <1>1, <1>2, <1>3, <1>4, IndexTyped DEF Index

\* In a table, later addresses have later entries.
LEMMA IndexOrder ==
  ASSUME NEW level \in Nat, NEW x \in Int, NEW y \in Int, x <= y,
         x \div Span(level + 1) = y \div Span(level + 1)
  PROVE  Index(level, x) \in Int /\ Index(level, y) \in Int /\ Index(level, x) <= Index(level, y)
<1>1. level + 1 \in Nat
  OBVIOUS
<1>2. PICK a \in Int, b \in Int : a = Index(level, x) /\ b = Index(level, y)
  <2>1. Index(level, x) \in SlotNumbers /\ Index(level, y) \in SlotNumbers
    BY IndexTyped
  <2> QED BY <2>1 DEF SlotNumbers
<1>3. PICK q \in Int : q = x \div Span(level + 1)
  BY <1>1, IndexIs
<1>4. PICK g \in Int : g = Slots * q
  BY IntProduct, PageConstants
<1>5. x \div Span(level) = g + a /\ y \div Span(level) = g + b
  <2>1. y \div Span(level + 1) = q
    BY <1>3
  <2> QED BY <1>2, <1>3, <1>4, <2>1, IndexIs
<1>6. PICK s \in Nat \ {0} : s = Span(level)
  BY SpanPositive
<1>7. PICK p \in Int : p = x \div s
  BY DivMod
<1>8. PICK t \in Int : t = s * p
  BY IntProduct
<1>9. t <= x
  BY <1>7, <1>8, QuotientIs
<1>10. ~(y \div s < p)
  <2>1. ~(y < t)
    BY <1>9
  <2> QED BY <1>8, <2>1, QuotientBelow
<1>11. PICK o \in Int : o = y \div s
  BY DivMod
<1>12. p = g + a /\ o = g + b /\ ~(o < p)
  BY <1>5, <1>6, <1>7, <1>10, <1>11
<1>13. a <= b
  <2> HIDE <1>1, <1>2, <1>3, <1>4, <1>5, <1>6, <1>7, <1>8, <1>9, <1>10, <1>11
  <2> QED BY <1>12
<1> QED BY <1>2, <1>13

\* The first address below an entry of the table that has first below it.
LowOf(level, first, slot) ==
  first - (first % Span(level + 1)) + (slot * Span(level))

\* Its addresses are low .. end - 1.
SplitAt(level, first, last, slot, low, end) ==
  /\ low \in Int /\ end \in Int /\ low < end
  /\ \A va \in first .. last :
       /\ Index(level, va) = slot <=> low <= va /\ va < end
       /\ Index(level, va) < slot <=> va < low
  /\ \A a, b \in low .. end - 1 : a \div Span(level) = b \div Span(level)
  /\ Index(level, first) <= slot /\ slot <= Index(level, last) => first < end /\ low <= last

\* The addresses below an entry of a table, of those first .. last below it.
LEMMA EntryRange ==
  ASSUME NEW level \in Nat, NEW first \in Int, NEW last \in Int,
         first \div Span(level + 1) = last \div Span(level + 1),
         NEW slot \in SlotNumbers, NEW low, low = LowOf(level, first, slot),
         NEW end, end = low + Span(level)
  PROVE  SplitAt(level, first, last, slot, low, end)
<1>1. PICK a \in Nat \ {0}, b \in Nat \ {0}, c \in Nat \ {0} :
        a = Span(level) /\ c = Span(level + 1) /\ b = Slots /\ c = a * b
  <2>1. level + 1 \in Nat
    OBVIOUS
  <2> QED BY <2>1, SpanPositive, SpanNext, PageConstants
<1>2. slot \in Int
  BY DEF SlotNumbers
<1>3. PICK k \in Int : k = first \div c
  BY DivMod
<1>4. PICK g \in Int : g = b * k
  BY <1>3
<1>5. /\ low \in Int
      /\ \A x \in Int : x \div a = g + slot <=> low <= x /\ x < low + a
      /\ \A x \in Int : x \div a < g + slot <=> x < low
  <2>1. PICK r \in Int : r = first % c
    <3>1. first % c \in 0 .. c - 1
      BY DivMod
    <3>2. PICK n \in Nat : n = c
      BY <1>1
    <3>3. \A x \in 0 .. n - 1 : x \in Int
      OBVIOUS
    <3> QED BY <3>1, <3>2, <3>3
  <2>2. PICK o \in Int : o = slot * a
    BY <1>2, IntProduct
  <2>3. PICK y \in Int : y = first - r + o
    OBVIOUS
  <2>4. /\ \A x \in Int : x \div a = g + slot <=> first - r + o <= x /\ x < first - r + o + a
        /\ \A x \in Int : x \div a < g + slot <=> x < first - r + o
    <3> HIDE <1>1, <2>3
    <3>1. c = a * b
      BY <1>1
    <3> QED BY <1>2, <1>3, <1>4, <2>1, <2>2, <3>1, BlockRange
  <2>5. low = y
    <3>1. low = first - (first % c) + slot * a
      BY <1>1 DEF LowOf
    <3> QED BY <2>1, <2>2, <2>3, <3>1
  <2> QED BY <2>3, <2>4, <2>5
<1>6. end = low + a
  BY <1>1
<1>7. \A x \in Int : x \div c = k =>
         Index(level, x) \in Int /\ x \div a = g + Index(level, x)
  <2> SUFFICES ASSUME NEW x \in Int, x \div c = k
               PROVE  Index(level, x) \in Int /\ x \div a = g + Index(level, x)
    OBVIOUS
  <2>1. x \div Span(level) = Slots * (x \div Span(level + 1)) + Index(level, x)
    BY IndexIs
  <2>2. Index(level, x) \in Int
    <3>1. Index(level, x) \in SlotNumbers
      BY IndexIs
    <3> QED BY <3>1 DEF SlotNumbers
  <2>3. x \div a = b * (x \div c) + Index(level, x)
    BY <1>1, <2>1
  <2> QED BY <1>4, <2>2, <2>3
<1>8. first \div c = last \div c /\ last \div c = k
  BY <1>1, <1>3
<1>9. ASSUME NEW va \in first .. last
      PROVE  /\ Index(level, va) = slot <=> low <= va /\ va < end
             /\ Index(level, va) < slot <=> va < low
  <2>1. va \div c = k
    BY <1>3, <1>8, BlockBetween
  <2>5. va \in Int
    OBVIOUS
  <2>2. PICK i \in Int : i = Index(level, va) /\ va \div a = g + i
    BY <1>7, <2>1, <2>5
  <2>6. PICK d \in Int : d = va \div a /\ d = g + i
    BY <1>4, <2>2, IntProduct
  <2>3. i = slot <=> va \div a = g + slot
    <3> HIDE <2>2
    <3> QED BY <1>2, <1>4, <2>6
  <2>4. i < slot <=> va \div a < g + slot
    <3> HIDE <2>2
    <3> QED BY <1>2, <1>4, <2>6
  <2> QED BY <1>5, <1>6, <2>2, <2>3, <2>4
<1>10. ASSUME NEW x \in low .. end - 1, NEW y \in low .. end - 1
       PROVE  x \div Span(level) = y \div Span(level)
  <2>1. x \div a = g + slot /\ y \div a = g + slot
    BY <1>1, <1>5, <1>6
  <2> QED BY <1>1, <2>1
<1>11. ASSUME Index(level, first) <= slot, slot <= Index(level, last)
       PROVE  first < end /\ low <= last
  <2>1. PICK i \in Int : i = Index(level, first) /\ first \div a = g + i
    BY <1>3, <1>7
  <2>2. PICK j \in Int : j = Index(level, last) /\ last \div a = g + j
    BY <1>7, <1>8
  <2>6. PICK d \in Int, f \in Int : d = first \div a /\ d = g + i /\ f = last \div a /\ f = g + j
    BY <1>4, <2>1, <2>2, IntProduct
  <2>3. first \div a = g + slot \/ first \div a < g + slot
    BY <1>2, <1>4, <1>11, <2>1, <2>6
  <2>4. ~(last \div a < g + slot)
    BY <1>2, <1>4, <1>11, <2>2, <2>6
  <2>5. first < end
    BY <1>1, <1>5, <1>6, <2>3
  <2> QED BY <1>5, <2>4, <2>5
<1>12. end \in Int /\ low < end
  BY <1>1, <1>5, <1>6
<1> QED BY <1>5, <1>9, <1>10, <1>11, <1>12 DEF SplitAt

-----------------------------------------------------------------------------
(* The way to an address.                                                  *)

\* The table below an entry, the tables on the way to an address from the
\* table of the highest level down, and the entry they lead to.
Under(mem, table, slot) ==
  IF table \in Dram /\ Points(mem[table][slot]) THEN mem[table][slot].page ELSE NoPage
Follows(mem, top, va, chain) ==
  /\ chain \in [0 .. RootLevel -> AllPages]
  /\ chain[RootLevel] = top
  /\ \A l \in 0 .. RootLevel - 1 : chain[l] = Under(mem, chain[l + 1], Index(l + 1, va))
EntryFor(mem, chain, va) ==
  IF chain[0] \in Dram THEN mem[chain[0]][Index(0, va)] ELSE Zero

\* What an entry shows, and what a memory shows at an address.
Shown(mem, pte) ==
  IF ~Valid(pte) THEN {}
  ELSE {<<pte.flags, IF pte.page \in Dram THEN mem[pte.page] ELSE <<>>>>}
Walking(mem, va) ==
  [i \in Nat |-> [table \in AllPages |-> Under(mem, table, Index(RootLevel - i, va))]]
ShownAt(mem, top, va) ==
  LET table == Repeat(Walking(mem, va), top, RootLevel)
  IN  Shown(mem, IF table \in Dram THEN mem[table][Index(0, va)] ELSE Zero)

LEMMA ContentIs ==
  ASSUME NEW space, NEW va
  PROVE  /\ Content(space, va) = ShownAt(memory, root[space], va)
         /\ Content(space, va)' = ShownAt(memory', root'[space], va)
BY DEF Content, ShownAt, Walking, Under, Shown

\* The entries of a memory.
LEMMA MemoryTypes ==
  ASSUME NEW mem \in Memories, NEW t \in Dram, NEW slot \in SlotNumbers
  PROVE  /\ mem[t] \in [SlotNumbers -> Words] /\ mem[t][slot] \in Words
         /\ mem[t][slot].page \in AllPages
BY DEF Memories, Words

\* The way exists, and what is seen at its end is what the address shows.
LEMMA ChainExists ==
  ASSUME NEW mem \in Memories, NEW top \in AllPages, NEW va \in Int
  PROVE  \E chain : /\ Follows(mem, top, va, chain)
                    /\ ShownAt(mem, top, va) = Shown(mem, EntryFor(mem, chain, va))
<1> DEFINE I == [i \in Nat |-> AllPages]
           turn == Walking(mem, va)
<1>1. RootLevel \in Nat
  BY PageConstants
<1>2. \A table \in AllPages : \A slot \in SlotNumbers : Under(mem, table, slot) \in AllPages
  BY MemoryTypes, PagesInDram DEF Under
<1>3. \A i \in 0 .. RootLevel - 1 : \A t \in AllPages :
        /\ turn[i][t] = Under(mem, t, Index(RootLevel - i, va))
        /\ turn[i][t] \in AllPages
  <2> SUFFICES ASSUME NEW i \in 0 .. RootLevel - 1, NEW t \in AllPages
               PROVE  /\ turn[i][t] = Under(mem, t, Index(RootLevel - i, va))
                      /\ turn[i][t] \in AllPages
    OBVIOUS
  <2>1. i \in Nat /\ RootLevel - i \in Nat
    BY <1>1
  <2>2. Index(RootLevel - i, va) \in SlotNumbers
    BY <2>1, IndexTyped
  <2>3. turn[i][t] = Under(mem, t, Index(RootLevel - i, va))
    BY <2>1 DEF Walking
  <2> QED BY <1>2, <2>2, <2>3
<1> HIDE DEF turn
<1>4. top \in I[0] /\ \A i \in 0 .. RootLevel - 1 : \A s \in I[i] : turn[i][s] \in I[i + 1]
  BY <1>1, <1>3
<1>5. PICK after : /\ after[0] = top
                   /\ \A i \in 0 .. RootLevel : after[i] \in I[i]
                   /\ \A i \in 0 .. RootLevel - 1 : after[i + 1] = turn[i][after[i]]
                   /\ Repeat(turn, top, RootLevel) = after[RootLevel]
  <2>1. PICK J, walk : J = I /\ walk = turn
    OBVIOUS
  <2> HIDE DEF I
  <2>2. top \in J[0] /\ \A i \in 0 .. RootLevel - 1 : \A s \in J[i] : walk[i][s] \in J[i + 1]
    BY <1>4, <2>1
  <2>3. \E after : /\ after[0] = top
                   /\ \A i \in 0 .. RootLevel : after[i] \in J[i]
                   /\ \A i \in 0 .. RootLevel - 1 : after[i + 1] = walk[i][after[i]]
                   /\ Repeat(walk, top, RootLevel) = after[RootLevel]
    BY <1>1, <2>2, Repeating
  <2> QED BY <2>1, <2>3
<1>6. PICK chain : chain = [l \in 0 .. RootLevel |-> after[RootLevel - l]]
  OBVIOUS
<1>7. \A l \in 0 .. RootLevel : RootLevel - l \in 0 .. RootLevel /\ RootLevel - l \in Nat
  BY <1>1
<1>8. chain \in [0 .. RootLevel -> AllPages]
  BY <1>5, <1>6, <1>7
<1>9. chain[RootLevel] = top /\ chain[0] = after[RootLevel]
  BY <1>1, <1>5, <1>6
<1>10. ASSUME NEW l \in 0 .. RootLevel - 1
       PROVE  chain[l] = Under(mem, chain[l + 1], Index(l + 1, va))
  <2>1. PICK i \in 0 .. RootLevel - 1 : i = RootLevel - (l + 1)
    BY <1>1
  <2>2. i + 1 = RootLevel - l /\ RootLevel - i = l + 1 /\ l \in 0 .. RootLevel
        /\ l + 1 \in 0 .. RootLevel /\ i \in 0 .. RootLevel
    BY <1>1, <2>1
  <2>3. chain[l] = after[i + 1] /\ chain[l + 1] = after[i]
    BY <1>6, <2>1, <2>2
  <2>4. after[i + 1] = turn[i][after[i]] /\ after[i] \in AllPages
    BY <1>5, <2>2
  <2> QED BY <1>3, <2>2, <2>3, <2>4
<1>11. Follows(mem, top, va, chain)
  BY <1>8, <1>9, <1>10 DEF Follows
<1>12. ShownAt(mem, top, va) = Shown(mem, EntryFor(mem, chain, va))
  BY <1>5, <1>9 DEF ShownAt, EntryFor, turn
<1> QED BY <1>11, <1>12

\* A way that has ended leads to no entry.
LEMMA ChainEnds ==
  ASSUME NEW mem, NEW top, NEW va, NEW chain, Follows(mem, top, va, chain),
         NEW level \in 0 .. RootLevel, chain[level] \notin Dram
  PROVE  chain[0] \notin Dram
<1> DEFINE at == [l \in 0 .. RootLevel |-> chain[l] \notin Dram => chain[0] \notin Dram]
           I == [l \in 0 .. RootLevel |-> {TRUE}]
<1>1. /\ RootLevel \in Nat /\ 0 \in 0 .. RootLevel
      /\ \A l \in 0 .. RootLevel - 1 : l \in 0 .. RootLevel /\ l + 1 \in 0 .. RootLevel
  BY PageConstants
<1>2. at[0] \in I[0]
  BY <1>1
<1>3. ASSUME NEW l \in 0 .. RootLevel - 1, at[l] \in I[l] PROVE at[l + 1] \in I[l + 1]
  <2>1. chain[l] \notin Dram => chain[0] \notin Dram
    BY <1>1, <1>3
  <2>2. chain[l + 1] \notin Dram => chain[l] \notin Dram
    BY PagesInDram DEF Follows, Under
  <2> QED BY <1>1, <2>1, <2>2
<1> HIDE DEF at, I
<1>4. \A l \in 0 .. RootLevel : at[l] \in I[l]
  BY <1>1, <1>2, <1>3, LevelInduction
<1> QED BY <1>4 DEF at, I

-----------------------------------------------------------------------------
(* What a walk collects: the entries of its range, and only these.         *)

\* ch has the ways to all addresses.
Chains(top, ch) == \A va \in Vas : Follows(memory, top, va, ch[va])
Listed(w) == {w.mappings[j] : j \in 1 .. Len(w.mappings)}
FoundIn(ch, x, first, last) ==
  x.va \in first .. last /\ x.table = ch[x.va][0] /\ x.slot = Index(0, x.va)
InUse(ch, va) == Valid(EntryFor(memory, ch[va], va))

\* A walk that goes on from another has found more, only there, and all that is
\* in use at the addresses of a set.
FindsMore(ch, old, w, first, last, S) ==
  w.ok =>
    /\ old.ok /\ Listed(old) \subseteq Listed(w)
    /\ \A x \in Listed(w) \ Listed(old) : FoundIn(ch, x, first, last)
    /\ \A va \in S : InUse(ch, va) => \E x \in Listed(w) : x.va = va
Fits(ch, level, part) ==
  /\ 0 <= part.first /\ part.first <= part.last /\ part.last < MaxVa
  /\ part.first \div Span(level + 1) = part.last \div Span(level + 1)
  /\ \A va \in part.first .. part.last : ch[va][level] = part.table
Finds(ch, part, r) ==
  FindsMore(ch, part.walk, r, part.first, part.last, part.first .. part.last)
Finders(ch, level) ==
  {f \in [Parts -> Walks] : \A part \in Parts : Fits(ch, level, part) => Finds(ch, part, f[part])}

\* The addresses of a part whose entries of a level are below slot.
Lower(level, part, slot) == {va \in part.first .. part.last : Index(level, va) < slot}
InVisit(ch, level, part, slot) ==
  {w \in Walks : FindsMore(ch, part.walk, w, part.first, part.last, Lower(level, part, slot))}

\* Without a change, when nothing is there.
LEMMA FindsSame ==
  ASSUME NEW ch, NEW old, NEW w, NEW first, NEW last, NEW S, NEW T,
         FindsMore(ch, old, w, first, last, S),
         \A va \in T : va \in S \/ ~InUse(ch, va)
  PROVE  FindsMore(ch, old, w, first, last, T)
BY DEF FindsMore

\* One after the other.
LEMMA FindsOn ==
  ASSUME NEW ch, NEW old, NEW w, NEW first, NEW last, NEW S,
         FindsMore(ch, old, w, first, last, S),
         NEW n, NEW first2, NEW last2, NEW R,
         FindsMore(ch, w, n, first2, last2, R),
         \A x : FoundIn(ch, x, first2, last2) => FoundIn(ch, x, first, last)
  PROVE  FindsMore(ch, old, n, first, last, S \cup R)
<1> SUFFICES ASSUME n.ok
             PROVE  /\ old.ok /\ Listed(old) \subseteq Listed(n)
                    /\ \A x \in Listed(n) \ Listed(old) : FoundIn(ch, x, first, last)
                    /\ \A va \in S \cup R : InUse(ch, va) => \E x \in Listed(n) : x.va = va
  BY DEF FindsMore
<1>1. /\ w.ok /\ Listed(w) \subseteq Listed(n)
      /\ \A x \in Listed(n) \ Listed(w) : FoundIn(ch, x, first2, last2)
      /\ \A va \in R : InUse(ch, va) => \E x \in Listed(n) : x.va = va
  BY DEF FindsMore
<1>2. /\ old.ok /\ Listed(old) \subseteq Listed(w)
      /\ \A x \in Listed(w) \ Listed(old) : FoundIn(ch, x, first, last)
      /\ \A va \in S : InUse(ch, va) => \E x \in Listed(w) : x.va = va
  BY <1>1 DEF FindsMore
<1> QED BY <1>1, <1>2

\* The last level.
LEMMA CollectLeafFinds ==
  ASSUME memory \in Memories, NEW ch, NEW w \in Walks, NEW table, NEW slot, NEW va,
         table = ch[va][0], slot = Index(0, va), va \in Int,
         NEW n, n = CollectLeaf(w, table, slot, va)
  PROVE  n.ok => FindsMore(ch, w, n, va, va, {va}) \/ ~w.ok
<1> SUFFICES ASSUME n.ok, w.ok PROVE FindsMore(ch, w, n, va, va, {va})
  OBVIOUS
<1> DEFINE pte == memory[table][slot]
           x == [table |-> table, slot |-> slot, va |-> va,
                 page |-> pte.page, flags |-> pte.flags]
<1>1. n = [w EXCEPT !.mappings = Append(@, x)]
  BY WalkTypes DEF CollectLeaf
<1>2. x.table = table /\ x.slot = slot /\ x.va = va
  OBVIOUS
<1> HIDE DEF x
<1>3. n.mappings = Append(w.mappings, x)
  BY <1>1 DEF Walks
<1>4. PICK k \in Nat : k = Len(w.mappings)
  BY WalkTypes
<1>5. Len(n.mappings) = k + 1 /\ n.mappings[k + 1] = x
      /\ \A j \in 1 .. k : n.mappings[j] = w.mappings[j]
  BY <1>3, <1>4, WalkTypes
<1>6. \A j : j \in 1 .. k + 1 <=> j \in 1 .. k \/ j = k + 1
  OBVIOUS
<1>7. Listed(n) = Listed(w) \cup {x}
  <2>1. Listed(w) = {w.mappings[j] : j \in 1 .. k} /\ Listed(n) = {n.mappings[j] : j \in 1 .. k + 1}
    BY <1>4, <1>5 DEF Listed
  <2> QED BY <1>5, <1>6, <2>1
<1>8. FoundIn(ch, x, va, va)
  BY <1>2 DEF FoundIn
<1> QED BY <1>2, <1>7, <1>8 DEF FindsMore

\* The part of the range below one entry.
PartBelow(level, part, slot, table, w) ==
  LET low == LowOf(level, part.first, slot)
      end == low + Span(level)
  IN  [walk |-> w, table |-> table,
       first |-> IF part.first > low THEN part.first ELSE low,
       last |-> IF part.last < end THEN part.last ELSE end - 1]

LEMMA BelowIs ==
  ASSUME NEW level \in 0 .. RootLevel, NEW ch, NEW part \in Parts, Fits(ch, level, part),
         NEW slot \in Index(level, part.first) .. Index(level, part.last),
         NEW table \in AllPages, NEW w \in Walks,
         NEW sub, sub = PartBelow(level, part, slot, table, w)
  PROVE  /\ slot \in SlotNumbers
         /\ sub \in Parts /\ sub.walk = w /\ sub.table = table
         /\ part.first <= sub.first /\ sub.first <= sub.last /\ sub.last <= part.last
         /\ \A va \in part.first .. part.last :
              /\ Index(level, va) = slot <=> va \in sub.first .. sub.last
              /\ Index(level, va) < slot + 1
                   <=> Index(level, va) < slot \/ va \in sub.first .. sub.last
         /\ sub.first \div Span(level) = sub.last \div Span(level)
         /\ level = 0 => sub.first = LowOf(level, part.first, slot)
                         /\ sub.last = sub.first
<1>1. level \in Nat /\ part.first \in Int /\ part.last \in Int
  BY PageConstants DEF Parts
<1>2. Index(level, part.first) \in SlotNumbers /\ Index(level, part.last) \in SlotNumbers
  BY <1>1, IndexTyped
<1>3. slot \in SlotNumbers /\ slot \in Int
  BY <1>2, PageConstants DEF SlotNumbers
<1>4. PICK low, end :
        /\ low = LowOf(level, part.first, slot)
        /\ end = low + Span(level)
  OBVIOUS
<1>5. /\ low \in Int /\ end \in Int /\ low < end
      /\ \A va \in part.first .. part.last : Index(level, va) = slot <=> low <= va /\ va < end
      /\ \A a, b \in low .. end - 1 : a \div Span(level) = b \div Span(level)
      /\ part.first < end /\ low <= part.last
  <2>1. part.first \div Span(level + 1) = part.last \div Span(level + 1)
    BY DEF Fits
  <2>2. Index(level, part.first) <= slot /\ slot <= Index(level, part.last)
    BY <1>2 DEF SlotNumbers
  <2>3. PICK first \in Int, last \in Int : first = part.first /\ last = part.last
    BY <1>1
  <2>4. /\ first \div Span(level + 1) = last \div Span(level + 1)
        /\ low = LowOf(level, first, slot)
    BY <1>4, <2>1, <2>3
  <2>5. /\ low \in Int /\ end \in Int /\ low < end
        /\ \A va \in first .. last :
             /\ Index(level, va) = slot <=> low <= va /\ va < end
             /\ Index(level, va) < slot <=> va < low
        /\ \A a, b \in low .. end - 1 : a \div Span(level) = b \div Span(level)
        /\ Index(level, first) <= slot /\ slot <= Index(level, last)
            => first < end /\ low <= last
    <3>1. level \in Nat /\ end = low + Span(level)
      BY <1>1, <1>4
    <3>2. SplitAt(level, first, last, slot, low, end)
      BY <1>3, <2>4, <3>1, EntryRange
    <3> QED BY <3>2 DEF SplitAt
  <2> QED BY <2>2, <2>3, <2>5
<1>6. PICK a \in Int, b \in Int :
        /\ a = IF part.first > low THEN part.first ELSE low
        /\ b = IF part.last < end THEN part.last ELSE end - 1
  BY <1>1, <1>5
<1>7. sub = [walk |-> w, table |-> table, first |-> a, last |-> b]
  BY <1>4, <1>6 DEF PartBelow
<1>8. sub \in Parts /\ sub.walk = w /\ sub.table = table /\ sub.first = a /\ sub.last = b
  BY <1>7 DEF Parts
<1>9. part.first <= part.last
  BY DEF Fits
<1>10. part.first <= a /\ a <= b /\ b <= part.last /\ low <= a /\ b <= end - 1
  BY <1>1, <1>5, <1>6, <1>9
<1>11. \A va \in part.first .. part.last : Index(level, va) = slot <=> va \in a .. b
  BY <1>1, <1>5, <1>6
<1>12. \A va \in part.first .. part.last :
         Index(level, va) < slot + 1 <=> Index(level, va) < slot \/ va \in a .. b
  <2>1. \A va \in part.first .. part.last : Index(level, va) \in Int
    <3>1. \A va \in part.first .. part.last : Index(level, va) \in SlotNumbers
      BY <1>1, IndexTyped
    <3> QED BY <3>1 DEF SlotNumbers
  <2> QED BY <1>3, <1>11, <2>1
<1>13. a \div Span(level) = b \div Span(level)
  BY <1>5, <1>10
<1>14. level = 0 => a = low /\ b = low
  BY <1>1, <1>5, <1>6, SpanNext, <1>4, <1>10
<1> QED BY <1>3, <1>4, <1>8, <1>10, <1>11, <1>12, <1>13, <1>14

\* One entry of a table is visited.
LEMMA VisitEntryFinds ==
  ASSUME memory \in Memories, NEW top, NEW ch, Chains(top, ch), NEW level \in 0 .. RootLevel,
         NEW below, level # 0 => below \in Finders(ch, level - 1),
         NEW part \in Parts, Fits(ch, level, part), part.table \in Dram,
         NEW slot \in Index(level, part.first) .. Index(level, part.last),
         NEW w \in InVisit(ch, level, part, slot)
  PROVE  VisitEntry(level, below, part, slot, w) \in InVisit(ch, level, part, slot + 1)
<1> DEFINE table == part.table
           pte == memory[table][slot]
           sub == PartBelow(level, part, slot, pte.page, w)
           low == LowOf(level, part.first, slot)
           n == VisitEntry(level, below, part, slot, w)
<1>1. /\ w \in Walks
      /\ FindsMore(ch, part.walk, w, part.first, part.last, Lower(level, part, slot))
  BY DEF InVisit
<1>2. level \in Nat /\ part.first \in Int /\ part.last \in Int
  BY PageConstants DEF Parts
<1>3. slot \in SlotNumbers
  <2>1. Index(level, part.first) \in SlotNumbers /\ Index(level, part.last) \in SlotNumbers
    BY <1>2, IndexTyped
  <2> QED BY <2>1, PageConstants DEF SlotNumbers
<1>4. pte.page \in AllPages
  BY <1>3, MemoryTypes
<1>5. /\ sub \in Parts /\ sub.walk = w /\ sub.table = pte.page
      /\ part.first <= sub.first /\ sub.first <= sub.last /\ sub.last <= part.last
      /\ \A va \in part.first .. part.last :
           /\ Index(level, va) = slot <=> va \in sub.first .. sub.last
           /\ Index(level, va) < slot + 1
                <=> Index(level, va) < slot \/ va \in sub.first .. sub.last
      /\ sub.first \div Span(level) = sub.last \div Span(level)
      /\ level = 0 => sub.first = low /\ sub.last = sub.first
  <2> HIDE DEF sub
  <2>1. sub = PartBelow(level, part, slot, pte.page, w)
    BY DEF sub
  <2> HIDE DEF pte
  <2> QED BY <1>1, <1>4, <2>1, BelowIs
<1>6. sub.first \in Int /\ sub.last \in Int
  BY <1>5 DEF Parts
<1> HIDE DEF sub
<1>7. PICK a \in Int, b \in Int : a = sub.first /\ b = sub.last
  BY <1>6
<1>8. \A va \in a .. b : va \in part.first .. part.last
  BY <1>2, <1>5, <1>7
<1>9. Lower(level, part, slot + 1) = Lower(level, part, slot) \cup (a .. b)
  BY <1>5, <1>7, <1>8 DEF Lower
<1>10. ASSUME NEW va \in a .. b
       PROVE  /\ va \in Vas /\ Index(level, va) = slot /\ ch[va][level] = table
              /\ Follows(memory, top, va, ch[va])
  <2>1. va \in Vas
    BY <1>2, <1>8, PageConstants DEF Fits, Vas
  <2> QED BY <1>5, <1>7, <1>8, <2>1 DEF Fits, Chains
<1>11. ASSUME NEW m \in Walks, FindsMore(ch, w, m, a, b, a .. b)
       PROVE  m \in InVisit(ch, level, part, slot + 1)
  <2>1. \A x : FoundIn(ch, x, a, b) => FoundIn(ch, x, part.first, part.last)
    BY <1>8 DEF FoundIn
  <2>2. FindsMore(ch, part.walk, m, part.first, part.last, Lower(level, part, slot) \cup (a .. b))
    BY <1>1, <1>11, <2>1, FindsOn
  <2> QED BY <1>9, <1>11, <2>2 DEF InVisit
<1>12. ASSUME NEW m \in Walks, ~m.ok PROVE m \in InVisit(ch, level, part, slot + 1)
  BY <1>12 DEF InVisit, FindsMore
<1>13. CASE ~w.ok
  <2>1. n = w
    BY <1>13 DEF VisitEntry
  <2> QED BY <1>1, <1>12, <1>13, <2>1
<1>14. CASE w.ok /\ ~Valid(pte)
  <2>1. n = w
    BY <1>14 DEF VisitEntry
  <2>2. ASSUME NEW va \in a .. b PROVE ~InUse(ch, va)
    <3>1. /\ Index(level, va) = slot /\ ch[va][level] = table
          /\ Follows(memory, top, va, ch[va])
      BY <1>10
    <3>2. CASE level = 0
      BY <1>14, <3>1, <3>2 DEF InUse, EntryFor
    <3>3. CASE level # 0
      <4>1. level - 1 \in 0 .. RootLevel - 1 /\ level - 1 + 1 = level /\ level - 1 \in 0 .. RootLevel
        BY <1>2, <3>3, PageConstants
      <4>2. ch[va][level - 1] = Under(memory, table, slot)
        BY <3>1, <4>1 DEF Follows
      <4>3. ch[va][level - 1] \notin Dram
        BY <1>14, <4>2, PagesInDram DEF Under, Points
      <4>4. ch[va][0] \notin Dram
        BY <3>1, <4>1, <4>3, ChainEnds
      <4> QED BY <4>4, WordKinds DEF InUse, EntryFor
    <3> QED BY <3>2, <3>3
  <2>3. FindsMore(ch, w, w, a, b, a .. b)
    BY <2>2, <1>14 DEF FindsMore
  <2> QED BY <1>1, <1>11, <2>1, <2>3
<1>15. CASE w.ok /\ Valid(pte) /\ level = 0
  <2>1. n = CollectLeaf(w, table, slot, low)
    BY <1>15 DEF VisitEntry, LowOf
  <2>2. low = a /\ a = b /\ a \in a .. b /\ a .. b = {a}
    BY <1>5, <1>7, <1>15
  <2>3. n \in Walks
    BY <1>1, <1>3, <2>1, <2>2, CollectLeafTyped
  <2>4. table = ch[a][0] /\ slot = Index(0, a)
    BY <1>10, <1>15, <2>2
  <2>5. n.ok => FindsMore(ch, w, n, a, a, {a})
    <3> HIDE DEF n, table, low
    <3> QED BY <1>1, <1>15, <2>1, <2>2, <2>4, CollectLeafFinds
  <2> HIDE DEF n
  <2>6. n \in InVisit(ch, level, part, slot + 1)
    BY <1>11, <1>12, <2>2, <2>3, <2>5
  <2> QED BY <2>6 DEF n
<1>16. CASE w.ok /\ Valid(pte) /\ level # 0 /\ Leaf(pte)
  <2>1. n = Fail(w)
    BY <1>16 DEF VisitEntry
  <2> QED BY <1>1, <1>12, <2>1, WalkTypes
<1>17. CASE w.ok /\ Valid(pte) /\ level # 0 /\ ~Leaf(pte)
  <2>1. n = below[sub]
    BY <1>17 DEF VisitEntry, sub, PartBelow, LowOf
  <2>2. level - 1 \in 0 .. RootLevel - 1 /\ level - 1 + 1 = level
    BY <1>2, <1>17, PageConstants
  <2>3. ASSUME NEW va \in a .. b PROVE ch[va][level - 1] = pte.page
    <3>1. /\ Index(level, va) = slot /\ ch[va][level] = table
          /\ Follows(memory, top, va, ch[va])
      BY <1>10
    <3>2. ch[va][level - 1] = Under(memory, table, slot)
      BY <2>2, <3>1 DEF Follows
    <3>3. Points(pte)
      BY <1>17 DEF Points
    <3> QED BY <3>2, <3>3 DEF Under
  <2>4. Fits(ch, level - 1, sub)
    <3>1. 0 <= sub.first /\ sub.first <= sub.last /\ sub.last < MaxVa
      BY <1>2, <1>5, <1>6, PageConstants DEF Fits
    <3> QED BY <1>5, <1>7, <2>2, <2>3, <3>1 DEF Fits
  <2>5. below \in [Parts -> Walks] /\ Finds(ch, sub, below[sub])
    BY <1>5, <1>17, <2>4 DEF Finders
  <2> HIDE DEF n
  <2>6. n \in Walks /\ FindsMore(ch, w, n, a, b, a .. b)
    BY <1>5, <1>7, <2>1, <2>5 DEF Finds
  <2>7. n \in InVisit(ch, level, part, slot + 1)
    BY <1>11, <2>6
  <2> QED BY <2>7 DEF n
<1> QED BY <1>13, <1>14, <1>15, <1>16, <1>17

\* One level of xv6_collect_mappings.
LEMMA CollectAtFinds ==
  ASSUME memory \in Memories, NEW top, NEW ch, Chains(top, ch), NEW level \in 0 .. RootLevel,
         NEW below, level # 0 => below \in Finders(ch, level - 1),
         CollectAt(level, below) \in [Parts -> Walks]
  PROVE  CollectAt(level, below) \in Finders(ch, level)
<1>1. ASSUME NEW part \in Parts, Fits(ch, level, part)
      PROVE  Finds(ch, part, CollectAt(level, below)[part])
  <2> DEFINE table == part.table
             from == Index(level, part.first)
             count == Index(level, part.last) - from + 1
             Visit == [i \in Nat |-> [w \in Walks |-> VisitEntry(level, below, part, from + i, w)]]
             start == [part.walk EXCEPT !.visited = @ \cup {table}]
             r == CollectAt(level, below)[part]
  <2>1. part.walk \in Walks /\ part.first \in Int /\ part.last \in Int /\ level \in Nat
    BY PageConstants DEF Parts
  <2>2. CASE table \notin Dram \/ Cardinality(part.walk.visited) >= MaxPages
             \/ table \in part.walk.visited
    <3>1. r = Fail(part.walk)
      BY <2>2 DEF CollectAt
    <3>2. ~r.ok
      BY <2>1, <3>1, WalkTypes
    <3> QED BY <3>2 DEF Finds, FindsMore
  <2>3. CASE ~(table \notin Dram \/ Cardinality(part.walk.visited) >= MaxPages
               \/ table \in part.walk.visited)
    <3>1. r = Repeat(Visit, start, count)
      BY <2>3 DEF CollectAt, VisitEntry
    <3>2. start \in Walks /\ start.ok = part.walk.ok /\ Listed(start) = Listed(part.walk)
      <4>1. start \in Walks /\ start.ok = part.walk.ok /\ start.mappings = part.walk.mappings
        BY <2>1, <2>3 DEF Walks
      <4> QED BY <4>1 DEF Listed
    <3>3. PICK a \in SlotNumbers, b \in SlotNumbers : a = from /\ b = Index(level, part.last)
      BY <2>1, IndexTyped
    <3>4. a \in Int /\ b \in Int /\ 0 <= a
      BY <3>3 DEF SlotNumbers
    <3>5. \A va \in part.first .. part.last :
            Index(level, va) \in Int /\ a <= Index(level, va) /\ Index(level, va) <= b
      <4> SUFFICES ASSUME NEW va \in part.first .. part.last
                   PROVE  Index(level, va) \in Int /\ a <= Index(level, va) /\ Index(level, va) <= b
        OBVIOUS
      <4>1. PICK c \in Nat \ {0} : c = Span(level + 1)
        BY <2>1, SpanPositive
      <4>2. /\ part.first \div c = part.last \div c /\ va \in Int
            /\ part.first <= va /\ va <= part.last
        BY <1>1, <2>1, <4>1 DEF Fits
      <4>3. va \div c = part.first \div c /\ va \div c = part.last \div c
        BY <2>1, <4>1, <4>2, BlockBetween
      <4>4. Index(level, va) \in Int /\ a <= Index(level, va)
        BY <2>1, <3>3, <4>1, <4>2, <4>3, IndexOrder
      <4>5. Index(level, va) <= b
        BY <2>1, <3>3, <4>1, <4>2, <4>3, IndexOrder
      <4> QED BY <4>4, <4>5
    <3>6. a <= b
      <4>1. part.first \in part.first .. part.last
        BY <1>1, <2>1 DEF Fits
      <4> QED BY <3>3, <3>5, <4>1
    <3>7. PICK c \in Nat : c = b - a + 1
      BY <3>4, <3>6
    <3> DEFINE I == [i \in Nat |-> InVisit(ch, level, part, a + i)]
    <3>8. start \in I[0]
      <4>1. Lower(level, part, a + 0) = {}
        BY <3>4, <3>5 DEF Lower
      <4> HIDE DEF start
      <4>2. start \in InVisit(ch, level, part, a + 0)
        BY <3>2, <4>1 DEF InVisit, FindsMore
      <4> QED BY <4>2
    <3>9. \A i \in 0 .. c - 1 : \A s \in I[i] : Visit[i][s] \in I[i + 1]
      <4> SUFFICES ASSUME NEW i \in 0 .. c - 1, NEW s \in I[i]
                   PROVE  Visit[i][s] \in I[i + 1]
        OBVIOUS
      <4>1. i \in Nat /\ i + 1 \in Nat
        OBVIOUS
      <4>2. s \in InVisit(ch, level, part, a + i) /\ s \in Walks
        BY <4>1 DEF InVisit
      <4>3. PICK slot \in a .. b : slot = a + i /\ slot + 1 = a + (i + 1)
        BY <3>4, <3>7
      <4>4. VisitEntry(level, below, part, slot, s) \in InVisit(ch, level, part, slot + 1)
        BY <1>1, <2>3, <3>3, <4>2, <4>3, VisitEntryFinds
      <4> QED BY <3>3, <4>1, <4>2, <4>3, <4>4
    <3>10. count = c
      BY <3>3, <3>7
    <3> HIDE DEF Visit, start, I
    <3>11. Repeat(Visit, start, c) \in I[c]
      BY <3>8, <3>9, RepeatKeeps
    <3>12. r \in InVisit(ch, level, part, a + c)
      BY <3>1, <3>10, <3>11 DEF I
    <3>13. Lower(level, part, a + c) = part.first .. part.last
      BY <3>4, <3>5, <3>7 DEF Lower
    <3> HIDE DEF r
    <3> QED BY <3>12, <3>13 DEF InVisit, Finds, r
  <2> QED BY <2>2, <2>3
<1>2. PICK f : f = CollectAt(level, below)
  OBVIOUS
<1> QED BY <1>1, <1>2 DEF Finders

\* xv6_leaf_mappings finds all entries in use at the addresses of its range,
\* and nothing else.
LEMMA LeafMappingsFinds ==
  ASSUME memory \in Memories, NEW own, TablesOK(own, Store), NEW top,
         TableAt(own, top, RootLevel), NEW ch, Chains(top, ch),
         NEW first \in Int, NEW end \in Int, 0 <= first, first < end,
         NEW physical \in SUBSET AllPages, NEW w, w = LeafMappings(top, first, end, physical),
         w.ok
  PROVE  /\ end <= MaxVa
         /\ \A x \in Listed(w) : FoundIn(ch, x, first, end - 1)
         /\ \A va \in first .. end - 1 : InUse(ch, va) => \E x \in Listed(w) : x.va = va
<1> DEFINE walk == [ok |-> end <= MaxVa, visited |-> {}, mappings |-> <<>>,
                    physical |-> physical]
           part == [walk |-> walk, table |-> top, first |-> first, last |-> end - 1]
<1>1. end <= MaxVa
  <2>1. walk.ok = (end <= MaxVa)
    OBVIOUS
  <2> HIDE DEF walk
  <2>2. walk.ok \/ w = walk
    BY DEF LeafMappings, walk
  <2> QED BY <2>1, <2>2
<1>2. w = CollectMappings(part)
  BY <1>1 DEF LeafMappings
<1>3. walk \in Walks /\ Listed(walk) = {}
  <2>1. walk = [ok |-> TRUE, visited |-> {}, mappings |-> <<>>, physical |-> physical]
    BY <1>1
  <2> HIDE DEF walk
  <2>2. <<>> \in Seq(LeafMapping)
    OBVIOUS
  <2>3. walk \in Walks /\ walk.mappings = <<>>
    BY <2>1, <2>2 DEF Walks
  <2> QED BY <2>3 DEF Listed
<1> HIDE DEF walk
<1>4. /\ part \in Parts /\ part.walk = walk /\ part.table = top /\ part.first = first
      /\ part.last = end - 1
  <2>1. top \in AllPages /\ end - 1 \in Int
    BY PagesInDram DEF TableAt, Used
  <2> QED BY <1>3, <2>1 DEF Parts
<1> HIDE DEF part
<1>5. Fits(ch, RootLevel, part)
  <2>1. PICK c \in Nat \ {0} : c = Span(RootLevel + 1) /\ MaxVa <= c
    <3>1. RootLevel + 1 \in Nat
      BY PageConstants
    <3>2. MaxVa \in 1 .. Span(RootLevel + 1)
      BY PagesAssumption
    <3>3. \A c \in Nat : MaxVa \in 1 .. c => MaxVa <= c
      OBVIOUS
    <3> QED BY <3>1, <3>2, <3>3, SpanPositive
  <2>2. \A x \in first .. end - 1 : x \div c = 0
    <3> SUFFICES ASSUME NEW x \in first .. end - 1 PROVE x \div c = 0
      OBVIOUS
    <3>1. c * 0 = 0 /\ 0 <= x /\ x < 0 + c /\ x \in Int
      BY <1>1, <2>1, PageConstants
    <3> QED BY <3>1, QuotientIs
  <2>3. first \in first .. end - 1 /\ end - 1 \in first .. end - 1
    OBVIOUS
  <2>4. \A va \in first .. end - 1 : ch[va][RootLevel] = top
    <3> SUFFICES ASSUME NEW va \in first .. end - 1 PROVE ch[va][RootLevel] = top
      OBVIOUS
    <3>1. va \in Vas
      BY <1>1, PageConstants DEF Vas
    <3> QED BY <3>1 DEF Chains, Follows
  <2>5. end - 1 < MaxVa
    BY <1>1, PageConstants
  <2> QED BY <1>4, <2>1, <2>2, <2>3, <2>4, <2>5 DEF Fits
<1>6. PICK at : /\ \A l \in 0 .. RootLevel :
                     /\ at[l] \in Collectors(own, l)
                     /\ at[l] = CollectAt(l, IF l = 0 THEN <<>> ELSE at[l - 1])
                /\ CollectMappings(part) = at[RootLevel][part]
  BY <1>4, CollectLevels
<1> DEFINE I == [l \in Nat |-> Finders(ch, l)]
<1>7. \A l \in 0 .. RootLevel : at[l] \in [Parts -> Walks]
  BY <1>6 DEF Collectors
<1>8. RootLevel \in Nat /\ RootLevel \in 0 .. RootLevel /\ 0 \in 0 .. RootLevel
  BY PageConstants
<1>9. at[0] \in I[0]
  <2>1. at[0] = CollectAt(0, <<>>) /\ CollectAt(0, <<>>) \in [Parts -> Walks]
    BY <1>6, <1>7, <1>8
  <2>2. CollectAt(0, <<>>) \in Finders(ch, 0)
    BY <1>8, <2>1, CollectAtFinds
  <2> QED BY <2>1, <2>2
<1>10. ASSUME NEW l \in 0 .. RootLevel - 1, at[l] \in I[l] PROVE at[l + 1] \in I[l + 1]
  <2>1. PICK k \in 0 .. RootLevel : k = l + 1 /\ k # 0 /\ k - 1 = l /\ k \in Nat /\ l \in Nat
    BY <1>8
  <2>2. at[k] = CollectAt(k, at[l]) /\ CollectAt(k, at[l]) \in [Parts -> Walks]
    BY <1>6, <1>7, <2>1
  <2>3. at[l] \in Finders(ch, k - 1)
    BY <1>10, <2>1
  <2>4. CollectAt(k, at[l]) \in Finders(ch, k)
    BY <2>2, <2>3, CollectAtFinds
  <2> QED BY <2>1, <2>2, <2>4
<1> HIDE DEF I
<1>11. \A l \in 0 .. RootLevel : at[l] \in I[l]
  BY <1>8, <1>9, <1>10, LevelInduction
<1>12. at[RootLevel] \in Finders(ch, RootLevel)
  BY <1>8, <1>11 DEF I
<1>13. Finds(ch, part, w)
  BY <1>2, <1>4, <1>5, <1>6, <1>12 DEF Finders
<1> QED BY <1>1, <1>3, <1>4, <1>13 DEF Finds, FindsMore

-----------------------------------------------------------------------------
(* Two ways.                                                               *)

\* The tables on a way are tables, each the child of the next.
LEMMA ChainTables ==
  ASSUME NEW m \in Stores, NEW own, TablesOK(own, m), NEW top,
         top # NoPage => TableAt(own, top, RootLevel),
         NEW va \in Int, NEW chain, Follows(m.memory, top, va, chain)
  PROVE  \A l \in 0 .. RootLevel : chain[l] # NoPage => TableAt(own, chain[l], l)
<1> DEFINE at == [i \in 0 .. RootLevel |->
                    chain[RootLevel - i] # NoPage
                      => TableAt(own, chain[RootLevel - i], RootLevel - i)]
           I == [i \in 0 .. RootLevel |-> {TRUE}]
<1>1. /\ RootLevel \in Nat /\ 0 \in 0 .. RootLevel /\ RootLevel - 0 = RootLevel
      /\ \A i \in 0 .. RootLevel - 1 : i \in 0 .. RootLevel /\ i + 1 \in 0 .. RootLevel
  BY PageConstants
<1>2. at[0] \in I[0]
  BY <1>1 DEF Follows
<1>3. ASSUME NEW i \in 0 .. RootLevel - 1, at[i] \in I[i] PROVE at[i + 1] \in I[i + 1]
  <2>1. PICK l \in 0 .. RootLevel - 1 : l = RootLevel - (i + 1) /\ l + 1 = RootLevel - i
    BY <1>1
  <2>2. chain[l + 1] # NoPage => TableAt(own, chain[l + 1], l + 1)
    BY <1>1, <1>3, <2>1
  <2>3. l + 1 \in Nat /\ l + 1 - 1 = l
    BY <2>1
  <2>4. ASSUME chain[l] # NoPage PROVE TableAt(own, chain[l], l)
    <3>1. PICK t : t = chain[l + 1]
      OBVIOUS
    <3>2. PICK slot \in SlotNumbers : slot = Index(l + 1, va)
      BY <2>3, IndexTyped
    <3>3. chain[l] = Under(m.memory, t, slot)
      BY <3>1, <3>2 DEF Follows
    <3>4. t \in Dram /\ Points(m.memory[t][slot]) /\ m.memory[t][slot].page = chain[l]
      BY <2>4, <3>3 DEF Under
    <3>5. t \in Pages /\ own[t].use = "table" /\ own[t].num = l + 1
      BY <2>2, <3>1, <3>4, PagesInDram DEF TableAt, Used
    <3>6. EntryOK(own, m, t, slot)
      BY <3>5 DEF TablesOK
    <3> QED BY <2>3, <3>4, <3>5, <3>6 DEF EntryOK, PointerOK
  <2> QED BY <1>1, <2>1, <2>4
<1> HIDE DEF at, I
<1>4. \A i \in 0 .. RootLevel : at[i] \in I[i]
  BY <1>1, <1>2, <1>3, LevelInduction
<1>5. SUFFICES ASSUME NEW l \in 0 .. RootLevel, chain[l] # NoPage
               PROVE  TableAt(own, chain[l], l)
  OBVIOUS
<1>6. PICK i \in 0 .. RootLevel : RootLevel - i = l
  <2>1. RootLevel - l \in 0 .. RootLevel /\ RootLevel - (RootLevel - l) = l
    BY <1>1
  <2> QED BY <2>1
<1> QED BY <1>4, <1>5, <1>6 DEF at, I

LEMMA ChainUp ==
  ASSUME NEW m \in Stores, NEW own, TablesOK(own, m), NEW top,
         top # NoPage => TableAt(own, top, RootLevel),
         NEW va \in Int, NEW chain, Follows(m.memory, top, va, chain),
         NEW l \in 0 .. RootLevel - 1, chain[l] # NoPage
  PROVE  /\ chain[l + 1] # NoPage /\ chain[l + 1] \in Dram /\ TableAt(own, chain[l + 1], l + 1)
         /\ own[chain[l]].up = chain[l + 1]
         /\ Points(m.memory[chain[l + 1]][Index(l + 1, va)])
         /\ m.memory[chain[l + 1]][Index(l + 1, va)].page = chain[l]
         /\ m.memory[chain[l + 1]][Index(l + 1, va)].kind = "pte"
<1>1. l + 1 \in Nat /\ l + 1 \in 0 .. RootLevel
  BY PageConstants
<1>2. PICK t : t = chain[l + 1]
  OBVIOUS
<1>8. PICK slot \in SlotNumbers : slot = Index(l + 1, va)
  BY <1>1, IndexTyped
<1>3. chain[l] = Under(m.memory, t, slot)
  BY <1>2, <1>8 DEF Follows
<1>4. t \in Dram /\ Points(m.memory[t][slot]) /\ m.memory[t][slot].page = chain[l]
  BY <1>3 DEF Under
<1>5. t # NoPage
  BY <1>4, PagesInDram
<1>6. TableAt(own, t, l + 1)
  BY <1>1, <1>2, <1>5, ChainTables
<1>7. EntryOK(own, m, t, slot)
  BY <1>6 DEF TablesOK, TableAt, Used
<1> QED BY <1>2, <1>4, <1>5, <1>6, <1>7, <1>8 DEF EntryOK, PointerOK

\* Two ways that meet are the same above.
LEMMA SameWay ==
  ASSUME NEW m \in Stores, NEW own, TablesOK(own, m),
         NEW a, a # NoPage => TableAt(own, a, RootLevel),
         NEW b, b # NoPage => TableAt(own, b, RootLevel),
         NEW va \in Int, NEW c, Follows(m.memory, a, va, c),
         NEW wa \in Int, NEW d, Follows(m.memory, b, wa, d),
         c[0] = d[0], c[0] # NoPage
  PROVE  \A l \in 0 .. RootLevel : c[l] = d[l] /\ c[l] # NoPage
<1> DEFINE at == [l \in 0 .. RootLevel |-> c[l] = d[l] /\ c[l] # NoPage]
           I == [l \in 0 .. RootLevel |-> {TRUE}]
<1>1. /\ RootLevel \in Nat /\ 0 \in 0 .. RootLevel
      /\ \A i \in 0 .. RootLevel - 1 : i \in 0 .. RootLevel /\ i + 1 \in 0 .. RootLevel
  BY PageConstants
<1>2. at[0] \in I[0]
  BY <1>1
<1>3. ASSUME NEW l \in 0 .. RootLevel - 1, at[l] \in I[l] PROVE at[l + 1] \in I[l + 1]
  <2>1. c[l] = d[l] /\ c[l] # NoPage
    BY <1>1, <1>3
  <2>2. c[l + 1] # NoPage /\ own[c[l]].up = c[l + 1]
    BY <2>1, ChainUp
  <2>3. own[d[l]].up = d[l + 1]
    BY <2>1, ChainUp
  <2> QED BY <1>1, <2>1, <2>2, <2>3
<1> HIDE DEF at, I
<1>4. \A l \in 0 .. RootLevel : at[l] \in I[l]
  BY <1>1, <1>2, <1>3, LevelInduction
<1> QED BY <1>4 DEF at, I

\* No table has two ways to it from a root.
Apart(mem, top) ==
  \A va, wa \in Vas : \A c, d :
    Follows(mem, top, va, c) /\ Follows(mem, top, wa, d)
      => \A l \in 0 .. RootLevel :
           c[l] = d[l] /\ c[l] # NoPage => va \div Span(l + 1) = wa \div Span(l + 1)

\* Then an entry of the last level is for one address.
LEMMA OneAddress ==
  ASSUME NEW mem, NEW top, Apart(mem, top), NEW va \in Vas, NEW wa \in Vas,
         NEW c, Follows(mem, top, va, c), NEW d, Follows(mem, top, wa, d),
         c[0] = d[0], c[0] # NoPage, Index(0, va) = Index(0, wa)
  PROVE  va = wa
<1>1. va \in Int /\ wa \in Int
  BY PageConstants DEF Vas
<1>2. va \div Span(1) = wa \div Span(1)
  <2>1. 0 \in 0 .. RootLevel /\ 0 + 1 = 1
    BY PageConstants
  <2>2. va \div Span(0 + 1) = wa \div Span(0 + 1)
    BY <2>1 DEF Apart
  <2> QED BY <2>1, <2>2
<1>3. \A x \in Int : x \div Span(0) = Slots * (x \div Span(1)) + Index(0, x)
  <2>1. 0 \in Nat /\ 0 + 1 = 1
    OBVIOUS
  <2>2. \A x \in Int : x \div Span(0) = Slots * (x \div Span(0 + 1)) + Index(0, x)
    BY <2>1, IndexIs
  <2> QED BY <2>1, <2>2
<1>4. va \div Span(0) = wa \div Span(0)
  BY <1>1, <1>2, <1>3
<1>5. \A x \in Int : x \div 1 = x
  OBVIOUS
<1> QED BY <1>1, <1>4, <1>5, SpanNext

\* Entries that lead to the same table are the same word.
LEMMA SameWord ==
  ASSUME NEW a \in Words, NEW b \in Words, Points(a), Points(b),
         a.kind = "pte", b.kind = "pte", a.page = b.page
  PROVE  a = b
<1>1. a.flags = {} /\ b.flags = {} /\ a.value = 0 /\ b.value = 0
  BY DEF Points, Leaf, Words
<1>2. /\ a = [kind |-> a.kind, page |-> a.page, flags |-> a.flags, value |-> a.value]
      /\ b = [kind |-> b.kind, page |-> b.page, flags |-> b.flags, value |-> b.value]
  BY DEF Words
<1> QED BY <1>1, <1>2

\* The tables of a level are the children of those above.
LEMMA TablesBelow ==
  ASSUME PageInv, NEW own, Sound(own, Store, held, root), NEW space \in Spaces,
         NEW level \in 0 .. RootLevel - 1
  PROVE  TablesOf(space, level) = ChildrenOf(TablesOf(space, level + 1))
<1>1. RootLevel \in Nat /\ level + 1 \in 0 .. RootLevel /\ level \in 0 .. RootLevel
  BY PageConstants
<1>2. PICK n \in Nat : n = RootLevel - (level + 1) /\ RootLevel - level = n + 1
  BY <1>1
<1>3. PICK start : start = {root[space]} \ {NoPage}
  OBVIOUS
<1>4. PICK S : S = SUBSET AllPages
  OBVIOUS
<1>5. /\ TablesOf(space, level + 1) = Repeat(BelowTables, start, n)
      /\ TablesOf(space, level) = Repeat(BelowTables, start, n + 1)
      /\ \A i \in Nat : \A s \in S : BelowTables[i][s] \in S /\ BelowTables[i][s] = ChildrenOf(s)
  BY <1>1, <1>2, <1>3, <1>4, TablesOfIs
<1>6. start \in S
  BY <1>3, <1>4 DEF PageInv
<1>7. TablesOf(space, level) = BelowTables[n][TablesOf(space, level + 1)]
  <2>1. \A i \in 0 .. n : \A s \in S : BelowTables[i][s] \in S
    BY <1>5
  <2>2. Repeat(BelowTables, start, n + 1) = BelowTables[n][Repeat(BelowTables, start, n)]
    BY <1>2, <1>6, <2>1, OneMoreTurn
  <2> QED BY <1>5, <2>2
<1>8. TablesOf(space, level + 1) \in S
  <2>1. TablesOf(space, level + 1) \subseteq {q \in Pages : TableAt(own, q, level + 1)}
    BY <1>1, TablesAreTables
  <2> QED BY <1>4, <2>1, PagesInDram
<1> QED BY <1>5, <1>7, <1>8

\* The tables on a way are tables of the space.
LEMMA ChainOfSpace ==
  ASSUME PageInv, NEW own, Sound(own, Store, held, root), NEW space \in Spaces,
         NEW va \in Int, NEW chain, Follows(memory, root[space], va, chain)
  PROVE  \A l \in 0 .. RootLevel : chain[l] # NoPage => chain[l] \in TablesOf(space, l)
<1> DEFINE at == [i \in 0 .. RootLevel |->
                    chain[RootLevel - i] # NoPage
                      => chain[RootLevel - i] \in TablesOf(space, RootLevel - i)]
           I == [i \in 0 .. RootLevel |-> {TRUE}]
<1>1. /\ RootLevel \in Nat /\ 0 \in 0 .. RootLevel /\ RootLevel - 0 = RootLevel
      /\ \A i \in 0 .. RootLevel - 1 : i \in 0 .. RootLevel /\ i + 1 \in 0 .. RootLevel
  BY PageConstants
<1>2. at[0] \in I[0]
  <2>1. RootLevel \in 0 .. RootLevel /\ RootLevel - RootLevel = 0 /\ 0 \in Int /\ 0 <= 0
    BY <1>1
  <2>2. TablesOf(space, RootLevel) = Repeat(BelowTables, {root[space]} \ {NoPage}, 0)
    BY <2>1, TablesOfIs
  <2>3. TablesOf(space, RootLevel) = {root[space]} \ {NoPage}
    BY <2>1, <2>2, NoTurns
  <2>4. chain[RootLevel] # NoPage => chain[RootLevel] \in TablesOf(space, RootLevel)
    BY <2>3 DEF Follows
  <2> QED BY <1>1, <2>4
<1>3. ASSUME NEW i \in 0 .. RootLevel - 1, at[i] \in I[i] PROVE at[i + 1] \in I[i + 1]
  <2>1. PICK l \in 0 .. RootLevel - 1 : l = RootLevel - (i + 1) /\ l + 1 = RootLevel - i
    BY <1>1
  <2>2. chain[l + 1] # NoPage => chain[l + 1] \in TablesOf(space, l + 1)
    BY <1>1, <1>3, <2>1
  <2>3. ASSUME chain[l] # NoPage PROVE chain[l] \in TablesOf(space, l)
    <3>1. PICK t : t = chain[l + 1]
      OBVIOUS
    <3>2. PICK slot \in SlotNumbers : slot = Index(l + 1, va)
      <4>1. l + 1 \in Nat
        BY <2>1
      <4> QED BY <4>1, IndexTyped
    <3>3. chain[l] = Under(memory, t, slot)
      BY <3>1, <3>2 DEF Follows
    <3>4. t \in Dram /\ Points(memory[t][slot]) /\ memory[t][slot].page = chain[l]
      BY <2>3, <3>3 DEF Under
    <3>5. t \in TablesOf(space, l + 1)
      BY <2>2, <3>1, <3>4, PagesInDram
    <3>6. chain[l] \in ChildrenOf(TablesOf(space, l + 1))
      BY <3>4, <3>5, ChildIs
    <3> QED BY <3>6, TablesBelow
  <2> QED BY <1>1, <2>1, <2>3
<1> HIDE DEF at, I
<1>4. \A i \in 0 .. RootLevel : at[i] \in I[i]
  BY <1>1, <1>2, <1>3, LevelInduction
<1>5. SUFFICES ASSUME NEW l \in 0 .. RootLevel, chain[l] # NoPage
               PROVE  chain[l] \in TablesOf(space, l)
  OBVIOUS
<1>6. PICK i \in 0 .. RootLevel : RootLevel - i = l
  <2>1. RootLevel - l \in 0 .. RootLevel /\ RootLevel - (RootLevel - l) = l
    BY <1>1
  <2> QED BY <2>1
<1> QED BY <1>4, <1>5, <1>6 DEF at, I

\* A space that is not shared has one way to each table.
LEMMA UnsharedApart ==
  ASSUME PageInv, NEW own, Sound(own, Store, held, root), NEW space \in Spaces, Unshared(space)
  PROVE  Apart(memory, root[space])
<1> SUFFICES ASSUME NEW va \in Vas, NEW wa \in Vas, NEW c, NEW d,
                    Follows(memory, root[space], va, c), Follows(memory, root[space], wa, d)
             PROVE  \A l \in 0 .. RootLevel :
                      c[l] = d[l] /\ c[l] # NoPage => va \div Span(l + 1) = wa \div Span(l + 1)
  BY DEF Apart
<1> DEFINE Same(l) == c[l] = d[l] /\ c[l] # NoPage => va \div Span(l + 1) = wa \div Span(l + 1)
           at == [i \in 0 .. RootLevel |-> Same(RootLevel - i)]
           I == [i \in 0 .. RootLevel |-> {TRUE}]
<1>1. /\ RootLevel \in Nat /\ 0 \in 0 .. RootLevel /\ RootLevel - 0 = RootLevel
      /\ \A i \in 0 .. RootLevel - 1 : i \in 0 .. RootLevel /\ i + 1 \in 0 .. RootLevel
  BY PageConstants
<1>2. va \in Int /\ wa \in Int /\ 0 <= va /\ 0 <= wa /\ va < MaxVa /\ wa < MaxVa
  BY PageConstants DEF Vas
<1>3. PICK m \in Stores : m = Store /\ m.memory = memory
  BY StoreIs DEF PageInv
<1>4. TablesOK(own, m) /\ (root[space] # NoPage => TableAt(own, root[space], RootLevel))
  BY <1>3 DEF Sound, RootsOK
<1>5. Same(RootLevel)
  <2>1. PICK c1 \in Nat \ {0} : c1 = Span(RootLevel + 1) /\ MaxVa <= c1
    <3>1. RootLevel + 1 \in Nat
      BY PageConstants
    <3>2. MaxVa \in 1 .. Span(RootLevel + 1)
      BY PagesAssumption
    <3>3. \A x \in Nat : MaxVa \in 1 .. x => MaxVa <= x
      OBVIOUS
    <3> QED BY <3>1, <3>2, <3>3, SpanPositive
  <2>2. c1 * 0 = 0 /\ va < 0 + c1 /\ wa < 0 + c1
    BY <1>2, <2>1, PageConstants
  <2>3. va \div c1 = 0 /\ wa \div c1 = 0
    BY <1>2, <2>2, QuotientIs
  <2> QED BY <2>1, <2>3
<1>6. ASSUME NEW l \in 0 .. RootLevel - 1, Same(l + 1) PROVE Same(l)
  <2> SUFFICES ASSUME c[l] = d[l], c[l] # NoPage
               PROVE  va \div Span(l + 1) = wa \div Span(l + 1)
    OBVIOUS
  <2>1. PICK k \in 0 .. RootLevel : k = l + 1 /\ k \in Nat /\ k \in 1 .. RootLevel
    BY <1>1
  <2>2. PICK t, p : t = c[k] /\ p = c[l]
    OBVIOUS
  <2>3. PICK x \in SlotNumbers, y \in SlotNumbers : x = Index(k, va) /\ y = Index(k, wa)
    BY <1>2, <2>1, IndexTyped
  <2>4. /\ t # NoPage /\ t \in Dram /\ own[p].up = t /\ Points(memory[t][x])
        /\ memory[t][x].page = p /\ memory[t][x].kind = "pte"
    BY <1>2, <1>3, <1>4, <2>1, <2>2, <2>3, ChainUp
  <2>5. /\ d[k] # NoPage /\ own[p].up = d[k] /\ Points(memory[d[k]][y])
        /\ memory[d[k]][y].page = p /\ memory[d[k]][y].kind = "pte"
    BY <1>2, <1>3, <1>4, <2>1, <2>2, <2>3, ChainUp
  <2>6. d[k] = t
    BY <2>4, <2>5
  <2>7. va \div Span(k + 1) = wa \div Span(k + 1)
    BY <1>6, <2>1, <2>2, <2>4, <2>6
  <2>8. memory[t][x] = memory[t][y]
    <3>1. memory \in Memories
      BY <1>3 DEF Stores
    <3> QED BY <2>3, <2>4, <2>5, <2>6, <3>1, MemoryTypes, SameWord
  <2>9. t \in TablesOf(space, k)
    BY <1>2, <2>1, <2>2, <2>4, ChainOfSpace
  <2>10. x = y
    <3>1. PICK a, b : a = <<t, x>> /\ b = <<t, y>>
      OBVIOUS
    <3>2. a \in TablesOf(space, k) \X SlotNumbers /\ b \in TablesOf(space, k) \X SlotNumbers
      BY <2>3, <2>9, <3>1
    <3>3. Points(memory[a[1]][a[2]]) /\ memory[a[1]][a[2]] = memory[b[1]][b[2]]
      BY <2>4, <2>8, <3>1
    <3>4. a = b
      BY <2>1, <3>2, <3>3 DEF Unshared
    <3> QED BY <3>1, <3>4
  <2>11. va \div Span(k) = wa \div Span(k)
    <3>1. va \div Span(k) = Slots * (va \div Span(k + 1)) + x
      BY <1>2, <2>1, <2>3, IndexIs
    <3>2. wa \div Span(k) = Slots * (wa \div Span(k + 1)) + y
      BY <1>2, <2>1, <2>3, IndexIs
    <3> QED BY <2>7, <2>10, <3>1, <3>2
  <2> QED BY <2>1, <2>11
<1> HIDE DEF Same
<1>7. at[0] \in I[0]
  BY <1>1, <1>5
<1>8. ASSUME NEW i \in 0 .. RootLevel - 1, at[i] \in I[i] PROVE at[i + 1] \in I[i + 1]
  <2>1. PICK l \in 0 .. RootLevel - 1 : l = RootLevel - (i + 1) /\ l + 1 = RootLevel - i
    BY <1>1
  <2>2. Same(l + 1)
    BY <1>1, <1>8, <2>1
  <2>3. Same(l)
    BY <1>6, <2>2
  <2> QED BY <1>1, <2>1, <2>3
<1> HIDE DEF at, I
<1>9. \A i \in 0 .. RootLevel : at[i] \in I[i]
  BY <1>1, <1>7, <1>8, LevelInduction
<1>10. ASSUME NEW l \in 0 .. RootLevel PROVE Same(l)
  <2>1. RootLevel - l \in 0 .. RootLevel /\ RootLevel - (RootLevel - l) = l
    BY <1>1
  <2> QED BY <1>9, <2>1 DEF at, I
<1> QED BY <1>10 DEF Same

\* Ways that meet are of one space.
LEMMA OneSpace ==
  ASSUME PageInv, NEW own, Sound(own, Store, held, root), NEW a \in Spaces, NEW b \in Spaces,
         NEW va \in Int, NEW c, Follows(memory, root[a], va, c),
         NEW wa \in Int, NEW d, Follows(memory, root[b], wa, d),
         c[0] = d[0], c[0] # NoPage
  PROVE  a = b
<1>1. PICK m \in Stores : m = Store /\ m.memory = memory
  BY StoreIs DEF PageInv
<1>2. /\ TablesOK(own, m) /\ (root[a] # NoPage => TableAt(own, root[a], RootLevel))
      /\ (root[b] # NoPage => TableAt(own, root[b], RootLevel))
  BY <1>1 DEF Sound, RootsOK
<1>3. RootLevel \in 0 .. RootLevel
  BY PageConstants
<1>4. c[RootLevel] = d[RootLevel] /\ c[RootLevel] # NoPage
  BY <1>1, <1>2, <1>3, SameWay
<1> QED BY <1>4 DEF Follows, Sound, RootsOK

\* The way is the only one.
LEMMA OnlyWay ==
  ASSUME NEW mem, NEW top, NEW va, NEW c, Follows(mem, top, va, c), NEW d, Follows(mem, top, va, d)
  PROVE  c = d
<1> DEFINE at == [i \in 0 .. RootLevel |-> c[RootLevel - i] = d[RootLevel - i]]
           I == [i \in 0 .. RootLevel |-> {TRUE}]
<1>1. /\ RootLevel \in 0 .. RootLevel /\ RootLevel \in Nat /\ 0 \in 0 .. RootLevel
      /\ RootLevel - 0 = RootLevel /\ RootLevel - RootLevel = 0
      /\ \A i \in 0 .. RootLevel - 1 : i \in 0 .. RootLevel /\ i + 1 \in 0 .. RootLevel
  BY PageConstants
<1>2. at[0] \in I[0]
  BY <1>1 DEF Follows
<1>3. ASSUME NEW i \in 0 .. RootLevel - 1, at[i] \in I[i] PROVE at[i + 1] \in I[i + 1]
  <2>1. PICK l \in 0 .. RootLevel - 1 : l = RootLevel - (i + 1) /\ l + 1 = RootLevel - i
    BY <1>1
  <2>2. c[l + 1] = d[l + 1]
    BY <1>1, <1>3, <2>1
  <2>3. c[l] = d[l]
    BY <2>2 DEF Follows
  <2> QED BY <1>1, <2>1, <2>3
<1> HIDE DEF at, I
<1>4. \A i \in 0 .. RootLevel : at[i] \in I[i]
  BY <1>1, <1>2, <1>3, LevelInduction
<1>5. ASSUME NEW l \in 0 .. RootLevel PROVE c[l] = d[l]
  <2>1. PICK i \in 0 .. RootLevel : RootLevel - i = l
    <3>1. RootLevel - l \in 0 .. RootLevel /\ RootLevel - (RootLevel - l) = l
      BY <1>1
    <3> QED BY <3>1
  <2> QED BY <1>4, <2>1 DEF at, I
<1>6. c \in [0 .. RootLevel -> AllPages] /\ d \in [0 .. RootLevel -> AllPages]
  BY DEF Follows
<1>8. PICK D : D = 0 .. RootLevel
  OBVIOUS
<1>9. c \in [D -> AllPages] /\ d \in [D -> AllPages] /\ \A x \in D : c[x] = d[x]
  BY <1>5, <1>6, <1>8
<1> QED BY <1>9

\* So it tells what is seen.
LEMMA SeenAtEnd ==
  ASSUME NEW mem \in Memories, NEW top \in AllPages, NEW va \in Int,
         NEW chain, Follows(mem, top, va, chain)
  PROVE  ShownAt(mem, top, va) = Shown(mem, EntryFor(mem, chain, va))
<1>1. PICK c : /\ Follows(mem, top, va, c)
               /\ ShownAt(mem, top, va) = Shown(mem, EntryFor(mem, c, va))
  BY ChainExists
<1>2. c = chain
  BY <1>1, OnlyWay
<1> QED BY <1>1, <1>2 DEF EntryFor

-----------------------------------------------------------------------------
(* What uvmunmap leaves.                                                   *)

\* The states when the first i mappings are cleared: their entries are zero,
\* their pages free; other entries, and pages that are not tables, are as they
\* were.
ClearedAt(w, i, t, slot) ==
  \E j \in 1 .. i : w.mappings[j].table = t /\ w.mappings[j].slot = slot
Spared(own, w, i, p) ==
  p \in Pages => own[p].use # "table" /\ p \notin TakenPages(w, i)
ClearedTo(own, w, i) ==
  {m \in Stores :
     /\ m.ok
     /\ \A t \in Pages : own[t].use = "table" => \A slot \in SlotNumbers :
          m.memory[t][slot] = IF ClearedAt(w, i, t, slot) THEN Zero ELSE memory[t][slot]
     /\ \A p \in Dram : Spared(own, w, i, p) => m.memory[p] = memory[p]}

\* The page of a mapping is mapped there only.
LEMMA MappedHere ==
  ASSUME NEW own, TablesOK(own, Store), NEW w, NEW x, MappingOK(own, w, x)
  PROVE  /\ x.table \in Pages /\ own[x.table].use = "table" /\ x.slot \in SlotNumbers
         /\ x.page \in w.physical
         /\ x.page \in Pages => /\ own[x.page].use = "mapped"
                                /\ own[x.page].up = x.table /\ own[x.page].slot = x.slot
<1>1. PICK m : m = Store /\ m.memory = memory
  BY StoreIs
<1>2. PICK t, slot, p : t = x.table /\ slot = x.slot /\ p = x.page
  OBVIOUS
<1>3. /\ TableAt(own, t, 0) /\ slot \in SlotNumbers /\ Maps(m.memory[t][slot])
      /\ m.memory[t][slot].page = p /\ p \in w.physical
  BY <1>1, <1>2 DEF MappingOK
<1>4. EntryOK(own, m, t, slot) /\ own[t].num = 0 /\ t \in Pages /\ own[t].use = "table"
  BY <1>1, <1>3 DEF TablesOK, TableAt, Used
<1> QED BY <1>2, <1>3, <1>4 DEF EntryOK, LeafOK

\* One turn.
LEMMA ClearMappingExact ==
  ASSUME NEW own, TablesOK(own, Store), NEW w \in Walks, Good(own, w), NEW doFree \in BOOLEAN,
         doFree => w.physical = Pages,
         NEW i \in 0 .. Len(w.mappings) - 1, NEW m \in ClearedTo(own, w, i)
  PROVE  ClearMapping(m, w.mappings[i + 1], doFree) \in ClearedTo(own, w, i + 1)
<1>1. m \in Stores /\ m.ok /\ Len(w.mappings) \in Nat /\ i + 1 \in 1 .. Len(w.mappings)
  BY WalkTypes DEF ClearedTo
<1>2. PICK x : x = w.mappings[i + 1]
  OBVIOUS
<1>3. PICK t, slot, p : t = x.table /\ slot = x.slot /\ p = x.page
  OBVIOUS
<1>4. MappingOK(own, w, x)
  BY <1>1, <1>2 DEF Good
<1>5. /\ t \in Pages /\ own[t].use = "table" /\ slot \in SlotNumbers /\ p \in w.physical
      /\ p \in Pages => own[p].use = "mapped"
  BY <1>3, <1>4, MappedHere
<1>6. t \in Dram
  BY <1>5, PagesInDram
<1>7. \A j : j \in 1 .. i + 1 <=> j \in 1 .. i \/ j = i + 1
  BY <1>1
<1>8. \A u, y : ClearedAt(w, i + 1, u, y) <=> ClearedAt(w, i, u, y) \/ (u = t /\ y = slot)
  BY <1>2, <1>3, <1>7 DEF ClearedAt
<1>9. \A q : Spared(own, w, i + 1, q) => Spared(own, w, i, q) /\ q # t /\ (q \in Pages => q # p)
  BY <1>2, <1>3, <1>5, <1>7 DEF Spared, TakenPages
<1>10. PICK f : f = IF doFree THEN KfreePage(m, p) ELSE m
  OBVIOUS
<1>11. f \in Stores /\ f.ok /\ \A q \in Dram : ~(doFree /\ q = p) => f.memory[q] = m.memory[q]
  <2>1. CASE doFree
    <3>1. p \in Pages /\ f = KfreePage(m, p)
      BY <1>5, <1>10, <2>1
    <3>2. f \in Stores /\ f.ok /\ OnlyPage(m, f, p)
      BY <1>1, <3>1, KfreeIs
    <3>3. \A q \in Dram : q # p => f.memory[q] = m.memory[q]
      BY <3>2 DEF OnlyPage
    <3> QED BY <2>1, <3>2, <3>3
  <2>2. CASE ~doFree
    BY <1>1, <1>10, <2>2
  <2> QED BY <2>1, <2>2
<1>12. PICK n : n = [f EXCEPT !.memory[t][slot] = Zero]
  OBVIOUS
<1>13. n = ClearMapping(m, x, doFree)
  BY <1>1, <1>3, <1>10, <1>11, <1>12 DEF ClearMapping
<1>14. SetEntry(f, n, t, slot, Zero) /\ n.ok
  <2>1. SetEntry(f, n, t, slot, Zero)
    BY <1>5, <1>6, <1>11, <1>12, WordTypes, Writing
  <2>2. n.ok = f.ok
    BY <1>11, <1>12 DEF Stores
  <2> QED BY <1>11, <2>1, <2>2
<1>15. ASSUME NEW u \in Pages, own[u].use = "table", NEW y \in SlotNumbers
       PROVE  n.memory[u][y] = IF ClearedAt(w, i + 1, u, y) THEN Zero ELSE memory[u][y]
  <2>1. u \in Dram /\ ~(doFree /\ u = p)
    BY <1>5, <1>15, PagesInDram
  <2>2. m.memory[u][y] = IF ClearedAt(w, i, u, y) THEN Zero ELSE memory[u][y]
    BY <1>15 DEF ClearedTo
  <2>3. f.memory[u][y] = m.memory[u][y]
    BY <1>11, <2>1
  <2>4. n.memory[u][y] = IF u = t /\ y = slot THEN Zero ELSE f.memory[u][y]
    BY <1>14, <2>1 DEF SetEntry
  <2> QED BY <1>8, <2>2, <2>3, <2>4
<1>16. ASSUME NEW q \in Dram, Spared(own, w, i + 1, q) PROVE n.memory[q] = memory[q]
  <2>1. Spared(own, w, i, q) /\ q # t /\ ~(doFree /\ q = p)
    BY <1>5, <1>9, <1>16
  <2>2. m.memory[q] = memory[q]
    BY <2>1 DEF ClearedTo
  <2>3. n.memory[q] = f.memory[q]
    BY <1>14, <2>1 DEF SetEntry
  <2> QED BY <1>11, <2>1, <2>2, <2>3
<1>17. n \in Stores
  BY <1>14 DEF SetEntry
<1>18. n \in ClearedTo(own, w, i + 1)
  BY <1>14, <1>15, <1>16, <1>17 DEF ClearedTo
<1> QED BY <1>2, <1>13, <1>18

\* The ways to all addresses.
LEMMA WaysExist ==
  ASSUME NEW top \in AllPages, memory \in Memories
  PROVE  \E ch : Chains(top, ch)
<1> DEFINE ch == [va \in Vas |-> CHOOSE chain : Follows(memory, top, va, chain)]
<1>1. \A va \in Vas : \E chain : Follows(memory, top, va, chain)
  BY ChainExists DEF Vas
<1>2. \A va \in Vas : Follows(memory, top, va, ch[va])
  BY <1>1
<1> HIDE DEF ch
<1> QED BY <1>2 DEF Chains

\* The ways stay, as only entries of the last level are cleared.
LEMMA WaysStay ==
  ASSUME memory \in Memories, NEW own, TablesOK(own, Store), Store \in Stores,
         NEW w, Good(own, w), NEW i, i = Len(w.mappings), NEW n \in ClearedTo(own, w, i),
         NEW top, top # NoPage => TableAt(own, top, RootLevel), NEW va \in Int,
         NEW chain, Follows(memory, top, va, chain)
  PROVE  Follows(n.memory, top, va, chain)
<1>1. PICK m \in Stores : m = Store /\ m.memory = memory
  BY StoreIs
<1>2. \A l \in 0 .. RootLevel : chain[l] # NoPage => TableAt(own, chain[l], l)
  BY <1>1, ChainTables
<1>3. ASSUME NEW l \in 0 .. RootLevel - 1
      PROVE  chain[l] = Under(n.memory, chain[l + 1], Index(l + 1, va))
  <2>1. l + 1 \in 0 .. RootLevel /\ l + 1 \in Nat /\ l + 1 # 0
    BY PageConstants
  <2>2. PICK t : t = chain[l + 1]
    OBVIOUS
  <2>6. PICK slot \in SlotNumbers : slot = Index(l + 1, va)
    BY <2>1, IndexTyped
  <2>3. chain[l] = Under(memory, t, slot)
    BY <2>2, <2>6 DEF Follows
  <2>4. CASE t \in Dram
    <3>1. TableAt(own, t, l + 1)
      BY <1>2, <2>1, <2>2, <2>4, PagesInDram
    <3>2. ~ClearedAt(w, i, t, slot)
      <4>1. \A j \in 1 .. i : own[w.mappings[j].table].num = 0
        BY DEF Good, MappingOK, TableAt
      <4> QED BY <2>1, <3>1, <4>1 DEF ClearedAt, TableAt
    <3>3. n.memory[t][slot] = memory[t][slot]
      BY <2>6, <3>1, <3>2 DEF ClearedTo, TableAt, Used
    <3> QED BY <2>2, <2>3, <2>6, <3>3 DEF Under
  <2>5. CASE t \notin Dram
    BY <2>2, <2>3, <2>5, <2>6 DEF Under
  <2> QED BY <2>4, <2>5
<1> QED BY <1>3 DEF Follows

\* What is seen at an address afterwards.
Leaves(mem, space, first, end, s, va) ==
  ShownAt(mem, root[s], va) =
    IF s = space /\ va \in first .. end - 1 THEN {} ELSE ShownAt(memory, root[s], va)

LEMMA ClearedShows ==
  ASSUME PageInv, NEW own, Sound(own, Store, held, root), NEW space \in Alive, Unshared(space),
         NEW first \in Nat, NEW end \in Int, first < end,
         NEW physical \in SUBSET AllPages, NEW w,
         w = LeafMappings(root[space], first, end, physical), w.ok,
         NEW n \in ClearedTo(own, w, Len(w.mappings)),
         NEW s \in Spaces, NEW va \in Vas
  PROVE  Leaves(n.memory, space, first, end, s, va)
<1> SUFFICES ASSUME NEW i, i = Len(w.mappings), n \in ClearedTo(own, w, i)
             PROVE  ShownAt(n.memory, root[s], va) =
                      IF s = space /\ va \in first .. end - 1 THEN {}
                      ELSE ShownAt(memory, root[s], va)
  BY DEF Leaves
<1> DEFINE top == root[space]
           before == ShownAt(memory, root[s], va)
           after == ShownAt(n.memory, root[s], va)
<1>1. /\ memory \in Memories /\ n.memory \in Memories /\ n \in Stores /\ TablesOK(own, Store)
      /\ space \in Spaces /\ TableAt(own, top, RootLevel) /\ root \in [Spaces -> AllPages]
      /\ \A x \in Spaces : root[x] # NoPage => TableAt(own, root[x], RootLevel)
  BY StoreIs, RootIsTable DEF PageInv, Stores, ClearedTo, Sound, RootsOK
<1>2. va \in Int
  BY DEF Vas
<1>3. PICK m \in Stores : m = Store /\ m.memory = memory
  BY StoreIs DEF PageInv
<1>4. w \in Walks /\ Good(own, w)
  BY <1>1, LeafMappingsGood
<1>5. PICK ch : Chains(top, ch)
  BY <1>1, WaysExist
<1>6. /\ end <= MaxVa
      /\ \A x \in Listed(w) : FoundIn(ch, x, first, end - 1)
      /\ \A a \in first .. end - 1 : InUse(ch, a) => \E x \in Listed(w) : x.va = a
  <2>1. first \in Int /\ 0 <= first
    OBVIOUS
  <2> QED BY <1>1, <1>5, <2>1, LeafMappingsFinds
<1>7. PICK c : Follows(memory, root[s], va, c) /\ (s = space => c = ch[va])
  <2>1. \E c : Follows(memory, root[s], va, c)
    BY <1>1, <1>2, ChainExists
  <2>2. s = space => Follows(memory, root[s], va, ch[va])
    BY <1>5 DEF Chains
  <2> QED BY <2>1, <2>2
<1>8. Follows(n.memory, root[s], va, c)
  BY <1>1, <1>2, <1>4, <1>7, WaysStay DEF PageInv
<1>9. /\ before = Shown(memory, EntryFor(memory, c, va))
      /\ after = Shown(n.memory, EntryFor(n.memory, c, va))
  BY <1>1, <1>2, <1>7, <1>8, SeenAtEnd
<1>13. PICK t : t = c[0]
  OBVIOUS
<1>10. PICK slot \in SlotNumbers : slot = Index(0, va)
  BY <1>2, IndexTyped
<1> HIDE DEF before, after
<1>11. CASE t \notin Dram
  <2>1. EntryFor(memory, c, va) = Zero /\ EntryFor(n.memory, c, va) = Zero
    BY <1>10, <1>13, <1>11 DEF EntryFor
  <2>2. before = {} /\ after = {}
    BY <1>9, <2>1, WordKinds DEF Shown
  <2> QED BY <2>2 DEF before, after
<1>12. CASE t \in Dram
  <2>1. EntryFor(memory, c, va) = memory[t][slot] /\ EntryFor(n.memory, c, va) = n.memory[t][slot]
    BY <1>10, <1>13, <1>12 DEF EntryFor
  <2>2. t # NoPage /\ 0 \in 0 .. RootLevel
    BY <1>12, PagesInDram, PageConstants
  <2>3. TableAt(own, t, 0)
    BY <1>1, <1>2, <1>3, <1>7, <1>10, <1>13, <2>2, ChainTables
  <2>4. t \in Pages /\ own[t].use = "table" /\ own[t].num = 0
    BY <2>3 DEF TableAt, Used
  <2>5. CASE ClearedAt(w, i, t, slot)
    <3>1. PICK x \in Listed(w) : x.table = t /\ x.slot = slot
      BY <2>5 DEF ClearedAt, Listed
    <3>2. PICK a \in Vas : /\ a = x.va /\ a \in first .. end - 1
                           /\ ch[a][0] = t /\ Index(0, a) = slot
      BY <1>6, <3>1, PageConstants DEF FoundIn, Vas
    <3>3. a \in Int /\ Follows(memory, top, a, ch[a])
      BY <1>5, <3>2 DEF Chains, Vas
    <3>4. s = space
      BY <1>1, <1>2, <1>7, <1>10, <1>13, <2>2, <3>2, <3>3, OneSpace
    <3>5. va = a
      <4>1. Apart(memory, top)
        BY <1>1, UnsharedApart
      <4>2. Follows(memory, top, va, c)
        BY <1>7, <3>4
      <4> QED BY <1>10, <1>13, <2>2, <3>2, <3>3, <4>1, <4>2, OneAddress
    <3>6. n.memory[t][slot] = Zero
      BY <1>10, <1>13, <2>4, <2>5 DEF ClearedTo
    <3>7. after = {}
      BY <1>9, <2>1, <3>6, WordKinds DEF Shown
    <3> QED BY <3>2, <3>4, <3>5, <3>7 DEF after
  <2>6. CASE ~ClearedAt(w, i, t, slot)
    <3>1. PICK pte : pte = memory[t][slot] /\ n.memory[t][slot] = pte
      BY <1>10, <1>13, <2>4, <2>6 DEF ClearedTo
    <3>2. CASE ~Valid(pte)
      <4>1. before = {} /\ after = {}
        BY <1>9, <2>1, <3>1, <3>2 DEF Shown
      <4> QED BY <4>1 DEF before, after
    <3>3. CASE Valid(pte)
      <4>1. ~(s = space /\ va \in first .. end - 1)
        <5> SUFFICES ASSUME s = space, va \in first .. end - 1 PROVE FALSE
          OBVIOUS
        <5>1. InUse(ch, va)
          BY <1>7, <2>1, <3>1, <3>3 DEF InUse
        <5>2. PICK x \in Listed(w) : x.va = va /\ FoundIn(ch, x, first, end - 1)
          BY <1>6, <5>1
        <5>3. x.table = t /\ x.slot = slot
          BY <1>7, <1>10, <1>13, <5>2 DEF FoundIn
        <5> QED BY <2>6, <5>2, <5>3 DEF ClearedAt, Listed
      <4>2. EntryOK(own, m, t, slot)
        BY <1>1, <1>3, <2>4 DEF TablesOK
      <4>3. Maps(pte)
        BY <1>3, <2>4, <3>1, <3>3, <4>2, WordKinds DEF EntryOK, PointerOK
      <4>4. pte.page \in Pages => /\ own[pte.page].use = "mapped"
                                  /\ own[pte.page].up = t /\ own[pte.page].slot = slot
        BY <1>3, <2>4, <3>1, <4>2, <4>3 DEF EntryOK, LeafOK
      <4>5. ASSUME pte.page \in Pages PROVE pte.page \notin TakenPages(w, i)
        <5> SUFFICES ASSUME NEW j \in 1 .. i, w.mappings[j].page = pte.page PROVE FALSE
          BY DEF TakenPages
        <5>1. PICK x : x = w.mappings[j]
          OBVIOUS
        <5>2. MappingOK(own, w, x)
          BY <1>4, <5>1 DEF Good
        <5>3. x.table = t /\ x.slot = slot
          BY <1>1, <4>4, <4>5, <5>1, <5>2, MappedHere
        <5> QED BY <2>6, <5>1, <5>3 DEF ClearedAt
      <4>6. pte.page \in Dram => n.memory[pte.page] = memory[pte.page]
        BY <4>4, <4>5 DEF ClearedTo, Spared
      <4>7. after = before
        BY <1>9, <2>1, <3>1, <4>6 DEF Shown
      <4> QED BY <4>1, <4>7 DEF before, after
    <3> QED BY <3>2, <3>3
  <2> QED BY <2>5, <2>6
<1> QED BY <1>11, <1>12

-----------------------------------------------------------------------------
(* Every uvmunmap is exact.                                                *)

Exact ==
  LET space == call'.args[1]
      range == call'.args[2] .. call'.args[2] + call'.args[3] - 1
  IN  call'.op = "uvmunmap" /\ call'.outcome = "completed" /\ Unshared(space)
      => \A s \in Spaces, va \in Vas :
           Content(s, va)' = IF s = space /\ va \in range THEN {} ELSE Content(s, va)

LEMMA UvmunmapExact ==
  ASSUME PageInv, NEW space \in Alive, NEW va \in Nat, NEW count \in Nat \ {0},
         NEW doFree \in BOOLEAN, Uvmunmap(space, va, count, doFree)
  PROVE  Exact
<1> DEFINE walk == LeafMappings(root[space], va, va + count,
                                IF doFree THEN Pages ELSE Dram \cup {DevicePage})
           Clear == [i \in Nat |-> [m \in Stores |-> ClearMapping(m, walk.mappings[i + 1], doFree)]]
           done == Repeat(Clear, Store, Len(walk.mappings))
<1>1. CASE ~walk.ok
  <2>1. call'.outcome = "declined"
    BY <1>1 DEF Uvmunmap, Return
  <2> QED BY <2>1 DEF Exact
<1>2. CASE walk.ok
  <2>1. /\ memory' = done.memory /\ root' = root
        /\ call'.args = <<space, va, count>>
    <3>1. /\ Return(done, "uvmunmap", <<space, va, count>>,
                    IF done.ok THEN "completed" ELSE "declined")
          /\ root' = root
      BY <1>2 DEF Uvmunmap
    <3> HIDE DEF done
    <3> QED BY <3>1 DEF Return
  <2>2. PICK args : args = call'.args
    OBVIOUS
  <2>3. args[1] = space /\ args[2] = va /\ args[3] = count
    BY <2>1, <2>2
  <2>4. SUFFICES ASSUME Unshared(space), NEW s \in Spaces, NEW a \in Vas
                 PROVE  Content(s, a)' = IF s = space /\ a \in va .. va + count - 1 THEN {}
                                         ELSE Content(s, a)
    BY <2>2, <2>3 DEF Exact
  <2>5. PICK own : Sound(own, Store, held, root)
    BY DEF PageInv
  <2>6. PICK physical \in SUBSET AllPages :
          physical = IF doFree THEN Pages ELSE Dram \cup {DevicePage}
    BY PagesInDram
  <2>7. PICK end \in Int : end = va + count /\ va < end
    OBVIOUS
  <2>8. PICK w : w = walk
    OBVIOUS
  <2>9. w = LeafMappings(root[space], va, end, physical) /\ w.ok
    BY <1>2, <2>6, <2>7, <2>8
  <2>10. done = Repeat([i \in Nat |-> [m \in Stores |-> ClearMapping(m, w.mappings[i + 1], doFree)]],
                       Store, Len(w.mappings))
    BY <2>8
  <2> HIDE DEF walk, Clear
  <2>11. memory \in Memories /\ TablesOK(own, Store) /\ TableAt(own, root[space], RootLevel)
    BY <2>5, StoreIs, RootIsTable DEF PageInv, Stores, Sound
  <2>12. w \in Walks /\ Good(own, w) /\ w.physical = physical
    <3>1. PICK first \in Int : first = va
      OBVIOUS
    <3>6. PICK top : top = root[space]
      OBVIOUS
    <3>2. TableAt(own, top, RootLevel) /\ w = LeafMappings(top, first, end, physical)
      BY <2>9, <2>11, <3>1, <3>6
    <3>3. w \in Walks
      BY <2>11, <3>2, LeafMappingsGood
    <3>4. Good(own, w)
      BY <2>11, <3>2, LeafMappingsGood
    <3>5. w.physical = physical
      BY <2>11, <3>2, LeafMappingsGood
    <3> QED BY <3>3, <3>4, <3>5
  <2>13. PICK k \in Nat : k = Len(w.mappings)
    BY <2>12, WalkTypes
  <2> DEFINE I == [i \in Nat |-> ClearedTo(own, w, i)]
             turn == [i \in Nat |-> [m \in Stores |-> ClearMapping(m, w.mappings[i + 1], doFree)]]
  <2>14. Store \in I[0]
    <3>1. Store \in Stores /\ Store.ok /\ Store.memory = memory
      BY StoreIs DEF PageInv
    <3>2. \A t, slot : ~ClearedAt(w, 0, t, slot)
      BY DEF ClearedAt
    <3>3. Store \in ClearedTo(own, w, 0)
      BY <3>1, <3>2 DEF ClearedTo
    <3> QED BY <3>3
  <2>15. \A i \in 0 .. k - 1 : \A m \in I[i] : turn[i][m] \in I[i + 1]
    <3> SUFFICES ASSUME NEW i \in 0 .. k - 1, NEW m \in I[i] PROVE turn[i][m] \in I[i + 1]
      OBVIOUS
    <3>1. i \in Nat /\ i + 1 \in Nat /\ i \in 0 .. Len(w.mappings) - 1
      BY <2>13
    <3>2. m \in ClearedTo(own, w, i) /\ m \in Stores
      BY <3>1 DEF ClearedTo
    <3>3. doFree => w.physical = Pages
      BY <2>6, <2>12
    <3>4. ClearMapping(m, w.mappings[i + 1], doFree) \in ClearedTo(own, w, i + 1)
      BY <2>11, <2>12, <3>1, <3>2, <3>3, ClearMappingExact
    <3> QED BY <3>1, <3>2, <3>4
  <2>16. done = Repeat(turn, Store, k)
    BY <2>10, <2>13
  <2> HIDE DEF turn, I, done
  <2>17. Repeat(turn, Store, k) \in I[k]
    BY <2>14, <2>15, RepeatKeeps
  <2>18. PICK n : n = done /\ n \in ClearedTo(own, w, k)
    BY <2>16, <2>17 DEF I
  <2>19. Leaves(n.memory, space, va, end, s, a)
    <3>1. n \in ClearedTo(own, w, Len(w.mappings))
      BY <2>13, <2>18
    <3>2. va < end
      BY <2>7
    <3> QED BY <2>4, <2>5, <2>9, <3>1, <3>2, ClearedShows
  <2>20. /\ Content(s, a) = ShownAt(memory, root[s], a)
         /\ Content(s, a)' = ShownAt(memory', root'[s], a)
    BY ContentIs
  <2> QED BY <2>1, <2>7, <2>18, <2>19, <2>20 DEF Leaves
<1> QED BY <1>1, <1>2

\* The steps of the other actions are no uvmunmap.
LEMMA NextExact == PageInv /\ Next => Exact
<1> SUFFICES ASSUME PageInv, Next PROVE Exact
  OBVIOUS
<1>1. CASE \E space \in Alive, va \in 0 .. MaxVa - 1, doFree \in BOOLEAN :
             \E count \in 1 .. MaxVa - va + 1 : Uvmunmap(space, va, count, doFree)
  <2>1. PICK space \in Alive, va \in 0 .. MaxVa - 1, doFree \in BOOLEAN :
          \E count \in 1 .. MaxVa - va + 1 : Uvmunmap(space, va, count, doFree)
    BY <1>1
  <2>2. PICK count \in 1 .. MaxVa - va + 1 : Uvmunmap(space, va, count, doFree)
    BY <2>1
  <2>3. va \in Nat /\ count \in Nat \ {0}
    BY PageConstants
  <2> QED BY <2>2, <2>3, UvmunmapExact
<1>2. ASSUME call'.op # "uvmunmap" PROVE Exact
  BY <1>2 DEF Exact
<1>3. ASSUME NEW m, GuestReturn(m) PROVE Exact
  BY <1>2, <1>3 DEF GuestReturn, Return
<1>4. CASE \E space \in Alive : Freewalk(space)
  <2>1. call'.op = "freewalk"
    BY <1>4 DEF Freewalk, Return
  <2> QED BY <1>2, <2>1
<1>5. CASE \E old, new \in Alive, size \in 0 .. MaxVa : Uvmcopy(old, new, size)
  <2>1. call'.op = "uvmcopy"
    BY <1>5 DEF Uvmcopy, Return
  <2> QED BY <1>2, <2>1
<1>6. CASE \E space \in Spaces : Create(space)
  BY <1>3, <1>6 DEF Create
<1>7. CASE \E space \in Alive, va \in 0 .. MaxVa - 1 : MapUser(space, va)
  BY <1>3, <1>7 DEF MapUser
<1>8. CASE \E space \in Alive \cap OddSpaces, va \in ForeignVas, page \in {KernelPage, DevicePage} :
             MapForeign(space, va, page)
  BY <1>3, <1>8 DEF MapForeign
<1>9. CASE \E space \in Alive \cap OddSpaces, slot \in SlotNumbers :
             \E pte \in OddEntries(space) : WriteRootEntry(space, slot, pte)
  BY <1>3, <1>9 DEF WriteRootEntry
<1>10. CASE \E page \in Pages : Kfree(page)
  BY <1>3, <1>10 DEF Kfree
<1> QED BY <1>1, <1>4, <1>5, <1>6, <1>7, <1>8, <1>9, <1>10 DEF Next

\* uvmunmap takes away exactly the pages of its range, in this space only,
\* when no two ways lead to a table of it.
THEOREM UnmapsAreExact == Spec => UnmapIsExact
<1>1. PageInv /\ [Next]_vars => [Exact]_vars
  BY NextExact
<1>2. PageInv /\ [Next]_vars =>
        [LET space == call'.args[1]
             range == call'.args[2] .. call'.args[2] + call'.args[3] - 1
         IN  call'.op = "uvmunmap" /\ call'.outcome = "completed" /\ Unshared(space)
             => \A s \in Spaces, va \in Vas :
                  Content(s, va)' = IF s = space /\ va \in range THEN {}
                                    ELSE Content(s, va)]_vars
  BY <1>1 DEF Exact
<1> QED BY <1>2, PageInvariant, PTL DEF Spec, UnmapIsExact

-----------------------------------------------------------------------------
(* What an address shows in states of memory with the roots of this one.   *)

\* The entry at the end of the way, and what is seen there: the entry, and the
\* content of the page it maps.
EntryAt(mem, top, va) ==
  EntryFor(mem, CHOOSE chain : Follows(mem, top, va, chain), va)
Sight(mem, pte) ==
  IF ~Valid(pte) THEN <<>>
  ELSE <<pte, IF pte.page \in Dram THEN mem[pte.page] ELSE <<>>>>
View(mem, top, va) == Sight(mem, EntryAt(mem, top, va))

\* The same is seen at all addresses but one, and at all.
Alike(m, n, s0, va0) ==
  \A s \in Spaces : \A va \in Vas :
    ~(s = s0 /\ va = va0) => View(n.memory, root[s], va) = View(m.memory, root[s], va)
Steady(m, n) ==
  \A s \in Spaces : \A va \in Vas : View(n.memory, root[s], va) = View(m.memory, root[s], va)

\* What is seen at the end of a way.
LEMMA ViewIs ==
  ASSUME NEW mem \in Memories, NEW top \in AllPages, NEW va \in Int,
         NEW chain, Follows(mem, top, va, chain)
  PROVE  /\ View(mem, top, va) = Sight(mem, EntryFor(mem, chain, va))
         /\ ShownAt(mem, top, va) = Shown(mem, EntryFor(mem, chain, va))
<1>1. Follows(mem, top, va, CHOOSE c : Follows(mem, top, va, c))
  OBVIOUS
<1>2. chain = CHOOSE c : Follows(mem, top, va, c)
  BY <1>1, OnlyWay
<1>3. ShownAt(mem, top, va) = Shown(mem, EntryFor(mem, chain, va))
  BY SeenAtEnd
<1> QED BY <1>2, <1>3 DEF View, EntryAt

\* Views show.
LEMMA ViewShows ==
  ASSUME NEW mem \in Memories, NEW top \in AllPages, NEW va \in Int
  PROVE  /\ View(mem, top, va) = <<>> => ShownAt(mem, top, va) = {}
         /\ \A pte, content : View(mem, top, va) = <<pte, content>>
              => ShownAt(mem, top, va) = {<<pte.flags, content>>}
         /\ \/ View(mem, top, va) = <<>>
            \/ \E pte, content : View(mem, top, va) = <<pte, content>>
<1>1. PICK c : Follows(mem, top, va, c)
  BY ChainExists
<1>2. PICK e : e = EntryFor(mem, c, va)
  OBVIOUS
<1>3. View(mem, top, va) = Sight(mem, e) /\ ShownAt(mem, top, va) = Shown(mem, e)
  BY <1>1, <1>2, ViewIs
<1>4. \A a, b : <<a, b>> # <<>>
  OBVIOUS
<1>5. CASE ~Valid(e)
  BY <1>3, <1>4, <1>5 DEF Sight, Shown
<1>6. CASE Valid(e)
  <2>1. PICK content : content = IF e.page \in Dram THEN mem[e.page] ELSE <<>>
    OBVIOUS
  <2>2. View(mem, top, va) = <<e, content>> /\ ShownAt(mem, top, va) = {<<e.flags, content>>}
    BY <1>3, <1>6, <2>1 DEF Sight, Shown
  <2>3. \A p, q : <<e, content>> = <<p, q>> => e = p /\ content = q
    OBVIOUS
  <2> QED BY <1>4, <2>2, <2>3
<1> QED BY <1>5, <1>6

\* Equal views show the same.
LEMMA SameView ==
  ASSUME NEW mem \in Memories, NEW men \in Memories, NEW top \in AllPages, NEW va \in Int,
         NEW tip \in AllPages, View(men, tip, va) = View(mem, top, va)
  PROVE  ShownAt(men, tip, va) = ShownAt(mem, top, va)
<1>1. CASE View(mem, top, va) = <<>>
  <2>1. ShownAt(mem, top, va) = {}
    BY <1>1, ViewShows
  <2>2. ShownAt(men, tip, va) = {}
    BY <1>1, ViewShows
  <2> QED BY <2>1, <2>2
<1>2. CASE View(mem, top, va) # <<>>
  <2>1. PICK pte, content : View(mem, top, va) = <<pte, content>>
    BY <1>2, ViewShows
  <2>2. ShownAt(mem, top, va) = {<<pte.flags, content>>}
    BY <2>1, ViewShows
  <2>3. ShownAt(men, tip, va) = {<<pte.flags, content>>}
    BY <2>1, ViewShows
  <2> QED BY <2>2, <2>3
<1> QED BY <1>1, <1>2

\* Ways stay if the entries they pass do.
LEMMA WayStays ==
  ASSUME NEW mem, NEW men, NEW top, NEW va \in Int, NEW c, Follows(mem, top, va, c),
         \A l \in 1 .. RootLevel :
           c[l] \in Dram => men[c[l]][Index(l, va)] = mem[c[l]][Index(l, va)]
  PROVE  Follows(men, top, va, c)
<1>1. ASSUME NEW l \in 0 .. RootLevel - 1
      PROVE  c[l] = Under(men, c[l + 1], Index(l + 1, va))
  <2>1. PICK k \in 1 .. RootLevel : k = l + 1
    BY PageConstants
  <2>2. PICK x : x = Index(k, va)
    OBVIOUS
  <2>3. c[l] = Under(mem, c[k], x)
    BY <2>1, <2>2 DEF Follows
  <2>4. c[k] \in Dram => men[c[k]][x] = mem[c[k]][x]
    BY <2>2
  <2>5. c[l] = Under(men, c[k], x)
    BY <2>3, <2>4 DEF Under
  <2> QED BY <2>1, <2>2, <2>5
<1> QED BY <1>1 DEF Follows

\* If all ways stay, no two that were apart meet.
LEMMA ApartStays ==
  ASSUME NEW mem \in Memories, NEW men, NEW top \in AllPages, Apart(mem, top),
         \A va \in Vas : \A c : Follows(mem, top, va, c) => Follows(men, top, va, c)
  PROVE  Apart(men, top)
<1>1. ASSUME NEW va \in Vas, NEW c, Follows(men, top, va, c) PROVE Follows(mem, top, va, c)
  <2>1. PICK d : Follows(mem, top, va, d)
    BY ChainExists DEF Vas
  <2>2. d = c
    BY <1>1, <2>1, OnlyWay
  <2> QED BY <2>1, <2>2
<1> QED BY <1>1 DEF Apart

\* A page is mapped by an entry.
MappedAt(own, p, t, slot) ==
  own[p].use = "mapped" /\ own[p].up = t /\ own[p].slot = slot
\* A valid entry at the end of a way maps a page, and nothing else maps it.
LEMMA EndIs ==
  ASSUME NEW own, NEW m \in Stores, NEW loose, Sound(own, m, loose, root),
         NEW s \in Spaces, NEW va \in Int, NEW c, Follows(m.memory, root[s], va, c),
         NEW pte, pte = EntryFor(m.memory, c, va), Valid(pte)
  PROVE  /\ c[0] \in Dram /\ TableAt(own, c[0], 0)
         /\ pte = m.memory[c[0]][Index(0, va)] /\ Maps(pte) /\ pte.kind = "pte"
         /\ pte.page \in Pages => MappedAt(own, pte.page, c[0], Index(0, va))
<1>1. PICK t : t = c[0]
  OBVIOUS
<1>2. PICK slot \in SlotNumbers : slot = Index(0, va)
  BY IndexTyped
<1>3. t \in Dram /\ pte = m.memory[t][slot]
  BY <1>1, <1>2, WordKinds DEF EntryFor
<1>4. TableAt(own, t, 0)
  <2>1. 0 \in 0 .. RootLevel /\ t # NoPage
    BY <1>3, PagesInDram, PageConstants
  <2>2. TablesOK(own, m) /\ (root[s] # NoPage => TableAt(own, root[s], RootLevel))
    BY DEF Sound, RootsOK
  <2> QED BY <1>1, <2>1, <2>2, ChainTables
<1>5. EntryOK(own, m, t, slot) /\ own[t].num = 0
  BY <1>4 DEF Sound, TablesOK, TableAt, Used
<1>6. Maps(pte) /\ LeafOK(own, t, slot, pte)
  BY <1>3, <1>5, WordKinds DEF EntryOK, PointerOK
<1> QED BY <1>1, <1>2, <1>3, <1>4, <1>5, <1>6 DEF LeafOK, MappedAt

\* What is seen stays if the end of the way, and the page mapped there, do.
Untouched(own, m, n, t, slot) ==
  /\ t \in Dram => n.memory[t][slot] = m.memory[t][slot]
  /\ \A q \in Dram : (q \in Pages => MappedAt(own, q, t, slot)) => n.memory[q] = m.memory[q]
LEMMA ViewStays ==
  ASSUME root \in [Spaces -> AllPages],
         NEW own, NEW m \in Stores, NEW loose, Sound(own, m, loose, root), NEW n \in Stores,
         NEW s \in Spaces, NEW va \in Int, NEW c,
         Follows(m.memory, root[s], va, c), Follows(n.memory, root[s], va, c),
         Untouched(own, m, n, c[0], Index(0, va))
  PROVE  View(n.memory, root[s], va) = View(m.memory, root[s], va)
<1>1. m.memory \in Memories /\ n.memory \in Memories /\ root[s] \in AllPages
  BY DEF Stores
<1>2. PICK e : e = EntryFor(m.memory, c, va)
  OBVIOUS
<1>3. EntryFor(n.memory, c, va) = e
  BY <1>2 DEF EntryFor, Untouched
<1>4. View(m.memory, root[s], va) = Sight(m.memory, e) /\ View(n.memory, root[s], va) = Sight(n.memory, e)
  BY <1>1, <1>2, <1>3, ViewIs
<1>5. CASE ~Valid(e)
  BY <1>4, <1>5 DEF Sight
<1>6. CASE Valid(e)
  <2>1. e.page \in Pages => MappedAt(own, e.page, c[0], Index(0, va))
    BY <1>2, <1>6, EndIs
  <2>2. e.page \in Dram => n.memory[e.page] = m.memory[e.page]
    BY <2>1 DEF Untouched
  <2> QED BY <1>4, <2>2 DEF Sight
<1> QED BY <1>5, <1>6

\* A page that is neither a table nor mapped shows nowhere.
LEMMA QuietPage ==
  ASSUME root \in [Spaces -> AllPages],
         NEW own, NEW m \in Stores, NEW loose, Sound(own, m, loose, root), NEW n \in Stores,
         NEW p \in Pages, own[p].use # "table", own[p].use # "mapped", OnlyPage(m, n, p)
  PROVE  /\ Steady(m, n)
         /\ \A s \in Spaces : Apart(m.memory, root[s]) => Apart(n.memory, root[s])
<1>1. ASSUME NEW s \in Spaces, NEW va \in Int, NEW c, Follows(m.memory, root[s], va, c)
      PROVE  /\ Follows(n.memory, root[s], va, c)
             /\ c[0] \in Dram => n.memory[c[0]][Index(0, va)] = m.memory[c[0]][Index(0, va)]
  <2>1. TablesOK(own, m) /\ (root[s] # NoPage => TableAt(own, root[s], RootLevel))
    BY DEF Sound, RootsOK
  <2>2. ASSUME NEW l \in 0 .. RootLevel, c[l] \in Dram PROVE n.memory[c[l]] = m.memory[c[l]]
    <3>1. c[l] # NoPage
      BY <2>2, PagesInDram
    <3>2. TableAt(own, c[l], l)
      BY <1>1, <2>1, <3>1, ChainTables
    <3> QED BY <2>2, <3>2 DEF TableAt, Used, OnlyPage
  <2>3. 0 \in 0 .. RootLevel /\ \A l \in 1 .. RootLevel : l \in 0 .. RootLevel
    BY PageConstants
  <2>4. Follows(n.memory, root[s], va, c)
    BY <1>1, <2>2, <2>3, WayStays
  <2> QED BY <2>2, <2>3, <2>4
<1>2. m.memory \in Memories /\ \A s \in Spaces : root[s] \in AllPages
  BY DEF Stores
<1>3. ASSUME NEW s \in Spaces, NEW va \in Vas
      PROVE  View(n.memory, root[s], va) = View(m.memory, root[s], va)
  <2>1. va \in Int
    BY DEF Vas
  <2>2. PICK c : Follows(m.memory, root[s], va, c)
    BY <1>2, <2>1, ChainExists
  <2>3. /\ Follows(n.memory, root[s], va, c)
        /\ c[0] \in Dram => n.memory[c[0]][Index(0, va)] = m.memory[c[0]][Index(0, va)]
    BY <1>1, <2>1, <2>2
  <2>4. Untouched(own, m, n, c[0], Index(0, va))
    BY <2>3 DEF Untouched, MappedAt, OnlyPage
  <2> QED BY <2>1, <2>2, <2>3, <2>4, ViewStays
<1>4. ASSUME NEW s \in Spaces, Apart(m.memory, root[s]) PROVE Apart(n.memory, root[s])
  <2>1. \A va \in Vas : \A c : Follows(m.memory, root[s], va, c) => Follows(n.memory, root[s], va, c)
    BY <1>1 DEF Vas
  <2> QED BY <1>2, <1>4, <2>1, ApartStays
<1> QED BY <1>3, <1>4 DEF Steady

\* An empty table p is linked under an entry.
Linked(m, n, t, slot, p) ==
  /\ \A q \in Dram : q # p /\ q # t => n.memory[q] = m.memory[q]
  /\ \A x \in SlotNumbers :
       /\ n.memory[p][x] = Zero
       /\ n.memory[t][x] = IF x = slot THEN Pte(p, {}) ELSE m.memory[t][x]

\* A table is added so, or none is left.
Added(own, m, n, t, slot, p) ==
  /\ n \in Stores
  /\ p = NoPage => ~n.ok /\ n.memory = m.memory
  /\ p # NoPage => /\ n.ok /\ n.table = p /\ p \in Pages /\ own[p].use = "free"
                   /\ Linked(m, n, t, slot, p)

\* Adding a table links one, or fails when the free list is empty.
LEMMA AddTableIs ==
  ASSUME NEW own, NEW m \in Stores, NEW loose, NEW roots, Sound(own, m, loose, roots),
         NEW level \in Nat, NEW va \in Int, NEW t, t = m.table, TableAt(own, t, level),
         NEW slot \in SlotNumbers, slot = Index(level, va),
         NEW p, p = m.free, NEW n, n = AddTable(m, level, va)
  PROVE  Added(own, m, n, t, slot, p)
<1>2. PICK n1 : n1 = KallocPage(m)
  OBVIOUS
<1>3. CASE p = NoPage
  <2>1. n1 = Fail(m)
    BY <1>2, <1>3 DEF KallocPage
  <2>2. n1 \in Stores /\ ~n1.ok /\ n1.memory = m.memory
    BY <2>1, StoreTypes
  <2>3. n = n1
    BY <1>2, <2>2 DEF AddTable
  <2> QED BY <1>3, <2>2, <2>3 DEF Added
<1>4. CASE p # NoPage
  <2>1. /\ n1 \in Stores /\ n1.ok /\ p \in Pages
        /\ \A q \in Dram : q # p => n1.memory[q] = m.memory[q]
    BY <1>2, <1>4, Kalloc
  <2>3. own[p].use = "free" /\ t \in Pages /\ t # p /\ t \in Dram /\ p \in Dram /\ p \in AllPages
    BY <1>4, <2>1, PagesInDram DEF Sound, FreeOK, TableAt, Used
  <2>4. PICK n2 : n2 = [n1 EXCEPT !.memory[p] = Filled(Zero)]
    OBVIOUS
  <2>5. SetPage(n1, n2, p, Filled(Zero))
    <3>1. Filled(Zero) \in [SlotNumbers -> Words]
      BY WordTypes
    <3> QED BY <2>1, <2>3, <2>4, <3>1, Writing
  <2>6. PICK n3 : n3 = [n2 EXCEPT !.memory[t][slot] = Pte(p, {})]
    OBVIOUS
  <2>7. n2 \in Stores /\ SetEntry(n2, n3, t, slot, Pte(p, {}))
    <3>1. n2 \in Stores
      BY <2>5 DEF SetPage
    <3>2. Pte(p, {}) \in Words
      BY <2>3, WordTypes
    <3> QED BY <2>3, <2>6, <3>1, <3>2, Writing
  <2>8. n = [n3 EXCEPT !.table = p]
    <3>1. n = [n1 EXCEPT !.memory[p] = Filled(Zero), !.memory[t][slot] = Pte(p, {}),
                         !.table = p]
      BY <1>2, <2>1 DEF AddTable
    <3> QED BY <2>1, <2>4, <2>6, <3>1 DEF Stores
  <2>9. n3 \in Stores /\ n3.ok
    <3>1. n3 \in Stores
      BY <2>7 DEF SetEntry
    <3>2. n2.ok = n1.ok
      BY <2>1, <2>4 DEF Stores
    <3>3. n3.ok = n2.ok
      BY <2>6, <2>7 DEF Stores
    <3> QED BY <2>1, <3>1, <3>2, <3>3
  <2>10. n \in Stores /\ n.memory = n3.memory /\ n.table = p /\ n.ok
    BY <2>3, <2>8, <2>9 DEF Stores
  <2>11. \A x \in SlotNumbers : Filled(Zero)[x] = Zero
    BY DEF Filled
  <2>12. Linked(m, n, t, slot, p)
    BY <2>1, <2>3, <2>5, <2>7, <2>10, <2>11 DEF Linked, SetPage, SetEntry
  <2> QED BY <1>4, <2>1, <2>3, <2>10, <2>12 DEF Added
<1> QED BY <1>3, <1>4

\* What a way becomes by it.
OnWay(c, va, level, t, slot) == c[level] = t /\ Index(level, va) = slot
Extended(c, va, level, t, slot, p) ==
  IF OnWay(c, va, level, t, slot) THEN [c EXCEPT ![level - 1] = p] ELSE c

\* A way of an address after that: it shows what it did.
Grown(m, n, s, va, c, e, p) ==
  /\ Follows(n.memory, root[s], va, e)
  /\ View(n.memory, root[s], va) = View(m.memory, root[s], va)
  /\ \A l \in 0 .. RootLevel : c[l] # p

\* Every way stays, or goes one table further.
LEMMA LinkWay ==
  ASSUME root \in [Spaces -> AllPages],
         NEW own, NEW m \in Stores, NEW loose, Sound(own, m, loose, root), NEW n \in Stores,
         NEW level \in 1 .. RootLevel, NEW t, TableAt(own, t, level),
         NEW slot \in SlotNumbers, ~Valid(m.memory[t][slot]),
         NEW p \in Pages, own[p].use = "free", Linked(m, n, t, slot, p),
         NEW s \in Spaces, NEW va \in Int, NEW c, Follows(m.memory, root[s], va, c)
  PROVE  Grown(m, n, s, va, c, Extended(c, va, level, t, slot, p), p)
<1>1. /\ RootLevel \in Nat /\ 0 \in 0 .. RootLevel /\ level \in Nat /\ level # 0
      /\ level - 1 \in 0 .. RootLevel - 1 /\ level \in 0 .. RootLevel
      /\ \A l \in 1 .. RootLevel : l \in 0 .. RootLevel
  BY PageConstants
<1>2. /\ t \in Pages /\ t \in Dram /\ own[t].use = "table" /\ own[t].num = level /\ t # p
      /\ p \in Dram /\ p \in AllPages /\ p # NoPage
  BY PagesInDram, PageConstants DEF TableAt, Used
<1>3. ASSUME NEW l \in 0 .. RootLevel, c[l] # NoPage
      PROVE  TableAt(own, c[l], l) /\ c[l] # p /\ (c[l] = t => l = level)
  <2>1. TablesOK(own, m) /\ (root[s] # NoPage => TableAt(own, root[s], RootLevel))
    BY DEF Sound, RootsOK
  <2>2. TableAt(own, c[l], l)
    BY <1>3, <2>1, ChainTables
  <2> QED BY <1>2, <2>2 DEF TableAt, Used
<1>4. \A l \in 0 .. RootLevel : c[l] \in Dram => c[l] # NoPage
  BY PagesInDram
<1>5. ASSUME NEW l \in 0 .. RootLevel, c[l] \in Dram, NEW x \in SlotNumbers,
             ~(l = level /\ c[l] = t /\ x = slot)
      PROVE  n.memory[c[l]][x] = m.memory[c[l]][x]
  BY <1>2, <1>3, <1>4, <1>5 DEF Linked
<1>6. \A l \in Nat : Index(l, va) \in SlotNumbers
  BY IndexTyped
<1>7. m.memory \in Memories /\ n.memory \in Memories /\ root[s] \in AllPages
  BY DEF Stores
<1>8. CASE ~OnWay(c, va, level, t, slot)
  <2>1. Extended(c, va, level, t, slot, p) = c
    BY <1>8 DEF Extended
  <2>2. ASSUME NEW l \in 0 .. RootLevel, c[l] \in Dram
        PROVE  n.memory[c[l]][Index(l, va)] = m.memory[c[l]][Index(l, va)]
    <3>1. PICK x \in SlotNumbers : x = Index(l, va)
      BY <1>6
    <3>2. ~(l = level /\ c[l] = t /\ x = slot)
      BY <1>8, <3>1 DEF OnWay
    <3> QED BY <1>5, <2>2, <3>1, <3>2
  <2>3. Follows(n.memory, root[s], va, c)
    BY <1>1, <2>2, WayStays
  <2>4. Untouched(own, m, n, c[0], Index(0, va))
    <3>1. \A q \in Dram : (q \in Pages => own[q].use = "mapped") => q # p /\ q # t
      BY <1>2
    <3>2. c[0] \in Dram => n.memory[c[0]][Index(0, va)] = m.memory[c[0]][Index(0, va)]
      BY <1>1, <2>2
    <3> QED BY <3>1, <3>2 DEF Untouched, MappedAt, Linked
  <2>5. View(n.memory, root[s], va) = View(m.memory, root[s], va)
    BY <2>3, <2>4, ViewStays
  <2> QED BY <1>2, <1>3, <2>1, <2>3, <2>5 DEF Grown
<1>9. CASE OnWay(c, va, level, t, slot)
  <2>1. PICK d : d = [c EXCEPT ![level - 1] = p]
    OBVIOUS
  <2>2. Extended(c, va, level, t, slot, p) = d
    BY <1>9, <2>1 DEF Extended
  <2>3. c \in [0 .. RootLevel -> AllPages] /\ d \in [0 .. RootLevel -> AllPages]
    BY <1>1, <1>2, <2>1 DEF Follows
  <2>4. /\ d[level - 1] = p
        /\ \A l \in 0 .. RootLevel : l # level - 1 => d[l] = c[l]
    BY <1>1, <2>1, <2>3
  <2>5. c[level - 1] = NoPage
    <3>1. PICK k \in 0 .. RootLevel - 1 : k = level - 1 /\ k + 1 = level
      BY <1>1
    <3>2. c[k] = Under(m.memory, c[k + 1], Index(k + 1, va))
      BY DEF Follows
    <3>3. c[k] = Under(m.memory, t, slot)
      BY <1>9, <3>1, <3>2 DEF OnWay
    <3> QED BY <3>1, <3>3, WordKinds DEF Under
  <2>6. ASSUME NEW l \in 0 .. RootLevel - 1
        PROVE  d[l] = Under(n.memory, d[l + 1], Index(l + 1, va))
    <3>1. PICK k \in 0 .. RootLevel : k = l + 1 /\ k \in Nat
      BY <1>1
    <3>2. PICK x \in SlotNumbers : x = Index(k, va)
      BY <1>6, <3>1
    <3>3. c[l] = Under(m.memory, c[k], x)
      BY <3>1, <3>2 DEF Follows
    <3>4. CASE k = level
      <4>1. d[k] = t /\ x = slot /\ d[l] = p
        BY <1>1, <1>9, <2>4, <3>1, <3>2, <3>4 DEF OnWay
      <4>2. n.memory[t][slot] = Pte(p, {})
        BY DEF Linked
      <4>3. Under(n.memory, t, slot) = p
        BY <1>2, <4>2, WordKinds DEF Under
      <4> QED BY <3>1, <3>2, <4>1, <4>3
    <3>5. CASE k = level - 1
      <4>1. d[k] = p /\ d[l] = c[l]
        BY <1>1, <2>4, <3>1, <3>5
      <4>2. c[l] = NoPage
        BY <2>5, <3>3, <3>5, PagesInDram DEF Under
      <4>3. Under(n.memory, p, x) = NoPage
        BY WordKinds DEF Linked, Under
      <4> QED BY <3>1, <3>2, <4>1, <4>2, <4>3
    <3>6. CASE k # level /\ k # level - 1
      <4>1. d[k] = c[k] /\ d[l] = c[l]
        BY <1>1, <2>4, <3>1, <3>6
      <4>2. c[k] \in Dram => n.memory[c[k]][x] = m.memory[c[k]][x]
        BY <1>5, <3>6
      <4>3. c[l] = Under(n.memory, c[k], x)
        BY <3>3, <4>2 DEF Under
      <4> QED BY <3>1, <3>2, <4>1, <4>3
    <3> QED BY <3>4, <3>5, <3>6
  <2>7. Follows(n.memory, root[s], va, d)
    <3>1. d[RootLevel] = root[s]
      BY <1>1, <2>4 DEF Follows
    <3> QED BY <2>3, <2>6, <3>1 DEF Follows
  <2>8. c[0] \notin Dram
    BY <1>1, <2>5, PagesInDram, ChainEnds
  <2>9. EntryFor(m.memory, c, va) = Zero
    BY <2>8 DEF EntryFor
  <2>10. EntryFor(n.memory, d, va) = Zero
    <3>1. PICK x \in SlotNumbers : x = Index(0, va)
      BY <1>6
    <3>2. d[0] = p \/ d[0] \notin Dram
      BY <1>1, <2>4, <2>8
    <3>3. n.memory[p][x] = Zero
      BY DEF Linked
    <3> QED BY <3>1, <3>2, <3>3 DEF EntryFor
  <2>11. View(m.memory, root[s], va) = <<>> /\ View(n.memory, root[s], va) = <<>>
    BY <1>7, <2>7, <2>9, <2>10, WordKinds, ViewIs DEF Sight
  <2> QED BY <1>2, <1>3, <2>2, <2>7, <2>11 DEF Grown
<1> QED BY <1>8, <1>9

\* It shows nowhere, and is reached on one way if its parent is.
LEMMA LinkSteady ==
  ASSUME root \in [Spaces -> AllPages],
         NEW own, NEW m \in Stores, NEW loose, Sound(own, m, loose, root), NEW n \in Stores,
         NEW level \in 1 .. RootLevel, NEW t, TableAt(own, t, level),
         NEW slot \in SlotNumbers, ~Valid(m.memory[t][slot]),
         NEW p \in Pages, own[p].use = "free", Linked(m, n, t, slot, p)
  PROVE  /\ Steady(m, n)
         /\ \A s \in Spaces : Apart(m.memory, root[s]) => Apart(n.memory, root[s])
<1>1. m.memory \in Memories /\ \A s \in Spaces : root[s] \in AllPages
  BY DEF Stores
<1>2. ASSUME NEW s \in Spaces, NEW va \in Vas
      PROVE  \E c : /\ Follows(m.memory, root[s], va, c)
                    /\ Follows(n.memory, root[s], va, Extended(c, va, level, t, slot, p))
                    /\ View(n.memory, root[s], va) = View(m.memory, root[s], va)
                    /\ \A l \in 0 .. RootLevel : c[l] # p
  <2>1. va \in Int
    BY DEF Vas
  <2>2. PICK c : Follows(m.memory, root[s], va, c)
    BY <1>1, <2>1, ChainExists
  <2>3. Grown(m, n, s, va, c, Extended(c, va, level, t, slot, p), p)
    BY <2>1, <2>2, LinkWay
  <2> QED BY <2>2, <2>3 DEF Grown
<1>3. ASSUME NEW s \in Spaces, Apart(m.memory, root[s]) PROVE Apart(n.memory, root[s])
  <2> SUFFICES ASSUME NEW va \in Vas, NEW wa \in Vas, NEW c1, NEW d1,
                      Follows(n.memory, root[s], va, c1), Follows(n.memory, root[s], wa, d1),
                      NEW l \in 0 .. RootLevel, c1[l] = d1[l], c1[l] # NoPage
               PROVE  va \div Span(l + 1) = wa \div Span(l + 1)
    BY DEF Apart
  <2>1. PICK c : /\ Follows(m.memory, root[s], va, c) /\ \A k \in 0 .. RootLevel : c[k] # p
                 /\ Follows(n.memory, root[s], va, Extended(c, va, level, t, slot, p))
    BY <1>2
  <2>2. PICK d : /\ Follows(m.memory, root[s], wa, d) /\ \A k \in 0 .. RootLevel : d[k] # p
                 /\ Follows(n.memory, root[s], wa, Extended(d, wa, level, t, slot, p))
    BY <1>2
  <2>3. c1 = Extended(c, va, level, t, slot, p) /\ d1 = Extended(d, wa, level, t, slot, p)
    BY <2>1, <2>2, OnlyWay
  <2>4. c \in [0 .. RootLevel -> AllPages] /\ d \in [0 .. RootLevel -> AllPages]
    BY <2>1, <2>2 DEF Follows
  <2>5. /\ c1[l] = c[l] \/ (c1[l] = p /\ l = level - 1 /\ OnWay(c, va, level, t, slot))
        /\ d1[l] = d[l] \/ (d1[l] = p /\ l = level - 1 /\ OnWay(d, wa, level, t, slot))
    BY <2>3, <2>4 DEF Extended
  <2>6. CASE c1[l] = c[l] /\ d1[l] = d[l]
    <3>1. c[l] = d[l] /\ c[l] # NoPage
      BY <2>6
    <3> QED BY <1>3, <2>1, <2>2, <3>1 DEF Apart
  <2>7. CASE ~(c1[l] = c[l] /\ d1[l] = d[l])
    <3>1. /\ l = level - 1 /\ OnWay(c, va, level, t, slot) /\ OnWay(d, wa, level, t, slot)
      BY <2>1, <2>2, <2>5, <2>7
    <3>2. /\ level \in 0 .. RootLevel /\ level \in Nat /\ l + 1 = level
          /\ va \in Int /\ wa \in Int
      BY <3>1, PageConstants DEF Vas
    <3>3. c[level] = d[level] /\ c[level] # NoPage
      BY <3>1, PageConstants DEF OnWay, TableAt, Used
    <3>4. va \div Span(level + 1) = wa \div Span(level + 1)
      BY <1>3, <2>1, <2>2, <3>2, <3>3 DEF Apart
    <3>5. va \div Span(level) = Slots * (va \div Span(level + 1)) + slot
      BY <3>1, <3>2, IndexIs DEF OnWay
    <3>6. wa \div Span(level) = Slots * (wa \div Span(level + 1)) + slot
      BY <3>1, <3>2, IndexIs DEF OnWay
    <3> QED BY <3>2, <3>4, <3>5, <3>6
  <2> QED BY <2>6, <2>7
<1> QED BY <1>2, <1>3 DEF Steady

\* What shows stays over two steps.
LEMMA SteadyOn ==
  ASSUME NEW m, NEW n, NEW o, Steady(m, n), Steady(n, o)
  PROVE  Steady(m, o)
BY DEF Steady

\* A walk after i levels: it has shown nothing, and is on the way to its
\* address.
Traced(m, top, va, alloc, loose, i) ==
  {w \in Stores :
     /\ Steady(m, w) /\ Apart(w.memory, top)
     /\ \A q \in loose : w.memory[q] = m.memory[q]
     /\ \E c : /\ Follows(w.memory, top, va, c)
               /\ w.ok => w.table = c[RootLevel - i]
               /\ ~w.ok /\ ~alloc => c[0] \notin Dram}

\* One level of the walk.
LEMMA DescendTraced ==
  ASSUME root \in [Spaces -> AllPages], NEW s \in Spaces, NEW top, top = root[s],
         NEW m, NEW alloc \in BOOLEAN, NEW loose, NEW i \in 0 .. RootLevel - 1, NEW va \in Vas,
         NEW w \in Way(m, top, alloc, loose, root, i), w \in Traced(m, top, va, alloc, loose, i),
         NEW n, n = Descend(w, RootLevel - i, va, alloc)
  PROVE  n \in Traced(m, top, va, alloc, loose, i + 1)
<1>1. PICK level \in 1 .. RootLevel :
        /\ level = RootLevel - i /\ RootLevel - (i + 1) = level - 1
        /\ (i # 0 => level # RootLevel) /\ (i = 0 => level = RootLevel)
        /\ level \in Nat /\ level - 1 \in 0 .. RootLevel /\ level \in 0 .. RootLevel
        /\ level - 1 \in 0 .. RootLevel - 1 /\ level # 0
  BY PageConstants
<1>2. PICK own : /\ Sound(own, w, loose, root)
                 /\ TableAt(own, top, RootLevel)
                 /\ w.ok => TableAt(own, w.table, level)
  BY <1>1 DEF Way
<1>3. w \in Stores /\ NoLeaf(w, top) /\ (i = 0 => w.table = top) /\ va \in Int
  BY DEF Way, Vas
<1>4. /\ Steady(m, w) /\ Apart(w.memory, top)
      /\ \A q \in loose : w.memory[q] = m.memory[q]
  BY DEF Traced
<1>5. PICK c : /\ Follows(w.memory, top, va, c)
               /\ w.ok => w.table = c[level]
               /\ ~w.ok /\ ~alloc => c[0] \notin Dram
  BY <1>1 DEF Traced
<1>6. SUFFICES /\ n \in Stores
               /\ Steady(m, n) /\ Apart(n.memory, top)
               /\ \A q \in loose : n.memory[q] = m.memory[q]
               /\ \E d : /\ Follows(n.memory, top, va, d)
                         /\ n.ok => n.table = d[level - 1]
                         /\ ~n.ok /\ ~alloc => d[0] \notin Dram
  BY <1>1 DEF Traced
<1>7. ASSUME n \in Stores, n.memory = w.memory, n.ok => n.table = c[level - 1],
             ~n.ok /\ ~alloc => c[0] \notin Dram
      PROVE  /\ n \in Stores
             /\ Steady(m, n) /\ Apart(n.memory, top)
             /\ \A q \in loose : n.memory[q] = m.memory[q]
             /\ \E d : /\ Follows(n.memory, top, va, d)
                       /\ n.ok => n.table = d[level - 1]
                       /\ ~n.ok /\ ~alloc => d[0] \notin Dram
  <2>1. Steady(m, n)
    BY <1>4, <1>7 DEF Steady
  <2> QED BY <1>4, <1>5, <1>7, <2>1
<1>8. CASE ~w.ok
  <2>1. n = w
    BY <1>8 DEF Descend
  <2> QED BY <1>3, <1>5, <1>7, <1>8, <2>1
<1>9. CASE w.ok
  <2>1. PICK t : t = w.table
    OBVIOUS
  <2>2. PICK slot \in SlotNumbers : slot = Index(level, va)
    BY <1>1, <1>3, IndexTyped
  <2>3. PICK pte : pte = w.memory[t][slot]
    OBVIOUS
  <2>4. /\ t \in Pages /\ own[t].use = "table" /\ own[t].num = level /\ t = c[level]
        /\ t \in Dram /\ TableAt(own, t, level)
    BY <1>2, <1>5, <1>9, <2>1, PagesInDram DEF TableAt, Used
  <2>5. c[level - 1] = Under(w.memory, t, slot)
    <3>1. PICK k \in 0 .. RootLevel - 1 : k = level - 1 /\ k + 1 = level
      BY <1>1
    <3>2. c[k] = Under(w.memory, c[k + 1], Index(k + 1, va))
      BY <1>5 DEF Follows
    <3> QED BY <2>2, <2>4, <3>1, <3>2
  <2>6. CASE Valid(pte)
    <3>1. n = [w EXCEPT !.table = pte.page]
      BY <1>1, <1>9, <2>1, <2>2, <2>3, <2>4, <2>6 DEF Descend
    <3>2. ~Maps(pte)
      <4>1. CASE i = 0
        BY <1>3, <2>1, <2>3, <4>1 DEF NoLeaf
      <4>2. CASE i # 0
        <5>1. EntryOK(own, w, t, slot)
          BY <1>2, <2>4 DEF Sound, TablesOK
        <5>2. level # RootLevel /\ level # 0
          BY <1>1, <4>2
        <5> QED BY <2>3, <2>4, <5>1, <5>2 DEF EntryOK, LeafOK
      <4> QED BY <4>1, <4>2
    <3>3. Points(pte)
      BY <2>6, <3>2, WordKinds
    <3>4. c[level - 1] = pte.page
      BY <2>3, <2>4, <2>5, <3>3 DEF Under
    <3>5. pte.page \in AllPages
      BY <1>3, <2>3, <2>4, StoreTypes
    <3>6. n \in Stores /\ n.memory = w.memory /\ n.table = pte.page /\ n.ok
      BY <1>3, <1>9, <3>1, <3>5 DEF Stores
    <3> QED BY <1>7, <3>4, <3>6
  <2>7. CASE ~Valid(pte) /\ ~alloc
    <3>1. n = Fail(w)
      BY <1>1, <1>9, <2>1, <2>2, <2>3, <2>4, <2>7 DEF Descend
    <3>2. n \in Stores /\ n.memory = w.memory /\ ~n.ok
      BY <1>3, <3>1, StoreTypes
    <3>3. c[level - 1] = NoPage
      BY <2>3, <2>5, <2>7, WordKinds DEF Under
    <3>4. c[0] \notin Dram
      BY <1>1, <1>5, <3>3, PagesInDram, ChainEnds
    <3> QED BY <1>7, <3>2, <3>4
  <2>8. CASE ~Valid(pte) /\ alloc
    <3>1. n = AddTable(w, level, va)
      BY <1>1, <1>9, <2>1, <2>2, <2>3, <2>4, <2>8 DEF Descend
    <3>2. PICK p : p = w.free
      OBVIOUS
    <3>3. /\ n \in Stores
          /\ p = NoPage => ~n.ok /\ n.memory = w.memory
          /\ p # NoPage => /\ n.ok /\ n.table = p /\ p \in Pages /\ own[p].use = "free"
                           /\ Linked(w, n, t, slot, p)
      <4>1. Added(own, w, n, t, slot, p)
        BY <1>1, <1>2, <1>3, <2>1, <2>2, <2>4, <3>1, <3>2, AddTableIs
      <4> QED BY <4>1 DEF Added
    <3>4. CASE p = NoPage
      BY <1>7, <2>8, <3>3, <3>4
    <3>5. CASE p # NoPage
      <4>1. ~Valid(w.memory[t][slot])
        BY <2>3, <2>8
      <4>2. Steady(w, n)
        BY <1>2, <1>3, <2>4, <3>3, <3>5, <4>1, LinkSteady
      <4>3. Apart(n.memory, top)
        BY <1>2, <1>3, <1>4, <2>4, <3>3, <3>5, <4>1, LinkSteady
      <4>4. Grown(w, n, s, va, c, Extended(c, va, level, t, slot, p), p)
        BY <1>2, <1>3, <1>5, <2>4, <3>3, <3>5, <4>1, LinkWay
      <4>5. Extended(c, va, level, t, slot, p)[level - 1] = p
        <5>1. c \in [0 .. RootLevel -> AllPages]
          BY <1>5 DEF Follows
        <5> QED BY <1>1, <2>2, <2>4, <5>1 DEF Extended, OnWay
      <4>6. \A q \in loose : n.memory[q] = w.memory[q]
        <5>1. \A q \in loose : q \in Dram /\ own[q].use = "loose"
          BY <1>2, PagesInDram DEF Sound
        <5> QED BY <2>4, <3>3, <3>5, <5>1 DEF Linked
      <4> QED BY <1>4, <3>3, <3>5, <4>2, <4>3, <4>4, <4>5, <4>6, SteadyOn DEF Grown
    <3> QED BY <3>4, <3>5
  <2> QED BY <2>6, <2>7, <2>8
<1> QED BY <1>8, <1>9

\* The walk of all levels.
LEMMA WalkTraced ==
  ASSUME root \in [Spaces -> AllPages], NEW s \in Spaces, NEW top, top = root[s],
         NEW own, NEW m \in Stores, NEW loose, Sound(own, m, loose, root),
         TableAt(own, top, RootLevel), NoLeaf(m, top), Apart(m.memory, top),
         NEW va \in Vas, NEW alloc \in BOOLEAN, NEW w, w = Walk(m, top, va, alloc)
  PROVE  w \in Traced(m, top, va, alloc, loose, RootLevel)
<1> DEFINE Turn == [i \in Nat |-> [v \in Stores |-> Descend(v, RootLevel - i, va, alloc)]]
           I == [i \in Nat |-> Way(m, top, alloc, loose, root, i)
                                 \cap Traced(m, top, va, alloc, loose, i)]
<1>1. RootLevel \in Nat /\ RootLevel - 0 = RootLevel
  BY PageConstants
<1>2. PICK start : start = [m EXCEPT !.table = top, !.ok = va < MaxVa]
  OBVIOUS
<1>3. /\ start \in Stores /\ start.memory = m.memory /\ start.free = m.free
      /\ start.table = top /\ start.ok
  <2>1. top \in AllPages
    BY PagesInDram DEF TableAt, Used
  <2>2. va < MaxVa
    BY PageConstants DEF Vas
  <2>3. start = [m EXCEPT !.table = top, !.ok = TRUE]
    BY <1>2, <2>2
  <2> QED BY <2>1, <2>3 DEF Stores
<1>4. start \in I[0]
  <2>1. Sound(own, start, loose, root)
    BY <1>3, SoundSame
  <2>2. NoLeaf(start, top)
    BY <1>3 DEF NoLeaf
  <2>3. start \in Way(m, top, alloc, loose, root, 0)
    BY <1>1, <1>3, <2>1, <2>2 DEF Way
  <2>4. PICK c : Follows(m.memory, top, va, c)
    <3>1. m.memory \in Memories /\ top \in AllPages /\ va \in Int
      BY DEF Stores, Vas
    <3> QED BY <3>1, ChainExists
  <2>5. c[RootLevel] = top
    BY <2>4 DEF Follows
  <2>6. Steady(m, start)
    BY <1>3 DEF Steady
  <2>7. start \in Traced(m, top, va, alloc, loose, 0)
    BY <1>1, <1>3, <2>4, <2>5, <2>6 DEF Traced
  <2> QED BY <2>3, <2>7
<1>5. \A i \in 0 .. RootLevel - 1 : \A v \in I[i] : Turn[i][v] \in I[i + 1]
  <2> SUFFICES ASSUME NEW i \in 0 .. RootLevel - 1, NEW v \in I[i]
               PROVE  Turn[i][v] \in I[i + 1]
    OBVIOUS
  <2>1. i \in Nat /\ i + 1 \in Nat
    OBVIOUS
  <2>2. /\ v \in Way(m, top, alloc, loose, root, i) /\ v \in Stores
        /\ v \in Traced(m, top, va, alloc, loose, i)
    BY <2>1 DEF Way
  <2>3. PICK n : n = Descend(v, RootLevel - i, va, alloc)
    OBVIOUS
  <2>4. n \in Way(m, top, alloc, loose, root, i + 1)
    BY <2>2, <2>3, DescendKeeps DEF Vas
  <2>5. n \in Traced(m, top, va, alloc, loose, i + 1)
    BY <2>2, <2>3, DescendTraced
  <2> QED BY <2>1, <2>2, <2>3, <2>4, <2>5
<1>6. I[RootLevel] \subseteq Traced(m, top, va, alloc, loose, RootLevel)
  BY <1>1
<1> HIDE DEF Turn, I
<1>7. Repeat(Turn, start, RootLevel) \in I[RootLevel]
  BY <1>1, <1>4, <1>5, RepeatKeeps
<1>8. w = Repeat(Turn, start, RootLevel)
  BY <1>2 DEF Walk, Turn
<1> QED BY <1>6, <1>7, <1>8

\* Only an entry of the last level, and the page it maps, change.
EntryOnly(own, m, n, t, slot) ==
  /\ \A u \in Pages : own[u].use = "table" =>
       \A x \in SlotNumbers : ~(u = t /\ x = slot) => n.memory[u][x] = m.memory[u][x]
  /\ \A q \in Dram : (q \in Pages => own[q].use = "mapped" /\ ~MappedAt(own, q, t, slot))
       => n.memory[q] = m.memory[q]

\* Then other addresses than that of the entry show what they did.
LEMMA EntryAlike ==
  ASSUME root \in [Spaces -> AllPages],
         NEW own, NEW m \in Stores, NEW loose, Sound(own, m, loose, root), NEW n \in Stores,
         NEW s0 \in Spaces, NEW va0 \in Vas, NEW c0, Follows(m.memory, root[s0], va0, c0),
         Apart(m.memory, root[s0]),
         NEW t, t = c0[0], t \in Dram, NEW slot \in SlotNumbers, slot = Index(0, va0),
         EntryOnly(own, m, n, t, slot)
  PROVE  /\ Alike(m, n, s0, va0)
         /\ Follows(n.memory, root[s0], va0, c0)
         /\ Apart(n.memory, root[s0])
<1>1. /\ RootLevel \in 0 .. RootLevel /\ 0 \in 0 .. RootLevel
      /\ \A l \in 1 .. RootLevel : l \in 0 .. RootLevel /\ l # 0 /\ l \in Nat
  BY PageConstants
<1>2. /\ m.memory \in Memories /\ \A s \in Spaces : root[s] \in AllPages
      /\ TablesOK(own, m)
      /\ \A s \in Spaces : root[s] # NoPage => TableAt(own, root[s], RootLevel)
      /\ va0 \in Int
  BY DEF Stores, Sound, RootsOK, Vas
<1>3. ASSUME NEW s \in Spaces, NEW va \in Int, NEW c, Follows(m.memory, root[s], va, c),
             NEW l \in 0 .. RootLevel, c[l] \in Dram
      PROVE  TableAt(own, c[l], l)
  <2>1. c[l] # NoPage
    BY <1>3, PagesInDram
  <2> QED BY <1>2, <1>3, <2>1, ChainTables
<1>4. TableAt(own, t, 0)
  BY <1>1, <1>2, <1>3
<1>5. ASSUME NEW s \in Spaces, NEW va \in Int, NEW c, Follows(m.memory, root[s], va, c)
      PROVE  Follows(n.memory, root[s], va, c)
  <2>1. ASSUME NEW l \in 1 .. RootLevel, c[l] \in Dram
        PROVE  n.memory[c[l]][Index(l, va)] = m.memory[c[l]][Index(l, va)]
    <3>1. TableAt(own, c[l], l)
      BY <1>1, <1>3, <1>5, <2>1
    <3>2. PICK x \in SlotNumbers : x = Index(l, va)
      BY <1>1, IndexTyped
    <3>3. c[l] \in Pages /\ own[c[l]].use = "table" /\ c[l] # t
      BY <1>1, <1>4, <3>1 DEF TableAt, Used
    <3> QED BY <3>2, <3>3 DEF EntryOnly
  <2> QED BY <1>5, <2>1, WayStays
<1>6. ASSUME NEW s \in Spaces, NEW va \in Vas, ~(s = s0 /\ va = va0)
      PROVE  View(n.memory, root[s], va) = View(m.memory, root[s], va)
  <2>1. va \in Int
    BY DEF Vas
  <2>2. PICK c : Follows(m.memory, root[s], va, c)
    BY <1>2, <2>1, ChainExists
  <2>3. PICK x \in SlotNumbers : x = Index(0, va)
    BY <2>1, IndexTyped
  <2>4. Follows(n.memory, root[s], va, c)
    BY <1>5, <2>1, <2>2
  <2>5. ~(c[0] = t /\ x = slot)
    <3> SUFFICES ASSUME c[0] = t, x = slot PROVE FALSE
      OBVIOUS
    <3>1. c[0] = c0[0] /\ c[0] # NoPage /\ Index(0, va) = Index(0, va0)
      BY <2>3, PagesInDram
    <3>2. c[RootLevel] = c0[RootLevel] /\ c[RootLevel] # NoPage
      BY <1>1, <1>2, <2>1, <2>2, <3>1, SameWay
    <3>3. s = s0
      BY <2>2, <3>2 DEF Follows, Sound, RootsOK
    <3>4. va = va0
      BY <2>2, <3>1, <3>3, OneAddress
    <3> QED BY <1>6, <3>3, <3>4
  <2>6. Untouched(own, m, n, c[0], x)
    <3>1. ASSUME c[0] \in Dram PROVE n.memory[c[0]][x] = m.memory[c[0]][x]
      <4>1. TableAt(own, c[0], 0)
        BY <1>1, <1>3, <2>1, <2>2, <3>1
      <4> QED BY <2>5, <4>1 DEF EntryOnly, TableAt, Used
    <3>2. ASSUME NEW q \in Dram, q \in Pages => MappedAt(own, q, c[0], x)
          PROVE  n.memory[q] = m.memory[q]
      BY <2>5, <3>2 DEF EntryOnly, MappedAt
    <3> QED BY <3>1, <3>2 DEF Untouched
  <2> QED BY <2>1, <2>2, <2>3, <2>4, <2>6, ViewStays
<1>7. Apart(n.memory, root[s0])
  <2>1. \A va \in Vas : \A c : Follows(m.memory, root[s0], va, c) => Follows(n.memory, root[s0], va, c)
    BY <1>5 DEF Vas
  <2> QED BY <1>2, <2>1, ApartStays
<1>8. Follows(n.memory, root[s0], va0, c0)
  BY <1>2, <1>5
<1> QED BY <1>6, <1>7, <1>8 DEF Alike

\* States that a space may be added to, or taken from, with one way to each of
\* its tables.
Tidy(new, loose) == {m \in Based(root[new], loose, root) : Apart(m.memory, root[new])}

\* xv6_mappage shows the page at its address, where nothing was, or nothing.
Mapped(m, n, new, va, p, flags) ==
  /\ Apart(n.memory, root[new])
  /\ n.ok => /\ Alike(m, n, new, va) /\ View(m.memory, root[new], va) = <<>>
             /\ View(n.memory, root[new], va) = <<Pte(p, flags), m.memory[p]>>
  /\ ~n.ok => Steady(m, n)

\* Its walk shows nothing, and its store changes the one entry.
LEMMA MappageShows ==
  ASSUME root \in [Spaces -> AllPages], NEW new \in Spaces, NEW more,
         NEW m \in Tidy(new, more), NEW va \in Vas, NEW p \in more,
         NEW flags \in {{}, UserFlags}, flags # {}, NEW n, n = Mappage(m, root[new], va, p, flags)
  PROVE  Mapped(m, n, new, va, p, flags)
<1>1. PICK top : top = root[new]
  OBVIOUS
<1>2. PICK w : w = Walk(m, top, va, TRUE)
  OBVIOUS
<1>3. PICK own : Sound(own, m, more, root) /\ TableAt(own, top, RootLevel)
  BY <1>1 DEF Tidy, Based
<1>4. m \in Stores /\ NoLeaf(m, top) /\ Apart(m.memory, top) /\ va \in Int
  BY <1>1 DEF Tidy, Based, Vas
<1>5. w \in Way(m, top, TRUE, more, root, RootLevel)
  BY <1>2, <1>3, <1>4, WalkKeeps
<1>6. w \in Traced(m, top, va, TRUE, more, RootLevel)
  BY <1>1, <1>2, <1>3, <1>4, WalkTraced
<1>7. RootLevel - RootLevel = 0
  BY PageConstants
<1>8. PICK own1 : Sound(own1, w, more, root) /\ (w.ok => TableAt(own1, w.table, 0))
  BY <1>5, <1>7 DEF Way
<1>9. /\ w \in Stores /\ Steady(m, w) /\ Apart(w.memory, top)
      /\ \A q \in more : w.memory[q] = m.memory[q]
  BY <1>6 DEF Traced
<1>10. PICK c : Follows(w.memory, top, va, c) /\ (w.ok => w.table = c[0])
  BY <1>6, <1>7 DEF Traced
<1>11. PICK slot \in SlotNumbers : slot = Index(0, va)
  BY <1>4, IndexTyped
<1>12. PICK t : t = w.table
  OBVIOUS
<1>13. ASSUME n.memory = w.memory, ~n.ok PROVE Mapped(m, n, new, va, p, flags)
  BY <1>1, <1>9, <1>13 DEF Mapped, Steady
<1>14. CASE ~w.ok
  <2>1. n = w
    BY <1>1, <1>2, <1>14 DEF Mappage
  <2> QED BY <1>13, <1>14, <2>1
<1>15. CASE w.ok /\ Valid(w.memory[t][slot])
  <2>1. n = Fail(w)
    BY <1>1, <1>2, <1>11, <1>12, <1>15 DEF Mappage
  <2> QED BY <1>9, <1>13, <2>1, StoreTypes
<1>16. CASE w.ok /\ ~Valid(w.memory[t][slot])
  <2>1. n = [w EXCEPT !.memory[t][slot] = Pte(p, flags)]
    BY <1>1, <1>2, <1>11, <1>12, <1>16 DEF Mappage
  <2>2. /\ t \in Pages /\ own1[t].use = "table" /\ own1[t].num = 0 /\ t \in Dram /\ t = c[0]
    BY <1>8, <1>10, <1>12, <1>16, PagesInDram DEF TableAt, Used
  <2>3. p \in Pages /\ own1[p].use = "loose" /\ p # t /\ p \in Dram /\ p \in AllPages
    BY <1>8, <2>2, PagesInDram DEF Sound
  <2>4. SetEntry(w, n, t, slot, Pte(p, flags)) /\ n \in Stores /\ n.ok
    <3>1. Pte(p, flags) \in Words
      BY <2>3, WordTypes
    <3>2. SetEntry(w, n, t, slot, Pte(p, flags))
      BY <1>9, <2>1, <2>2, <3>1, Writing
    <3>3. n.ok = w.ok
      BY <1>9, <2>1 DEF Stores
    <3> QED BY <1>16, <3>2, <3>3 DEF SetEntry
  <2>5. EntryOnly(own1, w, n, t, slot)
    <3>1. ASSUME NEW u \in Pages, NEW x \in SlotNumbers, ~(u = t /\ x = slot)
          PROVE  n.memory[u][x] = w.memory[u][x]
      BY <2>4, <3>1, PagesInDram DEF SetEntry
    <3>2. ASSUME NEW q \in Dram, q \in Pages => own1[q].use = "mapped"
          PROVE  n.memory[q] = w.memory[q]
      BY <2>2, <2>4, <3>2 DEF SetEntry
    <3> QED BY <3>1, <3>2 DEF EntryOnly
  <2>6. /\ Alike(w, n, new, va) /\ Follows(n.memory, top, va, c) /\ Apart(n.memory, top)
    BY <1>1, <1>8, <1>9, <1>10, <1>11, <2>2, <2>4, <2>5, EntryAlike
  <2>7. w.memory \in Memories /\ n.memory \in Memories /\ top \in AllPages
    BY <1>1, <1>9, <2>4 DEF Stores
  <2>8. View(w.memory, top, va) = <<>>
    <3>1. EntryFor(w.memory, c, va) = w.memory[t][slot]
      BY <1>11, <2>2 DEF EntryFor
    <3> QED BY <1>4, <1>10, <1>16, <2>7, <3>1, ViewIs DEF Sight
  <2>9. View(n.memory, top, va) = <<Pte(p, flags), m.memory[p]>>
    <3>1. EntryFor(n.memory, c, va) = Pte(p, flags)
      BY <1>11, <2>2, <2>4 DEF EntryFor, SetEntry
    <3>2. n.memory[p] = m.memory[p]
      BY <1>9, <2>3, <2>4 DEF SetEntry
    <3>3. View(n.memory, top, va) = Sight(n.memory, Pte(p, flags))
      BY <1>4, <2>6, <2>7, <3>1, ViewIs
    <3> QED BY <2>3, <3>2, <3>3, WordKinds DEF Sight
  <2>10. View(m.memory, top, va) = <<>> /\ Alike(m, n, new, va)
    BY <1>1, <1>9, <2>6, <2>8 DEF Steady, Alike
  <2> QED BY <1>1, <2>4, <2>6, <2>9, <2>10 DEF Mapped
<1> QED BY <1>14, <1>15, <1>16

\* One page of xv6_unmap_copied_pages: nothing is seen at its address.
Unmapped(m, n, new, va) ==
  /\ Apart(n.memory, root[new])
  /\ Alike(m, n, new, va) /\ View(n.memory, root[new], va) = <<>>

\* Its walk adds no table, and its store clears the one entry.
LEMMA UnmapShows ==
  ASSUME root \in [Spaces -> AllPages], NEW new \in Spaces, NEW loose,
         NEW m \in Tidy(new, loose), NEW va \in Vas, NEW n, n = UnmapPage(m, root[new], va)
  PROVE  Unmapped(m, n, new, va)
<1>1. PICK top : top = root[new]
  OBVIOUS
<1>2. PICK w : w = Walk(m, top, va, FALSE)
  OBVIOUS
<1>3. PICK own : Sound(own, m, loose, root) /\ TableAt(own, top, RootLevel)
  BY <1>1 DEF Tidy, Based
<1>4. m \in Stores /\ NoLeaf(m, top) /\ Apart(m.memory, top) /\ va \in Int
  BY <1>1 DEF Tidy, Based, Vas
<1>5. w \in Way(m, top, FALSE, loose, root, RootLevel)
  BY <1>2, <1>3, <1>4, WalkKeeps
<1>6. w \in Traced(m, top, va, FALSE, loose, RootLevel)
  BY <1>1, <1>2, <1>3, <1>4, WalkTraced
<1>7. RootLevel - RootLevel = 0
  BY PageConstants
<1>8. w.memory = m.memory /\ w.free = m.free
  BY <1>5 DEF Way
<1>9. PICK own1 : Sound(own1, m, loose, root) /\ (w.ok => TableAt(own1, w.table, 0))
  <2>1. PICK o : Sound(o, w, loose, root) /\ (w.ok => TableAt(o, w.table, 0))
    BY <1>5, <1>7 DEF Way
  <2>2. Sound(o, m, loose, root)
    BY <1>8, <2>1, SoundSame
  <2> QED BY <2>1, <2>2
<1>10. PICK c : /\ Follows(m.memory, top, va, c) /\ (w.ok => w.table = c[0])
                /\ ~w.ok => c[0] \notin Dram
  BY <1>6, <1>7, <1>8 DEF Traced
<1>11. PICK slot \in SlotNumbers : slot = Index(0, va)
  BY <1>4, IndexTyped
<1>12. PICK t : t = w.table
  OBVIOUS
<1>13. PICK pte : pte = m.memory[t][slot]
  OBVIOUS
<1>14. m.memory \in Memories /\ top \in AllPages
  BY <1>1, <1>4 DEF Stores
<1>15. CASE ~w.ok \/ ~Valid(pte)
  <2>1. n = m
    BY <1>1, <1>2, <1>8, <1>11, <1>12, <1>13, <1>15 DEF UnmapPage
  <2>2. EntryFor(m.memory, c, va) = Zero \/ (EntryFor(m.memory, c, va) = pte /\ ~Valid(pte))
    BY <1>10, <1>11, <1>12, <1>13, <1>15 DEF EntryFor
  <2>3. View(m.memory, top, va) = <<>>
    BY <1>4, <1>10, <1>14, <2>2, WordKinds, ViewIs DEF Sight
  <2> QED BY <1>1, <1>4, <2>1, <2>3 DEF Unmapped, Alike
<1>16. CASE w.ok /\ Valid(pte)
  <2>1. PICK p : p = pte.page
    OBVIOUS
  <2>2. PICK f : f = KfreePage(m, p)
    OBVIOUS
  <2>3. n = [f EXCEPT !.memory[t][slot] = Zero]
    BY <1>1, <1>2, <1>8, <1>11, <1>12, <1>13, <1>16, <2>1, <2>2 DEF UnmapPage
  <2>4. /\ t \in Pages /\ own1[t].use = "table" /\ t \in Dram /\ t = c[0]
    BY <1>9, <1>10, <1>12, <1>16, PagesInDram DEF TableAt, Used
  <2>5. p \in Pages => MappedAt(own1, p, t, slot)
    <3>1. pte = EntryFor(m.memory, c, va)
      BY <1>11, <1>13, <2>4 DEF EntryFor
    <3> QED BY <1>1, <1>4, <1>9, <1>10, <1>11, <1>16, <2>1, <2>4, <3>1, EndIs
  <2>6. f \in Stores /\ \A q \in Dram : ~(q = p /\ p \in Pages) => f.memory[q] = m.memory[q]
    <3>1. CASE p \in Pages
      BY <1>4, <2>2, <3>1, KfreeIs DEF OnlyPage
    <3>2. CASE p \notin Pages
      <4>1. f = Fail(m)
        BY <2>2, <3>2 DEF KfreePage
      <4> QED BY <1>4, <4>1, StoreTypes
    <3> QED BY <3>1, <3>2
  <2>7. SetEntry(f, n, t, slot, Zero) /\ n \in Stores
    <3>1. f \in Stores /\ Zero \in Words /\ t \in Dram
      BY <2>4, <2>6, WordTypes
    <3>2. SetEntry(f, n, t, slot, Zero)
      BY <2>3, <3>1, Writing
    <3> QED BY <3>2 DEF SetEntry
  <2>8. EntryOnly(own1, m, n, t, slot)
    <3>1. ASSUME NEW u \in Pages, own1[u].use = "table", NEW x \in SlotNumbers, ~(u = t /\ x = slot)
          PROVE  n.memory[u][x] = m.memory[u][x]
      <4>1. u \in Dram /\ ~(u = p /\ p \in Pages)
        BY <2>5, <3>1, PagesInDram DEF MappedAt
      <4>2. f.memory[u] = m.memory[u]
        BY <2>6, <4>1
      <4>3. n.memory[u][x] = f.memory[u][x]
        BY <2>7, <3>1, <4>1 DEF SetEntry
      <4> QED BY <4>2, <4>3
    <3>2. ASSUME NEW q \in Dram, q \in Pages => own1[q].use = "mapped" /\ ~MappedAt(own1, q, t, slot)
          PROVE  n.memory[q] = m.memory[q]
      BY <2>4, <2>5, <2>6, <2>7, <3>2 DEF SetEntry
    <3> QED BY <3>1, <3>2 DEF EntryOnly
  <2>9. /\ Alike(m, n, new, va) /\ Follows(n.memory, top, va, c) /\ Apart(n.memory, top)
    BY <1>1, <1>4, <1>9, <1>10, <1>11, <2>4, <2>7, <2>8, EntryAlike
  <2>10. View(n.memory, top, va) = <<>>
    <3>1. EntryFor(n.memory, c, va) = Zero
      BY <1>11, <2>4, <2>7 DEF EntryFor, SetEntry
    <3>2. n.memory \in Memories
      BY <2>7 DEF Stores
    <3> QED BY <1>4, <1>14, <2>9, <3>1, <3>2, WordKinds, ViewIs DEF Sight
  <2> QED BY <1>1, <2>9, <2>10 DEF Unmapped
<1> QED BY <1>15, <1>16

\* The addresses of the first k mappings, and what is seen after unmapping
\* them.
Taken(mappings, k) == {mappings[j].va : j \in 1 .. k}
Undone(m, n, new, mappings, k) ==
  \A s \in Spaces : \A va \in Vas :
    View(n.memory, root[s], va) =
      IF s = new /\ va \in Taken(mappings, k) THEN <<>> ELSE View(m.memory, root[s], va)
UndoneStores(m, new, loose, mappings, k) ==
  {n \in Tidy(new, loose) : Undone(m, n, new, mappings, k)}

\* All pages of xv6_unmap_copied_pages.
LEMMA UnmapsShow ==
  ASSUME root \in [Spaces -> AllPages], NEW new \in Spaces, NEW loose,
         NEW m \in Tidy(new, loose), NEW mappings, NEW count \in Nat,
         \A j \in 1 .. count : mappings[j].va \in Vas,
         NEW n, n = UnmapCopiedPages(m, root[new], mappings, count)
  PROVE  n \in UndoneStores(m, new, loose, mappings, count)
<1> DEFINE Unmap == [i \in Nat |-> [s \in Stores |-> UnmapPage(s, root[new], mappings[i + 1].va)]]
           I == [i \in Nat |-> UndoneStores(m, new, loose, mappings, i)]
<1>1. m \in I[0]
  <2>1. Taken(mappings, 0) = {}
    BY DEF Taken
  <2>2. Undone(m, m, new, mappings, 0)
    BY <2>1 DEF Undone
  <2>3. m \in UndoneStores(m, new, loose, mappings, 0)
    BY <2>2 DEF UndoneStores
  <2> QED BY <2>3
<1>2. \A i \in 0 .. count - 1 : \A u \in I[i] : Unmap[i][u] \in I[i + 1]
  <2> SUFFICES ASSUME NEW i \in 0 .. count - 1, NEW u \in I[i]
               PROVE  Unmap[i][u] \in I[i + 1]
    OBVIOUS
  <2>1. i \in Nat /\ i + 1 \in Nat /\ i + 1 \in 1 .. count
    OBVIOUS
  <2>2. u \in Tidy(new, loose) /\ Undone(m, u, new, mappings, i) /\ u \in Stores
    BY <2>1 DEF UndoneStores, Tidy, Based
  <2>3. PICK va0 \in Vas : va0 = mappings[i + 1].va
    BY <2>1
  <2>4. PICK v : v = UnmapPage(u, root[new], va0)
    OBVIOUS
  <2>5. Unmapped(u, v, new, va0)
    BY <2>2, <2>4, UnmapShows
  <2>6. v \in Tidy(new, loose)
    <3>1. u \in Based(root[new], loose, root) /\ va0 \in Int
      BY <2>2 DEF Tidy, Vas
    <3>2. v \in Based(root[new], loose, root)
      BY <2>4, <3>1, UnmapKeeps
    <3> QED BY <2>5, <3>2 DEF Tidy, Unmapped
  <2>7. \A va : va \in Taken(mappings, i + 1) <=> va \in Taken(mappings, i) \/ va = va0
    <3>1. \A j : j \in 1 .. i + 1 <=> j \in 1 .. i \/ j = i + 1
      BY <2>1
    <3> QED BY <2>3, <3>1 DEF Taken
  <2>8. Undone(m, v, new, mappings, i + 1)
    BY <2>2, <2>5, <2>7 DEF Undone, Unmapped, Alike
  <2>9. v \in UndoneStores(m, new, loose, mappings, i + 1)
    BY <2>6, <2>8 DEF UndoneStores
  <2>10. Unmap[i][u] = v
    BY <2>1, <2>2, <2>3, <2>4
  <2> QED BY <2>1, <2>9, <2>10
<1>3. I[count] = UndoneStores(m, new, loose, mappings, count)
  OBVIOUS
<1> HIDE DEF Unmap, I
<1>4. Repeat(Unmap, m, count) \in I[count]
  BY <1>1, <1>2, RepeatKeeps
<1>5. n = Repeat(Unmap, m, count)
  BY DEF UnmapCopiedPages, Unmap
<1> QED BY <1>3, <1>4, <1>5

\* The first i mappings are copied: each shows in the new space, which had
\* nothing there, what it shows in the old one.
CopiedTo(old, new, mappings, i, m) ==
  \A s \in Spaces : \A va \in Vas :
    IF s = new /\ va \in Taken(mappings, i)
    THEN /\ View(memory, root[new], va) = <<>>
         /\ ShownAt(m.memory, root[new], va) = ShownAt(memory, root[old], va)
    ELSE View(m.memory, root[s], va) = View(memory, root[s], va)
CopiedStores(old, new, loose, mappings, i) ==
  {m \in Tidy(new, loose) :
     IF m.ok THEN CopiedTo(old, new, mappings, i, m) ELSE Steady(Store, m)}

\* A mapping is what is seen in the old space.
Sourced(old, x) ==
  /\ x.va \in Vas /\ x.page \in Dram /\ x.flags = UserFlags
  /\ \E pte : /\ View(memory, root[old], x.va) = <<pte, memory[x.page]>>
              /\ pte.page = x.page /\ pte.flags = x.flags

\* A failure takes back all.
LEMMA CopyFails ==
  ASSUME root \in [Spaces -> AllPages], NEW new \in Spaces, NEW old \in Spaces, NEW loose,
         NEW m, NEW u \in Tidy(new, loose), Steady(m, u),
         NEW mappings, NEW i \in Nat \ {0}, CopiedTo(old, new, mappings, i - 1, m),
         \A j \in 1 .. i : mappings[j].va \in Vas,
         NEW n, n = Fail(UnmapCopiedPages(u, root[new], mappings, i - 1))
  PROVE  n \in CopiedStores(old, new, loose, mappings, i)
<1>1. PICK v : v = UnmapCopiedPages(u, root[new], mappings, i - 1)
  OBVIOUS
<1>2. PICK k \in Nat : k = i - 1 /\ \A j \in 1 .. k : mappings[j].va \in Vas
  OBVIOUS
<1>3. v \in UndoneStores(u, new, loose, mappings, k)
  BY <1>1, <1>2, UnmapsShow
<1>4. /\ v \in Tidy(new, loose) /\ Undone(u, v, new, mappings, k)
      /\ v \in Stores /\ Apart(v.memory, root[new])
  BY <1>3 DEF UndoneStores, Tidy, Based
<1>5. n \in Stores /\ n.memory = v.memory /\ n.free = v.free /\ ~n.ok
  BY <1>1, <1>4, StoreTypes
<1>6. n \in Tidy(new, loose)
  <2>1. PICK own : Sound(own, v, loose, root) /\ TableAt(own, root[new], RootLevel)
    BY <1>4 DEF Tidy, Based
  <2>2. Sound(own, n, loose, root)
    BY <1>5, <2>1, SoundSame
  <2>3. NoLeaf(n, root[new])
    BY <1>4, <1>5 DEF Tidy, Based, NoLeaf
  <2> QED BY <1>4, <1>5, <2>1, <2>2, <2>3 DEF Tidy, Based
<1>7. CopiedTo(old, new, mappings, k, m)
  BY <1>2
<1>8. Steady(Store, n)
  BY <1>4, <1>5, <1>7, StoreIs DEF Steady, Undone, CopiedTo
<1> QED BY <1>5, <1>6, <1>8 DEF CopiedStores

\* What a view says of the page it shows.
LEMMA ViewContent ==
  ASSUME NEW mem, NEW top, NEW va, NEW pte, NEW content,
         View(mem, top, va) = <<pte, content>>, pte.page \in Dram
  PROVE  content = mem[pte.page]
<1>1. PICK e : e = EntryAt(mem, top, va)
  OBVIOUS
<1>2. Sight(mem, e) = <<pte, content>>
  BY <1>1 DEF View
<1>3. \A a, b : <<a, b>> # <<>>
  OBVIOUS
<1>4. Valid(e)
  BY <1>2, <1>3 DEF Sight
<1>5. <<e, IF e.page \in Dram THEN mem[e.page] ELSE <<>>>> = <<pte, content>>
  BY <1>2, <1>4 DEF Sight
<1>6. \A a, b, x, y : <<a, b>> = <<x, y>> => a = x /\ b = y
  OBVIOUS
<1> QED BY <1>5, <1>6

\* A page may be taken from the allocator: nothing shows it.
LEMMA KallocShows ==
  ASSUME root \in [Spaces -> AllPages], NEW new \in Spaces, NEW loose,
         NEW m \in Tidy(new, loose), NEW p, p = m.free, p # NoPage, NEW n, n = KallocPage(m)
  PROVE  /\ n \in Tidy(new, loose \cup {p}) /\ n.ok /\ p \in Pages /\ p \notin loose
         /\ Steady(m, n)
<1>1. m \in Based(root[new], loose, root) /\ Apart(m.memory, root[new]) /\ m \in Stores
  BY DEF Tidy, Based
<1>2. n \in Based(root[new], loose \cup {p}, root) /\ n.ok /\ p \in Pages /\ p \notin loose
  BY <1>1, KallocBased
<1>3. PICK own : Sound(own, m, loose, root)
  BY <1>1 DEF Based
<1>4. own[p].use # "table" /\ own[p].use # "mapped"
  BY <1>3 DEF Sound, FreeOK, Used
<1>5. OnlyPage(m, n, p) /\ n \in Stores
  BY <1>1, <1>3, Kalloc DEF OnlyPage
<1>6. Steady(m, n)
  BY <1>1, <1>2, <1>3, <1>4, <1>5, QuietPage
<1>7. Apart(n.memory, root[new])
  BY <1>1, <1>2, <1>3, <1>4, <1>5, QuietPage
<1> QED BY <1>2, <1>6, <1>7 DEF Tidy

\* A loose page may be written.
LEMMA WriteShows ==
  ASSUME root \in [Spaces -> AllPages], NEW new \in Spaces, NEW more,
         NEW m \in Tidy(new, more), NEW p \in more, NEW content, NEW n, SetPage(m, n, p, content)
  PROVE  n \in Tidy(new, more) /\ Steady(m, n)
<1>1. m \in Based(root[new], more, root) /\ Apart(m.memory, root[new]) /\ m \in Stores
  BY DEF Tidy, Based
<1>2. n \in Based(root[new], more, root)
  BY <1>1, PageBased
<1>3. PICK own : Sound(own, m, more, root)
  BY <1>1 DEF Based
<1>4. p \in Pages /\ own[p].use # "table" /\ own[p].use # "mapped"
  BY <1>3 DEF Sound
<1>5. OnlyPage(m, n, p) /\ n \in Stores
  BY DEF OnlyPage, SetPage
<1>6. Steady(m, n)
  BY <1>1, <1>3, <1>4, <1>5, QuietPage
<1>7. Apart(n.memory, root[new])
  BY <1>1, <1>3, <1>4, <1>5, QuietPage
<1> QED BY <1>2, <1>6, <1>7 DEF Tidy

\* A loose page may be given back.
LEMMA KfreeShows ==
  ASSUME root \in [Spaces -> AllPages], NEW new \in Spaces, NEW more,
         NEW m \in Tidy(new, more), NEW p \in more, NEW n, n = KfreePage(m, p),
         NEW loose, loose = more \ {p}
  PROVE  n \in Tidy(new, loose) /\ Steady(m, n)
<1>1. m \in Based(root[new], more, root) /\ Apart(m.memory, root[new]) /\ m \in Stores
  BY DEF Tidy, Based
<1>2. n \in Based(root[new], loose, root)
  BY <1>1, KfreeBased
<1>3. PICK own : Sound(own, m, more, root)
  BY <1>1 DEF Based
<1>4. p \in Pages /\ own[p].use # "table" /\ own[p].use # "mapped"
  BY <1>3 DEF Sound
<1>5. OnlyPage(m, n, p) /\ n \in Stores
  BY <1>1, <1>4, KfreeIs
<1>6. Steady(m, n)
  BY <1>1, <1>3, <1>4, <1>5, QuietPage
<1>7. Apart(n.memory, root[new])
  BY <1>1, <1>3, <1>4, <1>5, QuietPage
<1> QED BY <1>2, <1>6, <1>7 DEF Tidy

\* One page of uvmcopy.
LEMMA CopyShows ==
  ASSUME root \in [Spaces -> AllPages], memory \in Memories,
         NEW new \in Spaces, NEW old \in Spaces, NEW loose,
         NEW m \in Tidy(new, loose), NEW mappings, NEW i \in Nat \ {0},
         CopiedTo(old, new, mappings, i - 1, m),
         \A j \in 1 .. i : mappings[j].va \in Vas, Sourced(old, mappings[i]),
         NEW n, n = CopyPage(m, root[new], mappings, i)
  PROVE  n \in CopiedStores(old, new, loose, mappings, i)
<1>1. PICK x : x = mappings[i]
  OBVIOUS
<1>2. PICK p : p = m.free
  OBVIOUS
<1>3. PICK fresh : fresh = KallocPage(m)
  OBVIOUS
<1>4. m \in Stores
  BY DEF Tidy, Based
<1>5. CASE p = NoPage
  <2>1. fresh = Fail(m)
    BY <1>2, <1>3, <1>5 DEF KallocPage
  <2>2. ~fresh.ok
    BY <1>4, <2>1, StoreTypes
  <2>3. n = Fail(UnmapCopiedPages(m, root[new], mappings, i - 1))
    BY <1>3, <2>2 DEF CopyPage
  <2>4. Steady(m, m)
    BY DEF Steady
  <2> QED BY <2>3, <2>4, CopyFails
<1>6. CASE p # NoPage
  <2>1. PICK more : more = loose \cup {p}
    OBVIOUS
  <2>2. /\ fresh \in Tidy(new, more) /\ fresh.ok /\ p \in Pages /\ p \notin loose
        /\ Steady(m, fresh)
    BY <1>2, <1>3, <1>6, <2>1, KallocShows, SMTT(20)
  <2>3. p \in more /\ loose = more \ {p} /\ fresh \in Stores /\ p \in Dram
    BY <2>1, <2>2, PagesInDram DEF Tidy, Based
  <2>4. PICK copied : copied = [fresh EXCEPT !.memory[p] = fresh.memory[x.page]]
    OBVIOUS
  <2>5. x.va \in Vas /\ x.page \in Dram /\ x.flags = UserFlags
    BY <1>1 DEF Sourced
  <2>6. SetPage(fresh, copied, p, fresh.memory[x.page])
    <3>1. fresh.memory[x.page] \in [SlotNumbers -> Words]
      BY <2>3, <2>5, StoreTypes
    <3> QED BY <2>3, <2>4, <3>1, Writing
  <2>7. copied \in Tidy(new, more) /\ Steady(fresh, copied)
    BY <2>2, <2>3, <2>6, WriteShows
  <2>8. Steady(m, copied)
    BY <2>2, <2>7, SteadyOn
  <2>9. PICK pte : /\ View(memory, root[old], x.va) = <<pte, memory[x.page]>>
                   /\ pte.page = x.page /\ pte.flags = x.flags
    BY <1>1 DEF Sourced
  <2>10. \A a, b : <<a, b>> # <<>>
    OBVIOUS
  <2>11. copied.memory[p] = memory[x.page]
    <3>1. View(m.memory, root[old], x.va) = <<pte, memory[x.page]>>
      BY <2>5, <2>9, <2>10 DEF CopiedTo
    <3>2. View(fresh.memory, root[old], x.va) = <<pte, memory[x.page]>>
      BY <2>2, <2>5, <3>1 DEF Steady
    <3>3. memory[x.page] = fresh.memory[pte.page]
      BY <2>5, <2>9, <3>2, ViewContent
    <3> QED BY <2>6, <2>9, <3>3 DEF SetPage
  <2>12. PICK mapped : mapped = Mappage(copied, root[new], x.va, p, x.flags)
    OBVIOUS
  <2>13. Mapped(copied, mapped, new, x.va, p, x.flags)
    <3>1. x.flags \in {{}, UserFlags} /\ x.flags # {}
      BY <2>5, PageConstants
    <3> QED BY <2>3, <2>5, <2>7, <2>12, <3>1, MappageShows
  <2>14. mapped \in Tidy(new, IF mapped.ok THEN loose ELSE more)
    <3>1. x.flags \in {{}, UserFlags} /\ x.flags # {} /\ x.va \in Int
      BY <2>5, PageConstants DEF Vas
    <3>2. copied \in Based(root[new], more, root)
      BY <2>7 DEF Tidy
    <3>3. p \in more \cup {KernelPage, DevicePage}
      BY <2>3
    <3>4. mapped \in Based(root[new], IF mapped.ok THEN more \ {p} ELSE more, root)
      BY <2>12, <3>1, <3>2, <3>3, MappageBased
    <3> QED BY <2>3, <2>13, <3>4 DEF Tidy, Mapped
  <2>15. CASE mapped.ok
    <3>1. n = mapped
      BY <1>1, <1>2, <1>3, <2>2, <2>4, <2>12, <2>15 DEF CopyPage
    <3>2. /\ Alike(copied, n, new, x.va) /\ View(copied.memory, root[new], x.va) = <<>>
          /\ View(n.memory, root[new], x.va) = <<Pte(p, x.flags), memory[x.page]>>
      BY <2>11, <2>13, <2>15, <3>1 DEF Mapped
    <3>3. /\ m.memory \in Memories /\ n.memory \in Memories
          /\ root[new] \in AllPages /\ root[old] \in AllPages /\ x.va \in Int
      BY <1>4, <2>5, <2>14, <3>1 DEF Tidy, Based, Stores, Vas
    <3>4. ShownAt(memory, root[old], x.va) = {<<x.flags, memory[x.page]>>}
      BY <2>9, <3>3, ViewShows
    <3>5. ShownAt(n.memory, root[new], x.va) = {<<x.flags, memory[x.page]>>}
      <4>1. PICK e : e = Pte(p, x.flags)
        OBVIOUS
      <4>4. e.flags = x.flags
        BY <4>1 DEF Pte, Word
      <4>2. View(n.memory, root[new], x.va) = <<e, memory[x.page]>>
        BY <3>2, <4>1
      <4>3. ShownAt(n.memory, root[new], x.va) = {<<e.flags, memory[x.page]>>}
        BY <3>3, <4>2, ViewShows
      <4> QED BY <4>3, <4>4
    <3>6. View(m.memory, root[new], x.va) = <<>>
      BY <2>5, <2>8, <3>2 DEF Steady
    <3>7. x.va \notin Taken(mappings, i - 1)
      <4>1. ShownAt(m.memory, root[new], x.va) = {}
        BY <3>3, <3>6, ViewShows
      <4> QED BY <2>5, <3>4, <4>1 DEF CopiedTo
    <3>8. View(memory, root[new], x.va) = <<>>
      BY <2>5, <3>6, <3>7 DEF CopiedTo
    <3>9. \A va : va \in Taken(mappings, i) <=> va \in Taken(mappings, i - 1) \/ va = x.va
      <4>1. \A j : j \in 1 .. i <=> j \in 1 .. i - 1 \/ j = i
        OBVIOUS
      <4> QED BY <1>1, <4>1 DEF Taken
    <3>10. ASSUME NEW s \in Spaces, NEW va \in Vas, ~(s = new /\ va = x.va)
           PROVE  View(n.memory, root[s], va) = View(m.memory, root[s], va)
      BY <2>8, <3>2, <3>10 DEF Steady, Alike
    <3>11. ASSUME NEW va \in Vas, va \in Taken(mappings, i - 1)
           PROVE  ShownAt(n.memory, root[new], va) = ShownAt(memory, root[old], va)
      <4>1. View(n.memory, root[new], va) = View(m.memory, root[new], va)
        BY <3>7, <3>10, <3>11
      <4>2. va \in Int
        BY DEF Vas
      <4>3. ShownAt(n.memory, root[new], va) = ShownAt(m.memory, root[new], va)
        BY <3>3, <4>1, <4>2, SameView
      <4> QED BY <3>11, <4>3 DEF CopiedTo
    <3>12. CopiedTo(old, new, mappings, i, n)
      <4> SUFFICES ASSUME NEW s \in Spaces, NEW va \in Vas
                   PROVE  IF s = new /\ va \in Taken(mappings, i)
                          THEN /\ View(memory, root[new], va) = <<>>
                               /\ ShownAt(n.memory, root[new], va) = ShownAt(memory, root[old], va)
                          ELSE View(n.memory, root[s], va) = View(memory, root[s], va)
        BY DEF CopiedTo
      <4>1. CASE s = new /\ va = x.va
        BY <3>4, <3>5, <3>8, <3>9, <4>1
      <4>2. CASE s = new /\ va \in Taken(mappings, i - 1)
        BY <3>9, <3>11, <4>2 DEF CopiedTo
      <4>3. CASE ~(s = new /\ va = x.va) /\ ~(s = new /\ va \in Taken(mappings, i - 1))
        BY <3>9, <3>10, <4>3 DEF CopiedTo
      <4> QED BY <4>1, <4>2, <4>3
    <3> QED BY <2>14, <2>15, <3>1, <3>12 DEF CopiedStores
  <2>16. CASE ~mapped.ok
    <3>1. PICK freed : freed = KfreePage(mapped, p)
      OBVIOUS
    <3>2. freed \in Tidy(new, loose) /\ Steady(mapped, freed)
      BY <2>3, <2>14, <2>16, <3>1, KfreeShows
    <3>3. Steady(copied, mapped)
      BY <2>13, <2>16 DEF Mapped
    <3>4. Steady(m, freed)
      BY <2>8, <3>2, <3>3, SteadyOn
    <3>5. n = Fail(UnmapCopiedPages(freed, root[new], mappings, i - 1))
      BY <1>1, <1>2, <1>3, <2>2, <2>4, <2>12, <2>16, <3>1 DEF CopyPage
    <3> QED BY <3>2, <3>4, <3>5, CopyFails
  <2> QED BY <2>15, <2>16
<1> QED BY <1>5, <1>6

\* What uvmcopy collects is what the old space shows below the size.
LEMMA CopyFinds ==
  ASSUME PageInv, NEW own, Sound(own, Store, held, root), NEW old \in Alive, NEW size \in Nat,
         NEW ch, Chains(root[old], ch), NEW w, w = LeafMappings(root[old], 0, size, Dram), w.ok
  PROVE  /\ w \in Walks
         /\ \A x \in Listed(w) : Sourced(old, x) /\ x.va < size
         /\ \A va \in Vas : va < size /\ InUse(ch, va) => \E x \in Listed(w) : x.va = va
<1>1. PICK top : top = root[old]
  OBVIOUS
<1>2. /\ memory \in Memories /\ TablesOK(own, Store) /\ TableAt(own, top, RootLevel)
      /\ top \in AllPages
  BY <1>1, StoreIs, RootIsTable DEF PageInv, Stores, Sound, Alive
<1>3. PICK physical \in SUBSET AllPages : physical = Dram
  BY PagesInDram
<1>4. w \in Walks /\ Good(own, w) /\ w.physical = physical
  <2>1. w = LeafMappings(top, 0, size, physical) /\ 0 \in Int /\ size \in Int
    BY <1>1, <1>3
  <2>2. w \in Walks
    BY <1>2, <2>1, LeafMappingsGood
  <2>3. Good(own, w)
    BY <1>2, <2>1, LeafMappingsGood
  <2>4. w.physical = physical
    BY <1>2, <2>1, LeafMappingsGood
  <2> QED BY <2>2, <2>3, <2>4
<1>5. CASE size = 0
  <2>1. w.mappings = <<>>
    <3>1. PICK walk : walk = [ok |-> size <= MaxVa, visited |-> {}, mappings |-> <<>>, physical |-> Dram]
      OBVIOUS
    <3>2. w = walk
      BY <1>5, <3>1 DEF LeafMappings
    <3> QED BY <3>1, <3>2
  <2>2. Listed(w) = {}
    BY <2>1 DEF Listed
  <2> QED BY <1>4, <1>5, <2>2, PageConstants DEF Vas
<1>6. CASE size # 0
  <2>1. /\ size <= MaxVa
        /\ \A x \in Listed(w) : FoundIn(ch, x, 0, size - 1)
        /\ \A va \in 0 .. size - 1 : InUse(ch, va) => \E x \in Listed(w) : x.va = va
    <3>1. 0 \in Int /\ size \in Int /\ 0 <= 0 /\ 0 < size
      BY <1>6
    <3>2. Chains(top, ch) /\ w = LeafMappings(top, 0, size, physical)
      BY <1>1, <1>3
    <3> QED BY <1>2, <3>1, <3>2, LeafMappingsFinds
  <2>2. ASSUME NEW x \in Listed(w) PROVE Sourced(old, x) /\ x.va < size
    <3>1. MappingOK(own, w, x) /\ x \in LeafMapping
      BY <1>4, WalkTypes DEF Good, Listed
    <3>2. FoundIn(ch, x, 0, size - 1)
      BY <2>1
    <3>3. PICK t, slot, va, pte :
            t = x.table /\ slot = x.slot /\ va = x.va /\ pte = memory[t][slot]
      OBVIOUS
    <3>4. va \in 0 .. size - 1 /\ t = ch[va][0] /\ slot = Index(0, va)
      BY <3>2, <3>3 DEF FoundIn
    <3>5. va \in Vas /\ va \in Int /\ va < size
      BY <2>1, <3>4, PageConstants DEF Vas
    <3>6. /\ TableAt(own, t, 0) /\ slot \in SlotNumbers /\ Maps(pte)
          /\ pte.page = x.page /\ pte.flags = x.flags /\ x.page \in Dram
      BY <1>3, <1>4, <3>1, <3>3 DEF MappingOK
    <3>7. pte.kind = "pte"
      <4>1. EntryOK(own, Store, t, slot)
        BY <1>2, <3>6 DEF TablesOK, TableAt, Used
      <4> QED BY <3>3, <3>6, <4>1, StoreIs DEF EntryOK, LeafOK
    <3>8. x.flags = UserFlags
      <4>1. x.flags \in {{}, UserFlags}
        BY <3>1 DEF LeafMapping
      <4> QED BY <3>6, <3>7, <4>1 DEF Maps, Leaf
    <3>9. Follows(memory, top, va, ch[va])
      BY <1>1, <3>5 DEF Chains
    <3>10. EntryFor(memory, ch[va], va) = pte
      BY <3>3, <3>4, <3>6, PagesInDram DEF EntryFor, TableAt, Used
    <3>11. View(memory, top, va) = <<pte, memory[x.page]>>
      <4>1. View(memory, top, va) = Sight(memory, pte)
        BY <1>2, <3>5, <3>9, <3>10, ViewIs
      <4> QED BY <3>6, <4>1, WordKinds DEF Sight
    <3> QED BY <1>1, <3>3, <3>5, <3>6, <3>8, <3>11 DEF Sourced
  <2> QED BY <1>4, <2>1, <2>2 DEF Vas
<1> QED BY <1>5, <1>6

-----------------------------------------------------------------------------
(* Every uvmcopy is all or nothing.                                        *)

\* What a step that is a uvmcopy does to what addresses show.
CopyExact ==
  LET old == call'.args[1]
      new == call'.args[2]
      Copied(va) == /\ call'.outcome = "completed"
                    /\ va < call'.args[3] /\ Content(old, va) # {}
  IN  call'.op = "uvmcopy" /\ Unshared(new)
      => \A s \in Spaces, va \in Vas :
           Content(s, va)' = IF s = new /\ Copied(va) THEN Content(old, va)
                             ELSE Content(s, va)

\* The routine: collected mappings are copied in turn, or taken back.
LEMMA UvmcopyExact ==
  ASSUME PageInv, NEW old \in Alive, NEW new \in Alive, NEW size \in Nat,
         NoSuperpage(new), Uvmcopy(old, new, size)
  PROVE  CopyExact
<1> DEFINE walk == LeafMappings(root[old], 0, size, Dram)
           Copy == [i \in Nat |-> [m \in Stores |->
                      IF m.ok THEN CopyPage(m, root[new], walk.mappings, i + 1) ELSE m]]
           done == Repeat(Copy, Store, Len(walk.mappings))
<1>1. call'.args = <<old, new, size>> /\ root' = root
  BY DEF Uvmcopy, Return
<1>2. PICK args : args = call'.args /\ args[1] = old /\ args[2] = new /\ args[3] = size
  BY <1>1
<1>3. SUFFICES ASSUME Unshared(new), NEW s \in Spaces, NEW va \in Vas
               PROVE  Content(s, va)' =
                        IF s = new /\ call'.outcome = "completed" /\ va < size
                           /\ Content(old, va) # {}
                        THEN Content(old, va) ELSE Content(s, va)
  BY <1>2 DEF CopyExact
<1>4. /\ Content(s, va) = ShownAt(memory, root[s], va)
      /\ Content(old, va) = ShownAt(memory, root[old], va)
      /\ Content(s, va)' = ShownAt(memory', root'[s], va)
  BY ContentIs
<1>5. /\ memory \in Memories /\ root \in [Spaces -> AllPages] /\ va \in Int
      /\ old \in Spaces /\ new \in Spaces /\ Store \in Stores
  BY StoreIs DEF PageInv, Stores, Vas, Alive
<1>6. CASE ~walk.ok
  <2>1. memory' = memory /\ call'.outcome = "declined"
    BY <1>6, StoreIs DEF Uvmcopy, Return
  <2> QED BY <1>1, <1>4, <2>1
<1>7. CASE walk.ok
  <2>1. memory' = done.memory /\ call'.outcome = IF done.ok THEN "completed" ELSE "failed"
    <3>1. Return(done, "uvmcopy", <<old, new, size>>, IF done.ok THEN "completed" ELSE "failed")
      BY <1>7 DEF Uvmcopy
    <3> HIDE DEF done
    <3> QED BY <3>1 DEF Return
  <2>2. PICK own : Sound(own, Store, held, root)
    BY DEF PageInv
  <2>3. PICK w : w = walk
    OBVIOUS
  <2> HIDE DEF walk
  <2>4. PICK ch : Chains(root[old], ch)
    BY <1>5, WaysExist
  <2>5. /\ w \in Walks
        /\ \A x \in Listed(w) : Sourced(old, x) /\ x.va < size
        /\ \A a \in Vas : a < size /\ InUse(ch, a) => \E x \in Listed(w) : x.va = a
    BY <1>7, <2>2, <2>3, <2>4, CopyFinds DEF walk
  <2>6. PICK k \in Nat : k = Len(w.mappings)
    BY <2>5, WalkTypes
  <2>7. PICK xs : xs = w.mappings
    OBVIOUS
  <2>8. \A j \in 1 .. k : Sourced(old, xs[j]) /\ xs[j].va \in Vas /\ xs[j].va < size
    BY <2>5, <2>6, <2>7 DEF Listed, Sourced
  <2>9. Store \in CopiedStores(old, new, held, xs, 0)
    <3>1. TableAt(own, root[new], RootLevel)
      BY <2>2, RootIsTable
    <3>2. NoLeaf(Store, root[new])
      BY StoreIs DEF NoLeaf, NoSuperpage, Maps
    <3>3. Apart(Store.memory, root[new])
      BY <1>3, <1>5, <2>2, StoreIs, UnsharedApart
    <3>4. Store \in Tidy(new, held)
      BY <1>5, <2>2, <3>1, <3>2, <3>3 DEF Tidy, Based
    <3>5. Taken(xs, 0) = {}
      BY DEF Taken
    <3>6. CopiedTo(old, new, xs, 0, Store)
      BY <3>5, StoreIs DEF CopiedTo
    <3> QED BY <3>4, <3>6, StoreIs DEF CopiedStores
  <2> DEFINE I == [i \in Nat |-> CopiedStores(old, new, held, xs, i)]
             turn == [i \in Nat |-> [m \in Stores |->
                        IF m.ok THEN CopyPage(m, root[new], xs, i + 1) ELSE m]]
  <2>10. \A i \in 0 .. k - 1 : \A m \in I[i] : turn[i][m] \in I[i + 1]
    <3> SUFFICES ASSUME NEW i \in 0 .. k - 1, NEW m \in I[i] PROVE turn[i][m] \in I[i + 1]
      OBVIOUS
    <3>1. PICK j \in Nat \ {0} : j = i + 1 /\ j - 1 = i /\ j \in 1 .. k
      OBVIOUS
    <3>2. i \in Nat /\ \A y \in 1 .. j : y \in 1 .. k
      BY <3>1
    <3>3. /\ m \in Tidy(new, held) /\ m \in Stores
          /\ IF m.ok THEN CopiedTo(old, new, xs, j - 1, m) ELSE Steady(Store, m)
      BY <3>1, <3>2 DEF CopiedStores, Tidy, Based
    <3>4. PICK n : n = IF m.ok THEN CopyPage(m, root[new], xs, j) ELSE m
      OBVIOUS
    <3>5. CASE m.ok
      <4>1. n = CopyPage(m, root[new], xs, j)
        BY <3>4, <3>5
      <4>2. Sourced(old, xs[j]) /\ \A y \in 1 .. j : xs[y].va \in Vas
        BY <2>8, <3>1, <3>2
      <4>3. CopiedTo(old, new, xs, j - 1, m)
        BY <3>3, <3>5
      <4>4. n \in CopiedStores(old, new, held, xs, j)
        BY <1>5, <3>3, <4>1, <4>2, <4>3, CopyShows
      <4> QED BY <3>1, <3>2, <3>3, <3>4, <4>4
    <3>6. CASE ~m.ok
      <4>1. n = m /\ n \in CopiedStores(old, new, held, xs, j)
        BY <3>3, <3>4, <3>6 DEF CopiedStores
      <4> QED BY <3>1, <3>2, <3>3, <3>4, <4>1
    <3> QED BY <3>5, <3>6
  <2>11. done = Repeat(turn, Store, k)
    BY <2>3, <2>6, <2>7
  <2> HIDE DEF turn, I, done, Copy
  <2>12. Store \in I[0]
    BY <2>9 DEF I
  <2>13. Repeat(turn, Store, k) \in I[k]
    BY <2>10, <2>12, RepeatKeeps
  <2>14. PICK n : n = done /\ n \in CopiedStores(old, new, held, xs, k)
    BY <2>11, <2>13 DEF I
  <2>15. n.memory \in Memories /\ \A a \in Spaces : root[a] \in AllPages
    BY <1>5, <2>14 DEF CopiedStores, Tidy, Based, Stores
  <2>16. ASSUME View(n.memory, root[s], va) = View(memory, root[s], va)
         PROVE  Content(s, va)' = Content(s, va)
    BY <1>1, <1>4, <1>5, <2>1, <2>14, <2>15, <2>16, SameView
  <2>17. CASE ~n.ok
    <3>1. Steady(Store, n)
      BY <2>14, <2>17 DEF CopiedStores
    <3>2. View(n.memory, root[s], va) = View(memory, root[s], va)
      BY <3>1, StoreIs DEF Steady
    <3>3. call'.outcome # "completed"
      BY <2>1, <2>14, <2>17
    <3> QED BY <2>16, <3>2, <3>3
  <2>18. CASE n.ok
    <3>1. CopiedTo(old, new, xs, k, n) /\ call'.outcome = "completed"
      BY <2>1, <2>14, <2>18 DEF CopiedStores
    <3>2. CASE s = new /\ va \in Taken(xs, k)
      <4>1. PICK j \in 1 .. k : va = xs[j].va
        BY <3>2 DEF Taken
      <4>2. va < size /\ Sourced(old, xs[j])
        BY <2>8, <4>1
      <4>3. PICK pte, content : View(memory, root[old], va) = <<pte, content>>
        BY <4>1, <4>2 DEF Sourced
      <4>4. ShownAt(memory, root[old], va) = {<<pte.flags, content>>}
        BY <1>5, <2>15, <4>3, ViewShows
      <4>5. ShownAt(n.memory, root[new], va) = ShownAt(memory, root[old], va)
        BY <3>1, <3>2 DEF CopiedTo
      <4> QED BY <1>1, <1>4, <2>1, <2>14, <3>1, <3>2, <4>2, <4>4, <4>5
    <3>3. CASE ~(s = new /\ va \in Taken(xs, k))
      <4>1. View(n.memory, root[s], va) = View(memory, root[s], va)
        BY <3>1, <3>3 DEF CopiedTo
      <4>2. ~(s = new /\ va < size /\ Content(old, va) # {})
        <5> SUFFICES ASSUME s = new, va < size, Content(old, va) # {} PROVE FALSE
          OBVIOUS
        <5>1. Follows(memory, root[old], va, ch[va])
          BY <2>4 DEF Chains
        <5>2. ShownAt(memory, root[old], va) = Shown(memory, EntryFor(memory, ch[va], va))
          BY <1>5, <2>15, <5>1, SeenAtEnd
        <5>3. InUse(ch, va)
          BY <1>4, <5>2 DEF InUse, Shown
        <5>4. PICK x \in Listed(w) : x.va = va
          BY <2>5, <5>3
        <5>5. va \in Taken(xs, k)
          BY <2>6, <2>7, <5>4 DEF Listed, Taken
        <5> QED BY <3>3, <5>5
      <4> QED BY <2>16, <4>1, <4>2
    <3> QED BY <3>2, <3>3
  <2> QED BY <2>17, <2>18
<1> QED BY <1>6, <1>7

\* The steps of the other actions are no uvmcopy.
LEMMA NextCopies == PageInv /\ Next => CopyExact
<1> SUFFICES ASSUME PageInv, Next PROVE CopyExact
  OBVIOUS
<1>1. CASE \E old, new \in Alive, size \in 0 .. MaxVa : NoSuperpage(new) /\ Uvmcopy(old, new, size)
  <2>1. PICK old \in Alive, new \in Alive, size \in 0 .. MaxVa :
          NoSuperpage(new) /\ Uvmcopy(old, new, size)
    BY <1>1
  <2>2. size \in Nat
    BY PageConstants
  <2> QED BY <2>1, <2>2, UvmcopyExact
<1>2. ASSUME call'.op # "uvmcopy" PROVE CopyExact
  BY <1>2 DEF CopyExact
<1>3. ASSUME NEW m, GuestReturn(m) PROVE CopyExact
  BY <1>2, <1>3 DEF GuestReturn, Return
<1>4. CASE \E space \in Alive : Freewalk(space)
  <2>1. call'.op = "freewalk"
    BY <1>4 DEF Freewalk, Return
  <2> QED BY <1>2, <2>1
<1>5. CASE \E space \in Alive, va \in 0 .. MaxVa - 1, doFree \in BOOLEAN :
             \E count \in 1 .. MaxVa - va + 1 : Uvmunmap(space, va, count, doFree)
  <2>1. call'.op = "uvmunmap"
    BY <1>5 DEF Uvmunmap, Return
  <2> QED BY <1>2, <2>1
<1>6. CASE \E space \in Spaces : Create(space)
  BY <1>3, <1>6 DEF Create
<1>7. CASE \E space \in Alive, va \in 0 .. MaxVa - 1 : MapUser(space, va)
  BY <1>3, <1>7 DEF MapUser
<1>8. CASE \E space \in Alive \cap OddSpaces, va \in ForeignVas, page \in {KernelPage, DevicePage} :
             MapForeign(space, va, page)
  BY <1>3, <1>8 DEF MapForeign
<1>9. CASE \E space \in Alive \cap OddSpaces, slot \in SlotNumbers :
             \E pte \in OddEntries(space) : WriteRootEntry(space, slot, pte)
  BY <1>3, <1>9 DEF WriteRootEntry
<1>10. CASE \E page \in Pages : Kfree(page)
  BY <1>3, <1>10 DEF Kfree
<1> QED BY <1>1, <1>4, <1>5, <1>6, <1>7, <1>8, <1>9, <1>10 DEF Next

\* uvmcopy gives a space whose tables have one way each all the old one has
\* below the size, or nothing; other addresses keep what they show.
THEOREM CopiesAreAllOrNothing == Spec => CopyIsAllOrNothing
<1>1. PageInv /\ [Next]_vars => [CopyExact]_vars
  BY NextCopies
<1>2. PageInv /\ [Next]_vars =>
        [LET old == call'.args[1]
             new == call'.args[2]
             Copied(va) == /\ call'.outcome = "completed"
                           /\ va < call'.args[3] /\ Content(old, va) # {}
         IN  call'.op = "uvmcopy" /\ Unshared(new)
             => \A s \in Spaces, va \in Vas :
                  Content(s, va)' = IF s = new /\ Copied(va) THEN Content(old, va)
                                    ELSE Content(s, va)]_vars
  BY <1>1 DEF CopyExact
<1> QED BY <1>2, PageInvariant, PTL DEF Spec, CopyIsAllOrNothing
=============================================================================

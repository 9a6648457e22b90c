-------------------------------- MODULE MCXv6 --------------------------------
(***************************************************************************)
(* Two address spaces of four pages, in two levels, and seven pages of     *)
(* memory: enough to copy a space of one table and two pages only in part. *)
(* Three pages of work at once, so that a full space exceeds the budget.   *)
(*                                                                         *)
(* Pages are only names: the order in which calls leave them on the free   *)
(* list tells no two states apart. View renumbers them in the order in     *)
(* which they are found from the free list and the roots, and TLC explores *)
(* states with the same view once.                                         *)
(*                                                                         *)
(* The routines on bytes share nothing with the page tables: TLC explores  *)
(* the behaviours of either part, the other one at rest. They have three   *)
(* pages of two bytes, and a budget of three, so that ranges cross pages,  *)
(* overlap, wrap around and exceed the budget. DRAM lacks the first byte    *)
(* and the last.                                                           *)
(***************************************************************************)
EXTENDS KernelPages, KernelRoutines

MCPages == 1 .. 7

VARIABLE part       \* which of the two the behaviour is about

MCInit == Init /\ RoutineInit /\ part \in {"pages", "routines"}

MCNext ==
  \/ part = "pages" /\ Next /\ UNCHANGED <<routineVars, part>>
  \/ part = "routines" /\ RoutineNext /\ UNCHANGED <<vars, part>>

MCSpec == MCInit /\ [][MCNext]_<<vars, routineVars, part>>

\* The pages found from a page, appended to those found before.
RECURSIVE Found(_, _)
Found(seen, page) ==
  IF page \notin Pages \/ Contains(seen, page) THEN seen
  ELSE FoldLeft(LAMBDA s, slot : Found(s, memory[page][slot].page),
                Append(seen, page), [i \in 1 .. Slots |-> i - 1])

PagesView ==
  LET linked == FoldLeft(Found, <<>>, <<freelist, root[1], root[2]>>)
      order  == linked \o SetToSeq(Pages \ {linked[i] : i \in DOMAIN linked})
      names  == [p \in Pages |-> CHOOSE i \in DOMAIN order : order[i] = p]
      Name(p) == IF p \in Pages THEN names[p] ELSE p
  IN  <<[i \in DOMAIN order |->
          [slot \in SlotNumbers |->
            [memory[order[i]][slot] EXCEPT !.page = Name(@)]]],
        memory[KernelPage], Name(freelist), [s \in Spaces |-> Name(root[s])],
        {Name(p) : p \in held}>>
View == IF part = "pages" THEN PagesView ELSE <<bytes, frames>>
=============================================================================

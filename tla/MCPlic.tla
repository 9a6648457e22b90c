------------------------------- MODULE MCPlic -------------------------------
(***************************************************************************)
(* Small instances of the interrupt controller: two wired sources, the two *)
(* contexts of the virt platform, and two-slot enable words, so that       *)
(* source 2 lives in the second word of the enable array.                  *)
(***************************************************************************)
EXTENDS Plic

MCActiveSources == {1, 2}

MCContexts == {"MachineExternal", "SupervisorExternal"}
=============================================================================

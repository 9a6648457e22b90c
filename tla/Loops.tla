-------------------------------- MODULE Loops --------------------------------
(***************************************************************************)
(* Loops over a range of numbers, as the fast paths run them: turn[i] is   *)
(* what one turn does to the state of the loop. Every loop over a range in  *)
(* src/cpu/xv6_accelerator.rs is one, memmove's two as well as uvmcopy's.  *)
(***************************************************************************)
EXTENDS Integers

\* The turns 0 .. n - 1, one after the other.
Repeat(turn, start, n) ==
  LET after[i \in 0 .. n] ==
        IF i = 0 THEN start ELSE turn[i - 1][after[i - 1]]
  IN  IF n <= 0 THEN start ELSE after[n]
=============================================================================

----------------------------- MODULE RequestFifo ----------------------------
(***************************************************************************)
(* What a request queue promises its driver: every request that was made   *)
(* is finished once, in the order in which requests were made, and is      *)
(* collected once, in that order; only a reset drops requests.             *)
(***************************************************************************)
EXTENDS Integers, Sequences, SequencesExt

CONSTANT Requests   \* what names an outstanding request

VARIABLES
  waiting,          \* made and not finished, oldest first
  finished          \* finished and not collected, oldest first

Init == waiting = <<>> /\ finished = <<>>

Outstanding == ToSet(waiting) \cup ToSet(finished)

Make(r) ==
  /\ r \notin Outstanding
  /\ waiting' = Append(waiting, r)
  /\ UNCHANGED finished

\* The device finishes some of the oldest requests at once.
Finish ==
  \E n \in 1 .. Len(waiting) :
    /\ finished' = finished \o SubSeq(waiting, 1, n)
    /\ waiting' = SubSeq(waiting, n + 1, Len(waiting))

Collect ==
  /\ finished # <<>>
  /\ finished' = Tail(finished)
  /\ UNCHANGED waiting

Reset == waiting' = <<>> /\ finished' = <<>>

Next == (\E r \in Requests : Make(r)) \/ Finish \/ Collect \/ Reset

Spec == Init /\ [][Next]_<<waiting, finished>>
=============================================================================

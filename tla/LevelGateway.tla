---------------------------- MODULE LevelGateway ----------------------------
(***************************************************************************)
(* What the gateways of an interrupt controller promise about each         *)
(* level-sensitive source: it has at most one request at a time, the       *)
(* request is made, taken by one context and finished, and a source whose  *)
(* request was finished may make the next.                                 *)
(***************************************************************************)
CONSTANT Sources

VARIABLE phase      \* source -> "idle", "requested" or "taken"

Phases == {"idle", "requested", "taken"}

Init == phase = [s \in Sources |-> "idle"]

\* One step may make the requests of several sources, take one request (made
\* in the same step or before), or finish one (and make the next at once).
Move(s, from, to) ==
  \/ from = to
  \/ from = "idle" /\ to \in {"requested", "taken"}
  \/ from = "requested" /\ to = "taken"
  \/ from = "taken" /\ to \in {"idle", "requested"}

\* In one step at most one source is taken or finished.
Settled(s) ==
  \/ phase'[s] = phase[s]
  \/ phase[s] = "idle" /\ phase'[s] = "requested"

Progress ==
  /\ phase' \in [Sources -> Phases]
  /\ \A s \in Sources : Move(s, phase[s], phase'[s])
  /\ \A s, t \in Sources : s # t => Settled(s) \/ Settled(t)

\* A reset of the controller drops every request.
Reset == phase' = [s \in Sources |-> "idle"]

Next == Progress \/ Reset

Spec == Init /\ [][Next]_phase
=============================================================================

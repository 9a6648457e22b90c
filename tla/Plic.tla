-------------------------------- MODULE Plic --------------------------------
(***************************************************************************)
(* The platform-level interrupt controller of src/plic.rs: interrupt       *)
(* gateways that turn level-sensitive lines into requests, priority and    *)
(* enable arbitration per target context, and the claim/complete protocol  *)
(* that software drives through MMIO.                                      *)
(*                                                                         *)
(* Arrays of booleans are modelled by the set of the indices that hold     *)
(* TRUE; arrays are indexed by slot, slot 0 being the reserved source.     *)
(* A 32-bit register of the enable array covers WordBits slots.            *)
(*                                                                         *)
(* Accesses of a wrong width, misaligned or outside the layout fail before *)
(* any state is read; they are stuttering steps and have no action.        *)
(***************************************************************************)
EXTENDS Integers, FiniteSets

CONSTANTS
  SourceCount,      \* number of interrupt sources, numbered from 1
  ActiveSources,    \* the sources some device has asked a line for
  Contexts,         \* the target contexts (one interrupt cause each)
  MaximumPriority,  \* an all-ones mask: writes keep value & MaximumPriority
  WordBits          \* slots per 32-bit enable register

Slots == 0 .. SourceCount

ASSUME PlicAssumption ==
  /\ SourceCount \in Nat \ {0}
  /\ ActiveSources \subseteq 1 .. SourceCount
  /\ MaximumPriority \in Nat \ {0}
  /\ \E bits \in 1 .. 31 : MaximumPriority = 2 ^ bits - 1
  /\ WordBits \in Nat \ {0}
  /\ IsFiniteSet(Contexts)

VARIABLES
  priority,         \* priorities: slot -> priority
  pending,          \* pending: the IP bits software reads
  pendingSources,   \* pending_sources: the copy arbitration works on
  enabled,          \* enabled: context -> enabled slots
  threshold,        \* thresholds: context -> notification threshold
  line,             \* source_lines: the sources whose level is high
  busy,             \* gateway_busy: gateways with a request in flight
  handlers          \* history: slot -> contexts that hold its claim

plicRegisters == <<priority, enabled, threshold>>
vars == <<priority, pending, pendingSources, enabled, threshold, line, busy,
          handlers>>

Priorities == 0 .. MaximumPriority

-----------------------------------------------------------------------------
(* Gateways and arbitration.                                               *)

\* The requests that sync_gateways forms when the gateways in b are busy.
Latched(b) == {s \in ActiveSources : s \in line /\ s \notin b}

\* Mutant: a request is withdrawn when its line falls.
BugRequestsFollowLines(b) ==
  /\ pending' = (pending \cap line) \cup Latched(b)
  /\ pendingSources' = (pendingSources \cap line) \cup Latched(b)
  /\ busy' = b \cup Latched(b)

\* sync_gateways on the state whose busy gateways are b.
SyncGateways(b) ==
  /\ pending' = pending \cup Latched(b)
  /\ pendingSources' = pendingSources \cup Latched(b)
  /\ busy' = b \cup Latched(b)

\* The candidates among the requests r for context c above a threshold.
Candidates(c, r, above) ==
  {s \in r : s \in enabled[c] /\ priority[s] > above}

\* Arbitration order: higher priority first, then the smaller number.
Beats(s, t) ==
  \/ priority[s] > priority[t]
  \/ priority[s] = priority[t] /\ s <= t

\* eligible_source(c, above): every winner among the candidates.
EligibleSource(c, r, above) ==
  {s \in Candidates(c, r, above) :
     \A t \in Candidates(c, r, above) : Beats(s, t)}

\* pending_interrupts: the contexts that are notified once gateways are
\* synchronised.
PendingInterrupts ==
  {c \in Contexts :
     EligibleSource(c, pendingSources \cup Latched(busy), threshold[c]) # {}}

-----------------------------------------------------------------------------
(* Operations.                                                             *)

Init ==
  /\ priority = [s \in Slots |-> 0]
  /\ pending = {}
  /\ pendingSources = {}
  /\ enabled = [c \in Contexts |-> {}]
  /\ threshold = [c \in Contexts |-> 0]
  /\ line = {}
  /\ busy = {}
  /\ handlers = [s \in Slots |-> {}]

\* A device moves its level line; nothing in the controller reacts until
\* the next synchronisation.
SetLine(s) ==
  /\ line' = IF s \in line THEN line \ {s} ELSE line \cup {s}
  /\ UNCHANGED <<plicRegisters, pending, pendingSources, busy, handlers>>

\* tick, pending_interrupts and every register read but a claim: they only
\* synchronise the gateways.
Synchronise ==
  /\ SyncGateways(busy)
  /\ UNCHANGED <<plicRegisters, line, handlers>>

\* A claim read that finds no candidate: it returns 0.
ClaimNothing(c) ==
  /\ EligibleSource(c, pendingSources \cup Latched(busy), 0) = {}
  /\ SyncGateways(busy)
  /\ UNCHANGED <<plicRegisters, line, handlers>>

\* Mutant: a claim that arbitrates before it synchronises the gateways.
BugStaleClaim(c, s) ==
  /\ s \in EligibleSource(c, pendingSources, 0)
  /\ pending' = (pending \cup Latched(busy)) \ {s}
  /\ pendingSources' = (pendingSources \cup Latched(busy)) \ {s}
  /\ busy' = busy \cup Latched(busy)
  /\ handlers' = [handlers EXCEPT ![s] = @ \cup {c}]
  /\ UNCHANGED <<plicRegisters, line>>

\* Mutant: a claim that opens the gateway instead of the completion.
BugClaimOpensGateway(c, s) ==
  /\ s \in EligibleSource(c, pendingSources \cup Latched(busy), 0)
  /\ pending' = (pending \cup Latched(busy)) \ {s}
  /\ pendingSources' = (pendingSources \cup Latched(busy)) \ {s}
  /\ busy' = (busy \cup Latched(busy)) \ {s}
  /\ handlers' = [handlers EXCEPT ![s] = @ \cup {c}]
  /\ UNCHANGED <<plicRegisters, line>>

\* Mutant: a claim that forgets the IP bit.
BugClaimKeepsBit(c, s) ==
  /\ s \in EligibleSource(c, pendingSources \cup Latched(busy), 0)
  /\ pending' = pending \cup Latched(busy)
  /\ pendingSources' = (pendingSources \cup Latched(busy)) \ {s}
  /\ busy' = busy \cup Latched(busy)
  /\ handlers' = [handlers EXCEPT ![s] = @ \cup {c}]
  /\ UNCHANGED <<plicRegisters, line>>

\* A claim read that returns source s. The gateway stays busy.
ClaimSource(c, s) ==
  /\ s \in EligibleSource(c, pendingSources \cup Latched(busy), 0)
  /\ pending' = (pending \cup Latched(busy)) \ {s}
  /\ pendingSources' = (pendingSources \cup Latched(busy)) \ {s}
  /\ busy' = busy \cup Latched(busy)
  /\ handlers' = [handlers EXCEPT ![s] = @ \cup {c}]
  /\ UNCHANGED <<plicRegisters, line>>

\* The completions the controller acts on; it looks at the current enable
\* bit, never at who claimed.
Accepts(c, s) == s \in Slots \ {0} /\ s \in enabled[c]

\* Mutant: a completion that ends the service but leaves the gateway closed.
BugCompleteKeepsGateway(c, s) ==
  IF Accepts(c, s)
  THEN /\ handlers' = [handlers EXCEPT ![s] = {}]
       /\ SyncGateways(busy)
       /\ UNCHANGED <<plicRegisters, line>>
  ELSE UNCHANGED vars

\* A complete write: an accepted one opens the gateway and synchronises, any
\* other is ignored.
Complete(c, s) ==
  IF Accepts(c, s)
  THEN /\ SyncGateways(busy \ {s})
       /\ handlers' = [handlers EXCEPT ![s] = {}]
       /\ UNCHANGED <<plicRegisters, line>>
  ELSE UNCHANGED vars

\* A priority register keeps the implemented bits; slot 0 has none.
WritePriority(s, value) ==
  /\ priority' = IF s = 0 THEN priority
                 ELSE [priority EXCEPT ![s] = value % (MaximumPriority + 1)]
  /\ UNCHANGED <<enabled, threshold, pending, pendingSources, line, busy,
                 handlers>>

\* write_enable_word: the slots of one word take the written bits.
WriteEnableWord(c, word, bits) ==
  LET covered == {s \in Slots \ {0} : s \div WordBits = word}
  IN  /\ enabled' = [enabled EXCEPT
                       ![c] = (@ \ covered) \cup (bits \cap covered)]
      /\ UNCHANGED <<priority, threshold, pending, pendingSources, line, busy,
                     handlers>>

WriteThreshold(c, value) ==
  /\ threshold' = [threshold EXCEPT ![c] = value % (MaximumPriority + 1)]
  /\ UNCHANGED <<priority, enabled, pending, pendingSources, line, busy,
                 handlers>>

\* Mutant: a reset that forgets the gateways.
BugResetKeepsBusy ==
  /\ priority' = [s \in Slots |-> 0]
  /\ pending' = {}
  /\ pendingSources' = {}
  /\ enabled' = [c \in Contexts |-> {}]
  /\ threshold' = [c \in Contexts |-> 0]
  /\ handlers' = [s \in Slots |-> {}]
  /\ UNCHANGED <<line, busy>>

\* reset clears the controller; the lines belong to the devices.
Reset ==
  /\ priority' = [s \in Slots |-> 0]
  /\ pending' = {}
  /\ pendingSources' = {}
  /\ enabled' = [c \in Contexts |-> {}]
  /\ threshold' = [c \in Contexts |-> 0]
  /\ busy' = {}
  /\ handlers' = [s \in Slots |-> {}]
  /\ UNCHANGED line

-----------------------------------------------------------------------------
(* Written values range over twice the implemented priorities, so that the *)
(* mask matters; completions over one id beyond the last source.           *)

Values == 0 .. 2 * MaximumPriority + 1
CompletionIds == 0 .. SourceCount + 1

\* Everything but completions.
OtherSteps ==
  \/ \E s \in ActiveSources : SetLine(s)
  \/ Synchronise
  \/ \E c \in Contexts : ClaimNothing(c)
  \/ \E c \in Contexts, s \in Slots : ClaimSource(c, s)
  \/ \E s \in Slots, v \in Values : WritePriority(s, v)
  \/ \E c \in Contexts, word \in 0 .. SourceCount \div WordBits :
       \E bits \in SUBSET {s \in Slots : s \div WordBits = word} :
         WriteEnableWord(c, word, bits)
  \/ \E c \in Contexts, v \in Values : WriteThreshold(c, v)
  \/ Reset

Next ==
  \/ OtherSteps
  \/ \E c \in Contexts, s \in CompletionIds : Complete(c, s)

\* Software that may complete anything at any time.
Spec == Init /\ [][Next]_vars

\* Software that reports completion only of a source that has been claimed
\* and not yet completed (or writes a completion that is ignored). The
\* completing context need not be the one that claimed.
InService(s) == handlers[s] # {}

MatchedComplete(c, s) ==
  /\ Accepts(c, s) => InService(s)
  /\ Complete(c, s)

DriverNext ==
  \/ OtherSteps
  \/ \E c \in Contexts, s \in CompletionIds : MatchedComplete(c, s)

DriverSpec == Init /\ [][DriverNext]_vars

-----------------------------------------------------------------------------
(* Properties.                                                             *)

\* Every variable has its type; slot 0 never gets a priority, an enable bit
\* or a request, and only lines of active sources move.
TypeOK ==
  /\ priority \in [Slots -> Priorities] /\ priority[0] = 0
  /\ pending \subseteq ActiveSources
  /\ pendingSources \subseteq ActiveSources
  /\ enabled \in [Contexts -> SUBSET (Slots \ {0})]
  /\ threshold \in [Contexts -> Priorities]
  /\ line \subseteq ActiveSources
  /\ busy \subseteq ActiveSources
  /\ handlers \in [Slots -> SUBSET Contexts]

\* The IP bits software reads and the ordered set arbitration uses are two
\* copies of one fact, updated at four places; they never drift apart.
CopiesAgree == pendingSources = pending

\* No gateway closes for good: a busy one always has a request that can
\* still be claimed or a claim that can still be completed, whatever
\* software writes, across spurious completions, disables and resets.
NoGatewayStuck == \A s \in busy : s \in pending \/ InService(s)

\* A formed request never evaporates: it leaves the pending set into the
\* hands of a context, or because a reset disabled every source.
NoRequestLost ==
  [][\A s \in pending :
       \/ s \in pending'
       \/ \E c \in Contexts : c \in handlers'[s]
       \/ \A c \in Contexts : enabled'[c] = {}]_vars

\* A claim is fresh and fair: when it is read, the source a context receives
\* is enabled for it and has a request that software can see or a line that
\* stands high at an idle gateway, and no other such source that the context
\* has enabled beats it.
ClaimIsBest ==
  [][\A c \in Contexts, s \in Slots :
       c \in handlers'[s] \ handlers[s] =>
         /\ s \in enabled[c] /\ priority[s] > 0
         /\ s \in pending \cup (line \ busy)
         /\ \A t \in enabled[c] \cap (pending \cup (line \ busy)) :
              priority[t] > priority[s] => t = s
         /\ \A t \in enabled[c] \cap (pending \cup (line \ busy)) :
              priority[t] = priority[s] => s <= t]_vars

\* What the hart is told is what software sees: a context is notified exactly
\* if the IP bits show a request it has enabled above its threshold, although
\* arbitration works on its own copy of them; and a notified context would, by
\* claiming now, receive one such source, although the claim itself ignores
\* the threshold.
NotificationIsClaimable ==
  \A c \in Contexts :
    LET visible == {s \in enabled[c] \cap (pending \cup Latched(busy)) :
                      priority[s] > threshold[c]}
        won     == EligibleSource(c, pendingSources \cup Latched(busy), 0)
    IN  /\ c \in PendingInterrupts <=> visible # {}
        /\ visible # {} => Cardinality(won) = 1 /\ won \subseteq visible

\* Under software that completes only what was claimed, a level source has
\* at most one unfinished request: a request in service is not pending
\* again, and two contexts never service one source at a time.
OneRequestPerSource ==
  \A s \in Slots :
    /\ InService(s) => s \notin pending
    /\ \A c, d \in handlers[s] : c = d

\* The gateways as the abstract specification sees them; it has no phase
\* for a source in service whose next request is already pending.
GatewayPhase ==
  [s \in ActiveSources |->
     IF InService(s) THEN IF s \in pending THEN "twice" ELSE "taken"
     ELSE IF s \in pending THEN "requested" ELSE "idle"]

Gateways ==
  INSTANCE LevelGateway WITH Sources <- ActiveSources, phase <- GatewayPhase

\* Under disciplined software the gateways behave as the abstract level
\* gateways: request, take, finish, in this order, each source on its own.
ImplementsGateways == Gateways!Spec
=============================================================================

----------------------------- MODULE PlicProofs -----------------------------
(***************************************************************************)
(* Theorems about the interrupt controller, for every number of sources,   *)
(* contexts and priorities.                                                *)
(***************************************************************************)
EXTENDS Plic, IntegerLemmas, FiniteSetTheorems, TLAPS

-----------------------------------------------------------------------------
(* Type correctness.                                                       *)

\* A synchronisation only moves lines of active sources into the gateways.
LEMMA SyncTypes ==
  ASSUME TypeOK, NEW b \in SUBSET ActiveSources, SyncGateways(b)
  PROVE  /\ pending' \subseteq ActiveSources
         /\ pendingSources' \subseteq ActiveSources
         /\ busy' \subseteq ActiveSources
BY DEF TypeOK, SyncGateways, Latched

\* A masked value fits its register.
LEMMA MaskedValue ==
  ASSUME NEW value \in Values
  PROVE  value % (MaximumPriority + 1) \in Priorities
BY PlicAssumption DEF Values, Priorities

\* Every step of the controller, whatever software does, keeps the types.
LEMMA TypeStep == TypeOK /\ [Next]_vars => TypeOK'
<1> SUFFICES ASSUME TypeOK, [Next]_vars
             PROVE  TypeOK'
    OBVIOUS
<1> USE PlicAssumption
<1>1. ASSUME NEW s \in ActiveSources, SetLine(s)
      PROVE  TypeOK'
      BY <1>1 DEF TypeOK, SetLine, plicRegisters
<1>2. CASE Synchronise
      BY <1>2, SyncTypes DEF TypeOK, Synchronise, plicRegisters
<1>3. ASSUME NEW c \in Contexts, ClaimNothing(c)
      PROVE  TypeOK'
      BY <1>3, SyncTypes DEF TypeOK, ClaimNothing, plicRegisters
<1>4. ASSUME NEW c \in Contexts, NEW s \in Slots, ClaimSource(c, s)
      PROVE  TypeOK'
      BY <1>4 DEF TypeOK, ClaimSource, plicRegisters, Latched
<1>5. ASSUME NEW c \in Contexts, NEW s \in CompletionIds, Complete(c, s)
      PROVE  TypeOK'
  <2>1. CASE Accepts(c, s)
        BY <1>5, <2>1, SyncTypes, busy \ {s} \in SUBSET ActiveSources
        DEF TypeOK, Complete, plicRegisters
  <2>2. CASE ~Accepts(c, s)
        BY <1>5, <2>2 DEF TypeOK, Complete, vars
  <2>3. QED
        BY <2>1, <2>2
<1>6. ASSUME NEW s \in Slots, NEW v \in Values, WritePriority(s, v)
      PROVE  TypeOK'
      BY <1>6, MaskedValue DEF TypeOK, WritePriority, Slots
<1>7. ASSUME NEW c \in Contexts, NEW word \in 0 .. SourceCount \div WordBits,
             NEW bits \in SUBSET {s \in Slots : s \div WordBits = word},
             WriteEnableWord(c, word, bits)
      PROVE  TypeOK'
      BY <1>7 DEF TypeOK, WriteEnableWord
<1>8. ASSUME NEW c \in Contexts, NEW v \in Values, WriteThreshold(c, v)
      PROVE  TypeOK'
      BY <1>8, MaskedValue DEF TypeOK, WriteThreshold
<1>9. CASE Reset
      BY <1>9 DEF TypeOK, Reset, Priorities, Slots
<1>10. CASE UNCHANGED vars
       BY <1>10 DEF TypeOK, vars
<1>11. QED
       BY <1>1, <1>2, <1>3, <1>4, <1>5, <1>6, <1>7, <1>8, <1>9, <1>10
       DEF Next, OtherSteps

\* Every register keeps its type and slot 0 stays unusable.
THEOREM TypeCorrect == Spec => []TypeOK
<1>1. Init => TypeOK
      BY PlicAssumption DEF Init, TypeOK, Priorities, Slots
<1>2. QED
      BY <1>1, TypeStep, PTL DEF Spec

-----------------------------------------------------------------------------
(* The two copies of the pending set, and gateways that never stick.       *)

\* The pending bits and the set arbitration works on change together.
LEMMA CopiesStep == CopiesAgree /\ [Next]_vars => CopiesAgree'
<1> SUFFICES ASSUME CopiesAgree, [Next]_vars
             PROVE  CopiesAgree'
    OBVIOUS
<1> USE DEF CopiesAgree
<1>1. ASSUME NEW c \in Contexts, NEW s \in Slots, ClaimSource(c, s)
      PROVE  CopiesAgree'
      BY <1>1 DEF ClaimSource
<1>2. ASSUME NEW c \in Contexts, NEW s \in CompletionIds, Complete(c, s)
      PROVE  CopiesAgree'
      BY <1>2 DEF Complete, SyncGateways, vars
<1>3. CASE Synchronise \/ \E c \in Contexts : ClaimNothing(c)
      BY <1>3 DEF Synchronise, ClaimNothing, SyncGateways
<1>4. CASE Reset
      BY <1>4 DEF Reset
<1>5. CASE UNCHANGED <<pending, pendingSources>>
      BY <1>5
<1>6. QED
      BY <1>1, <1>2, <1>3, <1>4, <1>5
      DEF Next, OtherSteps, SetLine, WritePriority, WriteEnableWord,
          WriteThreshold, vars

\* The IP bits and the ordered set of pending sources never drift apart.
THEOREM CopiesAlwaysAgree == Spec => []CopiesAgree
<1>1. Init => CopiesAgree
      BY DEF Init, CopiesAgree
<1>2. QED
      BY <1>1, CopiesStep, PTL DEF Spec

\* A busy gateway keeps a claimable request or a completable claim.
LEMMA GatewayStep ==
  TypeOK /\ CopiesAgree /\ NoGatewayStuck /\ [Next]_vars => NoGatewayStuck'
<1> SUFFICES ASSUME TypeOK, CopiesAgree, NoGatewayStuck, [Next]_vars,
                    NEW s \in busy'
             PROVE  s \in pending' \/ handlers'[s] # {}
    BY DEF NoGatewayStuck, InService
<1> USE DEF NoGatewayStuck, InService, Latched
<1>1. ASSUME NEW c \in Contexts, NEW t \in Slots, ClaimSource(c, t)
      PROVE  s \in pending' \/ handlers'[s] # {}
  <2>1. CASE s = t
        BY <1>1, <2>1 DEF ClaimSource, TypeOK
  <2>2. CASE s # t
        BY <1>1, <2>2 DEF ClaimSource, TypeOK
  <2>3. QED
        BY <2>1, <2>2
<1>2. ASSUME NEW c \in Contexts, NEW t \in CompletionIds, Complete(c, t)
      PROVE  s \in pending' \/ handlers'[s] # {}
  <2>1. CASE Accepts(c, t)
    <3>1. SyncGateways(busy \ {t}) /\ handlers' = [handlers EXCEPT ![t] = {}]
          BY <1>2, <2>1 DEF Complete
    <3>2. CASE s \in Latched(busy \ {t})
          BY <3>1, <3>2 DEF SyncGateways
    <3>3. CASE s \in busy \ {t}
      <4>1. s \in Slots
            BY <3>3, PlicAssumption DEF TypeOK, Slots
      <4>2. handlers'[s] = handlers[s]
            BY <3>1, <3>3, <4>1 DEF TypeOK
      <4>3. QED
            BY <3>1, <3>3, <4>2 DEF SyncGateways
    <3>4. QED
          BY <3>1, <3>2, <3>3 DEF SyncGateways
  <2>2. CASE ~Accepts(c, t)
        BY <1>2, <2>2 DEF Complete, vars
  <2>3. QED
        BY <2>1, <2>2
<1>3. CASE Synchronise \/ \E c \in Contexts : ClaimNothing(c)
      BY <1>3 DEF Synchronise, ClaimNothing, SyncGateways
<1>4. CASE Reset
      BY <1>4 DEF Reset
<1>5. CASE UNCHANGED <<pending, busy, handlers>>
      BY <1>5
<1>6. QED
      BY <1>1, <1>2, <1>3, <1>4, <1>5
      DEF Next, OtherSteps, SetLine, WritePriority, WriteEnableWord,
          WriteThreshold, vars

\* No gateway closes for good, whatever software writes.
THEOREM GatewaysNeverStick == Spec => []NoGatewayStuck
<1>1. Init => NoGatewayStuck
      BY DEF Init, NoGatewayStuck
<1>2. QED
      BY <1>1, GatewayStep, TypeCorrect, CopiesAlwaysAgree, PTL DEF Spec

-----------------------------------------------------------------------------
(* What a step may do to a request.                                        *)

\* A pending request ends in a claim, or in a reset that disables everything.
THEOREM RequestsAreNotLost == Spec => NoRequestLost
<1> DEFINE Kept ==
      \A s \in pending :
        \/ s \in pending'
        \/ \E c \in Contexts : c \in handlers'[s]
        \/ \A c \in Contexts : enabled'[c] = {}
<1>1. TypeOK /\ [Next]_vars => [Kept]_vars
  <2> SUFFICES ASSUME TypeOK, [Next]_vars, NEW s \in pending
               PROVE  \/ s \in pending'
                      \/ \E c \in Contexts : c \in handlers'[s]
                      \/ \A c \in Contexts : enabled'[c] = {}
      OBVIOUS
  <2>1. ASSUME NEW c \in Contexts, NEW t \in Slots, ClaimSource(c, t)
        PROVE  s \in pending' \/ c \in handlers'[s]
        BY <2>1 DEF ClaimSource, TypeOK
  <2>2. ASSUME NEW c \in Contexts, NEW t \in CompletionIds, Complete(c, t)
        PROVE  s \in pending'
        BY <2>2 DEF Complete, SyncGateways, vars
  <2>3. CASE Synchronise \/ \E c \in Contexts : ClaimNothing(c)
        BY <2>3 DEF Synchronise, ClaimNothing, SyncGateways
  <2>4. CASE Reset
        BY <2>4 DEF Reset
  <2>5. CASE UNCHANGED pending
        BY <2>5
  <2>6. QED
        BY <2>1, <2>2, <2>3, <2>4, <2>5
        DEF Next, OtherSteps, SetLine, WritePriority, WriteEnableWord,
            WriteThreshold, vars
<1>2. QED
      BY <1>1, TypeCorrect, PTL DEF Spec, NoRequestLost

\* What a context receives is the best it had enabled, lines that rose since
\* the last synchronisation included.
THEOREM ClaimsAreBest == Spec => ClaimIsBest
<1> DEFINE Best(c, s) ==
      /\ s \in enabled[c] /\ priority[s] > 0
      /\ s \in pending \cup (line \ busy)
      /\ \A t \in enabled[c] \cap (pending \cup (line \ busy)) :
           priority[t] > priority[s] => t = s
      /\ \A t \in enabled[c] \cap (pending \cup (line \ busy)) :
           priority[t] = priority[s] => s <= t
<1>1. TypeOK /\ CopiesAgree /\ [Next]_vars =>
        [\A c \in Contexts, s \in Slots :
           c \in handlers'[s] \ handlers[s] => Best(c, s)]_vars
  <2> SUFFICES ASSUME TypeOK, CopiesAgree, [Next]_vars,
                      NEW c \in Contexts, NEW s \in Slots,
                      c \in handlers'[s] \ handlers[s]
               PROVE  Best(c, s)
      OBVIOUS
  <2>1. PICK d \in Contexts, u \in Slots : ClaimSource(d, u)
    <3>1. ~ UNCHANGED handlers
          OBVIOUS
    <3>2. ASSUME NEW d \in Contexts, NEW u \in CompletionIds, Complete(d, u)
          PROVE  FALSE
          BY <3>2 DEF Complete, TypeOK, vars
    <3>3. CASE Reset
          BY <3>3 DEF Reset
    <3>4. QED
          BY <3>1, <3>2, <3>3
          DEF Next, OtherSteps, Synchronise, ClaimNothing, SetLine,
              WritePriority, WriteEnableWord, WriteThreshold, vars
  <2>2. d = c /\ u = s
        BY <2>1 DEF ClaimSource, TypeOK
  <2> DEFINE known == pendingSources \cup Latched(busy)
  <2>3. /\ s \in Candidates(c, known, 0)
        /\ \A t \in Candidates(c, known, 0) : Beats(s, t)
        BY <2>1, <2>2 DEF ClaimSource, EligibleSource
  <2>4. pending \cup (line \ busy) \subseteq known
        BY DEF CopiesAgree, Latched, TypeOK
  <2>5. \A t \in Slots : priority[t] \in Nat
        BY PlicAssumption DEF TypeOK, Priorities
  <2>6. ASSUME NEW t \in enabled[c] \cap (pending \cup (line \ busy))
        PROVE  /\ priority[t] > priority[s] => t = s
               /\ priority[t] = priority[s] => s <= t
    <3>1. t \in Slots
          BY PlicAssumption DEF TypeOK, Slots
    <3>2. CASE priority[t] = 0
          BY <2>3, <2>5, <3>1, <3>2 DEF Candidates
    <3>3. CASE priority[t] > 0
      <4>1. Beats(s, t)
            BY <2>3, <2>4, <2>6, <3>3 DEF Candidates
      <4>2. QED
            BY <4>1, <2>5, <3>1 DEF Beats
    <3>4. QED
          BY <2>5, <3>1, <3>2, <3>3
  <2>7. s \in pending \cup (line \ busy)
        BY <2>3 DEF Candidates, CopiesAgree, Latched
  <2>8. QED
        BY <2>3, <2>6, <2>7 DEF Candidates
<1>2. QED
      BY <1>1, TypeCorrect, CopiesAlwaysAgree, PTL DEF Spec, ClaimIsBest

\* Raising the bar candidates must clear does not change the winner, as long
\* as one clears it.
LEMMA ThresholdKeepsWinner ==
  ASSUME TypeOK, NEW c \in Contexts, NEW r \in SUBSET Slots,
         NEW above \in Nat, NEW w \in EligibleSource(c, r, above)
  PROVE  EligibleSource(c, r, 0) = {w} /\ priority[w] > above
<1>1. \A t \in Slots : priority[t] \in Nat
      BY PlicAssumption DEF TypeOK, Priorities
<1>2. /\ w \in r /\ w \in Slots /\ w \in enabled[c] /\ priority[w] > above
      /\ \A t \in Candidates(c, r, above) : Beats(w, t)
      BY DEF EligibleSource, Candidates
<1>3. ASSUME NEW t \in Candidates(c, r, 0)
      PROVE  Beats(w, t)
  <2>1. t \in Slots
        BY DEF Candidates
  <2>2. CASE priority[t] > above
        BY <1>2, <2>2 DEF Candidates
  <2>3. CASE ~(priority[t] > above)
        BY <1>1, <1>2, <2>1, <2>3 DEF Beats
  <2>4. QED
        BY <2>2, <2>3
<1>4. w \in EligibleSource(c, r, 0)
      BY <1>1, <1>2, <1>3 DEF EligibleSource, Candidates
<1>5. ASSUME NEW t \in EligibleSource(c, r, 0)
      PROVE  t = w
  <2>1. Beats(t, w) /\ Beats(w, t) /\ t \in Slots
        BY <1>4, <1>3 DEF EligibleSource, Candidates
  <2>2. QED
        BY <1>1, <1>2, <2>1 DEF Beats, Slots
<1>6. QED
      BY <1>2, <1>4, <1>5

\* Where there are candidates one of them wins: of those with the highest
\* priority, the one with the smallest number.
LEMMA CandidatesHaveWinner ==
  ASSUME TypeOK, NEW c \in Contexts, NEW r \in SUBSET Slots,
         NEW above \in Nat, Candidates(c, r, above) # {}
  PROVE  EligibleSource(c, r, above) # {}
<1> DEFINE S == Candidates(c, r, above)
           P == {priority[s] : s \in S}
<1>1. S \subseteq Slots /\ S \subseteq Nat /\ S # {}
  <2>1. S \subseteq Slots /\ S # {}
        BY DEF Candidates
  <2>2. SourceCount \in Nat
        BY PlicAssumption
  <2>3. Slots \subseteq Nat
        BY <2>2 DEF Slots
  <2>4. QED
        BY <2>1, <2>3
<1>2. MaximumPriority \in Nat /\ \A s \in S : priority[s] \in 0 .. MaximumPriority
      BY <1>1, PlicAssumption DEF TypeOK, Priorities
<1>3. P \in SUBSET Nat /\ P # {} /\ \A x \in P : x <= MaximumPriority
      BY <1>1, <1>2
<1>4. PICK top \in P : \A x \in P : x <= top
      BY <1>2, <1>3, Greatest
<1> DEFINE T == {s \in S : priority[s] = top}
<1>5. T \in SUBSET Nat /\ T # {}
      BY <1>1, <1>4
<1>6. PICK w \in T : \A t \in T : w <= t
      BY <1>5, Least
<1>7. ASSUME NEW t \in S
      PROVE  Beats(w, t)
  <2>1. priority[t] <= top /\ priority[t] \in Nat /\ top \in Nat /\ priority[w] = top
        BY <1>2, <1>3, <1>4, <1>6
  <2>2. CASE priority[t] = top
        BY <1>6, <2>1, <2>2 DEF Beats
  <2>3. CASE priority[t] < top
        BY <2>1, <2>3 DEF Beats
  <2>4. QED
        BY <2>1, <2>2, <2>3
<1>8. QED
      BY <1>6, <1>7 DEF EligibleSource

\* A context is notified exactly if the IP bits show it a request above its
\* threshold, and if it claims at once it receives such a request.
THEOREM NotificationsAreClaimable == Spec => []NotificationIsClaimable
<1>1. TypeOK /\ CopiesAgree => NotificationIsClaimable
  <2> SUFFICES ASSUME TypeOK, CopiesAgree, NEW c \in Contexts
               PROVE
                 LET visible == {s \in enabled[c] \cap (pending \cup Latched(busy)) :
                                   priority[s] > threshold[c]}
                     won == EligibleSource(c, pendingSources \cup Latched(busy), 0)
                 IN  /\ c \in PendingInterrupts <=> visible # {}
                     /\ visible # {} => Cardinality(won) = 1 /\ won \subseteq visible
      BY DEF NotificationIsClaimable
  <2> DEFINE known == pendingSources \cup Latched(busy)
             visible == {s \in enabled[c] \cap (pending \cup Latched(busy)) :
                           priority[s] > threshold[c]}
  <2>1. threshold[c] \in Nat /\ known \in SUBSET Slots
    <3>1. threshold[c] \in Nat
          BY PlicAssumption DEF TypeOK, Priorities
    <3>2. known \subseteq ActiveSources
          BY DEF TypeOK, Latched
    <3>3. ActiveSources \subseteq Slots
          BY PlicAssumption DEF Slots
    <3>4. QED
          BY <3>1, <3>2, <3>3
  <2>2. visible = Candidates(c, known, threshold[c])
        BY DEF CopiesAgree, Candidates
  <2>3. c \in PendingInterrupts <=> EligibleSource(c, known, threshold[c]) # {}
        BY DEF PendingInterrupts
  <2>4. EligibleSource(c, known, threshold[c]) \subseteq visible
        BY <2>2 DEF EligibleSource
  <2>5. ASSUME visible # {}
        PROVE  /\ EligibleSource(c, known, threshold[c]) # {}
               /\ Cardinality(EligibleSource(c, known, 0)) = 1
               /\ EligibleSource(c, known, 0) \subseteq visible
    <3>1. EligibleSource(c, known, threshold[c]) # {}
          BY <2>1, <2>2, <2>5, CandidatesHaveWinner
    <3>2. PICK w : w \in EligibleSource(c, known, threshold[c])
          BY <3>1
    <3>3. EligibleSource(c, known, 0) = {w}
          BY <2>1, <3>2, ThresholdKeepsWinner
    <3>4. Cardinality({w}) = 1
          BY FS_Singleton
    <3>5. QED
          BY <2>4, <3>1, <3>2, <3>3, <3>4
  <2>6. QED
        BY <2>3, <2>4, <2>5
<1>2. QED
      BY <1>1, TypeCorrect, CopiesAlwaysAgree, PTL

-----------------------------------------------------------------------------
(* Disciplined software: one request per source. The invariant says that a *)
(* request in either place, pending or in service, keeps its gateway busy, *)
(* so that no second one can form; only an unmatched completion opens the  *)
(* gateway of a pending request.                                           *)

DriverInv ==
  /\ OneRequestPerSource
  /\ pending \subseteq busy
  /\ \A s \in Slots : InService(s) => s \in busy

\* Disciplined software is software.
LEMMA DriverStepIsStep == [DriverNext]_vars => [Next]_vars
BY DEF DriverNext, Next, MatchedComplete

\* Disciplined software is a special case of software.
LEMMA DriverSpecIsSpec == DriverSpec => Spec
BY DriverStepIsStep, PTL DEF DriverSpec, Spec

\* A disciplined step keeps every request behind a busy gateway.
LEMMA DriverStep ==
  TypeOK /\ CopiesAgree /\ DriverInv /\ [DriverNext]_vars => DriverInv'
<1> SUFFICES ASSUME TypeOK, CopiesAgree, DriverInv, [DriverNext]_vars
             PROVE  DriverInv'
    OBVIOUS
<1> USE DEF DriverInv, OneRequestPerSource, InService
<1>1. ASSUME NEW c \in Contexts, NEW s \in Slots, ClaimSource(c, s)
      PROVE  DriverInv'
  <2>1. handlers[s] = {}
    <3>1. s \in pending \/ s \notin busy
          BY <1>1 DEF ClaimSource, EligibleSource, Candidates, Latched,
             CopiesAgree
    <3>2. QED
          BY <3>1
  <2>2. s \in busy'
        BY <1>1 DEF ClaimSource, EligibleSource, Candidates, CopiesAgree
  <2>3. s \notin pending' /\ handlers' = [handlers EXCEPT ![s] = {c}]
        BY <1>1, <2>1 DEF ClaimSource, TypeOK
  <2>4. ASSUME NEW t \in Slots, t # s
        PROVE  /\ handlers'[t] # {} => t \notin pending' /\ t \in busy'
               /\ \A d, e \in handlers'[t] : d = e
    <3>1. handlers'[t] = handlers[t]
          BY <2>3, <2>4 DEF TypeOK
    <3>2. QED
          BY <1>1, <2>4, <3>1 DEF ClaimSource, Latched
  <2>5. pending' \subseteq busy'
        BY <1>1 DEF ClaimSource
  <2>6. handlers'[s] = {c}
        BY <2>3 DEF TypeOK
  <2>7. QED
        BY <2>2, <2>3, <2>4, <2>5, <2>6
<1>2. ASSUME NEW c \in Contexts, NEW s \in CompletionIds,
             MatchedComplete(c, s)
      PROVE  DriverInv'
  <2>1. CASE Accepts(c, s)
    <3>1. /\ SyncGateways(busy \ {s})
          /\ handlers' = [handlers EXCEPT ![s] = {}]
          /\ handlers[s] # {} /\ s \in Slots
          BY <1>2, <2>1 DEF MatchedComplete, Complete, Accepts
    <3>2. s \notin pending
          BY <3>1
    <3>3. pending' \subseteq busy'
          BY <3>1, <3>2 DEF SyncGateways
    <3>4. ASSUME NEW t \in Slots, handlers'[t] # {}
          PROVE  /\ t # s /\ handlers'[t] = handlers[t]
                 /\ t \notin pending' /\ t \in busy'
      <4>1. t # s /\ handlers'[t] = handlers[t]
            BY <3>1, <3>4 DEF TypeOK
      <4>2. QED
            BY <3>1, <3>4, <4>1 DEF SyncGateways, Latched
    <3>5. QED
          BY <3>3, <3>4
  <2>2. CASE ~Accepts(c, s)
        BY <1>2, <2>2 DEF MatchedComplete, Complete, vars
  <2>3. QED
        BY <2>1, <2>2
<1>3. CASE Synchronise \/ \E c \in Contexts : ClaimNothing(c)
      BY <1>3 DEF Synchronise, ClaimNothing, SyncGateways, Latched
<1>4. CASE Reset
      BY <1>4 DEF Reset
<1>5. CASE UNCHANGED <<pending, busy, handlers>>
      BY <1>5
<1>6. QED
      BY <1>1, <1>2, <1>3, <1>4, <1>5
      DEF DriverNext, OtherSteps, SetLine, WritePriority, WriteEnableWord,
          WriteThreshold, vars

\* What disciplined software keeps, in every state.
LEMMA DriverInvariant == DriverSpec => [](TypeOK /\ CopiesAgree /\ DriverInv)
<1>1. Init => DriverInv
      BY DEF Init, DriverInv, OneRequestPerSource, InService
<1>2. QED
      BY <1>1, DriverStep, TypeCorrect, CopiesAlwaysAgree, DriverSpecIsSpec,
         PTL DEF DriverSpec

\* Under disciplined software a source has one unfinished request at most.
THEOREM OneRequestEach == DriverSpec => []OneRequestPerSource
BY DriverInvariant, PTL DEF DriverInv

-----------------------------------------------------------------------------
(* Disciplined software: the gateways implement the abstract ones.         *)

\* The phase of one source that has one request at most.
PhaseOf(s) ==
  IF InService(s) THEN "taken"
  ELSE IF s \in pending THEN "requested" ELSE "idle"

\* The refinement mapping yields a phase of the abstract specification for
\* every source, as long as no source has two requests.
LEMMA PhaseIsPhase ==
  ASSUME OneRequestPerSource
  PROVE  /\ \A s \in ActiveSources : GatewayPhase[s] = PhaseOf(s)
         /\ GatewayPhase \in [ActiveSources -> Gateways!Phases]
BY PlicAssumption
DEF GatewayPhase, PhaseOf, Gateways!Phases, OneRequestPerSource, Slots

\* A step that takes or finishes at most the source u, and moves the others
\* from idle to requested at most, is a step of the abstract gateways.
LEMMA ProgressFromMoves ==
  ASSUME NEW u, OneRequestPerSource, OneRequestPerSource',
         \A s \in ActiveSources : Gateways!Move(s, PhaseOf(s), PhaseOf(s)'),
         \A s \in ActiveSources \ {u} :
            \/ PhaseOf(s)' = PhaseOf(s)
            \/ PhaseOf(s) = "idle" /\ PhaseOf(s)' = "requested"
  PROVE  Gateways!Next
<1>1. /\ \A s \in ActiveSources : GatewayPhase[s] = PhaseOf(s)
      /\ \A s \in ActiveSources : GatewayPhase'[s] = PhaseOf(s)'
      /\ GatewayPhase' \in [ActiveSources -> Gateways!Phases]
  <2>1. ActiveSources \subseteq Slots
        BY PlicAssumption DEF Slots
  <2>2. \A s \in ActiveSources : GatewayPhase[s] = PhaseOf(s)
        BY PhaseIsPhase
  <2>3. \A s \in ActiveSources : s \in Slots => ~(InService(s)' /\ s \in pending')
        BY DEF OneRequestPerSource, InService
  <2>4. \A s \in ActiveSources : GatewayPhase'[s] = PhaseOf(s)'
        BY <2>1, <2>3 DEF GatewayPhase, PhaseOf, InService
  <2>5. GatewayPhase' \in [ActiveSources -> Gateways!Phases]
        BY <2>1, <2>3 DEF GatewayPhase, InService, Gateways!Phases
  <2>6. QED
        BY <2>2, <2>4, <2>5
<1>2. \A s \in ActiveSources \ {u} : Gateways!Settled(s)
      BY <1>1 DEF Gateways!Settled
<1>3. Gateways!Progress
      BY <1>1, <1>2 DEF Gateways!Progress
<1>4. QED
      BY <1>3 DEF Gateways!Next

\* Synchronising the gateways makes requests of idle sources only.
LEMMA SynchroniseIsProgress ==
  ASSUME TypeOK, DriverInv, DriverInv', SyncGateways(busy),
         UNCHANGED handlers
  PROVE  Gateways!Next
<1>1. ASSUME NEW s \in ActiveSources
      PROVE  \/ PhaseOf(s)' = PhaseOf(s)
             \/ PhaseOf(s) = "idle" /\ PhaseOf(s)' = "requested"
      BY DEF SyncGateways, PhaseOf, InService
<1>2. \A s \in ActiveSources : Gateways!Move(s, PhaseOf(s), PhaseOf(s)')
      BY <1>1 DEF Gateways!Move
<1>3. QED
      BY <1>1, <1>2, ProgressFromMoves DEF DriverInv

\* Every step of the controller is a step of the gateways or a stutter.
LEMMA RefinementStep ==
  TypeOK /\ CopiesAgree /\ DriverInv /\ DriverInv' /\ [DriverNext]_vars
    => [Gateways!Next]_GatewayPhase
<1> SUFFICES ASSUME TypeOK, CopiesAgree, DriverInv, DriverInv',
                    [DriverNext]_vars
             PROVE  [Gateways!Next]_GatewayPhase
    OBVIOUS
<1>1. ASSUME NEW c \in Contexts, NEW u \in Slots, ClaimSource(c, u)
      PROVE  Gateways!Next
  <2>1. /\ u \in pending \cup Latched(busy)
        /\ pending' = (pending \cup Latched(busy)) \ {u}
        /\ handlers' = [handlers EXCEPT ![u] = @ \cup {c}]
        BY <1>1 DEF ClaimSource, EligibleSource, Candidates, CopiesAgree
  <2>2. ActiveSources \subseteq Slots
        BY PlicAssumption DEF Slots
  <2>3. PhaseOf(u) \in {"idle", "requested"} /\ PhaseOf(u)' = "taken"
    <3>1. handlers[u] = {}
          BY <2>1 DEF DriverInv, OneRequestPerSource, InService, Latched
    <3>2. handlers'[u] # {}
          BY <2>1 DEF TypeOK
    <3>3. QED
          BY <3>1, <3>2 DEF PhaseOf, InService
  <2>4. ASSUME NEW s \in ActiveSources \ {u}
        PROVE  \/ PhaseOf(s)' = PhaseOf(s)
               \/ PhaseOf(s) = "idle" /\ PhaseOf(s)' = "requested"
    <3>1. handlers'[s] = handlers[s]
          BY <2>1, <2>2 DEF TypeOK
    <3>2. QED
          BY <2>1, <3>1 DEF PhaseOf, InService
  <2>5. \A s \in ActiveSources : Gateways!Move(s, PhaseOf(s), PhaseOf(s)')
        BY <2>3, <2>4 DEF Gateways!Move
  <2>6. QED
        BY <2>4, <2>5, ProgressFromMoves DEF DriverInv
<1>2. ASSUME NEW c \in Contexts, NEW u \in CompletionIds,
             MatchedComplete(c, u)
      PROVE  [Gateways!Next]_GatewayPhase
  <2>1. CASE Accepts(c, u)
    <3>1. /\ SyncGateways(busy \ {u})
          /\ handlers' = [handlers EXCEPT ![u] = {}]
          /\ InService(u) /\ u \in Slots
          BY <1>2, <2>1 DEF MatchedComplete, Complete, Accepts
    <3>2. PhaseOf(u) = "taken" /\ PhaseOf(u)' \in {"idle", "requested"}
          BY <3>1 DEF PhaseOf, InService, TypeOK
    <3>3. ActiveSources \subseteq Slots
          BY PlicAssumption DEF Slots
    <3>4. ASSUME NEW s \in ActiveSources \ {u}
          PROVE  \/ PhaseOf(s)' = PhaseOf(s)
                 \/ PhaseOf(s) = "idle" /\ PhaseOf(s)' = "requested"
      <4>1. handlers'[s] = handlers[s]
            BY <3>1, <3>3 DEF TypeOK
      <4>2. QED
            BY <3>1, <4>1 DEF PhaseOf, InService, SyncGateways
    <3>5. \A s \in ActiveSources : Gateways!Move(s, PhaseOf(s), PhaseOf(s)')
          BY <3>2, <3>4 DEF Gateways!Move
    <3>6. QED
          BY <3>4, <3>5, ProgressFromMoves DEF DriverInv
  <2>2. CASE ~Accepts(c, u)
        BY <1>2, <2>2
        DEF MatchedComplete, Complete, vars, GatewayPhase, InService
  <2>3. QED
        BY <2>1, <2>2
<1>3. CASE Synchronise \/ \E c \in Contexts : ClaimNothing(c)
      BY <1>3, SynchroniseIsProgress DEF Synchronise, ClaimNothing
<1>4. CASE Reset
  <2>1. GatewayPhase' = [s \in ActiveSources |-> "idle"]
    <3>1. ActiveSources \subseteq Slots
          BY PlicAssumption DEF Slots
    <3>2. QED
          BY <1>4, <3>1 DEF Reset, GatewayPhase, InService
  <2>2. QED
        BY <2>1 DEF Gateways!Next, Gateways!Reset
<1>5. CASE UNCHANGED <<pending, handlers>>
      BY <1>5 DEF GatewayPhase, InService
<1>6. QED
      BY <1>1, <1>2, <1>3, <1>4, <1>5
      DEF DriverNext, OtherSteps, SetLine, WritePriority, WriteEnableWord,
          WriteThreshold, vars

\* The interrupt controller under disciplined software implements the
\* abstract level gateways.
THEOREM Refinement == DriverSpec => ImplementsGateways
<1>1. Init => Gateways!Init
  <2>1. ActiveSources \subseteq Slots
        BY PlicAssumption DEF Slots
  <2>2. QED
        BY <2>1 DEF Init, Gateways!Init, GatewayPhase, InService
<1>2. QED
      BY <1>1, RefinementStep, DriverInvariant, PTL
      DEF DriverSpec, ImplementsGateways, Gateways!Spec

=============================================================================

------------------------------ MODULE IC3Proofs ------------------------------
(***************************************************************************)
(* The frames of the IC3 class, for every circuit and every setting of the *)
(* options: they over-approximate the reachable states, never lose what    *)
(* they excluded, and prove the circuit safe when the answer is UNSAT.     *)
(*                                                                         *)
(* None of these is inductive alone.  The strengthening FrameInv adds the  *)
(* facts that the clause under construction is inductive relative to the   *)
(* frame it is built for, that its hypotheses contain it, and that every   *)
(* clause marked as subsumed is still covered.  These theorems come first.  *)
(*                                                                         *)
(* The second part is about the proof obligations: their paths lead to a   *)
(* bad step, learnt clauses exclude them, and what is printed as a         *)
(* counterexample is an execution.  With constraints the last of these     *)
(* takes full cubes (README, "Findings"): Exact says that there are none,  *)
(* or that the reductions are off.                                         *)
(*                                                                         *)
(* Then the answers: what a counterexample replays, and that the class     *)
(* implements ModelChecking.  Replay and Within are recursive functions:   *)
(* Recursion and Climb of NumberLemmas say what holds at each of their     *)
(* arguments.                                                              *)
(***************************************************************************)
EXTENDS IC3Props, NumberLemmas, SequenceTheorems

-----------------------------------------------------------------------------
(* Facts about the queue.                                                  *)

(* The obligation that removeMin takes is one of the lowest frame.         *)
LEMMA LeastType ==
    ASSUME TypeOK, ~ QEmpty
    PROVE  /\ MinLevel \in DOMAIN Q
           /\ Least \in Obligation
           /\ Cube(Least) \in Clause
<1>1. PICK f \in DOMAIN Q : \A g \in DOMAIN Q : f <= g
  BY LeastNat DEF TypeOK, QEmpty
<1>2. MinLevel \in DOMAIN Q
  BY <1>1 DEF MinLevel
<1>3. Q[MinLevel] \in Seq(Obligation) /\ Q[MinLevel] # <<>>
  BY <1>2 DEF TypeOK
<1>4. Least \in Obligation
  BY <1>3 DEF Least
<1>5. Least.path \in Seq(PathElement) /\ Least.path # <<>>
  BY <1>4 DEF Obligation
<1>6. Least.path[1] \in PathElement
  BY <1>5
<1> QED BY <1>2, <1>4, <1>6 DEF Cube, PathElement

(* insert keeps the queue a queue.                                         *)
LEMMA PushType ==
    ASSUME NEW q, DOMAIN q \subseteq Nat, q \in [DOMAIN q -> Seq(Obligation) \ {<<>>}],
           NEW x \in Obligation
    PROVE  /\ DOMAIN Push(q, x) \subseteq Nat
           /\ Push(q, x) \in [DOMAIN Push(q, x) -> Seq(Obligation) \ {<<>>}]
<1>1. x.frame \in Nat
  BY DEF Obligation
<1>2. DOMAIN Push(q, x) = DOMAIN q \cup {x.frame}
  BY DEF Push
<1>3. ASSUME NEW f \in DOMAIN q \cup {x.frame}
      PROVE  Push(q, x)[f] \in Seq(Obligation) \ {<<>>}
  <2>1. CASE f \in DOMAIN q /\ f = x.frame
    <3>1. q[f] \o <<x>> \in Seq(Obligation) /\ Len(q[f] \o <<x>>) > 0
      BY <2>1
    <3>2. Push(q, x)[f] = q[f] \o <<x>>
      BY <2>1 DEF Push
    <3> QED BY <3>1, <3>2
  <2>2. CASE f \in DOMAIN q /\ f # x.frame
    <3>1. Push(q, x)[f] = q[f] \o <<>>
      BY <2>2 DEF Push
    <3> QED BY <2>2, <3>1
  <2>3. CASE f \notin DOMAIN q
    <3>1. Push(q, x)[f] = <<>> \o <<x>>
      BY <2>3 DEF Push
    <3>2. <<>> \o <<x>> = <<x>>
      OBVIOUS
    <3> QED BY <3>1, <3>2
  <2> QED BY <2>1, <2>2, <2>3
<1> QED BY <1>1, <1>2, <1>3 DEF Push

(* removeMin keeps the queue a queue.                                      *)
LEMMA RemoveMinType ==
    ASSUME TypeOK, ~ QEmpty
    PROVE  /\ DOMAIN RemoveMin \subseteq Nat
           /\ RemoveMin \in [DOMAIN RemoveMin -> Seq(Obligation) \ {<<>>}]
<1>1. DOMAIN RemoveMin \subseteq DOMAIN Q
  BY DEF RemoveMin
<1>2. ASSUME NEW f \in DOMAIN RemoveMin
      PROVE  RemoveMin[f] \in Seq(Obligation) \ {<<>>}
  <2>1. f \in DOMAIN Q /\ (f # MinLevel \/ Len(Q[f]) > 1)
    BY DEF RemoveMin
  <2>2. Q[f] \in Seq(Obligation) /\ Q[f] # <<>>
    BY <2>1 DEF TypeOK
  <2>3. CASE f = MinLevel
    <3>1. RemoveMin[f] = SubSeq(Q[f], 1, Len(Q[f]) - 1)
      BY <2>3 DEF RemoveMin
    <3>2. Len(Q[f]) \in Nat /\ Len(Q[f]) > 1
      BY <2>1, <2>2, <2>3
    <3>3. /\ SubSeq(Q[f], 1, Len(Q[f]) - 1) \in Seq(Obligation)
          /\ Len(SubSeq(Q[f], 1, Len(Q[f]) - 1)) = Len(Q[f]) - 1
      BY <2>2, <3>2, SubSeqProperties
    <3>4. SubSeq(Q[f], 1, Len(Q[f]) - 1) # <<>>
      <4> DEFINE rest == SubSeq(Q[f], 1, Len(Q[f]) - 1)
      <4>1. Len(rest) > 0
        BY <3>2, <3>3
      <4> HIDE DEF rest
      <4>2. rest # <<>>
        BY <4>1
      <4> QED BY <4>2 DEF rest
    <3> QED BY <3>1, <3>3, <3>4
  <2>4. CASE f # MinLevel
    BY <2>2, <2>4 DEF RemoveMin
  <2> QED BY <2>3, <2>4
<1> QED BY <1>1, <1>2 DEF TypeOK, RemoveMin

-----------------------------------------------------------------------------
(* Type correctness.                                                       *)

(* Reducing a cube leaves a part of it.                                    *)
LEMMA ReductionsType ==
    ASSUME NEW cube, NEW i, NEW good, NEW t \in Reductions(cube, i, good)
    PROVE  t \subseteq cube
BY DEF Reductions

(* The cube of a state is a set of literals.                               *)
LEMMA CubeOfType ==
    ASSUME NEW q \in States(mgr), NEW L, L \subseteq mgr.latches
    PROVE  CubeOf(q, L) \in Clause
BY DEF CubeOf, States, Lits, Clause

(* Negation takes sets of literals to sets of literals.                    *)
LEMMA NegatedType ==
    ASSUME NEW c \in Clause
    PROVE  Negated(c) \in Clause
<1>1. ASSUME NEW l \in Lits(mgr) PROVE Neg(l) \in Lits(mgr)
  <2>1. l[1] \in mgr.latches /\ l[2] \in BOOLEAN
    BY DEF Lits
  <2>2. (~ l[2]) \in BOOLEAN
    BY <2>1
  <2> QED BY <2>1, <2>2 DEF Neg, Lits
<1> QED BY <1>1 DEF Negated, Clause

(* Marking only changes the flag.                                          *)
LEMMA MarkType ==
    ASSUME NEW F \in SUBSET Entry, NEW C
    PROVE  Mark(F, C) \in SUBSET Entry
BY DEF Mark, Entry

(* Sweeping only removes entries, among them all that are subsumed.        *)
LEMMA SweepType ==
    ASSUME NEW F, NEW again
    PROVE  /\ Sweep(F, again) \subseteq F
           /\ \A e \in Sweep(F, again) : ~ e.subsumed
BY DEF Sweep

(* A clause given a reset literal gains a literal of the obligation.       *)
LEMMA WithResetType ==
    ASSUME NEW c \in Clause, NEW cube \in Clause, NEW b \in WithReset(c, cube)
    PROVE  b \in Clause /\ c \subseteq b /\ b \subseteq c \cup Negated(cube)
BY NegatedType DEF WithReset, Clause

(* The variables have their types at first.                                *)
LEMMA TypeInit == Init => TypeOK
<1> SUFFICES ASSUME Init PROVE TypeOK
  OBVIOUS
<1>1. IsCircuit(mgr)
  BY CircuitAssumption DEF Init
<1>2. frames \in [0 .. depth -> SUBSET Entry]
  <2> DEFINE units == {[lits |-> {l}, subsumed |-> FALSE] :
                          l \in {k \in Lits(mgr) : SatisfiesReset(mgr, k)}}
  <2>1. units \in SUBSET Entry
    <3>1. ASSUME NEW l \in Lits(mgr) PROVE [lits |-> {l}, subsumed |-> FALSE] \in Entry
      BY DEF Entry, Clause
    <3> QED BY <3>1
  <2>2. depth = 1 /\ frames = [f \in 0 .. 1 |-> IF f = 0 THEN units ELSE {}]
    BY DEF Init
  <2> HIDE DEF units
  <2> QED BY <2>1, <2>2
<1>3. Q \in [DOMAIN Q -> Seq(Obligation) \ {<<>>}] /\ DOMAIN Q \subseteq Nat
  BY DEF Init
<1>4. gen \in [todo : Clause, hyps : SUBSET Clause, vacuous : BOOLEAN,
               start : Clause, round : Nat, min_frame : Nat]
  BY DEF Init, NoGen, Clause
<1> QED BY <1>1, <1>2, <1>3, <1>4 DEF Init, TypeOK, Clause

(* The domains depend on the circuit only.                                 *)
LEMMA DomainsStable ==
    ASSUME mgr' = mgr
    PROVE  Clause' = Clause /\ Entry' = Entry /\ Obligation' = Obligation
BY DEF Clause, Entry, Obligation, PathElement

(* Each action keeps the variables in their domains.                       *)
LEMMA TypePreImage ==
    ASSUME TypeOK, PreImageSat \/ PreImageUnsat
    PROVE  TypeOK'
<1>1. CASE PreImageSat
  <2>1. PICK p \in BadModels(depth) :
          LET base == CubeOf(p[1], IF opt.coi THEN mgr.property_coi ELSE mgr.latches)
          IN  \E pre \in Reductions(base, p[2], mgr.bad) :
                Q' = Push(Q, [frame |-> depth,
                              path  |-> <<[cube |-> pre, input |-> p[2]]>>])
    BY <1>1 DEF PreImageSat
  <2> DEFINE base == CubeOf(p[1], IF opt.coi THEN mgr.property_coi ELSE mgr.latches)
  <2>2. PICK pre \in Reductions(base, p[2], mgr.bad) :
          Q' = Push(Q, [frame |-> depth, path |-> <<[cube |-> pre, input |-> p[2]]>>])
    BY <2>1
  <2>3. p[1] \in States(mgr) /\ p[2] \in mgr.inputs
    BY DEF BadModels, TypeOK, IsCircuit, Steps
  <2>4. pre \in Clause
    <3>1. base \in Clause
      BY <2>3, CubeOfType DEF TypeOK, IsCircuit
    <3> QED BY <3>1, <2>2, ReductionsType DEF Clause
  <2>5. [frame |-> depth, path |-> <<[cube |-> pre, input |-> p[2]]>>] \in Obligation
    BY <2>3, <2>4 DEF Obligation, PathElement, TypeOK
  <2>6. DOMAIN Q' \subseteq Nat /\ Q' \in [DOMAIN Q' -> Seq(Obligation) \ {<<>>}]
    BY <2>2, <2>5, PushType DEF TypeOK
  <2> QED BY <1>1, <2>6, DomainsStable DEF PreImageSat, TypeOK
<1>2. CASE PreImageUnsat
  <2>1. frames' \in [0 .. depth + 1 -> SUBSET Entry] /\ depth + 1 \in Nat \ {0}
    BY <1>2 DEF PreImageUnsat, TypeOK
  <2>2. fr' \in 0 .. depth'
    BY <1>2, <2>1 DEF PreImageUnsat, TypeOK
  <2> QED BY <1>2, <2>1, <2>2, DomainsStable DEF PreImageUnsat, TypeOK
<1> QED BY <1>1, <1>2

(* The steps of block_cube keep them.                                      *)
LEMMA TypeBlockCube ==
    ASSUME TypeOK, FoundCex \/ AlreadyBlocked \/ Predecessor \/ Conflict \/ BlockCubeDone
    PROVE  TypeOK'
<1>1. CASE FoundCex
  <2>1. Least \in Obligation
    BY <1>1, LeastType DEF FoundCex
  <2>2. DOMAIN Q' \subseteq Nat /\ Q' \in [DOMAIN Q' -> Seq(Obligation) \ {<<>>}]
    BY <1>1, RemoveMinType DEF FoundCex
  <2> QED BY <1>1, <2>1, <2>2, DomainsStable DEF FoundCex, TypeOK
<1>2. CASE AlreadyBlocked
  <2>1. Least \in Obligation
    BY <1>2, LeastType DEF AlreadyBlocked
  <2>2. PICK blocked_at \in BlockedAt(Cube(Least), Least.frame) :
           Q' = Requeue(RemoveMin, Least, blocked_at)
    BY <1>2 DEF AlreadyBlocked
  <2>3. blocked_at \in Nat
    BY <2>1 DEF BlockedAt, BlockingFrames, Obligation, TypeOK
  <2>4. [Least EXCEPT !.frame = blocked_at + 1] \in Obligation
    BY <2>1, <2>3 DEF Obligation
  <2>5. DOMAIN RemoveMin \subseteq Nat /\ RemoveMin \in [DOMAIN RemoveMin -> Seq(Obligation) \ {<<>>}]
    BY <1>2, RemoveMinType DEF AlreadyBlocked
  <2>6. DOMAIN Q' \subseteq Nat /\ Q' \in [DOMAIN Q' -> Seq(Obligation) \ {<<>>}]
    BY <2>2, <2>4, <2>5, PushType DEF Requeue
  <2> QED BY <1>2, <2>6, DomainsStable DEF AlreadyBlocked, TypeOK
<1>3. CASE Predecessor
  <2> DEFINE cone == UNION {mgr.latch_coi[l[1]] : l \in Cube(Least)}
             base(p) == CubeOf(p[1], IF opt.coi THEN cone ELSE mgr.latches)
  <2>1. /\ Least \in Obligation
        /\ Cube(Least) \in Clause
    BY <1>3, LeastType DEF Predecessor
  <2>2. PICK p \in Models(Cube(Least), Least.frame - 1, {}) :
          \E t \in Reductions(base(p), p[2], StepsInto(Cube(Least))) :
             Q' = Push(Q, [frame |-> Least.frame - 1,
                           path  |-> <<[cube |-> t, input |-> p[2]]>> \o Least.path])
    BY <1>3 DEF Predecessor
  <2>3. p[1] \in States(mgr) /\ p[2] \in mgr.inputs
    BY DEF Models, TypeOK, IsCircuit, Steps
  <2>4. PICK t \in Reductions(base(p), p[2], StepsInto(Cube(Least))) :
             Q' = Push(Q, [frame |-> Least.frame - 1,
                           path  |-> <<[cube |-> t, input |-> p[2]]>> \o Least.path])
    BY <2>2
  <2>5. t \in Clause
    <3>1. cone \subseteq mgr.latches
      BY <2>1 DEF Clause, Lits, TypeOK, IsCircuit
    <3>2. base(p) \in Clause
      BY <2>3, <3>1, CubeOfType
    <3> QED BY <3>2, <2>4, ReductionsType DEF Clause
  <2>6. Least.frame - 1 \in Nat
    BY <1>3, <2>1 DEF Predecessor, Open, IsCex, Obligation
  <2>7. <<[cube |-> t, input |-> p[2]]>> \o Least.path \in Seq(PathElement) \ {<<>>}
    <3>1. <<[cube |-> t, input |-> p[2]]>> \in Seq(PathElement)
      BY <2>3, <2>5 DEF PathElement
    <3>2. Least.path \in Seq(PathElement)
      BY <2>1 DEF Obligation
    <3> QED BY <3>1, <3>2
  <2>8. [frame |-> Least.frame - 1,
         path  |-> <<[cube |-> t, input |-> p[2]]>> \o Least.path] \in Obligation
    BY <2>6, <2>7 DEF Obligation
  <2>9. DOMAIN Q' \subseteq Nat /\ Q' \in [DOMAIN Q' -> Seq(Obligation) \ {<<>>}]
    BY <2>4, <2>8, PushType DEF TypeOK
  <2> QED BY <1>3, <2>9, DomainsStable DEF Predecessor, TypeOK
<1>4. CASE Conflict
  <2>1. Least \in Obligation /\ Cube(Least) \in Clause
    BY <1>4, LeastType DEF Conflict
  <2>2. DOMAIN Q' \subseteq Nat /\ Q' \in [DOMAIN Q' -> Seq(Obligation) \ {<<>>}]
    BY <1>4, RemoveMinType DEF Conflict
  <2>3. PICK core \in SUBSET Cube(Least), g \in Least.frame - 1 .. depth + 1 :
          \E block \in WithReset(Negated(core), Cube(Least)) :
             /\ clause' = block
             /\ gen' = StartGen(block, 1, IF g + 1 < depth THEN g + 1 ELSE depth)
    BY <1>4 DEF Conflict
  <2>4. clause' \in Clause
    BY <2>1, <2>3, NegatedType, WithResetType DEF Clause
  <2>5. (IF g + 1 < depth THEN g + 1 ELSE depth) \in Nat
    BY <1>4, <2>1, <2>3 DEF Obligation, Conflict, Open, IsCex, TypeOK
  <2>6. gen' \in [todo : Clause, hyps : SUBSET Clause, vacuous : BOOLEAN,
                  start : Clause, round : Nat, min_frame : Nat]
    BY <2>3, <2>4, <2>5 DEF StartGen
  <2> QED BY <1>4, <2>1, <2>2, <2>4, <2>6, DomainsStable DEF Conflict, TypeOK
<1>5. CASE BlockCubeDone
  BY <1>5, DomainsStable DEF BlockCubeDone, TypeOK
<1> QED BY <1>1, <1>2, <1>3, <1>4, <1>5

(* The steps of generalize keep them.                                      *)
LEMMA TypeGeneralize ==
    ASSUME TypeOK, GeneralizeSkip \/ GeneralizeKeep \/ GeneralizeDrop \/ GeneralizeRound
    PROVE  TypeOK'
<1> DEFINE Gen == [todo : Clause, hyps : SUBSET Clause, vacuous : BOOLEAN,
                   start : Clause, round : Nat, min_frame : Nat]
<1>0. gen \in Gen
  BY DEF TypeOK
<1>1. CASE GeneralizeSkip
  <2>1. PICK l \in gen.todo : gen' = [gen EXCEPT !.todo = @ \ {l}]
    BY <1>1 DEF GeneralizeSkip
  <2>2. gen' \in Gen
    BY <1>0, <2>1 DEF Clause
  <2> QED BY <1>1, <2>2, DomainsStable DEF GeneralizeSkip, TypeOK
<1>2. CASE GeneralizeKeep
  <2>1. PICK l \in gen.todo : gen' = [gen EXCEPT !.todo = @ \ {l}, !.hyps = {}]
    BY <1>2 DEF GeneralizeKeep
  <2>2. gen' \in Gen
    BY <1>0, <2>1 DEF Clause
  <2> QED BY <1>2, <2>2, DomainsStable DEF GeneralizeKeep, TypeOK
<1>3. CASE GeneralizeDrop
  <2>1. PICK l \in gen.todo :
          /\ \E core \in SUBSET (clause \ {l}) :
               clause' \in WithReset(core, Negated(clause \ {l}))
          /\ gen' = [gen EXCEPT !.todo = @ \cap clause',
                                !.hyps = Hypotheses(l),
                                !.vacuous = @ \/ (f0 > 0 /\ clause' # clause \ {l})]
    BY <1>3 DEF GeneralizeDrop
  <2>2. clause' \in Clause
    BY <2>1, NegatedType, WithResetType DEF Clause, TypeOK
  <2>3. Hypotheses(l) \in SUBSET Clause
    BY <1>0 DEF Hypotheses, Clause, TypeOK
  <2>4. (gen.vacuous \/ (f0 > 0 /\ clause' # clause \ {l})) \in BOOLEAN
    BY <1>0
  <2>5. gen' \in Gen
    <3>1. gen.todo \cap clause' \in Clause
      BY <2>2 DEF Clause
    <3> QED BY <1>0, <2>1, <2>3, <2>4, <3>1
  <2> QED BY <1>3, <2>2, <2>5, DomainsStable DEF GeneralizeDrop, TypeOK
<1>4. CASE GeneralizeRound
  <2>1. gen' \in Gen
    <3>1. gen' = gen \/ gen' = StartGen(clause, gen.round + 1, gen.min_frame)
      BY <1>4 DEF GeneralizeRound
    <3>2. CASE gen' = gen
      BY <1>0, <3>2
    <3>3. CASE gen' = StartGen(clause, gen.round + 1, gen.min_frame)
      <4>1. gen.round + 1 \in Nat /\ gen.min_frame \in Nat
        BY <1>0
      <4>2. clause \in Clause
        BY DEF TypeOK
      <4>3. StartGen(clause, gen.round + 1, gen.min_frame) \in Gen
        BY <4>1, <4>2 DEF StartGen, Clause
      <4> QED BY <3>3, <4>3
    <3> QED BY <3>1, <3>2, <3>3
  <2>2. pc' \in {"generalize", "add"}
    BY <1>4 DEF GeneralizeRound
  <2> QED BY <1>4, <2>1, <2>2, DomainsStable DEF GeneralizeRound, TypeOK
<1> QED BY <1>1, <1>2, <1>3, <1>4

(* Adding the clause keeps them.                                           *)
LEMMA TypeAddNewClause ==
    ASSUME TypeOK, AddNewClause, s # NoObligation
    PROVE  TypeOK'
<1>1. PICK max \in gen.min_frame .. depth :
         frames' = [frames EXCEPT ![max] =
                      (IF opt.early_subsumption THEN Mark(@, {clause}) ELSE @)
                      \cup {[lits |-> clause, subsumed |-> FALSE]}]
  BY DEF AddNewClause
<1>2. frames' \in [0 .. depth -> SUBSET Entry]
  <2>1. [lits |-> clause, subsumed |-> FALSE] \in Entry
    BY DEF Entry, TypeOK
  <2>2. max \in 0 .. depth
    BY DEF TypeOK
  <2>3. Mark(frames[max], {clause}) \in SUBSET Entry
    BY <2>2, MarkType DEF TypeOK
  <2> QED BY <1>1, <2>1, <2>2, <2>3 DEF TypeOK
<1>3. s \in Obligation
  BY DEF TypeOK
<1>4. [s EXCEPT !.frame = s.frame + 1] \in Obligation
  BY <1>3 DEF Obligation
<1>5. DOMAIN Q' \subseteq Nat /\ Q' \in [DOMAIN Q' -> Seq(Obligation) \ {<<>>}]
  BY <1>4, PushType DEF AddNewClause, Requeue, TypeOK
<1>6. gen' \in [todo : Clause, hyps : SUBSET Clause, vacuous : BOOLEAN,
                start : Clause, round : Nat, min_frame : Nat] /\ clause' \in Clause
  BY DEF AddNewClause, NoGen, Clause
<1> QED BY <1>2, <1>5, <1>6, DomainsStable DEF AddNewClause, TypeOK

(* The steps of propagate keep them.                                       *)
LEMMA TypePropagate ==
    ASSUME TypeOK, PropagateFrame \/ FoundInvariant \/ PropagateDone
    PROVE  TypeOK'
<1>1. CASE PropagateFrame
  <2> DEFINE swept  == Sweep(frames[fr], opt.subsume_during)
             pushed == {e \in swept : Models(Negated(e.lits), fr, {}) = {}}
             next   == IF opt.subsume THEN Mark(frames[fr+1], {e.lits : e \in pushed})
                                      ELSE frames[fr+1]
  <2>1. /\ frames' = [frames EXCEPT ![fr] = swept \ pushed, ![fr+1] = next \cup pushed]
        /\ fr' = IF swept = pushed THEN fr ELSE fr + 1
    BY <1>1 DEF PropagateFrame
  <2>2. fr \in 0 .. depth /\ fr + 1 \in 0 .. depth
    BY <1>1 DEF PropagateFrame, TypeOK
  <2>3. swept \in SUBSET Entry
    BY <2>2, SweepType DEF TypeOK
  <2>4. next \in SUBSET Entry
    BY <2>2, MarkType DEF TypeOK
  <2>5. fr' \in 0 .. depth
    BY <2>1, <2>2
  <2> HIDE DEF swept, next
  <2>6. frames' \in [0 .. depth -> SUBSET Entry]
    BY <2>1, <2>2, <2>3, <2>4 DEF TypeOK
  <2> QED BY <1>1, <2>5, <2>6, DomainsStable DEF PropagateFrame, TypeOK
<1>2. CASE FoundInvariant
  <2>1. frames' \in [0 .. depth -> SUBSET Entry]
    BY <1>2 DEF FoundInvariant, InvariantFrames, TypeOK
  <2> QED BY <1>2, <2>1, DomainsStable DEF FoundInvariant, TypeOK
<1>3. CASE PropagateDone
  <2>1. frames' \in [0 .. depth -> SUBSET Entry]
    BY <1>3, SweepType DEF PropagateDone, TypeOK
  <2> QED BY <1>3, <2>1, DomainsStable DEF PropagateDone, TypeOK
<1> QED BY <1>1, <1>2, <1>3

(* addNewClause runs for an obligation that block_cube holds.              *)
ObligationHeld == pc \in {"generalize", "add"} => s # NoObligation

(* Every step keeps the types, and the obligation while it is needed.      *)
LEMMA TypeStep ==
    ASSUME TypeOK, ObligationHeld, [Next]_vars
    PROVE  TypeOK' /\ ObligationHeld'
<1>1. CASE UNCHANGED vars
  BY <1>1, DomainsStable DEF vars, TypeOK, ObligationHeld
<1>2. CASE PreImageSat \/ PreImageUnsat
  BY <1>2, TypePreImage DEF PreImageSat, PreImageUnsat, ObligationHeld
<1>3. CASE FoundCex \/ AlreadyBlocked \/ Predecessor \/ Conflict \/ BlockCubeDone
  <2>1. TypeOK'
    BY <1>3, TypeBlockCube
  <2>2. CASE Conflict
    <3>1. s' = Least /\ Least \in Obligation
      BY <2>2, LeastType DEF Conflict
    <3>2. NoObligation \notin Obligation
      BY DEF NoObligation, Obligation
    <3> QED BY <2>1, <3>1, <3>2 DEF ObligationHeld
  <2>3. CASE FoundCex \/ AlreadyBlocked \/ Predecessor \/ BlockCubeDone
    BY <2>1, <2>3 DEF FoundCex, AlreadyBlocked, Predecessor, BlockCubeDone, ObligationHeld
  <2> QED BY <1>3, <2>2, <2>3
<1>4. CASE GeneralizeSkip \/ GeneralizeKeep \/ GeneralizeDrop \/ GeneralizeRound
  BY <1>4, TypeGeneralize
     DEF GeneralizeSkip, GeneralizeKeep, GeneralizeDrop, GeneralizeRound, ObligationHeld
<1>5. CASE AddNewClause
  BY <1>5, TypeAddNewClause DEF AddNewClause, ObligationHeld
<1>6. CASE PropagateFrame \/ FoundInvariant \/ PropagateDone
  BY <1>6, TypePropagate DEF PropagateFrame, FoundInvariant, PropagateDone, ObligationHeld
<1> QED BY <1>1, <1>2, <1>3, <1>4, <1>5, <1>6 DEF Next

(* Type correctness: the variables of IC3 always have values of the types  *)
(* that class IC3 declares them with.                                      *)
THEOREM TypeCorrect == Spec => []TypeOK
<1>1. Init => TypeOK /\ ObligationHeld
  BY TypeInit DEF Init, ObligationHeld
<1>2. TypeOK /\ ObligationHeld /\ [Next]_vars => TypeOK' /\ ObligationHeld'
  BY TypeStep
<1> QED BY <1>1, <1>2, PTL DEF Spec

-----------------------------------------------------------------------------
(* The frames.                                                             *)

Building == pc \in {"generalize", "add"}

\* What the hypotheses say follows from the clause; it has a frame to go to.
GenOK ==
    Building => /\ gen.min_frame \in 1 .. depth
                /\ \A h \in gen.hyps : clause \subseteq h

FrameInv ==
    /\ TypeOK
    /\ ObligationHeld
    /\ FramesInitial
    /\ FramesStep
    /\ EarlierFramesGood
    /\ ClauseInductive
    /\ GenOK
    /\ SubsumedCovered
    /\ pc = "propagate" => depth > 1
    /\ UnsatSound

-----------------------------------------------------------------------------
(* Cubes, clauses and sets of clauses.                                     *)

\* D says at least as much as C, clause by clause.
Covers(D, C) == \A c \in C : \E d \in D : d \subseteq c

(* A stronger set of clauses has fewer models.                             *)
LEMMA CoversSatisfies ==
    ASSUME NEW C, NEW D, Covers(D, C), NEW q, Satisfies(q, D)
    PROVE  Satisfies(q, C)
BY DEF Covers, Satisfies, InClause

(* A literal or its negation holds.                                        *)
LEMMA NegTrue ==
    ASSUME TypeOK, NEW q \in States(mgr), NEW l \in Lits(mgr)
    PROVE  TrueIn(q, Neg(l)) <=> ~ TrueIn(q, l)
<1>1. l[1] \in mgr.latches /\ l[2] \in BOOLEAN
  BY DEF Lits
<1>2. q[l[1]] \in BOOLEAN
  BY <1>1 DEF States
<1>3. Neg(l)[1] = l[1] /\ Neg(l)[2] = ~ l[2]
  BY DEF Neg
<1> QED BY <1>1, <1>2, <1>3, Zenon DEF TrueIn

(* A state is in the cube that a clause excludes, or in the clause.        *)
LEMMA CubeOrClause ==
    ASSUME TypeOK, NEW q \in States(mgr), NEW c \in Clause
    PROVE  InCube(q, Negated(c)) <=> ~ InClause(q, c)
<1>1. \A l \in c : TrueIn(q, Neg(l)) <=> ~ TrueIn(q, l)
  BY NegTrue DEF Clause
<1>2. InCube(q, Negated(c)) <=> \A l \in c : TrueIn(q, Neg(l))
  BY DEF InCube, Negated
<1> QED BY <1>1, <1>2, Zenon DEF InClause

(* Negating twice gives the same set.                                      *)
LEMMA NegatedTwice ==
    ASSUME TypeOK, NEW c \in Clause
    PROVE  Negated(Negated(c)) = c
<1>1. ASSUME NEW l \in Lits(mgr) PROVE Neg(Neg(l)) = l
  <2>1. PICK x \in mgr.latches, v \in BOOLEAN : l = <<x, v>>
    BY DEF Lits
  <2>2. (~ ~ v) = v
    BY Zenon
  <2> QED BY <2>1, <2>2 DEF Neg
<1>2. Negated(Negated(c)) = {Neg(Neg(l)) : l \in c}
  BY DEF Negated
<1> QED BY <1>1, <1>2 DEF Clause

(* A larger clause is excluded by a larger cube.                           *)
LEMMA NegatedMonotone ==
    ASSUME NEW c, NEW d, c \subseteq d
    PROVE  Negated(c) \subseteq Negated(d)
BY DEF Negated

(* What WithReset makes of a clause holds in the reset states.             *)
LEMMA WithResetInitial ==
    ASSUME TypeOK, NEW c \in Clause, NEW cube \in Clause, NEW b \in WithReset(c, cube),
           NEW q \in Initial(mgr)
    PROVE  InClause(q, b)
<1>1. PICK l \in b : SatisfiesReset(mgr, l)
  <2>1. CASE ConflictsWithReset(mgr, c)
    BY <2>1 DEF WithReset
  <2>2. CASE ~ ConflictsWithReset(mgr, c)
    BY <2>2 DEF WithReset, ConflictsWithReset
  <2> QED BY <2>1, <2>2
<1>2. b \in Clause
  BY WithResetType
<1>3. l[1] \in mgr.latches
  BY <1>2 DEF Clause, Lits
<1>4. q[l[1]] \in mgr.resets[l[1]]
  BY <1>3 DEF Initial
<1>5. q[l[1]] = l[2]
  BY <1>1, <1>4 DEF SatisfiesReset
<1> QED BY <1>5 DEF InClause, TrueIn

-----------------------------------------------------------------------------
(* The clauses that hold at a frame.                                       *)

(* The clauses at a frame are those of the frames from it on.              *)
LEMMA ClausesAtMember ==
    ASSUME NEW f, NEW c
    PROVE  c \in ClausesAt(f) <=> \E g \in f .. depth : \E e \in frames[g] : c = e.lits
BY DEF ClausesAt

(* The same after a step.                                                  *)
LEMMA ClausesAtMemberNext ==
    ASSUME NEW f, NEW c
    PROVE  c \in ClausesAt(f)' <=> \E g \in f .. depth' : \E e \in frames'[g] : c = e.lits
BY DEF ClausesAt

(* A later frame has fewer clauses.                                        *)
LEMMA ClausesAtMonotone ==
    ASSUME TypeOK, NEW f \in Int, NEW g \in Int, f <= g
    PROVE  ClausesAt(g) \subseteq ClausesAt(f)
<1>1. g .. depth \subseteq f .. depth
  BY DEF TypeOK
<1> QED BY <1>1 DEF ClausesAt

(* Clauses of a frame are clauses.                                         *)
LEMMA ClausesAtType ==
    ASSUME TypeOK, NEW f \in Nat
    PROVE  ClausesAt(f) \subseteq Clause
<1>1. ASSUME NEW g \in f .. depth, NEW e \in frames[g] PROVE e.lits \in Clause
  <2>1. g \in 0 .. depth
    OBVIOUS
  <2>2. frames[g] \in SUBSET Entry
    BY <2>1 DEF TypeOK
  <2> QED BY <2>2 DEF Entry
<1> QED BY <1>1 DEF ClausesAt

(* Visiting the clauses of a frame, removing those that another contains,  *)
(* leaves a cover of the ones that are not subsumed.                       *)
LEMMA SweepCovers ==
    ASSUME TypeOK, NEW F \in SUBSET Entry, NEW again \in BOOLEAN,
           NEW e \in F, ~ e.subsumed
    PROVE  \E d \in Sweep(F, again) : d.lits \subseteq e.lits
<1> DEFINE live  == {d \in F : ~ d.subsumed}
           below == {d.lits : d \in {x \in live : x.lits \subseteq e.lits}}
<1>1. e.lits \in below
  OBVIOUS
<1>2. \A X \in below : IsFiniteSet(X)
  <2>1. IsFiniteSet(Lits(mgr))
    <3>1. IsFiniteSet(BOOLEAN)
      <4>1. BOOLEAN = {TRUE} \cup {FALSE}
        OBVIOUS
      <4>2. IsFiniteSet({}) /\ IsFiniteSet({} \cup {TRUE})
        BY FS_EmptySet, FS_AddElement
      <4>3. IsFiniteSet(({} \cup {TRUE}) \cup {FALSE})
        BY <4>2, FS_AddElement
      <4>4. BOOLEAN = ({} \cup {TRUE}) \cup {FALSE}
        BY <4>1, Zenon
      <4> QED BY <4>3, <4>4, Zenon
    <3> QED BY <3>1, FS_Product DEF TypeOK, IsCircuit, Lits
  <2>2. \A X \in below : X \subseteq Lits(mgr)
    BY DEF Entry, Clause
  <2> QED BY <2>1, <2>2, FS_Subset
<1>3. PICK X \in below : \A Y \in below : Y \subseteq X => Y = X
  <2> HIDE DEF below
  <2> QED BY <1>1, <1>2, MinimalSet
<1>4. PICK d \in live : d.lits = X /\ d.lits \subseteq e.lits
  BY <1>3
<1>5. ASSUME NEW x \in live, x.lits \subseteq d.lits PROVE x.lits = d.lits
  <2>1. x.lits \in below
    BY <1>4, <1>5
  <2> QED BY <1>3, <1>4, <1>5, <2>1
<1>6. d \in Sweep(F, again)
  BY <1>4, <1>5 DEF Sweep
<1> QED BY <1>4, <1>6

(* Marking leaves the literals of every clause as they are.                *)
LEMMA MarkLits ==
    ASSUME NEW F \in SUBSET Entry, NEW C
    PROVE  /\ \A e \in F : \E m \in Mark(F, C) :
                 m.lits = e.lits /\ (m.subsumed => e.subsumed \/ Subsumes(C, e.lits))
           /\ \A m \in Mark(F, C) : \E e \in F :
                 m.lits = e.lits /\ (m.subsumed => e.subsumed \/ Subsumes(C, e.lits))
<1> DEFINE marked(e) == [e EXCEPT !.subsumed = @ \/ Subsumes(C, e.lits)]
<1>1. ASSUME NEW e \in F
      PROVE  /\ marked(e).lits = e.lits
             /\ marked(e).subsumed => e.subsumed \/ Subsumes(C, e.lits)
  BY DEF Entry
<1>2. Mark(F, C) = {marked(e) : e \in F}
  BY DEF Mark
<1> HIDE DEF marked
<1> QED BY <1>1, <1>2

-----------------------------------------------------------------------------
(* Steps that change the frames.                                           *)

\* Whatever a frame excluded before the step it excludes after it.
Strengthened == \A f \in 0 .. depth : Covers(ClausesAt(f)', ClausesAt(f))

(* A step that strengthens the frames keeps what is known of them, if the  *)
(* clauses it adds hold where they are added.                              *)
LEMMA FramesAfterStrengthening ==
    ASSUME FrameInv, mgr' = mgr, depth' = depth, Strengthened,
           \A q \in Initial(mgr) : \A c \in ClausesAt(0)' :
              c \in ClausesAt(0) \/ InClause(q, c),
           \A f \in 0 .. depth - 1 : \A p \in mgr.constr : \A c \in ClausesAt(f + 1)' :
              Satisfies(p[1], ClausesAt(f)') =>
                 c \in ClausesAt(f + 1) \/ InClause(mgr.next[p], c)
    PROVE  FramesInitial' /\ FramesStep' /\ EarlierFramesGood'
<1>1. FramesInitial'
  <2>1. ASSUME NEW q \in Initial(mgr), NEW c \in ClausesAt(0)' PROVE InClause(q, c)
    <3>1. \A d \in ClausesAt(0) : InClause(q, d)
      BY DEF FrameInv, FramesInitial, InFrame, Satisfies
    <3> QED BY <3>1
  <2> QED BY <2>1 DEF FramesInitial, InFrame, Satisfies
<1>2. FramesStep'
  <2> SUFFICES ASSUME NEW f \in 0 .. depth - 1, NEW p \in mgr.constr,
                      Satisfies(p[1], ClausesAt(f)'), NEW c \in ClausesAt(f + 1)'
               PROVE  InClause(mgr.next[p], c)
    BY DEF FramesStep, Satisfies
  <2>1. f \in 0 .. depth
    BY DEF FrameInv, TypeOK
  <2>2. Satisfies(p[1], ClausesAt(f))
    BY <2>1, CoversSatisfies DEF Strengthened
  <2>3. \A d \in ClausesAt(f + 1) : InClause(mgr.next[p], d)
    BY <2>2 DEF FrameInv, FramesStep, Satisfies
  <2> QED BY <2>3
<1>3. EarlierFramesGood'
  <2> SUFFICES ASSUME depth > 1, NEW p \in mgr.bad \cap mgr.constr,
                      Satisfies(p[1], ClausesAt(depth - 1)')
               PROVE  FALSE
    BY DEF EarlierFramesGood, BadModels
  <2>1. depth - 1 \in 0 .. depth
    BY DEF FrameInv, TypeOK
  <2>2. Satisfies(p[1], ClausesAt(depth - 1))
    BY <2>1, CoversSatisfies DEF Strengthened
  <2> QED BY <2>2 DEF FrameInv, EarlierFramesGood, BadModels
<1> QED BY <1>1, <1>2, <1>3

(* A step that leaves the frames alone keeps what is known of them.        *)
LEMMA FramesUnchanged ==
    ASSUME FrameInv, UNCHANGED <<mgr, depth, frames>>
    PROVE  /\ FramesInitial' /\ FramesStep' /\ EarlierFramesGood' /\ SubsumedCovered'
           /\ Strengthened
<1>1. ASSUME NEW f PROVE ClausesAt(f)' = ClausesAt(f)
  BY DEF ClausesAt
<1>2. FramesInitial'
  BY <1>1 DEF FrameInv, FramesInitial, InFrame
<1>3. FramesStep'
  BY <1>1 DEF FrameInv, FramesStep
<1>4. EarlierFramesGood'
  BY <1>1 DEF FrameInv, EarlierFramesGood, BadModels
<1>5. SubsumedCovered'
  BY DEF FrameInv, SubsumedCovered
<1>6. Strengthened
  BY <1>1 DEF Strengthened, Covers
<1> QED BY <1>2, <1>3, <1>4, <1>5, <1>6

(* frames.push(): the new last frame has no clauses, and the frame that    *)
(* was last has no bad state.                                              *)
LEMMA FramesPreImageUnsat ==
    ASSUME FrameInv, PreImageUnsat
    PROVE  /\ FramesInitial' /\ FramesStep' /\ EarlierFramesGood' /\ SubsumedCovered'
           /\ Strengthened
<1>1. /\ depth \in Nat \ {0} /\ depth' = depth + 1 /\ mgr' = mgr
      /\ frames' = [f \in 0 .. depth + 1 |-> IF f <= depth THEN frames[f] ELSE {}]
  BY DEF FrameInv, TypeOK, PreImageUnsat
<1>2. /\ \A g \in 0 .. depth : frames'[g] = frames[g]
      /\ frames'[depth + 1] = {}
  BY <1>1
<1>3. ASSUME NEW f \in Nat PROVE ClausesAt(f)' = ClausesAt(f)
  <2>1. ASSUME NEW c \in ClausesAt(f) PROVE c \in ClausesAt(f)'
    <3>1a. PICK g \in f .. depth : \E e \in frames[g] :
               c = e.lits
      BY <2>1, ClausesAtMember
    <3>1. PICK e \in frames[g] :
               c = e.lits
      BY <3>1a
    <3>2. g \in f .. depth' /\ e \in frames'[g]
      BY <1>1, <1>2, <3>1
    <3> QED BY <3>1, <3>2, ClausesAtMemberNext
  <2>2. ASSUME NEW c \in ClausesAt(f)' PROVE c \in ClausesAt(f)
    <3>1a. PICK g \in f .. depth' : \E e \in frames'[g] :
               c = e.lits
      BY <2>2, ClausesAtMemberNext
    <3>1. PICK e \in frames'[g] :
               c = e.lits
      BY <3>1a
    <3>2. g \in f .. depth /\ e \in frames[g]
      BY <1>1, <1>2, <3>1
    <3> QED BY <3>1, <3>2, ClausesAtMember
  <2> QED BY <2>1, <2>2
<1>4. FramesInitial'
  BY <1>1, <1>3 DEF FrameInv, FramesInitial, InFrame
<1>5. FramesStep'
  <2> SUFFICES ASSUME NEW f \in 0 .. depth, NEW p \in mgr.constr,
                      Satisfies(p[1], ClausesAt(f))
               PROVE  Satisfies(mgr.next[p], ClausesAt(f + 1))
    BY <1>1, <1>3 DEF FramesStep
  <2>1. CASE f \in 0 .. depth - 1
    BY <2>1 DEF FrameInv, FramesStep
  <2>2. CASE f = depth
    <3>1. ClausesAt(depth + 1) = {}
      BY <1>1 DEF ClausesAt
    <3> QED BY <2>2, <3>1 DEF Satisfies
  <2> QED BY <1>1, <2>1, <2>2
<1>6. EarlierFramesGood'
  <2>1. BadModels(depth) = {}
    BY DEF PreImageUnsat
  <2>2. depth' - 1 = depth
    BY <1>1
  <2> QED BY <1>1, <1>3, <2>1, <2>2 DEF EarlierFramesGood, BadModels
<1>7. SubsumedCovered'
  <2> SUFFICES ASSUME NEW f \in 0 .. depth', NEW e \in frames'[f], e.subsumed
               PROVE  \E g \in f .. depth' : \E d \in frames'[g] :
                         ~ d.subsumed /\ d.lits \subseteq e.lits /\ d.lits # e.lits
    BY DEF SubsumedCovered
  <2>1. f \in 0 .. depth /\ e \in frames[f]
    BY <1>1, <1>2
  <2>2a. PICK g \in f .. depth : \E d \in frames[g] :
             ~ d.subsumed /\ d.lits \subseteq e.lits /\ d.lits # e.lits
    BY <2>1 DEF FrameInv, SubsumedCovered
  <2>2. PICK d \in frames[g] :
             ~ d.subsumed /\ d.lits \subseteq e.lits /\ d.lits # e.lits
    BY <2>2a
  <2>3. g \in f .. depth' /\ d \in frames'[g]
    BY <1>1, <1>2, <2>1, <2>2
  <2> QED BY <2>2, <2>3
<1>8. Strengthened
  BY <1>1, <1>3 DEF Strengthened, Covers
<1> QED BY <1>4, <1>5, <1>6, <1>7, <1>8

(* A clause with no model in a query holds after every step the query asks *)
(* about.                                                                  *)
LEMMA NoModel ==
    ASSUME TypeOK, NEW c \in Clause, NEW f, NEW hyps, Models(Negated(c), f, hyps) = {},
           NEW p \in mgr.constr, Satisfies(p[1], ClausesAt(f)), Satisfies(p[1], hyps)
    PROVE  InClause(mgr.next[p], c)
<1>1. mgr.next[p] \in States(mgr)
  BY DEF TypeOK, IsCircuit
<1>2. Satisfies(p[1], ClausesAt(f) \cup hyps)
  BY DEF Satisfies
<1>3. ~ InCube(mgr.next[p], Negated(c))
  BY <1>2 DEF Models
<1> QED BY <1>1, <1>3, CubeOrClause

(* Adding a clause.                                                        *)
LEMMA FramesAddNewClause ==
    ASSUME FrameInv, AddNewClause
    PROVE  /\ FramesInitial' /\ FramesStep' /\ EarlierFramesGood' /\ SubsumedCovered'
           /\ Strengthened
<1> DEFINE new == [lits |-> clause, subsumed |-> FALSE]
           Marked(e) == clause \subseteq e.lits /\ clause # e.lits
<1>1. /\ depth \in Nat \ {0} /\ clause \in Clause /\ frames \in [0 .. depth -> SUBSET Entry]
      /\ TypeOK
  BY DEF FrameInv, TypeOK
<1>2. /\ mgr' = mgr /\ depth' = depth
      /\ gen.min_frame \in 1 .. depth
      /\ Models(Negated(clause), f0, {clause}) = {}
      /\ \A q \in Initial(mgr) : InClause(q, clause)
  BY DEF AddNewClause, FrameInv, GenOK, Building, ClauseInductive
<1>3. PICK max \in gen.min_frame .. depth :
        /\ \A k \in gen.min_frame .. max - 1 : Advances(k)
        /\ frames' = [frames EXCEPT ![max] =
                        (IF opt.early_subsumption THEN Mark(@, {clause}) ELSE @) \cup {new}]
  BY DEF AddNewClause
<1>4. max \in 1 .. depth
  BY <1>1, <1>2, <1>3
<1> DEFINE kept == IF opt.early_subsumption THEN Mark(frames[max], {clause}) ELSE frames[max]
<1>5. /\ frames'[max] = kept \cup {new}
      /\ \A g \in 0 .. depth : g # max => frames'[g] = frames[g]
  BY <1>1, <1>3, <1>4
<1>6. /\ \A e \in frames[max] : \E m \in kept :
            m.lits = e.lits /\ (m.subsumed => e.subsumed \/ Marked(e))
      /\ \A m \in kept : \E e \in frames[max] :
            m.lits = e.lits /\ (m.subsumed => e.subsumed \/ Marked(e))
  <2>1. frames[max] \in SUBSET Entry
    BY <1>1, <1>4
  <2>2. CASE opt.early_subsumption
    <3>1. /\ \A e \in frames[max] : \E m \in Mark(frames[max], {clause}) :
                m.lits = e.lits /\ (m.subsumed => e.subsumed \/ Subsumes({clause}, e.lits))
          /\ \A m \in Mark(frames[max], {clause}) : \E e \in frames[max] :
                m.lits = e.lits /\ (m.subsumed => e.subsumed \/ Subsumes({clause}, e.lits))
      BY <2>1, MarkLits
    <3>2. \A e : Subsumes({clause}, e.lits) <=> Marked(e)
      BY DEF Subsumes
    <3>3. kept = Mark(frames[max], {clause})
      BY <2>2
    <3> HIDE DEF Marked, kept
    <3> QED BY <3>1, <3>2, <3>3
  <2>3. CASE ~ opt.early_subsumption
    BY <2>3
  <2> QED BY <2>2, <2>3
<1> HIDE DEF kept
<1>7. ASSUME NEW g \in 0 .. depth, NEW e \in frames[g]
      PROVE  \E m \in frames'[g] : m.lits = e.lits /\ (m.subsumed => e.subsumed \/ (g = max /\ Marked(e)))
  <2>1. CASE g = max
    BY <1>5, <1>6, <2>1
  <2>2. CASE g # max
    BY <1>5, <2>2
  <2> QED BY <2>1, <2>2
<1>8. ASSUME NEW g \in 0 .. depth, NEW m \in frames'[g]
      PROVE  \/ g = max /\ m = new
             \/ \E e \in frames[g] : m.lits = e.lits /\ (m.subsumed => e.subsumed \/ (g = max /\ Marked(e)))
  <2>1. CASE g = max
    BY <1>5, <1>6, <2>1
  <2>2. CASE g # max
    BY <1>5, <2>2
  <2> QED BY <2>1, <2>2
<1> HIDE DEF Marked
<1>9. Strengthened
  <2> SUFFICES ASSUME NEW f \in 0 .. depth, NEW c \in ClausesAt(f)
               PROVE  c \in ClausesAt(f)'
    BY DEF Strengthened, Covers
  <2>1. PICK g \in f .. depth : \E e \in frames[g] : c = e.lits
    BY ClausesAtMember
  <2>2. g \in 0 .. depth
    OBVIOUS
  <2>3. \E m \in frames'[g] : c = m.lits
    BY <1>7, <2>1, <2>2
  <2> QED BY <1>2, <2>1, <2>3, ClausesAtMemberNext
<1>10. ASSUME NEW f \in 0 .. depth, NEW c \in ClausesAt(f)'
       PROVE  c \in ClausesAt(f) \/ (c = clause /\ f <= max)
  <2>1. PICK g \in f .. depth : \E m \in frames'[g] : c = m.lits
    BY <1>2, <1>10, ClausesAtMemberNext
  <2>2. g \in 0 .. depth
    OBVIOUS
  <2>3. (g = max /\ c = clause) \/ (\E e \in frames[g] : c = e.lits)
    BY <1>8, <2>1, <2>2
  <2> QED BY <2>1, <2>3, ClausesAtMember
<1>11. ASSUME NEW f \in 0 .. depth, f <= max PROVE clause \in ClausesAt(f)'
  <2>1. max \in f .. depth' /\ new \in frames'[max] /\ clause = new.lits
    BY <1>2, <1>4, <1>5, <1>11
  <2> HIDE DEF new
  <2> QED BY <2>1, ClausesAtMemberNext
<1>12. ASSUME NEW f \in 0 .. depth - 1, NEW p \in mgr.constr, Satisfies(p[1], ClausesAt(f)'),
              f + 1 <= max
       PROVE  InClause(mgr.next[p], clause)
  <2>1. f \in 0 .. depth /\ f <= max
    BY <1>1, <1>4, <1>12
  <2>2. Satisfies(p[1], {clause})
    BY <1>11, <1>12, <2>1 DEF Satisfies
  <2>3. Satisfies(p[1], ClausesAt(f))
    BY <1>9, <1>12, <2>1, CoversSatisfies DEF Strengthened
  <2>4. CASE f <= f0
    <3>1. Satisfies(p[1], ClausesAt(f0))
      <4>1. ClausesAt(f0) \subseteq ClausesAt(f)
        BY <1>1, <1>2, <2>1, <2>4, ClausesAtMonotone DEF f0
      <4> QED BY <2>3, <4>1 DEF Satisfies
    <3> QED BY <1>1, <1>2, <2>2, <3>1, NoModel
  <2>5. CASE ~ (f <= f0)
    <3>1. f \in gen.min_frame .. max - 1
      BY <1>2, <1>4, <1>12, <2>5 DEF f0
    <3>2. Models(Negated(clause), f, {clause}) = {}
      BY <1>3, <3>1 DEF Advances
    <3> QED BY <1>1, <2>2, <2>3, <3>2, NoModel
  <2> QED BY <2>4, <2>5
<1>13. FramesInitial' /\ FramesStep' /\ EarlierFramesGood'
  <2>1. ASSUME NEW q \in Initial(mgr), NEW c \in ClausesAt(0)'
        PROVE  c \in ClausesAt(0) \/ InClause(q, c)
    BY <1>1, <1>2, <1>10, <2>1
  <2>2. ASSUME NEW f \in 0 .. depth - 1, NEW p \in mgr.constr, NEW c \in ClausesAt(f + 1)',
               Satisfies(p[1], ClausesAt(f)')
        PROVE  c \in ClausesAt(f + 1) \/ InClause(mgr.next[p], c)
    <3>1. f + 1 \in 0 .. depth
      BY <1>1
    <3> QED BY <1>10, <1>12, <2>2, <3>1
  <2> QED BY <1>2, <1>9, <2>1, <2>2, FramesAfterStrengthening
<1>14. SubsumedCovered'
  <2> SUFFICES ASSUME NEW f \in 0 .. depth, NEW m \in frames'[f], m.subsumed
               PROVE  \E g \in f .. depth : \E d \in frames'[g] :
                         ~ d.subsumed /\ d.lits \subseteq m.lits /\ d.lits # m.lits
    BY <1>2 DEF SubsumedCovered
  <2> DEFINE Cover == \E g \in f .. depth : \E d \in frames'[g] :
                         ~ d.subsumed /\ d.lits \subseteq m.lits /\ d.lits # m.lits
  <2>1. ASSUME f <= max, clause \subseteq m.lits, clause # m.lits PROVE Cover
    <3>1. max \in f .. depth
      BY <1>1, <1>4, <2>1
    <3>2. new \in frames'[max] /\ ~ new.subsumed /\ new.lits = clause
      BY <1>5
    <3> HIDE DEF new
    <3> QED BY <2>1, <3>1, <3>2
  <2>2. PICK e \in frames[f] : m.lits = e.lits /\ (m.subsumed => e.subsumed \/ (f = max /\ Marked(e)))
    BY <1>8
  <2>3. CASE f = max /\ Marked(e)
    BY <1>4, <2>1, <2>2, <2>3 DEF Marked
  <2>4. CASE e.subsumed
    <3>1. PICK g \in f .. depth : \E d \in frames[g] :
             ~ d.subsumed /\ d.lits \subseteq e.lits /\ d.lits # e.lits
      BY <2>4 DEF FrameInv, SubsumedCovered
    <3>2. PICK d \in frames[g] : ~ d.subsumed /\ d.lits \subseteq e.lits /\ d.lits # e.lits
      BY <3>1
    <3>3. g \in 0 .. depth
      OBVIOUS
    <3>4. PICK n \in frames'[g] : n.lits = d.lits /\ (n.subsumed => d.subsumed \/ (g = max /\ Marked(d)))
      BY <1>7, <3>3
    <3>5. CASE n.subsumed
      <4>1. f <= max /\ clause \subseteq m.lits /\ clause # m.lits
        <5>1. g = max /\ clause \subseteq d.lits /\ clause # d.lits
          BY <3>2, <3>4, <3>5 DEF Marked
        <5>2. f <= max
          BY <5>1
        <5>3. d.lits \subseteq m.lits
          BY <2>2, <3>2
        <5> QED BY <5>1, <5>2, <5>3
      <4> QED BY <2>1, <4>1
    <3>6. CASE ~ n.subsumed
      BY <2>2, <3>2, <3>4, <3>6
    <3> QED BY <3>5, <3>6
  <2> QED BY <2>2, <2>3, <2>4
<1> QED BY <1>9, <1>13, <1>14

-----------------------------------------------------------------------------
(* Steps that release or move clauses.                                     *)

\* For every clause that is in force, one at least as strong is in force, at
\* least as high, after the step.
Survives ==
    \A g \in 0 .. depth : \A e \in frames[g] : ~ e.subsumed =>
       \E h \in g .. depth : \E d \in frames'[h] : ~ d.subsumed /\ d.lits \subseteq e.lits

(* Then the frames exclude what they excluded, the clauses marked as       *)
(* subsumed included.                                                      *)
LEMMA SurvivesStrengthens ==
    ASSUME FrameInv, depth' = depth, Survives
    PROVE  Strengthened
<1> SUFFICES ASSUME NEW f \in 0 .. depth, NEW c \in ClausesAt(f)
             PROVE  \E d \in ClausesAt(f)' : d \subseteq c
  BY DEF Strengthened, Covers
<1>1. depth \in Nat
  BY DEF FrameInv, TypeOK
<1>2. PICK g \in f .. depth : \E e \in frames[g] : c = e.lits
  BY ClausesAtMember
<1>3. PICK e \in frames[g] : c = e.lits
  BY <1>2
<1>4. PICK h \in g .. depth : \E d \in frames[h] : ~ d.subsumed /\ d.lits \subseteq c
  <2>1. g \in 0 .. depth /\ g \in g .. depth
    BY <1>1
  <2>2. CASE e.subsumed
    BY <1>3, <2>1, <2>2 DEF FrameInv, SubsumedCovered
  <2>3. CASE ~ e.subsumed
    BY <1>3, <2>1, <2>3
  <2> QED BY <2>2, <2>3
<1>5. PICK d \in frames[h] : ~ d.subsumed /\ d.lits \subseteq c
  BY <1>4
<1>6. h \in 0 .. depth
  BY <1>1
<1>7. PICK k \in h .. depth : \E n \in frames'[k] : ~ n.subsumed /\ n.lits \subseteq d.lits
  BY <1>5, <1>6 DEF Survives
<1>8. PICK n \in frames'[k] : n.lits \subseteq d.lits
  BY <1>7
<1>9. k \in f .. depth'
  BY <1>1
<1>10. n.lits \in ClausesAt(f)'
  BY <1>8, <1>9, ClausesAtMemberNext
<1> QED BY <1>5, <1>8, <1>10

(* And every clause marked as subsumed is still covered.                   *)
LEMMA SurvivesCovered ==
    ASSUME FrameInv, depth' = depth, Survives,
           \A f \in 0 .. depth : \A m \in frames'[f] : m.subsumed =>
              \/ \E e \in frames[f] : e.subsumed /\ e.lits = m.lits
              \/ \E h \in f .. depth : \E d \in frames'[h] :
                    ~ d.subsumed /\ d.lits \subseteq m.lits /\ d.lits # m.lits
    PROVE  SubsumedCovered'
<1> SUFFICES ASSUME NEW f \in 0 .. depth, NEW m \in frames'[f], m.subsumed,
                    NEW e \in frames[f], e.subsumed, e.lits = m.lits
             PROVE  \E h \in f .. depth : \E d \in frames'[h] :
                       ~ d.subsumed /\ d.lits \subseteq m.lits /\ d.lits # m.lits
  BY DEF SubsumedCovered
<1>1. depth \in Nat
  BY DEF FrameInv, TypeOK
<1>2. PICK g \in f .. depth : \E d \in frames[g] :
         ~ d.subsumed /\ d.lits \subseteq e.lits /\ d.lits # e.lits
  BY DEF FrameInv, SubsumedCovered
<1>3. PICK d \in frames[g] : ~ d.subsumed /\ d.lits \subseteq e.lits /\ d.lits # e.lits
  BY <1>2
<1>4. g \in 0 .. depth
  BY <1>1
<1>5. PICK h \in g .. depth : \E n \in frames'[h] : ~ n.subsumed /\ n.lits \subseteq d.lits
  BY <1>3, <1>4 DEF Survives
<1>6. PICK n \in frames'[h] : ~ n.subsumed /\ n.lits \subseteq d.lits
  BY <1>5
<1>7. h \in f .. depth
  BY <1>1
<1>8. n.lits \subseteq m.lits /\ n.lits # m.lits
  BY <1>3, <1>6
<1> QED BY <1>6, <1>7, <1>8

(* One frame of propagateClauses.                                          *)
LEMMA FramesPropagateFrame ==
    ASSUME FrameInv, PropagateFrame
    PROVE  /\ FramesInitial' /\ FramesStep' /\ EarlierFramesGood' /\ SubsumedCovered'
           /\ Strengthened
<1> DEFINE swept  == Sweep(frames[fr], opt.subsume_during)
           pushed == {e \in swept : Models(Negated(e.lits), fr, {}) = {}}
           lits   == {e.lits : e \in pushed}
           next   == IF opt.subsume THEN Mark(frames[fr+1], lits) ELSE frames[fr+1]
<1>1. /\ TypeOK /\ mgr' = mgr /\ depth' = depth /\ depth \in Nat \ {0}
      /\ fr \in 0 .. depth - 1 /\ frames \in [0 .. depth -> SUBSET Entry]
  BY DEF FrameInv, TypeOK, PropagateFrame
<1>2. frames' = [frames EXCEPT ![fr] = swept \ pushed, ![fr+1] = next \cup pushed]
  BY DEF PropagateFrame
<1>3. fr \in 0 .. depth /\ fr + 1 \in 0 .. depth /\ fr # fr + 1
  BY <1>1
<1>4. /\ frames[fr] \in SUBSET Entry /\ frames[fr+1] \in SUBSET Entry
      /\ swept \subseteq frames[fr] /\ \A e \in swept : ~ e.subsumed
      /\ \A e \in frames[fr] : ~ e.subsumed => \E d \in swept : d.lits \subseteq e.lits
  <2>1. frames[fr] \in SUBSET Entry /\ frames[fr+1] \in SUBSET Entry
    BY <1>1, <1>3
  <2>2. opt.subsume_during \in BOOLEAN
    BY <1>1, OptionsAssumption DEF TypeOK
  <2> QED BY <1>1, <2>1, <2>2, SweepType, SweepCovers
<1>5. /\ \A e \in frames[fr+1] : \E m \in next :
            m.lits = e.lits /\ (m.subsumed => e.subsumed \/ Subsumes(lits, e.lits))
      /\ \A m \in next : \E e \in frames[fr+1] :
            m.lits = e.lits /\ (m.subsumed => e.subsumed \/ Subsumes(lits, e.lits))
  <2> HIDE DEF lits
  <2>1. CASE opt.subsume
    BY <1>4, <2>1, MarkLits
  <2>2. CASE ~ opt.subsume
    BY <2>2
  <2> QED BY <2>1, <2>2
<1>6. \A c \in lits : \E d \in pushed : c = d.lits
  OBVIOUS
<1>7. pushed \subseteq swept
  OBVIOUS
<1>8. \A e \in pushed : Models(Negated(e.lits), fr, {}) = {}
  OBVIOUS
<1> HIDE DEF swept, pushed, lits, next
<1>9. /\ frames'[fr] = swept \ pushed /\ frames'[fr+1] = next \cup pushed
      /\ \A g \in 0 .. depth : g # fr /\ g # fr + 1 => frames'[g] = frames[g]
  BY <1>1, <1>2, <1>3
<1>10. Survives
  <2> SUFFICES ASSUME NEW g \in 0 .. depth, NEW e \in frames[g], ~ e.subsumed
               PROVE  \E h \in g .. depth : \E d \in frames'[h] :
                         ~ d.subsumed /\ d.lits \subseteq e.lits
    BY DEF Survives
  <2>1. CASE g = fr
    <3>1. PICK d \in swept : d.lits \subseteq e.lits /\ ~ d.subsumed
      BY <1>4, <2>1
    <3>2. CASE d \in pushed
      <4>1. fr + 1 \in g .. depth
        BY <1>1, <2>1
      <4> QED BY <1>9, <3>1, <3>2, <4>1
    <3>3. CASE d \notin pushed
      <4>1. fr \in g .. depth
        BY <1>1, <2>1
      <4> QED BY <1>9, <3>1, <3>3, <4>1
    <3> QED BY <3>2, <3>3
  <2>2. CASE g = fr + 1
    <3>1. fr + 1 \in g .. depth
      BY <1>1, <2>2
    <3>2. PICK m \in next : m.lits = e.lits /\ (m.subsumed => Subsumes(lits, e.lits))
      BY <1>5, <2>2
    <3>3. CASE m.subsumed
      <4>1. PICK d \in pushed : d.lits \subseteq e.lits
        BY <1>6, <3>2, <3>3 DEF Subsumes
      <4> QED BY <1>4, <1>7, <1>9, <3>1, <4>1
    <3>4. CASE ~ m.subsumed
      BY <1>9, <3>1, <3>2, <3>4
    <3> QED BY <3>3, <3>4
  <2>3. CASE g # fr /\ g # fr + 1
    <3>1. g \in g .. depth
      OBVIOUS
    <3> QED BY <1>9, <2>3, <3>1
  <2> QED BY <2>1, <2>2, <2>3
<1>11. Strengthened
  BY <1>1, <1>10, SurvivesStrengthens
<1>12. SubsumedCovered'
  <2> SUFFICES ASSUME NEW f \in 0 .. depth, NEW m \in frames'[f], m.subsumed
               PROVE  \/ \E e \in frames[f] : e.subsumed /\ e.lits = m.lits
                      \/ \E h \in f .. depth : \E d \in frames'[h] :
                            ~ d.subsumed /\ d.lits \subseteq m.lits /\ d.lits # m.lits
    BY <1>1, <1>10, SurvivesCovered
  <2>1. CASE f = fr
    BY <1>4, <1>9, <2>1
  <2>2. CASE f = fr + 1
    <3>1. m \in next
      BY <1>4, <1>7, <1>9, <2>2
    <3>2. PICK e \in frames[f] : m.lits = e.lits /\ (e.subsumed \/ Subsumes(lits, e.lits))
      BY <1>5, <2>2, <3>1
    <3>3. ASSUME Subsumes(lits, e.lits)
          PROVE  \E d \in frames'[f] : ~ d.subsumed /\ d.lits \subseteq m.lits /\ d.lits # m.lits
      <4>1. PICK d \in pushed : d.lits \subseteq e.lits /\ d.lits # e.lits
        BY <1>6, <3>3 DEF Subsumes
      <4> QED BY <1>4, <1>7, <1>9, <2>2, <3>2, <4>1
    <3>4. f \in f .. depth
      OBVIOUS
    <3> QED BY <3>2, <3>3, <3>4
  <2>3. CASE f # fr /\ f # fr + 1
    BY <1>9, <2>3
  <2> QED BY <2>1, <2>2, <2>3
<1>13. ASSUME NEW f \in 0 .. depth, NEW c \in ClausesAt(f)', c \notin ClausesAt(f)
       PROVE  f = fr + 1 /\ \E d \in pushed : c = d.lits
  <2>1. PICK g \in f .. depth : \E m \in frames'[g] : c = m.lits
    BY <1>1, <1>13, ClausesAtMemberNext
  <2>2. PICK m \in frames'[g] : c = m.lits
    BY <2>1
  <2>3. ASSUME NEW h \in f .. depth, NEW e \in frames[h] PROVE e.lits # c
    BY <1>13, <2>3, ClausesAtMember
  <2>4. g \in 0 .. depth
    OBVIOUS
  <2>5. CASE g = fr
    BY <1>4, <1>9, <2>2, <2>3, <2>5
  <2>6. CASE g = fr + 1
    <3>1. m \notin next
      BY <1>5, <2>2, <2>3, <2>6
    <3>2. m \in pushed
      BY <1>9, <2>6, <3>1
    <3>3. fr \notin f .. depth
      BY <1>4, <1>7, <2>2, <2>3, <3>2
    <3> QED BY <1>1, <2>2, <2>6, <3>2, <3>3
  <2>7. CASE g # fr /\ g # fr + 1
    BY <1>9, <2>2, <2>3, <2>4, <2>7
  <2> QED BY <2>5, <2>6, <2>7
<1>14. FramesInitial' /\ FramesStep' /\ EarlierFramesGood'
  <2>1. ASSUME NEW q \in Initial(mgr), NEW c \in ClausesAt(0)'
        PROVE  c \in ClausesAt(0) \/ InClause(q, c)
    BY <1>1, <1>13, <2>1
  <2>2. ASSUME NEW f \in 0 .. depth - 1, NEW p \in mgr.constr, NEW c \in ClausesAt(f + 1)',
               Satisfies(p[1], ClausesAt(f)'), c \notin ClausesAt(f + 1)
        PROVE  InClause(mgr.next[p], c)
    <3>1. f \in 0 .. depth /\ f + 1 \in 0 .. depth
      BY <1>1
    <3>2. PICK d \in pushed : f = fr /\ c = d.lits
      BY <1>1, <1>13, <2>2, <3>1
    <3>3. Satisfies(p[1], ClausesAt(fr))
      BY <1>11, <2>2, <3>1, <3>2, CoversSatisfies DEF Strengthened
    <3>4. d.lits \in Clause
      BY <1>4, <1>7 DEF Entry
    <3>5. Satisfies(p[1], {})
      BY DEF Satisfies
    <3> QED BY <1>1, <1>8, <3>2, <3>3, <3>4, <3>5, NoModel
  <2> QED BY <1>1, <1>11, <2>1, <2>2, FramesAfterStrengthening
<1> QED BY <1>11, <1>12, <1>14

(* A frame without clauses of its own, below the last one, is an inductive *)
(* invariant that excludes the bad states.                                 *)
LEMMA EmptyFrameSafe ==
    ASSUME FrameInv, NEW f \in 0 .. depth - 1, frames[f] = {}, depth > 1
    PROVE  /\ Safe(mgr)
           /\ \A p \in mgr.constr :
                 Satisfies(p[1], ClausesAt(f)) => Satisfies(mgr.next[p], ClausesAt(f))
<1> DEFINE X == {q \in States(mgr) : InFrame(q, f)}
<1>1. TypeOK /\ depth \in Nat /\ f \in Int
  BY DEF FrameInv, TypeOK
<1>2. ClausesAt(f) \subseteq ClausesAt(f + 1)
  <2> SUFFICES ASSUME NEW c \in ClausesAt(f) PROVE c \in ClausesAt(f + 1)
    OBVIOUS
  <2>1. PICK g \in f .. depth : \E e \in frames[g] : c = e.lits
    BY ClausesAtMember
  <2>2. g \in f + 1 .. depth
    BY <1>1, <2>1
  <2> QED BY <2>1, <2>2, ClausesAtMember
<1>3. ASSUME NEW p \in mgr.constr, Satisfies(p[1], ClausesAt(f))
      PROVE  Satisfies(mgr.next[p], ClausesAt(f))
  <2>1. Satisfies(mgr.next[p], ClausesAt(f + 1))
    BY <1>3 DEF FrameInv, FramesStep
  <2> QED BY <1>2, <2>1 DEF Satisfies
<1>4. Initial(mgr) \subseteq X
  <2>1. ClausesAt(f) \subseteq ClausesAt(0)
    BY <1>1, ClausesAtMonotone
  <2> QED BY <2>1 DEF FrameInv, FramesInitial, InFrame, Satisfies, Initial
<1>5. Closed(mgr, X)
  BY <1>1, <1>3 DEF Closed, InFrame, TypeOK, IsCircuit
<1>6. Safe(mgr)
  <2> SUFFICES ASSUME NEW p \in mgr.bad \cap mgr.constr, p[1] \in Reachable(mgr) PROVE FALSE
    BY DEF Safe
  <2>1. X \in SUBSET States(mgr)
    OBVIOUS
  <2> HIDE DEF X
  <2>2. p[1] \in X
    BY <1>4, <1>5, <2>1 DEF Reachable
  <2>3. Satisfies(p[1], ClausesAt(f))
    BY <2>2 DEF X, InFrame
  <2>4. ClausesAt(depth - 1) \subseteq ClausesAt(f)
    BY <1>1, ClausesAtMonotone
  <2>5. p \in BadModels(depth - 1)
    BY <2>3, <2>4 DEF BadModels, Satisfies
  <2> QED BY <2>5 DEF FrameInv, EarlierFramesGood
<1> QED BY <1>3, <1>6

(* The end of propagateClauses, when the invariant is found.               *)
LEMMA FramesFoundInvariant ==
    ASSUME FrameInv, FoundInvariant
    PROVE  /\ FramesInitial' /\ FramesStep' /\ EarlierFramesGood' /\ SubsumedCovered'
           /\ Strengthened
           /\ Safe(mgr)
<1>0. PICK k : k = fr
  OBVIOUS
<1> DEFINE moved == {e \in UNION {frames[g] : g \in k .. depth - 1} : ~ e.subsumed}
<1>1. /\ mgr' = mgr /\ depth' = depth /\ depth \in Nat \ {0} /\ depth > 1
      /\ k \in 0 .. depth - 1 /\ frames[k] = {}
      /\ frames' = InvariantFrames(k)
  BY <1>0 DEF FrameInv, TypeOK, FoundInvariant
<1>2. /\ \A g \in 0 .. k - 1 : frames'[g] = frames[g]
      /\ \A g \in k .. depth - 1 : frames'[g] = {}
      /\ frames'[depth] = frames[depth] \cup moved
  BY <1>1 DEF InvariantFrames
<1>3. /\ Safe(mgr)
      /\ \A p \in mgr.constr :
            Satisfies(p[1], ClausesAt(k)) => Satisfies(mgr.next[p], ClausesAt(k))
  BY <1>0, <1>1, EmptyFrameSafe
<1>4. Survives
  <2> SUFFICES ASSUME NEW g \in 0 .. depth, NEW e \in frames[g], ~ e.subsumed
               PROVE  \E h \in g .. depth : \E d \in frames'[h] :
                         ~ d.subsumed /\ d.lits \subseteq e.lits
    BY DEF Survives
  <2>1. CASE g \in 0 .. k - 1
    BY <1>2, <2>1
  <2>2. CASE g \in k .. depth - 1
    <3>1. e \in moved
      BY <2>2
    <3> QED BY <1>1, <1>2, <3>1
  <2>3. CASE g = depth
    BY <1>1, <1>2, <2>3
  <2> QED BY <1>1, <2>1, <2>2, <2>3
<1>5. Strengthened
  BY <1>1, <1>4, SurvivesStrengthens
<1>6. SubsumedCovered'
  <2> SUFFICES ASSUME NEW f \in 0 .. depth, NEW m \in frames'[f], m.subsumed
               PROVE  \E e \in frames[f] : e.subsumed /\ e.lits = m.lits
    BY <1>1, <1>4, SurvivesCovered
  <2>1. m \notin moved
    OBVIOUS
  <2>2. CASE f \in 0 .. k - 1
    BY <1>2, <2>2
  <2>3. CASE f \in k .. depth - 1
    BY <1>2, <2>3
  <2>4. CASE f = depth
    BY <1>2, <2>1, <2>4
  <2> QED BY <1>1, <2>2, <2>3, <2>4
<1>7. ASSUME NEW f \in 0 .. depth, NEW c \in ClausesAt(f)', c \notin ClausesAt(f)
      PROVE  f > k /\ c \in ClausesAt(k)
  <2>1. PICK g \in f .. depth : \E m \in frames'[g] : c = m.lits
    BY <1>1, <1>7, ClausesAtMemberNext
  <2>2. PICK m \in frames'[g] : c = m.lits
    BY <2>1
  <2>3. m \notin frames[g]
    BY <1>7, <2>2, ClausesAtMember
  <2>4. g = depth /\ m \in moved
    BY <1>1, <1>2, <2>2, <2>3
  <2>5. PICK h \in k .. depth - 1 : m \in frames[h]
    BY <2>4
  <2>6a. h \in k .. depth
    BY <1>1
  <2>6. c \in ClausesAt(k)
    BY <2>2, <2>5, <2>6a, ClausesAtMember
  <2>7. h \notin f .. depth
    BY <1>7, <2>2, <2>5, ClausesAtMember
  <2> QED BY <1>1, <2>6, <2>7
<1>8. ASSUME NEW f \in k .. depth, NEW q, Satisfies(q, ClausesAt(f)')
      PROVE  Satisfies(q, ClausesAt(k))
  <2>1. ASSUME NEW c \in ClausesAt(k)' PROVE c \in ClausesAt(f)'
    <3>1. PICK g \in k .. depth : \E m \in frames'[g] : c = m.lits
      BY <1>1, <2>1, ClausesAtMemberNext
    <3>2. g = depth
      BY <1>1, <1>2, <3>1
    <3>3. g \in f .. depth'
      BY <1>1, <3>2
    <3> QED BY <3>1, <3>3, ClausesAtMemberNext
  <2>2. Satisfies(q, ClausesAt(k)')
    BY <1>8, <2>1 DEF Satisfies
  <2>3. k \in 0 .. depth
    BY <1>1
  <2> QED BY <1>5, <2>2, <2>3, CoversSatisfies DEF Strengthened
<1>9. FramesInitial' /\ FramesStep' /\ EarlierFramesGood'
  <2>1. ASSUME NEW q \in Initial(mgr), NEW c \in ClausesAt(0)'
        PROVE  c \in ClausesAt(0) \/ InClause(q, c)
    BY <1>1, <1>7, <2>1
  <2>2. ASSUME NEW f \in 0 .. depth - 1, NEW p \in mgr.constr, NEW c \in ClausesAt(f + 1)',
               Satisfies(p[1], ClausesAt(f)'), c \notin ClausesAt(f + 1)
        PROVE  InClause(mgr.next[p], c)
    <3>1. f + 1 \in 0 .. depth
      BY <1>1
    <3>2. f + 1 > k /\ c \in ClausesAt(k)
      BY <1>7, <2>2, <3>1
    <3>3. f \in k .. depth
      BY <1>1, <3>2
    <3>4. Satisfies(mgr.next[p], ClausesAt(k))
      BY <1>3, <1>8, <2>2, <3>3
    <3> QED BY <3>2, <3>4 DEF Satisfies
  <2> QED BY <1>1, <1>5, <2>1, <2>2, FramesAfterStrengthening
<1> QED BY <1>3, <1>5, <1>6, <1>9

(* The end of propagateClauses otherwise.                                  *)
LEMMA FramesPropagateDone ==
    ASSUME FrameInv, PropagateDone
    PROVE  /\ FramesInitial' /\ FramesStep' /\ EarlierFramesGood' /\ SubsumedCovered'
           /\ Strengthened
<1>1. /\ TypeOK /\ mgr' = mgr /\ depth' = depth /\ depth \in Nat \ {0}
      /\ frames \in [0 .. depth -> SUBSET Entry]
  BY DEF FrameInv, TypeOK, PropagateDone
<1>2. CASE frames' = frames
  BY <1>1, <1>2, FramesUnchanged
<1>3. CASE frames' = [frames EXCEPT ![depth] = Sweep(@, opt.subsume_last)]
  <2> DEFINE swept == Sweep(frames[depth], opt.subsume_last)
  <2>1. /\ frames'[depth] = swept
        /\ \A g \in 0 .. depth : g # depth => frames'[g] = frames[g]
    BY <1>1, <1>3
  <2>2. /\ swept \subseteq frames[depth] /\ \A e \in swept : ~ e.subsumed
        /\ \A e \in frames[depth] : ~ e.subsumed => \E d \in swept : d.lits \subseteq e.lits
    <3>1. frames[depth] \in SUBSET Entry
      BY <1>1
    <3>2. opt.subsume_last \in BOOLEAN
      BY <1>1, OptionsAssumption DEF TypeOK
    <3> QED BY <1>1, <3>1, <3>2, SweepType, SweepCovers
  <2> HIDE DEF swept
  <2>3. Survives
    <3> SUFFICES ASSUME NEW g \in 0 .. depth, NEW e \in frames[g], ~ e.subsumed
                 PROVE  \E d \in frames'[g] : ~ d.subsumed /\ d.lits \subseteq e.lits
      BY DEF Survives
    <3> QED BY <2>1, <2>2
  <2>4. Strengthened
    BY <1>1, <2>3, SurvivesStrengthens
  <2>5. SubsumedCovered'
    <3> SUFFICES ASSUME NEW f \in 0 .. depth, NEW m \in frames'[f], m.subsumed
                 PROVE  \E e \in frames[f] : e.subsumed /\ e.lits = m.lits
      BY <1>1, <2>3, SurvivesCovered
    <3> QED BY <2>1, <2>2
  <2>6. ASSUME NEW f \in 0 .. depth, NEW c \in ClausesAt(f)' PROVE c \in ClausesAt(f)
    <3>1. PICK g \in f .. depth : \E m \in frames'[g] : c = m.lits
      BY <1>1, <2>6, ClausesAtMemberNext
    <3>2. \E m \in frames[g] : c = m.lits
      BY <2>1, <2>2, <3>1
    <3> QED BY <3>1, <3>2, ClausesAtMember
  <2>7. FramesInitial' /\ FramesStep' /\ EarlierFramesGood'
    <3>1. \A c \in ClausesAt(0)' : c \in ClausesAt(0)
      BY <1>1, <2>6
    <3>2. \A f \in 0 .. depth - 1 : \A c \in ClausesAt(f + 1)' : c \in ClausesAt(f + 1)
      BY <1>1, <2>6
    <3> QED BY <1>1, <2>4, <3>1, <3>2, FramesAfterStrengthening
  <2> QED BY <2>4, <2>5, <2>7
<1> QED BY <1>2, <1>3 DEF PropagateDone

-----------------------------------------------------------------------------
(* The clause under construction.                                          *)

(* The query about the clause, after a step that leaves the frames alone.  *)
LEMMA ModelsNext ==
    ASSUME UNCHANGED <<mgr, depth, frames>>, NEW c, NEW f, clause' = c, f0' = f
    PROVE  Models(Negated(clause), f0, {clause})' = Models(Negated(c), f, {c})
<1>1. ClausesAt(f0)' = ClausesAt(f)
  BY DEF ClausesAt
<1> QED BY <1>1 DEF Models

(* A smaller clause is excluded by no fewer states.                        *)
LEMMA CubeOfSmaller ==
    ASSUME NEW c, NEW d, c \subseteq d, NEW q, InCube(q, Negated(d))
    PROVE  InCube(q, Negated(c))
BY NegatedMonotone DEF InCube

(* The clause that the solver's conflict gives.                            *)
LEMMA BuildConflict ==
    ASSUME FrameInv, Conflict
    PROVE  ClauseInductive' /\ GenOK'
<1>1. /\ TypeOK /\ depth \in Nat \ {0}
      /\ Cube(Least) \in Clause /\ Least.frame \in Nat \ {0}
  <2>1. Least \in Obligation /\ Cube(Least) \in Clause
    BY LeastType DEF FrameInv, Conflict
  <2>2. Least.frame # 0
    BY DEF Conflict, Open, IsCex
  <2> QED BY <2>1, <2>2 DEF FrameInv, TypeOK, Obligation
<1>2. PICK core \in SUBSET Cube(Least), g \in Least.frame - 1 .. depth + 1 :
         /\ Models(core, g, {}) = {}
         /\ \E block \in WithReset(Negated(core), Cube(Least)) :
              LET min_frame == IF g + 1 < depth THEN g + 1 ELSE depth
              IN  /\ clause' = block
                  /\ gen' = StartGen(block, 1, min_frame)
  BY DEF Conflict
<1> DEFINE min_frame == IF g + 1 < depth THEN g + 1 ELSE depth
<1>3. PICK block \in WithReset(Negated(core), Cube(Least)) :
         clause' = block /\ gen' = StartGen(block, 1, min_frame)
  BY <1>2
<1>4. g \in Nat /\ min_frame \in 1 .. depth /\ min_frame - 1 <= g /\ min_frame - 1 \in Nat
  BY <1>1, <1>2
<1> HIDE DEF min_frame
<1>5. UNCHANGED <<mgr, depth, frames>>
  BY DEF Conflict
<1>6. core \in Clause /\ Negated(core) \in Clause
  BY <1>1, NegatedType DEF Clause
<1>7. block \in Clause /\ Negated(core) \subseteq block
  BY <1>1, <1>3, <1>6, WithResetType
<1>8. \A q \in Initial(mgr) : InClause(q, block)
  BY <1>1, <1>3, <1>6, WithResetInitial
<1>9. Models(Negated(block), min_frame - 1, {block}) = {}
  <2> SUFFICES ASSUME NEW p \in Models(Negated(block), min_frame - 1, {block}) PROVE FALSE
    OBVIOUS
  <2>1. /\ p \in mgr.constr /\ InCube(mgr.next[p], Negated(block))
        /\ Satisfies(p[1], ClausesAt(min_frame - 1))
    BY DEF Models, Satisfies
  <2>2. InCube(mgr.next[p], core)
    <3>1. Negated(Negated(core)) = core
      BY <1>1, <1>6, NegatedTwice
    <3> QED BY <1>7, <2>1, <3>1, CubeOfSmaller
  <2>3. Satisfies(p[1], ClausesAt(g) \cup {})
    <3>1. ClausesAt(g) \subseteq ClausesAt(min_frame - 1)
      BY <1>1, <1>4, ClausesAtMonotone
    <3> QED BY <2>1, <3>1 DEF Satisfies
  <2>4. p \in Models(core, g, {})
    BY <2>1, <2>2, <2>3 DEF Models
  <2> QED BY <1>2, <2>4
<1>10. gen'.min_frame = min_frame /\ gen'.hyps = {}
  BY <1>3 DEF StartGen
<1>11. f0' = min_frame - 1
  BY <1>10 DEF f0
<1>12. Models(Negated(clause), f0, {clause})' = {}
  BY <1>3, <1>5, <1>9, <1>11, ModelsNext
<1> QED BY <1>3, <1>4, <1>5, <1>8, <1>10, <1>12 DEF ClauseInductive, GenOK

(* The clause that generalize makes of it by dropping literals.            *)
LEMMA BuildDrop ==
    ASSUME FrameInv, GeneralizeDrop
    PROVE  ClauseInductive' /\ GenOK'
<1>1. TypeOK /\ clause \in Clause /\ pc = "generalize"
  BY DEF FrameInv, TypeOK, GeneralizeDrop
<1>2. UNCHANGED <<mgr, depth, frames, pc>>
  BY DEF GeneralizeDrop
<1>3. PICK l \in gen.todo :
         /\ \E core \in SUBSET (clause \ {l}) :
              /\ Models(Negated(core), f0, Hypotheses(l)) = {}
              /\ clause' \in WithReset(core, Negated(clause \ {l}))
         /\ gen' = [gen EXCEPT !.todo = @ \cap clause',
                               !.hyps = Hypotheses(l),
                               !.vacuous = @ \/ (f0 > 0 /\ clause' # clause \ {l})]
  BY DEF GeneralizeDrop
<1> DEFINE rest == clause \ {l}
<1>4. PICK core \in SUBSET rest :
         Models(Negated(core), f0, Hypotheses(l)) = {} /\ clause' \in WithReset(core, Negated(rest))
  BY <1>3
<1>5. rest \in Clause /\ core \in Clause /\ Negated(rest) \in Clause /\ rest \subseteq clause
  <2>1. rest \in Clause /\ core \in Clause
    BY <1>1 DEF Clause
  <2> QED BY <2>1, NegatedType
<1> HIDE DEF rest
<1>6. clause' \in Clause /\ core \subseteq clause' /\ clause' \subseteq rest
  <2>1. Negated(Negated(rest)) = rest
    BY <1>1, <1>5, NegatedTwice
  <2> QED BY <1>4, <1>5, <2>1, WithResetType
<1>7. \A h \in Hypotheses(l) : clause' \subseteq h
  <2>1. \A h \in gen.hyps : clause \subseteq h
    BY <1>1 DEF FrameInv, GenOK, Building
  <2> QED BY <1>5, <1>6, <2>1 DEF Hypotheses, rest
<1>8. \A q \in Initial(mgr) : InClause(q, clause')
  BY <1>1, <1>4, <1>5, WithResetInitial
<1>9. Models(Negated(clause'), f0, {clause'}) = {}
  <2> SUFFICES ASSUME NEW p \in Models(Negated(clause'), f0, {clause'}) PROVE FALSE
    OBVIOUS
  <2>1. /\ p \in mgr.constr /\ InCube(mgr.next[p], Negated(clause'))
        /\ Satisfies(p[1], ClausesAt(f0)) /\ InClause(p[1], clause')
    BY DEF Models, Satisfies
  <2>2. InCube(mgr.next[p], Negated(core))
    BY <1>6, <2>1, CubeOfSmaller
  <2>3. Satisfies(p[1], ClausesAt(f0) \cup Hypotheses(l))
    BY <1>7, <2>1 DEF Satisfies, InClause
  <2>4. p \in Models(Negated(core), f0, Hypotheses(l))
    BY <2>1, <2>2, <2>3 DEF Models
  <2> QED BY <1>4, <2>4
<1>10. gen'.min_frame = gen.min_frame /\ gen'.hyps = Hypotheses(l)
  BY <1>1, <1>3 DEF TypeOK
<1>11. f0' = f0
  BY <1>10 DEF f0
<1>12. Models(Negated(clause), f0, {clause})' = {}
  <2>1. PICK c, f : c = clause' /\ f = f0
    OBVIOUS
  <2>2. clause' = c /\ f0' = f /\ Models(Negated(c), f, {c}) = {}
    BY <1>9, <1>11, <2>1
  <2> QED BY <1>2, <2>2, ModelsNext
<1>13. ClauseInductive'
  BY <1>2, <1>8, <1>12 DEF ClauseInductive
<1>14. GenOK'
  BY <1>1, <1>2, <1>7, <1>10 DEF GenOK, FrameInv, Building
<1> QED BY <1>13, <1>14

(* The other steps of generalize leave the clause alone.                   *)
LEMMA BuildSame ==
    ASSUME FrameInv, UNCHANGED <<mgr, depth, frames, clause>>,
           Building' => Building, gen'.min_frame = gen.min_frame,
           gen'.hyps \in {{}, gen.hyps}
    PROVE  ClauseInductive' /\ GenOK'
<1>1. f0' = f0
  BY DEF f0
<1>2. Models(Negated(clause), f0, {clause})' = Models(Negated(clause), f0, {clause})
  <2>1. ClausesAt(f0)' = ClausesAt(f0)
    BY <1>1 DEF ClausesAt
  <2> QED BY <2>1 DEF Models
<1>3. ClauseInductive'
  BY <1>2 DEF ClauseInductive, Building, FrameInv
<1>4. GenOK'
  BY DEF GenOK, FrameInv, Building
<1> QED BY <1>3, <1>4

-----------------------------------------------------------------------------
(* The invariant is inductive.                                             *)

(* It holds at first: there is only the frame of the resets.               *)
LEMMA FrameInit == Init => FrameInv
<1> SUFFICES ASSUME Init PROVE FrameInv
  OBVIOUS
<1>1. TypeOK /\ ObligationHeld
  BY TypeInit DEF Init, ObligationHeld
<1>2. /\ depth = 1 /\ frames[1] = {}
      /\ frames[0] = {[lits |-> {l}, subsumed |-> FALSE] :
                        l \in {k \in Lits(mgr) : SatisfiesReset(mgr, k)}}
  BY DEF Init
<1>3. FramesInitial
  <2> SUFFICES ASSUME NEW q \in Initial(mgr), NEW c \in ClausesAt(0) PROVE InClause(q, c)
    BY DEF FramesInitial, InFrame, Satisfies
  <2>1. PICK g \in 0 .. 1 : \E e \in frames[g] : c = e.lits
    BY <1>2, ClausesAtMember
  <2>2. g = 0
    BY <1>2, <2>1
  <2>3. PICK l \in Lits(mgr) : SatisfiesReset(mgr, l) /\ c = {l}
    BY <1>2, <2>1, <2>2
  <2>4. l[1] \in mgr.latches
    BY DEF Lits
  <2>5. q[l[1]] = l[2]
    BY <2>3, <2>4 DEF Initial, SatisfiesReset
  <2> QED BY <2>3, <2>5 DEF InClause, TrueIn
<1>4. FramesStep
  <2>1. ClausesAt(1) = {}
    <3> SUFFICES ASSUME NEW c \in ClausesAt(1) PROVE FALSE
      OBVIOUS
    <3>1. PICK g \in 1 .. 1 : \E e \in frames[g] : c = e.lits
      BY <1>2, ClausesAtMember
    <3> QED BY <1>2, <3>1
  <2> QED BY <1>2, <2>1 DEF FramesStep, Satisfies
<1>5. EarlierFramesGood
  BY <1>2 DEF EarlierFramesGood
<1>6. ClauseInductive /\ GenOK /\ (pc = "propagate" => depth > 1) /\ UnsatSound
  BY DEF Init, ClauseInductive, GenOK, Building, UnsatSound
<1>7. SubsumedCovered
  BY <1>2 DEF SubsumedCovered
<1> QED BY <1>1, <1>3, <1>4, <1>5, <1>6, <1>7 DEF FrameInv

(* The part of the invariant that is about the frames, and that they never *)
(* get weaker.                                                             *)
LEMMA FramesInductive ==
    ASSUME FrameInv, [Next]_vars
    PROVE  /\ FramesInitial' /\ FramesStep' /\ EarlierFramesGood' /\ SubsumedCovered'
           /\ Strengthened
<1>1. CASE UNCHANGED <<mgr, depth, frames>>
  BY <1>1, FramesUnchanged
<1>2. CASE PreImageUnsat
  BY <1>2, FramesPreImageUnsat
<1>3. CASE AddNewClause
  BY <1>3, FramesAddNewClause
<1>4. CASE PropagateFrame
  BY <1>4, FramesPropagateFrame
<1>5. CASE FoundInvariant
  BY <1>5, FramesFoundInvariant
<1>6. CASE PropagateDone
  BY <1>6, FramesPropagateDone
<1>7. CASE PreImageSat \/ FoundCex \/ AlreadyBlocked \/ Predecessor \/ Conflict \/ BlockCubeDone
  BY <1>1, <1>7 DEF PreImageSat, FoundCex, AlreadyBlocked, Predecessor, Conflict, BlockCubeDone
<1>8. CASE GeneralizeSkip \/ GeneralizeKeep \/ GeneralizeDrop \/ GeneralizeRound
  BY <1>1, <1>8 DEF GeneralizeSkip, GeneralizeKeep, GeneralizeDrop, GeneralizeRound
<1>9. CASE UNCHANGED vars
  BY <1>1, <1>9 DEF vars
<1> QED BY <1>2, <1>3, <1>4, <1>5, <1>6, <1>7, <1>8, <1>9 DEF Next

(* The part of it that is about the clause under construction.             *)
LEMMA BuildInductive ==
    ASSUME FrameInv, [Next]_vars
    PROVE  ClauseInductive' /\ GenOK'
<1>1. CASE Conflict
  BY <1>1, BuildConflict
<1>2. CASE GeneralizeDrop
  BY <1>2, BuildDrop
<1>3. CASE GeneralizeSkip \/ GeneralizeKeep \/ GeneralizeRound
  <2>1. UNCHANGED <<mgr, depth, frames, clause>> /\ Building
    BY <1>3 DEF GeneralizeSkip, GeneralizeKeep, GeneralizeRound, Building
  <2>2. gen'.min_frame = gen.min_frame /\ gen'.hyps \in {{}, gen.hyps}
    <3>1. CASE GeneralizeSkip
      <4>1. PICK l \in gen.todo : gen' = [gen EXCEPT !.todo = @ \ {l}]
        BY <3>1 DEF GeneralizeSkip
      <4> QED BY <4>1 DEF FrameInv, TypeOK
    <3>2. CASE GeneralizeKeep
      <4>1. PICK l \in gen.todo : gen' = [gen EXCEPT !.todo = @ \ {l}, !.hyps = {}]
        BY <3>2 DEF GeneralizeKeep
      <4> QED BY <4>1 DEF FrameInv, TypeOK
    <3>3. CASE GeneralizeRound
      BY <3>3 DEF GeneralizeRound, StartGen
    <3> QED BY <1>3, <3>1, <3>2, <3>3
  <2> QED BY <2>1, <2>2, BuildSame
<1>4. CASE ~ Building'
  BY <1>4 DEF Building, ClauseInductive, GenOK
<1>5. CASE PreImageSat \/ PreImageUnsat
  BY <1>4, <1>5 DEF PreImageSat, PreImageUnsat, Building
<1>6. CASE FoundCex \/ AlreadyBlocked \/ Predecessor \/ BlockCubeDone
  BY <1>4, <1>6 DEF FoundCex, AlreadyBlocked, Predecessor, BlockCubeDone, Building
<1>7. CASE AddNewClause
  BY <1>4, <1>7 DEF AddNewClause, Building
<1>8. CASE PropagateFrame \/ FoundInvariant \/ PropagateDone
  BY <1>4, <1>8 DEF PropagateFrame, FoundInvariant, PropagateDone, Building
<1>9. CASE UNCHANGED vars
  <2>1. UNCHANGED <<mgr, depth, frames, clause, gen>> /\ (Building' => Building)
    BY <1>9 DEF vars, Building
  <2> QED BY <2>1, BuildSame
<1> QED BY <1>1, <1>2, <1>3, <1>5, <1>6, <1>7, <1>8, <1>9 DEF Next

(* Every step keeps it.                                                    *)
LEMMA FrameInductive == FrameInv /\ [Next]_vars => FrameInv'
<1> SUFFICES ASSUME FrameInv, [Next]_vars PROVE FrameInv'
  OBVIOUS
<1>1. TypeOK' /\ ObligationHeld'
  BY TypeStep DEF FrameInv
<1>2. FramesInitial' /\ FramesStep' /\ EarlierFramesGood' /\ SubsumedCovered'
  BY FramesInductive
<1>3. ClauseInductive' /\ GenOK'
  BY BuildInductive
<1>4. (pc = "propagate" => depth > 1)'
  <2>1. CASE PreImageUnsat
    BY <2>1 DEF PreImageUnsat, FrameInv, TypeOK
  <2>2. CASE PropagateFrame
    BY <2>2 DEF PropagateFrame, FrameInv
  <2>3. CASE UNCHANGED vars
    BY <2>3 DEF vars, FrameInv
  <2>4. CASE PreImageSat \/ FoundCex \/ AlreadyBlocked \/ Predecessor \/ Conflict \/ BlockCubeDone
    BY <2>4 DEF PreImageSat, FoundCex, AlreadyBlocked, Predecessor, Conflict, BlockCubeDone
  <2>5. CASE GeneralizeSkip \/ GeneralizeKeep \/ GeneralizeDrop \/ GeneralizeRound
    BY <2>5 DEF GeneralizeSkip, GeneralizeKeep, GeneralizeDrop, GeneralizeRound
  <2>6. CASE AddNewClause \/ FoundInvariant \/ PropagateDone
    BY <2>6 DEF AddNewClause, FoundInvariant, PropagateDone
  <2> QED BY <2>1, <2>2, <2>3, <2>4, <2>5, <2>6 DEF Next
<1>5. UnsatSound'
  <2>1. CASE FoundInvariant
    BY <2>1, FramesFoundInvariant DEF FoundInvariant, UnsatSound
  <2>2. CASE FoundCex
    BY <2>2 DEF FoundCex, UnsatSound
  <2>3. CASE UNCHANGED <<mgr, verdict>>
    BY <2>3 DEF FrameInv, UnsatSound
  <2>4. CASE PreImageSat \/ PreImageUnsat \/ AlreadyBlocked \/ Predecessor \/ Conflict \/ BlockCubeDone
    BY <2>3, <2>4 DEF PreImageSat, PreImageUnsat, AlreadyBlocked, Predecessor, Conflict, BlockCubeDone
  <2>5. CASE GeneralizeSkip \/ GeneralizeKeep \/ GeneralizeDrop \/ GeneralizeRound
    BY <2>3, <2>5 DEF GeneralizeSkip, GeneralizeKeep, GeneralizeDrop, GeneralizeRound
  <2>6. CASE AddNewClause \/ PropagateFrame \/ PropagateDone \/ UNCHANGED vars
    BY <2>3, <2>6 DEF AddNewClause, PropagateFrame, PropagateDone, vars
  <2> QED BY <2>1, <2>2, <2>4, <2>5, <2>6 DEF Next
<1> QED BY <1>1, <1>2, <1>3, <1>4, <1>5 DEF FrameInv

(* It holds always.                                                        *)
LEMMA FrameInvHolds == Spec => []FrameInv
BY FrameInit, FrameInductive, PTL DEF Spec

-----------------------------------------------------------------------------
(* The theorems.                                                           *)

(* The frames over-approximate the states reachable in as many steps.      *)
THEOREM FramesSound == Spec => []FramesOverapproximate
<1>1. FrameInv => FramesOverapproximate
  BY DEF FrameInv, FramesOverapproximate
<1> QED BY <1>1, FrameInvHolds, PTL

(* No frame but the last one has a bad state.                              *)
THEOREM FramesGood == Spec => []EarlierFramesGood
<1>1. FrameInv => EarlierFramesGood
  BY DEF FrameInv
<1> QED BY <1>1, FrameInvHolds, PTL

(* The clause that generalize works on stays inductive, although it shares *)
(* one activation literal among the hypotheses of several queries.         *)
THEOREM GeneralizeSound == Spec => []ClauseInductive
<1>1. FrameInv => ClauseInductive
  BY DEF FrameInv
<1> QED BY <1>1, FrameInvHolds, PTL

(* A clause is released as subsumed only while a smaller one is in force.  *)
THEOREM ReleasesSound == Spec => []SubsumedCovered
<1>1. FrameInv => SubsumedCovered
  BY DEF FrameInv
<1> QED BY <1>1, FrameInvHolds, PTL

(* A frame never admits a state again that it has excluded.                *)
THEOREM NothingForgotten == Spec => FramesOnlyStrengthen
<1> DEFINE Step == \A f \in 0 .. depth : \A q \in States(mgr) : InFrame(q, f)' => InFrame(q, f)
<1>1. FrameInv /\ [Next]_vars => Step
  <2> SUFFICES ASSUME FrameInv, [Next]_vars, NEW f \in 0 .. depth, NEW q \in States(mgr),
                      InFrame(q, f)'
               PROVE  InFrame(q, f)
    OBVIOUS
  <2>1. Covers(ClausesAt(f)', ClausesAt(f))
    BY FramesInductive DEF Strengthened
  <2>2. Satisfies(q, ClausesAt(f)')
    BY DEF InFrame, Satisfies
  <2> QED BY <2>1, <2>2, CoversSatisfies DEF InFrame
<1> QED BY <1>1, FrameInvHolds, PTL DEF Spec, FramesOnlyStrengthen

(* "UNSAT" is only said of a circuit that has no reachable bad step.       *)
THEOREM UnsatCorrect == Spec => []UnsatSound
<1>1. FrameInv => UnsatSound
  BY DEF FrameInv
<1> QED BY <1>1, FrameInvHolds, PTL

-----------------------------------------------------------------------------
(* The proof obligations.                                                  *)

Exact == mgr.constr = Steps(mgr) \/ (~ opt.coi /\ ~ opt.ternary)

\* The steps that the k-th cube of a path stands for.
Good(path, k) == IF k = Len(path) THEN mgr.bad ELSE StepsInto(path[k+1].cube)

\* Element e was made of a step into good, and forces such a step.
Leads(e, good) ==
    /\ Forced(e, good)
    /\ \E p \in mgr.constr \cap good : InCube(p[1], e.cube)
    /\ Exact => Forced(e, mgr.constr)

PathLeads(path) == \A k \in 1 .. Len(path) : Leads(path[k], Good(path, k))

Sound(x) ==
    /\ PathLeads(x.path)
    /\ x.frame = 0 => IsReset(mgr, Cube(x))
    /\ ~ opt.keep_all => x.frame <= depth

Members(q) == UNION {{q[f][k] : k \in 1 .. Len(q[f])} : f \in DOMAIN q}

\* Frame 0 admits the reset states only.
FirstFrame == \A q \in States(mgr) : InFrame(q, 0) => q \in Initial(mgr)

AboutObligation ==
    Building => /\ clause \subseteq Negated(Cube(s))
                /\ ~ opt.keep_all => gen.min_frame >= s.frame

Answer ==
    /\ verdict = "none" <=> pc # "done"
    /\ verdict = "SAT" => s # NoObligation /\ IsReset(mgr, Cube(s))
    /\ verdict # "error"

PathInv ==
    /\ FrameInv
    /\ mgr \in Circuits
    /\ FirstFrame
    /\ \A x \in Obligations \ {NoObligation} : Sound(x)
    /\ AboutObligation
    /\ Answer

-----------------------------------------------------------------------------
(* Reducing a cube.                                                        *)

(* A cube kept whole forces what its latches decide; one that was reduced  *)
(* forces it by the contract of the simulation.                            *)
LEMMA ReducedForces ==
    ASSUME TypeOK, NEW p \in Steps(mgr), NEW L, L \subseteq mgr.latches,
           NEW good, NEW t \in Reductions(CubeOf(p[1], L), p[2], good),
           \A r \in Steps(mgr) : Agree(p, r, L) => r \in good
    PROVE  /\ InCube(p[1], t)
           /\ Forced([cube |-> t, input |-> p[2]], good)
<1>1. p[1] \in States(mgr) /\ p[2] \in mgr.inputs
  BY DEF Steps
<1>2. InCube(p[1], t)
  <2>1. t \subseteq CubeOf(p[1], L)
    BY ReductionsType
  <2> QED BY <2>1 DEF InCube, CubeOf, TrueIn
<1>3. ASSUME NEW q \in States(mgr), InCube(q, t) PROVE <<q, p[2]>> \in good
  <2>1. CASE t = CubeOf(p[1], L)
    <3>1. <<q, p[2]>> \in Steps(mgr)
      BY <1>1 DEF Steps
    <3>2. ASSUME NEW x \in L PROVE p[1][x] = q[x]
      <4>1. <<x, p[1][x]>> \in t
        BY <2>1 DEF CubeOf
      <4>2. TrueIn(q, <<x, p[1][x]>>)
        BY <1>3, <4>1 DEF InCube
      <4> QED BY <4>2 DEF TrueIn
    <3>3. Agree(p, <<q, p[2]>>, L)
      BY <3>2 DEF Agree
    <3> QED BY <3>1, <3>3
  <2>2. CASE t # CubeOf(p[1], L)
    <3>1. \A r \in States(mgr) : InCube(r, t) => <<r, p[2]>> \in good
      BY <2>2 DEF Reductions
    <3> QED BY <1>3, <3>1
  <2> QED BY <2>1, <2>2
<1> QED BY <1>2, <1>3 DEF Forced

(* States that agree on all latches are the same.                          *)
LEMMA AgreeOnAll ==
    ASSUME NEW p \in Steps(mgr), NEW r \in Steps(mgr), Agree(p, r, mgr.latches)
    PROVE  r = p
<1>1. p[1] \in States(mgr) /\ r[1] \in States(mgr) /\ p = <<p[1], p[2]>> /\ r = <<r[1], r[2]>>
  BY DEF Steps
<1>2. r[1] = p[1]
  BY <1>1 DEF Agree, States
<1> QED BY <1>1, <1>2 DEF Agree

(* What pre_image and block_cube make of a model: an element of a path.    *)
LEMMA ElementLeads ==
    ASSUME TypeOK, NEW good, NEW p \in mgr.constr \cap good, NEW cone, cone \subseteq mgr.latches,
           \A r \in Steps(mgr) : Agree(p, r, cone) => r \in good,
           NEW t \in Reductions(CubeOf(p[1], IF opt.coi THEN cone ELSE mgr.latches), p[2], good)
    PROVE  Leads([cube |-> t, input |-> p[2]], good)
<1> DEFINE e == [cube |-> t, input |-> p[2]]
           L == IF opt.coi THEN cone ELSE mgr.latches
<1>1. p \in Steps(mgr) /\ mgr.constr \subseteq Steps(mgr)
  BY DEF TypeOK, IsCircuit
<1>2. \A r \in Steps(mgr) : Agree(p, r, mgr.latches) => r \in good
  BY <1>1, AgreeOnAll
<1>3. L \subseteq mgr.latches /\ \A r \in Steps(mgr) : Agree(p, r, L) => r \in good
  BY <1>2
<1>4. InCube(p[1], t) /\ Forced(e, good)
  <2> HIDE DEF L
  <2> QED BY <1>1, <1>3, ReducedForces DEF L
<1>5. ASSUME Exact PROVE Forced(e, mgr.constr)
  <2>1. CASE mgr.constr = Steps(mgr)
    BY <1>1, <2>1 DEF Forced, Steps
  <2>2. CASE ~ opt.coi /\ ~ opt.ternary
    <3>1. t \in Reductions(CubeOf(p[1], mgr.latches), p[2], mgr.constr)
      BY <2>2 DEF Reductions
    <3>2. \A r \in Steps(mgr) : Agree(p, r, mgr.latches) => r \in mgr.constr
      BY <1>1, AgreeOnAll
    <3> QED BY <1>1, <3>1, <3>2, ReducedForces
  <2> QED BY <1>5, <2>1, <2>2 DEF Exact
<1> QED BY <1>4, <1>5 DEF Leads

(* The cone of the property decides it.                                    *)
LEMMA PropertyCone ==
    ASSUME TypeOK, mgr \in Circuits, NEW p \in mgr.bad, NEW r \in Steps(mgr),
           Agree(p, r, mgr.property_coi)
    PROVE  r \in mgr.bad
BY ConesAssumption DEF ConesCover, TypeOK, IsCircuit

(* The cones of its latches decide a step into a cube.                     *)
LEMMA CubeCone ==
    ASSUME TypeOK, mgr \in Circuits, NEW cube \in Clause, NEW p \in StepsInto(cube),
           NEW r \in Steps(mgr), Agree(p, r, UNION {mgr.latch_coi[l[1]] : l \in cube})
    PROVE  r \in StepsInto(cube)
<1>1. p \in Steps(mgr) /\ InCube(mgr.next[p], cube)
  BY DEF StepsInto
<1>2. ASSUME NEW l \in cube PROVE TrueIn(mgr.next[r], l)
  <2>1. l[1] \in mgr.latches
    BY DEF Clause, Lits
  <2>2. Agree(p, r, mgr.latch_coi[l[1]])
    BY DEF Agree
  <2>3. mgr.next[p][l[1]] = mgr.next[r][l[1]]
    BY <1>1, <2>1, <2>2, ConesAssumption DEF ConesCover
  <2> QED BY <1>1, <2>3 DEF InCube, TrueIn
<1> QED BY <1>2 DEF StepsInto, InCube

-----------------------------------------------------------------------------
(* What is in the queue.                                                   *)

(* insert adds its obligation and no other.                                *)
LEMMA PushMembers ==
    ASSUME NEW q, q \in [DOMAIN q -> Seq(Obligation) \ {<<>>}], NEW x \in Obligation
    PROVE  Members(Push(q, x)) \subseteq Members(q) \cup {x}
<1> SUFFICES ASSUME NEW f \in DOMAIN Push(q, x), NEW k \in 1 .. Len(Push(q, x)[f])
             PROVE  Push(q, x)[f][k] \in Members(q) \cup {x}
  BY DEF Members
<1>1. DOMAIN Push(q, x) = DOMAIN q \cup {x.frame}
  BY DEF Push
<1>2. CASE f \in DOMAIN q /\ f = x.frame
  <2>1. Push(q, x)[f] = q[f] \o <<x>>
    BY <1>2 DEF Push
  <2>2. q[f] \in Seq(Obligation)
    BY <1>2
  <2>3. CASE k <= Len(q[f])
    BY <1>2, <2>1, <2>2, <2>3 DEF Members
  <2>4. CASE k > Len(q[f])
    BY <2>1, <2>2, <2>4
  <2> QED BY <2>1, <2>2, <2>3, <2>4
<1>3. CASE f \in DOMAIN q /\ f # x.frame
  <2>1. q[f] \in Seq(Obligation)
    BY <1>3
  <2>2. Push(q, x)[f] = q[f]
    BY <1>3, <2>1 DEF Push
  <2> QED BY <1>3, <2>2 DEF Members
<1>4. CASE f \notin DOMAIN q
  <2>1. <<>> \o <<x>> = <<x>>
    OBVIOUS
  <2>2. Push(q, x)[f] = <<x>>
    BY <1>1, <1>4, <2>1 DEF Push
  <2>3. k = 1
    BY <2>2
  <2> QED BY <2>2, <2>3
<1> QED BY <1>2, <1>3, <1>4

(* removeMin adds none, and what it takes was there.                       *)
LEMMA RemoveMinMembers ==
    ASSUME TypeOK, ~ QEmpty
    PROVE  Members(RemoveMin) \subseteq Members(Q) /\ Least \in Members(Q)
<1>1. MinLevel \in DOMAIN Q
  BY LeastType
<1>2. \A f \in DOMAIN Q : Q[f] \in Seq(Obligation) /\ Q[f] # <<>>
  BY DEF TypeOK
<1>3. Least \in Members(Q)
  <2>1. Len(Q[MinLevel]) \in 1 .. Len(Q[MinLevel])
    BY <1>1, <1>2
  <2> QED BY <1>1, <2>1 DEF Least, Members
<1>4. ASSUME NEW f \in DOMAIN RemoveMin, NEW k \in 1 .. Len(RemoveMin[f])
      PROVE  RemoveMin[f][k] \in Members(Q)
  <2>1. f \in DOMAIN Q /\ (f # MinLevel \/ Len(Q[f]) > 1)
    BY DEF RemoveMin
  <2>2. CASE f = MinLevel
    <3>1. RemoveMin[f] = SubSeq(Q[f], 1, Len(Q[f]) - 1)
      BY <2>2, <2>1 DEF RemoveMin
    <3>2. Q[f] \in Seq(Obligation) /\ Len(Q[f]) \in Nat
      BY <1>2, <2>1
    <3>3. k \in 1 .. Len(Q[f]) /\ RemoveMin[f][k] = Q[f][k]
      BY <2>1, <2>2, <3>1, <3>2
    <3> QED BY <2>1, <3>3 DEF Members
  <2>3. CASE f # MinLevel
    <3>1. RemoveMin[f] = Q[f]
      BY <2>1, <2>3 DEF RemoveMin
    <3> QED BY <2>1, <3>1 DEF Members
  <2> QED BY <2>2, <2>3
<1> QED BY <1>3, <1>4 DEF Members

(* An obligation has a path.                                               *)
LEMMA PathType ==
    ASSUME NEW x \in Obligation
    PROVE  /\ x.path \in Seq(PathElement) /\ Len(x.path) \in Nat \ {0}
           /\ \A k \in 1 .. Len(x.path) : x.path[k] \in PathElement
           /\ Cube(x) \in Clause
<1>1. x.path \in Seq(PathElement) /\ x.path # <<>>
  BY DEF Obligation
<1>2. Len(x.path) \in Nat \ {0}
  BY <1>1
<1>3. \A k \in 1 .. Len(x.path) : x.path[k] \in PathElement
  BY <1>1
<1> QED BY <1>1, <1>2, <1>3 DEF Cube, PathElement

(* The obligations are those in the queue and the one worked on.           *)
LEMMA LeastSound ==
    ASSUME PathInv, ~ QEmpty
    PROVE  Least \in Obligation /\ Sound(Least)
<1>1. Least \in Obligation /\ Least \in Members(Q)
  BY LeastType, RemoveMinMembers DEF PathInv, FrameInv
<1>2. Least \in Obligations \ {NoObligation}
  BY <1>1 DEF Obligations, Members, Obligation, NoObligation
<1> QED BY <1>1, <1>2 DEF PathInv

-----------------------------------------------------------------------------
(* New obligations are sound.                                              *)

(* The first element of a path leads to the rest.                          *)
LEMMA PathExtends ==
    ASSUME NEW x \in Obligation, PathLeads(x.path),
           NEW e \in PathElement, Leads(e, StepsInto(Cube(x)))
    PROVE  PathLeads(<<e>> \o x.path)
<1> DEFINE path == <<e>> \o x.path
           n    == Len(x.path)
<1>1. x.path \in Seq(PathElement) /\ n \in Nat \ {0}
  BY PathType
<1>2. /\ Len(path) = n + 1 /\ path[1] = e
      /\ \A k \in 1 .. n : path[k+1] = x.path[k]
  BY <1>1
<1> HIDE DEF path
<1>3. ASSUME NEW k \in 1 .. n + 1 PROVE Leads(path[k], Good(path, k))
  <2>1. CASE k = 1
    <3>1. path[2] = x.path[1]
      BY <1>1, <1>2
    <3> QED BY <1>1, <1>2, <2>1, <3>1 DEF Good, Cube
  <2>2. CASE k > 1
    <3>1. PICK j \in 1 .. n : k = j + 1
      BY <1>1, <2>2
    <3>2. path[k] = x.path[j]
      BY <1>2, <3>1
    <3>3. Good(path, k) = Good(x.path, j)
      <4>1. CASE j = n
        BY <1>1, <1>2, <3>1, <4>1 DEF Good
      <4>2. CASE j < n
        <5>1. path[k+1] = x.path[j+1]
          BY <1>1, <1>2, <3>1, <4>2
        <5> QED BY <1>1, <1>2, <3>1, <4>2, <5>1 DEF Good
      <4> QED BY <1>1, <4>1, <4>2
    <3> QED BY <3>1, <3>2, <3>3 DEF PathLeads
  <2> QED BY <2>1, <2>2
<1> QED BY <1>2, <1>3 DEF PathLeads, path

(* What pre_image finds.                                                   *)
LEMMA PreImageSound ==
    ASSUME PathInv, PreImageSat
    PROVE  \E x \in Obligation : Q' = Push(Q, x) /\ Sound(x)
<1>1. TypeOK /\ mgr \in Circuits /\ depth \in Nat \ {0}
  BY DEF PathInv, FrameInv, TypeOK
<1>2. PICK p \in BadModels(depth) :
        \E pre \in Reductions(CubeOf(p[1], IF opt.coi THEN mgr.property_coi ELSE mgr.latches),
                              p[2], mgr.bad) :
          Q' = Push(Q, [frame |-> depth, path |-> <<[cube |-> pre, input |-> p[2]]>>])
  BY DEF PreImageSat
<1>3. PICK pre \in Reductions(CubeOf(p[1], IF opt.coi THEN mgr.property_coi ELSE mgr.latches),
                              p[2], mgr.bad) :
          Q' = Push(Q, [frame |-> depth, path |-> <<[cube |-> pre, input |-> p[2]]>>])
  BY <1>2
<1> DEFINE e == [cube |-> pre, input |-> p[2]]
           x == [frame |-> depth, path |-> <<e>>]
<1>4. /\ p \in mgr.constr \cap mgr.bad /\ p \in Steps(mgr)
      /\ mgr.property_coi \subseteq mgr.latches
  BY <1>1 DEF BadModels, TypeOK, IsCircuit
<1>5. Leads(e, mgr.bad)
  <2>1. \A r \in Steps(mgr) : Agree(p, r, mgr.property_coi) => r \in mgr.bad
    BY <1>1, <1>4, PropertyCone
  <2> QED BY <1>1, <1>3, <1>4, <2>1, ElementLeads
<1>6. x \in Obligation
  <2>1. p[1] \in States(mgr) /\ p[2] \in mgr.inputs
    BY <1>4 DEF Steps
  <2>2. pre \in Clause
    <3>1. CubeOf(p[1], IF opt.coi THEN mgr.property_coi ELSE mgr.latches) \in Clause
      BY <1>4, <2>1, CubeOfType
    <3> QED BY <1>3, <3>1, ReductionsType DEF Clause
  <2> QED BY <1>1, <2>1, <2>2 DEF Obligation, PathElement
<1>7. PathLeads(x.path)
  <2>1. \A k \in 1 .. Len(<<e>>) : k = 1 /\ Good(<<e>>, k) = mgr.bad /\ <<e>>[k] = e
    BY DEF Good
  <2> HIDE DEF e
  <2> QED BY <1>5, <2>1 DEF PathLeads
<1>8. Sound(x)
  BY <1>1, <1>7 DEF Sound
<1> QED BY <1>3, <1>6, <1>8

(* A predecessor found at frame 0 is a reset state: clauses and resets of  *)
(* frame 0 are the same.                                                   *)
LEMMA PredecessorSound ==
    ASSUME PathInv, Predecessor
    PROVE  \E x \in Obligation : Q' = Push(Q, x) /\ Sound(x)
<1>1. TypeOK /\ mgr \in Circuits /\ depth \in Nat \ {0}
  BY DEF PathInv, FrameInv, TypeOK
<1>2. Least \in Obligation /\ Cube(Least) \in Clause /\ Least.frame \in Nat
  BY <1>1, LeastType DEF Predecessor, Obligation
<1>3. Sound(Least) /\ Least.frame - 1 \in Nat
  BY <1>1, <1>2, LeastSound DEF PathInv, Predecessor, Open, IsCex
<1> DEFINE cone == UNION {mgr.latch_coi[l[1]] : l \in Cube(Least)}
           good == StepsInto(Cube(Least))
<1>4. PICK p \in Models(Cube(Least), Least.frame - 1, {}) :
        \E t \in Reductions(CubeOf(p[1], IF opt.coi THEN cone ELSE mgr.latches), p[2], good) :
          Q' = Push(Q, [frame |-> Least.frame - 1,
                        path  |-> <<[cube |-> t, input |-> p[2]]>> \o Least.path])
  BY DEF Predecessor
<1>5. PICK t \in Reductions(CubeOf(p[1], IF opt.coi THEN cone ELSE mgr.latches), p[2], good) :
          Q' = Push(Q, [frame |-> Least.frame - 1,
                        path  |-> <<[cube |-> t, input |-> p[2]]>> \o Least.path])
  BY <1>4
<1>6. /\ p \in mgr.constr /\ p \in Steps(mgr) /\ p \in good
      /\ p[1] \in States(mgr) /\ p[2] \in mgr.inputs
      /\ Satisfies(p[1], ClausesAt(Least.frame - 1))
  BY <1>1 DEF Models, TypeOK, IsCircuit, Steps, StepsInto, Satisfies
<1>7. cone \subseteq mgr.latches
  BY <1>1, <1>2 DEF Clause, Lits, TypeOK, IsCircuit
<1>8. \A r \in Steps(mgr) : Agree(p, r, cone) => r \in good
  BY <1>1, <1>2, <1>6, CubeCone
<1> DEFINE base == CubeOf(p[1], IF opt.coi THEN cone ELSE mgr.latches)
           e == [cube |-> t, input |-> p[2]]
           x == [frame |-> Least.frame - 1, path |-> <<e>> \o Least.path]
<1>9. Leads(e, good)
  <2> HIDE DEF cone, good
  <2> QED BY <1>1, <1>5, <1>6, <1>7, <1>8, ElementLeads
<1>10. base \in Clause /\ t \subseteq base /\ t \in Clause
  <2>1. base \in Clause
    BY <1>6, <1>7, CubeOfType
  <2> QED BY <1>5, <2>1, ReductionsType DEF Clause
<1>11. e \in PathElement
  BY <1>6, <1>10 DEF PathElement
<1>12. x \in Obligation
  <2>1. <<e>> \o Least.path \in Seq(PathElement) /\ <<e>> \o Least.path # <<>>
    <3>1. Least.path \in Seq(PathElement)
      BY <1>2, PathType
    <3> HIDE DEF e
    <3> QED BY <1>11, <3>1
  <2> QED BY <1>3, <2>1 DEF Obligation
<1>13. PathLeads(x.path)
  <2> HIDE DEF e, good
  <2>1. Leads(e, StepsInto(Cube(Least)))
    BY <1>9 DEF good
  <2> QED BY <1>2, <1>3, <1>11, <2>1, PathExtends DEF Sound
<1>14. ASSUME x.frame = 0 PROVE IsReset(mgr, Cube(x))
  <2>1. InFrame(p[1], 0)
    BY <1>6, <1>14 DEF InFrame
  <2>2. p[1] \in Initial(mgr)
    BY <1>6, <2>1 DEF PathInv, FirstFrame
  <2>3. Cube(x) = t
    <3>1. (<<e>> \o Least.path)[1] = e
      BY <1>2, PathType
    <3> QED BY <3>1 DEF Cube
  <2>4. ASSUME NEW l \in t PROVE l[2] \in mgr.resets[l[1]]
    <3>1. l[1] \in mgr.latches /\ l[2] = p[1][l[1]]
      BY <1>7, <1>10 DEF CubeOf
    <3> QED BY <2>2, <3>1 DEF Initial
  <2> QED BY <2>3, <2>4 DEF IsReset
<1>15. ~ opt.keep_all => x.frame <= depth
  BY <1>1, <1>2, <1>3 DEF Sound
<1> QED BY <1>5, <1>12, <1>13, <1>14, <1>15 DEF Sound

(* An obligation stays sound: that hangs on the circuit and the options.   *)
LEMMA SoundStable ==
    ASSUME UNCHANGED <<mgr, opt>>, depth \in Nat, depth' \in Nat, depth' >= depth,
           NEW x, x.frame \in Nat, Sound(x)
    PROVE  Sound(x)'
<1>1. PathLeads(x.path)'
  BY DEF Sound, PathLeads, Leads, Good, Forced, Exact, StepsInto
<1> QED BY <1>1 DEF Sound, Cube

(* An obligation that is put back one frame later is sound.                *)
LEMMA RequeueSound ==
    ASSUME TypeOK, NEW q, q \in [DOMAIN q -> Seq(Obligation) \ {<<>>}],
           NEW x \in Obligation, Sound(x), NEW f \in Nat
    PROVE  \A y \in Members(Requeue(q, x, f)) : y \in Members(q) \/ Sound(y)
<1> DEFINE y == [x EXCEPT !.frame = f + 1]
<1>1. y \in Obligation /\ y.frame = f + 1 /\ y.path = x.path
  BY DEF Obligation
<1>2. CASE opt.queue_forward /\ (opt.keep_all \/ f < depth)
  <2>1. Sound(y)
    BY <1>1, <1>2 DEF Sound, TypeOK
  <2>2. Members(Push(q, y)) \subseteq Members(q) \cup {y}
    BY <1>1, PushMembers
  <2> QED BY <1>2, <2>1, <2>2 DEF Requeue
<1>3. CASE ~ (opt.queue_forward /\ (opt.keep_all \/ f < depth))
  BY <1>3 DEF Requeue
<1> QED BY <1>2, <1>3

(* Which steps change what.                                                *)
LEMMA StepKeeps ==
    ASSUME TypeOK, [Next]_vars
    PROVE  /\ UNCHANGED <<mgr, opt>>
           /\ PreImageUnsat \/ UNCHANGED depth
           /\ \/ PreImageSat \/ Predecessor \/ FoundCex \/ Conflict \/ AlreadyBlocked \/ AddNewClause
              \/ UNCHANGED <<Q, s>>
           /\ \/ Conflict \/ GeneralizeDrop \/ ~ Building'
              \/ UNCHANGED <<s, clause>> /\ gen'.min_frame = gen.min_frame /\ Building
           /\ \/ FoundCex \/ FoundInvariant
              \/ UNCHANGED verdict /\ (pc = "done" <=> pc' = "done")
<1>1. CASE PreImageSat \/ PreImageUnsat
  BY <1>1 DEF PreImageSat, PreImageUnsat, Building
<1>2. CASE FoundCex \/ AlreadyBlocked \/ Predecessor \/ Conflict \/ BlockCubeDone
  BY <1>2 DEF FoundCex, AlreadyBlocked, Predecessor, Conflict, BlockCubeDone, Building
<1>3. CASE GeneralizeSkip \/ GeneralizeKeep \/ GeneralizeDrop
  <2>1. CASE GeneralizeSkip
    <3>1. PICK l \in gen.todo : gen' = [gen EXCEPT !.todo = @ \ {l}]
      BY <2>1 DEF GeneralizeSkip
    <3>2. gen'.min_frame = gen.min_frame
      BY <3>1 DEF TypeOK
    <3> QED BY <2>1, <3>2 DEF GeneralizeSkip, Building
  <2>2. CASE GeneralizeKeep
    <3>1. PICK l \in gen.todo : gen' = [gen EXCEPT !.todo = @ \ {l}, !.hyps = {}]
      BY <2>2 DEF GeneralizeKeep
    <3>2. gen'.min_frame = gen.min_frame
      BY <3>1 DEF TypeOK
    <3> QED BY <2>2, <3>2 DEF GeneralizeKeep, Building
  <2>3. CASE GeneralizeDrop
    BY <2>3 DEF GeneralizeDrop
  <2> QED BY <1>3, <2>1, <2>2, <2>3
<1>4. CASE GeneralizeRound
  BY <1>4 DEF GeneralizeRound, StartGen, Building
<1>5. CASE AddNewClause \/ PropagateFrame \/ FoundInvariant \/ PropagateDone
  BY <1>5 DEF AddNewClause, PropagateFrame, FoundInvariant, PropagateDone, Building
<1>6. CASE UNCHANGED vars
  BY <1>6 DEF vars, Building
<1> QED BY <1>1, <1>2, <1>3, <1>4, <1>5, <1>6 DEF Next

(* What is in the queue has the type of an obligation.                     *)
LEMMA MembersType ==
    ASSUME TypeOK', UNCHANGED mgr
    PROVE  \A x \in Members(Q)' : x \in Obligation
<1>1. Q' \in [DOMAIN Q' -> Seq(Obligation) \ {<<>>}]
  BY DomainsStable DEF TypeOK
<1> QED BY <1>1 DEF Members

(* Whatever a step does, the obligations after it are sound.               *)
LEMMA SoundStep ==
    ASSUME PathInv, [Next]_vars
    PROVE  (\A x \in Obligations \ {NoObligation} : Sound(x))'
<1>1. /\ TypeOK /\ TypeOK' /\ s \in Obligation \cup {NoObligation}
      /\ Q \in [DOMAIN Q -> Seq(Obligation) \ {<<>>}]
  BY FrameInductive DEF PathInv, FrameInv, TypeOK
<1>2. UNCHANGED <<mgr, opt>> /\ depth \in Nat /\ depth' \in Nat /\ depth' >= depth
  <2>1. CASE PreImageUnsat
    BY <1>1, <2>1 DEF PreImageUnsat, TypeOK
  <2>2. CASE UNCHANGED <<mgr, opt, depth>>
    BY <1>1, <2>2 DEF TypeOK
  <2> QED BY <1>1, <2>1, <2>2, StepKeeps
<1>3. \A x \in Members(Q) : x \in Obligation /\ Sound(x)
  <2> SUFFICES ASSUME NEW x \in Members(Q) PROVE x \in Obligation /\ Sound(x)
    OBVIOUS
  <2>1. x \in Obligation
    BY <1>1 DEF Members
  <2>2. x \in Obligations \ {NoObligation}
    BY <2>1 DEF Obligations, Members, Obligation, NoObligation
  <2> QED BY <2>1, <2>2 DEF PathInv
<1>4. s # NoObligation => s \in Obligation /\ Sound(s)
  BY <1>1 DEF Obligations, PathInv
<1>5. \A x \in Members(Q)' \cup ({s'} \ {NoObligation}) : x \in Obligation /\ Sound(x)
  <2>1. CASE PreImageSat
    <3>1. PICK x \in Obligation : Q' = Push(Q, x) /\ Sound(x)
      BY <2>1, PreImageSound
    <3>2. Members(Q)' = Members(Push(Q, x))
      BY <3>1 DEF Members
    <3>3. Members(Push(Q, x)) \subseteq Members(Q) \cup {x}
      BY <1>1, PushMembers
    <3> QED BY <1>3, <1>4, <2>1, <3>1, <3>2, <3>3 DEF PreImageSat
  <2>2. CASE Predecessor
    <3>1. PICK x \in Obligation : Q' = Push(Q, x) /\ Sound(x)
      BY <2>2, PredecessorSound
    <3>2. Members(Q)' = Members(Push(Q, x))
      BY <3>1 DEF Members
    <3>3. Members(Push(Q, x)) \subseteq Members(Q) \cup {x}
      BY <1>1, PushMembers
    <3> QED BY <1>3, <1>4, <2>2, <3>1, <3>2, <3>3 DEF Predecessor
  <2>3. CASE FoundCex \/ Conflict
    <3>1. Q' = RemoveMin /\ s' = Least /\ ~ QEmpty
      BY <2>3 DEF FoundCex, Conflict
    <3>2. Members(Q)' \subseteq Members(Q)
      BY <1>1, <3>1, RemoveMinMembers DEF Members
    <3> QED BY <1>3, <3>1, <3>2, LeastSound
  <2>4. CASE AlreadyBlocked
    <3>1. ~ QEmpty /\ s' = s
      BY <2>4 DEF AlreadyBlocked
    <3>2. PICK f \in BlockedAt(Cube(Least), Least.frame) : Q' = Requeue(RemoveMin, Least, f)
      BY <2>4 DEF AlreadyBlocked
    <3>3. Least \in Obligation /\ Sound(Least)
      BY <3>1, LeastSound
    <3>4. f \in Nat
      BY <1>1, <3>3 DEF BlockedAt, BlockingFrames, Obligation, TypeOK
    <3>5. RemoveMin \in [DOMAIN RemoveMin -> Seq(Obligation) \ {<<>>}]
      BY <1>1, <3>1, RemoveMinType
    <3>6. Members(RemoveMin) \subseteq Members(Q)
      BY <1>1, <3>1, RemoveMinMembers
    <3>7. \A y \in Members(Requeue(RemoveMin, Least, f)) : y \in Members(Q) \/ Sound(y)
      BY <1>1, <3>3, <3>4, <3>5, <3>6, RequeueSound
    <3>8. Members(Q)' = Members(Requeue(RemoveMin, Least, f))
      BY <3>2 DEF Members
    <3> QED BY <1>1, <1>2, <1>3, <1>4, <3>1, <3>7, <3>8, MembersType
  <2>5. CASE AddNewClause
    <3>1. Q' = Requeue(Q, s, s.frame) /\ s' = NoObligation /\ s # NoObligation
      BY <2>5 DEF AddNewClause, PathInv, FrameInv, ObligationHeld
    <3>2. s \in Obligation /\ Sound(s) /\ s.frame \in Nat
      BY <1>4, <3>1 DEF Obligation
    <3>3. \A y \in Members(Requeue(Q, s, s.frame)) : y \in Members(Q) \/ Sound(y)
      BY <1>1, <3>2, RequeueSound
    <3>4. Members(Q)' = Members(Requeue(Q, s, s.frame))
      BY <3>1 DEF Members
    <3> QED BY <1>1, <1>2, <1>3, <3>1, <3>3, <3>4, MembersType
  <2>6. CASE UNCHANGED <<Q, s>>
    BY <1>3, <1>4, <2>6 DEF Members
  <2> QED BY <1>1, <2>1, <2>2, <2>3, <2>4, <2>5, <2>6, StepKeeps
<1>6. \A x \in Obligations' \ {NoObligation} : x \in Obligation /\ Sound(x)
  BY <1>5 DEF Obligations, Members
<1>7. ASSUME NEW x \in Obligations' \ {NoObligation} PROVE Sound(x)'
  <2>1. x \in Obligation /\ Sound(x)
    BY <1>6, <1>7
  <2>2. x.frame \in Nat
    BY <2>1 DEF Obligation
  <2> QED BY <1>2, <2>1, <2>2, SoundStable
<1> QED BY <1>7 DEF NoObligation

-----------------------------------------------------------------------------
(* The clause and its obligation, frame 0, the answer.                     *)

(* Frame 0 is only ever strengthened.                                      *)
LEMMA FirstFrameStep ==
    ASSUME PathInv, [Next]_vars
    PROVE  FirstFrame'
<1>1. TypeOK /\ mgr' = mgr /\ 0 \in 0 .. depth
  BY StepKeeps DEF PathInv, FrameInv, TypeOK
<1>2. Covers(ClausesAt(0)', ClausesAt(0))
  BY <1>1, FramesInductive DEF PathInv, Strengthened
<1>3. ASSUME NEW q \in States(mgr), InFrame(q, 0)' PROVE q \in Initial(mgr)
  <2>1. Satisfies(q, ClausesAt(0)')
    BY <1>3 DEF InFrame, Satisfies
  <2>2. InFrame(q, 0)
    BY <1>2, <2>1, CoversSatisfies DEF InFrame
  <2> QED BY <2>2 DEF PathInv, FirstFrame
<1> QED BY <1>1, <1>3 DEF FirstFrame

(* The literals of the conflict, and the one added for the resets, exclude *)
(* the cube; the frame they hold at is the cube's at least.                *)
LEMMA AboutConflict ==
    ASSUME PathInv, Conflict
    PROVE  AboutObligation'
<1>1. TypeOK /\ depth \in Nat /\ opt' = opt /\ depth' = depth /\ s' = Least
  BY DEF PathInv, FrameInv, TypeOK, Conflict
<1>2. Least \in Obligation /\ Sound(Least) /\ Cube(Least) \in Clause /\ Least.frame \in Nat
  BY LeastSound, PathType DEF Conflict, Obligation
<1>3. PICK core \in SUBSET Cube(Least), g \in Least.frame - 1 .. depth + 1 :
        \E block \in WithReset(Negated(core), Cube(Least)) :
           /\ clause' = block
           /\ gen' = StartGen(block, 1, IF g + 1 < depth THEN g + 1 ELSE depth)
  BY DEF Conflict
<1>4. clause' \subseteq Negated(Cube(Least))
  <2>1. Negated(core) \in Clause /\ Negated(core) \subseteq Negated(Cube(Least))
    BY <1>2, NegatedType, NegatedMonotone DEF Clause
  <2> QED BY <1>2, <1>3, <2>1, WithResetType
<1>5. ~ opt.keep_all => gen'.min_frame >= Least.frame
  <2>1. gen'.min_frame = IF g + 1 < depth THEN g + 1 ELSE depth
    BY <1>3 DEF StartGen
  <2>2. g \in Int /\ g >= Least.frame - 1
    BY <1>1, <1>2
  <2> QED BY <1>1, <1>2, <2>1, <2>2 DEF Sound
<1> QED BY <1>1, <1>4, <1>5 DEF AboutObligation, Cube

(* Dropping literals leaves a part of the clause.                          *)
LEMMA AboutDrop ==
    ASSUME PathInv, GeneralizeDrop
    PROVE  AboutObligation'
<1>1. TypeOK /\ clause \in Clause /\ Building /\ UNCHANGED <<opt, s>>
  BY DEF PathInv, FrameInv, TypeOK, GeneralizeDrop, Building
<1>2. PICK l \in gen.todo :
         /\ \E core \in SUBSET (clause \ {l}) : clause' \in WithReset(core, Negated(clause \ {l}))
         /\ gen' = [gen EXCEPT !.todo = @ \cap clause', !.hyps = Hypotheses(l),
                               !.vacuous = @ \/ (f0 > 0 /\ clause' # clause \ {l})]
  BY DEF GeneralizeDrop
<1>3. gen'.min_frame = gen.min_frame
  BY <1>1, <1>2 DEF TypeOK
<1>4. clause' \subseteq clause
  <2> DEFINE rest == clause \ {l}
  <2>1. PICK core \in SUBSET rest : clause' \in WithReset(core, Negated(rest))
    BY <1>2
  <2>2. rest \in Clause /\ core \in Clause /\ Negated(rest) \in Clause
    BY <1>1, NegatedType DEF Clause
  <2>3. Negated(Negated(rest)) = rest
    BY <1>1, <2>2, NegatedTwice
  <2>4. rest \subseteq clause
    OBVIOUS
  <2> HIDE DEF rest
  <2> QED BY <2>1, <2>2, <2>3, <2>4, WithResetType
<1> QED BY <1>1, <1>3, <1>4 DEF AboutObligation, PathInv, Cube

(* The clause stays about its obligation.                                  *)
LEMMA AboutStep ==
    ASSUME PathInv, [Next]_vars
    PROVE  AboutObligation'
<1>1. TypeOK
  BY DEF PathInv, FrameInv
<1>2. CASE UNCHANGED <<s, clause>> /\ gen'.min_frame = gen.min_frame /\ Building
  BY <1>1, <1>2, StepKeeps DEF AboutObligation, PathInv, Cube
<1>3. CASE ~ Building'
  BY <1>3 DEF AboutObligation
<1> QED BY <1>1, <1>2, <1>3, StepKeeps, AboutConflict, AboutDrop

(* checkCEX accepts what block_cube found.                                 *)
LEMMA CexIsAccepted ==
    ASSUME NEW x \in Obligation, Sound(x), IsCex(x)
    PROVE  CexAccepted(x)
<1> DEFINE n == Len(x.path)
<1>1. n \in Nat \ {0}
  BY PathType
<1>2. IsReset(mgr, Cube(x))
  BY DEF IsCex, Sound
<1>3. \A k \in 1 .. n : \E p \in mgr.constr \cap Good(x.path, k) : InCube(p[1], x.path[k].cube)
  BY DEF Sound, PathLeads, Leads
<1>4. \A k \in 1 .. n - 1 : Good(x.path, k) = StepsInto(x.path[k+1].cube) /\ k \in 1 .. n
  BY <1>1 DEF Good
<1>5. Good(x.path, n) = mgr.bad /\ n \in 1 .. n
  BY <1>1 DEF Good
<1> QED BY <1>2, <1>3, <1>4, <1>5 DEF CexAccepted

(* checkInvariant accepts what propagateClauses found: the clauses marked  *)
(* as subsumed, which are left behind, follow from those that are moved.   *)
LEMMA InvariantIsAccepted ==
    ASSUME PathInv, FoundInvariant
    PROVE  InvariantAccepted(frames'[depth])
<1>0. PICK k : k = fr
  OBVIOUS
<1> DEFINE moved == {e \in UNION {frames[g] : g \in k .. depth - 1} : ~ e.subsumed}
           F == frames[depth] \cup moved
<1>1. /\ FrameInv /\ depth \in Nat /\ depth > 1 /\ k \in 0 .. depth - 1 /\ frames[k] = {}
      /\ frames' = InvariantFrames(k)
  BY <1>0 DEF PathInv, FrameInv, TypeOK, FoundInvariant
<1>2. frames'[depth] = F
  BY <1>1 DEF InvariantFrames
<1>3. ASSUME NEW q, \A e \in F : InClause(q, e.lits) PROVE Satisfies(q, ClausesAt(k))
  <2> SUFFICES ASSUME NEW c \in ClausesAt(k) PROVE InClause(q, c)
    BY DEF Satisfies
  <2>0. PICK g \in k .. depth : \E e \in frames[g] : c = e.lits
    BY ClausesAtMember
  <2>1. PICK e \in frames[g] : c = e.lits
    BY <2>0
  <2>2. g \in 0 .. depth /\ g \in g .. depth
    BY <1>1
  <2>3. PICK h \in g .. depth : \E d \in frames[h] : ~ d.subsumed /\ d.lits \subseteq c
    <3>1. CASE e.subsumed
      BY <1>1, <2>1, <2>2, <3>1 DEF FrameInv, SubsumedCovered
    <3>2. CASE ~ e.subsumed
      BY <2>1, <2>2, <3>2
    <3> QED BY <3>1, <3>2
  <2>6. PICK d \in frames[h] : ~ d.subsumed /\ d.lits \subseteq c
    BY <2>3
  <2>4. d \in F
    <3>1. CASE h = depth
      BY <3>1
    <3>2. CASE h # depth
      <4>1. h \in k .. depth - 1
        BY <1>1, <3>2
      <4> QED BY <2>6, <4>1
    <3> QED BY <3>1, <3>2
  <2>5. InClause(q, d.lits)
    BY <1>3, <2>4
  <2> QED BY <2>6, <2>5 DEF InClause
<1>4. ASSUME NEW q, Satisfies(q, ClausesAt(k)), NEW e \in F PROVE InClause(q, e.lits)
  <2>1. PICK g \in k .. depth : e \in frames[g]
    <3>1. CASE e \in frames[depth]
      BY <1>1, <3>1
    <3>2. CASE e \in moved
      <4>1. PICK g \in k .. depth - 1 : e \in frames[g]
        BY <3>2
      <4>2. g \in k .. depth
        BY <1>1
      <4> QED BY <4>1, <4>2
    <3> QED BY <3>1, <3>2
  <2>2. e.lits \in ClausesAt(k)
    BY <2>1, ClausesAtMember
  <2> QED BY <1>4, <2>2 DEF Satisfies
<1> HIDE DEF F
<1>5. ASSUME NEW p \in mgr.constr, \A e \in F : InClause(p[1], e.lits)
      PROVE  p \notin mgr.bad /\ \A e \in F : InClause(mgr.next[p], e.lits)
  <2>1. Satisfies(p[1], ClausesAt(k))
    BY <1>3, <1>5
  <2>2. Satisfies(mgr.next[p], ClausesAt(k))
    BY <1>1, <2>1, EmptyFrameSafe
  <2>3. p \notin mgr.bad
    <3>1. ClausesAt(depth - 1) \subseteq ClausesAt(k)
      BY <1>1, ClausesAtMonotone DEF FrameInv
    <3>2. p \in mgr.bad => p \in BadModels(depth - 1)
      BY <2>1, <3>1 DEF BadModels, Satisfies
    <3> QED BY <1>1, <3>2 DEF FrameInv, EarlierFramesGood
  <2> QED BY <1>4, <2>2, <2>3
<1> QED BY <1>2, <1>5 DEF InvariantAccepted

(* Nothing happens after the answer.                                       *)
LEMMA DoneStops ==
    ASSUME [Next]_vars, pc = "done"
    PROVE  UNCHANGED vars
BY DEF Next, PreImageSat, PreImageUnsat, FoundCex, AlreadyBlocked, Predecessor, Conflict,
       BlockCubeDone, GeneralizeSkip, GeneralizeKeep, GeneralizeDrop, GeneralizeRound,
       AddNewClause, PropagateFrame, FoundInvariant, PropagateDone

(* The answer stands, and the double check of it never fails.              *)
LEMMA AnswerStep ==
    ASSUME PathInv, [Next]_vars
    PROVE  Answer'
<1>1. TypeOK /\ mgr' = mgr
  BY StepKeeps DEF PathInv, FrameInv
<1>2. CASE FoundCex
  <2>1. Least \in Obligation /\ Sound(Least) /\ IsCex(Least) /\ s' = Least
    BY <1>2, LeastSound DEF FoundCex
  <2>2. CexAccepted(Least) /\ Least # NoObligation
    BY <2>1, CexIsAccepted DEF Obligation, NoObligation
  <2>3. verdict' = "SAT" /\ pc' = "done"
    BY <1>2, <2>2 DEF FoundCex
  <2> QED BY <1>1, <2>1, <2>2, <2>3 DEF Answer, CexAccepted, Cube, NoObligation
<1>3. CASE FoundInvariant
  <2>1. verdict' = "UNSAT" /\ pc' = "done"
    BY <1>3, InvariantIsAccepted DEF FoundInvariant
  <2> QED BY <2>1 DEF Answer
<1>4. CASE UNCHANGED verdict /\ (pc = "done" <=> pc' = "done")
  <2>1. CASE verdict = "SAT"
    <3>1. pc = "done"
      BY <2>1 DEF PathInv, Answer
    <3>2. UNCHANGED s
      BY <3>1, DoneStops DEF vars
    <3> QED BY <1>1, <1>4, <2>1, <3>2 DEF PathInv, Answer, Cube, NoObligation
  <2>2. CASE verdict # "SAT"
    BY <1>4, <2>2 DEF PathInv, Answer
  <2> QED BY <2>1, <2>2
<1> QED BY <1>1, <1>2, <1>3, <1>4, StepKeeps

-----------------------------------------------------------------------------
(* The invariant is inductive.                                             *)

(* It holds at first: no obligation was made.                              *)
LEMMA PathInit == Init => PathInv
<1> SUFFICES ASSUME Init PROVE PathInv
  OBVIOUS
<1>1. FrameInv /\ mgr \in Circuits
  BY FrameInit DEF Init
<1>2. FirstFrame
  <2> SUFFICES ASSUME NEW q \in States(mgr), InFrame(q, 0), NEW x \in mgr.latches
               PROVE  q[x] \in mgr.resets[x]
    BY DEF FirstFrame, Initial
  <2>1. /\ q[x] \in BOOLEAN
        /\ mgr.resets[x] \in SUBSET BOOLEAN /\ mgr.resets[x] # {}
    <3>1. mgr.resets \in [mgr.latches -> (SUBSET BOOLEAN) \ {{}}]
      BY <1>1 DEF FrameInv, TypeOK, IsCircuit
    <3>2. mgr.resets[x] \in (SUBSET BOOLEAN) \ {{}}
      BY <3>1
    <3>3. \A S : S \in (SUBSET BOOLEAN) \ {{}} => S \in SUBSET BOOLEAN /\ S # {}
      BY Zenon
    <3>4. mgr.resets[x] \in SUBSET BOOLEAN /\ mgr.resets[x] # {}
      BY <3>2, <3>3, Zenon
    <3>5. q[x] \in BOOLEAN
      BY DEF States
    <3> QED BY <3>4, <3>5, Zenon
  <2>2. ASSUME NEW v \in BOOLEAN, mgr.resets[x] = {v} PROVE q[x] = v
    <3> DEFINE l == <<x, v>>
    <3>1. l \in Lits(mgr) /\ SatisfiesReset(mgr, l)
      BY <2>2 DEF Lits, SatisfiesReset
    <3>2. [lits |-> {l}, subsumed |-> FALSE] \in frames[0] /\ 0 \in 0 .. depth
      <4>1. /\ depth = 1
            /\ frames[0] = {[lits |-> {j}, subsumed |-> FALSE] :
                               j \in {k \in Lits(mgr) : SatisfiesReset(mgr, k)}}
        BY DEF Init
      <4>2. l \in {k \in Lits(mgr) : SatisfiesReset(mgr, k)}
        BY <3>1
      <4> HIDE DEF l
      <4>3. [lits |-> {l}, subsumed |-> FALSE] \in frames[0]
        BY <4>1, <4>2, Zenon
      <4>4. 0 \in 0 .. depth
        BY DEF Init
      <4> QED BY <4>3, <4>4, Zenon
    <3>3. {l} \in ClausesAt(0)
      <4>1. [lits |-> {l}, subsumed |-> FALSE].lits = {l}
        OBVIOUS
      <4> HIDE DEF l
      <4> QED BY <3>2, <4>1, ClausesAtMember
    <3>4. InClause(q, {l})
      <4> HIDE DEF l
      <4> QED BY <3>3 DEF InFrame, Satisfies
    <3> QED BY <3>4 DEF InClause, TrueIn
  <2> SUFFICES ASSUME q[x] \notin mgr.resets[x] PROVE FALSE
    OBVIOUS
  <2>3. PICK v \in mgr.resets[x] : v \in BOOLEAN /\ v # q[x]
    <3>2. PICK v \in mgr.resets[x] : TRUE
      BY <2>1, Zenon
    <3>3. v \in BOOLEAN
      BY <2>1, Zenon
    <3>4. v # q[x]
      BY Zenon
    <3> QED BY <3>3, <3>4, Zenon
  <2>4. \A w \in mgr.resets[x] : w = v
    <3>1. \A w \in mgr.resets[x] : w \in BOOLEAN /\ w # q[x]
      BY <2>1
    <3> QED BY <2>1, <2>3, <3>1
  <2>5. mgr.resets[x] = {v}
    BY <2>3, <2>4
  <2> QED BY <2>2, <2>3, <2>5
<1>3. Obligations \ {NoObligation} = {}
  BY DEF Obligations, Init
<1> QED BY <1>1, <1>2, <1>3 DEF PathInv, Init, AboutObligation, Building, Answer

(* Every step keeps it.                                                    *)
LEMMA PathInductive == PathInv /\ [Next]_vars => PathInv'
<1> SUFFICES ASSUME PathInv, [Next]_vars PROVE PathInv'
  OBVIOUS
<1>1. FrameInv' /\ (mgr \in Circuits)'
  BY FrameInductive, StepKeeps DEF PathInv, FrameInv
<1> QED BY <1>1, FirstFrameStep, SoundStep, AboutStep, AnswerStep DEF PathInv

(* It holds always.                                                        *)
LEMMA PathInvHolds == Spec => []PathInv
BY PathInit, PathInductive, PTL DEF Spec

-----------------------------------------------------------------------------
(* The counterexample.                                                     *)

(* Replay is what its equations say.                                       *)
LEMMA ReplayIs ==
    ASSUME TypeOK, NEW x \in Obligation, NEW q \in States(mgr)
    PROVE  LET run == Replay(x.path, q)
           IN  /\ run[1] = q
               /\ \A k \in 1 .. Len(x.path) : run[k] \in States(mgr)
               /\ \A k \in 1 .. Len(x.path) - 1 :
                     run[k+1] = mgr.next[<<run[k], x.path[k].input>>]
<1> DEFINE n == Len(x.path)
           step == [y \in States(mgr) \X (1 .. n - 1) |-> mgr.next[<<y[1], x.path[y[2]].input>>]]
<1>1. n \in Nat \ {0} /\ \A k \in 1 .. n : x.path[k].input \in mgr.inputs
  BY PathType DEF PathElement
<1>2. step \in [States(mgr) \X (1 .. n - 1) -> States(mgr)]
  <2> SUFFICES ASSUME NEW y \in States(mgr) \X (1 .. n - 1)
               PROVE  mgr.next[<<y[1], x.path[y[2]].input>>] \in States(mgr)
    OBVIOUS
  <2>1. y[1] \in States(mgr) /\ y[2] \in 1 .. n
    BY <1>1
  <2>2. <<y[1], x.path[y[2]].input>> \in Steps(mgr)
    BY <1>1, <2>1 DEF Steps
  <2> QED BY <2>2 DEF TypeOK, IsCircuit
<1>3. PICK g \in [0 .. n - 1 -> States(mgr)] :
        g[0] = q /\ \A k \in 1 .. n - 1 : g[k] = step[<<g[k-1], k>>]
  <2>1. n - 1 \in Nat
    BY <1>1
  <2> HIDE DEF step, n
  <2>2. \E g : IsRecursive(g, States(mgr), q, n - 1, step)
    BY <1>2, <2>1, Recursion
  <2> QED BY <2>2 DEF IsRecursive
<1>4. \A k \in 1 .. n - 1 : g[k] = mgr.next[<<g[k-1], x.path[k].input>>]
  <2> SUFFICES ASSUME NEW k \in 1 .. n - 1 PROVE g[k] = mgr.next[<<g[k-1], x.path[k].input>>]
    OBVIOUS
  <2>1. g[k-1] \in States(mgr)
    <3>1. k - 1 \in 0 .. n - 1
      BY <1>1
    <3> HIDE DEF step, n
    <3> QED BY <1>3, <3>1
  <2>2. step[<<g[k-1], k>>] = mgr.next[<<g[k-1], x.path[k].input>>]
    BY <2>1
  <2> QED BY <1>3, <2>2
<1> DEFINE Eq(f) == [k \in 1 .. n |-> IF k = 1 THEN q
                                      ELSE mgr.next[<<f[k-1], x.path[k-1].input>>]]
           f == [k \in 1 .. n |-> g[k-1]]
           run == CHOOSE h : h = Eq(h)
<1>5. f = Eq(f)
  <2> SUFFICES ASSUME NEW k \in 1 .. n
               PROVE  f[k] = IF k = 1 THEN q ELSE mgr.next[<<f[k-1], x.path[k-1].input>>]
    OBVIOUS
  <2>1. CASE k = 1
    BY <1>3, <2>1
  <2>2. CASE k # 1
    <3>1. k - 1 \in 1 .. n - 1 /\ k - 1 \in 1 .. n
      BY <1>1, <2>2
    <3>2. f[k-1] = g[k-1-1] /\ f[k] = g[k-1]
      BY <3>1
    <3> QED BY <1>4, <2>2, <3>1, <3>2
  <2> QED BY <2>1, <2>2
<1>6. run = Eq(run)
  <2> HIDE DEF Eq, f
  <2> QED BY <1>5
<1>7. Replay(x.path, q) = run
  BY DEF Replay
<1> HIDE DEF run
<1>8. run[1] = q /\ \A k \in 1 .. n - 1 : run[k+1] = mgr.next[<<run[k], x.path[k].input>>]
  <2>1. \A k \in 1 .. n : run[k] = IF k = 1 THEN q ELSE mgr.next[<<run[k-1], x.path[k-1].input>>]
    BY <1>6
  <2>2. 1 \in 1 .. n
    BY <1>1
  <2>3. ASSUME NEW k \in 1 .. n - 1 PROVE run[k+1] = mgr.next[<<run[k], x.path[k].input>>]
    <3>1. k + 1 \in 1 .. n /\ k + 1 # 1 /\ (k + 1) - 1 = k
      BY <1>1
    <3> QED BY <2>1, <3>1
  <2> QED BY <2>1, <2>2, <2>3
<1>9. 1 .. n \subseteq {k \in 1 .. n : run[k] \in States(mgr)}
  <2> DEFINE T == {k \in 1 .. n : run[k] \in States(mgr)}
  <2>1. 1 \in T
    BY <1>1, <1>8
  <2>2. ASSUME NEW k \in 1 .. n - 1, k \in T PROVE k + 1 \in T
    <3>1. <<run[k], x.path[k].input>> \in Steps(mgr)
      BY <1>1, <2>2 DEF Steps
    <3> QED BY <1>1, <1>8, <3>1 DEF TypeOK, IsCircuit
  <2>3. 1 .. n \subseteq T
    <3> HIDE DEF T, n
    <3> QED BY <1>1, <2>1, <2>2, Climb
  <2> QED BY <2>3
<1> QED BY <1>7, <1>8, <1>9

(* A cube that no known reset value contradicts, and that some state is in,*)
(* has a reset state.                                                      *)
LEMMA ResetState ==
    ASSUME TypeOK, NEW c \in Clause, IsReset(mgr, c), NEW p \in States(mgr), InCube(p, c)
    PROVE  \E q \in Initial(mgr) : InCube(q, c)
<1> DEFINE q == [y \in mgr.latches |-> IF p[y] \in mgr.resets[y] THEN p[y]
                                       ELSE CHOOSE v : v \in mgr.resets[y]]
<1>1. mgr.resets \in [mgr.latches -> (SUBSET BOOLEAN) \ {{}}]
  BY DEF TypeOK, IsCircuit
<1>2. ASSUME NEW y \in mgr.latches PROVE q[y] \in mgr.resets[y] /\ q[y] \in BOOLEAN
  <2>1. mgr.resets[y] \in SUBSET BOOLEAN /\ mgr.resets[y] # {}
    BY <1>1
  <2>2. \E v : v \in mgr.resets[y]
    BY <2>1
  <2>3. q[y] \in mgr.resets[y]
    BY <2>2
  <2> QED BY <2>1, <2>3, Zenon
<1>3. q \in Initial(mgr)
  BY <1>2 DEF Initial, States
<1>4. InCube(q, c)
  <2> SUFFICES ASSUME NEW l \in c PROVE q[l[1]] = l[2]
    BY DEF InCube, TrueIn
  <2>1. l[1] \in mgr.latches
    BY DEF Clause, Lits
  <2>2. p[l[1]] = l[2] /\ l[2] \in mgr.resets[l[1]]
    BY DEF InCube, TrueIn, IsReset
  <2> QED BY <2>1, <2>2
<1> QED BY <1>3, <1>4

(* Played from a reset state in the first cube, the inputs go through the  *)
(* cubes to a bad step, and the states on the way are reachable.           *)
LEMMA PathRuns ==
    ASSUME TypeOK, Exact, NEW x \in Obligation, PathLeads(x.path),
           NEW q \in Initial(mgr), InCube(q, Cube(x))
    PROVE  LET run == Replay(x.path, q)
               n   == Len(x.path)
           IN  /\ \A k \in 1 .. n : /\ InCube(run[k], x.path[k].cube)
                                    /\ <<run[k], x.path[k].input>> \in mgr.constr
                                    /\ run[k] \in Reachable(mgr)
               /\ <<run[n], x.path[n].input>> \in mgr.bad
<1> DEFINE run == Replay(x.path, q)
           n   == Len(x.path)
<1>1. n \in Nat \ {0} /\ q \in States(mgr) /\ \A k \in 1 .. n : x.path[k].input \in mgr.inputs
  BY PathType DEF PathElement, Initial
<1>2. /\ run[1] = q
      /\ \A k \in 1 .. n : run[k] \in States(mgr)
      /\ \A k \in 1 .. n - 1 : run[k+1] = mgr.next[<<run[k], x.path[k].input>>]
  BY <1>1, ReplayIs
<1> HIDE DEF run
<1>3. ASSUME NEW k \in 1 .. n, InCube(run[k], x.path[k].cube)
      PROVE  /\ <<run[k], x.path[k].input>> \in mgr.constr
             /\ <<run[k], x.path[k].input>> \in Good(x.path, k)
  BY <1>2, <1>3 DEF PathLeads, Leads, Forced
<1>4. 1 .. n \subseteq {k \in 1 .. n : InCube(run[k], x.path[k].cube)}
  <2> DEFINE T == {k \in 1 .. n : InCube(run[k], x.path[k].cube)}
  <2>1. 1 \in T
    BY <1>1, <1>2 DEF Cube
  <2>2. ASSUME NEW k \in 1 .. n - 1, k \in T PROVE k + 1 \in T
    <3>1. k \in 1 .. n /\ k + 1 \in 1 .. n /\ Good(x.path, k) = StepsInto(x.path[k+1].cube)
      BY <1>1 DEF Good
    <3>2. <<run[k], x.path[k].input>> \in StepsInto(x.path[k+1].cube)
      BY <1>3, <2>2, <3>1
    <3>3. InCube(mgr.next[<<run[k], x.path[k].input>>], x.path[k+1].cube)
      BY <3>2 DEF StepsInto
    <3> QED BY <1>2, <3>1, <3>3
  <2>3. 1 .. n \subseteq T
    <3> HIDE DEF T, n
    <3> QED BY <1>1, <2>1, <2>2, Climb
  <2> QED BY <2>3
<1>5. ASSUME NEW X \in SUBSET States(mgr), Initial(mgr) \subseteq X, Closed(mgr, X)
      PROVE  1 .. n \subseteq {k \in 1 .. n : run[k] \in X}
  <2> DEFINE T == {k \in 1 .. n : run[k] \in X}
  <2>1. 1 \in T
    BY <1>1, <1>2, <1>5
  <2>2. ASSUME NEW k \in 1 .. n - 1, k \in T PROVE k + 1 \in T
    <3>1. k \in 1 .. n /\ k + 1 \in 1 .. n
      BY <1>1
    <3> DEFINE p == <<run[k], x.path[k].input>>
    <3>2. p \in mgr.constr /\ p \in Steps(mgr) /\ p[1] \in X
      BY <1>1, <1>2, <1>3, <1>4, <2>2, <3>1 DEF Steps
    <3>3. mgr.next[p] \in X
      BY <1>5, <3>2 DEF Closed
    <3> QED BY <1>2, <3>1, <3>3
  <2>3. 1 .. n \subseteq T
    <3> HIDE DEF T, n
    <3> QED BY <1>1, <2>1, <2>2, Climb
  <2> QED BY <2>3
<1>6. \A k \in 1 .. n : run[k] \in Reachable(mgr)
  BY <1>2, <1>5 DEF Reachable
<1>7. <<run[n], x.path[n].input>> \in mgr.bad
  <2>1. n \in 1 .. n /\ Good(x.path, n) = mgr.bad
    BY <1>1 DEF Good
  <2> QED BY <1>3, <1>4, <2>1
<1> QED BY <1>3, <1>4, <1>6, <1>7 DEF run

(* So a counterexample that is printed is one.                             *)
LEMMA SatAnswer ==
    ASSUME PathInv, Exact, verdict = "SAT"
    PROVE  WitnessReplays /\ ~ Safe(mgr)
<1>1. TypeOK /\ s # NoObligation /\ IsReset(mgr, Cube(s))
  BY DEF PathInv, FrameInv, Answer
<1>2. s \in Obligation /\ Sound(s)
  BY <1>1 DEF TypeOK, PathInv, Obligations
<1>3. Cube(s) \in Clause /\ PathLeads(s.path) /\ 1 \in 1 .. Len(s.path)
  BY <1>2, PathType DEF Sound
<1>4. \E q \in Initial(mgr) : InCube(q, Cube(s))
  <2>1. PICK p \in mgr.constr : InCube(p[1], Cube(s))
    BY <1>3 DEF PathLeads, Leads, Cube
  <2>2. p[1] \in States(mgr)
    BY <1>1 DEF TypeOK, IsCircuit, Steps
  <2> QED BY <1>1, <1>3, <2>1, <2>2, ResetState
<1>5. WitnessReplays
  BY <1>1, <1>2, <1>3, <1>4, PathRuns DEF WitnessReplays
<1>6. ~ Safe(mgr)
  <2>1. PICK q \in Initial(mgr) : InCube(q, Cube(s))
    BY <1>4
  <2> DEFINE n == Len(s.path)
             p == <<Replay(s.path, q)[n], s.path[n].input>>
  <2>2. n \in 1 .. n
    BY <1>2, PathType
  <2>3. p \in mgr.bad \cap mgr.constr /\ p[1] \in Reachable(mgr)
    BY <1>1, <1>2, <1>3, <2>1, <2>2, PathRuns
  <2> QED BY <2>3 DEF Safe
<1> QED BY <1>5, <1>6

-----------------------------------------------------------------------------
(* The class implements ModelChecking.                                     *)

(* Within is what its equations say.                                       *)
LEMMA WithinIs ==
    ASSUME TypeOK, NEW n \in Nat
    PROVE  \E g \in [0 .. n -> SUBSET States(mgr)] :
              /\ g[0] = Initial(mgr)
              /\ \A k \in 1 .. n :
                    g[k] = g[k-1] \cup {mgr.next[p] : p \in {r \in mgr.constr : r[1] \in g[k-1]}}
              /\ Promise!Within(n) = g[n]
<1> DEFINE Image(X) == X \cup {mgr.next[p] : p \in {r \in mgr.constr : r[1] \in X}}
           step == [y \in (SUBSET States(mgr)) \X (1 .. n) |-> Image(y[1])]
<1>1. Initial(mgr) \in SUBSET States(mgr)
  BY DEF Initial
<1>2. \A X \in SUBSET States(mgr) : Image(X) \in SUBSET States(mgr)
  BY DEF TypeOK, IsCircuit
<1> HIDE DEF Image
<1>3. step \in [(SUBSET States(mgr)) \X (1 .. n) -> SUBSET States(mgr)]
  BY <1>2
<1>4. PICK g \in [0 .. n -> SUBSET States(mgr)] :
        g[0] = Initial(mgr) /\ \A k \in 1 .. n : g[k] = step[<<g[k-1], k>>]
  <2>1. PICK S, a : S = SUBSET States(mgr) /\ a = Initial(mgr)
    OBVIOUS
  <2>2. a \in S /\ step \in [S \X (1 .. n) -> S]
    BY <1>1, <1>3, <2>1
  <2> HIDE DEF step
  <2>3. \E g \in [0 .. n -> S] : g[0] = a /\ \A k \in 1 .. n : g[k] = step[<<g[k-1], k>>]
    BY <2>2, Recursion DEF IsRecursive
  <2> QED BY <2>1, <2>3
<1>5. \A k \in 1 .. n : g[k] = Image(g[k-1])
  <2> SUFFICES ASSUME NEW k \in 1 .. n PROVE g[k] = Image(g[k-1])
    OBVIOUS
  <2>1. g[k-1] \in SUBSET States(mgr)
    BY <1>4
  <2>2. step[<<g[k-1], k>>] = Image(g[k-1])
    BY <2>1
  <2> QED BY <1>4, <2>2
<1> DEFINE Eq(f) == [k \in 0 .. n |-> IF k = 0 THEN Initial(mgr) ELSE Image(f[k-1])]
           reach == CHOOSE f : f = Eq(f)
<1>6. g = Eq(g)
  BY <1>4, <1>5
<1>7. reach = Eq(reach)
  <2> HIDE DEF Eq
  <2> QED BY <1>6
<1>8. Promise!Within(n) = reach[n]
  BY DEF Promise!Within, Image, Promise!Initial, Initial, Promise!States, States
<1> HIDE DEF reach
<1>9. reach[0] = Initial(mgr) /\ \A k \in 1 .. n : reach[k] = Image(reach[k-1])
  <2>1. \A k \in 0 .. n : reach[k] = IF k = 0 THEN Initial(mgr) ELSE Image(reach[k-1])
    BY <1>7
  <2> QED BY <2>1
<1>10. 0 .. n \subseteq {k \in 0 .. n : reach[k] = g[k]}
  <2> DEFINE T == {k \in 0 .. n : reach[k] = g[k]}
  <2>1. 0 \in T
    BY <1>4, <1>9
  <2>2. ASSUME NEW k \in 0 .. n - 1, k \in T PROVE k + 1 \in T
    <3>1. k + 1 \in 1 .. n /\ k + 1 \in 0 .. n /\ k + 1 - 1 = k
      OBVIOUS
    <3> QED BY <1>5, <1>9, <2>2, <3>1
  <2>3. 0 .. n \subseteq T
    <3> HIDE DEF T
    <3> QED BY <2>1, <2>2, Climb
  <2> QED BY <2>3
<1>11. Promise!Within(n) = g[n]
  <2>1. n \in 0 .. n
    OBVIOUS
  <2> QED BY <1>8, <1>10, <2>1
<1> QED BY <1>4, <1>5, <1>11 DEF Image

(* What is reached in n steps is in frame n.                               *)
LEMMA WithinFrame ==
    ASSUME FrameInv, NEW n \in 0 .. depth, NEW q \in Promise!Within(n)
    PROVE  Satisfies(q, ClausesAt(n))
<1>1. TypeOK /\ depth \in Nat /\ n \in Nat
  BY DEF FrameInv, TypeOK
<1>2. PICK g \in [0 .. n -> SUBSET States(mgr)] :
              /\ g[0] = Initial(mgr)
              /\ \A k \in 1 .. n :
                    g[k] = g[k-1] \cup {mgr.next[p] : p \in {r \in mgr.constr : r[1] \in g[k-1]}}
              /\ Promise!Within(n) = g[n]
  BY <1>1, WithinIs
<1> DEFINE T == {k \in 0 .. n : \A r \in g[k] : Satisfies(r, ClausesAt(k))}
<1>3. 0 \in T
  BY <1>1, <1>2 DEF FrameInv, FramesInitial, InFrame
<1>4. ASSUME NEW k \in 0 .. n - 1, k \in T PROVE k + 1 \in T
  <2>1. /\ k + 1 \in 1 .. n /\ k + 1 \in 0 .. n /\ k + 1 - 1 = k
        /\ k \in 0 .. depth - 1 /\ k \in Int /\ k + 1 \in Int
    BY <1>1
  <2>2. g[k+1] = g[k] \cup {mgr.next[p] : p \in {r \in mgr.constr : r[1] \in g[k]}}
    BY <1>2, <2>1
  <2>3. ASSUME NEW r \in g[k+1] PROVE Satisfies(r, ClausesAt(k + 1))
    <3>1. CASE r \in g[k]
      <4>1. ClausesAt(k + 1) \subseteq ClausesAt(k)
        BY <1>1, <2>1, ClausesAtMonotone
      <4> QED BY <1>4, <3>1, <4>1 DEF Satisfies
    <3>2. CASE r \notin g[k]
      <4>1. PICK p \in mgr.constr : p[1] \in g[k] /\ r = mgr.next[p]
        BY <2>2, <2>3, <3>2
      <4>2. Satisfies(p[1], ClausesAt(k))
        BY <1>4, <4>1
      <4> QED BY <2>1, <4>1, <4>2 DEF FrameInv, FramesStep
    <3> QED BY <3>1, <3>2
  <2> QED BY <2>1, <2>3
<1>5. 0 .. n \subseteq T
  <2> HIDE DEF T
  <2> QED BY <1>1, <1>3, <1>4, Climb
<1>6. n \in 0 .. n
  BY <1>1
<1> QED BY <1>2, <1>5, <1>6

(* "Safe" means the same to both.                                          *)
LEMMA PromiseSafe == Promise!Safe(mgr) <=> Safe(mgr)
<1>1. Promise!States(mgr) = States(mgr) /\ Promise!Steps(mgr) = Steps(mgr)
  BY DEF Promise!States, States, Promise!Steps, Steps
<1>2. Promise!Initial(mgr) = Initial(mgr)
  BY <1>1 DEF Promise!Initial, Initial
<1>3. \A X : Promise!Closed(mgr, X) <=> Closed(mgr, X)
  BY <1>1 DEF Promise!Closed, Closed
<1>4. Promise!Reachable(mgr) = Reachable(mgr)
  BY <1>1, <1>2, <1>3 DEF Promise!Reachable, Reachable
<1> QED BY <1>4 DEF Promise!Safe, Safe

(* Initial states map to initial states.                                   *)
LEMMA PromiseInit == Init => Promise!Init
BY DEF Init, Promise!Init

(* A step opens a frame, answers, or leaves the promise as it is.          *)
LEMMA PromiseStep ==
    ASSUME PathInv, PathInv', Exact, Exact', [Next]_vars
    PROVE  [Promise!Next]_Promise!vars
<1>1. FrameInv /\ TypeOK /\ depth \in Nat \ {0} /\ mgr' = mgr
  BY StepKeeps DEF PathInv, FrameInv, TypeOK
<1>2. CASE PreImageUnsat
  <2>1. depth' = depth + 1 /\ verdict' = verdict /\ verdict = "none" /\ BadModels(depth) = {}
    BY <1>2 DEF PreImageUnsat, PathInv, Answer
  <2>2. Promise!GoodFor(depth + 1)
    <3>1. \A q \in Promise!Within(depth) : Satisfies(q, ClausesAt(depth))
      BY <1>1, WithinFrame
    <3>2. PICK k : k = depth + 1 /\ k - 1 = depth
      BY <1>1
    <3>3. ASSUME NEW p \in mgr.bad \cap mgr.constr PROVE p[1] \notin Promise!Within(depth)
      <4>1. ~ Satisfies(p[1], ClausesAt(depth))
        BY <2>1 DEF BadModels
      <4> QED BY <3>1, <4>1
    <3>4. Promise!GoodFor(k)
      BY <3>2, <3>3 DEF Promise!GoodFor
    <3> QED BY <3>2, <3>4
  <2> QED BY <1>1, <2>1, <2>2 DEF Promise!Next, Promise!Deepen
<1>3. CASE FoundCex
  <2>1. depth' = depth /\ pc = "block"
    BY <1>3 DEF FoundCex
  <2>2. verdict = "none" /\ verdict' = "SAT"
    BY <1>3, <2>1 DEF FoundCex, PathInv, Answer
  <2>3. ~ Safe(mgr)
    <3>1. (~ Safe(mgr))'
      <4>1. (PathInv /\ Exact /\ verdict = "SAT" => ~ Safe(mgr))'
        BY SatAnswer, PTL
      <4> QED BY <2>2, <4>1
    <3> QED BY <1>1, <3>1
  <2>4. depth > 1 => Promise!GoodFor(depth)
    <3> SUFFICES ASSUME depth > 1 PROVE Promise!GoodFor(depth)
      OBVIOUS
    <3>1. depth - 1 \in 0 .. depth
      BY <1>1
    <3>2. \A q \in Promise!Within(depth - 1) : Satisfies(q, ClausesAt(depth - 1))
      BY <1>1, <3>1, WithinFrame
    <3> QED BY <1>1, <3>2 DEF Promise!GoodFor, FrameInv, EarlierFramesGood, BadModels
  <2> QED BY <1>1, <2>1, <2>2, <2>3, <2>4, PromiseSafe DEF Promise!Next, Promise!AnswerSat
<1>4. CASE FoundInvariant
  <2>1. depth' = depth /\ pc = "propagate" /\ Safe(mgr)
    BY <1>1, <1>4, FramesFoundInvariant DEF FoundInvariant
  <2>2. verdict = "none" /\ verdict' = "UNSAT"
    BY <1>4, <2>1 DEF FoundInvariant, PathInv, Answer
  <2> QED BY <1>1, <2>1, <2>2, PromiseSafe DEF Promise!Next, Promise!AnswerUnsat
<1>5. CASE UNCHANGED <<depth, verdict>>
  BY <1>1, <1>5 DEF Promise!vars
<1> QED BY <1>1, <1>2, <1>3, <1>4, <1>5, StepKeeps DEF PreImageUnsat

-----------------------------------------------------------------------------
(* The theorems.                                                           *)

(* Every obligation's path leads to a bad step, from any of its states.    *)
THEOREM PathsLead == Spec => []PathsForced
<1>1. PathInv => PathsForced
  <2> SUFFICES ASSUME PathInv, NEW x \in Obligations, NEW k \in 1 .. Len(x.path)
               PROVE  Forced(x.path[k], IF k = Len(x.path) THEN mgr.bad
                                        ELSE StepsInto(x.path[k+1].cube))
    BY DEF PathsForced
  <2>1. x # NoObligation
    BY DEF NoObligation
  <2>2. Leads(x.path[k], Good(x.path, k))
    BY <2>1 DEF PathInv, Sound, PathLeads
  <2> QED BY <2>2 DEF Leads, Good
<1> QED BY <1>1, PathInvHolds, PTL

(* The clause added is about its obligation, and holds as high as it is,   *)
(* unless -queue-forward-all puts obligations after the last frame.        *)
THEOREM BlocksObligation == Spec => [](~ opt.keep_all => ClauseBlocks)
<1>1. PathInv => (~ opt.keep_all => ClauseBlocks)
  BY DEF PathInv, AboutObligation, Building, ClauseBlocks
<1> QED BY <1>1, PathInvHolds, PTL

(* The double check of the answer (-verify) never fails, with constraints  *)
(* and without.                                                            *)
THEOREM ChecksPass == Spec => [](verdict # "error")
<1>1. PathInv => verdict # "error"
  BY DEF PathInv, Answer
<1> QED BY <1>1, PathInvHolds, PTL

(* The counterexample is an execution, if no reduction ignores constraints.*)
THEOREM WitnessCorrect == Spec => [](Exact => WitnessReplays)
<1>1. PathInv => (Exact => WitnessReplays)
  BY SatAnswer DEF WitnessReplays
<1> QED BY <1>1, PathInvHolds, PTL

(* So both answers are right.                                              *)
THEOREM AnswersCorrect == Spec => [](Exact => VerdictCorrect)
<1>1. PathInv => (Exact => VerdictCorrect)
  BY SatAnswer DEF VerdictCorrect, PathInv, FrameInv, Answer
<1> QED BY <1>1, PathInvHolds, PTL

(* The class implements ModelChecking: the depth it has reached is a bound *)
(* below which nothing is bad, and its answer is the answer.               *)
THEOREM Implements == Spec /\ Exact => ImplementsModelChecking
<1>1. Exact /\ [Next]_vars /\ PathInv => Exact'
  BY StepKeeps DEF Exact, PathInv, FrameInv
<1>2. PathInv /\ PathInv' /\ Exact /\ Exact' /\ [Next]_vars => [Promise!Next]_Promise!vars
  BY PromiseStep
<1> QED BY <1>1, <1>2, PromiseInit, PathInvHolds, PTL DEF Spec, ImplementsModelChecking, Promise!Spec

=============================================================================

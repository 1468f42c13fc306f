-------------------------------- MODULE IC3 --------------------------------
(***************************************************************************)
(* The IC3 class (ic3/ic3.h): the main loop solve(), with everything it    *)
(* calls: pre_image, block_cube, addNewClause, generalize,                 *)
(* propagateClauses, the subsumption marking, and the final checks of the  *)
(* proof or of the counterexample.                                         *)
(*                                                                         *)
(* One action stands for what the code does between two answers of the SAT *)
(* solver that its control flow branches on.  The solver is used through   *)
(* its contract: an answer "satisfiable" comes with ANY model of the       *)
(* query, an answer "unsatisfiable" with ANY subset of the assumptions     *)
(* that is already unsatisfiable (S.conflict).  Ternary simulation is used *)
(* through its contract too: it keeps any part of the cube whose step is   *)
(* still forced.  These choices are what varies from run to run in the     *)
(* program, since they hang on the activity heuristics of the solver.      *)
(*                                                                         *)
(* frames[f] holds the clauses whose HIGHEST frame is f, so the clauses    *)
(* that hold at frame f are those of frames[f], ..., frames[depth].        *)
(***************************************************************************)
EXTENDS TransitionSystem, Sequences

CONSTANTS
    Circuits,   \* the circuits that may be read
    Options     \* the settings of the command-line options to consider

\* Every circuit is well formed (TransitionSystem says what its parts mean).
ASSUME CircuitAssumption == \A C \in Circuits : IsCircuit(C)

\* Cone.cpp collects all latches that a function can depend on.
ASSUME ConesAssumption == \A C \in Circuits : ConesCover(C)

\* Options are the Boolean options of ic3config.cpp and -generalize's rounds.
ASSUME OptionsAssumption ==
    Options \subseteq [coi : BOOLEAN, ternary : BOOLEAN, check_blocked : BOOLEAN,
                       queue_forward : BOOLEAN, keep_all : BOOLEAN,
                       early_clause_prop : BOOLEAN, early_subsumption : BOOLEAN,
                       subsume_during : BOOLEAN, subsume_last : BOOLEAN,
                       subsume : BOOLEAN, verify : BOOLEAN, generalize : Nat]

VARIABLES
    mgr,      \* the circuit read by main
    opt,      \* the options given on the command line
    pc,       \* where the control is
    depth,    \* frames.size()-1
    frames,   \* for each frame, its clauses, each with its is_subsumed flag
    Q,        \* the queue of proof obligations: for each frame, a stack
    s,        \* the obligation being blocked (block_cube's local s)
    clause,   \* the clause being generalized and added (addNewClause's cube)
    gen,      \* the locals of addNewClause and generalize
    fr,       \* propagateClauses' loop variable f
    verdict   \* the answer: "none" until there is one

vars == <<mgr, opt, pc, depth, frames, Q, s, clause, gen, fr, verdict>>

-----------------------------------------------------------------------------
(* The queries put to the SAT solver.                                      *)

\* The clauses assumed by solveAtFrame(_, f).  A subsumed clause stays in
\* force until propagateClauses releases its activation literal.
ClausesAt(f) == {e.lits : e \in UNION {frames[g] : g \in f .. depth}}

Satisfies(q, C) == \A c \in C : InClause(q, c)
InFrame(q, f)   == Satisfies(q, ClausesAt(f))

\* The models of solveAtFrame(target', f) with the clauses hyps also in force:
\* steps from frame f that end in the cube target.
Models(target, f, hyps) ==
    LET assumed == ClausesAt(f) \cup hyps
    IN  {p \in mgr.constr : InCube(mgr.next[p], target) /\ Satisfies(p[1], assumed)}

\* The models of solveAtFrame(property, f).
BadModels(f) ==
    LET assumed == ClausesAt(f)
    IN  {p \in mgr.bad \cap mgr.constr : Satisfies(p[1], assumed)}

\* Seeded fault: latches are dropped whether the step hangs on them or not.
ReductionsUnforced(cube, i, good) ==
    IF opt.ternary /\ good # {} THEN SUBSET cube ELSE {cube}

\* The cubes that ternary simulation may leave of cube, when the input is i and
\* the step must stay in the set good: undefined latches cannot matter.
Reductions(cube, i, good) ==
    IF opt.ternary
    THEN {t \in SUBSET cube : \A q \in States(mgr) : InCube(q, t) => <<q, i>> \in good}
         \cup {cube}
    ELSE {cube}

\* The steps into a cube.
StepsInto(cube) == {p \in Steps(mgr) : InCube(mgr.next[p], cube)}

\* The frames from 'frame' on with a clause, not subsumed, that excludes the cube.
BlockingFrames(cube, frame) ==
    {f \in frame .. depth : \E e \in frames[f] : ~ e.subsumed /\ e.lits \subseteq Negated(cube)}

IsBlocked(cube, frame) == opt.check_blocked /\ BlockingFrames(cube, frame) # {}

\* The constraints alone exclude the cube, by one of its literals: the solver
\* may have found out (S.value), and then isBlocked looks no further.
Impossible(cube) == \E l \in cube : \A p \in mgr.constr : ~ TrueIn(p[1], l)

\* What isBlocked may set blocked_at to.
BlockedAt(cube, frame) ==
    {f \in BlockingFrames(cube, frame) : \A g \in BlockingFrames(cube, frame) : g <= f}
    \cup {f \in {frame} : f <= depth /\ Impossible(cube)}

-----------------------------------------------------------------------------
(* The queue: VHeap<TCube*>, as a function from the frames that have       *)
(* obligations to the stacks of their obligations.  An obligation has the  *)
(* frame it is to be blocked at and, in place of its chain of parent       *)
(* pointers, the path that the chain spells: its own cube and input, then  *)
(* its parent's, and so on to the bad cube block_cube was called with.     *)

Push(q, x) == [f \in DOMAIN q \cup {x.frame} |->
                 (IF f \in DOMAIN q THEN q[f] ELSE <<>>)
                 \o (IF f = x.frame THEN <<x>> ELSE <<>>)]

QEmpty     == DOMAIN Q = {}
MinLevel   == CHOOSE f \in DOMAIN Q : \A g \in DOMAIN Q : f <= g
\* removeMin returns the last obligation of the lowest frame.
Least      == Q[MinLevel][Len(Q[MinLevel])]

\* Seeded fault: a stack that has run empty keeps its key in the heap.
RemoveMinKeepsKey == [Q EXCEPT ![MinLevel] = SubSeq(@, 1, Len(@) - 1)]

RemoveMin  == [f \in {g \in DOMAIN Q : g # MinLevel \/ Len(Q[g]) > 1} |->
                 IF f = MinLevel THEN SubSeq(Q[f], 1, Len(Q[f]) - 1) ELSE Q[f]]

\* An obligation blocked at frame f is looked at again one frame later.
Requeue(q, x, f) ==
    IF opt.queue_forward /\ (opt.keep_all \/ f < depth)
    THEN Push(q, [x EXCEPT !.frame = f + 1]) ELSE q

Cube(x)    == x.path[1].cube

NoObligation == [frame |-> 0, path |-> <<>>]
NoGen        == [todo |-> {}, hyps |-> {}, vacuous |-> FALSE,
                 start |-> {}, round |-> 0, min_frame |-> 0]

-----------------------------------------------------------------------------
\* Seeded fault: c.size()>=gen.size(), so that a clause subsumes its own copy.
MarkEqual(F, C) == {[e EXCEPT !.subsumed = @ \/ \E c \in C : c \subseteq e.lits] : e \in F}

\* Seeded fault: the larger of two clauses survives.
SweepLarger(F, again) ==
    LET live == {e \in F : ~ e.subsumed}
    IN  {e \in live : again => \A d \in live : e.lits \subseteq d.lits => d.lits = e.lits}

(* Subsumption.  markSubsumed(c, f) marks the clauses of frame f that have *)
(* the literals of c and more.  They are only flagged; propagateClauses    *)
(* releases them.                                                          *)

Subsumes(C, lits) == \E c \in C : c \subseteq lits /\ c # lits
Mark(F, C) == {[e EXCEPT !.subsumed = @ \/ Subsumes(C, e.lits)] : e \in F}

\* What is left of a frame when its clauses are visited in order of size, the
\* subsumed ones released and, if again holds, every visited clause marks the
\* ones it subsumes among those after it.
Sweep(F, again) ==
    LET live == {e \in F : ~ e.subsumed}
    IN  {e \in live : again => \A d \in live : d.lits \subseteq e.lits => d.lits = e.lits}

-----------------------------------------------------------------------------

Init ==
    /\ mgr \in Circuits
    /\ opt \in Options
    /\ pc = "pre_image"
    \* the constructor adds a unit clause to frame 0 for each known reset
    /\ depth = 1
    /\ frames = [f \in 0 .. 1 |->
                   IF f = 0 THEN {[lits |-> {l}, subsumed |-> FALSE] :
                                    l \in {k \in Lits(mgr) : SatisfiesReset(mgr, k)}}
                            ELSE {}]
    /\ Q = [f \in {} |-> <<>>]
    /\ s = NoObligation
    /\ clause = {}
    /\ gen = NoGen
    /\ fr = 0
    /\ verdict = "none"

(* solve(): is there a bad state in the last frame?                        *)

\* pre_image found one: reduce it to a cube, and start to block the cube.
PreImageSat ==
    /\ pc = "pre_image"
    /\ \E p \in BadModels(depth) :
         LET base == CubeOf(p[1], IF opt.coi THEN mgr.property_coi ELSE mgr.latches)
         IN  \E pre \in Reductions(base, p[2], mgr.bad) :
               Q' = Push(Q, [frame |-> depth,
                             path  |-> <<[cube |-> pre, input |-> p[2]]>>])
    /\ pc' = "block"
    /\ UNCHANGED <<mgr, opt, depth, frames, s, clause, gen, fr, verdict>>

\* There is none: open a new frame and propagate the clauses.
PreImageUnsat ==
    /\ pc = "pre_image"
    /\ BadModels(depth) = {}
    /\ depth' = depth + 1
    /\ frames' = [f \in 0 .. depth + 1 |-> IF f <= depth THEN frames[f] ELSE {}]
    /\ fr' = 0
    /\ pc' = "propagate"
    /\ UNCHANGED <<mgr, opt, Q, s, clause, gen, verdict>>

-----------------------------------------------------------------------------
(* block_cube(): one iteration takes the obligation of lowest frame.       *)

\* Seeded fault: a cube of frame 1 is taken for a cube of reset states.
IsCexEarly(x) == x.frame <= 1 \/ IsReset(mgr, Cube(x))

IsCex(x) == x.frame = 0 \/ IsReset(mgr, Cube(x))

\* checkCEX: the first cube meets the reset states, each cube of the path has
\* a step into the next one, and the last one has a bad step.  The solver is
\* asked without the recorded inputs and without any clause.
CexAccepted(x) ==
    LET n == Len(x.path)
        Possible(c, good) == \E p \in mgr.constr \cap good : InCube(p[1], c)
    IN  /\ IsReset(mgr, Cube(x))
        /\ \A k \in 1 .. n - 1 : Possible(x.path[k].cube, StepsInto(x.path[k+1].cube))
        /\ Possible(x.path[n].cube, mgr.bad)

\* The obligation meets the reset states: the counterexample is checked and
\* printed, and main exits with 10.
FoundCex ==
    /\ pc = "block"
    /\ ~ QEmpty
    /\ IsCex(Least)
    /\ s' = Least
    /\ Q' = RemoveMin
    /\ verdict' = IF opt.verify /\ ~ CexAccepted(Least) THEN "error" ELSE "SAT"
    /\ pc' = "done"
    /\ UNCHANGED <<mgr, opt, depth, frames, clause, gen, fr>>

\* Seeded fault: it is put back at the frame it is blocked at.
AlreadyBlockedAgain ==
    /\ pc = "block"
    /\ ~ QEmpty
    /\ ~ IsCex(Least)
    /\ opt.check_blocked
    /\ \E blocked_at \in BlockedAt(Cube(Least), Least.frame) :
         /\ Q' = IF opt.queue_forward
                 THEN Push(RemoveMin, [Least EXCEPT !.frame = blocked_at])
                 ELSE RemoveMin
    /\ UNCHANGED <<mgr, opt, pc, depth, frames, s, clause, gen, fr, verdict>>

\* The obligation is already blocked up to frame blocked_at: look at it again
\* in the frame after that, if there is one.
AlreadyBlocked ==
    /\ pc = "block"
    /\ ~ QEmpty
    /\ ~ IsCex(Least)
    /\ opt.check_blocked
    /\ \E blocked_at \in BlockedAt(Cube(Least), Least.frame) :
         /\ Q' = Requeue(RemoveMin, Least, blocked_at)
    /\ UNCHANGED <<mgr, opt, pc, depth, frames, s, clause, gen, fr, verdict>>

\* The obligation has to be blocked by the solver.
Open(x) == ~ IsCex(x) /\ ~ IsBlocked(Cube(x), x.frame)

\* A state of the frame before steps into the cube: that state, reduced to a
\* cube, becomes an obligation too, and this one waits for it.
Predecessor ==
    /\ pc = "block"
    /\ ~ QEmpty
    /\ Open(Least)
    /\ \E p \in Models(Cube(Least), Least.frame - 1, {}) :
         LET cone == UNION {mgr.latch_coi[l[1]] : l \in Cube(Least)}
             base == CubeOf(p[1], IF opt.coi THEN cone ELSE mgr.latches)
         IN  \E t \in Reductions(base, p[2], StepsInto(Cube(Least))) :
               Q' = Push(Q, [frame |-> Least.frame - 1,
                             path  |-> <<[cube |-> t, input |-> p[2]]>> \o Least.path])
    /\ UNCHANGED <<mgr, opt, pc, depth, frames, s, clause, gen, fr, verdict>>

\* What generalize starts with, for a clause that is to hold up to min_frame.
StartGen(c, round, min_frame) ==
    [todo |-> c, hyps |-> {}, vacuous |-> FALSE, start |-> c,
     round |-> round, min_frame |-> min_frame]

\* Seeded fault: the conflict is the clause, whatever the reset states are.
WithResetForgotten(c, cube) == IF cube = {} THEN {} ELSE {c}

\* A clause that excludes some reset state is given one more literal of ~cube
\* that the reset states satisfy.
WithReset(c, cube) ==
    IF ConflictsWithReset(mgr, c)
    THEN {c \cup {l} : l \in {k \in Negated(cube) \ c : SatisfiesReset(mgr, k)}}
    ELSE {c}

\* Seeded fault: the clause is added at the frame of the lowest clause that was
\* used, not at the one after it.
ConflictOneLower ==
    /\ pc = "block"
    /\ ~ QEmpty
    /\ Open(Least)
    /\ \E core \in SUBSET Cube(Least), g \in Least.frame - 1 .. depth + 1 :
         /\ g <= depth => frames[g] # {}
         /\ Models(core, g, {}) = {}
         /\ \E block \in WithReset(Negated(core), Cube(Least)) :
              /\ clause' = block
              /\ gen' = StartGen(block, 1, IF g < depth THEN g ELSE depth)
    /\ s' = Least
    /\ Q' = RemoveMin
    /\ pc' = IF opt.generalize > 0 THEN "generalize" ELSE "add"
    /\ UNCHANGED <<mgr, opt, depth, frames, fr, verdict>>

\* There is no such state.  The literals of the cube in the conflict are the
\* clause to add, and the lowest frame g of a clause in the conflict (none, if
\* g = depth + 1) says how high the clause holds.
Conflict ==
    /\ pc = "block"
    /\ ~ QEmpty
    /\ Open(Least)
    /\ \E core \in SUBSET Cube(Least), g \in Least.frame - 1 .. depth + 1 :
         /\ g <= depth => frames[g] # {}
         /\ Models(core, g, {}) = {}
         /\ \E block \in WithReset(Negated(core), Cube(Least)) :
              LET min_frame == IF g + 1 < depth THEN g + 1 ELSE depth
              IN  /\ clause' = block
                  /\ gen' = StartGen(block, 1, min_frame)
    /\ s' = Least
    /\ Q' = RemoveMin
    /\ pc' = IF opt.generalize > 0 THEN "generalize" ELSE "add"
    /\ UNCHANGED <<mgr, opt, depth, frames, fr, verdict>>

\* Seeded fault: one bad cube blocked, the frame is taken to be good.
BlockCubeDoneDeeper ==
    /\ pc = "block"
    /\ QEmpty
    /\ depth' = depth + 1
    /\ frames' = [f \in 0 .. depth + 1 |-> IF f <= depth THEN frames[f] ELSE {}]
    /\ fr' = 0
    /\ pc' = "propagate"
    /\ UNCHANGED <<mgr, opt, Q, s, clause, gen, verdict>>

BlockCubeDone ==
    /\ pc = "block"
    /\ QEmpty
    /\ pc' = "pre_image"
    /\ UNCHANGED <<mgr, opt, depth, frames, Q, s, clause, gen, fr, verdict>>

-----------------------------------------------------------------------------
(* generalize(clause, f-1): try to drop each literal once, in some order.  *)

f0 == gen.min_frame - 1

\* num_sat_reset = 1 and l is that literal.
SoleReset(l) ==
    /\ SatisfiesReset(mgr, l)
    /\ \A k \in clause \ {l} : ~ SatisfiesReset(mgr, k)

\* The clauses assumed besides frame f0 when the clause without l is tried:
\* above frame 0 that clause itself, under the activation literal.  Once a
\* core has removed a literal other than the one tried, in_clause holds
\* lit_True and a clause built from it says nothing.
Hypotheses(l) ==
    IF f0 = 0 THEN {} ELSE gen.hyps \cup IF gen.vacuous THEN {} ELSE {clause \ {l}}

\* A clause of one literal is left alone, and so is the last one that keeps
\* the clause true in the reset states.
GeneralizeSkip ==
    /\ pc = "generalize"
    /\ \E l \in gen.todo :
         /\ SoleReset(l) \/ gen.start = {l}
         /\ gen' = [gen EXCEPT !.todo = @ \ {l}]
    /\ UNCHANGED <<mgr, opt, pc, depth, frames, Q, s, clause, fr, verdict>>

\* Seeded fault: the refuted hypothesis keeps its activation literal.
GeneralizeKeepHypothesis ==
    /\ pc = "generalize"
    /\ \E l \in gen.todo :
         /\ ~ SoleReset(l) /\ gen.start # {l}
         /\ Models(Negated(clause \ {l}), f0, Hypotheses(l)) # {}
         /\ gen' = [gen EXCEPT !.todo = @ \ {l}, !.hyps = Hypotheses(l)]
    /\ UNCHANGED <<mgr, opt, pc, depth, frames, Q, s, clause, fr, verdict>>

\* Without l the clause is not inductive: l stays, and the activation literal
\* of the hypotheses is replaced by a new one.
GeneralizeKeep ==
    /\ pc = "generalize"
    /\ \E l \in gen.todo :
         /\ ~ SoleReset(l) /\ gen.start # {l}
         /\ Models(Negated(clause \ {l}), f0, Hypotheses(l)) # {}
         /\ gen' = [gen EXCEPT !.todo = @ \ {l}, !.hyps = {}]
    /\ UNCHANGED <<mgr, opt, pc, depth, frames, Q, s, clause, fr, verdict>>

\* It is: l goes, and every literal that is not in the conflict with it,
\* except the last one true in the reset states.
GeneralizeDrop ==
    /\ pc = "generalize"
    /\ \E l \in gen.todo :
         LET rest == clause \ {l}
         IN  /\ ~ SoleReset(l) /\ gen.start # {l}
             /\ \E core \in SUBSET rest :
                  /\ Models(Negated(core), f0, Hypotheses(l)) = {}
                  /\ clause' \in WithReset(core, Negated(rest))
             /\ gen' = [gen EXCEPT !.todo = @ \cap clause',
                                   !.hyps = Hypotheses(l),
                                   !.vacuous = @ \/ (f0 > 0 /\ clause' # rest)]
    /\ UNCHANGED <<mgr, opt, pc, depth, frames, Q, s, fr, verdict>>

\* All literals were tried: another round, if this one shortened the clause.
GeneralizeRound ==
    /\ pc = "generalize"
    /\ gen.todo = {}
    /\ IF clause # gen.start /\ gen.round < opt.generalize
       THEN pc' = pc /\ gen' = StartGen(clause, gen.round + 1, gen.min_frame)
       ELSE pc' = "add" /\ gen' = gen
    /\ UNCHANGED <<mgr, opt, depth, frames, Q, s, clause, fr, verdict>>

-----------------------------------------------------------------------------
(* The rest of addNewClause, and of block_cube's iteration.                *)

\* The clause, added at frame k, also holds one frame later.
Advances(k) ==
    /\ opt.early_clause_prop
    /\ k < depth - 1
    /\ Models(Negated(clause), k, {clause}) = {}

AddNewClause ==
    /\ pc = "add"
    /\ \E max \in gen.min_frame .. depth :
         /\ \A k \in gen.min_frame .. max - 1 : Advances(k)
         /\ ~ Advances(max)
         /\ frames' = [frames EXCEPT ![max] =
                          (IF opt.early_subsumption THEN Mark(@, {clause}) ELSE @)
                          \cup {[lits |-> clause, subsumed |-> FALSE]}]
    /\ Q' = Requeue(Q, s, s.frame)
    /\ s' = NoObligation
    /\ clause' = {}
    /\ gen' = NoGen
    /\ pc' = "block"
    /\ UNCHANGED <<mgr, opt, depth, fr, verdict>>

-----------------------------------------------------------------------------
(* propagateClauses(), frame by frame.                                     *)

\* One frame: release the subsumed clauses, and move to the next frame those
\* that hold after every step from this one.
PropagateFrame ==
    /\ pc = "propagate"
    /\ fr < depth
    /\ frames[fr] # {}
    /\ LET swept  == Sweep(frames[fr], opt.subsume_during)
           pushed == {e \in swept : Models(Negated(e.lits), fr, {}) = {}}
           next   == IF opt.subsume THEN Mark(frames[fr+1], {e.lits : e \in pushed})
                                    ELSE frames[fr+1]
       IN  /\ frames' = [frames EXCEPT ![fr] = swept \ pushed, ![fr+1] = next \cup pushed]
           \* if all of them moved, this frame is where the invariant is found
           /\ fr' = IF swept = pushed THEN fr ELSE fr + 1
    /\ UNCHANGED <<mgr, opt, pc, depth, Q, s, clause, gen, verdict>>

\* moveInvariantToEnd(from)
InvariantFrames(from) ==
    [f \in 0 .. depth |->
       IF f < from THEN frames[f]
       ELSE IF f < depth THEN {}
       ELSE frames[depth] \cup {e \in UNION {frames[g] : g \in from .. depth - 1} : ~ e.subsumed}]

\* checkInvariant, on the clauses F of the last frame.
InvariantAccepted(F) ==
    LET Inv(q) == \A e \in F : InClause(q, e.lits)
    IN  \A p \in mgr.constr : Inv(p[1]) => p \notin mgr.bad /\ Inv(mgr.next[p])

\* A frame without clauses of its own is an inductive invariant: it is moved
\* to the last frame and checked, and main exits with 20.
FoundInvariant ==
    /\ pc = "propagate"
    /\ fr < depth
    /\ frames[fr] = {}
    /\ frames' = InvariantFrames(fr)
    /\ verdict' = IF opt.verify /\ ~ InvariantAccepted(frames'[depth]) THEN "error" ELSE "UNSAT"
    /\ pc' = "done"
    /\ UNCHANGED <<mgr, opt, depth, Q, s, clause, gen, fr>>

\* After the last frame, a round of subsumption in it.
PropagateDone ==
    /\ pc = "propagate"
    /\ fr = depth
    /\ frames' = IF opt.early_subsumption \/ opt.subsume_during \/ opt.subsume_last \/ opt.subsume
                 THEN [frames EXCEPT ![depth] = Sweep(@, opt.subsume_last)]
                 ELSE frames
    /\ fr' = 0
    /\ pc' = "pre_image"
    /\ UNCHANGED <<mgr, opt, depth, Q, s, clause, gen, verdict>>

-----------------------------------------------------------------------------

Next ==
    \/ PreImageSat \/ PreImageUnsat
    \/ FoundCex \/ AlreadyBlocked \/ Predecessor \/ Conflict \/ BlockCubeDone
    \/ GeneralizeSkip \/ GeneralizeKeep \/ GeneralizeDrop \/ GeneralizeRound
    \/ AddNewClause
    \/ PropagateFrame \/ FoundInvariant \/ PropagateDone

Spec == Init /\ [][Next]_vars

\* The program is one thread that runs until it answers.
FairSpec == Spec /\ WF_vars(Next)

=============================================================================

------------------------------ MODULE IC3Props ------------------------------
(* What the IC3 class must satisfy, stated over the variables of IC3.      *)
EXTENDS IC3

Obligations == {s} \cup UNION {{Q[f][k] : k \in 1 .. Len(Q[f])} : f \in DOMAIN Q}

(* The variables stay within the domains that the declarations in class    *)
(* IC3 (ic3.h:44-90) and the locals of its methods give them.              *)
Clause       == SUBSET Lits(mgr)
Entry        == [lits : Clause, subsumed : BOOLEAN]
PathElement  == [cube : Clause, input : mgr.inputs]
Obligation   == [frame : Nat, path : Seq(PathElement) \ {<<>>}]

TypeOK ==
    /\ IsCircuit(mgr)
    /\ opt \in Options
    /\ pc \in {"pre_image", "block", "generalize", "add", "propagate", "done"}
    /\ depth \in Nat \ {0}
    /\ frames \in [0 .. depth -> SUBSET Entry]
    /\ DOMAIN Q \subseteq Nat
    /\ Q \in [DOMAIN Q -> Seq(Obligation) \ {<<>>}]
    /\ s \in Obligation \cup {NoObligation}
    /\ clause \in Clause
    /\ gen \in [todo : Clause, hyps : SUBSET Clause, vacuous : BOOLEAN,
                start : Clause, round : Nat, min_frame : Nat]
    /\ fr \in 0 .. depth
    /\ verdict \in {"none", "SAT", "UNSAT", "error"}

(* The frames over-approximate the states reachable in as many steps: every*)
(* clause of every frame holds initially, and a step from frame f ends in  *)
(* frame f+1.  At risk wherever clauses are added, moved or released       *)
(* (ic3.h:894-934, 966-1053).                                              *)
FramesInitial == \A q \in Initial(mgr) : InFrame(q, 0)

FramesStep ==
    \A f \in 0 .. depth - 1 :
       LET from == ClausesAt(f)
           to   == ClausesAt(f + 1)
       IN  \A p \in mgr.constr : Satisfies(p[1], from) => Satisfies(mgr.next[p], to)

FramesOverapproximate == FramesInitial /\ FramesStep

(* No frame below the last one has a bad state, so that the counterexample *)
(* search of solve() (ic3.h:600-620) at a new depth starts from there.     *)
EarlierFramesGood == depth > 1 => BadModels(depth - 1) = {}

(* The clause being generalized still excludes its cube for the right      *)
(* reason: it holds in the reset states, and after every step from a state *)
(* of the frame below min_frame in which it holds (ic3.h:1205-1377).       *)
ClauseInductive ==
    pc \in {"generalize", "add"} =>
       /\ \A q \in Initial(mgr) : InClause(q, clause)
       /\ Models(Negated(clause), f0, {clause}) = {}

(* The clause added is about the obligation and strengthens the frames     *)
(* that the obligation is at: it excludes the cube of s and holds as high  *)
(* as s.frame (assert(min_frame>=s.frame), ic3.h:797).                     *)
ClauseBlocks ==
    pc \in {"generalize", "add"} =>
       /\ clause \subseteq Negated(Cube(s))
       /\ gen.min_frame >= s.frame

(* Every obligation's path leads to a bad step: from ANY state of a cube,  *)
(* the recorded input leads into the next cube, and at last to the bad     *)
(* step.  At risk in the reductions of pre_image and block_cube            *)
(* (ic3.h:277-327, 711-772).                                               *)
Forced(e, good) == \A q \in States(mgr) : InCube(q, e.cube) => <<q, e.input>> \in good

PathsForced ==
    \A x \in Obligations : \A k \in 1 .. Len(x.path) :
       Forced(x.path[k], IF k = Len(x.path) THEN mgr.bad ELSE StepsInto(x.path[k+1].cube))

(* The verdict is right: UNSAT only for safe circuits, SAT only for unsafe *)
(* ones, and the verification never fails ("Double-check witness or proof  *)
(* for correctness", ic3config.cpp:40).                                    *)
UnsatSound == verdict = "UNSAT" => Safe(mgr)

VerdictCorrect ==
    /\ UnsatSound
    /\ verdict = "SAT"   => ~ Safe(mgr)
    /\ verdict # "error"

(* The counterexample printed (printCEX, ic3.h:1436-1452) is an execution: *)
(* from any reset state in its first cube, playing the printed inputs goes *)
(* through the printed cubes, satisfies the constraints and ends bad.      *)
Replay(path, q0) ==
    LET state[k \in 1 .. Len(path)] ==
          IF k = 1 THEN q0 ELSE mgr.next[<<state[k-1], path[k-1].input>>]
    IN  state

WitnessReplays ==
    verdict = "SAT" =>
      /\ \E q \in Initial(mgr) : InCube(q, Cube(s))
      /\ \A q \in Initial(mgr) : InCube(q, Cube(s)) =>
           LET run == Replay(s.path, q)
               n   == Len(s.path)
           IN  /\ \A k \in 1 .. n : /\ InCube(run[k], s.path[k].cube)
                                    /\ <<run[k], s.path[k].input>> \in mgr.constr
               /\ <<run[n], s.path[n].input>> \in mgr.bad

(* A clause marked as subsumed is covered, until it is released, by a      *)
(* strictly smaller clause that is not marked and holds at least as high   *)
(* (assert(isSubsumedAt(..)), ic3.h:988): a chain of markings must not end *)
(* in a clause that was itself released or left behind.                    *)
SubsumedCovered ==
    \A f \in 0 .. depth : \A e \in frames[f] : e.subsumed =>
       \E g \in f .. depth : \E d \in frames[g] :
          ~ d.subsumed /\ d.lits \subseteq e.lits /\ d.lits # e.lits

(* No step loses what was learnt: whatever a frame excludes stays excluded,*)
(* through pushes, releases and moveInvariantToEnd.                        *)
FramesOnlyStrengthen ==
    [][\A f \in 0 .. depth : \A q \in States(mgr) : InFrame(q, f)' => InFrame(q, f)]_vars

(* The checker answers.                                                    *)
Terminates == <>(pc = "done")

(* The IC3 class implements ModelChecking: opening frame d means that bad  *)
(* states are more than d - 1 steps away, and the verdict is the answer.   *)
Promise == INSTANCE ModelChecking WITH bound <- IF depth = 1 THEN 0 ELSE depth

ImplementsModelChecking == Promise!Spec

-----------------------------------------------------------------------------
(* What a comment says and the code does not do: TLC refutes it (README,   *)
(* "Findings").                                                            *)

(* "there is no need to add not s to frame 0", "the 0th frame doesn't need *)
(* the clause added" (ic3.h:1237, 1242): in the others it is added, without*)
(* the literal tried, so that a literal goes whenever what is left of the  *)
(* clause is inductive relative to the frame.  Literals that generalize    *)
(* does not try (ic3.h:1206, 1268) are left aside.                         *)
RelativeInduction ==
    pc = "generalize" /\ f0 > 0 =>
      \A l \in gen.todo : ~ SoleReset(l) /\ gen.start # {l} =>
         LET rest == clause \ {l}
         IN  Models(Negated(rest), f0, {rest}) = {} => Models(Negated(rest), f0, Hypotheses(l)) = {}

=============================================================================

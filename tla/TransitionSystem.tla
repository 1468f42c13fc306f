-------------------------- MODULE TransitionSystem --------------------------
(***************************************************************************)
(* The sequential circuit that the model checker reasons about, as the SAT *)
(* solver sees it once aigtocnf (aiglib/aigtocnf.h) has encoded it and     *)
(* main.cpp has allocated one variable for each latch, each next-state     *)
(* function and each primary input.  A circuit M is a record:              *)
(*                                                                         *)
(*   latches       the latches                                             *)
(*   inputs        the valuations of the primary inputs                    *)
(*   resets        for each latch, the set of its possible reset values    *)
(*                 (both, when the reset is l_Undef)                       *)
(*   next          the next state, for each state and input                *)
(*   constr        the (state, input) pairs that satisfy the constraints   *)
(*   bad           the (state, input) pairs at which the property literal  *)
(*                 holds, so that the state is bad                         *)
(*   latch_coi     for each latch, the latches in the cone of influence of *)
(*                 its next-state function                                 *)
(*   property_coi  the latches in the cone of influence of the property    *)
(*                                                                         *)
(* A literal is a pair <<latch, value>>.  The same sets of literals stand  *)
(* for cubes (conjunctions) and for clauses (disjunctions).  The code has  *)
(* two copies of each literal, over the in-latches (the current state) and *)
(* over the out-latches (the next state); here the copy that is meant is   *)
(* said by the predicate that reads the set.                               *)
(***************************************************************************)
EXTENDS Integers, FiniteSets

Lits(M)     == M.latches \X BOOLEAN
States(M)   == [M.latches -> BOOLEAN]
\* What one call of the SAT solver assigns: a current state and an input.
Steps(M)    == States(M) \X M.inputs

IsCircuit(M) ==
    /\ IsFiniteSet(M.latches)
    /\ M.resets \in [M.latches -> (SUBSET BOOLEAN) \ {{}}]
    /\ M.next \in [Steps(M) -> States(M)]
    /\ M.constr \subseteq Steps(M)
    /\ M.bad \subseteq Steps(M)
    /\ M.latch_coi \in [M.latches -> SUBSET M.latches]
    /\ M.property_coi \subseteq M.latches

\* The cones are cones: with the same input, states that agree on the cone of
\* a latch give it the same next value, and states that agree on the cone of
\* the property are both bad or both not.
Agree(p, r, L) == p[2] = r[2] /\ \A x \in L : p[1][x] = r[1][x]
ConesCover(M) ==
    \A p, r \in Steps(M) :
       /\ \A x \in M.latches : Agree(p, r, M.latch_coi[x]) => M.next[p][x] = M.next[r][x]
       /\ Agree(p, r, M.property_coi) => (p \in M.bad <=> r \in M.bad)

\* ~l
Neg(l)       == <<l[1], ~l[2]>>
\* The cube that a clause excludes, or the clause that excludes a cube.
Negated(c)   == {Neg(l) : l \in c}

TrueIn(q, l)   == q[l[1]] = l[2]
InCube(q, c)   == \A l \in c : TrueIn(q, l)
InClause(q, c) == \E l \in c : TrueIn(q, l)
\* The full cube of a state, and the part of it that speaks of latches L.
CubeOf(q, L)   == {<<x, q[x]>> : x \in L}

\* satisfiesReset: the reset value of the literal's latch is known and is the
\* value the literal asks for.
SatisfiesReset(M, l) == M.resets[l[1]] = {l[2]}
\* isReset: no literal of the cube contradicts a known reset value.
IsReset(M, c)        == \A l \in c : l[2] \in M.resets[l[1]]
\* conflictsWithReset, on the clause: the clause excludes some reset state.
ConflictsWithReset(M, c) == \A l \in c : ~ SatisfiesReset(M, l)

Initial(M) == {q \in States(M) : \A x \in M.latches : q[x] \in M.resets[x]}

-----------------------------------------------------------------------------
(* What "reachable" and "safe" mean, without reference to the checker.     *)

\* X is closed under the steps that satisfy the constraints.
Closed(M, X) == \A p \in Steps(M) : p[1] \in X /\ p \in M.constr => M.next[p] \in X

Reachable(M) == {q \in States(M) :
                   \A X \in SUBSET States(M) :
                      Initial(M) \subseteq X /\ Closed(M, X) => q \in X}

\* No reachable step (the constraints hold at it) is bad.
Safe(M) == \A p \in M.bad \cap M.constr : p[1] \notin Reachable(M)

=============================================================================

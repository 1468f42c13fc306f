------------------------------ MODULE MCSolver ------------------------------
(* The core solver on small formulas, and on a user like module IC3.       *)
EXTENDS Solver

\* Formulas of four variables in which decisions, unit propagation and learning
\* take several levels.
Fixed == {{1, 2}, {1, -2}, {-1, 3}, {-3, 4}}
Chain == {{-1, 2}, {-2, 3}, {-1, -3, 4}, {-3, -4, 1}, {-2, -4}}
Paths == {{-1, -2, 3}, {-3, 4}, {-1, -3, -4}, {1, 2}, {-2, 4}}
Eight == {{a, b, c} : a \in {1, -1}, b \in {2, -2}, c \in {3, -3}}
Wide  == {{1, 2, 3}, {-1, 2, 4}, {1, -2, -4}, {-1, -3, 4}, {2, 3, -4}}
Long  == {{1, 2, 3, 4}, {1, 2, 3, -4}}
Steps == {{-1, 2}, {-2, 3}, {-3, 4}}
SearchFormulas == {Fixed, Chain, Paths, Eight, Wide, Long, Steps}

\* Literals of the clauses learnt may go: in the first formula, and in the
\* second only if one looks further back than their reasons.
Deep == {{-1, 2}, {-2, 3}, {-3, -4, 5}, {-1, -4, -5}}

\* A user that only asks, with and without assumptions.
Asks(F, n, queries, mode) ==
    [nVars |-> n, clauses |-> F, added |-> {}, queries |-> queries, releasable |-> {},
     ccmin_mode |-> mode]
Asking == {Asks(F, 4, {<<>>, <<1, -3>>, <<-4, 1>>}, 2) : F \in SearchFormulas} \cup
          {Asks(Paths, 4, {<<>>, <<1, -3>>, <<-4, 1>>}, mode) : mode \in {0, 1}} \cup
          {Asks(Deep, 5, {<<1>>, <<4, 1>>}, mode) : mode \in 0 .. 2}

\* A user like solveAtFrame: variables 1 and 2 are the circuit's; the others are
\* the activation literals of clauses, which are added, assumed and released.
Activating == {[nVars |-> 4, clauses |-> F, added |-> {{-3, 1}, {-3, -1, -2}, {-4, -2}, {-1, 2}},
                queries |-> {<<3>>, <<3, 4>>, <<4, -1>>}, releasable |-> {-3, -4},
                ccmin_mode |-> 2] :
                 F \in {{{1, 2}}, {{1, -2}, {-1, 2}}}}

SomeUsers == Asking \cup Activating

=============================================================================

---------------------------- MODULE MCSimpSolver ----------------------------
(* Preprocessing of the clauses of small circuits.                           *)
EXTENDS SimpSolver

\* An and-gate as aigtocnf encodes it: out = a and b.
And(out, a, b) == {{-out, a}, {-out, b}, {out, -a, -b}}

\* Two gates over three inputs; a gate nobody names; an exclusive or; clauses that
\* shorten each other; literals that are given; a contradiction.
Circuits ==
    {[clauses |-> And(4, 1, 2) \cup And(5, 4, -3),               frozen |-> {1, 2, 3, 5}],
     [clauses |-> And(3, 1, -2) \cup And(4, -1, 2) \cup And(5, -3, -4), frozen |-> {1, 2, 5}],
     [clauses |-> And(3, 1, 2) \cup And(4, 3, 3) \cup And(5, 4, 1),     frozen |-> {1, 2}],
     [clauses |-> And(4, 1, 2) \cup And(5, 4, 3) \cup {{4}},     frozen |-> {1, 5}],
     [clauses |-> {{1, 2, 3}, {1, -2, 3}, {-1, 4, 5}, {1, -4}, {-3, 4}}, frozen |-> {5}],
     [clauses |-> {{1, 2}, {-1, 2}, {3, -2, 4}, {-3, -2, 4}, {-4, 5, 1}}, frozen |-> {}],
     [clauses |-> {{1, 2}, {-1, 3, 4}, {2, 3}, {-2, 5}, {-5, 4}},        frozen |-> {2, 3, 4, 5}],
     [clauses |-> {{1, 2}, {1, -2}, {-1, 3}, {-1, -3, 4}, {-4, -3}},     frozen |-> {4}]}

\* The options are off by default.
DefaultOrAll == {[asymm |-> FALSE, rcheck |-> FALSE], [asymm |-> TRUE, rcheck |-> TRUE]}

MoreClauses == {{1}, {-5}, {-1, 5}}

=============================================================================

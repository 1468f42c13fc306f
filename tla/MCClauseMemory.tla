--------------------------- MODULE MCClauseMemory ---------------------------
(* Copies of two clauses over three variables, in at most 14 words. *)
EXTENDS ClauseMemory

SomeClauses  == {<<3, 1, 2>>, <<-1, 2>>}
SomeLiterals == {-2, 1}
=============================================================================

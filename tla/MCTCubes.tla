------------------------------ MODULE MCTCubes ------------------------------
(* Obligations of two cubes at six frames, five at a time.                 *)
EXTENDS TCubes

CONSTANTS c1, c2
TwoCubes == {c1, c2}
=============================================================================

----------------------------- MODULE MCTernary -----------------------------
(* Ternary simulation on the netlists of TestCircuits.                     *)
EXTENDS Ternary, TestCircuits

\* Two paths of different lengths from one latch meet in a gate, and one of
\* them leads to a second gate to preserve.
reconvergent == Netlist(<<2>>,
    <<<<4, 14, 0>>, <<6, 16, 0>>, <<8, 12, 0>>>>,
    <<<<10, 4, 3>>, <<12, 10, 4>>, <<14, 13, 6>>, <<16, 14, 11>>, <<18, 17, 8>>>>, 18, <<>>)

BinaryNetlists ==
    {test_80, test_40_reduced, test_10c_reduced2, test_19_reduced_0d, test_33, test_39,
     test_42b_reduced_2, test_9_reduced, test_20_reduced_1ac, test_33_reduced0,
     test_20_reduced_8c, test_20_reduced_0b, test_20_reduced_1ka, test_42_reduced,
     counter, reconvergent}

=============================================================================

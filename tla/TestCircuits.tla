---------------------------- MODULE TestCircuits ----------------------------
(***************************************************************************)
(* Circuits for TLC.  The definitions named test_... are the netlists of   *)
(* the files of that name in the repository's tests directory (decoded     *)
(* from binary AIGER); the others are written for what no small file there *)
(* has: a free-running input, uninitialised latches, constraints.          *)
(***************************************************************************)
EXTENDS Aig

Netlist(inputs, latches, ands, property, constraints) ==
    [inputs |-> inputs, latches |-> latches, ands |-> ands,
     property |-> property, constraints |-> constraints]

test_80 == Netlist(<<>>,
    <<<<2, 3, 0>>, <<4, 5, 1>>>>,
    <<<<6, 4, 2>>>>, 6, <<>>)

test_3 == Netlist(<<>>,
    <<<<2, 0, 0>>>>,
    <<>>, 2, <<>>)

test_4 == Netlist(<<>>,
    <<<<2, 1, 0>>>>,
    <<>>, 2, <<>>)

test_40_reduced == Netlist(<<2>>,
    <<<<4, 1, 0>>, <<6, 2, 0>>>>,
    <<>>, 4, <<>>)

test_10b_2 == Netlist(<<>>,
    <<<<2, 1, 0>>, <<4, 2, 0>>, <<6, 4, 0>>>>,
    <<>>, 6, <<>>)

test_10c_reduced2 == Netlist(<<>>,
    <<<<2, 1, 0>>, <<4, 1, 0>>, <<6, 8, 0>>>>,
    <<<<8, 4, 3>>>>, 6, <<>>)

test_19_reduced_0d == Netlist(<<2>>,
    <<<<4, 8, 0>>, <<6, 10, 0>>>>,
    <<<<8, 5, 2>>, <<10, 7, 2>>, <<12, 6, 2>>, <<14, 4, 2>>, <<16, 14, 13>>>>, 16, <<>>)

test_33 == Netlist(<<>>,
    <<<<2, 1, 0>>, <<4, 6, 0>>>>,
    <<<<6, 5, 2>>>>, 4, <<>>)

test_39 == Netlist(<<2>>,
    <<<<4, 10, 0>>, <<6, 4, 0>>>>,
    <<<<8, 3, 2>>, <<10, 8, 3>>>>, 6, <<>>)

test_42b_reduced_2 == Netlist(<<2>>,
    <<<<4, 13, 0>>, <<6, 16, 0>>>>,
    <<<<8, 5, 2>>, <<10, 9, 8>>, <<12, 11, 5>>, <<14, 7, 3>>, <<16, 15, 3>>>>, 4, <<>>)

test_9_reduced == Netlist(<<>>,
    <<<<2, 7, 0>>, <<4, 1, 0>>>>,
    <<<<6, 5, 3>>, <<8, 4, 2>>>>, 8, <<>>)

test_15_c == Netlist(<<>>,
    <<<<2, 0, 0>>, <<4, 2, 0>>>>,
    <<>>, 4, <<>>)

test_40_reduced_2 == Netlist(<<>>,
    <<<<2, 4, 0>>, <<4, 1, 0>>>>,
    <<>>, 2, <<>>)

test_20_reduced_1ac == Netlist(<<2>>,
    <<<<4, 15, 0>>, <<6, 22, 0>>, <<8, 20, 0>>>>,
    <<<<10, 5, 2>>, <<12, 4, 3>>, <<14, 13, 11>>, <<16, 4, 2>>, <<18, 17, 7>>, <<20, 16, 6>>, <<22, 21, 19>>>>, 8, <<>>)

test_33_reduced0 == Netlist(<<>>,
    <<<<2, 10, 0>>, <<4, 17, 0>>, <<6, 12, 0>>>>,
    <<<<8, 6, 3>>, <<10, 8, 4>>, <<12, 4, 3>>, <<14, 6, 3>>, <<16, 15, 13>>, <<18, 4, 2>>>>, 18, <<>>)

test_20_reduced_8c == Netlist(<<>>,
    <<<<2, 3, 0>>, <<4, 12, 0>>, <<6, 7, 0>>>>,
    <<<<8, 5, 3>>, <<10, 4, 2>>, <<12, 11, 9>>, <<14, 5, 3>>, <<16, 14, 6>>>>, 16, <<>>)

test_20_reduced_0b == Netlist(<<>>,
    <<<<2, 3, 0>>, <<4, 13, 0>>, <<6, 16, 0>>>>,
    <<<<8, 5, 2>>, <<10, 4, 3>>, <<12, 11, 9>>, <<14, 7, 4>>, <<16, 14, 2>>>>, 6, <<>>)

test_20_reduced_1ka == Netlist(<<>>,
    <<<<2, 8, 0>>, <<4, 5, 0>>, <<6, 15, 0>>>>,
    <<<<8, 6, 4>>, <<10, 6, 5>>, <<12, 7, 4>>, <<14, 13, 11>>>>, 2, <<>>)

test_42_reduced == Netlist(<<2>>,
    <<<<4, 17, 0>>, <<6, 1, 0>>, <<8, 24, 0>>>>,
    <<<<10, 5, 2>>, <<12, 10, 7>>, <<14, 13, 10>>, <<16, 15, 5>>, <<18, 11, 9>>, <<20, 18, 10>>, <<22, 11, 9>>, <<24, 23, 21>>>>, 4, <<>>)

\* A counter 0, 1, 2, 0, ... that an input steps; bad is the value 3.
counter == Netlist(<<2>>,
    <<<<4, 15, 0>>, <<6, 21, 0>>>>,
    <<<<8, 7, 5>>, <<10, 8, 2>>, <<12, 4, 3>>, <<14, 13, 11>>, <<16, 4, 2>>,
      <<18, 6, 3>>, <<20, 19, 17>>, <<22, 6, 4>>>>, 22, <<>>)

\* The same, started at 0 or 2; and started anywhere, so that 3 is initial.
counter_x  == [counter EXCEPT !.latches[2][3] = 6]
counter_xx == [counter EXCEPT !.latches[1][3] = 4, !.latches[2][3] = 6]

\* Two latches of which the second is not initialised and keeps its value; bad
\* is reached after one step when it started at 1, and never from 0.
hidden == Netlist(<<>>,
    <<<<2, 4, 0>>, <<4, 4, 4>>>>,
    <<>>, 2, <<>>)

\* The constraint excludes the only initial state, so that nothing is
\* reachable; the property is about the other latch.
constrained == Netlist(<<>>,
    <<<<2, 2, 1>>, <<4, 4, 1>>>>,
    <<>>, 2, <<5>>)

=============================================================================

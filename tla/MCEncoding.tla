----------------------------- MODULE MCEncoding -----------------------------
(* Files to read and netlists to write: those of the test suite and others,  *)
(* files with an error in them, and all ways to connect three gates.         *)
EXTENDS Encoding, TestCircuits

\* What the library's calls make of the parts of a netlist.
Built(A, outputs, bad, justice, fairness) ==
    LET latch(g, x) == IF x[3] = 0 THEN aiger_add_latch(g, x[1], x[2])
                       ELSE aiger_add_reset(aiger_add_latch(g, x[1], x[2]), x[1], x[3])
        gate(g, a)  == aiger_add_and(g, a[1], a[2], a[3])
        All(g, list, L) == FoldLeft(LAMBDA h, l : AddTo(h, list, l), g, L)
        g1 == FoldLeft(latch, FoldLeft(aiger_add_input, aiger_init, A.inputs), A.latches)
        g2 == All(All(All(g1, "outputs", outputs), "bad", bad), "constraints", A.constraints)
        g3 == All(FoldLeft(aiger_add_justice, g2, justice), "fairness", fairness)
    IN  FoldLeft(gate, g3, A.ands)
Simple(A, outputs, bad) == Built(A, outputs, bad, <<>>, <<>>)

-----------------------------------------------------------------------------

\* A latch that only another latch reads; a constraint on an input, and on a
\* gate that nothing else reads; no latches.
shift == Netlist(<<2>>, <<<<4, 2, 0>>, <<6, 5, 1>>, <<8, 6, 8>>>>, <<>>, 9, <<>>)
guarded == [counter EXCEPT !.constraints = <<3, 23>>]
latchless == Netlist(<<2, 4>>, <<>>, <<<<6, 5, 2>>>>, 6, <<>>)

\* The gate of variable 3 is listed before the gate of variable 4, which it reads.
unordered == Netlist(<<>>, <<<<2, 6, 0>>, <<4, 4, 4>>>>, <<<<6, 9, 2>>, <<8, 4, 3>>>>, 6, <<>>)

\* (The constraints of the last one exclude each other.)
InOrderNetlists ==
    {Simple(test_19_reduced_0d, <<16, 13>>, <<>>),
     Simple(test_40_reduced, <<>>, <<4, 1, 7>>),
     Simple(test_33, <<4>>, <<>>),
     Simple(test_39, <<>>, <<6>>),
     Simple(counter, <<22>>, <<22, 21>>),
     Simple(shift, <<9>>, <<>>),
     Simple(guarded, <<>>, <<14>>),
     Simple(hidden, <<2>>, <<>>),
     Simple(constrained, <<>>, <<2>>),
     Simple(latchless, <<>>, <<6, 0>>),
     Simple([counter EXCEPT !.constraints = <<3, 2>>], <<>>, <<14>>)}

\* The last variables first, unused variables, a gate that is not needed, gates
\* needed by several others, and everything else that a file may have.
scrambled ==
    [Built(Netlist(<<18>>, <<<<4, 13, 4>>, <<2, 10, 1>>>>,
                   <<<<10, 2, 12>>, <<12, 3, 18>>, <<6, 4, 4>>, <<14, 10, 13>>>>, 0, <<19>>),
           <<11>>, <<14, 1>>, <<<<12, 5>>, <<>>, <<10>>>>, <<13>>)
     EXCEPT !.named = {<<"inputs", 1>>, <<"justice", 2>>, <<"bad", 2>>}]

\* With a free literal that nothing uses, in order and not.
spare     == [Simple(test_33, <<4>>, <<>>) EXCEPT !.maxvar = 5]
spareGap  == Simple(Netlist(<<2>>, <<<<6, 8, 0>>>>, <<<<8, 7, 2>>>>, 0, <<>>), <<8>>, <<>>)
cyclic    == Simple(Netlist(<<2>>, <<>>, <<<<4, 6, 2>>, <<6, 4, 2>>>>, 0, <<>>), <<4>>, <<>>)
undefined == Simple(Netlist(<<2>>, <<>>, <<<<4, 6, 2>>>>, 0, <<>>), <<4>>, <<>>)

SomeNetlists ==
    {Simple(unordered, <<6, 9>>, <<>>), Simple(test_19_reduced_0d, <<16, 13>>, <<>>),
     scrambled, spare, spareGap, cyclic, undefined}

-----------------------------------------------------------------------------

\* A file whose gates are all observed, and with it every file in which one
\* number is another one, a line is missing, or one is there twice.
small ==
    [Built(Netlist(<<4>>, <<<<2, 6, 2>>>>, <<<<8, 6, 6>>, <<6, 4, 3>>>>, 0, <<5>>),
           <<8>>, <<6>>, <<<<8, 5>>>>, <<7>>) EXCEPT !.named = {<<"latches", 1>>}]
smallFile == FileOf(small, "ascii")

Numbers == {0, 1, 2, 3, 4, 10, 34}
WrongLines ==
    UNION {{[smallFile EXCEPT !.lines[k][j] = x] : j \in DOMAIN smallFile.lines[k], x \in Numbers} \cup
           {[smallFile EXCEPT !.lines = RemoveAt(@, k)],
            [smallFile EXCEPT !.lines = InsertAt(@, k, @[k])],
            [smallFile EXCEPT !.lines[k] = Append(@, 2)]} :
             k \in DOMAIN smallFile.lines}
WrongHeaders ==
    UNION {{[smallFile EXCEPT !.header[k] = x] : x \in {0, 1, 2, 3, 5, 33}} \cup
           {[smallFile EXCEPT !.header = SubSeq(@, 1, k)]} : k \in DOMAIN smallFile.header}
WrongSymbols ==
    {[smallFile EXCEPT !.symbols = s] : s \in {<<<<"latches", 2>>>>, <<<<"justice", 1>>, <<"justice", 1>>>>}}

\* The same in binary, with one character another one, or with more of them.
smallBinary == FileOf(Simple(Netlist(<<2>>, <<<<4, 6, 4>>>>, <<<<6, 5, 2>>, <<8, 7, 6>>>>, 0, <<>>), <<8>>, <<>>),
                      "binary")
padded == [smallBinary EXCEPT !.codes = <<<<1, TRUE>>, <<0, FALSE>>>> \o Tail(@)]
WrongCodes ==
    UNION {{[smallBinary EXCEPT !.codes[k] = <<x, more>>] : x \in 0 .. 3, more \in BOOLEAN} \cup
           {[smallBinary EXCEPT !.codes = SubSeq(@, 1, k - 1)],
            [smallBinary EXCEPT !.codes = InsertAt(InsertAt(InsertAt(@, k, <<0, TRUE>>), k, <<0, TRUE>>), k, <<1, TRUE>>)],
            [smallBinary EXCEPT !.codes = InsertAt(@, k, <<3, TRUE>>)]} :
             k \in DOMAIN smallBinary.codes}
WrongBinary ==
    {[smallBinary EXCEPT !.header[1] = 5], [smallBinary EXCEPT !.lines[1] = <<6, 3>>],
     [smallBinary EXCEPT !.lines[1] = <<6, 4, 4>>], [smallBinary EXCEPT !.lines[1] = <<10>>]}

-----------------------------------------------------------------------------

\* Three gates, each reading any two of one input and the three gates.
Pairs == {p2 \in (1 .. 4) \X (1 .. 4) : p2[1] >= p2[2]}
ThreeGates ==
    {[mode |-> "ascii", header |-> <<4, 1, 0, 3, 3>>,
      lines |-> <<<<2>>, <<4>>, <<7>>, <<8>>,
                  <<4, 2 * a[1], 2 * a[2]>>, <<6, 2 * b[1] + 1, 2 * b[2]>>, <<8, 2 * c[1], 2 * c[2]>>>>,
      codes |-> <<>>, symbols |-> <<>>] :
        a \in Pairs, b \in Pairs, c \in Pairs}

SomeFiles ==
    {FileOf(g, mode) : g \in InOrderNetlists, mode \in {"ascii", "binary"}} \cup
    {FileOf(g, "ascii") : g \in SomeNetlists} \cup
    {smallFile, smallBinary, padded} \cup WrongLines \cup WrongHeaders \cup WrongSymbols \cup
    WrongCodes \cup WrongBinary \cup ThreeGates

NoneOrTwo == {0, 2}

=============================================================================

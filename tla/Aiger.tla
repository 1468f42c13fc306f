------------------------------- MODULE Aiger -------------------------------
(***************************************************************************)
(* The AIGER library (aiger/aiger.c): the netlist it holds, the calls that *)
(* build one, and the files it writes.  A netlist is one of module Aig,    *)
(* without the property and with what else a file has:                     *)
(*   maxvar                  no literal in use is larger than 2*maxvar+1   *)
(*   outputs, bad, fairness  literals;  justice: lists of literals         *)
(*   types                   what defines a variable, and where in its     *)
(*                           list the definition stands                    *)
(*   named                   the <<list, position>> that have a symbol     *)
(*                                                                         *)
(* A file is kept by what its parts say, not by its characters:            *)
(*   mode     "ascii" or "binary"                                          *)
(*   header   the numbers M I L O A [B [C [J [F]]]]                        *)
(*   lines    the lines after it, as lists of numbers                      *)
(*   codes    in a binary file the characters of the gates, each the bits  *)
(*            that count and whether another one follows                   *)
(*   symbols  the lines of the symbol table, as <<list, position>>         *)
(***************************************************************************)
EXTENDS Aig, SequencesExt

CONSTANTS
    Width,      \* the bits of an unsigned number
    Group       \* the bits of it that one character holds

ASSUME WidthAssumption == Width \in Nat \ {0} /\ Group \in 1 .. Width

Graph == INSTANCE Graphs

Lists  == <<"inputs", "latches", "outputs", "bad", "constraints", "justice", "fairness">>
Modulo == 2 ^ Width

aiger_init ==
    [maxvar |-> 0, inputs |-> <<>>, latches |-> <<>>, outputs |-> <<>>, bad |-> <<>>,
     constraints |-> <<>>, justice |-> <<>>, fairness |-> <<>>, ands |-> <<>>,
     types |-> <<>>, named |-> {}]

-----------------------------------------------------------------------------
(* The calls that build a netlist.                                         *)

aiger_import_literal(g, l) == [g EXCEPT !.maxvar = IF lit2var(l) > @ THEN lit2var(l) ELSE @]

\* Variable of l is defined by the next element of a list.
Typed(g, l, list) ==
    [aiger_import_literal(g, l) EXCEPT !.types = (lit2var(l) :> <<list, Len(g[list]) + 1>>) @@ @]

aiger_add_input(g, l) == [Typed(g, l, "inputs") EXCEPT !.inputs = Append(@, l)]

aiger_add_latch(g, l, next) ==
    [aiger_import_literal(Typed(g, l, "latches"), next) EXCEPT
       !.latches = Append(@, <<l, next, 0>>)]

aiger_add_reset(g, l, reset) == [g EXCEPT !.latches[g.types[lit2var(l)][2]][3] = reset]

\* aiger_add_output, _bad, _constraint and _fairness.
AddTo(g, list, l) == [aiger_import_literal(g, l) EXCEPT ![list] = Append(@, l)]

aiger_add_justice(g, L) ==
    [FoldLeft(aiger_import_literal, g, L) EXCEPT !.justice = Append(@, L)]

aiger_add_and(g, lhs, rhs0, rhs1) ==
    [aiger_import_literal(aiger_import_literal(Typed(g, lhs, "ands"), rhs0), rhs1) EXCEPT
       !.ands = Append(@, <<lhs, rhs0, rhs1>>)]

IsA(g, v, list) == v \in DOMAIN g.types /\ g.types[v][1] = list

\* The gate that defines a variable.
GateOf(g, v) == g.ands[g.types[v][2]]

aiger_literal_defined(g, l) == lit2var(l) = 0 \/ lit2var(l) \in DOMAIN g.types

-----------------------------------------------------------------------------
(* The files written.                                                      *)

aiger_max_input_or_latch(g) == Max({0} \cup RangeOf(g.inputs) \cup {x[1] : x \in RangeOf(g.latches)})

\* Inputs, latches and gates follow each other, and no gate reads a later one.
aiger_is_reencoded(g) ==
    /\ \A k \in DOMAIN g.inputs  : g.inputs[k] = 2 * k
    /\ \A k \in DOMAIN g.latches : g.latches[k][1] = 2 * (Len(g.inputs) + k)
    /\ \A k \in DOMAIN g.ands :
          LET a == g.ands[k]
          IN  a[1] = aiger_max_input_or_latch(g) + 2 * k /\ a[1] >= a[2] /\ a[2] >= a[3]

\* Seeded fault: a number that fills its last character is not continued.
aiger_write_delta_short(n) ==
    LET code[x \in Nat] == IF x <= 2 ^ Group THEN <<<<x % 2 ^ Group, FALSE>>>>
                           ELSE <<<<x % 2 ^ Group, TRUE>>>> \o code[x \div 2 ^ Group]
    IN  code[n]

\* A number in groups of bits, the lowest first.
aiger_write_delta(n) ==
    LET code[x \in Nat] == IF x < 2 ^ Group THEN <<<<x, FALSE>>>>
                           ELSE <<<<x % 2 ^ Group, TRUE>>>> \o code[x \div 2 ^ Group]
    IN  code[n]

\* The counts from B on are written up to the last that is not 0.
HeaderOf(g) ==
    LET more == <<Len(g.bad), Len(g.constraints), Len(g.justice), Len(g.fairness)>>
    IN  <<g.maxvar, Len(g.inputs), Len(g.latches), Len(g.outputs), Len(g.ands)>> \o
        SubSeq(more, 1, Max({0} \cup {k \in 1 .. 4 : more[k] # 0}))

Each(list) == [k \in DOMAIN list |-> <<list[k]>>]

LinesOf(g, mode) ==
    LET latch(x) == (IF mode = "ascii" THEN <<x[1], x[2]>> ELSE <<x[2]>>) \o
                    (IF x[3] = 0 THEN <<>> ELSE <<x[3]>>)
    IN  (IF mode = "ascii" THEN Each(g.inputs) ELSE <<>>) \o
        [k \in DOMAIN g.latches |-> latch(g.latches[k])] \o
        Each(g.outputs) \o Each(g.bad) \o Each(g.constraints) \o
        [k \in DOMAIN g.justice |-> <<Len(g.justice[k])>>] \o Each(FlattenSeq(g.justice)) \o
        Each(g.fairness) \o
        (IF mode = "ascii" THEN g.ands ELSE <<>>)

\* A gate is written by how far its operands are below it and each other.
CodesOf(g) ==
    FlattenSeq([k \in DOMAIN g.ands |->
                  aiger_write_delta(g.ands[k][1] - g.ands[k][2]) \o
                  aiger_write_delta(g.ands[k][2] - g.ands[k][3])])

SymbolsOf(g) ==
    FlattenSeq([n \in DOMAIN Lists |->
                  SelectSeq([k \in DOMAIN g[Lists[n]] |-> <<Lists[n], k>>], LAMBDA s : s \in g.named)])

FileOf(g, mode) ==
    [mode |-> mode, header |-> HeaderOf(g), lines |-> LinesOf(g, mode),
     codes |-> IF mode = "binary" THEN CodesOf(g) ELSE <<>>, symbols |-> SymbolsOf(g)]

=============================================================================

---------------------------- MODULE AigerWriter ----------------------------
(***************************************************************************)
(* How the AIGER library writes a netlist (aiger_write_generic of aiger.c):*)
(* it asserts that the netlist is consistent, for the binary format gives  *)
(* the variables new numbers (aiger_reencode) unless they are in order     *)
(* already, and writes the file.  Here every file written is read back by  *)
(* a library object of its own.                                            *)
(*                                                                         *)
(* The gates get their numbers in a depth-first search from the literals   *)
(* that matter; on its stack a gate with a 0 above it has its operands     *)
(* above these.                                                            *)
(***************************************************************************)
EXTENDS AigerReader

VARIABLES
    source,     \* the netlist that was to be written, as a list of one, or <<>>
    roots,      \* the literals from which gates are still to be numbered
    code        \* the new numbers of variables

wvars == <<rvars, source, roots, code>>

\* Somebody reads a file, or has a netlist that is to be written.
ReaderInit(Files) == (\E f \in Files : Reads(f)) /\ source = <<>> /\ roots = <<>> /\ code = <<>>
BuilderInit(Netlists) ==
    /\ \E g \in Netlists : aiger = g
    /\ file = FileOf(aiger_init, "ascii") /\ ln = 1 /\ cn = 1 /\ sizes = <<>>
    /\ mark = {} /\ onstack = {} /\ stack = <<>> /\ i = 0
    /\ job = "none" /\ pc = "built"
    /\ source = <<>> /\ roots = <<>> /\ code = <<>>

\* The netlist was made by the library's calls, or read from another file.
Write ==
    /\ pc \in {"built", "checked"} /\ source = <<>>
    /\ job' \in {"ascii", "binary"} /\ pc' = "check"
    /\ source' = <<aiger>>
    /\ UNCHANGED <<input, aiger, search, i, roots, code>>

\* The assertion holds.  (After reencoding it is the last step that is left.)
Asserted ==
    /\ pc = "checked" /\ source # <<>> /\ job \in {"ascii", "binary", "reencoded"}
    /\ pc' = IF job = "binary" THEN "reencode" ELSE "write"
    /\ UNCHANGED <<input, aiger, search, i, job, source, roots, code>>

-----------------------------------------------------------------------------
(* aiger_reencode                                                          *)

\* The numbers follow each other.
NewVar    == Cardinality(DOMAIN code) + 1
NewLit(l) == IF l < 2 THEN l ELSE 2 * code[lit2var(l)] + (l % 2)

InOrder ==
    /\ pc = "reencode" /\ aiger_is_reencoded(aiger)
    /\ pc' = "write"
    /\ UNCHANGED <<input, aiger, search, i, job, source, roots, code>>

\* Inputs and latches come first.  Gates are then looked for below the next
\* states and resets, the outputs and all other literals, in this order.
StartCodes ==
    /\ pc = "reencode" /\ ~ aiger_is_reencoded(aiger)
    /\ LET first == aiger.inputs \o [k \in DOMAIN aiger.latches |-> aiger.latches[k][1]]
       IN  code' = [v \in {lit2var(l) : l \in RangeOf(first)} |->
                      CHOOSE k \in DOMAIN first : lit2var(first[k]) = v]
    /\ roots' = FlattenSeq([k \in DOMAIN aiger.latches |-> Tail(aiger.latches[k])]) \o
                aiger.outputs \o aiger.bad \o aiger.constraints \o FlattenSeq(aiger.justice) \o aiger.fairness
    /\ stack' = <<>> /\ pc' = "number"
    /\ UNCHANGED <<input, aiger, mark, onstack, i, job, source>>

NextRoot ==
    /\ pc = "number" /\ stack = <<>> /\ roots # <<>>
    /\ roots' = Tail(roots)
    /\ LET v == lit2var(Head(roots))
       IN  stack' = IF v = 0 \/ v \in DOMAIN code THEN <<>> ELSE <<v>>
    /\ UNCHANGED <<input, aiger, mark, onstack, i, job, pc, source, code>>

\* A gate that has its number, or whose operands are being visited.
SkipGate ==
    /\ pc = "number" /\ stack # <<>>
    /\ Last(stack) # 0 /\ Last(stack) \in DOMAIN code \cup onstack
    /\ stack' = Front(stack)
    /\ UNCHANGED <<input, aiger, mark, onstack, i, job, pc, source, roots, code>>

\* The operand with the smaller variable is visited first.
Operand(v) ==
    IF v = 0 \/ IsA(aiger, v, "inputs") \/ IsA(aiger, v, "latches") \/ v \in onstack THEN <<>> ELSE <<v>>

EnterGate ==
    /\ pc = "number" /\ stack # <<>>
    /\ LET v == Last(stack)
           a == GateOf(aiger, v)
           c == {lit2var(a[2]), lit2var(a[3])}
       IN  /\ v # 0 /\ v \notin DOMAIN code \cup onstack
           /\ onstack' = onstack \cup {v}
           /\ stack' = stack \o <<0>> \o Operand(Max(c)) \o Operand(Min(c))
    /\ UNCHANGED <<input, aiger, mark, i, job, pc, source, roots, code>>

NumberGate ==
    /\ pc = "number" /\ stack # <<>> /\ Last(stack) = 0
    /\ LET v == Last(Front(stack))
       IN  code' = (v :> NewVar) @@ code /\ onstack' = onstack \ {v}
    /\ stack' = Front(Front(stack))
    /\ UNCHANGED <<input, aiger, mark, i, job, pc, source, roots>>

\* The gates that have a number, with their operands in order, sorted.
Reencoded ==
    LET kept == SelectSeq(aiger.ands, LAMBDA a : lit2var(a[1]) \in DOMAIN code)
        gate(a) == LET r == {NewLit(a[2]), NewLit(a[3])} IN <<NewLit(a[1]), Max(r), Min(r)>>
    IN  SortSeq([k \in DOMAIN kept |-> gate(kept[k])], LAMBDA a, b : a[1] < b[1])

TypesOf(list, lits) ==
    [v \in {lit2var(l) : l \in RangeOf(lits)} |->
       <<list, CHOOSE k \in DOMAIN lits : lit2var(lits[k]) = v>>]

\* Seeded fault: the types of variables that are no longer there are kept.
RetypedBelow(g) ==
    TypesOf("latches", [k \in DOMAIN g.latches |-> g.latches[k][1]]) @@ TypesOf("inputs", g.inputs) @@
    TypesOf("ands", [k \in DOMAIN g.ands |-> g.ands[k][1]]) @@
    [v \in {v \in DOMAIN g.types : v > g.maxvar} |-> g.types[v]]

Retyped(g) ==
    TypesOf("latches", [k \in DOMAIN g.latches |-> g.latches[k][1]]) @@ TypesOf("inputs", g.inputs) @@
    TypesOf("ands", [k \in DOMAIN g.ands |-> g.ands[k][1]])

\* Every list is rewritten in the new numbers, and the netlist is checked again.
EndCodes ==
    /\ pc = "number" /\ stack = <<>> /\ roots = <<>>
    /\ LET all(L) == [k \in DOMAIN L |-> NewLit(L[k])]
           g == [aiger EXCEPT
                   !.maxvar = Cardinality(DOMAIN code), !.ands = Reencoded,
                   !.inputs = all(@), !.outputs = all(@), !.bad = all(@), !.constraints = all(@),
                   !.fairness = all(@),
                   !.latches = [k \in DOMAIN @ |-> all(@[k])],
                   !.justice = [k \in DOMAIN @ |-> all(@[k])]]
       IN  aiger' = [g EXCEPT !.types = Retyped(g)]
    /\ pc' = "check" /\ job' = "reencoded"
    /\ UNCHANGED <<input, search, i, source, roots, code>>

-----------------------------------------------------------------------------

\* The file is written, and a new library object reads it.
WriteFile ==
    /\ pc = "write"
    /\ file' = FileOf(aiger, IF job = "ascii" THEN "ascii" ELSE "binary")
    /\ ln' = 1 /\ cn' = 1 /\ sizes' = <<>> /\ aiger' = aiger_init
    /\ mark' = {} /\ onstack' = {} /\ stack' = <<>> /\ i' = 0
    /\ job' = "read" /\ pc' = "header"
    /\ code' = <<>>
    /\ UNCHANGED <<source, roots>>

WriteSteps == \/ Write \/ Asserted \/ InOrder \/ StartCodes \/ NextRoot \/ SkipGate \/ EnterGate
              \/ NumberGate \/ EndCodes \/ WriteFile

-----------------------------------------------------------------------------

(* What the library knows of a variable is what the lists say: while a     *)
(* netlist is read, after gates were given other numbers and gates that    *)
(* nothing needs were dropped ("it is important to reset the types of the  *)
(* deleted as well as the retained literals, before reducing maxvar",      *)
(* aiger.c:1617), and for a netlist that was read back.                    *)
TypesAgree ==
    /\ \A k \in DOMAIN aiger.inputs  : aiger.types[lit2var(aiger.inputs[k])]     = <<"inputs", k>>
    /\ \A k \in DOMAIN aiger.latches : aiger.types[lit2var(aiger.latches[k][1])] = <<"latches", k>>
    /\ \A k \in DOMAIN aiger.ands    : aiger.types[lit2var(aiger.ands[k][1])]    = <<"ands", k>>
    /\ Cardinality(DOMAIN aiger.types) = Len(aiger.inputs) + Len(aiger.latches) + Len(aiger.ands)

\* What is used is defined, and no gate depends on itself.
Consistent(defined, used, ands) ==
    LET gates == {lit2var(a[1]) : a \in ands}
        reads == {<<lit2var(a[1]), lit2var(a[k])>> : a \in ands, k \in {2, 3}}
    IN  /\ \A l \in used : lit2var(l) \in defined \cup {0}
        /\ Graph!IsDag([node |-> gates, edge |-> reads \cap (gates \X gates)])

\* The ASCII files that the format allows, told from their lines alone.
\* (Numbers are what is left of them in Width bits.)
Allowed ==
    LET number(t) == [j \in DOMAIN t |-> t[j] % Modulo]
        lines     == [k \in DOMAIN file.lines |-> number(file.lines[k])]
        before    == Count(2) + Count(3) + Count(4) + Count(6) + Count(7)
        literals  == IF before + Count(8) > Len(lines) THEN 0
                     ELSE MapThenSumSet(LAMBDA k : lines[k][1], before + 1 .. before + Count(8))
        \* inputs, latches, outputs, bad, constraints, sizes, justice, fairness, gates
        length    == <<Count(2), Count(3), Count(4), Count(6), Count(7), Count(8), literals, Count(9), Count(5)>>
        first(n)  == MapThenSumSet(LAMBDA m : length[m], 1 .. n - 1) + 1
        section   == [n \in 1 .. 9 |-> SubSeq(lines, first(n), first(n) + length[n] - 1)]
        all(S)    == UNION {RangeOf(section[n]) : n \in S}
        definitions == section[1] \o section[2] \o section[9]
        defined     == {lit2var(t[1]) : t \in RangeOf(definitions)}
    IN  /\ Len(file.header) \in 5 .. 9
        /\ Len(lines) = first(10) - 1
        /\ \A t \in all({2}) : Len(t) \in {2, 3} /\ (Len(t) = 3 => t[3] \in {0, 1, t[1]})
        /\ \A t \in all({9}) : Len(t) = 3
        /\ \A t \in all({1} \cup 3 .. 8) : Len(t) = 1
        /\ \A t \in RangeOf(definitions) : ~ sign(t[1]) /\ lit2var(t[1]) \in 1 .. Count(1)
        /\ Cardinality(defined) = Len(definitions)
        /\ Consistent(defined, UNION {RangeOf(t) : t \in all((1 .. 9) \ {6})}, all({9}))
        /\ \A s \in RangeOf(file.symbols) :
              s[2] <= CASE s[1] = "inputs"      -> Count(2) [] s[1] = "latches" -> Count(3)
                        [] s[1] = "outputs"     -> Count(4) [] s[1] = "bad"     -> Count(6)
                        [] s[1] = "constraints" -> Count(7) [] s[1] = "justice" -> Count(8)
                        [] s[1] = "fairness"    -> Count(9)
        /\ Cardinality(RangeOf(file.symbols)) = Len(file.symbols)

(* A file in ASCII is accepted exactly if it says as much as its header    *)
(* announces, defines every variable it uses once and in range, and no     *)
(* gate depends on itself (the search for cycles meets gates that several  *)
(* others share, and starts anew for gates that no other reads), and a     *)
(* reset that is not allowed stops the program.                            *)
AcceptsExactly ==
    source = <<>> /\ pc \in {"checked", "error", "aborted"} /\ ~ Binary =>
      (pc = "checked" <=> Allowed)

\* What a netlist computes: for each state and input the next state and the
\* literals of each list, and how each latch starts.
Meaning(g) ==
    [resets |-> [n \in Latches(g) |-> IF g.latches[n][3] < 2 THEN g.latches[n][3] ELSE "any"],
     values |-> [s \in [Latches(g) -> BOOLEAN] \X [DOMAIN g.inputs -> BOOLEAN] |->
                   LET val    == Eval(g, s[1], s[2])
                       All(L) == [k \in DOMAIN L |-> ValueOf(val, L[k])]
                   IN  <<[n \in Latches(g) |-> ValueOf(val, g.latches[n][2])], All(g.outputs), All(g.bad),
                         All(g.constraints), [k \in DOMAIN g.justice |-> All(g.justice[k])],
                         All(g.fairness)>>]]

(* A netlist that was written and read back computes the same from inputs  *)
(* and latches in the same order, and has the same symbols; given new      *)
(* numbers, it is in order and has no gate that nothing reads (aiger.h,    *)
(* "aiger_reencode").  Only an inconsistent netlist stops the program      *)
(* ("assert(!aiger_check(public))"), and the reader rejects what was       *)
(* written only when the netlist, already in order, had variables it does  *)
(* not use: the binary header then counts them and its reader does not.    *)
ReadBack ==
    \A g \in RangeOf(source) :
      /\ pc = "checked" /\ job = "read" => Meaning(aiger) = Meaning(g) /\ aiger.named = g.named
      /\ job = "reencoded" =>
           /\ aiger_is_reencoded(aiger)
           /\ \A a \in RangeOf(aiger.ands) : {a[1], a[1] + 1} \cap Used(aiger) # {}
      /\ pc = "error" =>
           Binary /\ aiger_is_reencoded(g) /\ g.maxvar > Len(g.inputs) + Len(g.latches) + Len(g.ands)
      /\ pc = "aborted" => ~ Consistent(DOMAIN g.types, Used(g), RangeOf(g.ands))

=============================================================================

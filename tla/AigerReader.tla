---------------------------- MODULE AigerReader ----------------------------
(***************************************************************************)
(* How the AIGER library reads a file (aiger_read_generic of aiger.c) and  *)
(* checks the netlist (aiger_check): the header, a line or gate at a time, *)
(* the symbols, then whether every literal is defined, and a depth-first   *)
(* search for cycles among the gates, with a stack on which a 0 stands     *)
(* between a gate and its operands.                                        *)
(*                                                                         *)
(* The library ends with pc = "error" when it rejects the file, and with   *)
(* pc = "aborted" when an assertion fails.                                 *)
(***************************************************************************)
EXTENDS Aiger

VARIABLES
    file,           \* the file
    ln, cn,         \* the next of its lines and its codes
    sizes,          \* the sizes of the justice properties
    aiger,          \* the netlist
    mark, onstack,  \* the variables with these flags in their types
    stack,          \* of the search
    i,              \* the loop counter
    job,            \* who called aiger_check: "read", or a write ("ascii", "binary")
    pc

input  == <<file, ln, cn, sizes>>
search == <<mark, onstack, stack>>
rvars  == <<input, aiger, search, i, job, pc>>

\* A library object that has just been made reads file f.
Reads(f) ==
    /\ file = f /\ ln = 1 /\ cn = 1 /\ sizes = <<>>
    /\ aiger = aiger_init
    /\ mark = {} /\ onstack = {} /\ stack = <<>> /\ i = 0
    /\ job = "read" /\ pc = "header"

-----------------------------------------------------------------------------
(* Reading.                                                                *)

Binary == file.mode = "binary"

\* Numbers are unsigned, and what does not fit is lost.
Count(k) == IF k <= Len(file.header) THEN file.header[k] % Modulo ELSE 0
Line     == [k \in DOMAIN file.lines[ln] |-> file.lines[ln][k] % Modulo]

Valid(l)     == lit2var(l) <= aiger.maxvar
Definable(l) == l # 0 /\ ~ sign(l) /\ Valid(l) /\ ~ aiger_literal_defined(aiger, l)

\* The sections of the file in their order, with what each one reads, how
\* many there are, and what a line of it has to look like.
Sections == <<"inputs", "latches", "outputs", "bad", "constraints", "sizes", "justice", "fairness",
              "ands">>
Done(section) == IF section = "sizes" THEN Len(sizes) ELSE Len(aiger[section])
Wanted(section) ==
    CASE section = "inputs"  -> Count(2) [] section = "latches"     -> Count(3)
      [] section = "outputs" -> Count(4) [] section = "ands"        -> Count(5)
      [] section = "bad"     -> Count(6) [] section = "constraints" -> Count(7)
      [] section \in {"sizes", "justice"} -> Count(8)
      [] section = "fairness" -> Count(9)

HasLine(section) == ~ (Binary /\ section \in {"inputs", "ands"})

LineOK(t, section) ==
    CASE section = "inputs" -> Len(t) = 1 /\ Definable(t[1])
      [] section = "latches" ->
           IF Binary THEN Len(t) \in {1, 2} /\ Valid(t[1])
           ELSE Len(t) \in {2, 3} /\ Definable(t[1]) /\ Valid(t[2])
      [] section = "ands" -> Len(t) = 3 /\ Definable(t[1]) /\ Valid(t[2]) /\ Valid(t[3])
      [] section \in {"sizes", "justice"} -> Len(t) = 1
      [] OTHER -> Len(t) = 1 /\ Valid(t[1])

More(section) == pc = section /\ Done(section) < Wanted(section)

\* The next line is one of this section.
IsNext(section)  == ln <= Len(file.lines) /\ LineOK(Line, section)
Reading(section) == More(section) /\ HasLine(section) /\ IsNext(section) /\ ln' = ln + 1

ReadHeader ==
    /\ pc = "header"
    /\ IF Len(file.header) \notin 5 .. 9 \/ (Binary /\ (Count(2) + Count(3) + Count(5)) % Modulo # Count(1))
       THEN pc' = "error" /\ aiger' = aiger
       ELSE pc' = Sections[1] /\ aiger' = [aiger EXCEPT !.maxvar = Count(1)]
    /\ UNCHANGED <<input, search, i, job>>

ReadInput ==
    /\ Reading("inputs")
    /\ aiger' = aiger_add_input(aiger, Line[1])
    /\ UNCHANGED <<file, cn, sizes, search, i, job, pc>>

\* The inputs of a binary file are its first variables.
ImpliedInput ==
    /\ More("inputs") /\ Binary
    /\ aiger' = aiger_add_input(aiger, 2 * (Len(aiger.inputs) + 1))
    /\ UNCHANGED <<input, search, i, job, pc>>

\* In a binary file the latch's own literal is left out.  The reset is
\* whatever the line says: only an assertion asks which it may be.
LatchOf(t) ==
    IF Binary THEN <<2 * (Len(aiger.latches) + Count(2) + 1)>> \o t ELSE t

ReadLatch ==
    /\ Reading("latches")
    /\ LET t == LatchOf(Line)
           g == aiger_add_latch(aiger, t[1], t[2])
       IN  IF Len(t) = 2 THEN aiger' = g /\ pc' = pc
           ELSE IF t[3] \in {0, 1, t[1]} THEN aiger' = aiger_add_reset(g, t[1], t[3]) /\ pc' = pc
           ELSE aiger' = g /\ pc' = "aborted"
    /\ UNCHANGED <<file, cn, sizes, search, i, job>>

\* An output, a bad literal, a constraint or a fairness constraint.
ReadLiteral ==
    /\ \E section \in {"outputs", "bad", "constraints", "fairness"} :
          Reading(section) /\ aiger' = AddTo(aiger, section, Line[1])
    /\ UNCHANGED <<file, cn, sizes, search, i, job, pc>>

\* First the sizes of all justice properties, then the literals of each.
ReadSize ==
    /\ Reading("sizes")
    /\ sizes' = Append(sizes, Line[1])
    /\ UNCHANGED <<file, cn, aiger, search, i, job, pc>>

\* The lines of the next justice property, and whether they are there.
JusticeLines == ln .. ln + sizes[Len(aiger.justice) + 1] - 1
IsJustice    == \A k \in JusticeLines : k <= Len(file.lines) /\ Len(file.lines[k]) = 1

ReadJustice ==
    /\ More("justice") /\ IsJustice
    /\ LET size == Cardinality(JusticeLines)
       IN  /\ aiger' = aiger_add_justice(aiger, [k \in 1 .. size |-> file.lines[ln + k - 1][1] % Modulo])
           /\ ln' = ln + size
    /\ UNCHANGED <<file, cn, sizes, search, i, job, pc>>

ReadAnd ==
    /\ Reading("ands")
    /\ aiger' = aiger_add_and(aiger, Line[1], Line[2], Line[3])
    /\ UNCHANGED <<file, cn, sizes, search, i, job, pc>>

\* How many characters a number may have; the bits that the last one is too long.
MaxGroups == (Width + Group - 1) \div Group
Excess    == MaxGroups * Group - Width

\* The numbers that the codes from k on may be read as, with the code after
\* them.  The bits beyond Width are lost; but for one more character than a
\* number may have the shift is by more bits than a number has, and the result
\* may be anything.
aiger_read_delta(k) ==
    UNION {LET digits == e - k
               value  == MapThenSumSet(LAMBDA d : file.codes[d][1] * 2 ^ (Group * (d - k)), k .. e)
           IN  IF digits < MaxGroups THEN {<<value % Modulo, e + 1>>}
               ELSE IF digits = MaxGroups /\ file.codes[e][1] < 2 ^ Excess THEN (0 .. Modulo - 1) \X {e + 1}
               ELSE {} :
           e \in {e \in k .. Len(file.codes) :
                    ~ file.codes[e][2] /\ \A d \in k .. e - 1 : file.codes[d][2]}}

\* The two deltas of the next gate, and the code after them.
Deltas == UNION {{<<d[1], e[1], e[2]>> : e \in aiger_read_delta(d[2])} : d \in aiger_read_delta(cn)}
NextLhs == aiger_max_input_or_latch(aiger) + 2 * (Len(aiger.ands) + 1)

\* Operands are at most as large as what they are subtracted from.
DeltasOK(d) == d[1] <= NextLhs /\ d[2] <= NextLhs - d[1]

ReadCodedAnd ==
    /\ More("ands") /\ Binary
    /\ \E d \in Deltas :
          /\ DeltasOK(d)
          /\ aiger' = aiger_add_and(aiger, NextLhs, NextLhs - d[1], NextLhs - d[1] - d[2])
          /\ cn' = d[3]
    /\ UNCHANGED <<file, ln, sizes, search, i, job, pc>>

\* The end of a section.
NextSection ==
    /\ \E n \in DOMAIN Sections :
          /\ pc = Sections[n] /\ Done(pc) = Wanted(pc)
          /\ pc' = IF n < Len(Sections) THEN Sections[n + 1] ELSE "symbols"
    /\ i' = 0
    /\ UNCHANGED <<input, aiger, search, job>>

\* What is there is not what is expected.
ReadError ==
    /\ pc \in RangeOf(Sections) /\ More(pc)
    /\ ~ (CASE pc = "justice" -> IsJustice
            [] HasLine(pc)    -> IsNext(pc)
            [] pc = "ands"    -> Deltas # {} /\ \A d \in Deltas : DeltasOK(d)
            [] OTHER          -> TRUE)
    /\ pc' = "error"
    /\ UNCHANGED <<input, aiger, search, i, job>>

\* One line of the symbol table, after all lines and codes.
ReadSymbol ==
    /\ pc = "symbols" /\ i < Len(file.symbols)
    /\ i' = i + 1
    /\ LET s == file.symbols[i + 1]
       IN  IF s[2] \in DOMAIN aiger[s[1]] /\ s \notin aiger.named
           THEN aiger' = [aiger EXCEPT !.named = @ \cup {s}] /\ pc' = pc
           ELSE aiger' = aiger /\ pc' = "error"
    /\ UNCHANGED <<input, search, job>>

ReadEnd ==
    /\ pc = "symbols" /\ i = Len(file.symbols)
    /\ pc' = IF ln <= Len(file.lines) \/ cn <= Len(file.codes) THEN "error" ELSE "check"
    /\ UNCHANGED <<input, aiger, search, i, job>>

-----------------------------------------------------------------------------
(* aiger_check                                                             *)

\* Where a check ends that finds something: in a write it is an assertion.
Failed == IF job = "read" THEN "error" ELSE "aborted"

Used(g) ==
    {x[2] : x \in RangeOf(g.latches)} \cup
    RangeOf(g.outputs) \cup RangeOf(g.bad) \cup RangeOf(g.constraints) \cup RangeOf(g.fairness) \cup
    UNION {RangeOf(L) : L \in RangeOf(g.justice)} \cup
    UNION {{a[2], a[3]} : a \in RangeOf(g.ands)}

CheckDefined ==
    /\ pc = "check"
    /\ pc' = IF \A l \in Used(aiger) : aiger_literal_defined(aiger, l) THEN "cycles" ELSE Failed
    /\ i' = 1 /\ stack' = <<>>
    /\ UNCHANGED <<input, aiger, mark, onstack, job>>

\* Seeded fault: a gate that was seen before ends a cycle, finished or not.
CycleFoundAnywhere ==
    /\ pc = "cycles" /\ stack # <<>>
    /\ LET j == Last(stack) IN j # 0 /\ j \in mark
    /\ pc' = Failed
    /\ UNCHANGED <<input, aiger, search, i, job>>

\* A gate whose operands are still being visited is met again.
CycleFound ==
    /\ pc = "cycles" /\ stack # <<>>
    /\ LET j == Last(stack) IN j # 0 /\ j \in mark /\ j \in onstack
    /\ pc' = Failed
    /\ UNCHANGED <<input, aiger, search, i, job>>

\* The search goes on with the next gate that it did not meet.
CycleRoot ==
    /\ pc = "cycles" /\ stack = <<>>
    /\ i <= aiger.maxvar /\ i' = i + 1
    /\ stack' = IF IsA(aiger, i, "ands") /\ i \notin mark THEN <<i>> ELSE <<>>
    /\ UNCHANGED <<input, aiger, mark, onstack, job, pc>>

\* Seeded fault: what is skipped stays on the stack.
CycleSkipStays ==
    /\ pc = "cycles" /\ stack # <<>>
    /\ LET j == Last(stack) IN j # 0 /\ j \notin onstack /\ (~ IsA(aiger, j, "ands") \/ j \in mark)
    /\ UNCHANGED <<input, aiger, search, i, job, pc>>

CycleSkip ==
    /\ pc = "cycles" /\ stack # <<>>
    /\ LET j == Last(stack) IN j # 0 /\ j \notin onstack /\ (~ IsA(aiger, j, "ands") \/ j \in mark)
    /\ stack' = Front(stack)
    /\ UNCHANGED <<input, aiger, mark, onstack, i, job, pc>>

NotZero(v) == IF v = 0 THEN <<>> ELSE <<v>>

CycleEnter ==
    /\ pc = "cycles" /\ stack # <<>>
    /\ LET j == Last(stack)
           a == GateOf(aiger, j)
       IN  /\ j # 0 /\ IsA(aiger, j, "ands") /\ j \notin mark
           /\ mark' = mark \cup {j} /\ onstack' = onstack \cup {j}
           /\ stack' = stack \o <<0>> \o NotZero(lit2var(a[2])) \o NotZero(lit2var(a[3]))
    /\ UNCHANGED <<input, aiger, i, job, pc>>

\* All below a gate was visited.
CycleLeave ==
    /\ pc = "cycles" /\ stack # <<>> /\ Last(stack) = 0
    /\ onstack' = onstack \ {Last(Front(stack))}
    /\ stack' = Front(Front(stack))
    /\ UNCHANGED <<input, aiger, mark, i, job, pc>>

CyclesDone ==
    /\ pc = "cycles" /\ stack = <<>> /\ i > aiger.maxvar
    /\ pc' = "checked"
    /\ UNCHANGED <<input, aiger, search, i, job>>

Read  == \/ ReadHeader \/ ReadInput \/ ImpliedInput \/ ReadLatch \/ ReadLiteral \/ ReadSize \/ ReadJustice
         \/ ReadAnd \/ ReadCodedAnd \/ NextSection \/ ReadError \/ ReadSymbol \/ ReadEnd
Check == \/ CheckDefined \/ CycleRoot \/ CycleFound \/ CycleSkip \/ CycleEnter \/ CycleLeave
         \/ CyclesDone

=============================================================================

------------------------------ MODULE Encoding ------------------------------
(***************************************************************************)
(* What main does with a file (main.cpp:58-162).  The AIGER library reads  *)
(* and checks it (modules AigerReader and, for files that it wrote itself, *)
(* AigerWriter).  Then main builds the question the IC3 object is given:   *)
(* aigtocnf (aiglib/aigtocnf.h) writes the netlist as clauses, the solver  *)
(* eliminates variables that are not frozen (module SimpSolver), and main  *)
(* names the latches, next states and inputs by fresh variables.  The      *)
(* circuit that comes out is CircuitOf of module Aig, which the other      *)
(* modules start from.                                                     *)
(*                                                                         *)
(* Solver literals are numbered as AIGER's are, from the first variable    *)
(* that is free.                                                           *)
(***************************************************************************)
EXTENDS AigerWriter

CONSTANTS
    Files,          \* the files that may be read
    Netlists,       \* the netlists that may be written
    StartVars       \* the variables the solver may have beforehand

VARIABLES
    startVar,       \* the first variable of the encoding
    nVars,          \* the variables of the solver are 0 .. nVars - 1
    clauses,        \* the clauses added
    at,             \* where main is: first the library reads the file
    count,          \* how many elements of a list are encoded
    inputLits, in_latches, latch_reset, out_latches,    \* what aigtocnf
    outputLits, badStates,                                  \* returns
    frozen,         \* the variables frozen
    eliminated,     \* the variables that preprocessing eliminated
    check,          \* what the solve that preprocesses returned
    in_latch_vars, out_latch_vars, primary_input_vars,  \* the fresh variables
    p, aiger_prop   \* the property, as a solver literal and in the netlist

lists  == <<inputLits, in_latches, latch_reset, out_latches, outputLits, badStates>>
fresh  == <<in_latch_vars, out_latch_vars, primary_input_vars>>
prep   == <<frozen, eliminated, check>>
chosen == <<p, aiger_prop>>
main   == <<startVar, nVars, clauses, at, count, lists, prep, fresh, chosen>>
vars   == <<wvars, main>>

not(l)    == IF sign(l) THEN l - 1 ELSE l + 1
VarsOf(c) == {lit2var(l) : l \in c}

NotStarted ==
    /\ startVar = 0 /\ nVars = 0
    /\ clauses = {}
    /\ at = "reading" /\ count = 0
    /\ inputLits = <<>> /\ in_latches = <<>> /\ latch_reset = <<>> /\ out_latches = <<>>
    /\ outputLits = <<>> /\ badStates = <<>>
    /\ frozen = {} /\ eliminated = {} /\ check = TRUE
    /\ in_latch_vars = <<>> /\ out_latch_vars = <<>> /\ primary_input_vars = <<>>
    /\ p = 0 /\ aiger_prop = 0

Init == (ReaderInit(Files) \/ BuilderInit(Netlists)) /\ NotStarted

-----------------------------------------------------------------------------
(* aigtocnf                                                                *)

\* The library accepted the file.
StartEncoding ==
    /\ at = "reading" /\ pc = "checked" /\ job = "read"
    /\ startVar' \in StartVars /\ nVars' = startVar'
    /\ at' = "true"
    /\ UNCHANGED <<wvars, clauses, count, lists, prep, fresh, chosen>>

\* It did not: exit(1), or an assertion failed.
NoNetlist ==
    /\ at = "reading" /\ pc \in {"error", "aborted"}
    /\ at' = IF pc = "error" THEN "exit(1)" ELSE "aborted"
    /\ UNCHANGED <<wvars, startVar, nVars, clauses, count, lists, prep, fresh, chosen>>

getLit(l) == l + 2 * startVar

\* The variables of these literals, and those below them, are there.
Named(L) == nVars' = FoldSet(LAMBDA l, k : IF lit2var(getLit(l)) < k THEN k ELSE lit2var(getLit(l)) + 1,
                             nVars, L)

\* The next element of a list, and after the last one the next list.
Another(list)        == count < Len(list) /\ count' = count + 1
Step(here)           == at = here /\ at' = at
To(here, next, list) == at = here /\ count = Len(list) /\ count' = 0 /\ at' = next

\* The constant.
EncodeTrue ==
    /\ at = "true" /\ at' = "inputs" /\ count' = 0
    /\ Named({1})
    /\ clauses' = clauses \cup {{getLit(1)}}
    /\ UNCHANGED <<wvars, startVar, lists, prep, fresh, chosen>>

EncodeInput ==
    /\ Step("inputs") /\ Another(aiger.inputs)
    /\ Named({aiger.inputs[count + 1]})
    /\ inputLits' = Append(inputLits, getLit(aiger.inputs[count + 1]))
    /\ UNCHANGED <<wvars, startVar, clauses, in_latches, latch_reset, out_latches, outputLits,
                   badStates, prep, fresh, chosen>>

\* Seeded fault: the gate is implied by its operands, but does not imply the
\* second one.
GateOpen(lhs, rhs0, rhs1) ==
    {{getLit(not(lhs)), getLit(rhs0)}, {getLit(lhs), getLit(not(rhs0)), getLit(not(rhs1))}}

GateClauses(lhs, rhs0, rhs1) ==
    {{getLit(not(lhs)), getLit(rhs0)},
     {getLit(not(lhs)), getLit(rhs1)},
     {getLit(lhs), getLit(not(rhs0)), getLit(not(rhs1))}}

EncodeAnd ==
    /\ Step("ands") /\ Another(aiger.ands)
    /\ LET a == aiger.ands[count + 1]
       IN  /\ Named(RangeOf(a))
           /\ clauses' = clauses \cup GateClauses(a[1], a[2], a[3])
    /\ UNCHANGED <<wvars, startVar, lists, prep, fresh, chosen>>

\* The next-state literals are named before anything else is ("This loop IS
\* critical").
NameNext ==
    /\ Step("next") /\ Another(aiger.latches)
    /\ Named({aiger.latches[count + 1][2]})
    /\ UNCHANGED <<wvars, startVar, clauses, lists, prep, fresh, chosen>>

\* A reset that is neither constant is that of a latch not initialised.
ResetOf(reset) == IF reset = 1 THEN "l_True" ELSE IF reset = 0 THEN "l_False" ELSE "l_Undef"

EncodeLatch ==
    /\ Step("latches") /\ Another(aiger.latches)
    /\ LET latch == aiger.latches[count + 1]
       IN  /\ Named({latch[1], latch[2]})
           /\ in_latches'  = Append(in_latches, getLit(latch[1]))
           /\ out_latches' = Append(out_latches, getLit(latch[2]))
           /\ latch_reset' = Append(latch_reset, ResetOf(latch[3]))
    /\ UNCHANGED <<wvars, startVar, clauses, inputLits, outputLits, badStates, prep, fresh, chosen>>

\* The constraints hold at every step.
EncodeConstraint ==
    /\ Step("constraints") /\ Another(aiger.constraints)
    /\ Named({aiger.constraints[count + 1]})
    /\ clauses' = clauses \cup {{getLit(aiger.constraints[count + 1])}}
    /\ UNCHANGED <<wvars, startVar, lists, prep, fresh, chosen>>

EncodeOutput ==
    /\ Step("outputs") /\ Another(aiger.outputs)
    /\ Named({aiger.outputs[count + 1]})
    /\ outputLits' = Append(outputLits, getLit(aiger.outputs[count + 1]))
    /\ UNCHANGED <<wvars, startVar, clauses, inputLits, in_latches, latch_reset, out_latches,
                   badStates, prep, fresh, chosen>>

EncodeBad ==
    /\ Step("bad") /\ Another(aiger.bad)
    /\ Named({aiger.bad[count + 1]})
    /\ badStates' = Append(badStates, getLit(aiger.bad[count + 1]))
    /\ UNCHANGED <<wvars, startVar, clauses, inputLits, in_latches, latch_reset, out_latches,
                   outputLits, prep, fresh, chosen>>

NextList ==
    /\ \/ To("inputs", "ands", aiger.inputs)
       \/ To("ands", "next", aiger.ands)
       \/ To("next", "latches", aiger.latches)
       \/ To("latches", "constraints", aiger.latches)
       \/ To("constraints", "outputs", aiger.constraints)
       \/ To("outputs", "bad", aiger.outputs)
       \/ To("bad", "freeze", aiger.bad)
    /\ UNCHANGED <<wvars, startVar, nVars, clauses, lists, prep, fresh, chosen>>

-----------------------------------------------------------------------------
(* main                                                                    *)

\* Seeded fault: the literals of the next states are not frozen.
FrozenButNext == VarsOf({getLit(1)} \cup UNION {RangeOf(l) : l \in {inputLits, in_latches, outputLits, badStates}})

Frozen == VarsOf({getLit(1)} \cup UNION {RangeOf(l) : l \in {inputLits, in_latches, out_latches,
                                                             outputLits, badStates}})

\* What propagation of the clauses makes of literals T.
Propagated(T) ==
    LET after[m \in 0 .. nVars + 1] ==
          IF m = 0 THEN T
          ELSE UNION {S \cup UNION {{l \in c : \A k \in c \ {l} : not(k) \in S} : c \in clauses} :
                        S \in {after[m - 1]}}
    IN  after[nVars + 1]

\* Under these assumptions.  All else follows from the inputs and the latches.
Satisfiable(assumptions) ==
    \E s \in [RangeOf(inputLits) \cup RangeOf(in_latches) -> BOOLEAN] :
       LET T == Propagated(assumptions \cup {IF s[l] THEN l ELSE not(l) : l \in DOMAIN s})
       IN  \A l \in T : not(l) \notin T

\* Preprocessing: any variable of the encoding that is not frozen may go.  When
\* the clauses are contradictory the assertion fails.
Preprocess ==
    /\ at = "freeze"
    /\ frozen' = Frozen
    /\ eliminated' \in SUBSET (startVar .. nVars - 1 \ frozen')
    /\ check' = Satisfiable({})
    /\ at' = IF check' THEN "in_latches" ELSE "aborted"
    /\ UNCHANGED <<wvars, startVar, nVars, clauses, count, lists, fresh, chosen>>

\* A fresh variable for a literal.
Fresh(l) ==
    /\ nVars' = nVars + 1
    /\ clauses' = clauses \cup {{l, 2 * nVars + 1}, {not(l), 2 * nVars}}

NameInLatch ==
    /\ Step("in_latches") /\ Another(in_latches)
    /\ Fresh(in_latches[count + 1])
    /\ in_latch_vars' = Append(in_latch_vars, nVars)
    /\ UNCHANGED <<wvars, startVar, lists, prep, out_latch_vars, primary_input_vars, chosen>>

NameOutLatch ==
    /\ Step("out_latches") /\ Another(out_latches)
    /\ Fresh(out_latches[count + 1])
    /\ out_latch_vars' = Append(out_latch_vars, nVars)
    /\ UNCHANGED <<wvars, startVar, lists, prep, in_latch_vars, primary_input_vars, chosen>>

NameInput ==
    /\ Step("primary_inputs") /\ Another(inputLits)
    /\ Fresh(inputLits[count + 1])
    /\ primary_input_vars' = Append(primary_input_vars, nVars)
    /\ UNCHANGED <<wvars, startVar, lists, prep, in_latch_vars, out_latch_vars, chosen>>

\* The bad literals are the properties or, in a file without them, the outputs.
properties == IF badStates = <<>> THEN outputLits ELSE badStates

\* The option -pi counts from 0.
NoSuchProperty ==
    /\ at = "primary_inputs" /\ count = Len(inputLits) /\ at' = "exit(1)"
    /\ UNCHANGED <<wvars, startVar, nVars, clauses, count, lists, prep, fresh, chosen>>

ChooseProperty ==
    /\ at = "primary_inputs" /\ count = Len(inputLits) /\ at' = "chosen"
    /\ \E pi \in DOMAIN properties :
          /\ p' = properties[pi]
          /\ aiger_prop' = (IF badStates = <<>> THEN aiger.outputs ELSE aiger.bad)[pi]
    /\ UNCHANGED <<wvars, startVar, nVars, clauses, count, lists, prep, fresh>>

\* Without latches the SAT solver answers.
NoLatches ==
    /\ at = "chosen" /\ in_latch_vars = <<>>
    /\ at' = IF Satisfiable({p}) THEN "exit(10)" ELSE "exit(20)"
    /\ UNCHANGED <<wvars, startVar, nVars, clauses, count, lists, prep, fresh, chosen>>

StartIC3 ==
    /\ at = "chosen" /\ in_latch_vars # <<>>
    /\ at' = "IC3"
    /\ UNCHANGED <<wvars, startVar, nVars, clauses, count, lists, prep, fresh, chosen>>

NextNames ==
    /\ \/ To("in_latches", "out_latches", in_latches)
       \/ To("out_latches", "primary_inputs", out_latches)
    /\ UNCHANGED <<wvars, startVar, nVars, clauses, lists, prep, fresh, chosen>>

\* The library at work.
LibraryReads  == at = "reading" /\ (Read \/ Check) /\ UNCHANGED <<source, roots, code, main>>
LibraryWrites == at = "reading" /\ WriteSteps /\ UNCHANGED main

Next ==
    \/ LibraryReads \/ LibraryWrites \/ StartEncoding \/ NoNetlist
    \/ EncodeTrue \/ EncodeInput \/ EncodeAnd \/ NameNext \/ EncodeLatch
    \/ EncodeConstraint \/ EncodeOutput \/ EncodeBad \/ NextList
    \/ Preprocess \/ NameInLatch \/ NameOutLatch \/ NameInput \/ NextNames
    \/ NoSuchProperty \/ ChooseProperty \/ NoLatches \/ StartIC3

Spec == Init /\ [][Next]_vars

\* The program runs on.
FairSpec == Spec /\ WF_vars(Next)

-----------------------------------------------------------------------------

Lit(v, value) == IF value THEN 2 * v ELSE 2 * v + 1
Circuit == CircuitOf(aiger @@ [property |-> aiger_prop])

(* The clauses say what the netlist says: once the current state and the   *)
(* input are fixed through the fresh variables, the clauses are            *)
(* contradictory if a constraint fails and otherwise force every variable  *)
(* of the encoding, the next state and the property being those of the     *)
(* netlist.  The resets are the netlist's.  "assert(check)" (main.cpp:96)  *)
(* fails for the netlists whose constraints exclude each other, and only   *)
(* for those.  Without latches the exit code says whether some input is    *)
(* bad.                                                                    *)
EncodesCircuit ==
    /\ at = "exit(10)" => Circuit.bad \cap Circuit.constr # {}
    /\ at = "exit(20)" => Circuit.bad \cap Circuit.constr = {}
    /\ at = "aborted" /\ pc = "checked" => Circuit.constr = {}
    /\ at = "IC3" =>
       /\ Circuit.constr # {}
       /\ \A n \in Circuit.latches :
             Circuit.resets[n] = CASE latch_reset[n] = "l_True"  -> {TRUE}
                                   [] latch_reset[n] = "l_False" -> {FALSE}
                                   [] OTHER -> BOOLEAN
       /\ \A s \in Steps(Circuit) :
             LET given == {Lit(in_latch_vars[n], s[1][n]) : n \in Circuit.latches} \cup
                          {Lit(primary_input_vars[n], s[2][n]) : n \in DOMAIN inputLits}
                 T     == Propagated(given)
             IN  IF s \notin Circuit.constr THEN \E l \in T : not(l) \in T
                 ELSE /\ \A l \in T : not(l) \notin T
                      /\ \A c \in clauses : c \cap T # {}
                      /\ \A n \in Circuit.latches : Lit(out_latch_vars[n], Circuit.next[s][n]) \in T
                      /\ (IF s \in Circuit.bad THEN p ELSE not(p)) \in T

(* Everything that is named after preprocessing is still there: fresh      *)
(* variables are new, clauses added later and the property mention no      *)
(* variable that was eliminated ("assert(!isEliminated(var(ps[i])))",      *)
(* SimpSolver.cc:152).                                                     *)
NoneEliminated ==
    /\ \A c \in clauses : VarsOf(c) \subseteq 0 .. nVars - 1
    /\ \A l \in UNION {RangeOf(f) : f \in {inputLits, in_latches, out_latches}} :
          lit2var(l) \notin eliminated
    /\ at = "chosen" => lit2var(p) \notin eliminated

(* Main comes to an end, or to the IC3 object: the search for cycles, that *)
(* for new numbers, and the loops over the file and the netlist do, also   *)
(* for gates that read themselves, or are shared by many.                  *)
Finishes == <>(at \in {"exit(1)", "exit(10)", "exit(20)", "aborted", "IC3"})

=============================================================================

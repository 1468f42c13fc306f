# simpleIC3 in TLA+

simpleIC3 is a model checker for AIGER circuits: it answers whether a bad
output can ever be reached, with the IC3 algorithm on top of an incremental SAT
solver (a modified MiniSat). This directory holds a TLA+ model of it, the TLC
runs that check the model on small instances, and TLAPS proofs of its main
safety properties for every circuit and every setting of the options. File names
below are relative to `src/src/`.

## 1. The system

One process, one thread, no persistence: `main` reads a circuit, builds the SAT
solver and an `IC3` object, and calls `solve()`, which exits with 10 (SAT,
counterexample) or 20 (UNSAT, proof). What makes the program hard is not
concurrency but a long, history-dependent computation in which the answers of
the solver are not determined, clauses move between frames in place, and the
justification of the answer is spread over everything that happened before.

| Component | Source | State it keeps | Operations | Talks to |
|---|---|---|---|---|
| IC3 | `simpleIC3/ic3/ic3.h` | frames of clauses, queue of obligations, clause under construction, subsumption marks | `solve`, `pre_image`, `block_cube`, `addNewClause`, `generalize`, `propagateClauses`, `moveInvariantToEnd`, `markSubsumed`, `isBlocked`, `checkCEX`, `checkInvariant` | solver (queries under assumptions), ternary simulation, cones, queue |
| AIGER library | `aiger/aiger.c` | a netlist, and what defines each variable | calls that build a netlist; read a file of either format, check, give new numbers, write | `main` (reading), the netlist library (writing); IC3, cones and ternary simulation read its netlist |
| Circuit as the solver sees it | `simpleIC3/main.cpp`, `simpleIC3/aiglib/aigtocnf.h`, `simpleIC3/ic3/Cone.cpp` | variables of latches, inputs, next-state values; cones of influence | encode, preprocess, name, choose the property, compute cones | AIGER library, solver, IC3 |
| Ternary simulation | `simpleIC3/ic3/Ternary.cpp` | three-valued assignment of every gate, work list | `reduce`, `simulate` | called by `pre_image` and `block_cube` |
| Proof obligations | `simpleIC3/ic3/ic3Types.h` | cube, input, frame, parent, reference count | construct, `ref`, `deref` | shared by queue, children, `solve` |
| Queue | `simpleIC3/util/VHeap.h`, `minisat/mtl/Heap.h` | stacks of obligations by frame, heap of the frames | `insert`, `peekMin`, `removeMin` | `block_cube` |
| Options | `simpleIC3/ic3/ic3config.cpp` | twelve switches that change the algorithm | parse | IC3 |
| MiniSat core | `minisat/core` | trail, watches, clauses, assumptions, released variables | `addClause`, `newVar`, `solve(assumptions)`, `releaseVar`; inside: `search`, `propagate`, `analyze`, `reduceDB`, `simplify` | called by IC3 |
| MiniSat preprocessor | `minisat/simp` | occurrence lists, queue of clauses, eliminated clauses | `addClause`, `eliminate`, `solve` with `extendModel` | `main`, before IC3 starts; extends every model after |
| Clause memory | `minisat/mtl/Alloc.h`, `minisat/core/SolverTypes.h` | a region of words, and what of it is wasted | `alloc`, `free`, `reloc`; `garbageCollect` of both solvers | every list of clause references |
| Netlist library | `simpleIC3/aiglib/aiglib.h`, `Word.h` | netlist under construction | gates, lists of gates, arithmetic on words | nothing in the checker calls it |
| MiniSat containers, options and command lines | `minisat/mtl`, `minisat/utils` | | I/O, containers | |

What makes each component correct:

- **IC3.** Frames over-approximate reachability, step by step; no frame but the
  last has a bad state; a learnt clause is true initially and inductive relative
  to the frame below; nothing learnt is lost when clauses are pushed, subsumed
  and released; every obligation leads to a bad step; both answers are right and
  justified; the computation ends.
- **Ternary simulation.** What is left of a cube forces the step; an undone
  attempt leaves no trace; no latch that could go is left.
- **Obligations and queue.** Counts equal references, nothing leaks, nothing
  dangles; heap and stacks agree; the lowest frame comes first.
- **AIGER library.** Exactly the well-formed files are accepted; a netlist that is
  written computes the same when it is read back; the table of what defines a
  variable agrees with the lists.
- **Circuit.** The solver's clauses define the circuit's functions, and nothing
  that is named after preprocessing was eliminated.
- **Solver.** A model satisfies the clauses and assumptions; a conflict is a set
  of assumptions that is already unsatisfiable; a released variable never
  constrains the clauses that reuse it; every question is answered.
- **Propagation.** No clause that is unit or false is missed, whatever was
  learnt, forgotten or undone before; nothing removed is visited.
- **Preprocessor.** The models over the variables that are left stay the same,
  and each extends to the variables eliminated; the fixpoint is reached.
- **Clause memory.** Every reference is valid, also after all clauses have moved.
- **Netlist library.** A gate's literal has the meaning asked for; gates come
  after what they read; words behave as two's complement numbers.

The hazards (in `PROJECT.json`, each with its line and the properties that
cover it) are of these kinds: sequences of additions, pushes and releases that
lose a clause; frame numbers that are off by one; state that is stale when used
(the activation literal of generalization's hypotheses, subsumption marks,
solver values read at level 0, an interrupted simulation, what is known of variables that have
other numbers now); ordering of gates; counts and codes at their boundaries;
obligations that come back for ever; shared ownership of obligations; references
to clauses that are removed or moved; and, in the solver, levels, assumptions
and watched literals that must fit together over any sequence of backjumps.

## 2. Modules

| Module | Models | How |
|---|---|---|
| `TransitionSystem` | the circuit, as the clauses given to the solver define it | operators: next states, constraints, bad steps, resets, cubes as sets of literals |
| `Aig` | an AIGER netlist, what it computes, `Cone.cpp` | recursive functions; `CircuitOf` yields a circuit of `TransitionSystem` |
| `Aiger` | the netlist of `aiger.c`, the calls that build it, what a file of it says | operators; a file is its header, lines, codes and symbols as numbers |
| `AigerReader` | `aiger_read_generic`, `aiger_check` | one action for one line, gate or symbol read, and for one step of the search for cycles |
| `AigerWriter` | `aiger_write_generic`, `aiger_reencode` | one action for one step of the search that numbers the gates; each file written is read back |
| `Encoding` | `main` from the file to the `IC3` object, with `aigtocnf` | one action for one element of the netlist; shown to yield `CircuitOf` |
| `TestCircuits` | netlists of `tests/` and hand-made ones | data |
| `ModelChecking` | what a model checker promises: a bound that grows while no bad step is within it, and a right answer | abstract specification |
| `IC3` | the class `IC3` | one action for what happens between two answers of the solver on which control depends |
| `IC3Props` | its properties | |
| `IC3Proofs` | proofs about `IC3` | types, frames, the answer UNSAT; obligations, both answers, the refinement of `ModelChecking` |
| `WatchesProofs` | proofs about `Watches` | the watch lists miss nothing |
| `SolverProofs` | proofs about `Solver` | reasons, released variables; what is learnt follows, models and conflicts, the refinement of `SatOracle` |
| `ClauseMemoryProofs` | proofs about `ClauseMemory` | references stay valid, what is wasted is counted right, a copy never runs out of memory and changes nothing but offsets |
| `SimpProofs` | proofs about `SimpSolver` | models are kept and extended, the fixpoint is reached |
| `TernaryProofs` | proofs about `Ternary` | the simulation is complete, undone without trace, and keeps its contract |
| `TCubesProofs` | proofs about `VHeap` and `TCubes` | the heap is one, TCubes are counted, the refinement of `ObligationQueue` |
| `NumberLemmas` | what proofs share | least numbers, minimal sets, climbing induction, functions defined by recursion |
| `Ternary` | `Ternary::reduce` | one action for one visit of a gate |
| `ObligationQueue` | the queue `IC3` is written over | abstract specification |
| `VHeap` | `VHeap.h` and the binary heap | operators on a record |
| `TCubes` | obligations as reference-counted objects in a `VHeap` | one action for one branch of `block_cube` |
| `SatOracle` | what the program expects of the solver: a set of assignments, asked about under assumptions | abstract specification |
| `Solver` | `Solver.cc` without its data structures | one action for one iteration of `search`, one literal of `propagate`, one call of the interface |
| `Watches` | `propagate`'s watch lists, with what `search` does between its calls | one action for one visit of a watcher |
| `ClauseMemory` | `RegionAllocator`, `ClauseAllocator`, `relocAll`, `garbageCollect` | offsets of a given width; one action for one thing the solvers do with clauses |
| `SimpSolver` | the preprocessor | one action for one clause or variable treated |
| `Circuit`, `Word` | `aiglib.h`, `Word.h` | operators that return the netlist, or the word; one action for one kind of call: an operator of one literal, of two, of a list |
| `MCIC3`, `MCTernary`, `MCTCubes`, `MCSolver`, `MCWatches`, `MCClauseMemory`, `MCSimpSolver`, `MCEncoding`, `MCAiglib` | the instances that TLC checks | |

How the modules compose: `IC3` EXTENDS `TransitionSystem` and refines
`ModelChecking` (INSTANCE with `bound <- depth`, which is 0 until the first frame
is opened). It uses ternary simulation through the operator `Reductions`, and
`Ternary!StepForced` is the statement that the simulation stays within that
contract. It uses the queue as a function from frames to stacks of paths;
`TCubes` refines `ObligationQueue`, which has the same state, so that chains of
parent pointers in a heap of levels are shown to be those paths.

Below IC3, `Solver` refines `SatOracle`: its clauses, learnt ones included, have
the models of what was added, and what is said to the solver and by it is the
oracle's. IC3 uses the same contract: `Models`, `BadModels` and the choice of a
conflict are the oracle's two answers. `Watches` and `ClauseMemory` open up two
things `Solver` takes as done: that propagation finds every clause that is unit
(`Watches!NothingMissed`), and that a clause is the same clause as long as it is
referred to (`ClauseMemory!ViewKept`). `Encoding` uses preprocessing by its
contract, which `SimpSolver!ModelsKept` and `ModelExtended` check. It EXTENDS
`AigerWriter`, that `AigerReader`, and that `Aiger`: the same netlist is read,
possibly written and read again, and encoded, in one behaviour; and
`Encoding!EncodesCircuit` says that `Aig!CircuitOf`, from which `MCIC3` and
`Ternary` start, is what the clauses define.

### State and actions of `IC3`

| TLA+ | Code |
|---|---|
| `frames[f]` | `frames[f]`: clauses whose highest frame is `f`, with `is_subsumed`. `ClausesAt(f)` are those `solveAtFrame(.., f)` assumes |
| `depth` | `frames.size()-1` |
| `Q`, `s` | the `VHeap<TCube*>` and `block_cube`'s `s`; a path stands for the chain of parents |
| `clause`, `gen` | `addNewClause`'s `c`, and its and `generalize`'s locals: literals left to try, hypotheses under the current activation literal, whether `in_clause` was made vacuous, the clause at the start of the round, `min_frame` |
| `fr` | the loop variable of `propagateClauses` |
| `PreImageSat`, `PreImageUnsat` | `pre_image` and `solve`'s loop around it |
| `FoundCex`, `AlreadyBlocked`, `Predecessor`, `Conflict`, `BlockCubeDone` | one iteration of `block_cube`, by outcome |
| `GeneralizeSkip`, `GeneralizeKeep`, `GeneralizeDrop`, `GeneralizeRound` | one literal, or one round, of `generalize` |
| `AddNewClause` | the rest of `addNewClause` (early propagation, early subsumption, insertion) and of the iteration (queue forward) |
| `PropagateFrame`, `FoundInvariant`, `PropagateDone` | `propagateClauses`, frame by frame; `moveInvariantToEnd`, `checkInvariant` |

Three things are nondeterministic because they hang on the solver's heuristics:
which model a satisfiable query returns, which unsatisfiable part of the
assumptions a conflict returns, and the order in which literals are tried.
Whether the solver knows a literal at level 0 (`isBlocked` reads `S.value`) is
nondeterministic too (`Impossible`).

Definitions introduced by "Seeded fault" are not part of the model: each is a
plausible slip in one definition, and the property named with it in
`PROJECT.json` ("mutants") fails when the slip replaces the definition.

### State and actions of the other modules

| Module | TLA+ | Code |
|---|---|---|
| `Solver` | `trail` (records of literal, level, reason), `trail_lim`, `clauses`, `learnts`, `free_vars`, `released_vars`; `pc` and `task` say which call runs | the members of those names; `assigns` and `vardata` are read off the trail |
| | `Propagate`, `Learn`, `Restart`, `simplify`, `reduceDB`, `Dummy`, `AssumptionFails`, `Decide`, `ModelFound`, `Contradiction` | the branches of `search` |
| `Watches` | `watches`, `dirty`, the list being visited | `OccLists`, the loop of `propagate` |
| `ClauseMemory` | `ca` (words by offset, `sz`, `cap`, `wasted`), lists of references, `trail` with references as reasons | `ClauseAllocator`, `clauses`, `learnts`, `watches`, `occurs`, `subsumption_queue`, `bwdsub_tmpunit`, `vardata` |
| `SimpSolver` | clauses as a set, `elimclauses`, the clause or variable being treated | `occurs`, `elimclauses`, the loops of `eliminate` |
| `AigerReader` | `file`, `ln`, `cn`, `sizes`; `pc` is the section being read | the stream of `aiger_reader`, the loops of `aiger_read_header`, `aiger_read_ascii`, `aiger_read_binary` |
| | `aiger` (with `types`), `mark`, `onstack`, `stack`, `i` | `struct aiger`, `private->types`, the locals of `aiger_check_for_cycles` |
| | `CycleRoot`, `CycleFound`, `CycleSkip`, `CycleEnter`, `CycleLeave` | the branches of that search |
| `AigerWriter` | `roots`, `code`, and again `stack` and `onstack` | the literals that `aiger_reencode` goes through, its `code`, the stack of `aiger_reencode_lit` |
| | `source` | the netlist that was written, kept to compare with what is read back |
| `Encoding` | `at`, `count`; the lists that `aigtocnf` returns, `clauses`, `frozen`, `eliminated` | where `main` is; the reference parameters of `aigtocnf`, the solver `S` |

In `Aiger` a number is a number, not its digits, and a character of a binary gate is
the pair of its low bits and its continuation bit; the unsigned type has `Width`
bits of which a character holds `Group` (32 and 7 in the code).

In `SimpSolver` clauses are sets of literals in a set, so a clause and its copy
are one; clauses and variables are visited in any order, since the code's orders
hang on occurrence counts; and unit propagation is one step. `substitute` and
`thaw` are never called. In `ClauseMemory` each clause has a number that its
copies keep, which the code does not have: without it one could not say that a
list refers to the same clauses after they moved. There are no decision levels in
it, so more sequences of steps are possible than the solver makes.

## 3. What is checked

Two runs are findings; the others pass. Deadlock is not checked because every one
of these programs may stop: the answer is given, `reduce` or `block_cube` has
returned, a conflict at level 0 ends the search, nobody has to ask again, or
memory is exhausted.

| Run | Question | Bounds, and why they are enough |
|---|---|---|
| `ic3_circuits` | Are the frames sound, are learnt clauses inductive and about their cube, is nothing learnt lost, and are both answers right and justified? (`TypeOK`, `FramesOverapproximate`, `EarlierFramesGood`, `VerdictCorrect`, `WitnessReplays`, `ClauseInductive`, `ClauseBlocks`, `SubsumedCovered`, `FramesOnlyStrengthen`) | Three families, each with the options it is meant for (`Fits`): EVERY circuit of two latches without inputs (256 next-state functions, 16 properties, two reset vectors) with the defaults; 432 circuits of three latches under four settings of generalization and subsumption, since three latches are the least for which clauses of length one, two and three subsume each other in chains across frames; and a circuit whose constraint excludes the initial state, with cones and ternary simulation off. No bound on depth: the state space is finite because the algorithm ends |
| `ic3_options` | Does every path in the queue lead to a bad state, does it end, and does it implement `ModelChecking`? (`PathsForced`, `Terminates`, `ImplementsModelChecking`) | seven circuits with inputs, unknown resets and a hidden latch, under every setting of the options at most two changes from the defaults (but `-queue-forward-all`, see below), and with all switches off |
| `ternary` | Does the simulation keep its contract? (`Consistent`, which includes that an attempt undone leaves no trace; `StepForced`, `NoneLeft`, `Terminates`) | sixteen netlists, every latch and input value, every property or cube, every choice of high-priority latches, with and without the cones |
| `tcubes` | Is ownership right, and is the queue the abstract one? (`Counted`, which includes that nothing is left at the end; `ImplementsQueue`) | frames up to 5 (`MaxDepth`), five obligations alive (`MaxTCubes`), two cubes: five levels make a heap of three ranks, and stacks of two obligations of different owners occur |
| `solver` | Does the solver answer, and rightly? (`ReasonsHold`, `ImplementsOracle`, `Returns`, `FreeAreUnused`) | eight formulas of four or five variables with up to three lists of assumptions, and a user who adds, assumes and releases clauses under activation literals as `solveAtFrame` does. Conflicts at up to four levels, with dummy levels and backjumps over assumptions. One restart (`MaxRestarts`), after two conflicts. Clauses learnt are minimised as by default (`ccmin_mode` 2); for the two formulas where literals go, one of them only with the deep search of `litRedundant`, in the other two modes as well |
| `watches` | Does propagation miss nothing? (`NothingMissed`; `WatchedTwice`, which includes that no removed clause is visited) | three variables, clauses of two and three literals, five clauses in all (`MaxClauses`), of which one is forgotten, and three backjumps (`MaxCancels`): a watch moved, left behind by a backjump and met again takes two of these |
| `memory` | Are references valid, and does a collection change nothing but offsets? (`RefsValid`, `MemoryAccounted`, `Collected`, `ViewKept`) | offsets of four bits, for which the growth of `capacity` stops at 14 words: the unit clause and two clauses of three literals fit, a third does not; three clauses made (`MaxClauses`), one in the queue (`MaxQueue`) |
| `simp` | Are models kept, and extended? (`ModelExtended`, `ModelsKept`, `NothingLeft`, `Terminates`) | eight sets of clauses over five variables, with gates that share inputs, an exclusive or, clauses that shorten each other, facts and a contradiction; with the default options and with `-asymm -rcheck`; up to three clauses added afterwards (`Later`) |
| `encoding` | Which files are accepted, does a netlist survive being written and read, do the clauses define the circuit, and does `main` come to an end? (`AcceptsExactly`, `TypesAgree`, `ReadBack`, `EncodesCircuit`, `NoneEliminated`, `Finishes`) | Files: eleven good ones (constants as outputs, latches that only latches read, constraints on gates that nothing else reads, constraints that exclude each other) in both formats; a small one with a wrong number in every place, each line missing or doubled; wrong headers, symbols and codes; and all 1000 ways to connect three gates, which has every cycle and every sharing of that size. Netlists to be written: in order and scrambled, with gates that nothing reads and gates that several read, with every list a file may have, unused variables, a cycle, an undefined literal. Numbers of five bits (`Width`), two to a character (`Group`): they wrap at 32, and as in the code the last of the characters that a number may have (three, five in the code) has less room than the others. Zero or two variables in the solver beforehand (`StartVars`) |
| `aiglib` | Do gates and words mean what they should? (`Meaning`, which includes that gates come after what they read; `WordsCompute`, the conjunction of `Arithmetic`, `ShiftsMultiply`, `Compares`, `Resizes`, `OneHot` and `ConstantsStay`) | two leaves (`MaxLeaves`), and calls with five operands in all (`MaxOperands`) among all literals returned: two gates and a single operand, or a list and a gate, or one list of up to five, which takes three passes and carries a literal over in two of them; words of one to three literals (`Sizes`), all values, each literal constant or not; for `demux` also words of four and eight put together from them |

Fairness. `IC3!FairSpec`, `Ternary!FairSpec` and `Encoding!FairSpec` add weak fairness of `Next`: the
program is a single thread that does not wait for anything, so it takes a step
whenever it has one. `Solver!FairSpec` has weak fairness of `Search` and
`SimpSolver!FairSpec` of `Work`, the steps inside a call: a call that was made runs,
but nobody has to make another. No fairness is assumed of the choices among steps.
In particular IC3's termination does not rest on the solver being kind: it
holds for every sequence of models and cores.

### Findings

| Run | What the code or its documentation says | What happens |
|---|---|---|
| `ic3_relative` | the hypothesis clause is added above frame 0 (`ic3.h:1237`) | once a conflict has removed a literal, `lit_True` makes the hypothesis vacuous (`ic3.h:1337`), and literals stay that could go; answers are unaffected. On a circuit of five latches made for it (`FiveLatch`): at frame 1 a clause of five literals loses two, one of them by the conflict, and a third literal that would be tried next stays although the other two are inductive by themselves. With `~lit_True` there the property holds on this circuit |
| `ic3_constrained_default` | `-verify` double-checks the witness (`ic3config.cpp:40`) | with constraints and the default reductions the answer can be SAT for a safe circuit, and the check accepts it |

Noted while reading and modelling, without a run of their own:

- With `-queue-forward-all` an obligation is queued at the frame after the last
  (`ic3.h:831`), which `assert(frame<frames.size())` (`ic3.h:239`) excludes.
- With `-no-syntactic-blocking` the assertion on released clauses (`ic3.h:988`)
  calls a function that answers false before it looks (`ic3.h:1131`).
- Clauses of equal size are "assumed to be unique" (`ic3.h:979`), but a clause can
  be pushed onto its copy. This does no harm.
- Ternary simulation reads a gate that comes later as undefined
  (`Ternary.cpp:171`). ASCII AIGER, whose order "is irrelevant"
  (`aiger/FORMAT:174-175`), is read too, although the usage text asks for the binary
  format (`main.cpp:43`). `Ternary` starts from netlists in binary order
  (`NetlistAssumption`), so that `StepForced` says nothing of other orders.
- `demux` returns a word of one literal as it is (`Word.h:365`), not two literals,
  and for sizes from five to seven it reads three literals past the end
  (`Word.h:377-386`); `Word` stays with the sizes the code handles: one to four and eight.
- `Xor(a)` of one literal is its negation and `Xnor(a)` the literal (`aiglib.h:284`,
  `328`), where the same operators of a list of one literal give the literal and its
  negation; and an empty list is true for `Or` and `Xor` too (`aiglib.h:126`), so
  that `Nor` and `Xnor` of it are false. `Meaning` names both as exceptions.
- Constraints that exclude each other end in `assert(check)` (`main.cpp:96`):
  in `Encoding`, `at = "aborted"`.
- A binary file counts inputs, latches and gates only: its header must say
  M = I + L + A (`aiger.c:2069-2079`). For a netlist that is in order but has
  variables that it does not use, `aiger_reencode` returns at once
  (`aiger.c:1489`), M is written as it is, and the library rejects its own file.
  `ReadBack` names this case. A netlist with a gap is given new numbers and read.
- A reset that is neither 0, 1 nor the latch is stopped by an assertion
  (`aiger.c:420`), in a file too; and literals of justice properties are not
  compared with M when they are read (`aiger.c:2210`): they raise it, and must still
  be defined.
- Numbers wrap around modulo 2^32 (`aiger.c:1918`). A fifth character of a delta may
  hold bits for which there is no room, which are lost, and a sixth one
  shifts by more than a word (`aiger.c:2325`): the model lets the result be anything.
- `isOutLatch` tests `index>size` where `isInLatch` tests `>=` (`ic3.h:198`, `185`), so it
  reads one past the table for the variable after the last latch's. The literals it
  is asked about are those of cubes and conflicts, which never hold that variable.
- The marks of `aiger_check_for_cycles` are never reset, so a second check of the
  same object skips the gates it has seen. Every client adds gates over new
  variables only, whose gates are then searched.

## 4. What is proved

The theorems about `IC3` hold for every set of circuits and options, of any size,
that meets three assumptions, which TLC evaluates on every instance it checks:
`CircuitAssumption` (the parts of a circuit fit together), `ConesAssumption` (a cone
has every latch that its functions depend on, which is what `Cone.cpp` computes) and
`OptionsAssumption` (options have their types). Those about the watch lists
hold for any number of variables, any sequence of clauses, any length of the search and
any number of backjumps: `WatchesAssumption` says that clauses have at least two literals
and no variable twice, as `addClause_` leaves them. Those about the solver hold for any
number of variables and any user: `SolverAssumption` says that the clauses known beforehand are
such clauses, and that what a user adds, asks and releases are literals. Those about the
preprocessor hold for any clauses and any options: `SimpSolverAssumption` says that
clauses of the circuit are not empty and have no variable twice, that a clause added later
is one of literals, and that options have their types. Those about the obligations hold for
any cubes, any number of frames and any number of TCubes (`TCubesAssumption` says that there is at
least one of each of the latter). Those about the clauses in memory hold for any clauses, any number
of them and any width of references: `ClauseMemoryAssumption` says that a clause has two literals
or more, no variable twice, and fewer words than a region may have, and that a region may have more
than the three words of the unit clause. Those about ternary simulation hold for any netlists, of any
size: `NetlistAssumption` says that a variable is defined once, that what is read is
defined, and that gates come after what they read, as in binary files. For a gate that comes
before one of its inputs they are false (see the findings).

| Theorem | Says |
|---|---|
| `IC3Proofs!TypeCorrect` | `Spec => []TypeOK` |
| `IC3Proofs!FramesSound` | the frames over-approximate reachability |
| `IC3Proofs!FramesGood` | no frame but the last has a bad state |
| `IC3Proofs!GeneralizeSound` | the clause being generalized is initial and relatively inductive |
| `IC3Proofs!ReleasesSound` | every clause marked subsumed is covered until released |
| `IC3Proofs!NothingForgotten` | `Spec => FramesOnlyStrengthen`, an action property |
| `IC3Proofs!UnsatCorrect` | UNSAT only for circuits without a reachable bad step |
| `IC3Proofs!PathsLead` | `PathsForced`: every path in the queue leads to a bad step, whatever the reductions |
| `IC3Proofs!BlocksObligation` | `ClauseBlocks`: what is learnt excludes its obligation, as high as that is, unless `keep_all` puts obligations after the last frame (see the findings) |
| `IC3Proofs!ChecksPass` | the double check of `-verify` never fails |
| `IC3Proofs!WitnessCorrect` | `WitnessReplays`, for a circuit and options that are `Exact` |
| `IC3Proofs!AnswersCorrect` | `VerdictCorrect`, SAT and UNSAT, if `Exact` |
| `IC3Proofs!Implements` | `Spec /\ Exact => ImplementsModelChecking` |
| `WatchesProofs!WatchInvHolds` | the invariant of the watch lists |
| `WatchesProofs!MissesNothing` | `NothingMissed`: when `propagate` returns, no clause is unit or false |
| `WatchesProofs!AlwaysWatched` | `WatchedTwice`: every clause is in two lists, no removed clause is visited |
| `SolverProofs!SolverInvHolds` | the invariant of the solver |
| `SolverProofs!ReasonsAreHeld` | `ReasonsHold`: a reason is a clause held, the literal it implies is true and its others were false before |
| `SolverProofs!FreeStayUnused` | `FreeAreUnused`: a variable that may be handed out again is in no clause and has no value |
| `SolverProofs!OracleInvHolds` | what is learnt follows from what was given |
| `SolverProofs!SolverImplements` | `ImplementsOracle`: every step of the solver is the oracle's, and its models and conflicts are true |
| `SimpProofs!SimpInvHolds` | the invariant of the preprocessor |
| `SimpProofs!ModelsExtended` | `ModelExtended`: a model that is returned satisfies every clause the user gave |
| `SimpProofs!ModelsAreKept` | `ModelsKept`: each step keeps the models over the variables left, if `AllChecked` |
| `SimpProofs!NothingIsLeft` | `NothingLeft`: preprocessing reaches its fixpoint, if `AllChecked` |
| `TCubesProofs!QueueAndStore` | the invariant of TCubes and queue |
| `TCubesProofs!AllCounted` | `Counted`: counts are of references, nothing points to a deleted TCube, none is left behind |
| `TCubesProofs!QueueImplemented` | `ImplementsQueue`: TCubes in the `VHeap` are the queue that `IC3` is written over |
| `ClauseMemoryProofs!Memory` | the invariant of the clauses in memory |
| `ClauseMemoryProofs!RefsAreValid` | `RefsValid`: every reference that may be followed is to the clause it should be to, also after copies |
| `ClauseMemoryProofs!MemoryIsAccounted` | `MemoryAccounted`: what is not wasted is enough for the clauses not removed |
| `ClauseMemoryProofs!GarbageCollected` | `Spec => Collected`, an action property: a copy of the region has each clause once, none that was removed, and never runs out of memory |
| `ClauseMemoryProofs!ViewIsKept` | `Spec => ViewKept`, an action property: a copy changes offsets only, and what is gone may go |
| `TernaryProofs!TernaryInvHolds` | the invariant of ternary simulation |
| `TernaryProofs!AlwaysConsistent` | `Consistent`: simulating event by event gives what simulating everything would, and an undone attempt leaves no trace |
| `TernaryProofs!ForcesStep` | `StepForced`: what `reduce` leaves forces the step |
| `TernaryProofs!LeavesNone` | `NoneLeft`: no latch that is left could be dropped |

`Exact` says that the circuit has no constraints, or that cones and ternary simulation
are off. It is not a convenience of the proof: without it the SAT answer can be wrong, which
the run `ic3_constrained_default` shows. UNSAT needs no such hypothesis. `AllChecked` says that
no clause is as long as `subsumption_lim`, 1000 literals by default, for instance because
there are fewer variables. Only the last part of `ModelsKept`, that clauses
have no literal with a value when variables are taken up, and `NothingLeft` need it: a longer
clause is passed over by `backwardSubsumptionCheck`, keeps such literals, and subsumes nothing.

**Frames and UNSAT** (`IC3Proofs`). None of the properties is inductive alone.
`FrameInv` joins

- `TypeOK`, and `ObligationHeld` (while a clause is worked on, there is an
  obligation it is about);
- `FramesInitial`, `FramesStep`: what is proved;
- `EarlierFramesGood`, and that propagation runs only when a frame was opened;
- `ClauseInductive` with `GenOK`: `min_frame` lies in `1 .. depth`, and every
  hypothesis under the activation literal contains the clause. It is needed since a hypothesis
  is an assumption of the query: only because it is implied by the final clause
  may it be left out of what is added;
- `SubsumedCovered`: needed since releasing a clause must not weaken a frame;
- `UnsatSound`.

The key lemmas: `BuildSame`, `BuildConflict` and `BuildDrop` say how
`ClauseInductive` survives `Conflict` and each step of `generalize`;
`BuildInductive` and `FramesInductive` say that adding, moving and releasing keep
`FramesStep`; `ModelsNext` says that an unsatisfiable query stays so when frames
get stronger. `UnsatCorrect` needs one more step: at
`FoundInvariant` the frame's clauses are an inductive invariant that contains the
initial states and, by `EarlierFramesGood`, no bad state. Reachability is defined
as the least set closed under steps, so no induction is needed.

**Obligations and SAT** (`IC3Proofs`, from its second part on). `PathInv` adds to `FrameInv`

- for each obligation, the one in hand and those in the queue, `Sound`: each element of its path
  `Leads` into the next cube (from every state of its cube, by its input, and there is a step
  that does), and one at frame 0 has a cube of reset states only;
- `FirstFrame`: frame 0 admits the reset states alone, which is why a model found there is a
  counterexample;
- `AboutObligation`: the clause stays within the negated cube, and `min_frame` is not below the
  obligation's frame, through every literal dropped and every round;
- `Answer`: what the verdict says about `s`.

`ReducedForces` is the contract of ternary simulation and cones. `ReplayIs` shows that
the replay of `checkCEX`, a function defined by recursion over the path, meets the cubes
one after the other: `Climb` goes up the path. For `Implements`, two more facts are needed about a
step: `bound` moves only when no step within it is bad, which is `EarlierFramesGood`
with `FramesStep`, climbed from frame 0; and the answer SAT is given only on a path
that is an execution.

**The watch lists** (`WatchesProofs`). `WatchInv` joins

- `TypeOK`, and `TrailOK`: the trail has each variable once, and its levels are the
  stretches between decisions;
- `QueueOK`: what is still to be propagated is of the last level. Without it, a
  backjump could leave unpropagated literals behind;
- `ListsOK`: each clause is once in the lists of its first two literals and in no other,
  where the list being visited counts with its rest. A removed clause is only in lists
  that are dirty;
- `CoveredOK`: where a watched literal was found false, another literal of the clause
  is true, and has been since no later a level than the false one. This is
  what makes backjumping correct without touching the lists: whatever level is undone, the
  literal that rescues a clause goes with, or after, the watch that it excuses. A visit still to come
  (`Pending`) and the last level after a conflict are exempt.

One lemma per action keeps it, under each one lemma per conjunct (`ListsStay`,
`CancelCovers`, `Prefixed`, ...). `LearnStep` is the delicate one: the clause learnt
watches the literal that it makes true and one of the level gone back to.
`MissesNothing` follows: a clause without true literal whose literals but one are false has
a false watched literal, which was propagated, hence rescued: a contradiction.

**The solver** (`SolverProofs`). `SolverInv` joins `TypeOK` with

- `TrailInv`: the trail has each variable once (`Distinct`) and its levels in order, each opened
  by its decision or dummy (`Ordered`, `DecisionsFirst`); reasons are as `ReasonsHold` says (`Reasoned`);
  and a conflict has a literal made false in the last level (`FalseLate`);
- `PhaseOK`: what each call of the interface may rely on, such as level 0 between calls;
- `NamesOK`: released and free variables are apart, and a released variable has a value
  at level 0, which lasts until `simplify` has taken its literals out of the clauses;
- `Unused`: `FreeAreUnused`.

`FalseLate` is what `analyze` needs to start from. `DecisionsFirst` makes its walk back stop: it
resolves until one literal of the last level is left, and that is reached before the
decision is passed (`UIPCuts`, by `Climb` along the walk, for every number of steps).
`Ordered` makes the other literals of the clause learnt still false after the backjump, so that
the clause is a reason for its first literal. `KeptIs` says which clauses
`simplify` leaves.

**The solver as an oracle** (`SolverProofs`, from its second part on). The oracle's models are assignments to the
variables in use (`Live`); those of the proof, `Meant`, are assignments to all variables
there may ever be that satisfy the clauses and the literals known at level 0. `ModelsAre` says that the former
are the latter, restricted. `OracleInv` joins `SolverInv` with

- `CreatedOK`: clauses, the trail and the lists of names are about variables created, so that a
  new variable is unconstrained;
- `AssumptionsOK`: the first levels are those of the assumptions, in order, so that a conflict
  with no level to go back to is one of assumptions;
- `AskedOK`: while a question is being worked on there is no answer to it yet;
- `LearntsFollow`: every learnt clause holds in all of `Meant`. This is what makes
  forgetting (`reduceDB`) harmless, and learning too.

That a step keeps `Meant`, or changes it as the oracle says, is one lemma for each action. For `Learn`, `UIPHolds`
climbs along the resolutions and `LearntHolds` adds the minimisation: a literal that `litRedundant` lets go is
false whenever the others are (`RemovableIs`, along the recursion over the trail). `FinalHolds` says that
`analyzeFinal`'s literals, from a walk back as well, cannot all be false. `simplifyKeeps` is the
delicate one: a model of the clauses that are left need not give a released variable its value, so it is
changed there to what the trail says, which no clause in use notices. `ModelIs` says that a complete trail without conflict is a
model; that rests on the trail being propagated, which in `Solver` is part of the guard and in
`Watches` is the theorem `MissesNothing`. `SolverImplements` then maps each action to
`NewVar`, `AddClause`, `Release`, `Ask`, `AnswerSat`, `AnswerUnsat` or a stutter.

**The preprocessor** (`SimpProofs`). `Models` are the assignments that satisfy what is left, the
clauses, those still to be added, and the trail. `SimpInv` joins

- `Entailed`: an assignment that satisfies the clauses given is one of `Models`, so nothing is
  ever added that does not follow;
- `Extendable`: one of `Models` without values for the eliminated variables is extended by
  `extendModel` to an assignment that satisfies the clauses given, so nothing is lost. The two are
  what `ModelsKept` states with projections, and the second is `ModelExtended` before there is a model;
- `LeftOnly`: what is left mentions no eliminated variable, and frozen variables are left. It is what
  lets a clause that is added later say the same before and after extension;
- `PhaseOK`, `ClausesOK`: a clause being checked against is in the problem or true, and not
  among those to be visited; no clause is empty or unit, and none has a literal and its negation. Without the
  former a removed clause could be shortened, or a clause removed because it contains itself.

All steps but three leave `Models` as they are: removing and shortening because of what is there
(`StrengthenMeans`), units by way of what propagation implies (`PropagatedIs`). For elimination,
`ResolventsSuffice` shows that an assignment of the resolvents makes all clauses with the variable
true but for it, or all those with its negation. Walking back over what was stored, an entry
whose other literals are all false decides the variable, and the default applies if there
is none (`AllDecided`, `StoredRestores`); what was stored before is then extended from
there (`ExtendedJoined`). `Cleared` is the second invariant, for the last part of `ModelsKept`: a literal of the
trail is counted as checked when its check begins, so until it ends the clauses that have its
variable are among those to be visited. `FixpointInv`, the third, is for `NothingLeft`: of two clauses of
which one implies or shortens the other, the check of the one against the other is still to come (`Pending`).
The clause is queued, or one of its variables is touched, so that it will be gathered, or it is being
checked and the other is among those it will be checked against. No step loses that, and the queue
is empty when variables are taken up (`QueueDone`), so that at the end nothing is pending.

**Ternary simulation** (`TernaryProofs`). An assignment is `Settled` if it is the simulation of its
latches; that there is one and only one is shown by going up the variables (`SimExists`, `SimUnique`), and that
it says less when its latches say less is `SimMono`. `TernaryInv` joins

- `BaseOK`: what an attempt started from is settled and has the values to preserve;
- `WaveOK`: during an attempt and its undoing, values are those before it or undefined, and only gates
  and the latch tried differ;
- `AttemptOK`: a gate that does not have the value of its inputs is `Pend`ing, and no gate loses more
  than it would if everything were simulated without the latch;
- `UndoOK`: a gate that has not got its value back is pending, or has an undefined input, and so will have to
  wait for it; and the latch is needed;
- `TriedOK`: a latch that has a value is still to be tried, or is needed.

`Pend` is what makes the work list correct. `simulate` passes over a gate that is waiting for its own fanout
(`seen`, `Ternary.cpp:112`), and does not come back to it for that. This does no harm only because a gate is pending
if it is among the fanouts still to visit and not waiting, or if it reads a variable that stands in the
list after every entry of the gate itself (`PendTail`, `PendAppend`, `PendSkip`, `PendPop`): the list is a
queue. When nothing is pending after an undoing, the first gate that differed would have the inputs
it had before, hence its value (`UndoDone`). A latch found needed stays needed when others are dropped,
since what says less before says less without it (`WithoutIs`): so one pass is enough. `SimCovers`
gives `StepForced`, and `ConeHasValues` shows that what is preserved has a value when `reduce` is given the latches
of its cone.

**The queue of obligations** (`TCubesProofs`). First the binary heap, as an array of numbers:
`percolateUp` and `percolateDown` are functions defined by recursion over positions, and `Chained` and
`Descent` say that they exist and what they are. An element that sinks at a place from which on the array is ordered leaves it
ordered from there on and with the same members (`OrderedFrom`, `SunkIn`), so that the least key is in front
(`LeastFirst`), and `insertIs` and `removeMinIs` say of the whole queue what they do to each key's
stack: `removeKey`, which repairs the heap and the positions, is only met when a stack
is empty. `QInv` joins

- `IsStore`: parents are alive, and no chain of parents comes back to its start (`IsAncestry`: a TCube's
  ancestors are fewer and fewer). Without it `deref` might not end, and the path of a TCube
  would not be one;
- `Filed`: the heap has the keys of stacks that are not empty; a TCube on the queue is alive, once
  there, and on the stack of its frame: `Predecessor` puts it back at its frame, which must be
  the level it was found at;
- `CountOK`: counts are of references, and not 0. In the middle of `deref` one count is too
  high, that of the TCube the loop has come to (`Leaves`, `LeaveOneIs`, `derefIs`).

`AllCounted` follows: with nothing on the queue and `B` given up, a TCube left would be referred
to by another, and that by another, without end (`NoneLeft`). For `QueueImplemented`, `PathIs` shows that the path of a
TCube is its cube and the path of its parent, and `PathSame` that it is the same in any store that
has the TCube: changing frames, adding TCubes and deleting those that nothing refers to changes no path on the
queue. A TCube that is taken off and put back leaves the stacks as they were (`PutBack`), which is why
`Predecessor` is one `Wait`. `MappingIs` brings the refinement mapping, over the variables, and the lemmas,
over any queue and store, together.

**The clauses in memory** (`ClauseMemoryProofs`). `MemInv` says, until memory is exhausted, `Valid`:

- `RegionOK`: clauses begin below what is used, so that what `alloc` returns is a new reference, and none is marked as moved
  (`PlacesOK`); those not removed fit in what is used and not wasted, and the capacity is one
  that growing from nothing comes to (`SizesOK`); no number is there twice;
  a clause not removed has two literals or more and no variable twice;
- `WatchOK`: a clause not removed is once in the lists of its first two literals and in no other;
  where a removed one is, the list is dirty;
- `SimpOK`: until preprocessing ends, a clause not removed is among the occurrences of its variables and of no
  others, and the queue and the unit clause are in the region;
- `TrailOK`: a reason is a clause not removed that begins with its literal, and no literal is true with
  its negation. Without the latter `propagate` could put a true first literal second, though its clause is the reason of it;
- `ListsOK` and `Settled`: no clause is in a list twice, or in both, and after preprocessing none that was removed
  is in either. Without it a clause could be removed, and its words counted as wasted, twice.

What makes the copy right is that `reloc` is the only thing done to either region, and is done for all lists:
in the middle of it (`Moving`) the clauses of the new region are those of the old one that
were moved, at the offsets that these remember, and what is used there with what the others need is at most
what is to be copied (`Left`). So the new region, made of that size, never grows: `Capacity` is shown to be
monotone, and to stay where there is enough. When all lists have been gone through, the new state is an `Image` of the old one: every
reference was renamed, and nothing else changed but that removed clauses are gone. The clauses not removed are
all reached, since each is watched. That an `Image` of a valid state is valid then needs one lemma
for each conjunct. The other actions change one clause, or many by way of `Each`; for those, what one removal or one
trimming keeps is climbed along the list (`Follows`, `Trims`). For `ViewIsKept`, such a chain also `Leads`
on: what it removes may go (`MayGo`), what it trims loses false literals, and lists lose what was removed. The
copy is then compared by number (`Keeps`): it is one to one on the clauses it moves (`Relocated`), so
the numbers in each list, and their order, are the same, for any list, without what is gone (`ListMoves`, which
holds since leaving out commutes with renaming, `WithoutTagged`). `propagate` and `strengthenClause` are the delicate ones:
both change a clause and the lists that watch it.

**Recursive functions.** `Replay`, `Within`, `Cleaned`, `Kept`, `Propagated`, `Extended`, and the walks of
`UIP`, `Redundant` and `analyzeFinal`, are functions defined by recursion, each a
CHOOSE: that such a function exists and what it is at each argument is
`NumberLemmas!Recursion`, and what holds of it is shown with `Climb`, both from the
least-number principle. `Simulated`, `Eval` and `markCone` ask for the values at several smaller
arguments: `NumberLemmas!CourseOfValues`, which follows from `Recursion`, does the same for them. `Fanouts` and
`InOrder` go along a list. `Watches`, `Solver` and `ClauseMemory` take lists apart with `Cleaned`, `Kept` and `Each`, such functions, where
`SelectSeq` and `FoldLeft` would do, since nothing can be proved of the latter.

**Only model-checked:** termination (`Terminates`, `Returns`, `Finishes`: liveness is out of
TLAPS's reach), and the invariants of
`Encoding`, `AigerWriter`, `Circuit` and `Word`. Of `Aig`, the equations of `Eval` and `markCone` are proved (`EvalIs`, `ConeIs`); that
`Circuit` and `Word` build netlists and words that compute what is meant takes induction
over the structure of data, which the installed provers cannot do.

## 5. What is not modelled, and preconditions

- Of `aiger.c`: characters of numbers and names, comments, streams (gzip, strings,
  failing writes), `aiger_strip_symbols_and_comments`, `aiger_get_symbol`, memory.
  Every module above the reader but `Encoding` starts from netlists whose gates come
  after what they read, as in binary files.
- The table of clauses by activation literal (`ic3.h:68-79`, `92-114`, `216-232`) and the
  tables from a latch's variables to its number (`427-447`): `IC3` holds frames as sets
  of clauses and takes a conflict's activation literals for the clauses themselves.
  That the solver gives a released variable to the next user is in `Solver`.
- Constraints are used as the code uses them, for the step from the current state.
- `main`'s messages, statistics and printing; the parsing of options;
  `sortByPriority`, whose order the model leaves open; accessors and names in
  `aiglib.h`, and the next state and reset that a latch is given there.
- `strengthenClause` of a literal that is true (`ClauseMemory` shortens clauses by false and
  unassigned literals only).
- Activities, phases, budgets and interrupts of the solver: they choose among
  steps that the model leaves open. Abstractions of clauses (`calcAbstraction`), which
  only save comparisons.
- MiniSat's command lines, containers and platform code.

## 6. Plan

Built, in this order, each with its runs before the next was begun:

1. `TransitionSystem`, `ModelChecking`, `IC3`, `IC3Props`: the algorithm; then
   the proofs in `IC3Proofs`, in two stages.
2. `Aig`, `Ternary`, `ObligationQueue`, `VHeap`, `TCubes`: what the algorithm uses; later
   `TernaryProofs`, `TCubesProofs`.
3. `SatOracle`, `Solver`, `Watches`, `ClauseMemory`: the solver below it; later
   `WatchesProofs`, `SolverProofs`, `ClauseMemoryProofs`.
4. `SimpSolver`, `Encoding`: from the file to the solver; later `SimpProofs`.
5. `Circuit`, `Word`: the library beside it.
6. `Aiger`, `AigerReader`, `AigerWriter`: the files, below `Encoding`.

To be done:

- Prove `Encoding!EncodesCircuit` for any netlist.
- Model: the table of clauses, refined to `IC3`'s frames, over variables that
  `releaseVar` gives back: a stale `lit_to_clause` would name the wrong clause.
- Out of reach of the prover: liveness (`Terminates`, `Returns`), and what recursive
  definitions compute of data (`Circuit`, `Word`).

----------------------------- MODULE SimpSolver -----------------------------
(***************************************************************************)
(* The preprocessor of MiniSat (minisat/simp/SimpSolver.cc), which main    *)
(* runs once over the clauses of the circuit: clauses that follow from     *)
(* others are removed or shortened, and variables that nobody will name    *)
(* are eliminated by resolution.  What a model needs to be extended to     *)
(* these variables is kept, and used at the end of every later solve.      *)
(*                                                                         *)
(* A literal is a variable or its negative, a clause a set of literals.  A *)
(* second copy of a clause, which the code removes the next time it checks *)
(* subsumption, is not kept.  Clauses and variables are visited in any     *)
(* order: the code's orders hang on occurrence counts.  Unit propagation   *)
(* is one step, and the core solver is its contract (module SatOracle).    *)
(***************************************************************************)
EXTENDS Integers, Sequences, FiniteSets, FiniteSetsExt, SequencesExt

CONSTANTS
    MaxVar,         \* the variables are 1 .. MaxVar
    Problems,       \* the circuits: their clauses, and the variables frozen
    Later,          \* the clauses that may be added after preprocessing
    Options,        \* the settings of the options -asymm and -rcheck
    use_elim, grow, clause_lim, subsumption_lim     \* the other options

Vars      == 1 .. MaxVar
Lits      == Vars \cup {-v : v \in Vars}
Var(l)    == IF l < 0 THEN -l ELSE l
VarsOf(c) == {Var(l) : l \in c}

ASSUME SimpSolverAssumption ==
    /\ MaxVar \in Nat /\ grow \in Nat
    /\ clause_lim \in Nat \cup {-1} /\ subsumption_lim \in Nat \cup {-1}
    /\ Options \subseteq [asymm : BOOLEAN, rcheck : BOOLEAN] /\ use_elim \in BOOLEAN
    /\ \A P \in Problems :
          /\ P.frozen \subseteq Vars
          /\ \A c \in P.clauses : c # {} /\ c \subseteq Lits /\ \A l \in c : -l \notin c
    /\ Later \subseteq SUBSET Lits

VARIABLES
    opt,            \* the options: use_asymm and use_rcheck
    given,          \* the clauses that were added by the user
    frozen,         \* the variables that must not be eliminated
    ok,             \* FALSE when the clauses are known to be contradictory
    clauses,        \* the clauses of the problem
    trail,          \* the literals that are true
    to_add,         \* clauses still to be added: the user's, or resolvents
    subsumption_queue,  \* clauses to check the others against
    touched,        \* variables of clauses that were added
    elim_heap,      \* variables to try to eliminate
    eliminated,     \* the variables eliminated
    elimclauses,    \* clauses with these: the literal, and the others
    bwdsub_assigns, \* the literals of the trail the clauses were checked against
    pc,             \* what is being done
    elim,           \* the variable asymmetric branching is at, or 0
    cur,            \* the clause the others are checked against, or {}
    todo,           \* the clauses still to be visited
    model           \* the model found, extended, or <<>>

vars == <<opt, given, frozen, ok, clauses, trail, to_add, subsumption_queue, touched, elim_heap,
          eliminated, elimclauses, bwdsub_assigns, pc, elim, cur, todo, model>>
user  == <<opt, given, frozen, model>>
store == <<eliminated, elimclauses>>

Init ==
    /\ opt \in Options
    /\ \E P \in Problems : given = P.clauses /\ frozen = P.frozen
    /\ ok = TRUE
    /\ clauses = {} /\ trail = {} /\ to_add = given
    /\ subsumption_queue = {} /\ touched = {}
    /\ elim_heap = Vars
    /\ eliminated = {} /\ elimclauses = <<>>
    /\ bwdsub_assigns = {}
    /\ pc = "add" /\ elim = 0 /\ cur = {} /\ todo = {}
    /\ model = <<>>

-----------------------------------------------------------------------------

\* Unit propagation of clauses C from the literals T, all of it at once.  (S
\* stands for the value of after[n - 1], which is costly to evaluate.)
Propagated(C, T) ==
    LET Implied1(S) == UNION {{l \in c : \A k \in c \ {l} : -k \in S} : c \in C}
        after[n \in 0 .. MaxVar + 1] ==
          IF n = 0 THEN T ELSE UNION {S \cup Implied1(S) : S \in {after[n - 1]}}
    IN  after[MaxVar + 1]
Contradictory(T) == \E l \in T : -l \in T

Assigned == {Var(l) : l \in trail}

\* updateElimHeap, of variables V
MayEliminate(V) == elim_heap \cup (V \ (frozen \cup eliminated \cup Assigned \cup {elim}))

\* implied(c): propagation of its negation fails, or one of its literals is true.
Implied(c) == Contradictory(Propagated(clauses, trail \cup {-l : l \in c}))

\* addClause_, which is also how resolvents are added.  After preprocessing the
\* clauses are not queued.
addClause ==
    /\ pc \in {"add", "resolve", "later"}
    /\ to_add # {} /\ ok
    /\ \E c \in to_add :
         LET rest == {l \in c : -l \notin trail}
         IN  /\ to_add' = to_add \ {c}
             /\ IF (opt.rcheck /\ Implied(c)) \/ c \cap trail # {}
                THEN UNCHANGED <<ok, clauses, trail, subsumption_queue, touched, elim_heap>>
                ELSE IF Cardinality(rest) < 2
                THEN /\ trail' = Propagated(clauses, trail \cup rest)
                     /\ ok' = (rest # {} /\ ~ Contradictory(trail'))
                     /\ UNCHANGED <<clauses, subsumption_queue, touched, elim_heap>>
                ELSE /\ clauses' = clauses \cup {rest}
                     /\ IF pc = "later" THEN UNCHANGED <<subsumption_queue, touched, elim_heap>>
                        ELSE /\ subsumption_queue' = subsumption_queue \cup {rest}
                             /\ touched' = touched \cup VarsOf(rest)
                             /\ elim_heap' = IF rest \in clauses THEN MayEliminate(VarsOf(rest))
                                                                 ELSE elim_heap
                     /\ UNCHANGED <<ok, trail>>
    /\ UNCHANGED <<user, store, bwdsub_assigns, pc, elim, cur, todo>>

\* The clauses are there.
Added ==
    /\ to_add = {} \/ ~ ok
    /\ \/ pc = "add"     /\ pc' = IF ok THEN "eliminate" ELSE "solve"
       \/ pc = "resolve" /\ pc' = IF ok THEN "check" ELSE "solve"
       \/ pc = "later"   /\ pc' = "solve"
    /\ to_add' = {}
    /\ UNCHANGED <<user, ok, clauses, trail, subsumption_queue, touched, elim_heap, store,
                   bwdsub_assigns, elim, cur, todo>>

-----------------------------------------------------------------------------
(* eliminate(), the main loop                                              *)

Unchecked == trail \ bwdsub_assigns

\* Seeded fault: only new clauses are checked.
GatherNew ==
    /\ pc = "eliminate"
    /\ touched # {} \/ Unchecked # {} \/ elim_heap # {}
    /\ touched' = {}
    /\ pc' = "check"
    /\ UNCHANGED <<user, ok, clauses, trail, to_add, subsumption_queue, elim_heap, store,
                   bwdsub_assigns, elim, cur, todo>>

\* gatherTouchedClauses: clauses that share a variable with a new one are
\* checked too.
Gather ==
    /\ pc = "eliminate"
    /\ touched # {} \/ Unchecked # {} \/ elim_heap # {}
    /\ subsumption_queue' = subsumption_queue \cup {c \in clauses : VarsOf(c) \cap touched # {}}
    /\ touched' = {}
    /\ pc' = "check"
    /\ UNCHANGED <<user, ok, clauses, trail, to_add, elim_heap, store, bwdsub_assigns, elim, cur, todo>>

\* The next variable.  Frozen ones come up too: only eliminateVar spares them.
NextVar ==
    /\ pc = "elim"
    /\ \E v \in elim_heap :
         /\ elim_heap' = elim_heap \ {v}
         /\ IF v \in eliminated \cup Assigned
            THEN UNCHANGED <<pc, elim, todo>>
            ELSE /\ elim' = v
                 /\ LET cls == {c \in clauses : v \in VarsOf(c)}
                    IN  IF opt.asymm /\ cls # {} THEN pc' = "asymm" /\ todo' = cls
                                                 ELSE pc' = "var" /\ todo' = {}
    /\ UNCHANGED <<user, ok, clauses, trail, to_add, subsumption_queue, touched, store,
                   bwdsub_assigns, cur>>

NoMoreVars ==
    /\ pc = "elim" /\ elim_heap = {}
    /\ pc' = "eliminate"
    /\ UNCHANGED <<user, ok, clauses, trail, to_add, subsumption_queue, touched, elim_heap,
                   store, bwdsub_assigns, elim, cur, todo>>

\* use_simplification is switched off.
Eliminated ==
    /\ pc = "eliminate"
    /\ touched = {} /\ Unchecked = {} /\ elim_heap = {}
    /\ pc' = "solve"
    /\ subsumption_queue' = {}
    /\ UNCHANGED <<user, ok, clauses, trail, to_add, touched, elim_heap, store,
                   bwdsub_assigns, elim, cur, todo>>

-----------------------------------------------------------------------------
(* backwardSubsumptionCheck()                                              *)

\* Seeded fault: literals that were checked against are not counted.
CheckNextUncounted ==
    /\ pc = "check" /\ cur = {}
    /\ \/ \E c \in subsumption_queue :
            /\ subsumption_queue' = subsumption_queue \ {c}
            /\ cur' = IF c \in clauses THEN c ELSE {}
       \/ /\ subsumption_queue = {}
          /\ \E l \in Unchecked : cur' = {l}
          /\ UNCHANGED subsumption_queue
    /\ IF cur' = {} THEN todo' = {}
       ELSE \E v \in VarsOf(cur') : todo' = {d \in clauses \ {cur'} : v \in VarsOf(d)}
    /\ UNCHANGED <<user, ok, clauses, trail, to_add, touched, elim_heap, store, bwdsub_assigns, pc, elim>>

\* The next clause, or the next literal that is true, and the clauses that
\* share one of its variables.
CheckNext ==
    /\ pc = "check" /\ cur = {}
    /\ \/ \E c \in subsumption_queue :
            /\ subsumption_queue' = subsumption_queue \ {c}
            /\ cur' = IF c \in clauses THEN c ELSE {}
            /\ bwdsub_assigns' = bwdsub_assigns
       \/ /\ subsumption_queue = {}
          /\ \E l \in Unchecked :
               /\ cur' = {l}
               /\ bwdsub_assigns' = bwdsub_assigns \cup {l}
          /\ UNCHANGED subsumption_queue
    /\ IF cur' = {} THEN todo' = {}
       ELSE \E v \in VarsOf(cur') :
              todo' = {d \in clauses \ {cur'} : /\ v \in VarsOf(d)
                                                /\ subsumption_lim = -1 \/ Cardinality(d) < subsumption_lim}
    /\ UNCHANGED <<user, ok, clauses, trail, to_add, touched, elim_heap, store, pc, elim>>

\* strengthenClause(d, l)
Strengthen(d, l) ==
    LET rest == d \ {l}
    IN  IF Cardinality(rest) = 1
        THEN /\ clauses' = clauses \ {d}
             /\ trail' = Propagated(clauses', trail \cup rest)
             /\ ok' = ~ Contradictory(trail')
             /\ elim_heap' = MayEliminate(VarsOf(d))
             /\ UNCHANGED subsumption_queue
        ELSE /\ clauses' = (clauses \ {d}) \cup {rest}
             /\ subsumption_queue' = subsumption_queue \cup {rest}
             /\ elim_heap' = MayEliminate(IF rest \in clauses THEN VarsOf(d) ELSE {Var(l)})
             /\ UNCHANGED <<trail, ok>>

\* Seeded fault: a clause is shortened although other literals differ.
SubsumesButAny(c, d) == {l \in c : -l \in d}

\* subsumes(d): the literals of c whose negation can go from d.
SubsumesBut(c, d) == {l \in c : -l \in d /\ c \ {l} \subseteq d}

\* The next of these clauses is removed, shortened, or left.
CheckOne ==
    /\ pc = "check" /\ cur # {}
    /\ \E d \in todo :
         /\ todo' = todo \ {d}
         /\ IF d \notin clauses
            THEN UNCHANGED <<ok, clauses, trail, subsumption_queue, elim_heap>>
            ELSE IF cur \subseteq d
            THEN /\ clauses' = clauses \ {d}
                 /\ elim_heap' = MayEliminate(VarsOf(d))
                 /\ UNCHANGED <<ok, trail, subsumption_queue>>
            ELSE IF SubsumesBut(cur, d) # {}
            THEN \E l \in SubsumesBut(cur, d) : Strengthen(d, -l)
            ELSE UNCHANGED <<ok, clauses, trail, subsumption_queue, elim_heap>>
    /\ pc' = IF ok' THEN pc ELSE "solve"
    /\ UNCHANGED <<user, to_add, touched, store, bwdsub_assigns, elim, cur>>

Checked ==
    /\ pc = "check" /\ cur # {} /\ todo = {}
    /\ cur' = {}
    /\ UNCHANGED <<user, ok, clauses, trail, to_add, subsumption_queue, touched, elim_heap,
                   store, bwdsub_assigns, pc, elim, todo>>

\* It returns to where it was called: from asymmVar, the variable is next.
CheckDone ==
    /\ pc = "check" /\ cur = {}
    /\ subsumption_queue = {} /\ Unchecked = {}
    /\ pc' = IF elim # 0 THEN "var" ELSE "elim"
    /\ UNCHANGED <<user, ok, clauses, trail, to_add, subsumption_queue, touched, elim_heap,
                   store, bwdsub_assigns, elim, cur, todo>>

-----------------------------------------------------------------------------
(* asymmVar(), when the option asks for it                                 *)

\* The literals of c whose negation is tried.
Others(c) == {k \in c : Var(k) # elim /\ -k \notin trail}

\* Those that go if it fails.
Spare(c) == c \ Others(c)

\* A clause follows without the literal of the variable if propagation of the
\* negation of its others fails.  Literals that are false already may be taken
\* for it.  When the literal of the variable goes, the clause that comes next in
\* its occurrence list moves up, and is passed over.
Asymm ==
    /\ pc = "asymm"
    /\ \E c \in todo :
         LET failing == Contradictory(Propagated(clauses, trail \cup {-k : k \in Others(c)}))
             left    == todo \ {c}
         IN  IF c \notin clauses \/ c \cap trail # {} \/ ~ failing
             THEN todo' = left /\ UNCHANGED <<ok, clauses, trail, subsumption_queue, elim_heap>>
             ELSE \E l \in Spare(c) :
                    /\ Strengthen(c, l)
                    /\ IF Var(l) = elim /\ Cardinality(c) > 2 /\ left # {}
                       THEN \E d \in left : todo' = left \ {d}
                       ELSE todo' = left
    /\ pc' = IF ok' THEN pc ELSE "solve"
    /\ UNCHANGED <<user, to_add, touched, store, bwdsub_assigns, elim, cur>>

AsymmDone ==
    /\ pc = "asymm" /\ todo = {}
    /\ pc' = "check"
    /\ UNCHANGED <<user, ok, clauses, trail, to_add, subsumption_queue, touched, elim_heap,
                   store, bwdsub_assigns, elim, cur, todo>>

-----------------------------------------------------------------------------
(* eliminateVar()                                                          *)

Pos == {c \in clauses : elim \in c}
Neg == {c \in clauses : -elim \in c}

\* merge, of all pairs of these that do not contradict each other elsewhere
Resolvent(c, d) == (c \cup d) \ {elim, -elim}
Merged == {p \in Pos \X Neg : ~ Contradictory(Resolvent(p[1], p[2]))}

TooMany == \/ Cardinality(Merged) > Cardinality(Pos) + Cardinality(Neg) + grow
           \/ /\ clause_lim # -1
              /\ \E p \in Merged : Cardinality(Resolvent(p[1], p[2])) > clause_lim

\* mkElimClause
ElimClauses(C, l) == SetToSeq({[lit |-> l, others |-> c \ {l}] : c \in C})

\* The clauses with the literal that has fewer, and the other one by default.
Stored == IF Cardinality(Pos) > Cardinality(Neg)
          THEN ElimClauses(Neg, -elim) \o ElimClauses({{elim}}, elim)
          ELSE ElimClauses(Pos, elim)  \o ElimClauses({{-elim}}, -elim)

Eliminable == use_elim /\ elim \notin Assigned /\ elim \notin frozen /\ ~ TooMany

eliminateVar ==
    /\ pc = "var" /\ Eliminable
    /\ eliminated' = eliminated \cup {elim}
    /\ elimclauses' = elimclauses \o Stored
    /\ clauses' = clauses \ (Pos \cup Neg)
    /\ elim_heap' = MayEliminate(UNION {VarsOf(c) : c \in Pos \cup Neg})
    /\ to_add' = {Resolvent(p[1], p[2]) : p \in Merged}
    /\ pc' = "resolve" /\ elim' = 0
    /\ UNCHANGED <<user, ok, trail, subsumption_queue, touched, bwdsub_assigns, cur, todo>>

\* The variable is kept.
KeepVar ==
    /\ pc = "var" /\ ~ Eliminable
    /\ pc' = "elim" /\ elim' = 0
    /\ UNCHANGED <<user, ok, clauses, trail, to_add, subsumption_queue, touched, elim_heap,
                   store, bwdsub_assigns, cur, todo>>

-----------------------------------------------------------------------------
(* solve_()                                                                *)

Values == {"l_True", "l_False", "l_Undef"}
Value(m, l) == IF l > 0 \/ m[Var(l)] = "l_Undef" THEN m[Var(l)]
               ELSE IF m[-l] = "l_True" THEN "l_False" ELSE "l_True"

\* Seeded fault: the clauses are visited from the first to the last.
ExtendedForwards(m) ==
    LET n == Len(elimclauses)
        ext[i \in 0 .. n] ==
          IF i = 0 THEN m
          ELSE LET e == elimclauses[i]
                   a == ext[i - 1]
               IN  IF \A k \in e.others : Value(a, k) = "l_False"
                   THEN [a EXCEPT ![Var(e.lit)] = IF e.lit > 0 THEN "l_True" ELSE "l_False"]
                   ELSE a
    IN  ext[n]

\* extendModel(): the clauses kept are visited from the last to the first, and
\* the literal becomes true if all others are false.
Extended(m) ==
    LET n == Len(elimclauses)
        ext[i \in 0 .. n] ==
          IF i = n THEN m
          ELSE LET e == elimclauses[i + 1]
                   a == ext[i + 1]
               IN  IF \A k \in e.others : Value(a, k) = "l_False"
                   THEN [a EXCEPT ![Var(e.lit)] = IF e.lit > 0 THEN "l_True" ELSE "l_False"]
                   ELSE a
    IN  ext[0]

\* What the core solver may answer, whatever the assumptions are: an assignment
\* of the variables that were not eliminated.
Found == {m \in [Vars -> Values] :
            /\ \A v \in Vars : m[v] = "l_Undef" <=> v \in eliminated
            /\ \A l \in trail : Value(m, l) = "l_True"
            /\ \A c \in clauses : \E l \in c : Value(m, l) = "l_True"}

solve ==
    /\ pc = "solve"
    /\ IF ok /\ Found # {} THEN \E m \in Found : model' = Extended(m) ELSE model' = <<>>
    /\ pc' = "idle"
    /\ UNCHANGED <<opt, given, frozen, ok, clauses, trail, to_add, subsumption_queue, touched,
                   elim_heap, store, bwdsub_assigns, elim, cur, todo>>

\* Afterwards, the user may name the variables that were frozen.
addClauseLater ==
    /\ pc = "idle"
    /\ \E c \in Later \ given :
         /\ VarsOf(c) \subseteq frozen
         /\ given' = given \cup {c}
         /\ to_add' = {c}
    /\ model' = <<>>
    /\ pc' = "later"
    /\ UNCHANGED <<opt, frozen, ok, clauses, trail, subsumption_queue, touched, elim_heap, store,
                   bwdsub_assigns, elim, cur, todo>>

-----------------------------------------------------------------------------

Work == \/ addClause \/ Added
        \/ Gather \/ NextVar \/ NoMoreVars \/ Eliminated
        \/ CheckNext \/ CheckOne \/ Checked \/ CheckDone
        \/ Asymm \/ AsymmDone \/ eliminateVar \/ KeepVar
        \/ solve

Next == Work \/ addClauseLater

Spec == Init /\ [][Next]_vars

\* The call of solve runs to its end.
FairSpec == Spec /\ WF_vars(Work)

-----------------------------------------------------------------------------

Sat(m, c) == \E l \in c : Value(m, l) = "l_True"

(* Whatever the preprocessor did, and whatever clauses came later: the     *)
(* model that solve returns satisfies all clauses that were ever added,    *)
(* those with eliminated variables included (SimpSolver.cc:578-593).       *)
ModelExtended == model # <<>> => \A c \in given : Sat(model, c)

(* Every step keeps the assignments of the variables that are left: those  *)
(* that satisfy the clauses and the trail are those that can be extended to*)
(* satisfy the clauses the user gave.  Frozen variables are left, and no   *)
(* clause mentions one that is not; when variables are taken up, the       *)
(* clauses have no literal with a value, on which counting and merging     *)
(* occurrences relies.                                                     *)
Assignments == [Vars -> {"l_True", "l_False"}]
ModelsKept ==
    LET left == Vars \ eliminated
        Projected(C) == {[v \in left |-> m[v]] : m \in {n \in Assignments : \A c \in C : Sat(n, c)}}
    IN  /\ IF ok THEN Projected(given) = Projected(clauses \cup to_add \cup {{l} : l \in trail})
                 ELSE Projected(given) = {}
        /\ frozen \cup Assigned \cup UNION {VarsOf(c) : c \in clauses \cup to_add} \subseteq left
        /\ pc \in {"elim", "asymm", "var", "resolve"} /\ Unchecked = {} =>
              \A c \in clauses : VarsOf(c) \cap Assigned = {}

(* Preprocessing reaches its fixpoint: no clause is left that another one  *)
(* implies or shortens, or that has a literal with a value.                *)
NothingLeft ==
    pc = "solve" /\ ok /\ given \cap Later = {} =>
       \A c \in clauses :
          /\ VarsOf(c) \cap Assigned = {}
          /\ \A d \in clauses \ {c} : ~ c \subseteq d /\ SubsumesBut(c, d) = {}

(* And it ends, although removing and shortening clauses queues others.    *)
Terminates == (pc # "idle") ~> (pc = "idle")

=============================================================================

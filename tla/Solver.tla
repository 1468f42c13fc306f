------------------------------- MODULE Solver -------------------------------
(***************************************************************************)
(* The core of MiniSat as the checker uses it (minisat/core/Solver.cc):    *)
(* clauses are added, variables created and released, and questions asked  *)
(* under assumptions, one after the other, on a state that lives on.       *)
(*                                                                         *)
(* One action stands for one iteration of search(), or for one literal     *)
(* that propagate() enqueues.  What hangs on activities and counters of    *)
(* work is left open: which literal is decided, which clause propagation   *)
(* comes to first, when clauses are forgotten, and whether simplify() runs.*)
(* How propagate() finds the clauses is the subject of module Watches.     *)
(*                                                                         *)
(* A literal is a variable or its negative, a clause a set of literals.    *)
(***************************************************************************)
EXTENDS Integers, Sequences, FiniteSets, FiniteSetsExt

CONSTANTS
    MaxVar,         \* bound: the variables are 1 .. MaxVar
    Users,          \* programs that use the solver: the number of variables they
                    \* have at most, the clauses they begin with
                    \* and those they may add later, the lists of assumptions
                    \* they solve, the literals they call releaseVar with,
                    \* and how they want learnt clauses to be minimised
    MaxRestarts,    \* bound: the restarts of one call of solve
    restart_first   \* the conflicts before the first restart

Vars      == 1 .. MaxVar
Lits      == Vars \cup {-v : v \in Vars}
Var(l)    == IF l < 0 THEN -l ELSE l
VarsOf(c) == {Var(l) : l \in c}

\* Clauses have two literals at least and no complementary ones: what
\* addClause keeps of others is a literal on the trail, or nothing.
Proper(c) == Cardinality(c) > 1 /\ \A l \in c : -l \notin c

ASSUME SolverAssumption ==
    /\ MaxVar \in Nat /\ restart_first \in Nat \ {0} /\ MaxRestarts \in Nat
    /\ \A U \in Users : /\ U.nVars \in 0 .. MaxVar /\ U.ccmin_mode \in 0 .. 2
                        /\ \A c \in U.clauses : c \subseteq Lits /\ Proper(c)
                        /\ U.added \subseteq SUBSET Lits /\ U.releasable \subseteq Lits
                        /\ U.queries \subseteq Seq(Lits)

VARIABLES
    user,           \* who uses the solver
    ok,             \* FALSE when the clauses are known to be contradictory
    clauses,        \* the clauses of the problem
    learnts,        \* the clauses learnt
    trail,          \* the literals that are true, each with level and reason
    trail_lim,      \* the length of the trail below each decision
    next_var,       \* the variables below it have been created
    released_vars,  \* variables released, but not yet cleaned up
    free_vars,      \* variables that newVar hands out again
    simpDB_assigns, \* the length of the trail when simplify() last ran
    pc,             \* "idle", "add" (in addClause), "search" or "refuse"
    assumptions,    \* the assumptions of the present or last solve
    conflictC,      \* the conflicts since the last restart
    curr_restarts,  \* the restarts of this solve
    status,         \* the answer: "l_True", "l_False" or "l_Undef"
    model,          \* the model found
    conflict        \* the negated assumptions that are contradictory

vars == <<user, ok, clauses, learnts, trail, trail_lim, next_var, released_vars, free_vars,
          simpDB_assigns, pc, assumptions, conflictC, curr_restarts, status, model, conflict>>
database == <<user, ok, clauses, learnts, simpDB_assigns>>
names    == <<next_var, released_vars, free_vars>>
answer   == <<status, model, conflict>>
task     == <<assumptions, conflictC, curr_restarts>>

-----------------------------------------------------------------------------

None          == {}                   \* CRef_Undef
decisionLevel == Len(trail_lim)
Entry(l, lev, from) == [lit |-> l, level |-> lev, reason |-> from]

TrueLits == {trail[i].lit : i \in DOMAIN trail}
IsTrue(l)  == l \in TrueLits
IsFalse(l) == -l \in TrueLits
IsUndef(l) == ~ IsTrue(l) /\ ~ IsFalse(l)
Satisfied(c) == \E l \in c : IsTrue(l)

\* The place on the trail where literal l, or its negation, is.
Pos(l) == CHOOSE i \in DOMAIN trail : Var(trail[i].lit) = Var(l)
level(l)  == trail[Pos(l)].level
reason(l) == trail[Pos(l)].reason

\* The variables that the user may name.
Live == 1 .. next_var - 1 \ ({released_vars[i] : i \in DOMAIN released_vars}
                              \cup {free_vars[i] : i \in DOMAIN free_vars})

\* cancelUntil(lev), as the trail that is left.
Below(lev) == IF decisionLevel > lev THEN SubSeq(trail, 1, trail_lim[lev + 1]) ELSE trail

\* The clauses that are unit, with the literal that is left, and those that are false.
Units == {u \in UNION {{<<c, l>> : l \in c} : c \in clauses \cup learnts} :
            IsUndef(u[2]) /\ \A k \in u[1] \ {u[2]} : IsFalse(k)}
Conflicting == {c \in clauses \cup learnts : \A l \in c : IsFalse(l)}
Propagated  == Units = {} /\ Conflicting = {}

Init ==
    /\ ok = TRUE
    /\ user \in Users /\ clauses = user.clauses
    /\ learnts = {}
    /\ trail = <<>> /\ trail_lim = <<>>
    /\ next_var = 1 + Max({0} \cup UNION {VarsOf(c) : c \in clauses})
    /\ released_vars = <<>> /\ free_vars = <<>>
    /\ simpDB_assigns = -1
    /\ pc = "idle"
    /\ assumptions = <<>> /\ conflictC = 0 /\ curr_restarts = 0
    /\ status = "l_Undef" /\ model = <<>> /\ conflict = {}

-----------------------------------------------------------------------------
(* The calls of the user, at decision level 0.                             *)

newVar ==
    /\ pc = "idle"
    /\ IF free_vars # <<>>
       THEN /\ free_vars' = SubSeq(free_vars, 1, Len(free_vars) - 1)
            /\ next_var' = next_var
       ELSE /\ next_var <= user.nVars
            /\ next_var' = next_var + 1
            /\ free_vars' = free_vars
    /\ UNCHANGED <<database, trail, trail_lim, released_vars, pc, task, answer>>

\* addClause_(c): clauses that are true already are not added, false literals
\* are left out, and a clause of one literal is enqueued and propagated.
Insert(c) ==
    LET rest == {l \in c : ~ IsFalse(l)}
    IN  IF ~ ok \/ Satisfied(c) \/ \E l \in c : -l \in c
        THEN UNCHANGED <<user, ok, clauses, trail, pc>>
        ELSE IF rest = {}
        THEN ok' = FALSE /\ UNCHANGED <<clauses, trail, pc>>
        ELSE IF Cardinality(rest) = 1
        THEN /\ trail' = Append(trail, Entry(CHOOSE l \in rest : TRUE, 0, None))
             /\ pc' = "add"
             /\ UNCHANGED <<user, ok, clauses>>
        ELSE clauses' = clauses \cup {rest} /\ UNCHANGED <<user, ok, trail, pc>>

addClause ==
    /\ pc = "idle"
    /\ \E c \in user.added : VarsOf(c) \subseteq Live /\ Insert(c)
    /\ UNCHANGED <<user, learnts, trail_lim, names, simpDB_assigns, task, answer>>

\* The variable is given up: l makes the clauses that have it superfluous.  One
\* that already has a value is not released.
releaseVar ==
    /\ pc = "idle"
    /\ \E l \in user.releasable :
         /\ Var(l) \in Live
         /\ IsUndef(l)
         /\ Insert({l})
         /\ released_vars' = Append(released_vars, Var(l))
    /\ UNCHANGED <<user, learnts, trail_lim, next_var, free_vars, simpDB_assigns, task, answer>>

\* solve(assumps)
solve ==
    /\ pc = "idle"
    /\ \E assumps \in user.queries :
         /\ {Var(assumps[i]) : i \in DOMAIN assumps} \subseteq Live
         /\ assumptions' = assumps
    /\ model' = <<>> /\ conflict' = {}
    /\ conflictC' = 0 /\ curr_restarts' = 0
    /\ status' = "l_Undef"
    /\ pc' = IF ok THEN "search" ELSE "refuse"
    /\ UNCHANGED <<database, trail, trail_lim, names>>

\* The clauses are known to be contradictory.
Refuse ==
    /\ pc = "refuse"
    /\ status' = "l_False"
    /\ pc' = "idle"
    /\ UNCHANGED <<database, trail, trail_lim, names, task, model, conflict>>

-----------------------------------------------------------------------------
(* propagate()                                                             *)

Propagate ==
    /\ pc \in {"add", "search"}
    /\ \E u \in Units : trail' = Append(trail, Entry(u[2], decisionLevel, u[1]))
    /\ UNCHANGED <<database, trail_lim, names, pc, task, answer>>

\* addClause returns when everything is propagated, or a clause is false.
addClauseDone ==
    /\ pc = "add"
    /\ Propagated \/ Conflicting # {}
    /\ ok' = (Conflicting = {})
    /\ pc' = "idle"
    /\ UNCHANGED <<user, clauses, learnts, simpDB_assigns, trail, trail_lim, names, task, answer>>

-----------------------------------------------------------------------------
(* analyze(), of the clause confl that is false at the decision level.     *)

\* The literals that were false before the first decision are left out.
Above(c) == {l \in c : level(l) > 0}
Latest(c) == {l \in c : level(l) = decisionLevel}

\* Going back along the trail, literals of the last level are replaced by the
\* other literals of their reasons, until one of them is left.
UIP(confl) ==
    LET cut[i \in 0 .. Len(trail)] ==
          IF i = Len(trail) THEN Above(confl)
          ELSE LET c == cut[i + 1]
                   p == trail[i + 1]
               IN  IF Cardinality(Latest(c)) = 1 \/ -p.lit \notin c THEN c
                   ELSE (c \ {-p.lit}) \cup Above(p.reason \ {p.lit})
    IN  cut[0]

\* A literal can go if those its reason hangs on are in the clause, or can go.
Redundant(c, l) ==
    LET go[i \in 1 .. Len(trail)] ==
          /\ trail[i].reason # None
          /\ \A k \in Above(trail[i].reason \ {trail[i].lit}) : k \in c \/ go[Pos(k)]
    IN  go[Pos(l)]

RedundantAtOnce(c, l) == reason(l) # None /\ Above(reason(l) \ {-l}) \subseteq c

\* Seeded fault: every literal that has a reason is taken to be redundant.
MinimisedAll(c) == {l \in c : l \in Latest(c) \/ reason(l) = None}

\* What is kept of a clause.  The literal of the last level stays.
Minimised(c) ==
    LET source == c \ Latest(c)
    IN  {l \in c : \/ l \in Latest(c)
                   \/ ~ CASE user.ccmin_mode = 2 -> Redundant(source, l)
                          [] user.ccmin_mode = 1 -> RedundantAtOnce(source, l)
                          [] OTHER -> FALSE}

BacktrackLevel(c) == Max({0} \cup {level(l) : l \in c \ Latest(c)})

\* A conflict: learn from it, and go back to where the clause learnt is unit.
Learn ==
    /\ pc = "search"
    /\ decisionLevel > 0
    /\ \E confl \in Conflicting :
         LET c   == Minimised(UIP(confl))
             lev == BacktrackLevel(c)
             l   == CHOOSE k \in Latest(c) : TRUE
             unit == Cardinality(c) = 1
         IN  /\ trail' = Append(Below(lev), Entry(l, lev, IF unit THEN None ELSE c))
             /\ trail_lim' = SubSeq(trail_lim, 1, lev)
             /\ learnts' = IF unit THEN learnts ELSE learnts \cup {c}
    /\ conflictC' = conflictC + 1
    /\ UNCHANGED <<user, ok, clauses, simpDB_assigns, names, pc, assumptions, curr_restarts, answer>>

\* A conflict that does not hang on decisions: there is no model.
Contradiction ==
    /\ pc = "search"
    /\ decisionLevel = 0
    /\ Conflicting # {}
    /\ status' = "l_False" /\ ok' = FALSE
    /\ pc' = "idle"
    /\ UNCHANGED <<user, clauses, learnts, simpDB_assigns, trail, trail_lim, names, task, model, conflict>>

-----------------------------------------------------------------------------
(* The rest of an iteration of search(), when there is no conflict.        *)

\* The conflicts until the next restart: restart_first times the Luby sequence
\* 1 1 2 1 1 2 4 ...
luby(x) ==
    LET size[k \in Nat] == IF k = 0 THEN 1 ELSE 2 * size[k - 1] + 1
        value[y \in Nat] ==
          LET k == CHOOSE j \in 0 .. y : size[j] >= y + 1 /\ (j = 0 \/ size[j - 1] < y + 1)
          IN  IF size[k] - 1 = y THEN 2 ^ k ELSE value[y % size[k - 1]]
    IN  value[x]
Exhausted == curr_restarts < MaxRestarts /\ conflictC >= restart_first * luby(curr_restarts)

Ready == pc = "search" /\ Propagated

Restart ==
    /\ Ready
    /\ Exhausted
    /\ trail' = Below(0) /\ trail_lim' = <<>>
    /\ conflictC' = 0 /\ curr_restarts' = curr_restarts + 1
    /\ UNCHANGED <<database, names, pc, assumptions, answer>>

\* The trail without the released variables.
Released == {released_vars[i] : i \in DOMAIN released_vars}
Kept ==
    LET kept[i \in 0 .. Len(trail)] ==
          IF i = 0 THEN <<>>
          ELSE IF Var(trail[i].lit) \in Released THEN kept[i - 1] ELSE Append(kept[i - 1], trail[i])
    IN  kept[Len(trail)]

\* Seeded fault: released variables are handed out again at once, with the
\* clauses they occur in.
simplifyKeep ==
    /\ Ready /\ ~ Exhausted
    /\ decisionLevel = 0
    /\ Len(trail) # simpDB_assigns
    /\ trail' = Kept
    /\ free_vars' = free_vars \o released_vars /\ released_vars' = <<>>
    /\ simpDB_assigns' = Len(trail')
    /\ UNCHANGED <<user, ok, clauses, learnts, trail_lim, next_var, pc, task, answer>>

\* Clauses that are true go, false literals are taken out of the others, and
\* released variables leave the trail: nothing refers to them any more.
Trimmed(C) == {{l \in c : ~ IsFalse(l)} : c \in {d \in C : ~ Satisfied(d)}}

\* Seeded fault: the trail keeps the reasons that are removed.
simplifyDangling ==
    /\ Ready /\ ~ Exhausted
    /\ decisionLevel = 0
    /\ Len(trail) # simpDB_assigns
    /\ clauses' = Trimmed(clauses) /\ learnts' = Trimmed(learnts)
    /\ trail' = Kept
    /\ free_vars' = free_vars \o released_vars /\ released_vars' = <<>>
    /\ simpDB_assigns' = Len(trail')
    /\ UNCHANGED <<user, ok, trail_lim, next_var, pc, task, answer>>

simplify ==
    /\ Ready /\ ~ Exhausted
    /\ decisionLevel = 0
    /\ Len(trail) # simpDB_assigns
    /\ clauses' = Trimmed(clauses) /\ learnts' = Trimmed(learnts)
    /\ trail' = [i \in DOMAIN Kept |-> [Kept[i] EXCEPT !.reason = None]]
    /\ free_vars' = free_vars \o released_vars /\ released_vars' = <<>>
    /\ simpDB_assigns' = Len(trail')
    /\ UNCHANGED <<user, ok, trail_lim, next_var, pc, task, answer>>

Locked(c) == \E i \in DOMAIN trail : trail[i].reason = c

\* Too many clauses were learnt: forget some that are long and not reasons.
reduceDB ==
    /\ Ready /\ ~ Exhausted
    /\ 3 * (Cardinality(learnts) - Len(trail)) >= Cardinality(clauses)
    /\ \E forget \in SUBSET {c \in learnts : Cardinality(c) > 2 /\ ~ Locked(c)} \ {{}} :
         learnts' = learnts \ forget
    /\ UNCHANGED <<user, ok, clauses, simpDB_assigns, trail, trail_lim, names, pc, task, answer>>

\* The next assumption.
Assumed == decisionLevel >= Len(assumptions)
Assumption == assumptions[decisionLevel + 1]

\* Seeded fault: an assumption that is true opens no decision level.
DummyNoLevel ==
    /\ Ready /\ ~ Exhausted /\ ~ Assumed
    /\ IsTrue(Assumption)
    /\ UNCHANGED vars

\* It is true already: a decision level without a decision.
Dummy ==
    /\ Ready /\ ~ Exhausted /\ ~ Assumed
    /\ IsTrue(Assumption)
    /\ trail_lim' = Append(trail_lim, Len(trail))
    /\ UNCHANGED <<database, trail, names, pc, task, answer>>

\* analyzeFinal(p): the decisions that p, which is true, hangs on.
analyzeFinal(p) ==
    LET first == trail_lim[1] + 1
        \* the variables seen when the trail is visited back to place i
        seen[i \in first .. Len(trail) + 1] ==
          IF i > Len(trail) THEN {Var(p)}
          ELSE seen[i + 1] \cup
               IF Var(trail[i].lit) \in seen[i + 1] /\ trail[i].reason # None
               THEN VarsOf(Above(trail[i].reason \ {trail[i].lit}))
               ELSE {}
    IN  {p} \cup IF decisionLevel = 0 THEN {}
                 ELSE {-trail[i].lit : i \in {j \in first .. Len(trail) :
                         Var(trail[j].lit) \in seen[first] /\ trail[j].reason = None}}

\* It is false: the assumptions contradict the clauses.
AssumptionFails ==
    /\ Ready /\ ~ Exhausted /\ ~ Assumed
    /\ IsFalse(Assumption)
    /\ conflict' = analyzeFinal(-Assumption)
    /\ status' = "l_False"
    /\ trail' = Below(0) /\ trail_lim' = <<>>
    /\ pc' = "idle"
    /\ UNCHANGED <<database, names, task, model>>

Undecided == {v \in 1 .. next_var - 1 : IsUndef(v)} \ {free_vars[i] : i \in DOMAIN free_vars}

\* A decision: the next assumption or, after them, any literal.
Decide ==
    /\ Ready /\ ~ Exhausted
    /\ \E l \in IF Assumed THEN Undecided \cup {-v : v \in Undecided}
                           ELSE {Assumption} :
         /\ IsUndef(l)
         /\ trail' = Append(trail, Entry(l, decisionLevel + 1, None))
    /\ trail_lim' = Append(trail_lim, Len(trail))
    /\ UNCHANGED <<database, names, pc, task, answer>>

\* Nothing is left to decide.
ModelFound ==
    /\ Ready /\ ~ Exhausted
    /\ Assumed /\ Undecided = {}
    /\ model' = [v \in Live |-> IsTrue(v)]
    /\ status' = "l_True"
    /\ trail' = Below(0) /\ trail_lim' = <<>>
    /\ pc' = "idle"
    /\ UNCHANGED <<database, names, task, conflict>>

-----------------------------------------------------------------------------

Search ==
    \/ Propagate \/ addClauseDone
    \/ Refuse \/ Learn \/ Contradiction
    \/ Restart \/ simplify \/ reduceDB
    \/ Dummy \/ AssumptionFails \/ Decide \/ ModelFound

Next == newVar \/ addClause \/ releaseVar \/ solve \/ Search

Spec == Init /\ [][Next]_vars

\* A call runs to its end; the user need not make another one.
FairSpec == Spec /\ WF_vars(Search)

-----------------------------------------------------------------------------

(* The implication graph that analyze and analyzeFinal walk: a reason is a *)
(* clause of the database, it has the literal it is the reason of, and the *)
(* others became false before that.  Clauses are learnt, forgotten, trimmed*)
(* and removed while the trail refers to them ("Don't leave pointers to    *)
(* free'd memory!", Solver.cc:215).                                        *)
ReasonsHold ==
    \A i \in DOMAIN trail :
       LET c == trail[i].reason
       IN  c # None =>
             /\ c \in clauses \cup learnts
             /\ trail[i].lit \in c
             /\ \A k \in c \ {trail[i].lit} :
                   \E j \in 1 .. i - 1 : trail[j].lit = -k /\ trail[j].level <= trail[i].level

(* A variable that newVar may hand out again occurs nowhere: no clause, old*)
(* or learnt, constrains it, and no literal of the trail has a reason with *)
(* it (Solver.cc:653-674).                                                 *)
FreeAreUnused ==
    \A i \in DOMAIN free_vars :
       LET v == free_vars[i]
       IN  /\ \A c \in clauses \cup learnts : v \notin VarsOf(c)
           /\ \A j \in DOMAIN trail : Var(trail[j].lit) # v /\ v \notin VarsOf(trail[j].reason)
           /\ \A j \in DOMAIN free_vars : free_vars[j] = v => j = i

(* The solver is a SatOracle: every model it returns satisfies the clauses *)
(* and the assumptions, every conflict is a contradiction, and nothing that*)
(* it does on its own (learning, forgetting, simplifying, reusing released *)
(* variables) changes the set of models.                                   *)
Assignments == [1 .. next_var - 1 -> BOOLEAN]
Holds(m, l) == IF l > 0 THEN m[l] ELSE ~ m[-l]
Models ==
    LET M == {m \in Assignments :
                /\ ok
                /\ \A c \in clauses \cup learnts : \E l \in c : Holds(m, l)
                /\ \A i \in DOMAIN trail : trail[i].level = 0 => Holds(m, trail[i].lit)}
    IN  {[v \in Live |-> m[v]] : m \in M}

Oracle == INSTANCE SatOracle
            WITH used   <- Live,
                 models <- Models,
                 query  <- {assumptions[i] : i \in DOMAIN assumptions},
                 answer <- [sat |-> CASE pc \in {"search", "refuse"} -> "asked"
                                      [] status = "l_True"  -> "yes"
                                      [] status = "l_False" -> "no"
                                      [] OTHER -> "unknown",
                            model |-> model, conflict |-> conflict]

ImplementsOracle == Oracle!Spec

(* Every call returns.                                                     *)
Returns == (pc # "idle") ~> (pc = "idle")

=============================================================================

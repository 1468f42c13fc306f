----------------------------- MODULE SimpProofs -----------------------------
(***************************************************************************)
(* The preprocessor, for any circuit and any setting of its options: what  *)
(* it removes, shortens and eliminates keeps the models over the variables *)
(* that are left, and every model found is extended to one of the clauses  *)
(* that the user gave.                                                     *)
(***************************************************************************)
EXTENDS SimpSolver, NumberLemmas, SequenceTheorems

-----------------------------------------------------------------------------
(* The inductive invariant.                                                *)

Clause    == SUBSET Lits
ElimEntry == [lit : Lits, others : Clause]
Left      == Vars \ eliminated
Preprocessing == pc \in {"add", "eliminate", "check", "elim", "asymm", "var", "resolve"}

\* The calls that follow one another; where a clause is visited, clauses are
\* as eliminate() needs them.
TypeOK ==
    /\ opt \in [asymm : BOOLEAN, rcheck : BOOLEAN]
    /\ given \subseteq Clause /\ clauses \subseteq Clause /\ to_add \subseteq Clause
    /\ todo \subseteq Clause /\ cur \in Clause
    /\ trail \subseteq Lits /\ bwdsub_assigns \subseteq trail
    /\ frozen \subseteq Vars /\ elim_heap \subseteq Vars /\ eliminated \subseteq Vars
    /\ ok \in BOOLEAN
    /\ elim \in 0 .. MaxVar
    /\ elimclauses \in Seq(ElimEntry)
    /\ Preprocessing \/ pc \in {"solve", "idle", "later"}

\* Frozen variables are left, and only those that are left are mentioned.
LeftOnly == frozen \cup Assigned \cup UNION {VarsOf(c) : c \in clauses \cup to_add} \subseteq Left

PhaseOK ==
    /\ pc \in {"eliminate", "check", "elim", "asymm", "var"} => ok
    /\ pc \in {"asymm", "var"} => elim # 0
    /\ elim \notin eliminated
    /\ to_add # {} => pc \in {"add", "resolve", "later"}
    /\ pc = "check" /\ cur # {} => /\ cur \in clauses \/ \E l \in trail : cur = {l}
                                   /\ cur \notin todo
    /\ Preprocessing /\ cur # {} => pc = "check"

\* No clause is decided by its own literals alone.
ClausesOK ==
    /\ \A c \in clauses : c # {} /\ \A l : c # {l}
    /\ Preprocessing => \A c \in clauses \cup to_add : \A l \in c : -l \notin c

ShapeInv == TypeOK /\ LeftOnly /\ PhaseOK /\ ClausesOK

-----------------------------------------------------------------------------
(* Literals and their values.                                              *)

(* Numbers of variables, and their literals.                               *)
LEMMA LitFacts ==
    /\ MaxVar \in Nat /\ Vars \subseteq Nat /\ 0 \notin Vars /\ Vars \subseteq Lits
    /\ \A l \in Lits : l \in Int /\ l # 0 /\ -l \in Lits /\ -(-l) = l /\ l # -l /\ Var(l) \in Vars /\ Var(-l) = Var(l)
    /\ \A k, l \in Lits : Var(k) = Var(l) => k = l \/ k = -l
    /\ \A v \in Vars : Var(v) = v /\ -v \in Lits
BY SimpSolverAssumption DEF Vars, Lits, Var

Valuations == [Vars -> Values]
True(m, l) == Value(m, l) = "l_True"

\* Assignments that give each variable of L a value.
Total(L) == {m \in Valuations : \A v \in L : m[v] # "l_Undef"}

(* A literal is false when its negation is true; one of the two is true    *)
(* where the variable has a value.                                         *)
LEMMA ValueIs ==
    ASSUME NEW m \in Valuations, NEW l \in Lits
    PROVE  /\ Value(m, l) \in Values
           /\ True(m, -l) <=> Value(m, l) = "l_False"
           /\ True(m, l) <=> Value(m, -l) = "l_False"
           /\ m[Var(l)] # "l_Undef" => True(m, l) \/ True(m, -l)
           /\ m[Var(l)] = "l_Undef" <=> Value(m, l) = "l_Undef"
<1>1. l \in Int /\ l # 0 /\ -l \in Int /\ -(-l) = l /\ Var(l) \in Vars /\ Var(-l) = Var(l)
  BY LitFacts
<1>2. m[Var(l)] \in Values
  BY <1>1 DEF Valuations
<1>3. (l > 0 => Var(l) = l) /\ (l < 0 => Var(l) = -l)
  BY <1>1 DEF Var
<1>4. (l > 0 /\ ~(-l > 0)) \/ (l < 0 /\ -l > 0 /\ ~(l > 0))
  BY <1>1
<1>5. CASE l > 0
  <2>1. -(-l) = l /\ ~(-l > 0) /\ Var(-l) = l /\ Var(l) = l
    BY <1>1, <1>3, <1>4, <1>5
  <2> QED BY <1>2, <1>5, <2>1 DEF Value, Values, True
<1>6. CASE l < 0
  <2>1. -l > 0 /\ ~(l > 0) /\ Var(-l) = -l /\ Var(l) = -l
    BY <1>1, <1>3, <1>4, <1>6
  <2> QED BY <1>2, <1>6, <2>1 DEF Value, Values, True
<1> QED BY <1>4, <1>5, <1>6

(* Not both are true.                                                      *)
LEMMA NotBoth ==
    ASSUME NEW m \in Valuations, NEW l \in Lits, True(m, l), True(m, -l)
    PROVE  FALSE
BY ValueIs DEF True

SatAll(m, C) == \A c \in C : Sat(m, c)
TrueAll(m, T) == \A l \in T : True(m, l)


-----------------------------------------------------------------------------
(* Unit propagation.                                                       *)

(* What Propagated defines by recursion exists: it holds the literals it   *)
(* starts from, and those true in every assignment that satisfies the      *)
(* clauses and them.                                                       *)
LEMMA PropagatedIs ==
    ASSUME NEW C, C \subseteq Clause, NEW T, T \subseteq Lits
    PROVE  /\ T \subseteq Propagated(C, T) /\ Propagated(C, T) \subseteq Lits
           /\ \A m \in Valuations : SatAll(m, C) /\ TrueAll(m, T) => TrueAll(m, Propagated(C, T))
           /\ VarsOf(Propagated(C, T)) \subseteq VarsOf(T) \cup UNION {VarsOf(c) : c \in C}
<1> DEFINE More(S) == S \cup UNION {{l \in c : \A k \in c \ {l} : -k \in S} : c \in C}
           N == MaxVar + 1
           Eq(f) == [n \in 0 .. N |-> IF n = 0 THEN T ELSE UNION {S \cup UNION {{l \in c : \A k \in c \ {l} : -k \in S} : c \in C} : S \in {f[n - 1]}}]
           after == CHOOSE f : f = Eq(f)
           Good == {S \in SUBSET Lits :
                      /\ T \subseteq S
                      /\ \A m \in Valuations : SatAll(m, C) /\ TrueAll(m, T) => TrueAll(m, S)
                      /\ VarsOf(S) \subseteq VarsOf(T) \cup UNION {VarsOf(c) : c \in C}}
           step == [p \in Good \X (1 .. N) |-> More(p[1])]
<1>1. N \in Nat
  BY LitFacts
<1>2. T \in Good
  BY DEF VarsOf
<1>3. ASSUME NEW S \in Good PROVE More(S) \in Good
  <2>1. More(S) \in SUBSET Lits /\ T \subseteq More(S)
    BY DEF Clause
  <2>2. ASSUME NEW m \in Valuations, SatAll(m, C), TrueAll(m, T), NEW l \in More(S)
        PROVE  True(m, l)
    <3>1. TrueAll(m, S)
      BY <2>2
    <3>2. CASE l \in S
      BY <3>1, <3>2 DEF TrueAll
    <3>3. ASSUME NEW c \in C, l \in c, \A k \in c \ {l} : -k \in S PROVE True(m, l)
      <4>1. PICK k \in c : True(m, k)
        BY <2>2 DEF SatAll, Sat, True
      <4>2. k \in Lits
        BY DEF Clause
      <4>3. k = l
        BY <3>1, <3>3, <4>1, <4>2, NotBoth DEF TrueAll
      <4> QED BY <4>1, <4>3
    <3> QED BY <2>2, <3>2, <3>3
  <2>3. VarsOf(More(S)) \subseteq VarsOf(T) \cup UNION {VarsOf(c) : c \in C}
    BY DEF VarsOf
  <2> HIDE DEF More
  <2> QED BY <2>1, <2>2, <2>3 DEF TrueAll
<1>4. step \in [Good \X (1 .. N) -> Good]
  <2>1. \A p \in Good \X (1 .. N) : More(p[1]) \in Good
    <3> HIDE DEF Good, More
    <3> QED BY <1>3
  <2> HIDE DEF Good, More
  <2> QED BY <2>1
<1>5. PICK g : IsRecursive(g, Good, T, N, step)
  <2> HIDE DEF Good, step, N
  <2> QED BY <1>1, <1>2, <1>4, Recursion
<1>6. g \in [0 .. N -> Good] /\ g[0] = T /\ \A n \in 1 .. N : g[n] = More(g[n - 1])
  <2>1. /\ g \in [0 .. N -> Good] /\ g[0] = T
        /\ \A n \in 1 .. N : g[n] = step[<<g[n - 1], n>>]
    <3> HIDE DEF Good, step, N
    <3> QED BY <1>5 DEF IsRecursive
  <2>2. \A n \in 1 .. N : n - 1 \in 0 .. N
    BY <1>1
  <2> HIDE DEF Good, More, N
  <2> QED BY <2>1, <2>2
<1>7. g = Eq(g)
  <2>1. ASSUME NEW n \in 0 .. N PROVE g[n] = Eq(g)[n]
    <3>1. CASE n = 0
      BY <1>6, <3>1
    <3>2. CASE n # 0
      <4>1. n \in 1 .. N
        BY <3>2
      <4>2. Eq(g)[n] = More(g[n - 1])
        BY <3>2
      <4> HIDE DEF Eq, More
      <4> QED BY <1>6, <4>1, <4>2
    <3> QED BY <3>1, <3>2
  <2>2. g = [n \in 0 .. N |-> g[n]] /\ Eq(g) = [n \in 0 .. N |-> Eq(g)[n]]
    BY <1>6
  <2> HIDE DEF Eq, Good
  <2> QED BY <2>1, <2>2
<1>8. after = Eq(after)
  <2> HIDE DEF Eq
  <2> QED BY <1>7
<1>9. 0 .. N \subseteq {n \in 0 .. N : after[n] \in Good}
  <2> DEFINE A == {n \in 0 .. N : after[n] \in Good}
  <2>1. 0 \in A
    <3>1. 0 \in 0 .. N /\ Eq(after)[0] = T
      BY <1>1
    <3>2. after[0] = T
      <4> HIDE DEF after, Eq, N
      <4> QED BY <1>8, <3>1
    <3> HIDE DEF after, Good
    <3> QED BY <1>2, <3>1, <3>2
  <2>2. ASSUME NEW n \in 0 .. N - 1, n \in A PROVE n + 1 \in A
    <3>1. n + 1 \in 0 .. N /\ n + 1 # 0 /\ n + 1 - 1 = n
      BY <1>1
    <3>2. Eq(after)[n + 1] = More(after[n])
      BY <3>1
    <3>3. after[n + 1] = More(after[n])
      <4> HIDE DEF after, Eq, N, More
      <4> QED BY <1>8, <3>1, <3>2
    <3>4. after[n] \in Good
      BY <2>2
    <3>5. More(after[n]) \in Good
      <4> HIDE DEF after, Good, More
      <4> QED BY <1>3, <3>4
    <3> HIDE DEF after, Good, More
    <3> QED BY <3>1, <3>3, <3>5
  <2> HIDE DEF A, N
  <2>3. 0 .. N \subseteq A
    BY <1>1, <2>1, <2>2, Climb
  <2> QED BY <2>3 DEF A
<1>10. Propagated(C, T) = after[N]
  BY DEF Propagated
<1>11. Propagated(C, T) \in Good
  <2>1. N \in 0 .. N
    BY <1>1
  <2> HIDE DEF after, Good, N
  <2> QED BY <1>9, <1>10, <2>1
<1> HIDE DEF after
<1> QED BY <1>11

(* There are finitely many literals.                                       *)
LEMMA LitsFinite == \A c : c \subseteq Lits => IsFiniteSet(c)
<1>1. IsFiniteSet(Vars)
  BY SimpSolverAssumption, FS_Interval DEF Vars
<1>2. IsFiniteSet({-v : v \in Vars})
  <2> DEFINE f == [v \in Vars |-> -v]
  <2>1. f \in [Vars -> {-v : v \in Vars}]
    OBVIOUS
  <2>2. \A l \in {-v : v \in Vars} : \E v \in Vars : f[v] = l
    OBVIOUS
  <2>3. f \in Surjection(Vars, {-v : v \in Vars})
    <3> HIDE DEF f
    <3> QED BY <2>1, <2>2 DEF Surjection
  <2> HIDE DEF f
  <2> QED BY <1>1, <2>3, FS_Surjection
<1>3. IsFiniteSet(Lits)
  BY <1>1, <1>2, FS_Union DEF Lits
<1> QED BY <1>3, FS_Subset

(* A clause of neither no literal nor one has two.                         *)
LEMMA FewLiterals ==
    ASSUME NEW c, c \subseteq Lits
    PROVE  /\ Cardinality(c) \in Nat
           /\ Cardinality(c) = 1 <=> \E l : c = {l}
           /\ Cardinality(c) < 2 <=> c = {} \/ \E l : c = {l}
<1>1. IsFiniteSet(c)
  BY LitsFinite
<1>2. Cardinality(c) \in Nat /\ (Cardinality(c) = 0 <=> c = {})
  BY <1>1, FS_CardinalityType, FS_EmptySet
<1>3. Cardinality(c) = 1 <=> \E l : c = {l}
  BY <1>1, FS_Singleton
<1>4. Cardinality(c) < 2 <=> Cardinality(c) = 0 \/ Cardinality(c) = 1
  BY <1>2
<1>5. Cardinality(c) < 2 <=> c = {} \/ \E l : c = {l}
  BY <1>2, <1>3, <1>4, Zenon
<1> QED BY <1>2, <1>3, <1>5, Zenon

-----------------------------------------------------------------------------
(* What the clauses that are left mean.                                    *)

\* The assignments that satisfy what the solver has, none if it has found a
\* contradiction.
Models == {m \in Total(Left) : ok /\ SatAll(m, clauses \cup to_add) /\ TrueAll(m, trail)}

\* Every assignment of the user's clauses is one of these.
Entailed == \A n \in Assignments : SatAll(n, given) => n \in Models

\* What preprocessing knows nothing of: the variables eliminated.
Partial(L) == {m \in Valuations : \A v \in Vars : m[v] = "l_Undef" <=> v \notin L}

\* An assignment of all variables that agrees with m on L.
Extends(x, m, L) == x \in Assignments /\ \A v \in L : x[v] = m[v]

Extendable ==
    \A m \in Models \cap Partial(Left) :
       Extends(Extended(m), m, Left) /\ SatAll(Extended(m), given)

SimpInv == ShapeInv /\ Entailed /\ Extendable /\ ModelExtended

(* How the clauses and the trail fare when a literal is taken from one.    *)
LEMMA StrengthenShape ==
    ASSUME ShapeInv, NEW d \in clauses, NEW l \in d, Strengthen(d, l)
    PROVE  /\ clauses \ {d} \subseteq clauses' /\ clauses' \subseteq (clauses \ {d}) \cup {d \ {l}}
           /\ \A c \in clauses' : c # {} /\ \A k : c # {k}
           /\ trail \subseteq trail' /\ trail' \subseteq Lits
           /\ VarsOf(trail') \subseteq VarsOf(trail) \cup UNION {VarsOf(c) : c \in clauses}
           /\ ok' \in BOOLEAN /\ elim_heap' \subseteq Vars
<1> DEFINE rest == d \ {l}
<1>1. d \subseteq Lits /\ rest \subseteq Lits /\ clauses \subseteq Clause /\ trail \subseteq Lits /\ elim_heap \subseteq Vars
  BY DEF ShapeInv, TypeOK, Clause
<1>2. rest # {}
  BY DEF ShapeInv, ClausesOK
<1>3. \A V : V \subseteq Vars => MayEliminate(V) \subseteq Vars
  BY <1>1 DEF MayEliminate
<1>4. VarsOf(d) \subseteq Vars /\ Var(l) \in Vars
  BY <1>1, LitFacts DEF VarsOf
<1>5. CASE Cardinality(rest) = 1
  <2>1. /\ clauses' = clauses \ {d}
        /\ trail' = Propagated(clauses', trail \cup rest)
        /\ ok' = ~ Contradictory(trail')
        /\ elim_heap' = MayEliminate(VarsOf(d))
    BY <1>5 DEF Strengthen
  <2> DEFINE T == trail \cup rest
             P == Propagated(clauses', T)
  <2>2. clauses' \subseteq Clause /\ T \subseteq Lits
    BY <1>1, <2>1
  <2>3. T \subseteq P /\ P \subseteq Lits /\ VarsOf(P) \subseteq VarsOf(T) \cup UNION {VarsOf(c) : c \in clauses'}
    <3> HIDE DEF T
    <3> QED BY <2>2, PropagatedIs
  <2>4. VarsOf(T) \subseteq VarsOf(trail) \cup UNION {VarsOf(c) : c \in clauses}
    BY DEF VarsOf
  <2>5. UNION {VarsOf(c) : c \in clauses'} \subseteq UNION {VarsOf(c) : c \in clauses}
    BY <2>1
  <2>6. VarsOf(P) \subseteq VarsOf(trail) \cup UNION {VarsOf(c) : c \in clauses}
    <3> HIDE DEF T, P
    <3> QED BY <2>3, <2>4, <2>5
  <2>7. ok' \in BOOLEAN
    BY <2>1 DEF Contradictory
  <2>8. elim_heap' \subseteq Vars
    BY <1>3, <1>4, <2>1
  <2>9. trail' = P /\ trail \subseteq T
    BY <2>1
  <2> HIDE DEF T, P
  <2> QED BY <2>1, <2>3, <2>6, <2>7, <2>8, <2>9 DEF ShapeInv, ClausesOK
<1>6. CASE Cardinality(rest) # 1
  <2>1. /\ clauses' = (clauses \ {d}) \cup {rest}
        /\ elim_heap' = MayEliminate(IF rest \in clauses THEN VarsOf(d) ELSE {Var(l)})
        /\ trail' = trail /\ ok' = ok
    BY <1>6 DEF Strengthen
  <2>2. \A k : rest # {k}
    BY <1>1, <1>6, FewLiterals
  <2>3. elim_heap' \subseteq Vars
    <3>1. (IF rest \in clauses THEN VarsOf(d) ELSE {Var(l)}) \subseteq Vars
      BY <1>4
    <3> QED BY <1>3, <2>1, <3>1
  <2> QED BY <1>1, <1>2, <2>1, <2>2, <2>3 DEF ShapeInv, ClausesOK, TypeOK
<1> QED BY <1>5, <1>6

(* If what is left of the clause follows, the models stay.                 *)
LEMMA StrengthenMeans ==
    ASSUME ShapeInv, ok, NEW d \in clauses, NEW l \in d, Strengthen(d, l),
           to_add' = to_add, eliminated' = eliminated,
           \A m \in Models : Sat(m, d \ {l})
    PROVE  Models' = Models
<1> DEFINE rest == d \ {l}
<1>1. d \subseteq Lits /\ rest \subseteq Lits /\ clauses \subseteq Clause /\ trail \subseteq Lits
  BY DEF ShapeInv, TypeOK, Clause
<1>2. \A m : Sat(m, rest) => Sat(m, d)
  BY DEF Sat
<1>3. Left' = Left
  BY DEF Left
<1>4. CASE Cardinality(rest) = 1
  <2>1. /\ clauses' = clauses \ {d}
        /\ trail' = Propagated(clauses', trail \cup rest)
        /\ ok' = ~ Contradictory(trail')
    BY <1>4 DEF Strengthen
  <2>2. PICK x : rest = {x}
    BY <1>1, <1>4, FewLiterals
  <2>3. x \in Lits
    BY <1>1, <2>2
  <2>4. \A m : Sat(m, rest) <=> True(m, x)
    BY <2>2 DEF Sat, True
  <2> DEFINE T == trail \cup rest
  <2>5. T \subseteq trail' /\ trail' \subseteq Lits
        /\ \A m \in Valuations : SatAll(m, clauses') /\ TrueAll(m, T) => TrueAll(m, trail')
    <3>1. clauses' \subseteq Clause /\ T \subseteq Lits
      BY <1>1, <2>1
    <3>2. trail' = Propagated(clauses', T)
      BY <2>1
    <3> HIDE DEF T
    <3> QED BY <3>1, <3>2, PropagatedIs
  <2>6. ASSUME NEW m \in Models PROVE m \in Models'
    <3>1. m \in Total(Left) /\ m \in Valuations /\ SatAll(m, clauses \cup to_add) /\ TrueAll(m, trail)
      BY DEF Models, Total
    <3>2. SatAll(m, clauses')
      BY <2>1, <3>1 DEF SatAll
    <3>3. True(m, x)
      BY <2>4
    <3>4. TrueAll(m, T)
      BY <2>2, <3>1, <3>3 DEF TrueAll
    <3>5. TrueAll(m, trail')
      BY <2>5, <3>1, <3>2, <3>4
    <3>6. ~ Contradictory(trail')
      BY <2>5, <3>1, <3>5, NotBoth DEF Contradictory, TrueAll
    <3>7. SatAll(m, clauses' \cup to_add')
      BY <2>1, <3>1 DEF SatAll
    <3> QED BY <1>3, <2>1, <3>1, <3>5, <3>6, <3>7 DEF Models
  <2>7. ASSUME NEW m \in Models' PROVE m \in Models
    <3>1. m \in Total(Left) /\ SatAll(m, clauses' \cup to_add) /\ TrueAll(m, trail')
      BY <1>3 DEF Models
    <3>2. True(m, x) /\ TrueAll(m, trail)
      BY <2>2, <2>5, <3>1 DEF TrueAll
    <3>3. Sat(m, d)
      BY <1>2, <2>4, <3>2
    <3>4. SatAll(m, clauses \cup to_add)
      BY <2>1, <3>1, <3>3 DEF SatAll
    <3> QED BY <3>1, <3>2, <3>4 DEF Models
  <2> QED BY <2>6, <2>7
<1>5. CASE Cardinality(rest) # 1
  <2>1. clauses' = (clauses \ {d}) \cup {rest} /\ trail' = trail /\ ok' = ok
    BY <1>5 DEF Strengthen
  <2>2. ASSUME NEW m \in Models PROVE m \in Models'
    <3>1. m \in Total(Left) /\ SatAll(m, clauses \cup to_add) /\ TrueAll(m, trail) /\ Sat(m, rest)
      BY DEF Models
    <3>2. SatAll(m, clauses' \cup to_add')
      BY <2>1, <3>1 DEF SatAll
    <3> QED BY <1>3, <2>1, <3>1, <3>2 DEF Models
  <2>3. ASSUME NEW m \in Models' PROVE m \in Models
    <3>1. m \in Total(Left) /\ SatAll(m, clauses' \cup to_add) /\ TrueAll(m, trail)
      BY <1>3, <2>1 DEF Models
    <3>2. Sat(m, d)
      BY <1>2, <2>1, <3>1 DEF SatAll
    <3>3. SatAll(m, clauses \cup to_add)
      BY <2>1, <3>1, <3>2 DEF SatAll
    <3> QED BY <3>1, <3>3 DEF Models
  <2> QED BY <2>2, <2>3
<1> QED BY <1>4, <1>5

(* Where the models stay and nothing is eliminated, the invariant does.    *)
LEMMA SameMeans ==
    ASSUME SimpInv, Models' = Models, given' = given, eliminated' = eliminated,
           elimclauses' = elimclauses, model' = model
    PROVE  Entailed' /\ Extendable' /\ ModelExtended'
<1>1. Left' = Left
  BY DEF Left
<1>2. ASSUME NEW m PROVE Extended(m)' = Extended(m)
  BY DEF Extended
<1>3. Entailed'
  BY DEF SimpInv, Entailed
<1>4. Extendable'
  BY <1>1, <1>2 DEF SimpInv, Extendable
<1>5. ModelExtended'
  BY DEF SimpInv, ModelExtended
<1> QED BY <1>3, <1>4, <1>5

(* Steps that only move on.                                                *)
LEMMA StillMeans ==
    ASSUME UNCHANGED <<eliminated, ok, clauses, trail, to_add>>
    PROVE  Models' = Models
BY DEF Models, Left

(* What addClause adds means what the user, or resolution, asked for.      *)
LEMMA addClauseMeans ==
    ASSUME ShapeInv, addClause
    PROVE  Models' = Models
<1>1. ok /\ eliminated' = eliminated /\ Left' = Left
  BY DEF addClause, store, Left
<1>2. PICK c \in to_add : to_add' = to_add \ {c} /\
         LET rest == {l \in c : -l \notin trail}
         IN  IF (opt.rcheck /\ Implied(c)) \/ c \cap trail # {}
                THEN UNCHANGED <<ok, clauses, trail, subsumption_queue, touched, elim_heap>>
                ELSE IF Cardinality(rest) < 2
                THEN /\ trail' = Propagated(clauses, trail \cup rest)
                     /\ ok' = (rest # {} /\ ~ Contradictory(trail'))
                     /\ UNCHANGED <<clauses, subsumption_queue, touched, elim_heap>>
                ELSE /\ clauses' = clauses \cup {rest}
                     /\ ok' = ok /\ trail' = trail
  BY DEF addClause
<1> DEFINE rest == {l \in c : -l \notin trail}
<1>3. c \subseteq Lits /\ rest \subseteq Lits /\ clauses \subseteq Clause /\ trail \subseteq Lits
  BY DEF ShapeInv, TypeOK, Clause
<1>4. VarsOf(c) \subseteq Left
  BY DEF ShapeInv, LeftOnly
<1>5. ASSUME NEW m \in Valuations, TrueAll(m, trail) PROVE Sat(m, c) <=> Sat(m, rest)
  <2>1. ASSUME NEW l \in c, True(m, l) PROVE l \in rest
    BY <1>3, <1>5, <2>1, LitFacts, NotBoth DEF TrueAll
  <2> QED BY <2>1 DEF Sat, True
<1>6. CASE (opt.rcheck /\ Implied(c)) \/ c \cap trail # {}
  <2>1. ok' = ok /\ clauses' = clauses /\ trail' = trail
    BY <1>2, <1>6
  <2>2. ASSUME NEW m \in Total(Left), SatAll(m, clauses), TrueAll(m, trail), ~ Sat(m, c) PROVE FALSE
    <3>1. m \in Valuations
      BY DEF Total
    <3>2. c \cap trail = {}
      BY <2>2 DEF Sat, TrueAll, True
    <3> DEFINE T == trail \cup {-l : l \in c}
               P == Propagated(clauses, T)
    <3>3. Contradictory(P)
      BY <1>6, <3>2 DEF Implied
    <3>4. \A l \in c : True(m, -l)
      <4>1. \A l \in c : Var(l) \in Left
        BY <1>4 DEF VarsOf
      <4> QED BY <1>3, <2>2, <3>1, <4>1, ValueIs DEF Total, Sat, True
    <3>5. TrueAll(m, T) /\ T \subseteq Lits
      <4>1. \A l \in c : -l \in Lits
        BY <1>3, LitFacts
      <4> QED BY <1>3, <2>2, <3>4, <4>1 DEF TrueAll
    <3>6. TrueAll(m, P) /\ P \subseteq Lits
      <4> HIDE DEF T
      <4> QED BY <1>3, <2>2, <3>1, <3>5, PropagatedIs
    <3> HIDE DEF T, P
    <3> QED BY <3>1, <3>3, <3>6, NotBoth DEF Contradictory, TrueAll
  <2>3. \A m \in Total(Left) : SatAll(m, clauses \cup to_add) /\ TrueAll(m, trail)
                                 <=> SatAll(m, clauses \cup (to_add \ {c})) /\ TrueAll(m, trail)
    BY <2>2 DEF SatAll
  <2> QED BY <1>1, <1>2, <2>1, <2>3 DEF Models
<1>7. CASE c \cap trail = {} /\ Cardinality(rest) < 2 /\ ~ (opt.rcheck /\ Implied(c))
  <2>1. /\ trail' = Propagated(clauses, trail \cup rest)
        /\ ok' = (rest # {} /\ ~ Contradictory(trail'))
        /\ clauses' = clauses
    BY <1>2, <1>7
  <2> DEFINE T == trail \cup rest
  <2>2. T \subseteq trail' /\ trail' \subseteq Lits
        /\ \A m \in Valuations : SatAll(m, clauses) /\ TrueAll(m, T) => TrueAll(m, trail')
    <3>1. T \subseteq Lits /\ trail' = Propagated(clauses, T)
      BY <1>3, <2>1
    <3> HIDE DEF T
    <3> QED BY <1>3, <3>1, PropagatedIs
  <2>3. rest = {} \/ \E x : rest = {x}
    <3> HIDE DEF rest
    <3> QED BY <1>3, <1>7, FewLiterals
  <2>4. ASSUME NEW m \in Models PROVE m \in Models'
    <3>1. m \in Total(Left) /\ m \in Valuations /\ SatAll(m, clauses \cup to_add) /\ TrueAll(m, trail)
      BY DEF Models, Total
    <3>2. Sat(m, rest)
      <4> HIDE DEF rest
      <4> QED BY <1>2, <1>5, <3>1 DEF SatAll
    <3>3. rest # {} /\ TrueAll(m, rest)
      <4> HIDE DEF rest
      <4> QED BY <2>3, <3>2 DEF Sat, TrueAll, True
    <3>4. TrueAll(m, T) /\ SatAll(m, clauses)
      <4> HIDE DEF rest
      <4> QED BY <3>1, <3>3 DEF TrueAll, SatAll
    <3>5. TrueAll(m, trail')
      BY <2>2, <3>1, <3>4
    <3>6. ~ Contradictory(trail')
      BY <2>2, <3>1, <3>5, NotBoth DEF Contradictory, TrueAll
    <3>7. SatAll(m, clauses' \cup to_add')
      BY <1>2, <2>1, <3>1 DEF SatAll
    <3> HIDE DEF rest
    <3> QED BY <1>1, <2>1, <3>1, <3>3, <3>5, <3>6, <3>7 DEF Models
  <2>5. ASSUME NEW m \in Models' PROVE m \in Models
    <3>1. m \in Total(Left) /\ m \in Valuations /\ rest # {}
          /\ SatAll(m, clauses \cup (to_add \ {c})) /\ TrueAll(m, trail')
      <4> HIDE DEF rest
      <4> QED BY <1>1, <1>2, <2>1 DEF Models, Total
    <3>2. TrueAll(m, trail) /\ TrueAll(m, rest)
      <4> HIDE DEF rest
      <4> QED BY <2>2, <3>1 DEF TrueAll
    <3>3. Sat(m, rest)
      <4> HIDE DEF rest
      <4> QED BY <3>1, <3>2 DEF Sat, TrueAll, True
    <3>4. Sat(m, c)
      <4> HIDE DEF rest
      <4> QED BY <1>5, <3>1, <3>2, <3>3
    <3>5. SatAll(m, clauses \cup to_add)
      BY <3>1, <3>4 DEF SatAll
    <3> QED BY <1>1, <3>1, <3>2, <3>5 DEF Models
  <2> QED BY <2>4, <2>5
<1>8. CASE c \cap trail = {} /\ ~ (Cardinality(rest) < 2) /\ ~ (opt.rcheck /\ Implied(c))
  <2>1. clauses' = clauses \cup {rest} /\ ok' = ok /\ trail' = trail
    BY <1>2, <1>8
  <2>2. \A m \in Total(Left) : TrueAll(m, trail) => (Sat(m, c) <=> Sat(m, rest))
    <3> HIDE DEF rest
    <3> QED BY <1>5 DEF Total
  <2>3. \A m \in Total(Left) : TrueAll(m, trail) =>
           (SatAll(m, clauses \cup to_add) <=> SatAll(m, clauses' \cup to_add'))
    <3>1. \A m : SatAll(m, clauses \cup to_add) <=> SatAll(m, clauses \cup (to_add \ {c})) /\ Sat(m, c)
      BY DEF SatAll
    <3>2. \A m : SatAll(m, clauses' \cup to_add') <=> SatAll(m, clauses \cup (to_add \ {c})) /\ Sat(m, rest)
      <4> HIDE DEF rest
      <4> QED BY <1>2, <2>1 DEF SatAll
    <3> HIDE DEF rest
    <3> QED BY <2>2, <3>1, <3>2
  <2> HIDE DEF rest
  <2> QED BY <1>1, <2>1, <2>3 DEF Models
<1> QED BY <1>6, <1>7, <1>8

(* addClause keeps clauses as they have to be.                             *)
LEMMA addClauseShape ==
    ASSUME ShapeInv, addClause
    PROVE  ShapeInv'
<1>1. /\ ok /\ pc \in {"add", "resolve", "later"}
      /\ UNCHANGED <<opt, given, frozen, eliminated, elimclauses, bwdsub_assigns, pc, elim, cur, todo>>
  BY DEF addClause, user, store
<1>2. PICK c \in to_add : to_add' = to_add \ {c} /\
         LET rest == {l \in c : -l \notin trail}
         IN  IF (opt.rcheck /\ Implied(c)) \/ c \cap trail # {}
                THEN UNCHANGED <<ok, clauses, trail, subsumption_queue, touched, elim_heap>>
                ELSE IF Cardinality(rest) < 2
                THEN /\ trail' = Propagated(clauses, trail \cup rest)
                     /\ ok' = (rest # {} /\ ~ Contradictory(trail'))
                     /\ UNCHANGED <<clauses, subsumption_queue, touched, elim_heap>>
                ELSE /\ clauses' = clauses \cup {rest}
                     /\ ok' = ok /\ trail' = trail
                     /\ \/ elim_heap' = elim_heap
                        \/ elim_heap' = MayEliminate(VarsOf(rest))
  BY DEF addClause
<1> DEFINE rest == {l \in c : -l \notin trail}
<1>3. c \subseteq Lits /\ rest \subseteq c /\ rest \subseteq Lits /\ clauses \subseteq Clause /\ trail \subseteq Lits
  BY DEF ShapeInv, TypeOK, Clause
<1>4. VarsOf(rest) \subseteq VarsOf(c) /\ VarsOf(c) \subseteq Left /\ VarsOf(rest) \subseteq Vars
  BY <1>3 DEF ShapeInv, LeftOnly, VarsOf, Left
<1>5. Left' = Left
  BY <1>1 DEF Left
<1>6. PhaseOK'
  <2>1. to_add # {} /\ to_add' \subseteq to_add
    BY <1>2
  <2> QED BY <1>1, <2>1 DEF ShapeInv, PhaseOK, Preprocessing
<1>7. CASE clauses' = clauses /\ trail' = trail /\ ok' = ok /\ elim_heap' = elim_heap
  <2>1. to_add' \subseteq to_add
    BY <1>2
  <2>2. TypeOK'
    BY <1>1, <1>7, <2>1 DEF ShapeInv, TypeOK, Preprocessing
  <2>3. LeftOnly'
    BY <1>1, <1>5, <1>7, <2>1 DEF ShapeInv, LeftOnly, Assigned
  <2>4. ClausesOK'
    BY <1>1, <1>7, <2>1 DEF ShapeInv, ClausesOK, Preprocessing
  <2> QED BY <1>6, <2>2, <2>3, <2>4 DEF ShapeInv
<1>8. CASE /\ trail' = Propagated(clauses, trail \cup rest)
           /\ ok' = (rest # {} /\ ~ Contradictory(trail'))
           /\ UNCHANGED <<clauses, subsumption_queue, touched, elim_heap>>
  <2> DEFINE T == trail \cup rest
  <2>1. T \subseteq trail' /\ trail' \subseteq Lits
        /\ VarsOf(trail') \subseteq VarsOf(T) \cup UNION {VarsOf(d) : d \in clauses}
    <3>1. T \subseteq Lits /\ trail' = Propagated(clauses, T)
      BY <1>3, <1>8
    <3> HIDE DEF T
    <3> QED BY <1>3, <3>1, PropagatedIs
  <2>2. VarsOf(T) \subseteq Left
    BY <1>4 DEF VarsOf, ShapeInv, LeftOnly, Assigned
  <2>3. VarsOf(trail') \subseteq Left
    <3> HIDE DEF T
    <3> QED BY <2>1, <2>2 DEF ShapeInv, LeftOnly
  <2>4. trail \subseteq trail' /\ to_add' \subseteq to_add /\ ok' \in BOOLEAN
    BY <1>2, <1>8, <2>1 DEF Contradictory
  <2>5. TypeOK'
    <3> HIDE DEF T, rest
    <3> QED BY <1>1, <1>8, <2>1, <2>4 DEF ShapeInv, TypeOK, Preprocessing
  <2>6. LeftOnly'
    <3> HIDE DEF T, rest
    <3> QED BY <1>1, <1>5, <1>8, <2>3, <2>4 DEF ShapeInv, LeftOnly, Assigned, VarsOf
  <2>7. ClausesOK'
    <3> HIDE DEF T, rest
    <3> QED BY <1>1, <1>8, <2>4 DEF ShapeInv, ClausesOK, Preprocessing
  <2> QED BY <1>6, <2>5, <2>6, <2>7 DEF ShapeInv
<1>9. CASE /\ ~ (Cardinality(rest) < 2)
           /\ clauses' = clauses \cup {rest}
           /\ ok' = ok /\ trail' = trail
           /\ elim_heap' = elim_heap \/ elim_heap' = MayEliminate(VarsOf(rest))
  <2> HIDE DEF rest
  <2>1. rest # {} /\ \A l : rest # {l}
    BY <1>3, <1>9, FewLiterals
  <2>2. to_add' \subseteq to_add /\ elim_heap' \subseteq Vars
    BY <1>2, <1>4, <1>9 DEF MayEliminate, ShapeInv, TypeOK
  <2>3. TypeOK'
    BY <1>1, <1>3, <1>9, <2>2 DEF ShapeInv, TypeOK, Preprocessing, Clause
  <2>4. LeftOnly'
    BY <1>1, <1>4, <1>5, <1>9, <2>2 DEF ShapeInv, LeftOnly, Assigned
  <2>5. ClausesOK'
    BY <1>1, <1>3, <1>9, <2>1, <2>2 DEF ShapeInv, ClausesOK, Preprocessing
  <2> QED BY <1>6, <2>3, <2>4, <2>5 DEF ShapeInv
<1>10. CASE (opt.rcheck /\ Implied(c)) \/ c \cap trail # {}
  BY <1>2, <1>7, <1>10
<1>11. CASE ~ ((opt.rcheck /\ Implied(c)) \/ c \cap trail # {}) /\ Cardinality(rest) < 2
  BY <1>2, <1>8, <1>11
<1>12. CASE ~ ((opt.rcheck /\ Implied(c)) \/ c \cap trail # {}) /\ ~ (Cardinality(rest) < 2)
  BY <1>2, <1>9, <1>12
<1> QED BY <1>10, <1>11, <1>12

(* The clause or variable looked at changes, and nothing else.             *)
LEMMA MoveShape ==
    ASSUME ShapeInv, UNCHANGED <<opt, given, frozen, ok, clauses, trail, elimclauses, eliminated>>,
           to_add' \subseteq to_add, TypeOK', PhaseOK', Preprocessing' => Preprocessing
    PROVE  ShapeInv'
<1>1. LeftOnly'
  BY DEF ShapeInv, LeftOnly, Left, Assigned
<1>2. ClausesOK'
  BY DEF ShapeInv, ClausesOK
<1> QED BY <1>1, <1>2 DEF ShapeInv

(* The steps from one thing to treat to the next.                          *)
LEMMA MovesKeep ==
    ASSUME ShapeInv, Added \/ Gather \/ NextVar \/ NoMoreVars \/ Eliminated \/ CheckNext
                     \/ Checked \/ CheckDone \/ AsymmDone \/ KeepVar
    PROVE  ShapeInv' /\ Models' = Models
<1> USE DEF ShapeInv, user, store
<1>1. CASE Added
  <2>1. TypeOK' /\ PhaseOK' /\ (Preprocessing' => Preprocessing)
    BY <1>1 DEF Added, TypeOK, PhaseOK, Preprocessing
  <2>2. UNCHANGED <<opt, given, frozen, ok, clauses, trail, elimclauses, eliminated>> /\ to_add' \subseteq to_add
    BY <1>1 DEF Added
  <2>3. Models' = Models
    BY <1>1 DEF Added, Models, Left
  <2> QED BY <2>1, <2>2, <2>3, MoveShape
<1>2. CASE Gather \/ NoMoreVars \/ Eliminated \/ Checked \/ CheckDone \/ AsymmDone \/ KeepVar
  <2>1. UNCHANGED <<opt, given, frozen, ok, clauses, trail, to_add, elimclauses, eliminated>>
    BY <1>2 DEF Gather, NoMoreVars, Eliminated, Checked, CheckDone, AsymmDone, KeepVar
  <2>2. 0 \in 0 .. MaxVar /\ 0 \notin eliminated
    BY LitFacts DEF TypeOK
  <2>3. TypeOK' /\ PhaseOK' /\ (Preprocessing' => Preprocessing)
    <3>1. CASE Gather \/ NoMoreVars \/ Eliminated
      BY <2>1, <3>1 DEF Gather, NoMoreVars, Eliminated, TypeOK, PhaseOK, Preprocessing
    <3>2. CASE Checked \/ CheckDone \/ AsymmDone
      <4>1. {} \in Clause
        BY DEF Clause
      <4> QED BY <2>1, <3>2, <4>1 DEF Checked, CheckDone, AsymmDone, TypeOK, PhaseOK, Preprocessing
    <3>3. CASE KeepVar
      BY <2>1, <2>2, <3>3 DEF KeepVar, TypeOK, PhaseOK, Preprocessing
    <3> QED BY <1>2, <3>1, <3>2, <3>3
  <2> QED BY <2>1, <2>3, MoveShape, StillMeans
<1>3. CASE NextVar
  <2>1. UNCHANGED <<opt, given, frozen, ok, clauses, trail, to_add, elimclauses, eliminated>>
    BY <1>3 DEF NextVar
  <2>2. TypeOK' /\ PhaseOK' /\ (Preprocessing' => Preprocessing)
    <3>1. PICK v \in elim_heap :
         /\ elim_heap' = elim_heap \ {v}
         /\ \/ UNCHANGED <<pc, elim, todo>>
            \/ /\ v \notin eliminated
               /\ elim' = v
               /\ pc' \in {"asymm", "var"}
               /\ todo' \subseteq clauses
      BY <1>3 DEF NextVar
    <3>2. v \in Vars /\ v # 0 /\ v \in 0 .. MaxVar
      BY LitFacts DEF TypeOK, Vars
    <3>3. pc = "elim" /\ UNCHANGED <<bwdsub_assigns, cur>>
      BY <1>3 DEF NextVar
    <3> QED BY <2>1, <3>1, <3>2, <3>3 DEF TypeOK, PhaseOK, Preprocessing
  <2> QED BY <2>1, <2>2, MoveShape, StillMeans
<1>4. CASE CheckNext
  <2>1. UNCHANGED <<opt, given, frozen, ok, clauses, trail, to_add, elim_heap, elimclauses, eliminated, pc, elim>>
        /\ pc = "check" /\ cur = {}
    BY <1>4 DEF CheckNext
  <2>2. /\ cur' = {} \/ cur' \in clauses \/ \E l \in trail : cur' = {l}
        /\ bwdsub_assigns' \subseteq trail
    BY <1>4 DEF CheckNext, Unchecked, TypeOK
  <2>3. todo' \subseteq clauses \ {cur'}
    BY <1>4 DEF CheckNext
  <2>4. cur' \in Clause
    BY <2>2 DEF TypeOK, Clause
  <2>5. TypeOK' /\ PhaseOK' /\ (Preprocessing' => Preprocessing)
    BY <2>1, <2>2, <2>3, <2>4 DEF TypeOK, PhaseOK, Preprocessing
  <2> QED BY <2>1, <2>5, MoveShape, StillMeans
<1> QED BY <1>1, <1>2, <1>3, <1>4

(* Shortening a clause keeps the others as they have to be.                *)
LEMMA StrengthenKeeps ==
    ASSUME ShapeInv, Preprocessing, NEW d \in clauses, NEW l \in d, Strengthen(d, l),
           UNCHANGED <<opt, given, frozen, to_add, elimclauses, eliminated, bwdsub_assigns, elim, cur>>,
           todo' \subseteq todo, pc' = IF ok' THEN pc ELSE "solve", PhaseOK'
    PROVE  ShapeInv'
<1>1. /\ clauses' \subseteq (clauses \ {d}) \cup {d \ {l}}
      /\ \A c \in clauses' : c # {} /\ \A k : c # {k}
      /\ trail \subseteq trail' /\ trail' \subseteq Lits
      /\ VarsOf(trail') \subseteq VarsOf(trail) \cup UNION {VarsOf(c) : c \in clauses}
      /\ ok' \in BOOLEAN /\ elim_heap' \subseteq Vars
  BY StrengthenShape
<1>2. \A c \in clauses' : \E e \in clauses : c \subseteq e
  BY <1>1
<1>3. TypeOK'
  BY <1>1, <1>2 DEF ShapeInv, TypeOK, Clause, Preprocessing
<1>4. LeftOnly'
  <2>1. \A c \in clauses' : VarsOf(c) \subseteq Left
    BY <1>2 DEF ShapeInv, LeftOnly, VarsOf
  <2>2. Left' = Left
    BY DEF Left
  <2>3. VarsOf(trail') \subseteq Left
    BY <1>1 DEF ShapeInv, LeftOnly, Assigned, VarsOf
  <2> QED BY <2>1, <2>2, <2>3 DEF ShapeInv, LeftOnly, Assigned, VarsOf
<1>5. ClausesOK'
  BY <1>1, <1>2 DEF ShapeInv, ClausesOK
<1> QED BY <1>3, <1>4, <1>5 DEF ShapeInv

(* The clause or the literal that others are checked against holds.        *)
LEMMA CurHolds ==
    ASSUME ShapeInv, pc = "check", cur # {}, NEW m \in Models
    PROVE  Sat(m, cur) /\ \A l \in cur : -l \notin cur
<1>1. CASE cur \in clauses
  BY <1>1 DEF Models, SatAll, ShapeInv, ClausesOK, Preprocessing
<1>2. ASSUME NEW l \in trail, cur = {l} PROVE Sat(m, cur) /\ \A k \in cur : -k \notin cur
  <2>1. l \in Lits /\ -l # l
    BY LitFacts DEF ShapeInv, TypeOK
  <2> QED BY <1>2, <2>1 DEF Models, TrueAll, Sat, True
<1> QED BY <1>1, <1>2 DEF ShapeInv, PhaseOK

(* The clauses removed and shortened by others follow, and what is left    *)
(* implies them.                                                           *)
LEMMA CheckOneKeeps ==
    ASSUME ShapeInv, CheckOne
    PROVE  ShapeInv' /\ Models' = Models
<1>1. /\ pc = "check" /\ cur # {} /\ Preprocessing /\ ok
      /\ UNCHANGED <<opt, given, frozen, to_add, elimclauses, eliminated, bwdsub_assigns, elim, cur>>
      /\ pc' = IF ok' THEN pc ELSE "solve"
  BY DEF CheckOne, user, store, Preprocessing, ShapeInv, PhaseOK
<1>2. PICK d \in todo :
         /\ todo' = todo \ {d}
         /\ IF d \notin clauses
            THEN UNCHANGED <<ok, clauses, trail, subsumption_queue, elim_heap>>
            ELSE IF cur \subseteq d
            THEN /\ clauses' = clauses \ {d}
                 /\ elim_heap' = MayEliminate(VarsOf(d))
                 /\ UNCHANGED <<ok, trail, subsumption_queue>>
            ELSE IF SubsumesBut(cur, d) # {}
            THEN \E l \in SubsumesBut(cur, d) : Strengthen(d, -l)
            ELSE UNCHANGED <<ok, clauses, trail, subsumption_queue, elim_heap>>
  BY DEF CheckOne
<1>3. d # cur /\ d \in Clause /\ (cur \in clauses \/ \E l \in trail : cur = {l}) /\ cur \notin todo
  BY <1>1 DEF ShapeInv, PhaseOK, TypeOK
<1>4. CASE UNCHANGED <<ok, clauses, trail, subsumption_queue, elim_heap>>
  <2>1. TypeOK' /\ PhaseOK' /\ (Preprocessing' => Preprocessing)
    BY <1>1, <1>2, <1>3, <1>4 DEF ShapeInv, TypeOK, PhaseOK, Preprocessing
  <2> QED BY <1>1, <1>4, <2>1, MoveShape, StillMeans
<1>5. CASE d \in clauses /\ cur \subseteq d
  <2>1. /\ clauses' = clauses \ {d}
        /\ elim_heap' = MayEliminate(VarsOf(d))
        /\ UNCHANGED <<ok, trail, subsumption_queue>>
    BY <1>2, <1>5
  <2>2. VarsOf(d) \subseteq Vars
    BY <1>3, LitFacts DEF Clause, VarsOf
  <2>3. elim_heap' \subseteq Vars
    BY <2>1, <2>2 DEF MayEliminate, ShapeInv, TypeOK
  <2>4. TypeOK'
    BY <1>1, <1>2, <2>1, <2>3 DEF ShapeInv, TypeOK, Preprocessing
  <2>5. PhaseOK'
    BY <1>1, <1>2, <1>3, <2>1 DEF ShapeInv, PhaseOK, Preprocessing
  <2>6. LeftOnly' /\ ClausesOK'
    BY <1>1, <2>1 DEF ShapeInv, LeftOnly, ClausesOK, Left, Assigned
  <2>7. ASSUME NEW m \in Models' PROVE m \in Models
    <3>1. m \in Total(Left) /\ SatAll(m, clauses' \cup to_add) /\ TrueAll(m, trail)
      BY <1>1, <2>1 DEF Models, Left
    <3>2. Sat(m, cur)
      BY <1>3, <2>1, <3>1 DEF SatAll, TrueAll, Sat, True
    <3>3. Sat(m, d)
      BY <1>5, <3>2 DEF Sat
    <3> QED BY <1>1, <2>1, <3>1, <3>3 DEF Models, SatAll
  <2>8. ASSUME NEW m \in Models PROVE m \in Models'
    BY <1>1, <2>1 DEF Models, SatAll, Left
  <2> QED BY <2>4, <2>5, <2>6, <2>7, <2>8 DEF ShapeInv
<1>6. CASE d \in clauses /\ \E l \in SubsumesBut(cur, d) : Strengthen(d, -l)
  <2>1. PICK l \in cur : -l \in d /\ cur \ {l} \subseteq d /\ Strengthen(d, -l)
    BY <1>6 DEF SubsumesBut
  <2>2. l \in Lits /\ -l \in Lits /\ cur \subseteq Lits
    BY LitFacts DEF ShapeInv, TypeOK, Clause
  <2>3. ASSUME NEW m \in Models PROVE Sat(m, d \ {-l})
    <3>1. m \in Valuations /\ Sat(m, d)
      BY <1>6 DEF Models, Total, SatAll
    <3>2. PICK k \in cur : True(m, k)
      BY <1>1, CurHolds DEF Sat, True
    <3>3. CASE k = l
      <4>1. ~ True(m, -l)
        BY <2>2, <3>1, <3>2, <3>3, NotBoth
      <4> QED BY <3>1, <4>1 DEF Sat, True
    <3>4. CASE k # l
      <4>1. k \in d /\ k # -l
        BY <1>1, <2>1, <3>4, CurHolds
      <4> QED BY <3>2, <4>1 DEF Sat, True
    <3> QED BY <3>3, <3>4
  <2>4. clauses \ {d} \subseteq clauses' /\ trail \subseteq trail'
    BY <1>6, <2>1, StrengthenShape
  <2>5. PhaseOK'
    BY <1>1, <1>2, <1>3, <2>4 DEF ShapeInv, PhaseOK, Preprocessing
  <2>6. todo' \subseteq todo
    BY <1>2
  <2>7. ShapeInv'
    BY <1>1, <1>6, <2>1, <2>5, <2>6, StrengthenKeeps
  <2>8. Models' = Models
    BY <1>1, <1>6, <2>1, <2>3, StrengthenMeans
  <2> QED BY <2>7, <2>8
<1> QED BY <1>2, <1>4, <1>5, <1>6

(* A literal that asymmetric branching takes away is not needed: what is   *)
(* left of the clause follows by propagation.                              *)
LEMMA AsymmKeeps ==
    ASSUME ShapeInv, Asymm
    PROVE  ShapeInv' /\ Models' = Models
<1>1. /\ pc = "asymm" /\ Preprocessing /\ ok /\ cur = {}
      /\ UNCHANGED <<opt, given, frozen, to_add, elimclauses, eliminated, bwdsub_assigns, elim, cur>>
      /\ pc' = IF ok' THEN pc ELSE "solve"
  BY DEF Asymm, user, store, Preprocessing, ShapeInv, PhaseOK
<1>2. PICK c \in todo :
         LET failing == Contradictory(Propagated(clauses, trail \cup {-k : k \in Others(c)}))
             left    == todo \ {c}
         IN  IF c \notin clauses \/ c \cap trail # {} \/ ~ failing
             THEN todo' = left /\ UNCHANGED <<ok, clauses, trail, subsumption_queue, elim_heap>>
             ELSE \E l \in Spare(c) :
                    /\ Strengthen(c, l)
                    /\ IF Var(l) = elim /\ Cardinality(c) > 2 /\ left # {}
                       THEN \E d \in left : todo' = left \ {d}
                       ELSE todo' = left
  BY DEF Asymm
<1>3. todo' \subseteq todo
  BY <1>2
<1>4. CASE UNCHANGED <<ok, clauses, trail, subsumption_queue, elim_heap>>
  <2>1. TypeOK' /\ PhaseOK' /\ (Preprocessing' => Preprocessing)
    BY <1>1, <1>3, <1>4 DEF ShapeInv, TypeOK, PhaseOK, Preprocessing
  <2> QED BY <1>1, <1>4, <2>1, MoveShape, StillMeans
<1>5. CASE /\ c \in clauses
           /\ Contradictory(Propagated(clauses, trail \cup {-k : k \in Others(c)}))
           /\ \E l \in Spare(c) : Strengthen(c, l)
  <2>1. PICK l \in Spare(c) : Strengthen(c, l)
    BY <1>5
  <2>2. l \in c /\ l \notin Others(c) /\ Others(c) \subseteq c /\ c \subseteq Lits
    BY <1>5 DEF Spare, Others, ShapeInv, TypeOK, Clause
  <2>3. ASSUME NEW m \in Models PROVE Sat(m, c \ {l})
    <3> SUFFICES ASSUME ~ Sat(m, c \ {l}) PROVE FALSE
      OBVIOUS
    <3>1. m \in Valuations /\ m \in Total(Left) /\ SatAll(m, clauses) /\ TrueAll(m, trail)
      BY DEF Models, Total, SatAll
    <3> DEFINE T == trail \cup {-k : k \in Others(c)}
               P == Propagated(clauses, T)
    <3>2. \A k \in Others(c) : ~ True(m, k) /\ Var(k) \in Left /\ k \in Lits
      BY <1>5, <2>2 DEF Sat, True, ShapeInv, LeftOnly, VarsOf
    <3>3. \A k \in Others(c) : True(m, -k)
      BY <3>1, <3>2, ValueIs DEF Total
    <3>4. T \subseteq Lits
      <4>1. \A k \in Others(c) : -k \in Lits
        BY <3>2, LitFacts
      <4> QED BY <4>1 DEF ShapeInv, TypeOK
    <3>5. TrueAll(m, T)
      BY <3>1, <3>3 DEF TrueAll
    <3>6. TrueAll(m, P) /\ P \subseteq Lits
      <4>1. clauses \subseteq Clause
        BY DEF ShapeInv, TypeOK
      <4> HIDE DEF T
      <4> QED BY <3>1, <3>4, <3>5, <4>1, PropagatedIs
    <3>7. Contradictory(P)
      BY <1>5
    <3> HIDE DEF T, P
    <3> QED BY <3>1, <3>6, <3>7, NotBoth DEF Contradictory, TrueAll
  <2>4. PhaseOK'
    BY <1>1 DEF ShapeInv, PhaseOK, Preprocessing
  <2>5. ShapeInv'
    BY <1>1, <1>3, <1>5, <2>1, <2>2, <2>4, StrengthenKeeps
  <2>6. Models' = Models
    BY <1>1, <1>5, <2>1, <2>2, <2>3, StrengthenMeans
  <2> QED BY <2>5, <2>6
<1> QED BY <1>2, <1>4, <1>5


-----------------------------------------------------------------------------
(* Extending a model.                                                      *)

\* What extendModel makes of a at one of the clauses kept.
Made(a, e) == IF \A k \in e.others : Value(a, k) = "l_False"
              THEN [a EXCEPT ![Var(e.lit)] = IF e.lit > 0 THEN "l_True" ELSE "l_False"]
              ELSE a

\* The assignments it goes through, from m at the end of s to its beginning.
GoesBack(g, s, n, m) == g[n] = m /\ \A i \in 0 .. n - 1 : g[i] = Made(g[i + 1], s[i + 1])
IsExtension(g, s, m) == g \in [0 .. Len(s) -> Valuations] /\ GoesBack(g, s, Len(s), m)

(* Assignments stay assignments.                                           *)
LEMMA MadeType ==
    ASSUME NEW a \in Valuations, NEW e \in ElimEntry
    PROVE  Made(a, e) \in Valuations
<1>1. Var(e.lit) \in Vars
  BY LitFacts DEF ElimEntry
<1> QED BY <1>1 DEF Made, Valuations, Values

(* They exist.                                                             *)
LEMMA ExtensionExists ==
    ASSUME NEW s \in Seq(ElimEntry), NEW m \in Valuations
    PROVE  \E g : IsExtension(g, s, m)
<1> DEFINE n == Len(s)
           step == [p \in Valuations \X (1 .. n) |-> Made(p[1], s[n - p[2] + 1])]
<1>1. n \in Nat /\ \A i \in 1 .. n : s[i] \in ElimEntry
  OBVIOUS
<1>2. step \in [Valuations \X (1 .. n) -> Valuations]
  <2>1. ASSUME NEW p \in Valuations \X (1 .. n) PROVE Made(p[1], s[n - p[2] + 1]) \in Valuations
    <3>1. n - p[2] + 1 \in 1 .. n /\ p[1] \in Valuations
      BY <1>1
    <3> HIDE DEF n
    <3> QED BY <1>1, <3>1, MadeType
  <2> HIDE DEF n
  <2> QED BY <2>1
<1>3. PICK h : IsRecursive(h, Valuations, m, n, step)
  <2> HIDE DEF step, n
  <2> QED BY <1>1, <1>2, Recursion
<1> DEFINE g == [i \in 0 .. n |-> h[n - i]]
<1>4. h \in [0 .. n -> Valuations] /\ h[0] = m /\ \A k \in 1 .. n : h[k] = Made(h[k - 1], s[n - k + 1])
  <2>1. h \in [0 .. n -> Valuations] /\ h[0] = m /\ \A k \in 1 .. n : h[k] = step[<<h[k - 1], k>>]
    <3> HIDE DEF step, n
    <3> QED BY <1>3 DEF IsRecursive
  <2>2. \A k \in 1 .. n : k - 1 \in 0 .. n
    BY <1>1
  <2> HIDE DEF n
  <2> QED BY <2>1, <2>2
<1>5. g \in [0 .. n -> Valuations] /\ g[n] = m
  <2>1. \A i \in 0 .. n : n - i \in 0 .. n
    BY <1>1
  <2>2. n \in 0 .. n /\ n - n = 0
    BY <1>1
  <2> HIDE DEF n
  <2> QED BY <1>4, <2>1, <2>2
<1>6. ASSUME NEW i \in 0 .. n - 1 PROVE g[i] = Made(g[i + 1], s[i + 1])
  <2>1. /\ i \in 0 .. n /\ i + 1 \in 0 .. n /\ n - i \in 1 .. n
        /\ n - (i + 1) = n - i - 1 /\ n - (n - i) + 1 = i + 1
    BY <1>1
  <2>2. g[i] = h[n - i] /\ g[i + 1] = h[n - i - 1]
    <3> HIDE DEF n
    <3> QED BY <2>1
  <2> HIDE DEF n, g
  <2> QED BY <1>4, <2>1, <2>2
<1> HIDE DEF g
<1> QED BY <1>5, <1>6 DEF IsExtension, GoesBack

(* They are determined, whatever function gives them.                      *)
LEMMA ExtensionUnique ==
    ASSUME NEW n \in Nat, NEW s, NEW m, NEW g, NEW h, GoesBack(g, s, n, m), GoesBack(h, s, n, m)
    PROVE  \A i \in 0 .. n : g[i] = h[i]
<1> DEFINE T == {k \in 0 .. n : g[n - k] = h[n - k]}
<1>1. 0 \in T
  <2>1. 0 \in 0 .. n /\ n - 0 = n
    OBVIOUS
  <2> QED BY <2>1 DEF GoesBack
<1>2. ASSUME NEW k \in 0 .. n - 1, k \in T PROVE k + 1 \in T
  <2>1. k + 1 \in 0 .. n /\ n - (k + 1) \in 0 .. n - 1 /\ n - (k + 1) + 1 = n - k
    OBVIOUS
  <2>2. g[n - k] = h[n - k]
    BY <1>2
  <2>3. g[n - (k + 1)] = h[n - (k + 1)]
    BY <2>1, <2>2 DEF GoesBack
  <2> QED BY <2>1, <2>3
<1>3. 0 .. n \subseteq T
  <2> HIDE DEF T
  <2> QED BY <1>1, <1>2, Climb
<1>4. ASSUME NEW i \in 0 .. n PROVE g[i] = h[i]
  <2>1. n - i \in 0 .. n /\ n - (n - i) = i
    OBVIOUS
  <2>2. n - i \in T
    BY <1>3, <2>1
  <2> QED BY <2>1, <2>2
<1> QED BY <1>4

\* Extended(m), for any clauses kept.
ExtendedOver(s, m) ==
    LET n == Len(s)
        ext[i \in 0 .. n] ==
          IF i = n THEN m
          ELSE LET e == s[i + 1]
                   a == ext[i + 1]
               IN  IF \A k \in e.others : Value(a, k) = "l_False"
                   THEN [a EXCEPT ![Var(e.lit)] = IF e.lit > 0 THEN "l_True" ELSE "l_False"]
                   ELSE a
    IN  ext[0]

(* What extendModel defines by recursion is the first of them.             *)
LEMMA ExtendedIs ==
    ASSUME NEW s \in Seq(ElimEntry), NEW m, NEW g, IsExtension(g, s, m)
    PROVE  ExtendedOver(s, m) = g[0]
<1> DEFINE n == Len(s)
           Eq(f) == [i \in 0 .. n |->
                       IF i = n THEN m
                       ELSE LET e == s[i + 1]
                                a == f[i + 1]
                            IN  IF \A k \in e.others : Value(a, k) = "l_False"
                                THEN [a EXCEPT ![Var(e.lit)] = IF e.lit > 0 THEN "l_True" ELSE "l_False"]
                                ELSE a]
           ext == CHOOSE f : f = Eq(f)
<1>1. n \in Nat
  OBVIOUS
<1>2. \A f : \A i \in 0 .. n - 1 : Eq(f)[i] = Made(f[i + 1], s[i + 1])
  <2>1. ASSUME NEW f, NEW i \in 0 .. n - 1 PROVE Eq(f)[i] = Made(f[i + 1], s[i + 1])
    <3>1. i \in 0 .. n /\ i # n
      BY <1>1
    <3> HIDE DEF n
    <3> QED BY <3>1 DEF Made
  <2> HIDE DEF Eq, n
  <2> QED BY <2>1
<1>3. \A f : Eq(f)[n] = m
  <2>1. n \in 0 .. n
    BY <1>1
  <2> HIDE DEF n
  <2> QED BY <2>1
<1>4. \A f : Eq(f) = [i \in 0 .. n |-> Eq(f)[i]]
  OBVIOUS
<1>5. g = Eq(g)
  <2>1. g \in [0 .. n -> Valuations] /\ g[n] = m /\ \A i \in 0 .. n - 1 : g[i] = Made(g[i + 1], s[i + 1])
    BY DEF IsExtension, GoesBack
  <2>2. \A i \in 0 .. n : i = n \/ i \in 0 .. n - 1
    BY <1>1
  <2>3. \A i \in 0 .. n : g[i] = Eq(g)[i]
    <3> HIDE DEF Eq, n
    <3> QED BY <1>2, <1>3, <2>1, <2>2
  <2>4. g = [i \in 0 .. n |-> g[i]]
    BY <2>1
  <2> HIDE DEF Eq, n
  <2> QED BY <1>4, <2>3, <2>4
<1>6. ext = Eq(ext)
  <2> HIDE DEF Eq
  <2> QED BY <1>5
<1>7. GoesBack(ext, s, n, m)
  <2> HIDE DEF ext, Eq, n
  <2> QED BY <1>2, <1>3, <1>6 DEF GoesBack
<1>8. GoesBack(g, s, n, m)
  BY DEF IsExtension
<1>9. \A i \in 0 .. n : ext[i] = g[i]
  <2> HIDE DEF ext, n, Eq
  <2> QED BY <1>1, <1>7, <1>8, ExtensionUnique
<1>10. ExtendedOver(s, m) = ext[0]
  BY DEF ExtendedOver
<1>11. 0 \in 0 .. n
  BY <1>1
<1> HIDE DEF ext, n
<1> QED BY <1>9, <1>10, <1>11

(* At every moment, Extended is that of the clauses kept.                  *)
LEMMA ExtendedAt ==
    /\ \A m : Extended(m) = ExtendedOver(elimclauses, m)
    /\ \A m : Extended(m)' = ExtendedOver(elimclauses', m)
<1>1. \A m : Extended(m) = ExtendedOver(elimclauses, m)
  BY DEF Extended, ExtendedOver
<1>2. \A m : Extended(m)' = ExtendedOver(elimclauses', m)
  BY DEF Extended, ExtendedOver
<1> QED BY <1>1, <1>2

(* Going back through two sequences is going back through the second, then *)
(* through the first.                                                      *)
LEMMA ExtendedJoined ==
    ASSUME NEW s \in Seq(ElimEntry), NEW t \in Seq(ElimEntry), NEW m, NEW g,
           IsExtension(g, s \o t, m)
    PROVE  /\ \E h : IsExtension(h, t, m) /\ h[0] = g[Len(s)]
           /\ \E h : IsExtension(h, s, g[Len(s)]) /\ h[0] = g[0]
<1> DEFINE j == Len(s)
           n == Len(t)
           u == s \o t
           hi == [i \in 0 .. n |-> g[i + j]]
           lo == [i \in 0 .. j |-> g[i]]
<1>1. j \in Nat /\ n \in Nat /\ Len(u) = j + n
  OBVIOUS
<1>2. (\A i \in 1 .. j : u[i] = s[i]) /\ (\A i \in 1 .. n : u[i + j] = t[i])
  OBVIOUS
<1>3. g \in [0 .. j + n -> Valuations] /\ g[j + n] = m
      /\ \A i \in 0 .. j + n - 1 : g[i] = Made(g[i + 1], u[i + 1])
  <2> HIDE DEF u
  <2> QED BY <1>1 DEF IsExtension, GoesBack, u
<1>4. IsExtension(hi, t, m) /\ hi[0] = g[j]
  <2>1. hi \in [0 .. n -> Valuations]
    <3>1. \A i \in 0 .. n : i + j \in 0 .. j + n
      BY <1>1
    <3> HIDE DEF n, j
    <3> QED BY <1>3, <3>1
  <2>2. hi[n] = m /\ hi[0] = g[j]
    <3>1. n \in 0 .. n /\ n + j = j + n /\ 0 \in 0 .. n /\ 0 + j = j
      BY <1>1
    <3> HIDE DEF n, j
    <3> QED BY <1>3, <3>1
  <2>3. ASSUME NEW i \in 0 .. n - 1 PROVE hi[i] = Made(hi[i + 1], t[i + 1])
    <3>1. /\ i \in 0 .. n /\ i + 1 \in 0 .. n /\ i + j \in 0 .. j + n - 1
          /\ i + j + 1 = i + 1 + j /\ i + 1 \in 1 .. n
      BY <1>1
    <3>2. hi[i] = g[i + j] /\ hi[i + 1] = g[i + 1 + j]
      <4> HIDE DEF n, j
      <4> QED BY <3>1
    <3> HIDE DEF n, j, hi, u
    <3> QED BY <1>2, <1>3, <3>1, <3>2
  <2> HIDE DEF hi
  <2> QED BY <2>1, <2>2, <2>3 DEF IsExtension, GoesBack
<1>5. IsExtension(lo, s, g[j]) /\ lo[0] = g[0]
  <2>1. lo \in [0 .. j -> Valuations]
    <3>1. \A i \in 0 .. j : i \in 0 .. j + n
      BY <1>1
    <3> HIDE DEF n, j
    <3> QED BY <1>3, <3>1
  <2>2. lo[j] = g[j] /\ lo[0] = g[0]
    <3>1. j \in 0 .. j /\ 0 \in 0 .. j
      BY <1>1
    <3> HIDE DEF n, j
    <3> QED BY <3>1
  <2>3. ASSUME NEW i \in 0 .. j - 1 PROVE lo[i] = Made(lo[i + 1], s[i + 1])
    <3>1. i \in 0 .. j /\ i + 1 \in 0 .. j /\ i \in 0 .. j + n - 1 /\ i + 1 \in 1 .. j
      BY <1>1
    <3>2. lo[i] = g[i] /\ lo[i + 1] = g[i + 1]
      <4> HIDE DEF n, j
      <4> QED BY <3>1
    <3> HIDE DEF n, j, lo, u
    <3> QED BY <1>2, <1>3, <3>1, <3>2
  <2> HIDE DEF lo
  <2> QED BY <2>1, <2>2, <2>3 DEF IsExtension, GoesBack
<1> HIDE DEF hi, lo
<1> QED BY <1>4, <1>5

(* A set as a sequence has all its elements.                               *)
LEMMA SetToSeqIs ==
    ASSUME NEW S, IsFiniteSet(S)
    PROVE  /\ SetToSeq(S) \in Seq(S) /\ Len(SetToSeq(S)) = Cardinality(S)
           /\ \A x \in S : \E i \in 1 .. Len(SetToSeq(S)) : SetToSeq(S)[i] = x
<1> DEFINE n == Cardinality(S)
           q == SetToSeq(S)
<1>1. n \in Nat
  BY FS_CardinalityType
<1>2. PICK f \in Bijection(1 .. n, S) : TRUE
  BY FS_CardinalityType DEF ExistsBijection
<1>3. f \in [1 .. n -> S] /\ IsInjective(f)
  BY <1>2 DEF Bijection, Injection, IsInjective
<1>4. q \in [1 .. n -> S] /\ IsInjective(q)
  <2> HIDE DEF n
  <2> QED BY <1>3 DEF SetToSeq, n
<1>5. q \in Injection(1 .. n, S)
  <2> HIDE DEF q, n
  <2> QED BY <1>4 DEF Injection, IsInjective
<1>6. q \in Surjection(1 .. n, S)
  <2>1. Cardinality(1 .. n) = n
    BY <1>1, FS_Interval
  <2> HIDE DEF q
  <2> QED BY <1>5, <2>1, FS_Injection
<1>7. q \in Seq(S) /\ Len(q) = n
  <2> HIDE DEF q, n
  <2> QED BY <1>1, <1>4
<1>8. \A x \in S : \E i \in 1 .. n : q[i] = x
  <2> HIDE DEF q, n
  <2> QED BY <1>6 DEF Surjection
<1> HIDE DEF q, n
<1> QED BY <1>7, <1>8 DEF q, n


-----------------------------------------------------------------------------
(* Eliminating a variable.                                                 *)

With(l) == {c \in clauses : l \in c}
Entry(l, c) == [lit |-> l, others |-> c \ {l}]

\* Sequence q has an entry for each clause of C, and no other.
Keeps(q, C, l) ==
    /\ q \in Seq(ElimEntry)
    /\ \A i \in DOMAIN q : \E c \in C : q[i] = Entry(l, c)
    /\ \A c \in C : \E i \in DOMAIN q : q[i] = Entry(l, c)
    /\ \A c : C = {c} => Len(q) = 1

(* What mkElimClause keeps of clauses.                                     *)
LEMMA ElimClausesIs ==
    ASSUME NEW C, C \subseteq Clause, NEW l \in Lits
    PROVE  Keeps(ElimClauses(C, l), C, l)
<1> DEFINE S == {[lit |-> l, others |-> c \ {l}] : c \in C}
           q == SetToSeq(S)
           f == [c \in C |-> Entry(l, c)]
<1>1. S \subseteq ElimEntry /\ S = {Entry(l, c) : c \in C}
  BY DEF ElimEntry, Entry, Clause
<1>2. IsFiniteSet(C)
  <2>1. IsFiniteSet(Lits)
    BY LitsFinite
  <2> QED BY <2>1, FS_SUBSET, FS_Subset DEF Clause
<1>3. f \in Surjection(C, S)
  BY <1>1 DEF Surjection
<1>4. IsFiniteSet(S)
  <2> HIDE DEF f, S
  <2> QED BY <1>2, <1>3, FS_Surjection
<1>5. q \in Seq(S) /\ Len(q) = Cardinality(S) /\ \A x \in S : \E i \in 1 .. Len(q) : q[i] = x
  <2> HIDE DEF S
  <2> QED BY <1>4, SetToSeqIs
<1>6. ElimClauses(C, l) = q
  BY DEF ElimClauses
<1>7. q \in Seq(ElimEntry) /\ DOMAIN q = 1 .. Len(q) /\ \A i \in DOMAIN q : q[i] \in S
  <2> HIDE DEF q, S, f
  <2>1. q \in Seq(S)
    BY <1>5
  <2>2. Len(q) \in Nat /\ DOMAIN q = 1 .. Len(q) /\ q = [i \in 1 .. Len(q) |-> q[i]]
        /\ \A i \in 1 .. Len(q) : q[i] \in S
    BY <2>1
  <2>3. \A i \in 1 .. Len(q) : q[i] \in ElimEntry
    BY <1>1, <2>2
  <2>4. q \in [1 .. Len(q) -> ElimEntry]
    BY <2>2, <2>3, Zenon
  <2>5. q \in Seq(ElimEntry)
    BY <2>2, <2>4, SeqDef
  <2> QED BY <2>2, <2>5
<1>8. \A c : C = {c} => Len(q) = 1
  <2>1. ASSUME NEW c, C = {c} PROVE Len(q) = 1
    <3>1. S = {Entry(l, c)}
      BY <1>1, <2>1
    <3> HIDE DEF q, S
    <3> QED BY <1>5, <3>1, FS_Singleton
  <2> HIDE DEF q, S
  <2> QED BY <2>1
<1>9. \A c \in C : Entry(l, c) \in S
  BY <1>1
<1>10. \A x \in S : \E c \in C : x = Entry(l, c)
  BY <1>1
<1> HIDE DEF q, S
<1>11. \A i \in DOMAIN q : \E c \in C : q[i] = Entry(l, c)
  BY <1>7, <1>10
<1>12. \A c \in C : \E i \in DOMAIN q : q[i] = Entry(l, c)
  BY <1>5, <1>7, <1>9
<1> QED BY <1>6, <1>7, <1>8, <1>11, <1>12 DEF Keeps

(* What is kept of a variable: its clauses with one literal, and the other *)
(* literal by default.                                                     *)
LEMMA StoredIs ==
    ASSUME TypeOK, elim \in Vars
    PROVE  /\ Stored \in Seq(ElimEntry)
           /\ \E k \in {elim, -elim} : \E s \in Seq(ElimEntry) : \E e \in ElimEntry :
                 /\ Stored = s \o <<e>> /\ e = [lit |-> -k, others |-> {}]
                 /\ \A i \in DOMAIN s : \E c \in With(k) : s[i] = Entry(k, c)
                 /\ \A c \in With(k) : \E i \in DOMAIN s : s[i] = Entry(k, c)
<1>1. elim \in Lits /\ -elim \in Lits /\ -(-elim) = elim
  BY LitFacts
<1>2. Pos \subseteq Clause /\ Neg \subseteq Clause /\ Pos = With(elim) /\ Neg = With(-elim)
  BY DEF TypeOK, Pos, Neg, With
<1>3. ASSUME NEW k \in {elim, -elim}, NEW C, C = With(k), C \subseteq Clause,
             Stored = ElimClauses(C, k) \o ElimClauses({{-k}}, -k)
      PROVE  /\ Stored \in Seq(ElimEntry)
             /\ \E s \in Seq(ElimEntry) : \E e \in ElimEntry :
                 /\ Stored = s \o <<e>> /\ e = [lit |-> -k, others |-> {}]
                 /\ \A i \in DOMAIN s : \E c \in With(k) : s[i] = Entry(k, c)
                 /\ \A c \in With(k) : \E i \in DOMAIN s : s[i] = Entry(k, c)
  <2> DEFINE s == ElimClauses(C, k)
             d == ElimClauses({{-k}}, -k)
             e == [lit |-> -k, others |-> {}]
  <2>1. k \in Lits /\ -k \in Lits
    BY <1>1, <1>3
  <2>2. /\ s \in Seq(ElimEntry)
        /\ \A i \in DOMAIN s : \E c \in With(k) : s[i] = Entry(k, c)
        /\ \A c \in With(k) : \E i \in DOMAIN s : s[i] = Entry(k, c)
    <3>1. Keeps(s, C, k)
      BY <1>3, <2>1, ElimClausesIs
    <3> HIDE DEF s
    <3> QED BY <1>3, <3>1 DEF Keeps
  <2>3. /\ d \in Seq(ElimEntry) /\ Len(d) = 1
        /\ \A i \in DOMAIN d : d[i] = Entry(-k, {-k})
    <3>1. {{-k}} \subseteq Clause
      BY <2>1 DEF Clause
    <3>2. Keeps(d, {{-k}}, -k)
      BY <2>1, <3>1, ElimClausesIs
    <3> HIDE DEF d
    <3> QED BY <3>2 DEF Keeps
  <2>4. Entry(-k, {-k}) = e
    BY DEF Entry
  <2>5. e \in ElimEntry
    BY <2>1 DEF ElimEntry, Clause
  <2>6. d = <<e>>
    <3> HIDE DEF d, e
    <3> QED BY <2>3, <2>4, <2>5
  <2>7. Stored = s \o <<e>>
    BY <1>3, <2>6
  <2> HIDE DEF s, d, e
  <2>8. Stored \in Seq(ElimEntry)
    BY <2>2, <2>5, <2>7
  <2>9. e = [lit |-> -k, others |-> {}]
    BY DEF e
  <2> QED BY <2>2, <2>5, <2>7, <2>8, <2>9
<1>4. CASE Cardinality(Pos) > Cardinality(Neg)
  <2>1. Stored = ElimClauses(Neg, -elim) \o ElimClauses({{-(-elim)}}, -(-elim))
    BY <1>1, <1>4 DEF Stored
  <2> QED BY <1>2, <1>3, <2>1
<1>5. CASE ~ (Cardinality(Pos) > Cardinality(Neg))
  <2>1. Stored = ElimClauses(Pos, elim) \o ElimClauses({{-elim}}, -elim)
    BY <1>5 DEF Stored
  <2> QED BY <1>2, <1>3, <2>1
<1> QED BY <1>4, <1>5

\* m with literal l made true
Put(m, l) == [m EXCEPT ![Var(l)] = IF l > 0 THEN "l_True" ELSE "l_False"]

(* Only the literals of that variable are affected.                        *)
LEMMA PutIs ==
    ASSUME NEW m \in Valuations, NEW l \in Lits
    PROVE  /\ Put(m, l) \in Valuations
           /\ True(Put(m, l), l)
           /\ \A v \in Vars : v # Var(l) => Put(m, l)[v] = m[v]
<1>1. Var(l) \in Vars /\ l \in Int /\ l # 0 /\ Var(l) = IF l < 0 THEN -l ELSE l
  BY LitFacts DEF Var
<1>2. Put(m, l) \in Valuations /\ Put(m, l)[Var(l)] = IF l > 0 THEN "l_True" ELSE "l_False"
  BY <1>1 DEF Put, Valuations, Values
<1>3. True(Put(m, l), l)
  <2>1. CASE l > 0
    BY <1>1, <1>2, <2>1 DEF True, Value
  <2>2. CASE l < 0
    <3>1. ~ (l > 0)
      BY <1>1, <2>2
    <3> QED BY <1>1, <1>2, <2>2, <3>1 DEF True, Value
  <2> QED BY <1>1, <2>1, <2>2
<1>4. \A v \in Vars : v # Var(l) => Put(m, l)[v] = m[v]
  BY <1>1 DEF Put, Valuations
<1> QED BY <1>2, <1>3, <1>4

(* Where two assignments agree, so do literals.                            *)
LEMMA SameValue ==
    ASSUME NEW m \in Valuations, NEW a \in Valuations, NEW l \in Lits, a[Var(l)] = m[Var(l)]
    PROVE  Value(a, l) = Value(m, l)
<1>1. Var(l) \in Vars /\ l \in Int /\ l # 0 /\ Var(l) = IF l < 0 THEN -l ELSE l
  BY LitFacts DEF Var
<1>2. CASE l > 0
  BY <1>1, <1>2 DEF Value
<1>3. CASE l < 0
  <2>1. ~ (l > 0) /\ Var(l) = -l
    BY <1>1, <1>3
  <2> QED BY <2>1 DEF Value
<1> QED BY <1>1, <1>2, <1>3

Agrees(a, m) == a \in Valuations /\ \A v \in Vars : v # elim => a[v] = m[v]
Fires(m, e) == \A j \in e.others : Value(m, j) = "l_False"

\* What the variable is after the clauses kept from i on: true for k if one of
\* them needs it, and false by default.
Decided(a, m, k, s, i) ==
    /\ Agrees(a, m)
    /\ \/ True(a, k) /\ \E x \in i + 1 .. Len(s) : Fires(m, s[x])
       \/ True(a, -k) /\ \A x \in i + 1 .. Len(s) : ~ Fires(m, s[x])

(* One clause kept.                                                        *)
LEMMA MadeDecided ==
    ASSUME TypeOK, elim \in Vars, NEW k \in {elim, -elim}, NEW s \in Seq(ElimEntry),
           NEW i \in Nat, i + 1 \in DOMAIN s, NEW m \in Valuations, NEW a, Decided(a, m, k, s, i + 1),
           s[i + 1].lit = k, \A j \in s[i + 1].others : Var(j) # elim
    PROVE  Decided(Made(a, s[i + 1]), m, k, s, i)
<1> DEFINE e == s[i + 1]
           n == Len(s)
<1>1. n \in Nat /\ e \in ElimEntry /\ i + 1 \in 1 .. n
  OBVIOUS
<1>2. k \in Lits /\ -k \in Lits /\ Var(k) = elim
  BY LitFacts
<1>3. Agrees(a, m)
  BY DEF Decided
<1>4. \A j \in e.others : Value(a, j) = Value(m, j)
  <2>1. ASSUME NEW j \in e.others PROVE Value(a, j) = Value(m, j)
    <3>1. j \in Lits /\ Var(j) \in Vars /\ Var(j) # elim
      BY <1>1, LitFacts DEF ElimEntry, Clause
    <3>2. a[Var(j)] = m[Var(j)] /\ a \in Valuations
      BY <1>3, <3>1 DEF Agrees
    <3> QED BY <3>1, <3>2, SameValue
  <2> QED BY <2>1
<1>5. \A x : x \in i + 1 .. n <=> x = i + 1 \/ x \in i + 1 + 1 .. n
  BY <1>1
<1>6. CASE Fires(m, e)
  <2>1. Made(a, e) = Put(a, k)
    BY <1>4, <1>6 DEF Fires, Made, Put
  <2>2. Agrees(Put(a, k), m) /\ True(Put(a, k), k)
    BY <1>2, <1>3, PutIs DEF Agrees
  <2>3. i + 1 \in i + 1 .. n
    BY <1>1
  <2> QED BY <1>6, <2>1, <2>2, <2>3 DEF Decided
<1>7. CASE ~ Fires(m, e)
  <2>1. Made(a, e) = a
    BY <1>4, <1>7 DEF Fires, Made
  <2> QED BY <1>3, <1>5, <1>7, <2>1 DEF Decided
<1> QED BY <1>6, <1>7

(* All clauses kept.                                                       *)
LEMMA AllDecided ==
    ASSUME TypeOK, elim \in Vars, NEW k \in {elim, -elim}, NEW s \in Seq(ElimEntry),
           NEW e, e = [lit |-> -k, others |-> {}],
           \A i \in DOMAIN s : s[i].lit = k /\ \A j \in s[i].others : Var(j) # elim,
           NEW m \in Valuations, NEW g, IsExtension(g, s \o <<e>>, m)
    PROVE  Decided(g[0], m, k, s, 0)
<1> DEFINE n == Len(s)
<1>1. n \in Nat /\ DOMAIN s = 1 .. n
  OBVIOUS
<1>2. k \in Lits /\ -k \in Lits /\ Var(-k) = elim
  BY LitFacts
<1>3. e \in ElimEntry
  BY <1>2 DEF ElimEntry, Clause
<1> DEFINE t == <<e>>
<1>4. t \in Seq(ElimEntry) /\ IsExtension(g, s \o t, m) /\ Len(t) = 1 /\ t[1] = e
  BY <1>3
<1> HIDE DEF t
<1>5. PICK h : IsExtension(h, t, m) /\ h[0] = g[Len(s)]
  BY <1>4, ExtendedJoined
<1>6. PICK lo : IsExtension(lo, s, g[Len(s)]) /\ lo[0] = g[0]
  BY <1>4, ExtendedJoined
<1>7. g[n] = Put(m, -k)
  <2>1. GoesBack(h, t, 1, m)
    BY <1>4, <1>5 DEF IsExtension
  <2>2. h[1] = m /\ \A i \in 0 .. 1 - 1 : h[i] = Made(h[i + 1], t[i + 1])
    BY <2>1 DEF GoesBack
  <2>3. 0 \in 0 .. 1 - 1 /\ 0 + 1 = 1
    OBVIOUS
  <2>4. h[0] = Made(m, e)
    BY <1>4, <2>2, <2>3
  <2>5. Made(m, e) = Put(m, -k)
    BY DEF Made, Put
  <2> QED BY <1>5, <2>4, <2>5
<1>8. lo[n] = g[n] /\ \A i \in 0 .. n - 1 : lo[i] = Made(lo[i + 1], s[i + 1])
  BY <1>6 DEF IsExtension, GoesBack
<1> DEFINE T == {x \in 0 .. n : Decided(lo[n - x], m, k, s, n - x)}
<1>9. 0 \in T
  <2>1. 0 \in 0 .. n /\ n - 0 = n
    BY <1>1
  <2>2. Agrees(Put(m, -k), m) /\ True(Put(m, -k), -k)
    BY <1>2, PutIs DEF Agrees
  <2>3. n + 1 .. n = {}
    BY <1>1
  <2>4. Decided(lo[n], m, k, s, n)
    BY <1>7, <1>8, <2>2, <2>3 DEF Decided
  <2> QED BY <2>1, <2>4
<1>10. ASSUME NEW x \in 0 .. n - 1, x \in T PROVE x + 1 \in T
  <2> DEFINE i == n - (x + 1)
  <2>1. /\ x + 1 \in 0 .. n /\ i \in Nat /\ i \in 0 .. n - 1
        /\ i + 1 = n - x /\ i + 1 \in 1 .. n
    BY <1>1
  <2>2. Decided(lo[n - x], m, k, s, n - x)
    BY <1>10
  <2>3. Decided(lo[i + 1], m, k, s, i + 1)
    <3> HIDE DEF i, n
    <3> QED BY <2>1, <2>2
  <2>4. Decided(Made(lo[i + 1], s[i + 1]), m, k, s, i)
    <3> HIDE DEF i
    <3> QED BY <1>1, <2>1, <2>3, MadeDecided
  <2>5. Decided(lo[i], m, k, s, i)
    <3> HIDE DEF i
    <3> QED BY <1>8, <2>1, <2>4
  <2> QED BY <2>1, <2>5
<1>11. 0 .. n \subseteq T
  <2> HIDE DEF T, n
  <2> QED BY <1>1, <1>9, <1>10, Climb
<1>12. n \in 0 .. n /\ n - n = 0
  BY <1>1
<1>13. Decided(lo[n - n], m, k, s, n - n)
  <2> HIDE DEF n
  <2> QED BY <1>11, <1>12
<1> QED BY <1>6, <1>12, <1>13

(* The variable is what its clauses need, and those with the other literal *)
(* are satisfied by what the resolvents need.                              *)
LEMMA ResolventsSuffice ==
    ASSUME ShapeInv, Preprocessing, elim \in Vars, NEW k \in {elim, -elim},
           NEW m \in Total(Left \ {elim}), NEW a, Agrees(a, m),
           \/ True(a, k) /\ \E c \in With(k) : Fires(m, Entry(k, c))
           \/ True(a, -k) /\ \A c \in With(k) : ~ Fires(m, Entry(k, c)),
           SatAll(m, clauses \ (Pos \cup Neg)),
           \A p \in Merged : Sat(m, Resolvent(p[1], p[2]))
    PROVE  SatAll(a, clauses)
<1>1. k \in Lits /\ -k \in Lits /\ Var(k) = elim /\ Var(-k) = elim /\ {k, -k} = {elim, -elim}
  BY LitFacts
<1>2. \A l \in Lits : l # k /\ l # -k => Var(l) # elim
  BY <1>1, LitFacts
<1>3. m \in Valuations /\ a \in Valuations
  BY DEF Total, Agrees
<1>4. \A l \in Lits : Var(l) # elim => (True(a, l) <=> True(m, l))
  <2>1. ASSUME NEW l \in Lits, Var(l) # elim PROVE Value(a, l) = Value(m, l)
    <3>1. Var(l) \in Vars
      BY LitFacts
    <3>2. a[Var(l)] = m[Var(l)]
      BY <2>1, <3>1 DEF Agrees
    <3> QED BY <1>3, <3>2, SameValue
  <2> QED BY <2>1 DEF True
<1>5. ASSUME NEW c \in clauses, NEW l \in c, Var(l) # elim
      PROVE  l \in Lits /\ (True(m, l) \/ Value(m, l) = "l_False")
  <2>1. l \in Lits
    BY DEF ShapeInv, TypeOK, Clause
  <2>2. Var(l) \in Left \ {elim}
    BY <1>5 DEF ShapeInv, LeftOnly, VarsOf
  <2>3. m[Var(l)] # "l_Undef"
    BY <2>2 DEF Total
  <2> QED BY <1>3, <2>1, <2>3, ValueIs
<1>6. ASSUME NEW c \in clauses PROVE c \in Clause /\ \A l \in c : -l \notin c
  BY DEF ShapeInv, TypeOK, ClausesOK
<1>7. ASSUME NEW c \in clauses, NEW l \in c, True(a, l) PROVE Sat(a, c)
  BY <1>7 DEF Sat, True
<1>8. ASSUME NEW c \in clauses PROVE Sat(a, c)
  <2>1. CASE k \notin c /\ -k \notin c
    <3>1. c \in clauses \ (Pos \cup Neg)
      BY <1>1, <2>1 DEF Pos, Neg
    <3>2. PICK l \in c : True(m, l)
      BY <3>1 DEF SatAll, Sat, True
    <3>3. l \in Lits /\ Var(l) # elim
      BY <1>2, <1>6, <2>1 DEF Clause
    <3> QED BY <1>4, <1>7, <3>2, <3>3
  <2>2. CASE k \in c
    <3>1. CASE True(a, k)
      BY <1>7, <2>2, <3>1
    <3>2. CASE ~ Fires(m, Entry(k, c))
      <4>1. PICK l \in c \ {k} : Value(m, l) # "l_False"
        BY <3>2 DEF Fires, Entry
      <4>2. l \in Lits /\ l # -k
        BY <1>6, <2>2, <4>1 DEF Clause
      <4>3. Var(l) # elim
        BY <1>2, <4>1, <4>2
      <4>4. True(m, l)
        BY <1>5, <4>1, <4>3
      <4> QED BY <1>4, <1>7, <4>2, <4>3, <4>4
    <3>3. c \in With(k)
      BY <2>2 DEF With
    <3> QED BY <3>1, <3>2, <3>3
  <2>3. CASE -k \in c
    <3>1. CASE True(a, -k)
      BY <1>7, <2>3, <3>1
    <3>2. ASSUME NEW b \in With(k), Fires(m, Entry(k, b)) PROVE Sat(a, c)
      <4>1. b \in clauses /\ k \in b
        BY DEF With
      <4>2. \A l \in b \ {k} : Value(m, l) = "l_False"
        BY <3>2 DEF Fires, Entry
      <4> DEFINE R == (b \cup c) \ {k, -k}
      <4>3. CASE Contradictory(R)
        <5>1. PICK x \in R : -x \in R
          BY <4>3 DEF Contradictory
        <5>2. x \in Lits /\ -x \in Lits /\ -(-x) = x
          BY <1>6, <4>1, LitFacts DEF Clause
        <5>3. \E y \in {x, -x} : y \in b /\ -y \in c
          BY <1>6, <4>1, <5>1, <5>2
        <5>4. PICK y \in {x, -x} : y \in b /\ -y \in c
          BY <5>3
        <5>5. y \in R /\ -y \in R /\ y \in Lits /\ -y \in Lits
          BY <5>1, <5>2, <5>4
        <5>6. Value(m, y) = "l_False"
          BY <4>2, <5>4, <5>5
        <5>7. True(m, -y)
          BY <1>3, <5>5, <5>6, ValueIs
        <5>8. Var(-y) # elim
          BY <1>2, <5>5
        <5> QED BY <1>4, <1>7, <5>4, <5>5, <5>7, <5>8
      <4>4. CASE ~ Contradictory(R)
        <5>1. \E p \in Merged : Resolvent(p[1], p[2]) = R
          <6>1. CASE k = elim
            <7>1. <<b, c>> \in Pos \X Neg /\ Resolvent(b, c) = R
              BY <1>1, <2>3, <4>1, <6>1 DEF Pos, Neg, Resolvent
            <7>2. <<b, c>> \in Merged
              BY <4>4, <7>1 DEF Merged
            <7> QED BY <7>1, <7>2
          <6>2. CASE k = -elim
            <7>1. <<c, b>> \in Pos \X Neg /\ Resolvent(c, b) = R
              <8>1. -k = elim
                BY <6>2, LitFacts
              <8> QED BY <1>1, <2>3, <4>1, <6>2, <8>1 DEF Pos, Neg, Resolvent
            <7>2. <<c, b>> \in Merged
              BY <4>4, <7>1 DEF Merged
            <7> QED BY <7>1, <7>2
          <6> QED BY <6>1, <6>2
        <5>2. PICK l \in R : True(m, l)
          BY <5>1 DEF Sat, True
        <5>3. l \notin b
          BY <4>2, <5>2 DEF True
        <5>4. l \in c /\ l \in Lits
          BY <1>6, <5>2, <5>3 DEF Clause
        <5>5. Var(l) # elim
          BY <1>2, <5>2, <5>4
        <5> QED BY <1>4, <1>7, <5>2, <5>4, <5>5
      <4> QED BY <4>3, <4>4
    <3> QED BY <3>1, <3>2
  <2> QED BY <2>1, <2>2, <2>3
<1> QED BY <1>8 DEF SatAll

(* Resolvents follow.                                                      *)
LEMMA ResolventsFollow ==
    ASSUME ShapeInv, Preprocessing, elim \in Vars, NEW m \in Assignments, SatAll(m, clauses),
           NEW p \in Merged
    PROVE  Sat(m, Resolvent(p[1], p[2]))
<1>1. elim \in Lits /\ -elim \in Lits /\ Var(elim) = elim
  BY LitFacts
<1>2. m \in Valuations /\ m[elim] # "l_Undef"
  BY DEF Assignments, Valuations, Values
<1>3. True(m, elim) \/ True(m, -elim)
  BY <1>1, <1>2, ValueIs
<1>4. p[1] \in clauses /\ elim \in p[1] /\ p[2] \in clauses /\ -elim \in p[2]
  BY DEF Merged, Pos, Neg
<1>5. -elim \notin p[1] /\ elim \notin p[2]
  <2>1. -elim \notin p[1]
    BY <1>4 DEF ShapeInv, ClausesOK
  <2>2. -(-elim) = elim /\ -(-elim) \notin p[2]
    BY <1>1, <1>4, LitFacts DEF ShapeInv, ClausesOK
  <2> QED BY <2>1, <2>2
<1>6. CASE True(m, elim)
  <2>1. PICK l \in p[2] : True(m, l)
    BY <1>4 DEF SatAll, Sat, True
  <2>2. l # -elim /\ l # elim
    BY <1>1, <1>2, <1>5, <1>6, <2>1, NotBoth
  <2> QED BY <2>1, <2>2 DEF Resolvent, Sat, True
<1>7. CASE True(m, -elim)
  <2>1. PICK l \in p[1] : True(m, l)
    BY <1>4 DEF SatAll, Sat, True
  <2>2. l # -elim /\ l # elim
    BY <1>1, <1>2, <1>5, <1>7, <2>1, NotBoth
  <2> QED BY <2>1, <2>2 DEF Resolvent, Sat, True
<1> QED BY <1>3, <1>6, <1>7

(* Without the variable, the clauses are as they have to be.               *)
LEMMA eliminateVarShape ==
    ASSUME ShapeInv, eliminateVar
    PROVE  ShapeInv'
<1>1. /\ pc = "var" /\ elim \notin Assigned /\ elim \notin frozen
      /\ eliminated' = eliminated \cup {elim}
      /\ elimclauses' = elimclauses \o Stored
      /\ clauses' = clauses \ (Pos \cup Neg)
      /\ elim_heap' = MayEliminate(UNION {VarsOf(c) : c \in Pos \cup Neg})
      /\ to_add' = {Resolvent(p[1], p[2]) : p \in Merged}
      /\ pc' = "resolve" /\ elim' = 0
      /\ UNCHANGED <<opt, given, frozen, ok, trail, bwdsub_assigns, cur, todo>>
  BY DEF eliminateVar, Eliminable, user
<1>2. /\ elim \in Vars /\ elim \notin eliminated /\ Preprocessing /\ ok /\ to_add = {} /\ cur = {}
  <2>1. elim \in Vars
    BY <1>1, SimpSolverAssumption DEF ShapeInv, TypeOK, PhaseOK, Vars
  <2> QED BY <1>1, <2>1 DEF ShapeInv, TypeOK, PhaseOK, Preprocessing
<1>3. Pos \subseteq clauses /\ Neg \subseteq clauses
  BY DEF Pos, Neg
<1>4. \A c \in clauses : c \in Clause /\ VarsOf(c) \subseteq Left /\ VarsOf(c) \subseteq Vars
  BY DEF ShapeInv, TypeOK, LeftOnly, Left
<1>5. ASSUME NEW c \in Clause, elim \notin c, -elim \notin c PROVE elim \notin VarsOf(c)
  BY <1>2, <1>5, LitFacts DEF Clause, VarsOf
<1>6. \A c \in clauses' : c \in clauses /\ elim \notin VarsOf(c)
  BY <1>1, <1>4, <1>5 DEF Pos, Neg
<1>7. ASSUME NEW c \in to_add'
      PROVE  c \in Clause /\ VarsOf(c) \subseteq Left \ {elim} /\ \A l \in c : -l \notin c
  <2>1. PICK p \in Merged : c = Resolvent(p[1], p[2])
    BY <1>1
  <2>2. p[1] \in clauses /\ p[2] \in clauses /\ ~ Contradictory(Resolvent(p[1], p[2]))
    BY <1>3, <2>1 DEF Merged
  <2>3. c \subseteq p[1] \cup p[2] /\ elim \notin c /\ -elim \notin c
    BY <2>1 DEF Resolvent
  <2>4. c \in Clause
    BY <1>4, <2>2, <2>3 DEF Clause
  <2>5. VarsOf(c) \subseteq Left
    BY <1>4, <2>2, <2>3 DEF VarsOf
  <2> QED BY <1>5, <2>1, <2>2, <2>3, <2>4, <2>5 DEF Contradictory
<1>8. Left' = Left \ {elim}
  BY <1>1 DEF Left
<1>9. TypeOK'
  <2>1. elimclauses' \in Seq(ElimEntry)
    <3>1. Stored \in Seq(ElimEntry) /\ elimclauses \in Seq(ElimEntry)
      BY <1>2, StoredIs DEF ShapeInv, TypeOK
    <3> QED BY <1>1, <3>1
  <2>2. elim_heap' \subseteq Vars
    BY <1>1, <1>3, <1>4 DEF MayEliminate, ShapeInv, TypeOK
  <2>3. eliminated' \subseteq Vars /\ clauses' \subseteq Clause /\ to_add' \subseteq Clause
    BY <1>1, <1>2, <1>4, <1>6, <1>7 DEF ShapeInv, TypeOK
  <2>4. 0 \in 0 .. MaxVar
    BY LitFacts
  <2> QED BY <1>1, <2>1, <2>2, <2>3, <2>4 DEF ShapeInv, TypeOK, Preprocessing
<1>10. LeftOnly'
  <2>1. frozen' \cup Assigned' \subseteq Left \ {elim}
    BY <1>1 DEF ShapeInv, LeftOnly, Assigned
  <2>2. \A c \in clauses' \cup to_add' : VarsOf(c) \subseteq Left \ {elim}
    BY <1>4, <1>6, <1>7
  <2> QED BY <1>8, <2>1, <2>2 DEF LeftOnly
<1>11. PhaseOK'
  <2>1. 0 \notin eliminated'
    BY <1>1, <1>2, LitFacts DEF ShapeInv, TypeOK
  <2> QED BY <1>1, <1>2, <2>1 DEF PhaseOK, Preprocessing
<1>12. ClausesOK'
  BY <1>2, <1>6, <1>7 DEF ShapeInv, ClausesOK
<1> QED BY <1>9, <1>10, <1>11, <1>12 DEF ShapeInv

(* An assignment of what is left gives the variable a value that satisfies *)
(* its clauses: the one that extendModel finds.                            *)
LEMMA StoredRestores ==
    ASSUME ShapeInv, pc = "var", elim \in Vars, elim \notin eliminated, elim \notin Assigned,
           NEW m \in Partial(Left \ {elim}), TrueAll(m, trail),
           SatAll(m, clauses \ (Pos \cup Neg)),
           \A p \in Merged : Sat(m, Resolvent(p[1], p[2])),
           NEW g, IsExtension(g, Stored, m)
    PROVE  g[0] \in Partial(Left) /\ Agrees(g[0], m) /\ SatAll(g[0], clauses) /\ TrueAll(g[0], trail)
<1>1. TypeOK /\ Preprocessing
  BY DEF ShapeInv, Preprocessing
<1>2. PICK k \in {elim, -elim}, s \in Seq(ElimEntry), e \in ElimEntry :
         /\ Stored = s \o <<e>> /\ e = [lit |-> -k, others |-> {}]
         /\ \A i \in DOMAIN s : \E c \in With(k) : s[i] = Entry(k, c)
         /\ \A c \in With(k) : \E i \in DOMAIN s : s[i] = Entry(k, c)
  BY <1>1, StoredIs
<1>3. k \in Lits /\ -k \in Lits /\ Var(k) = elim /\ Var(-k) = elim
  BY LitFacts
<1>4. \A i \in DOMAIN s : s[i].lit = k /\ \A j \in s[i].others : Var(j) # elim
  <2>1. ASSUME NEW i \in DOMAIN s PROVE s[i].lit = k /\ \A j \in s[i].others : Var(j) # elim
    <3>1. PICK c \in With(k) : s[i] = Entry(k, c)
      BY <1>2
    <3>2. c \in clauses /\ k \in c
      BY DEF With
    <3>3. c \subseteq Lits /\ -k \notin c
      BY <1>1, <3>2 DEF ShapeInv, TypeOK, ClausesOK, Clause
    <3>4. s[i].lit = k /\ s[i].others = c \ {k}
      BY <3>1 DEF Entry
    <3> QED BY <1>3, <3>3, <3>4, LitFacts
  <2> QED BY <2>1
<1>5. m \in Valuations /\ m \in Total(Left \ {elim})
  BY DEF Partial, Total, Left
<1>6. Decided(g[0], m, k, s, 0)
  <2>1. IsExtension(g, s \o <<e>>, m)
    BY <1>2
  <2> QED BY <1>1, <1>2, <1>4, <1>5, <2>1, AllDecided
<1>7. DOMAIN s = 0 + 1 .. Len(s)
  OBVIOUS
<1>8. \/ True(g[0], k) /\ \E c \in With(k) : Fires(m, Entry(k, c))
      \/ True(g[0], -k) /\ \A c \in With(k) : ~ Fires(m, Entry(k, c))
  <2>1. CASE True(g[0], k) /\ \E x \in DOMAIN s : Fires(m, s[x])
    BY <1>2, <2>1
  <2>2. CASE True(g[0], -k) /\ \A x \in DOMAIN s : ~ Fires(m, s[x])
    BY <1>2, <2>2
  <2> QED BY <1>6, <1>7, <2>1, <2>2 DEF Decided
<1>9. Agrees(g[0], m) /\ g[0] \in Valuations
  BY <1>6 DEF Decided, Agrees
<1>10. SatAll(g[0], clauses)
  BY <1>1, <1>5, <1>8, <1>9, ResolventsSuffice
<1>11. g[0][elim] # "l_Undef"
  <2>1. \A l \in Lits : Var(l) = elim /\ True(g[0], l) => g[0][elim] # "l_Undef"
    BY <1>9, ValueIs DEF True
  <2> QED BY <1>3, <1>8, <2>1
<1>12. g[0] \in Partial(Left)
  <2>1. \A v \in Vars : v # elim => (g[0][v] = "l_Undef" <=> v \notin Left)
    BY <1>9 DEF Agrees, Partial
  <2>2. elim \in Left
    BY DEF Left
  <2> QED BY <1>9, <1>11, <2>1, <2>2 DEF Partial
<1>13. TrueAll(g[0], trail)
  <2>1. ASSUME NEW l \in trail PROVE True(g[0], l)
    <3>1. l \in Lits /\ Var(l) # elim /\ Var(l) \in Vars
      BY LitFacts DEF ShapeInv, TypeOK, Assigned
    <3>2. Value(g[0], l) = Value(m, l)
      BY <1>5, <1>9, <3>1, SameValue DEF Agrees
    <3> QED BY <3>2 DEF TrueAll, True
  <2> QED BY <2>1 DEF TrueAll
<1> QED BY <1>9, <1>10, <1>12, <1>13

(* The models over what is left stay, and are extended.                    *)
LEMMA eliminateVarMeans ==
    ASSUME SimpInv, eliminateVar
    PROVE  Entailed' /\ Extendable' /\ ModelExtended'
<1>1. /\ pc = "var" /\ elim \notin Assigned
      /\ eliminated' = eliminated \cup {elim}
      /\ elimclauses' = elimclauses \o Stored
      /\ clauses' = clauses \ (Pos \cup Neg)
      /\ to_add' = {Resolvent(p[1], p[2]) : p \in Merged}
      /\ UNCHANGED <<given, model, ok, trail>>
  BY DEF eliminateVar, Eliminable, user
<1>2. /\ elim \in Vars /\ elim \notin eliminated /\ Preprocessing /\ ok /\ to_add = {}
      /\ ShapeInv /\ TypeOK /\ elimclauses \in Seq(ElimEntry) /\ Stored \in Seq(ElimEntry)
  <2>1. ShapeInv /\ TypeOK
    BY DEF SimpInv, ShapeInv
  <2>2. elim \in Vars
    BY <1>1, <2>1, SimpSolverAssumption DEF ShapeInv, TypeOK, PhaseOK, Vars
  <2> QED BY <1>1, <2>1, <2>2, StoredIs DEF ShapeInv, TypeOK, PhaseOK, Preprocessing
<1>3. Left' = Left \ {elim} /\ elim \in Left
  BY <1>1, <1>2 DEF Left
<1>4. Entailed'
  <2>1. ASSUME NEW n \in Assignments, SatAll(n, given) PROVE n \in Models'
    <3>1. n \in Models
      BY <2>1 DEF SimpInv, Entailed
    <3>2. SatAll(n, clauses) /\ TrueAll(n, trail)
      BY <3>1 DEF Models, SatAll
    <3>3. \A c \in to_add' : Sat(n, c)
      BY <1>1, <1>2, <3>2, ResolventsFollow
    <3>4. SatAll(n, clauses' \cup to_add')
      BY <1>1, <3>2, <3>3 DEF SatAll
    <3>5. n \in Total(Left)'
      BY <1>3, <3>1 DEF Models, Total
    <3> QED BY <1>1, <1>2, <3>2, <3>4, <3>5 DEF Models
  <2> QED BY <1>1, <2>1 DEF Entailed
<1>5. Extendable'
  <2>1. ASSUME NEW m, m \in Models', m \in Partial(Left \ {elim})
        PROVE  Extends(ExtendedOver(elimclauses', m), m, Left \ {elim})
               /\ SatAll(ExtendedOver(elimclauses', m), given)
    <3>1. /\ SatAll(m, clauses \ (Pos \cup Neg)) /\ TrueAll(m, trail)
          /\ \A p \in Merged : Sat(m, Resolvent(p[1], p[2]))
      BY <1>1, <2>1 DEF Models, SatAll
    <3>2. m \in Valuations /\ elimclauses \o Stored \in Seq(ElimEntry)
      BY <1>2, <2>1 DEF Partial
    <3>3. PICK g : IsExtension(g, elimclauses \o Stored, m)
      BY <3>2, ExtensionExists
    <3>4. ExtendedOver(elimclauses', m) = g[0]
      BY <1>1, <3>2, <3>3, ExtendedIs
    <3> DEFINE x == g[Len(elimclauses)]
    <3>5. PICK h : IsExtension(h, Stored, m) /\ h[0] = x
      BY <1>2, <3>3, ExtendedJoined
    <3>6. PICK lo : IsExtension(lo, elimclauses, x) /\ lo[0] = g[0]
      BY <1>2, <3>3, ExtendedJoined
    <3>7. x \in Partial(Left) /\ Agrees(x, m) /\ SatAll(x, clauses) /\ TrueAll(x, trail)
      <4> HIDE DEF x
      <4> QED BY <1>1, <1>2, <2>1, <3>1, <3>5, StoredRestores
    <3>8. x \in Models
      <4> HIDE DEF x
      <4>1. x \in Total(Left)
        BY <3>7 DEF Partial, Total, Left
      <4> QED BY <1>2, <3>7, <4>1 DEF Models
    <3>9. Extended(x) = g[0]
      <4> HIDE DEF x
      <4>1. ExtendedOver(elimclauses, x) = lo[0]
        BY <1>2, <3>6, ExtendedIs
      <4> QED BY <3>6, <4>1, ExtendedAt
    <3>10. Extends(g[0], x, Left) /\ SatAll(g[0], given)
      <4> HIDE DEF x
      <4> QED BY <3>7, <3>8, <3>9 DEF SimpInv, Extendable
    <3>11. Extends(g[0], m, Left \ {elim})
      <4> HIDE DEF x
      <4>1. \A v \in Left \ {elim} : x[v] = m[v]
        BY <3>7 DEF Agrees, Left
      <4> QED BY <3>10, <4>1 DEF Extends
    <3> QED BY <3>4, <3>10, <3>11
  <2>2. \A m : Extended(m)' = ExtendedOver(elimclauses', m)
    BY ExtendedAt
  <2> QED BY <1>1, <1>3, <2>1, <2>2 DEF Extendable
<1>6. ModelExtended'
  BY <1>1 DEF SimpInv, ModelExtended
<1> QED BY <1>4, <1>5, <1>6

-----------------------------------------------------------------------------
(* Every step keeps the invariant.                                         *)

(* What the core solver finds is an assignment of what is left, and        *)
(* becomes one of everything.                                              *)
LEMMA solveKeeps ==
    ASSUME SimpInv, solve
    PROVE  SimpInv'
<1>1. /\ pc = "solve" /\ pc' = "idle" /\ ShapeInv
      /\ IF ok /\ Found # {} THEN \E m \in Found : model' = Extended(m) ELSE model' = <<>>
      /\ UNCHANGED <<opt, given, frozen, ok, clauses, trail, to_add, elim_heap, elimclauses,
                     eliminated, bwdsub_assigns, elim, cur, todo>>
  BY DEF solve, store, SimpInv
<1>2. to_add = {}
  BY <1>1 DEF ShapeInv, PhaseOK
<1>3. ShapeInv'
  <2>1. TypeOK' /\ PhaseOK' /\ ~ Preprocessing'
    BY <1>1 DEF ShapeInv, TypeOK, PhaseOK, Preprocessing
  <2> QED BY <1>1, <2>1, MoveShape
<1>4. Models' = Models /\ Left' = Left
  BY <1>1 DEF Models, Left
<1>5. \A m : Extended(m)' = Extended(m)
  BY <1>1 DEF Extended
<1>6. Entailed' /\ Extendable'
  BY <1>1, <1>4, <1>5 DEF SimpInv, Entailed, Extendable
<1>7. ModelExtended'
  <2>1. CASE ok /\ Found # {}
    <3>1. PICK m \in Found : model' = Extended(m)
      BY <1>1, <2>1
    <3>2. m \in Partial(Left) /\ m \in Total(Left)
      BY DEF Found, Partial, Total, Left, Valuations
    <3>3. SatAll(m, clauses \cup to_add) /\ TrueAll(m, trail)
      BY <1>2 DEF Found, SatAll, TrueAll, Sat, True
    <3>4. SatAll(Extended(m), given)
      BY <2>1, <3>2, <3>3 DEF SimpInv, Extendable, Models
    <3> QED BY <1>1, <3>1, <3>4 DEF ModelExtended, SatAll
  <2>2. CASE ~ (ok /\ Found # {})
    BY <1>1, <2>2 DEF ModelExtended
  <2> QED BY <2>1, <2>2
<1> QED BY <1>3, <1>6, <1>7 DEF SimpInv

(* A clause added later says the same of the assignments given and of those*)
(* that are left: it names frozen variables only.                          *)
LEMMA addClauseLaterKeeps ==
    ASSUME SimpInv, addClauseLater
    PROVE  SimpInv'
<1>1. PICK c \in Later \ given :
         VarsOf(c) \subseteq frozen /\ given' = given \cup {c} /\ to_add' = {c}
  BY DEF addClauseLater
<1>2. /\ pc = "idle" /\ pc' = "later" /\ model' = <<>> /\ ShapeInv
      /\ UNCHANGED <<opt, frozen, ok, clauses, trail, elim_heap, elimclauses, eliminated,
                     bwdsub_assigns, elim, cur, todo>>
  BY DEF addClauseLater, store, SimpInv
<1>3. to_add = {} /\ c \in Clause /\ VarsOf(c) \subseteq Left /\ Left' = Left
  BY <1>1, <1>2, SimpSolverAssumption DEF ShapeInv, PhaseOK, LeftOnly, Clause, Left
<1>4. ShapeInv'
  <2>1. TypeOK'
    BY <1>1, <1>2, <1>3 DEF ShapeInv, TypeOK, Preprocessing
  <2>2. PhaseOK'
    BY <1>1, <1>2 DEF ShapeInv, PhaseOK, Preprocessing
  <2>3. LeftOnly'
    BY <1>1, <1>2, <1>3 DEF ShapeInv, LeftOnly, Assigned
  <2>4. ClausesOK'
    BY <1>2 DEF ShapeInv, ClausesOK, Preprocessing
  <2> QED BY <2>1, <2>2, <2>3, <2>4 DEF ShapeInv
<1>5. \A m : m \in Models' <=> m \in Models /\ Sat(m, c)
  BY <1>1, <1>2, <1>3 DEF Models, SatAll
<1>6. Entailed'
  <2>1. ASSUME NEW n \in Assignments, SatAll(n, given') PROVE n \in Models'
    <3>1. SatAll(n, given) /\ Sat(n, c)
      BY <1>1, <2>1 DEF SatAll
    <3> QED BY <1>5, <3>1 DEF SimpInv, Entailed
  <2> QED BY <2>1 DEF Entailed
<1>7. Extendable'
  <2>1. \A m : Extended(m)' = Extended(m)
    BY <1>2 DEF Extended
  <2>2. ASSUME NEW m, m \in Models, Sat(m, c), m \in Partial(Left)
        PROVE  Extends(Extended(m), m, Left) /\ SatAll(Extended(m), given')
    <3>1. Extends(Extended(m), m, Left) /\ SatAll(Extended(m), given)
      BY <2>2 DEF SimpInv, Extendable
    <3> DEFINE x == Extended(m)
    <3>2. PICK l \in c : True(m, l)
      BY <2>2 DEF Sat, True
    <3>3. l \in Lits /\ Var(l) \in Left
      BY <1>3 DEF Clause, VarsOf
    <3>4. x \in Valuations /\ m \in Valuations /\ x[Var(l)] = m[Var(l)]
      BY <2>2, <3>1, <3>3 DEF Extends, Partial, Assignments, Valuations, Values
    <3>5. True(x, l)
      <4> HIDE DEF x
      <4> QED BY <3>2, <3>3, <3>4, SameValue DEF True
    <3>6. Sat(x, c)
      <4> HIDE DEF x
      <4> QED BY <3>2, <3>5 DEF Sat, True
    <3> HIDE DEF x
    <3> QED BY <1>1, <3>1, <3>6 DEF SatAll, x
  <2> QED BY <1>3, <1>5, <2>1, <2>2 DEF Extendable
<1>8. ModelExtended'
  BY <1>2 DEF ModelExtended
<1> QED BY <1>4, <1>6, <1>7, <1>8 DEF SimpInv

(* Nothing is known yet, and the user's clauses are still to be added.     *)
LEMMA SimpInvInit == Init => SimpInv
<1> SUFFICES ASSUME Init PROVE SimpInv
  OBVIOUS
<1>1. PICK P \in Problems : given = P.clauses /\ frozen = P.frozen
  BY DEF Init
<1>2. /\ given \subseteq Clause /\ frozen \subseteq Vars /\ \A c \in given : \A l \in c : -l \notin c
  BY <1>1, SimpSolverAssumption DEF Clause
<1>3. Left = Vars
  BY DEF Init, Left
<1>4. TypeOK
  BY <1>2, LitFacts, SimpSolverAssumption DEF Init, TypeOK, Preprocessing, Clause
<1>5. LeftOnly
  BY <1>2, <1>3, LitFacts DEF Init, LeftOnly, Assigned, VarsOf, Clause
<1>6. PhaseOK /\ ClausesOK
  BY <1>2 DEF Init, PhaseOK, ClausesOK, Preprocessing
<1>7. Entailed
  <2>1. Assignments \subseteq Total(Left)
    BY <1>3 DEF Assignments, Total, Valuations, Values
  <2> QED BY <2>1 DEF Init, Entailed, Models, SatAll, TrueAll
<1>8. Extendable
  <2>1. ASSUME NEW m \in Models, m \in Partial(Left)
        PROVE  Extends(Extended(m), m, Left) /\ SatAll(Extended(m), given)
    <3>1. elimclauses = <<>> /\ m \in Valuations
      BY <2>1 DEF Init, Partial
    <3>2. <<>> \in Seq(ElimEntry) /\ Len(<<>>) = 0
      OBVIOUS
    <3>3. PICK g : IsExtension(g, <<>>, m)
      BY <3>1, <3>2, ExtensionExists
    <3>4. g[0] = m
      BY <3>2, <3>3 DEF IsExtension, GoesBack
    <3>5. Extended(m) = m
      BY <3>1, <3>2, <3>3, <3>4, ExtendedIs, ExtendedAt
    <3>6. m \in Assignments
      <4>1. \A v \in Vars : m[v] \in {"l_True", "l_False"}
        BY <1>3, <2>1, <3>1 DEF Partial, Valuations, Values
      <4> QED BY <3>1, <4>1 DEF Assignments, Valuations
    <3>7. SatAll(m, given)
      BY <2>1 DEF Models, Init, SatAll
    <3> QED BY <3>5, <3>6, <3>7 DEF Extends
  <2> QED BY <2>1 DEF Extendable
<1>9. ModelExtended
  BY DEF Init, ModelExtended
<1> QED BY <1>4, <1>5, <1>6, <1>7, <1>8, <1>9 DEF SimpInv, ShapeInv

(* Every step.                                                             *)
LEMMA SimpInvNext == SimpInv /\ [Next]_vars => SimpInv'
<1> SUFFICES ASSUME SimpInv, [Next]_vars PROVE SimpInv'
  OBVIOUS
<1>1. ShapeInv
  BY DEF SimpInv
<1>2. ASSUME ShapeInv', Models' = Models, given' = given, eliminated' = eliminated,
             elimclauses' = elimclauses, model' = model
      PROVE  SimpInv'
  BY <1>2, SameMeans DEF SimpInv
<1>3. CASE addClause
  BY <1>1, <1>2, <1>3, addClauseShape, addClauseMeans DEF addClause, user, store
<1>4. CASE Added \/ Gather \/ NextVar \/ NoMoreVars \/ Eliminated \/ CheckNext
           \/ Checked \/ CheckDone \/ AsymmDone \/ KeepVar
  <2>1. UNCHANGED <<given, eliminated, elimclauses, model>>
    BY <1>4 DEF Added, Gather, NextVar, NoMoreVars, Eliminated, CheckNext, Checked, CheckDone,
                AsymmDone, KeepVar, user, store
  <2> QED BY <1>1, <1>2, <1>4, <2>1, MovesKeep
<1>5. CASE CheckOne
  BY <1>1, <1>2, <1>5, CheckOneKeeps DEF CheckOne, user, store
<1>6. CASE Asymm
  BY <1>1, <1>2, <1>6, AsymmKeeps DEF Asymm, user, store
<1>7. CASE eliminateVar
  BY <1>1, <1>7, eliminateVarShape, eliminateVarMeans DEF SimpInv
<1>8. CASE solve
  BY <1>8, solveKeeps
<1>9. CASE addClauseLater
  BY <1>9, addClauseLaterKeeps
<1>10. CASE UNCHANGED vars
  <2>1. UNCHANGED <<opt, given, frozen, ok, clauses, trail, to_add, elim_heap, eliminated,
                    elimclauses, bwdsub_assigns, pc, elim, cur, todo, model>>
    BY <1>10 DEF vars
  <2>2. TypeOK' /\ PhaseOK' /\ Preprocessing' = Preprocessing
    BY <1>1, <2>1 DEF ShapeInv, TypeOK, PhaseOK, Preprocessing
  <2>3. ShapeInv'
    BY <1>1, <2>1, <2>2, MoveShape
  <2> QED BY <1>2, <2>1, <2>3, StillMeans
<1> QED BY <1>3, <1>4, <1>5, <1>6, <1>7, <1>8, <1>9, <1>10 DEF Next, Work

(* The invariant of the preprocessor.                                      *)
THEOREM SimpInvHolds == Spec => []SimpInv
BY SimpInvInit, SimpInvNext, PTL DEF Spec

(* Whatever was removed, shortened and eliminated: a model that solve      *)
(* returns satisfies all clauses that the user ever gave (extendModel).    *)
THEOREM ModelsExtended == Spec => []ModelExtended
<1>1. SimpInv => ModelExtended
  BY DEF SimpInv
<1> QED BY <1>1, SimpInvHolds, PTL


-----------------------------------------------------------------------------
(* The models over the variables that are left.                            *)

\* Every clause is short enough to be checked against the literals known.  (The
\* default limit is 1000 literals.)
AllChecked == subsumption_lim = -1 \/ MaxVar < subsumption_lim

\* Where the trail was checked, clauses have no variable with a value.
Cleared ==
    Preprocessing =>
       \A l \in bwdsub_assigns, c \in clauses :
          Var(l) \in VarsOf(c) => pc = "check" /\ cur = {l} /\ c \in todo

(* A clause has no variable twice.                                         *)
LEMMA ClauseSize ==
    ASSUME NEW c, c \in Clause, \A l \in c : -l \notin c
    PROVE  Cardinality(c) \in Nat /\ Cardinality(c) <= MaxVar
<1> DEFINE f == [l \in c |-> Var(l)]
<1>1. f \in [c -> Vars] /\ \A k, l \in c : Var(k) = Var(l) => k = l
  BY LitFacts DEF Clause
<1>2. f \in Injection(c, Vars)
  <2>1. \A l \in c : f[l] = Var(l)
    OBVIOUS
  <2> HIDE DEF f
  <2>2. \A k, l \in c : f[k] = f[l] => k = l
    BY <1>1, <2>1
  <2> QED BY <1>1, <2>2 DEF Injection, IsInjective
<1>3. IsFiniteSet(Vars) /\ Cardinality(Vars) = MaxVar
  BY LitFacts, FS_Interval DEF Vars
<1>4. Cardinality(c) <= MaxVar
  <2> HIDE DEF f
  <2> QED BY <1>2, <1>3, FS_Injection
<1>5. IsFiniteSet(c)
  BY LitsFinite DEF Clause
<1> QED BY <1>4, <1>5, FS_CardinalityType

(* Clauses that are parts of those before, when nothing is checked.        *)
LEMMA ClearedStays ==
    ASSUME Cleared, UNCHANGED bwdsub_assigns, Preprocessing' => Preprocessing,
           Preprocessing' => pc # "check" \/ cur = {},
           \A c \in clauses' : \/ \E d \in clauses : VarsOf(c) \subseteq VarsOf(d)
                               \/ \A l \in bwdsub_assigns : Var(l) \notin VarsOf(c)
    PROVE  Cleared'
<1>1. Preprocessing' => \A l \in bwdsub_assigns, c \in clauses : Var(l) \notin VarsOf(c)
  BY DEF Cleared
<1> QED BY <1>1 DEF Cleared

(* Checking a literal takes its variable out of the clauses to be visited. *)
LEMMA CheckOneClears ==
    ASSUME ShapeInv, Cleared, CheckOne
    PROVE  Cleared'
<1>1. /\ pc = "check" /\ cur # {} /\ Preprocessing
      /\ UNCHANGED <<bwdsub_assigns, cur>>
      /\ pc' = IF ok' THEN pc ELSE "solve"
  BY DEF CheckOne, Preprocessing
<1>2. PICK d \in todo :
         /\ todo' = todo \ {d}
         /\ IF d \notin clauses
            THEN UNCHANGED <<ok, clauses, trail, subsumption_queue, elim_heap>>
            ELSE IF cur \subseteq d
            THEN /\ clauses' = clauses \ {d}
                 /\ elim_heap' = MayEliminate(VarsOf(d))
                 /\ UNCHANGED <<ok, trail, subsumption_queue>>
            ELSE IF SubsumesBut(cur, d) # {}
            THEN \E l \in SubsumesBut(cur, d) : Strengthen(d, -l)
            ELSE UNCHANGED <<ok, clauses, trail, subsumption_queue, elim_heap>>
  BY DEF CheckOne
<1> SUFFICES ASSUME Preprocessing', NEW l \in bwdsub_assigns, NEW c \in clauses', Var(l) \in VarsOf(c)
             PROVE  pc' = "check" /\ cur = {l} /\ c \in todo'
  BY <1>1 DEF Cleared
<1>3. pc' = "check"
  BY <1>1 DEF Preprocessing
<1>4. l \in Lits
  BY DEF ShapeInv, TypeOK
<1>5. \A e \in clauses : e \in Clause /\ (Var(l) \in VarsOf(e) => cur = {l} /\ e \in todo)
  BY <1>1 DEF Cleared, ShapeInv, TypeOK
<1>6. ASSUME d \in clauses, cur = {l}, Var(l) \in VarsOf(d), ~ (cur \subseteq d)
      PROVE  -l \in d /\ SubsumesBut(cur, d) = {l}
  <2>1. PICK k \in d : Var(k) = Var(l) /\ k \in Lits
    BY <1>5, <1>6 DEF VarsOf, Clause
  <2>2. k = -l
    BY <1>4, <1>6, <2>1, LitFacts
  <2> QED BY <1>6, <2>1, <2>2 DEF SubsumesBut
<1>7. CASE c \in clauses /\ c # d
  BY <1>2, <1>3, <1>5, <1>7
<1>8. CASE c = d /\ c \in clauses
  <2>1. cur = {l} /\ ~ (cur \subseteq d)
    BY <1>2, <1>5, <1>8
  <2>2. -l \in d /\ SubsumesBut(cur, d) = {l}
    BY <1>6, <1>8, <2>1
  <2>3. Strengthen(d, -l)
    BY <1>2, <1>8, <2>1, <2>2
  <2>4. clauses' \subseteq (clauses \ {d}) \cup {d \ {-l}}
    BY <1>8, <2>2, <2>3, StrengthenShape
  <2> QED BY <1>8, <2>2, <2>4
<1>9. CASE c \notin clauses
  <2>1. PICK k \in SubsumesBut(cur, d) : Strengthen(d, -k)
    BY <1>2, <1>9
  <2>2. -k \in d /\ d \in clauses
    BY <1>2, <1>9 DEF SubsumesBut
  <2>3. c = d \ {-k}
    BY <1>9, <2>1, <2>2, StrengthenShape
  <2>4. Var(l) \in VarsOf(d)
    BY <2>3 DEF VarsOf
  <2>5. cur = {l} /\ ~ (cur \subseteq d)
    BY <1>2, <1>5, <1>9, <2>2, <2>4
  <2>6. SubsumesBut(cur, d) = {l}
    BY <1>6, <2>2, <2>4, <2>5
  <2>7. k = l
    BY <2>1, <2>6
  <2>8. PICK j \in c : Var(j) = Var(l)
    BY DEF VarsOf
  <2>9. j \in d /\ j # -l /\ j \in Lits
    BY <1>5, <2>2, <2>3, <2>7, <2>8 DEF Clause
  <2>10. j = l
    BY <1>4, <2>8, <2>9, LitFacts
  <2> QED BY <2>5, <2>9, <2>10
<1> QED BY <1>7, <1>8, <1>9

(* Every step.                                                             *)
LEMMA ClearedNext ==
    ASSUME AllChecked, ShapeInv, Cleared, [Next]_vars
    PROVE  Cleared'
<1> USE DEF user, store
<1>1. Preprocessing /\ cur # {} => pc = "check"
  BY DEF ShapeInv, PhaseOK
<1>2. CASE addClause
  <2>1. /\ UNCHANGED <<bwdsub_assigns, pc, cur>> /\ pc # "check"
        /\ \E c \in to_add : \/ clauses' = clauses
                             \/ /\ c \cap trail = {}
                                /\ clauses' = clauses \cup {{l \in c : -l \notin trail}}
    BY <1>2 DEF addClause
  <2>2. PICK c \in to_add : \/ clauses' = clauses
                            \/ /\ c \cap trail = {}
                               /\ clauses' = clauses \cup {{l \in c : -l \notin trail}}
    BY <2>1
  <2>3. ASSUME c \cap trail = {}, NEW k \in bwdsub_assigns, Var(k) \in VarsOf({l \in c : -l \notin trail})
        PROVE  FALSE
    <3>1. PICK l \in c : -l \notin trail /\ Var(l) = Var(k)
      BY <2>3 DEF VarsOf
    <3>2. k \in trail /\ k \in Lits /\ l \in Lits
      BY DEF ShapeInv, TypeOK, Clause
    <3>3. k = l \/ k = -l
      BY <3>1, <3>2, LitFacts
    <3> QED BY <2>3, <3>1, <3>2, <3>3
  <2>4. Preprocessing' => Preprocessing
    BY <2>1 DEF Preprocessing
  <2>5. \A d \in clauses' : \/ \E e \in clauses : VarsOf(d) \subseteq VarsOf(e)
                            \/ \A l \in bwdsub_assigns : Var(l) \notin VarsOf(d)
    BY <2>2, <2>3
  <2> QED BY <2>1, <2>4, <2>5, ClearedStays
<1>3. CASE Added \/ Gather \/ NextVar \/ NoMoreVars \/ Eliminated \/ CheckDone \/ AsymmDone \/ KeepVar \/ solve
  <2>1. UNCHANGED <<clauses, bwdsub_assigns>> /\ (Preprocessing' => Preprocessing) /\ (pc # "check" \/ cur = {})
    BY <1>3 DEF Added, Gather, NextVar, NoMoreVars, Eliminated, CheckDone, AsymmDone, KeepVar, solve, Preprocessing
  <2> QED BY <2>1, ClearedStays
<1>4. CASE Checked
  BY <1>4 DEF Checked, Cleared, Preprocessing
<1>5. CASE CheckNext
  <2>1. /\ pc = "check" /\ cur = {} /\ pc' = pc /\ clauses' = clauses /\ Preprocessing
        /\ \/ bwdsub_assigns' = bwdsub_assigns
           \/ \E l \in Unchecked : cur' = {l} /\ bwdsub_assigns' = bwdsub_assigns \cup {l}
    BY <1>5 DEF CheckNext, Preprocessing
  <2>2. \A l \in bwdsub_assigns, c \in clauses : Var(l) \notin VarsOf(c)
    BY <2>1 DEF Cleared
  <2>3. CASE bwdsub_assigns' = bwdsub_assigns
    BY <2>1, <2>2, <2>3 DEF Cleared
  <2>4. ASSUME NEW l \in Unchecked, cur' = {l}, bwdsub_assigns' = bwdsub_assigns \cup {l} PROVE Cleared'
    <3>1. cur' # {} /\ VarsOf(cur') = {Var(l)}
      BY <2>4 DEF VarsOf
    <3>2. todo' = {d \in clauses \ {cur'} : /\ Var(l) \in VarsOf(d)
                                            /\ subsumption_lim = -1 \/ Cardinality(d) < subsumption_lim}
      BY <1>5, <3>1 DEF CheckNext
    <3>3. \A d \in clauses : subsumption_lim = -1 \/ Cardinality(d) < subsumption_lim
      <4>1. ASSUME NEW d \in clauses PROVE subsumption_lim = -1 \/ Cardinality(d) < subsumption_lim
        <5>1. Cardinality(d) \in Nat /\ Cardinality(d) <= MaxVar
          BY <2>1, ClauseSize DEF ShapeInv, TypeOK, ClausesOK
        <5> QED BY <5>1, SimpSolverAssumption DEF AllChecked
      <4> QED BY <4>1
    <3>4. cur' \notin clauses
      BY <2>4 DEF ShapeInv, ClausesOK
    <3>5. \A d \in clauses : Var(l) \in VarsOf(d) => d \in todo'
      BY <3>2, <3>3, <3>4
    <3> QED BY <2>1, <2>2, <2>4, <3>5 DEF Cleared
  <2> QED BY <2>1, <2>3, <2>4
<1>6. CASE CheckOne
  BY <1>6, CheckOneClears
<1>7. CASE Asymm
  <2>1. /\ pc = "asymm" /\ Preprocessing /\ UNCHANGED <<bwdsub_assigns>>
        /\ \/ clauses' = clauses
           \/ \E c \in clauses : \E l \in Spare(c) : Strengthen(c, l)
    BY <1>7 DEF Asymm, Preprocessing
  <2>2. \A c \in clauses' : \E d \in clauses : c \subseteq d
    <3>1. ASSUME NEW c \in clauses, NEW l \in Spare(c), Strengthen(c, l)
          PROVE  \A b \in clauses' : \E d \in clauses : b \subseteq d
      BY <3>1, StrengthenShape DEF Spare
    <3> QED BY <2>1, <3>1
  <2>3. \A c \in clauses' : \E d \in clauses : VarsOf(c) \subseteq VarsOf(d)
    BY <2>2 DEF VarsOf
  <2> QED BY <2>1, <2>3, ClearedStays
<1>8. CASE eliminateVar
  <2>1. UNCHANGED bwdsub_assigns /\ clauses' \subseteq clauses /\ Preprocessing /\ pc # "check"
    BY <1>8 DEF eliminateVar, Preprocessing
  <2> QED BY <2>1, ClearedStays
<1>9. CASE addClauseLater
  BY <1>9 DEF addClauseLater, Cleared, Preprocessing
<1>10. CASE UNCHANGED vars
  BY <1>10 DEF vars, Cleared, Preprocessing
<1> QED BY <1>2, <1>3, <1>4, <1>5, <1>6, <1>7, <1>8, <1>9, <1>10 DEF Next, Work

(* An assignment of the clauses that are left, restricted to the variables *)
(* that are, extends to one of the user's clauses.                         *)
LEMMA LeftExtends ==
    ASSUME SimpInv, ok, NEW m \in Assignments, SatAll(m, clauses \cup to_add), TrueAll(m, trail)
    PROVE  \E x \in Assignments : SatAll(x, given) /\ \A v \in Left : x[v] = m[v]
<1> DEFINE p == [v \in Vars |-> IF v \in Left THEN m[v] ELSE "l_Undef"]
<1>1. /\ m \in Valuations /\ \A v \in Vars : m[v] # "l_Undef"
      /\ p \in Valuations /\ Left \subseteq Vars
      /\ \A v \in Vars : IF v \in Left THEN p[v] = m[v] ELSE p[v] = "l_Undef"
  BY DEF Assignments, Valuations, Values, Left
<1> HIDE DEF p
<1>2. p \in Partial(Left) /\ p \in Total(Left)
  BY <1>1 DEF Partial, Total
<1>3. \A l \in Lits : Var(l) \in Left => Value(p, l) = Value(m, l)
  BY <1>1, SameValue
<1>4. SatAll(p, clauses \cup to_add)
  <2> SUFFICES ASSUME NEW c \in clauses \cup to_add PROVE \E l \in c : Value(p, l) = "l_True"
    BY DEF SatAll, Sat
  <2>1. PICK l \in c : Value(m, l) = "l_True"
    BY DEF SatAll, Sat
  <2>2. l \in Lits /\ Var(l) \in Left
    BY DEF SimpInv, ShapeInv, TypeOK, LeftOnly, Clause, VarsOf
  <2> QED BY <1>3, <2>1, <2>2
<1>5. TrueAll(p, trail)
  <2>1. \A l \in trail : l \in Lits /\ Var(l) \in Left
    BY DEF SimpInv, ShapeInv, TypeOK, LeftOnly, Assigned
  <2> QED BY <1>3, <2>1 DEF TrueAll, True
<1>6. p \in Models \cap Partial(Left)
  BY <1>2, <1>4, <1>5 DEF Models
<1>7. Extends(Extended(p), p, Left) /\ SatAll(Extended(p), given)
  BY <1>6 DEF SimpInv, Extendable
<1>8. \A v \in Left : Extended(p)[v] = m[v]
  BY <1>1, <1>7 DEF Extends
<1> QED BY <1>7, <1>8 DEF Extends

(* What the invariant says of the models.                                  *)
LEMMA KeptByInv ==
    ASSUME SimpInv, Cleared
    PROVE  ModelsKept
<1> DEFINE Projected(C) == {[v \in Left |-> m[v]] : m \in {n \in Assignments : \A c \in C : Sat(n, c)}}
           now == clauses \cup to_add \cup {{l} : l \in trail}
<1>1. \A m \in Assignments : SatAll(m, now) <=> SatAll(m, clauses \cup to_add) /\ TrueAll(m, trail)
  <2>1. \A m, l : Sat(m, {l}) <=> True(m, l)
    BY DEF Sat, True
  <2>2. \A m : (\A c \in {{l} : l \in trail} : Sat(m, c)) <=> TrueAll(m, trail)
    BY <2>1 DEF TrueAll
  <2> QED BY <2>2 DEF SatAll
<1>2. ok => Projected(given) = Projected(now)
  <2> SUFFICES ASSUME ok PROVE Projected(given) = Projected(now)
    OBVIOUS
  <2>1. \A n \in Assignments : SatAll(n, given) => SatAll(n, now)
    BY <1>1 DEF SimpInv, Entailed, Models
  <2>2. \A m \in Assignments : SatAll(m, now) =>
           \E x \in Assignments : SatAll(x, given) /\ \A v \in Left : x[v] = m[v]
    BY <1>1, LeftExtends
  <2> HIDE DEF now
  <2>3. Projected(given) \subseteq Projected(now)
    BY <2>1 DEF SatAll
  <2>4. Projected(now) \subseteq Projected(given)
    <3> SUFFICES ASSUME NEW m \in Assignments, SatAll(m, now)
                 PROVE  [v \in Left |-> m[v]] \in Projected(given)
      BY DEF SatAll
    <3>1. PICK x \in Assignments : SatAll(x, given) /\ \A v \in Left : x[v] = m[v]
      BY <2>2
    <3>2. [v \in Left |-> m[v]] = [v \in Left |-> x[v]]
      BY <3>1
    <3> QED BY <3>1, <3>2 DEF SatAll
  <2> QED BY <2>3, <2>4
<1>3. ~ ok => Projected(given) = {}
  <2> SUFFICES ASSUME ~ ok PROVE Projected(given) = {}
    OBVIOUS
  <2>1. \A n \in Assignments : ~ SatAll(n, given)
    BY DEF SimpInv, Entailed, Models
  <2> QED BY <2>1 DEF SatAll
<1>4. frozen \cup Assigned \cup UNION {VarsOf(c) : c \in clauses \cup to_add} \subseteq Left
  BY DEF SimpInv, ShapeInv, LeftOnly
<1>5. pc \in {"elim", "asymm", "var", "resolve"} /\ Unchecked = {} =>
         \A c \in clauses : VarsOf(c) \cap Assigned = {}
  <2> SUFFICES ASSUME pc \in {"elim", "asymm", "var", "resolve"}, Unchecked = {},
                      NEW c \in clauses, NEW l \in trail, Var(l) \in VarsOf(c)
               PROVE  FALSE
    BY DEF Assigned
  <2>1. l \in bwdsub_assigns /\ Preprocessing /\ pc # "check"
    BY DEF Unchecked, Preprocessing
  <2> QED BY <2>1 DEF Cleared
<1>6. IF ok THEN Projected(given) = Projected(now) ELSE Projected(given) = {}
  BY <1>2, <1>3
<1> QED BY <1>4, <1>5, <1>6 DEF ModelsKept, Left

(* No literal was checked at the start.                                    *)
LEMMA ClearedInit == Init => Cleared
BY DEF Init, Cleared

(* Every step of the preprocessor keeps the assignments of the variables   *)
(* that are left, no clause mentions one that is not, and no clause has a  *)
(* literal with a value when variables are taken up (eliminate).           *)
THEOREM ModelsAreKept == AllChecked => (Spec => []ModelsKept)
<1> SUFFICES ASSUME AllChecked PROVE Spec => []ModelsKept
  OBVIOUS
<1>1. Init => SimpInv /\ Cleared
  BY SimpInvInit, ClearedInit
<1>2. (SimpInv /\ Cleared) /\ [Next]_vars => (SimpInv /\ Cleared)'
  <2> SUFFICES ASSUME SimpInv, Cleared, [Next]_vars PROVE SimpInv' /\ Cleared'
    OBVIOUS
  <2>1. ShapeInv
    BY DEF SimpInv
  <2> QED BY <2>1, SimpInvNext, ClearedNext
<1>3. SimpInv /\ Cleared => ModelsKept
  BY KeptByInv
<1> QED BY <1>1, <1>2, <1>3, PTL DEF Spec

-----------------------------------------------------------------------------
(* The fixpoint of preprocessing.                                          *)

\* Clause c says that d can go, or a literal of it.
Overlaps(c, d) == c \subseteq d \/ SubsumesBut(c, d) # {}

\* The check of c against d is still to come: c is queued, it will be gathered,
\* or it is being checked and d comes later.
Pending(c, d) ==
    \/ c \in subsumption_queue
    \/ VarsOf(c) \cap touched # {}
    \/ pc = "check" /\ cur = c /\ d \in todo

AllPending == Preprocessing => \A c, d \in clauses : c # d /\ Overlaps(c, d) => Pending(c, d)

\* No clause waits while variables are taken up, nor when eliminate() returns.
QueueDone ==
    /\ pc \in {"elim", "var"} => subsumption_queue = {}
    /\ pc \in {"add", "eliminate"} /\ touched = {} => subsumption_queue = {}

\* Clauses that are added after preprocessing are known as such.
LaterGiven == pc = "later" => given \cap Later # {}

FixpointInv == AllPending /\ QueueDone /\ LaterGiven /\ NothingLeft

(* What overlaps a part of a clause overlaps the clause, and has no other  *)
(* variables.                                                              *)
LEMMA OverlapsPart ==
    ASSUME NEW c \in Clause, NEW d \in Clause, Overlaps(c, d)
    PROVE  /\ VarsOf(c) \subseteq VarsOf(d)
           /\ \A e : d \subseteq e => Overlaps(c, e)
<1>1. VarsOf(c) \subseteq VarsOf(d)
  <2>1. CASE c \subseteq d
    BY <2>1 DEF VarsOf
  <2>2. CASE SubsumesBut(c, d) # {}
    <3>1. PICK k \in c : -k \in d /\ c \ {k} \subseteq d
      BY <2>2 DEF SubsumesBut
    <3>2. Var(-k) = Var(k)
      BY LitFacts DEF Clause
    <3>3. \A l \in c : \E j \in d : Var(j) = Var(l)
      BY <3>1, <3>2
    <3> QED BY <3>3 DEF VarsOf
  <2> QED BY <2>1, <2>2 DEF Overlaps
<1>2. \A e : d \subseteq e => Overlaps(c, e)
  BY DEF Overlaps, SubsumesBut
<1> QED BY <1>1, <1>2

(* A clause that is shortened is queued; no other clause overlaps it that  *)
(* did not before.                                                         *)
LEMMA StrengthenQueues ==
    ASSUME ShapeInv, NEW d \in clauses, NEW l \in d, Strengthen(d, l)
    PROVE  /\ subsumption_queue \subseteq subsumption_queue'
           /\ \A c, e \in clauses' : c # e /\ Overlaps(c, e) =>
                 \/ c \in subsumption_queue'
                 \/ /\ c \in clauses \ {d}
                    /\ \/ e \in clauses \ {d}
                       \/ e = d \ {l} /\ Overlaps(c, d)
<1>1. /\ clauses' \subseteq (clauses \ {d}) \cup {d \ {l}}
      /\ \A c \in clauses' : \A k : c # {k}
  BY StrengthenShape
<1>2. clauses \subseteq Clause /\ d \in Clause /\ d \ {l} \in Clause
  BY DEF ShapeInv, TypeOK, Clause
<1>3. subsumption_queue \subseteq subsumption_queue'
  BY DEF Strengthen
<1>4. d \ {l} \in clauses' => d \ {l} \in subsumption_queue'
  <2>1. CASE Cardinality(d \ {l}) = 1
    <3>1. \E k : d \ {l} = {k}
      BY <1>2, <2>1, FewLiterals DEF Clause
    <3> QED BY <1>1, <3>1
  <2>2. CASE Cardinality(d \ {l}) # 1
    BY <2>2 DEF Strengthen
  <2> QED BY <2>1, <2>2
<1>5. ASSUME NEW c \in clauses \ {d}, Overlaps(c, d \ {l}) PROVE Overlaps(c, d)
  BY <1>2, <1>5, OverlapsPart
<1> QED BY <1>1, <1>3, <1>4, <1>5

(* Steps that take no clause off the queue, add none, and visit none.      *)
LEMMA PendingStays ==
    ASSUME AllPending, Preprocessing' => Preprocessing, clauses' \subseteq clauses,
           subsumption_queue \subseteq subsumption_queue', touched \subseteq touched',
           pc # "check" \/ cur = {}, \A c \in clauses : c # {}
    PROVE  AllPending'
<1> SUFFICES ASSUME Preprocessing', NEW c \in clauses', NEW d \in clauses', c # d, Overlaps(c, d)
             PROVE  c \in subsumption_queue' \/ VarsOf(c) \cap touched' # {}
  BY DEF AllPending, Pending
<1>1. Pending(c, d)
  BY DEF AllPending
<1> QED BY <1>1 DEF Pending

(* A clause that is added is queued, and its variables are noted.          *)
LEMMA addClausePending ==
    ASSUME ShapeInv, FixpointInv, addClause
    PROVE  AllPending' /\ QueueDone'
<1>1. /\ pc \in {"add", "resolve", "later"} /\ pc' = pc /\ UNCHANGED cur
      /\ \/ UNCHANGED <<clauses, subsumption_queue, touched>>
         \/ pc = "later"
         \/ \E c \in to_add :
              LET rest == {l \in c : -l \notin trail}
              IN  /\ ~ (Cardinality(rest) < 2)
                  /\ clauses' = clauses \cup {rest}
                  /\ subsumption_queue' = subsumption_queue \cup {rest}
                  /\ touched' = touched \cup VarsOf(rest)
  BY DEF addClause
<1>2. clauses \subseteq Clause /\ to_add \subseteq Clause /\ \A c \in clauses : c # {}
  BY DEF ShapeInv, TypeOK, ClausesOK
<1>3. CASE UNCHANGED <<clauses, subsumption_queue, touched>>
  <2>1. AllPending'
    BY <1>1, <1>2, <1>3, PendingStays DEF FixpointInv, Preprocessing
  <2> QED BY <1>1, <1>3, <2>1 DEF FixpointInv, QueueDone
<1>4. CASE pc = "later"
  BY <1>1, <1>4 DEF AllPending, QueueDone, Preprocessing
<1>5. ASSUME NEW b \in to_add, NEW rest, rest = {l \in b : -l \notin trail},
             ~ (Cardinality(rest) < 2), clauses' = clauses \cup {rest},
             subsumption_queue' = subsumption_queue \cup {rest},
             touched' = touched \cup VarsOf(rest), pc # "later"
      PROVE  AllPending' /\ QueueDone'
  <2>1. rest \subseteq Lits /\ rest \in Clause
    BY <1>2, <1>5 DEF Clause
  <2>2. rest # {}
    BY <1>5, <2>1, FewLiterals
  <2>3. VarsOf(rest) # {}
    BY <2>2 DEF VarsOf
  <2>4. ASSUME NEW c \in clauses', NEW d \in clauses', c # d, Overlaps(c, d)
        PROVE  c \in subsumption_queue' \/ VarsOf(c) \cap touched' # {}
    <3>1. CASE c = rest
      BY <1>5, <3>1
    <3>2. CASE c # rest /\ d = rest
      <4>1. c \in Clause /\ c # {}
        BY <1>2, <1>5, <3>2
      <4>2. VarsOf(c) \subseteq VarsOf(rest) /\ VarsOf(c) # {}
        BY <2>1, <2>4, <3>2, <4>1, OverlapsPart DEF VarsOf
      <4> QED BY <1>5, <4>2
    <3>3. CASE c # rest /\ d # rest
      <4>1. c \in clauses /\ d \in clauses /\ Preprocessing
        BY <1>1, <1>5, <3>3 DEF Preprocessing
      <4>2. Pending(c, d)
        BY <2>4, <4>1 DEF FixpointInv, AllPending
      <4> QED BY <1>1, <1>5, <4>2 DEF Pending
    <3> QED BY <3>1, <3>2, <3>3
  <2>5. AllPending'
    BY <2>4 DEF AllPending, Pending
  <2>6. QueueDone'
    BY <1>1, <1>5, <2>3 DEF QueueDone
  <2> QED BY <2>5, <2>6
<1> QED BY <1>1, <1>3, <1>4, <1>5

(* The clause that is taken from the queue meets all that share a variable *)
(* with it.                                                                *)
LEMMA CheckNextPending ==
    ASSUME AllChecked, ShapeInv, FixpointInv, CheckNext
    PROVE  AllPending'
<1>1. /\ pc = "check" /\ cur = {} /\ UNCHANGED <<clauses, pc, touched>>
      /\ \/ \E c \in subsumption_queue : /\ subsumption_queue' = subsumption_queue \ {c}
                                         /\ cur' = IF c \in clauses THEN c ELSE {}
         \/ subsumption_queue' = subsumption_queue
  BY DEF CheckNext
<1>2. clauses \subseteq Clause /\ \A c \in clauses : c # {} /\ \A l \in c : -l \notin c
  BY <1>1 DEF ShapeInv, TypeOK, ClausesOK, Preprocessing
<1>3. \A d \in clauses : subsumption_lim = -1 \/ Cardinality(d) < subsumption_lim
  <2>1. ASSUME NEW d \in clauses PROVE subsumption_lim = -1 \/ Cardinality(d) < subsumption_lim
    <3>1. Cardinality(d) \in Nat /\ Cardinality(d) <= MaxVar
      BY <1>2, ClauseSize
    <3> QED BY <3>1, SimpSolverAssumption DEF AllChecked
  <2> QED BY <2>1
<1> SUFFICES ASSUME NEW c \in clauses, NEW d \in clauses, c # d, Overlaps(c, d)
             PROVE  Pending(c, d)'
  BY <1>1 DEF AllPending
<1>4. Pending(c, d)
  BY <1>1 DEF FixpointInv, AllPending, Preprocessing
<1>5. CASE c \in subsumption_queue' \/ VarsOf(c) \cap touched # {}
  BY <1>1, <1>5 DEF Pending
<1>6. CASE c \notin subsumption_queue' /\ VarsOf(c) \cap touched = {}
  <2>1. cur' = c
    BY <1>1, <1>2, <1>4, <1>6 DEF Pending
  <2>2. c # {}
    BY <1>2
  <2>3. PICK v \in VarsOf(c) : todo' = {e \in clauses \ {c} : /\ v \in VarsOf(e)
                                                              /\ subsumption_lim = -1 \/ Cardinality(e) < subsumption_lim}
    BY <2>1, <2>2 DEF CheckNext
  <2>4. v \in VarsOf(d)
    BY <1>2, OverlapsPart
  <2>5. d \in todo'
    BY <1>3, <2>3, <2>4
  <2> QED BY <1>1, <2>1, <2>5 DEF Pending
<1> QED BY <1>5, <1>6

(* The clause that is visited goes, is shortened so that it is no longer   *)
(* overlapped, or was not.                                                 *)
LEMMA CheckOnePending ==
    ASSUME ShapeInv, FixpointInv, CheckOne
    PROVE  AllPending'
<1>1. /\ pc = "check" /\ cur # {} /\ Preprocessing
      /\ UNCHANGED <<touched, cur>>
      /\ pc' = IF ok' THEN pc ELSE "solve"
  BY DEF CheckOne, Preprocessing
<1>2. PICK d \in todo :
         /\ todo' = todo \ {d}
         /\ IF d \notin clauses
            THEN UNCHANGED <<ok, clauses, trail, subsumption_queue, elim_heap>>
            ELSE IF cur \subseteq d
            THEN /\ clauses' = clauses \ {d}
                 /\ elim_heap' = MayEliminate(VarsOf(d))
                 /\ UNCHANGED <<ok, trail, subsumption_queue>>
            ELSE IF SubsumesBut(cur, d) # {}
            THEN \E l \in SubsumesBut(cur, d) : Strengthen(d, -l)
            ELSE UNCHANGED <<ok, clauses, trail, subsumption_queue, elim_heap>>
  BY DEF CheckOne
<1>3. \A c, e \in clauses : c # e /\ Overlaps(c, e) =>
         c \in subsumption_queue \/ VarsOf(c) \cap touched # {} \/ (cur = c /\ e \in todo)
  BY <1>1 DEF FixpointInv, AllPending, Pending
<1> SUFFICES ASSUME Preprocessing', NEW c \in clauses', NEW e \in clauses', c # e, Overlaps(c, e)
             PROVE  c \in subsumption_queue' \/ VarsOf(c) \cap touched # {} \/ (cur = c /\ e \in todo')
  <2>1. Preprocessing' => pc' = "check"
    BY <1>1 DEF Preprocessing
  <2> QED BY <1>1, <2>1 DEF AllPending, Pending
<1>4. CASE ~ (\E l \in SubsumesBut(cur, d) : Strengthen(d, -l)) \/ d \notin clauses \/ cur \subseteq d
           \/ SubsumesBut(cur, d) = {}
  <2>1. clauses' \subseteq clauses /\ subsumption_queue' = subsumption_queue
    BY <1>2, <1>4
  <2>2. e = d => ~ Overlaps(cur, d)
    BY <1>2, <1>4 DEF Overlaps
  <2> QED BY <1>2, <1>3, <2>1, <2>2
<1>5. ASSUME NEW l \in SubsumesBut(cur, d), Strengthen(d, -l), d \in clauses, ~ (cur \subseteq d)
      PROVE  c \in subsumption_queue' \/ VarsOf(c) \cap touched # {} \/ (cur = c /\ e \in todo')
  <2>1. l \in cur /\ -l \in d
    BY DEF SubsumesBut
  <2>2. /\ subsumption_queue \subseteq subsumption_queue'
        /\ \/ c \in subsumption_queue'
           \/ c \in clauses \ {d} /\ e \in clauses \ {d}
           \/ c \in clauses \ {d} /\ e = d \ {-l} /\ Overlaps(c, d)
    BY <1>5, <2>1, StrengthenQueues
  <2>3. CASE c \in clauses \ {d} /\ e \in clauses \ {d}
    BY <1>2, <1>3, <2>2, <2>3
  <2>4. CASE c \in clauses \ {d} /\ e = d \ {-l} /\ Overlaps(c, d)
    <3>1. c \in subsumption_queue \/ VarsOf(c) \cap touched # {} \/ cur = c
      BY <1>3, <1>5, <2>4
    <3>2. cur # c
      <4> SUFFICES ASSUME cur = c PROVE FALSE
        OBVIOUS
      <4>1. \A k \in d : -k \notin d /\ k \in Lits
        BY <1>1, <1>5 DEF ShapeInv, TypeOK, ClausesOK, Clause
      <4>2. l \in Lits
        BY <2>1 DEF ShapeInv, TypeOK, Clause
      <4>3. l \notin d
        BY <2>1, <4>1, <4>2
      <4>4. PICK k \in c : -k \in d \ {-l} /\ c \ {k} \subseteq d
        BY <1>5, <2>4 DEF Overlaps, SubsumesBut
      <4>5. k # l
        BY <4>4
      <4> QED BY <2>1, <4>3, <4>4, <4>5
    <3> QED BY <2>2, <3>1, <3>2
  <2> QED BY <2>2, <2>3, <2>4
<1> QED BY <1>2, <1>4, <1>5

(* Asymmetric branching queues what it shortens.                           *)
LEMMA AsymmPending ==
    ASSUME ShapeInv, FixpointInv, Asymm
    PROVE  AllPending'
<1>1. /\ pc = "asymm" /\ Preprocessing /\ UNCHANGED <<touched, cur>>
      /\ \/ UNCHANGED <<clauses, subsumption_queue>>
         \/ \E c \in clauses : \E l \in Spare(c) : Strengthen(c, l)
  BY DEF Asymm, Preprocessing
<1>2. \A c, e \in clauses : c # e /\ Overlaps(c, e) => c \in subsumption_queue \/ VarsOf(c) \cap touched # {}
  BY <1>1 DEF FixpointInv, AllPending, Pending
<1>3. CASE UNCHANGED <<clauses, subsumption_queue>>
  BY <1>1, <1>2, <1>3 DEF AllPending, Pending
<1>4. ASSUME NEW d \in clauses, NEW l \in Spare(d), Strengthen(d, l)
      PROVE  AllPending'
  <2>1. l \in d
    BY DEF Spare
  <2>2. /\ subsumption_queue \subseteq subsumption_queue'
        /\ \A c, e \in clauses' : c # e /\ Overlaps(c, e) =>
              \/ c \in subsumption_queue'
              \/ /\ c \in clauses \ {d}
                 /\ \/ e \in clauses \ {d}
                    \/ e = d \ {l} /\ Overlaps(c, d)
    BY <1>4, <2>1, StrengthenQueues
  <2>3. \A c, e \in clauses' : c # e /\ Overlaps(c, e) => c \in subsumption_queue' \/ VarsOf(c) \cap touched # {}
    BY <1>2, <2>2
  <2> QED BY <1>1, <2>3 DEF AllPending, Pending
<1> QED BY <1>1, <1>3, <1>4

(* When eliminate() has nothing left to do, neither has the check.         *)
LEMMA EliminatedLeaves ==
    ASSUME ShapeInv, Cleared, FixpointInv, Eliminated
    PROVE  NothingLeft'
<1>1. /\ pc = "eliminate" /\ Preprocessing /\ touched = {} /\ Unchecked = {}
      /\ UNCHANGED <<given, ok, clauses, trail>>
  BY DEF Eliminated, user, Preprocessing
<1>2. \A c, d \in clauses : c # d => ~ Overlaps(c, d)
  BY <1>1 DEF FixpointInv, AllPending, Pending, QueueDone
<1>3. \A c \in clauses, l \in trail : Var(l) \notin VarsOf(c)
  BY <1>1 DEF Cleared, Unchecked
<1>4. \A c \in clauses : VarsOf(c) \cap Assigned = {}
  BY <1>3 DEF Assigned
<1> SUFFICES ASSUME NEW c \in clauses
             PROVE  /\ VarsOf(c) \cap Assigned = {}
                    /\ \A d \in clauses \ {c} : ~ c \subseteq d /\ SubsumesBut(c, d) = {}
  BY <1>1 DEF NothingLeft, Assigned
<1> QED BY <1>2, <1>4 DEF Overlaps

(* Every step.                                                             *)
LEMMA FixpointNext ==
    ASSUME AllChecked, ShapeInv, Cleared, FixpointInv, [Next]_vars
    PROVE  FixpointInv'
<1> USE DEF user, store
<1>1. /\ \A c \in clauses : c # {}
      /\ Preprocessing /\ cur # {} => pc = "check"
      /\ pc \in {"eliminate", "check", "elim", "asymm", "var"} => ok
  BY DEF ShapeInv, ClausesOK, PhaseOK
<1>2. CASE addClause
  <2>1. UNCHANGED <<given, pc>> /\ pc \in {"add", "resolve", "later"}
    BY <1>2 DEF addClause
  <2> QED BY <1>2, <2>1, addClausePending DEF FixpointInv, LaterGiven, NothingLeft
<1>3. CASE Added
  <2>1. /\ UNCHANGED <<given, ok, clauses, trail, subsumption_queue, touched, cur, todo>>
        /\ \/ pc = "add" /\ pc' = IF ok THEN "eliminate" ELSE "solve"
           \/ pc = "resolve" /\ pc' = IF ok THEN "check" ELSE "solve"
           \/ pc = "later" /\ pc' = "solve"
    BY <1>3 DEF Added
  <2>2. AllPending'
    BY <1>1, <2>1, PendingStays DEF FixpointInv, Preprocessing
  <2> QED BY <2>1, <2>2 DEF FixpointInv, QueueDone, LaterGiven, NothingLeft
<1>4. CASE Gather
  <2>1. /\ UNCHANGED <<clauses, cur, todo>> /\ pc = "eliminate" /\ pc' = "check"
        /\ subsumption_queue' = subsumption_queue \cup {c \in clauses : VarsOf(c) \cap touched # {}}
    BY <1>4 DEF Gather
  <2>2. AllPending'
    BY <2>1 DEF FixpointInv, AllPending, Pending, Preprocessing
  <2> QED BY <2>1, <2>2 DEF FixpointInv, QueueDone, LaterGiven, NothingLeft
<1>5. CASE NextVar \/ NoMoreVars \/ CheckDone \/ AsymmDone \/ KeepVar \/ eliminateVar
  <2>1. /\ UNCHANGED <<subsumption_queue, touched>> /\ clauses' \subseteq clauses
        /\ Preprocessing /\ (pc # "check" \/ cur = {})
        /\ pc' \notin {"solve", "later"}
    BY <1>5 DEF NextVar, NoMoreVars, CheckDone, AsymmDone, KeepVar, eliminateVar, Preprocessing
  <2>2. AllPending'
    BY <1>1, <2>1, PendingStays DEF FixpointInv
  <2>3. QueueDone'
    BY <1>5 DEF FixpointInv, QueueDone, NextVar, NoMoreVars, CheckDone, AsymmDone, KeepVar, eliminateVar
  <2> QED BY <2>1, <2>2, <2>3 DEF FixpointInv, LaterGiven, NothingLeft
<1>6. CASE Eliminated
  <2>1. NothingLeft'
    BY <1>6, EliminatedLeaves
  <2> QED BY <1>6, <2>1 DEF Eliminated, FixpointInv, AllPending, QueueDone, LaterGiven, Preprocessing
<1>7. CASE CheckNext
  <2>1. pc = "check" /\ pc' = pc
    BY <1>7 DEF CheckNext
  <2> QED BY <1>7, <2>1, CheckNextPending DEF FixpointInv, QueueDone, LaterGiven, NothingLeft
<1>8. CASE CheckOne
  <2>1. pc = "check" /\ pc' = IF ok' THEN pc ELSE "solve"
    BY <1>8 DEF CheckOne
  <2> QED BY <1>8, <2>1, CheckOnePending DEF FixpointInv, QueueDone, LaterGiven, NothingLeft
<1>9. CASE Checked
  <2>1. /\ UNCHANGED <<clauses, subsumption_queue, touched, pc>> /\ pc = "check" /\ todo = {}
    BY <1>9 DEF Checked
  <2>2. AllPending'
    BY <2>1 DEF FixpointInv, AllPending, Pending, Preprocessing
  <2> QED BY <2>1, <2>2 DEF FixpointInv, QueueDone, LaterGiven, NothingLeft
<1>10. CASE Asymm
  <2>1. pc = "asymm" /\ pc' = IF ok' THEN pc ELSE "solve"
    BY <1>10 DEF Asymm
  <2> QED BY <1>10, <2>1, AsymmPending DEF FixpointInv, QueueDone, LaterGiven, NothingLeft
<1>11. CASE solve
  <2>1. pc' = "idle"
    BY <1>11 DEF solve
  <2> QED BY <2>1 DEF FixpointInv, AllPending, QueueDone, LaterGiven, NothingLeft, Preprocessing
<1>12. CASE addClauseLater
  <2>1. pc' = "later" /\ given' \cap Later # {}
    BY <1>12 DEF addClauseLater
  <2> QED BY <2>1 DEF FixpointInv, AllPending, QueueDone, LaterGiven, NothingLeft, Preprocessing
<1>13. CASE UNCHANGED vars
  BY <1>13 DEF vars, FixpointInv, AllPending, Pending, QueueDone, LaterGiven, NothingLeft, Assigned, Preprocessing
<1> QED BY <1>2, <1>3, <1>4, <1>5, <1>6, <1>7, <1>8, <1>9, <1>10, <1>11, <1>12, <1>13 DEF Next, Work

(* Preprocessing reaches its fixpoint, for any circuit and any options:    *)
(* when it ends without a contradiction, no clause that is left implies or *)
(* shortens another, and none has a literal with a value (eliminate).      *)
THEOREM NothingIsLeft == AllChecked => (Spec => []NothingLeft)
<1> SUFFICES ASSUME AllChecked PROVE Spec => []NothingLeft
  OBVIOUS
<1>1. Init => SimpInv /\ Cleared /\ FixpointInv
  <2>1. Init => FixpointInv
    BY DEF Init, FixpointInv, AllPending, QueueDone, LaterGiven, NothingLeft
  <2> QED BY <2>1, SimpInvInit, ClearedInit
<1>2. (SimpInv /\ Cleared /\ FixpointInv) /\ [Next]_vars => (SimpInv /\ Cleared /\ FixpointInv)'
  <2> SUFFICES ASSUME SimpInv, Cleared, FixpointInv, [Next]_vars PROVE SimpInv' /\ Cleared' /\ FixpointInv'
    OBVIOUS
  <2>1. ShapeInv
    BY DEF SimpInv
  <2> QED BY <2>1, SimpInvNext, ClearedNext, FixpointNext
<1>3. FixpointInv => NothingLeft
  BY DEF FixpointInv
<1> QED BY <1>1, <1>2, <1>3, PTL DEF Spec

=============================================================================

---------------------------- MODULE NumberLemmas ----------------------------
(* Facts about numbers, finite sets and recursive functions that the proofs *)
(* share.  A recursive function is a CHOOSE: that it exists, and what holds *)
(* at each of its arguments, is shown by the least-number principle.        *)
EXTENDS Integers, FiniteSets, TLAPS, FiniteSetTheorems, WellFoundedInduction

(* The least-number principle.                                             *)
LEMMA LeastNat ==
    ASSUME NEW T, T \subseteq Nat, T # {}
    PROVE  \E x \in T : \A y \in T : x <= y
<1> DEFINE R == {ss \in Nat \X Nat : ss[1] < ss[2]}
<1>1. IsWellFoundedOn(R, Nat)
  BY NatLessThanWellFounded DEF OpToRel
<1>2. \E x \in T : \A y \in T : ~ (<<y, x>> \in R)
  <2> HIDE DEF R
  <2> QED BY <1>1, WFMin, Zenon
<1>3. PICK x \in T : \A y \in T : ~ (<<y, x>> \in R)
  BY <1>2
<1>4. ASSUME NEW y \in T PROVE x <= y
  <2>1. x \in Nat /\ y \in Nat OBVIOUS
  <2>2. ~ (y < x)
    BY <1>3, <2>1
  <2> QED BY <2>1, <2>2
<1> QED BY <1>3, <1>4

(* Among finite sets there is one that strictly contains no other.         *)
LEMMA MinimalSet ==
    ASSUME NEW F, F # {}, \A X \in F : IsFiniteSet(X)
    PROVE  \E X \in F : \A Y \in F : Y \subseteq X => Y = X
<1> DEFINE sizes == {Cardinality(X) : X \in F}
<1>1. sizes \subseteq Nat /\ sizes # {}
  BY FS_CardinalityType
<1>2. PICK n \in sizes : \A m \in sizes : n <= m
  <2> HIDE DEF sizes
  <2> QED BY <1>1, LeastNat
<1>3. PICK X \in F : n = Cardinality(X)
  BY <1>2
<1>4. ASSUME NEW Y \in F, Y \subseteq X, Y # X PROVE FALSE
  <2>1. Cardinality(Y) <= Cardinality(X) /\ Cardinality(Y) # Cardinality(X)
    BY <1>4, FS_Subset
  <2>2. Cardinality(X) <= Cardinality(Y)
    BY <1>2, <1>3
  <2>3. Cardinality(X) \in Nat /\ Cardinality(Y) \in Nat
    BY FS_CardinalityType
  <2> QED BY <2>1, <2>2, <2>3
<1> QED BY <1>3, <1>4

(* A set with the first number, and with each number the next, has all.    *)
LEMMA Climb ==
    ASSUME NEW a \in Nat, NEW n \in Nat, NEW T, a \in T,
           \A k \in a .. n - 1 : k \in T => k + 1 \in T
    PROVE  a .. n \subseteq T
<1> DEFINE Missed == {k \in a .. n : k \notin T}
<1> SUFFICES ASSUME Missed # {} PROVE FALSE
  OBVIOUS
<1>1. Missed \subseteq Nat
  OBVIOUS
<1>2. PICK k \in Missed : \A j \in Missed : k <= j
  <2> HIDE DEF Missed
  <2> QED BY <1>1, LeastNat
<1>3. k # a /\ k \in a .. n /\ k \notin T
  OBVIOUS
<1>4. k - 1 \in a .. n - 1 /\ k - 1 \in a .. n /\ k - 1 + 1 = k
  BY <1>3
<1>5. k - 1 \in T
  <2>1. k - 1 \notin Missed
    <3>1. ~ (k <= k - 1)
      BY <1>3
    <3> HIDE DEF Missed
    <3> QED BY <1>2, <3>1
  <2> QED BY <1>4, <2>1
<1> QED BY <1>3, <1>4, <1>5

(* g is what a first value and a step determine on 0 .. n.                 *)
IsRecursive(g, S, a, n, step) ==
    g \in [0 .. n -> S] /\ g[0] = a /\ \A k \in 1 .. n : g[k] = step[<<g[k-1], k>>]

(* A first value and a step determine a function on an initial segment.    *)
LEMMA Recursion ==
    ASSUME NEW S, NEW a \in S, NEW n \in Nat, NEW step, step \in [S \X (1 .. n) -> S]
    PROVE  \E g : IsRecursive(g, S, a, n, step)
<1> DEFINE Is(g, m) == g \in [0 .. m -> S] /\ g[0] = a /\ \A k \in 1 .. m : g[k] = step[<<g[k-1], k>>]
           T == {m \in 0 .. n : \E g : Is(g, m)}
<1>1. 0 \in T
  <2>1. Is([k \in 0 .. 0 |-> a], 0)
    OBVIOUS
  <2>2. 0 \in 0 .. n
    OBVIOUS
  <2> HIDE DEF Is
  <2> QED BY <2>1, <2>2
<1>2. ASSUME NEW m \in 0 .. n - 1, m \in T PROVE m + 1 \in T
  <2>1. PICK g : Is(g, m)
    BY <1>2
  <2> DEFINE h == [k \in 0 .. m + 1 |-> IF k <= m THEN g[k] ELSE step[<<g[m], m + 1>>]]
  <2>2. step[<<g[m], m + 1>>] \in S
    <3>1. g[m] \in S /\ m + 1 \in 1 .. n
      BY <2>1
    <3> QED BY <3>1
  <2>3. h \in [0 .. m + 1 -> S] /\ h[0] = a
    BY <2>1, <2>2
  <2>4. ASSUME NEW k \in 1 .. m + 1 PROVE h[k] = step[<<h[k-1], k>>]
    <3>1. k - 1 \in 0 .. m /\ h[k-1] = g[k-1]
      OBVIOUS
    <3>2. CASE k <= m
      <4>1. k \in 1 .. m /\ h[k] = g[k]
        BY <3>2
      <4> QED BY <2>1, <3>1, <4>1
    <3>3. CASE k = m + 1
      <4>1. h[k] = step[<<g[m], m + 1>>] /\ k - 1 = m
        BY <3>3
      <4> QED BY <3>1, <3>3, <4>1
    <3> QED BY <3>2, <3>3
  <2>5. Is(h, m + 1)
    <3> HIDE DEF h
    <3> QED BY <2>3, <2>4
  <2>6. m + 1 \in 0 .. n
    OBVIOUS
  <2> QED BY <2>5, <2>6
<1>3. n \in T
  <2> HIDE DEF T
  <2>1. 0 .. n \subseteq T
    BY <1>1, <1>2, Climb
  <2> QED BY <2>1
<1> QED BY <1>3 DEF IsRecursive

\* A step to the value at v that reads the values below v only.
ReadsBelow(step, n, S) ==
    /\ step \in [[0 .. n -> S] \X (0 .. n) -> S]
    /\ \A f, h \in [0 .. n -> S] : \A v \in 0 .. n :
          (\A w \in 0 .. v - 1 : f[w] = h[w]) => step[<<f, v>>] = step[<<h, v>>]

IsDetermined(f, step, n, S) == f \in [0 .. n -> S] /\ \A v \in 0 .. n : f[v] = step[<<f, v>>]

(* Such a step determines a function.                                      *)
LEMMA CourseOfValues ==
    ASSUME NEW n \in Nat, NEW S, S # {}, NEW step, ReadsBelow(step, n, S)
    PROVE  \E f : IsDetermined(f, step, n, S)
<1> DEFINE F == [0 .. n -> S]
           T == {m \in 0 .. n : \E f \in F : \A v \in 0 .. m : f[v] = step[<<f, v>>]}
<1>0. \A f, h \in F : \A v \in 0 .. n :
         (\A w \in 0 .. v - 1 : f[w] = h[w]) => step[<<f, v>>] = step[<<h, v>>]
  BY DEF ReadsBelow
<1>1. ASSUME NEW f \in F, NEW m \in 0 .. n, \A v \in 0 .. m - 1 : f[v] = step[<<f, v>>]
      PROVE  m \in T
  <2> DEFINE x == step[<<f, m>>]
             h == [f EXCEPT ![m] = x]
  <2>1. x \in S
    BY DEF ReadsBelow
  <2> HIDE DEF x
  <2>2. h \in F /\ h[m] = x /\ \A v \in 0 .. n : v # m => h[v] = f[v]
    BY <2>1
  <2> HIDE DEF h
  <2>3. ASSUME NEW v \in 0 .. m PROVE h[v] = step[<<h, v>>]
    <3>1. \A w \in 0 .. v - 1 : w \in 0 .. n /\ w # m
      OBVIOUS
    <3>2. v \in 0 .. n
      OBVIOUS
    <3>3. \A w \in 0 .. v - 1 : f[w] = h[w]
      BY <2>2, <3>1
    <3>4. step[<<f, v>>] = step[<<h, v>>]
      <4> HIDE DEF F
      <4> QED BY <1>0, <2>2, <3>2, <3>3
    <3>5. CASE v = m
      BY <2>2, <3>4, <3>5 DEF x
    <3>6. CASE v # m
      <4>1. v \in 0 .. m - 1
        BY <3>6
      <4>2. f[v] = step[<<f, v>>]
        BY <1>1, <4>1
      <4> QED BY <2>2, <3>2, <3>4, <3>6, <4>2
    <3> QED BY <3>5, <3>6
  <2> QED BY <2>2, <2>3
<1>2. 0 \in T
  <2>1. PICK a \in S : TRUE
    OBVIOUS
  <2>2. [v \in 0 .. n |-> a] \in F
    OBVIOUS
  <2> HIDE DEF F, T
  <2>3. \A v \in 0 .. 0 - 1 : FALSE
    OBVIOUS
  <2>4. 0 \in 0 .. n
    OBVIOUS
  <2> QED BY <1>1, <2>2, <2>3, <2>4
<1>3. ASSUME NEW m \in 0 .. n - 1, m \in T PROVE m + 1 \in T
  <2>1. PICK f \in F : \A v \in 0 .. m : f[v] = step[<<f, v>>]
    BY <1>3
  <2>2. m + 1 \in 0 .. n /\ m + 1 - 1 = m
    OBVIOUS
  <2>3. \A v \in 0 .. (m + 1) - 1 : f[v] = step[<<f, v>>]
    <3>1. \A v \in 0 .. (m + 1) - 1 : v \in 0 .. m
      OBVIOUS
    <3> QED BY <2>1, <3>1
  <2> HIDE DEF F, T
  <2> QED BY <1>1, <2>1, <2>2, <2>3
<1>4. n \in T
  <2> HIDE DEF T
  <2>1. 0 .. n \subseteq T
    BY <1>2, <1>3, Climb
  <2> QED BY <2>1
<1>5. PICK f \in F : \A v \in 0 .. n : f[v] = step[<<f, v>>]
  BY <1>4
<1> QED BY <1>5 DEF IsDetermined

=============================================================================

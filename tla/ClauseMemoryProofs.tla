------------------------- MODULE ClauseMemoryProofs -------------------------
(***************************************************************************)
(* Proofs about the clauses of the solvers, for any clauses, any number of *)
(* them and any size of the region.                                        *)
(***************************************************************************)
EXTENDS ClauseMemory, NumberLemmas, FiniteSetTheorems

-----------------------------------------------------------------------------
(* Lists.                                                                  *)

LEMMA TableIs ==
    ASSUME NEW T, NEW n \in Nat, NEW w \in [1 .. n -> T]
    PROVE  w \in Seq(T) /\ Len(w) = n
OBVIOUS

LEMMA AppendIs ==
    ASSUME NEW T, NEW list \in Seq(T), NEW x \in T
    PROVE  /\ Append(list, x) \in Seq(T) /\ ToSet(Append(list, x)) = ToSet(list) \cup {x}
           /\ Len(Append(list, x)) = Len(list) + 1 /\ Append(list, x)[Len(list) + 1] = x
           /\ \A i \in 1 .. Len(list) : Append(list, x)[i] = list[i]
<1> DEFINE n == Len(list)
           a == Append(list, x)
<1>1. /\ n \in Nat /\ a \in Seq(T) /\ DOMAIN list = 1 .. n /\ DOMAIN a = 1 .. n + 1
      /\ a[n + 1] = x /\ \A i \in 1 .. n : a[i] = list[i]
      /\ Len(a) = n + 1
  OBVIOUS
<1> HIDE DEF n, a
<1>2. 1 .. n + 1 = 1 .. n \cup {n + 1}
  BY <1>1
<1>3. ToSet(a) = ToSet(list) \cup {x}
  BY <1>1, <1>2 DEF ToSet
<1> QED BY <1>1, <1>3 DEF n, a

(* The values that doing something for the elements of a list in turn goes *)
(* through.                                                                *)
GoesThrough(g, S, s, list, step) ==
    /\ g \in [0 .. Len(list) -> S]
    /\ g[0] = s
    /\ \A k \in 1 .. Len(list) : g[k] = step[<<g[k-1], list[k]>>]

LEMMA EachExists ==
    ASSUME NEW S, NEW s \in S, NEW T, NEW list \in Seq(T), NEW step, step \in [S \X T -> S]
    PROVE  \E g : GoesThrough(g, S, s, list, step)
<1> DEFINE n == Len(list)
           next == [y \in S \X (1 .. n) |-> step[<<y[1], list[y[2]]>>]]
<1>1. n \in Nat /\ \A k \in 1 .. n : list[k] \in T
  OBVIOUS
<1>2. next \in [S \X (1 .. n) -> S]
  <2>1. ASSUME NEW y \in S \X (1 .. n) PROVE step[<<y[1], list[y[2]]>>] \in S
    <3>1. <<y[1], list[y[2]]>> \in S \X T
      BY <1>1
    <3> QED BY <3>1
  <2> QED BY <2>1
<1> HIDE DEF n, next
<1>3. PICK g : IsRecursive(g, S, s, n, next)
  BY <1>1, <1>2, Recursion
<1>4. ASSUME NEW k \in 1 .. n PROVE g[k] = step[<<g[k-1], list[k]>>]
  <2>1. k - 1 \in 0 .. n
    BY <1>1
  <2>2. <<g[k-1], k>> \in S \X (1 .. n)
    BY <1>3, <2>1 DEF IsRecursive
  <2> QED BY <1>3, <2>2 DEF IsRecursive, next
<1> QED BY <1>3, <1>4 DEF IsRecursive, GoesThrough, n

(* A list without some elements: what it is after each of its elements.    *)
Thins(w, T, list, gone) ==
    /\ w \in [0 .. Len(list) -> Seq(T)] /\ w[0] = <<>>
    /\ \A k \in 1 .. Len(list) : w[k] = IF list[k] \in gone THEN w[k-1] ELSE Append(w[k-1], list[k])
    /\ Without(list, gone) = w[Len(list)]

LEMMA WithoutThins ==
    ASSUME NEW T, NEW list \in Seq(T), NEW gone
    PROVE  \E w : Thins(w, T, list, gone)
<1> DEFINE n == Len(list)
           Eq(f) == [k \in 0 .. n |-> IF k = 0 THEN <<>>
                                      ELSE IF list[k] \in gone THEN f[k-1] ELSE Append(f[k-1], list[k])]
           step == [y \in Seq(T) \X T |-> IF y[2] \in gone THEN y[1] ELSE Append(y[1], y[2])]
           w == CHOOSE h : h = Eq(h)
<1>1. n \in Nat /\ \A k \in 1 .. n : list[k] \in T
  OBVIOUS
<1>2. w = Eq(w)
  <2>1. step \in [Seq(T) \X T -> Seq(T)]
    <3>1. ASSUME NEW y \in Seq(T) \X T
          PROVE  (IF y[2] \in gone THEN y[1] ELSE Append(y[1], y[2])) \in Seq(T)
      <4>1. y[1] \in Seq(T) /\ y[2] \in T
        OBVIOUS
      <4> QED BY <4>1
    <3> QED BY <3>1
  <2>2. PICK g : GoesThrough(g, Seq(T), <<>>, list, step)
    <3>1. <<>> \in Seq(T)
      OBVIOUS
    <3> HIDE DEF step
    <3> QED BY <2>1, <3>1, EachExists
  <2>3. ASSUME NEW k \in 1 .. n
        PROVE  g[k] = IF list[k] \in gone THEN g[k-1] ELSE Append(g[k-1], list[k])
    <3>0. k - 1 \in 0 .. n
      BY <1>1
    <3>1. g[k-1] \in Seq(T) /\ list[k] \in T
      BY <1>1, <2>2, <3>0 DEF GoesThrough
    <3>2. step[<<g[k-1], list[k]>>] = IF list[k] \in gone THEN g[k-1] ELSE Append(g[k-1], list[k])
      BY <3>1
    <3> QED BY <2>2, <3>2 DEF GoesThrough
  <2>4. g = Eq(g)
    <3>1. \A k \in 0 .. n : k = 0 \/ k \in 1 .. n
      BY <1>1
    <3>2. g \in [0 .. n -> Seq(T)] /\ g[0] = <<>>
      BY <2>2 DEF GoesThrough
    <3> HIDE DEF n
    <3> QED BY <2>3, <3>1, <3>2
  <2> HIDE DEF Eq
  <2> QED BY <2>4
<1>3. Without(list, gone) = w[n]
  BY DEF Without, Each
<1>4. /\ w[0] = <<>>
      /\ \A k \in 1 .. n : w[k] = IF list[k] \in gone THEN w[k-1] ELSE Append(w[k-1], list[k])
  <2>1. 0 \in 0 .. n /\ \A k \in 1 .. n : k \in 0 .. n /\ k # 0
    BY <1>1
  <2> HIDE DEF w
  <2> QED BY <1>2, <2>1
<1>5. \A k \in 0 .. n : w[k] \in Seq(T)
  <2> DEFINE Q == {k \in 0 .. n : w[k] \in Seq(T)}
  <2> HIDE DEF w
  <2>1. 0 \in Q
    <3>1. <<>> \in Seq(T) /\ 0 \in 0 .. n
      BY <1>1
    <3> QED BY <1>4, <3>1
  <2>2. ASSUME NEW k \in 0 .. n - 1, k \in Q PROVE k + 1 \in Q
    <3>1. k + 1 \in 1 .. n /\ k + 1 - 1 = k /\ k + 1 \in 0 .. n /\ w[k] \in Seq(T) /\ list[k + 1] \in T
      BY <1>1, <2>2
    <3>2. w[k + 1] = IF list[k + 1] \in gone THEN w[k] ELSE Append(w[k], list[k + 1])
      BY <1>4, <3>1
    <3>3. w[k + 1] \in Seq(T)
      <4> HIDE DEF n
      <4> QED BY <3>1, <3>2
    <3> QED BY <3>1, <3>3
  <2>3. 0 .. n \subseteq Q
    <3> HIDE DEF Q, n
    <3> QED BY <1>1, <2>1, <2>2, Climb
  <2> QED BY <2>3
<1>6. w \in [0 .. n -> Seq(T)]
  <2>1. w = [k \in 0 .. n |-> w[k]]
    <3> HIDE DEF w
    <3> QED BY <1>2
  <2> HIDE DEF w, n
  <2> QED BY <1>5, <2>1
<1> HIDE DEF w, n
<1>7. Thins(w, T, list, gone)
  BY <1>3, <1>4, <1>6 DEF n, Thins
<1> QED BY <1>7

(* at: where in a list the elements of another are that lacks some.        *)
Filters(at, w, list, gone) ==
    /\ at \in [1 .. Len(w) -> 1 .. Len(list)]
    /\ \A i, j \in 1 .. Len(w) : i < j => at[i] < at[j]
    /\ \A k \in 1 .. Len(list) : list[k] \notin gone <=> \E i \in 1 .. Len(w) : at[i] = k
    /\ \A i \in 1 .. Len(w) : w[i] = list[at[i]]

(* Two lists that lack elements at the same places.                        *)
LEMMA WithoutBoth ==
    ASSUME NEW T, NEW list \in Seq(T), NEW gone, NEW U, NEW other \in Seq(U), NEW away,
           Len(list) = Len(other),
           \A k \in 1 .. Len(list) : list[k] \in gone <=> other[k] \in away
    PROVE  /\ Without(list, gone) \in Seq(T) /\ Without(other, away) \in Seq(U)
           /\ Len(Without(list, gone)) = Len(Without(other, away))
           /\ \E at : /\ Filters(at, Without(list, gone), list, gone)
                      /\ Filters(at, Without(other, away), other, away)
<1> DEFINE n == Len(list)
<1>1. n \in Nat /\ \A k \in 1 .. n : list[k] \in T /\ other[k] \in U
  OBVIOUS
<1>12. PICK w : Thins(w, T, list, gone)
  BY WithoutThins
<1>13. PICK v : Thins(v, U, other, away)
  BY WithoutThins
<1>2. /\ w \in [0 .. n -> Seq(T)] /\ w[0] = <<>>
      /\ \A k \in 1 .. n : w[k] = IF list[k] \in gone THEN w[k-1] ELSE Append(w[k-1], list[k])
      /\ Without(list, gone) = w[n]
  BY <1>12 DEF Thins
<1>3. /\ v \in [0 .. n -> Seq(U)] /\ v[0] = <<>>
      /\ \A k \in 1 .. n : v[k] = IF other[k] \in away THEN v[k-1] ELSE Append(v[k-1], other[k])
      /\ Without(other, away) = v[n]
  BY <1>13 DEF Thins
<1> DEFINE At(at, x, l, g, m) ==
             /\ at \in [1 .. Len(x) -> 1 .. m]
             /\ \A i, j \in 1 .. Len(x) : i < j => at[i] < at[j]
             /\ \A k \in 1 .. m : l[k] \notin g <=> \E i \in 1 .. Len(x) : at[i] = k
             /\ \A i \in 1 .. Len(x) : x[i] = l[at[i]]
           Good(m) == /\ Len(w[m]) = Len(v[m])
                      /\ \E at : At(at, w[m], list, gone, m) /\ At(at, v[m], other, away, m)
           Q == {m \in 0 .. n : Good(m)}
<1>4. 0 \in Q
  <2>1. Len(w[0]) = 0 /\ Len(v[0]) = 0
    BY <1>2, <1>3
  <2>2. At([i \in 1 .. 0 |-> 1], w[0], list, gone, 0) /\ At([i \in 1 .. 0 |-> 1], v[0], other, away, 0)
    BY <2>1
  <2>3. 0 \in 0 .. n
    BY <1>1
  <2> HIDE DEF At, n
  <2> QED BY <2>1, <2>2, <2>3
<1>5. ASSUME NEW m \in 0 .. n - 1, m \in Q PROVE m + 1 \in Q
  <2>1. /\ m \in Nat /\ m \in 0 .. n /\ m + 1 \in 1 .. n /\ m + 1 \in 0 .. n /\ m + 1 - 1 = m
    BY <1>1
  <2>2. /\ w[m] \in Seq(T) /\ v[m] \in Seq(U) /\ Len(w[m]) \in Nat
        /\ Len(w[m]) = Len(v[m])
    BY <1>2, <1>3, <1>5, <2>1
  <2>3. PICK at : At(at, w[m], list, gone, m) /\ At(at, v[m], other, away, m)
    BY <1>5
  <2>4. list[m+1] \in gone <=> other[m+1] \in away
    BY <2>1
  <2>5. CASE list[m+1] \in gone
    <3>1. w[m+1] = w[m] /\ v[m+1] = v[m]
      BY <1>2, <1>3, <2>1, <2>4, <2>5
    <3>2. ASSUME NEW x, NEW l, NEW g, At(at, x, l, g, m), l[m+1] \in g PROVE At(at, x, l, g, m + 1)
      <4>1. at \in [1 .. Len(x) -> 1 .. m + 1]
        BY <2>1, <3>2
      <4>2. ASSUME NEW k \in 1 .. m + 1 PROVE l[k] \notin g <=> \E i \in 1 .. Len(x) : at[i] = k
        <5>1. k = m + 1 \/ k \in 1 .. m
          BY <2>1
        <5>2. CASE k = m + 1
          <6>1. \A i \in 1 .. Len(x) : at[i] # m + 1
            BY <2>1, <3>2
          <6> QED BY <3>2, <5>2, <6>1
        <5> QED BY <3>2, <5>1, <5>2
      <4> QED BY <3>2, <4>1, <4>2
    <3> HIDE DEF At, n
    <3> QED BY <2>1, <2>2, <2>3, <2>4, <2>5, <3>1, <3>2
  <2>6. CASE list[m+1] \notin gone
    <3> DEFINE new == [i \in 1 .. Len(w[m]) + 1 |-> IF i = Len(w[m]) + 1 THEN m + 1 ELSE at[i]]
    <3>1. w[m+1] = Append(w[m], list[m+1]) /\ v[m+1] = Append(v[m], other[m+1])
      <4>1. w[m+1] = IF list[m+1] \in gone THEN w[m] ELSE Append(w[m], list[m+1])
        BY <1>2, <2>1
      <4>2. v[m+1] = IF other[m+1] \in away THEN v[m] ELSE Append(v[m], other[m+1])
        BY <1>3, <2>1
      <4> QED BY <2>4, <2>6, <4>1, <4>2
    <3>2. ASSUME NEW V, NEW x \in Seq(V), NEW l, NEW g, At(at, x, l, g, m), l[m+1] \notin g,
                 l[m+1] \in V, Len(x) = Len(w[m])
          PROVE  At(new, Append(x, l[m+1]), l, g, m + 1)
      <4> DEFINE y == Append(x, l[m+1])
                 z == Len(x)
      <4>1. /\ Len(y) = z + 1 /\ z \in Nat /\ y[z + 1] = l[m+1]
            /\ \A i \in 1 .. z : y[i] = x[i]
        <5>1. l[m+1] \in V /\ Len(x) \in Nat
          BY <3>2
        <5> QED BY <5>1, AppendIs
      <4>2. /\ new \in [1 .. z + 1 -> 1 .. m + 1] /\ new[z + 1] = m + 1
            /\ \A i \in 1 .. z : new[i] = at[i] /\ at[i] \in 1 .. m
        <5>1. z \in Nat /\ z = Len(w[m]) /\ at \in [1 .. z -> 1 .. m]
          BY <3>2
        <5> HIDE DEF z
        <5>2. new = [i \in 1 .. z + 1 |-> IF i = z + 1 THEN m + 1 ELSE at[i]]
          BY <5>1
        <5>3. \A i \in 1 .. z : i \in 1 .. z + 1 /\ i # z + 1 /\ at[i] \in 1 .. m
          <6>1. \A i \in 1 .. z : i \in 1 .. z + 1 /\ i # z + 1
            BY <5>1
          <6>2. ASSUME NEW i \in 1 .. z PROVE at[i] \in 1 .. m
            <7> DEFINE D == 1 .. z
                       R == 1 .. m
            <7>1. at \in [D -> R] /\ i \in D
              BY <5>1
            <7> HIDE DEF D, R
            <7>2. at[i] \in R
              BY <7>1
            <7> QED BY <7>2 DEF R
          <6> QED BY <6>1, <6>2
        <5>4. z + 1 \in 1 .. z + 1 /\ m + 1 \in 1 .. m + 1 /\ \A k \in 1 .. m : k \in 1 .. m + 1
          BY <2>1, <5>1
        <5>5. \A i \in 1 .. z + 1 : (IF i = z + 1 THEN m + 1 ELSE at[i]) \in 1 .. m + 1
          <6>1. \A i \in 1 .. z + 1 : i = z + 1 \/ i \in 1 .. z
            BY <5>1
          <6> QED BY <5>3, <5>4, <6>1
        <5> HIDE DEF new
        <5> QED BY <5>2, <5>3, <5>4, <5>5
      <4>3. \A i \in 1 .. z + 1 : i = z + 1 \/ i \in 1 .. z
        BY <4>1
      <4>4. \A i \in 1 .. z : i \in 1 .. z + 1
        BY <4>1
      <4> HIDE DEF y, new, n
      <4>5. \A i, j \in 1 .. z + 1 : i < j => new[i] < new[j]
        <5>1. ASSUME NEW i \in 1 .. z + 1, NEW j \in 1 .. z + 1, i < j PROVE new[i] < new[j]
          <6>1. i \in 1 .. z
            BY <4>1, <5>1
          <6>2. CASE j = z + 1
            <7>1. new[i] \in 1 .. m /\ new[j] = m + 1
              BY <4>2, <6>1, <6>2
            <7> QED BY <2>1, <7>1
          <6>3. CASE j \in 1 .. z
            BY <3>2, <4>2, <5>1, <6>1, <6>3
          <6> QED BY <4>3, <6>2, <6>3
        <5> QED BY <5>1
      <4>6. ASSUME NEW k \in 1 .. m + 1
            PROVE  l[k] \notin g <=> \E i \in 1 .. z + 1 : new[i] = k
        <5>1. k = m + 1 \/ k \in 1 .. m
          BY <2>1
        <5>2. CASE k = m + 1
          <6>1. z + 1 \in 1 .. z + 1
            BY <4>1
          <6> QED BY <3>2, <4>2, <5>2, <6>1
        <5>3. CASE k \in 1 .. m
          <6>1. k # m + 1
            BY <2>1, <5>3
          <6>2. (\E i \in 1 .. z + 1 : new[i] = k) <=> (\E i \in 1 .. z : at[i] = k)
            BY <4>2, <4>3, <4>4, <6>1
          <6>3. l[k] \notin g <=> \E i \in 1 .. Len(x) : at[i] = k
            BY <3>2, <5>3
          <6> QED BY <6>2, <6>3
        <5> QED BY <5>1, <5>2, <5>3
      <4>7. \A i \in 1 .. z + 1 : y[i] = l[new[i]]
        <5>1. \A i \in 1 .. z : x[i] = l[at[i]]
          BY <3>2
        <5> QED BY <4>1, <4>2, <4>3, <5>1
      <4> HIDE DEF z
      <4>8. At(new, y, l, g, m + 1)
        BY <4>1, <4>2, <4>5, <4>6, <4>7
      <4> QED BY <4>8 DEF y
    <3>3. /\ w[m+1] \in Seq(T) /\ v[m+1] \in Seq(U)
          /\ Len(w[m+1]) = Len(v[m+1]) /\ list[m+1] \in T /\ other[m+1] \in U
      <4>1. list[m+1] \in T /\ other[m+1] \in U
        BY <1>1, <2>1
      <4> QED BY <2>2, <3>1, <4>1
    <3> HIDE DEF At, new, n
    <3>4. At(new, w[m+1], list, gone, m + 1)
      BY <2>2, <2>3, <2>6, <3>1, <3>2, <3>3
    <3>5. At(new, v[m+1], other, away, m + 1)
      BY <2>2, <2>3, <2>4, <2>6, <3>1, <3>2, <3>3
    <3> QED BY <2>1, <3>3, <3>4, <3>5
  <2> QED BY <2>5, <2>6
<1>6. n \in Q
  <2>1. 0 .. n \subseteq Q
    <3> HIDE DEF Q, n
    <3> QED BY <1>1, <1>4, <1>5, Climb
  <2>2. n \in 0 .. n
    BY <1>1
  <2> QED BY <2>1, <2>2
<1>7. PICK at : At(at, w[n], list, gone, n) /\ At(at, v[n], other, away, n)
  BY <1>6
<1>8. Filters(at, w[n], list, gone) /\ Filters(at, v[n], other, away)
  <2>1. n = Len(list) /\ n = Len(other)
    OBVIOUS
  <2> HIDE DEF n
  <2> QED BY <1>7, <2>1 DEF Filters
<1>9. w[n] \in Seq(T) /\ v[n] \in Seq(U) /\ Len(w[n]) = Len(v[n])
  BY <1>1, <1>2, <1>3, <1>6
<1> HIDE DEF n, Q, At
<1> QED BY <1>2, <1>3, <1>8, <1>9

(* A list without some elements has the others, each as often.             *)
LEMMA WithoutIs ==
    ASSUME NEW T, NEW list \in Seq(T), NEW gone
    PROVE  LET w == Without(list, gone)
           IN  /\ w \in Seq(T) /\ ToSet(w) = ToSet(list) \ gone
               /\ \E at : Filters(at, w, list, gone)
<1> DEFINE w == Without(list, gone)
<1>1. w \in Seq(T) /\ \E at : Filters(at, w, list, gone)
  BY WithoutBoth
<1>2. PICK at : Filters(at, w, list, gone)
  BY <1>1
<1>3. DOMAIN w = 1 .. Len(w) /\ DOMAIN list = 1 .. Len(list)
  BY <1>1
<1> HIDE DEF w
<1>4. ToSet(w) = ToSet(list) \ gone
  BY <1>2, <1>3 DEF ToSet, Filters
<1> QED BY <1>1, <1>4 DEF w

-----------------------------------------------------------------------------
(* Capacities.                                                             *)

Capacities == 0 .. Words - 1

(* The remainder is less than what is divided by.                          *)
LEMMA RemainderIs ==
    ASSUME NEW a \in Nat
    PROVE  a % Words \in Capacities
BY ClauseMemoryAssumption DEF Capacities

LEMMA GrownIs ==
    ASSUME NEW c \in Nat
    PROVE  Grown(c) \in Capacities
<1>1. c + ((c \div 2 + c \div 8 + 2) \div 2) * 2 \in Nat
  OBVIOUS
<1> QED BY <1>1, RemainderIs DEF Grown

(* What capacity() computes for each capacity that there is.               *)
IsEnough(e, min) ==
    /\ e \in [0 .. Words -> Nat \cup {None}]
    /\ \A c \in 0 .. Words : e[c] = IF c >= min THEN c ELSE IF Grown(c) <= c THEN None ELSE e[Grown(c)]
    /\ \A c \in 0 .. Words : Capacity(c, min) = e[c]

LEMMA EnoughExists ==
    ASSUME NEW min \in Int
    PROVE  \E e : IsEnough(e, min)
<1> DEFINE Of(f, c) == IF c >= min THEN c ELSE IF Grown(c) <= c THEN None ELSE f[Words - Grown(c)]
           S == Nat \cup {None}
           n == Words
           step == [y \in [0 .. n -> S] \X (0 .. n) |-> Of(y[1], n - y[2])]
<1>1. n \in Nat
  BY ClauseMemoryAssumption
<1>2. \A v \in 0 .. n : n - v \in 0 .. n /\ n - v \in Nat /\ n - (n - v) = v
  BY <1>1
<1>3. \A c \in 0 .. n : Grown(c) \in 0 .. n /\ Grown(c) \in Nat /\ n - Grown(c) \in 0 .. n
  <2>1. ASSUME NEW c \in 0 .. n PROVE Grown(c) \in 0 .. n
    <3>1. Grown(c) \in 0 .. n - 1
      <4>1. c \in Nat
        BY <1>1
      <4> QED BY <4>1, GrownIs DEF Capacities
    <3> QED BY <1>1, <3>1
  <2> HIDE DEF n
  <2> QED BY <1>1, <2>1
<1> HIDE DEF n
<1>4. ASSUME NEW f \in [0 .. n -> S], NEW v \in 0 .. n PROVE Of(f, n - v) \in S
  <2> DEFINE c == n - v
  <2>1. c \in 0 .. n /\ c \in Nat
    BY <1>2
  <2> HIDE DEF c
  <2>2. f[n - Grown(c)] \in S
    BY <1>3, <2>1
  <2>3. Of(f, c) \in S
    BY <2>1, <2>2 DEF n
  <2> QED BY <2>3 DEF c
<1>5. step \in [[0 .. n -> S] \X (0 .. n) -> S]
  <2>1. ASSUME NEW y \in [0 .. n -> S] \X (0 .. n) PROVE Of(y[1], n - y[2]) \in S
    <3>1. y[1] \in [0 .. n -> S] /\ y[2] \in 0 .. n
      OBVIOUS
    <3> HIDE DEF Of, S
    <3> QED BY <1>4, <3>1
  <2> HIDE DEF Of, S
  <2> QED BY <2>1
<1>6. \A f \in [0 .. n -> S] : \A v \in 0 .. n : step[<<f, v>>] = Of(f, n - v)
  <2> HIDE DEF Of, S
  <2> QED OBVIOUS
<1>7. ASSUME NEW f \in [0 .. n -> S], NEW h \in [0 .. n -> S], NEW v \in 0 .. n,
             \A w \in 0 .. v - 1 : f[w] = h[w]
      PROVE  step[<<f, v>>] = step[<<h, v>>]
  <2> DEFINE c == n - v
  <2>1. c \in 0 .. n /\ n - c = v
    BY <1>2
  <2> HIDE DEF c
  <2>2. CASE Grown(c) > c
    <3>1. n - Grown(c) \in 0 .. v - 1
      BY <1>1, <1>3, <2>1, <2>2
    <3>2. f[n - Grown(c)] = h[n - Grown(c)]
      BY <1>7, <3>1
    <3>3. Of(f, c) = Of(h, c)
      BY <3>2 DEF n
    <3> HIDE DEF step, Of, S
    <3> QED BY <1>6, <3>3 DEF c
  <2>3. CASE ~ (Grown(c) > c)
    <3>1. Grown(c) <= c
      BY <1>1, <1>3, <2>1, <2>3
    <3>2. Of(f, c) = Of(h, c)
      BY <3>1
    <3> HIDE DEF step, Of, S
    <3> QED BY <1>6, <3>2 DEF c
  <2> QED BY <2>2, <2>3
<1>8. ReadsBelow(step, n, S)
  <2> HIDE DEF step, S
  <2> QED BY <1>5, <1>7 DEF ReadsBelow
<1>9. PICK f : IsDetermined(f, step, n, S)
  <2>1. S # {}
    OBVIOUS
  <2> HIDE DEF step, S
  <2> QED BY <1>1, <1>8, <2>1, CourseOfValues
<1> DEFINE g == [c \in 0 .. n |-> f[n - c]]
           Eq(h) == [c \in 0 .. n |-> IF c >= min THEN c ELSE IF Grown(c) <= c THEN None ELSE h[Grown(c)]]
<1>10. g \in [0 .. n -> S]
  <2> HIDE DEF S
  <2> QED BY <1>2, <1>9 DEF IsDetermined
<1>11. ASSUME NEW c \in 0 .. n
       PROVE  g[c] = IF c >= min THEN c ELSE IF Grown(c) <= c THEN None ELSE g[Grown(c)]
  <2>1. n - c \in 0 .. n /\ n - (n - c) = c
    BY <1>1
  <2>2. f[n - c] = Of(f, c)
    <3>1. f \in [0 .. n -> S] /\ f[n - c] = step[<<f, n - c>>]
      BY <1>9, <2>1 DEF IsDetermined
    <3> HIDE DEF step, S, Of
    <3> QED BY <1>6, <2>1, <3>1
  <2>3. g[c] = f[n - c] /\ g[Grown(c)] = f[n - Grown(c)]
    BY <1>3
  <2> HIDE DEF g
  <2> QED BY <2>2, <2>3 DEF n
<1>12. g = Eq(g)
  <2> HIDE DEF S
  <2>1. g = [c \in 0 .. n |-> g[c]]
    OBVIOUS
  <2> HIDE DEF g
  <2> QED BY <1>11, <2>1
<1> DEFINE e == CHOOSE h : h = Eq(h)
<1>13. e = Eq(e)
  <2> HIDE DEF Eq, g
  <2> QED BY <1>12
<1>14. \A c \in 0 .. n : Capacity(c, min) = e[c]
  BY DEF Capacity, n
<1>15. \A c \in 0 .. n : e[c] = IF c >= min THEN c ELSE IF Grown(c) <= c THEN None ELSE e[Grown(c)]
  <2> HIDE DEF e
  <2> QED BY <1>13
<1> HIDE DEF e
<1>16. e \in [0 .. n -> S]
  <2> DEFINE Q == {v \in 0 .. n : \A u \in 0 .. v : e[n - u] \in S}
  <2>1. ASSUME NEW v \in 0 .. n, \A u \in 0 .. v - 1 : e[n - u] \in S PROVE e[n - v] \in S
    <3> DEFINE c == n - v
    <3>1. c \in 0 .. n /\ c \in Nat /\ n - c = v
      BY <1>2
    <3> HIDE DEF c
    <3>2. ASSUME Grown(c) > c PROVE e[Grown(c)] \in S
      <4>1. n - Grown(c) \in 0 .. v - 1 /\ n - (n - Grown(c)) = Grown(c)
        BY <1>1, <1>3, <3>1, <3>2
      <4> HIDE DEF S
      <4> QED BY <2>1, <4>1
    <3>3. ~ (Grown(c) <= c) => Grown(c) > c
      BY <1>3, <3>1
    <3>4. e[c] \in S
      <4>1. e[c] = IF c >= min THEN c ELSE IF Grown(c) <= c THEN None ELSE e[Grown(c)]
        BY <1>15, <3>1
      <4> QED BY <3>1, <3>2, <3>3, <4>1
    <3> QED BY <3>4 DEF c
  <2>2. 0 \in Q
    <3>1. \A u \in 0 .. 0 - 1 : FALSE
      OBVIOUS
    <3>2. 0 \in 0 .. n /\ \A u \in 0 .. 0 : u = 0
      BY <1>1
    <3> HIDE DEF S
    <3> QED BY <2>1, <3>1, <3>2
  <2>3. ASSUME NEW v \in 0 .. n - 1, v \in Q PROVE v + 1 \in Q
    <3>1. v + 1 \in 0 .. n /\ v + 1 - 1 = v /\ \A u \in 0 .. v + 1 : u = v + 1 \/ u \in 0 .. v
      BY <1>1
    <3> HIDE DEF S
    <3>2. \A u \in 0 .. v : e[n - u] \in S
      BY <2>3
    <3>3. e[n - (v + 1)] \in S
      <4>1. \A u \in 0 .. v + 1 - 1 : e[n - u] \in S
        BY <3>1, <3>2
      <4> QED BY <2>1, <3>1, <4>1
    <3> QED BY <3>1, <3>2, <3>3
  <2>4. n \in Q
    <3>1. 0 .. n \subseteq Q
      <4> HIDE DEF Q
      <4> QED BY <1>1, <2>2, <2>3, Climb
    <3> HIDE DEF Q
    <3> QED BY <1>1, <3>1
  <2>5. ASSUME NEW c \in 0 .. n PROVE e[c] \in S
    <3>1. n - c \in 0 .. n /\ n - (n - c) = c
      BY <1>1
    <3> HIDE DEF S
    <3> QED BY <2>4, <3>1
  <2>6. e = [c \in 0 .. n |-> e[c]]
    BY <1>13
  <2> HIDE DEF S, Q
  <2> QED BY <2>5, <2>6
<1> HIDE DEF g, Eq, step
<1> QED BY <1>14, <1>15, <1>16 DEF IsEnough, n

(* A region grows, until it is enough or can grow no more.                 *)
LEMMA CapacityIs ==
    ASSUME NEW c \in 0 .. Words, NEW min \in Int
    PROVE  /\ Capacity(c, min) \in Nat \cup {None}
           /\ Grown(c) \in 0 .. Words
           /\ Capacity(c, min) = IF c >= min THEN c
                                 ELSE IF Grown(c) <= c THEN None ELSE Capacity(Grown(c), min)
<1>1. PICK e : IsEnough(e, min)
  BY EnoughExists
<1>2. Grown(c) \in 0 .. Words
  <2>1. c \in Nat /\ Words \in Nat
    BY ClauseMemoryAssumption
  <2> QED BY <2>1, GrownIs DEF Capacities
<1>3. Capacity(c, min) = e[c] /\ Capacity(Grown(c), min) = e[Grown(c)] /\ e[c] \in Nat \cup {None}
  BY <1>1, <1>2 DEF IsEnough
<1>4. e[c] = IF c >= min THEN c ELSE IF Grown(c) <= c THEN None ELSE e[Grown(c)]
  BY <1>1 DEF IsEnough
<1> QED BY <1>2, <1>3, <1>4

(* A set with each number that all greater ones are in has all.            *)
LEMMA Descend ==
    ASSUME NEW n \in Nat, NEW Q, \A c \in 0 .. n : (\A d \in c + 1 .. n : d \in Q) => c \in Q
    PROVE  0 .. n \subseteq Q
<1> DEFINE Missed == {u \in 0 .. n : n - u \notin Q}
<1> SUFFICES ASSUME Missed # {} PROVE FALSE
  <2>1. ASSUME Missed = {}, NEW c \in 0 .. n PROVE c \in Q
    <3>1. n - c \in 0 .. n /\ n - (n - c) = c
      OBVIOUS
    <3> QED BY <2>1, <3>1
  <2> HIDE DEF Missed
  <2> QED BY <2>1
<1>1. PICK u \in Missed : \A j \in Missed : u <= j
  <2>1. Missed \subseteq Nat
    OBVIOUS
  <2> HIDE DEF Missed
  <2> QED BY <2>1, LeastNat
<1>2. u \in 0 .. n /\ n - u \notin Q /\ n - u \in 0 .. n
  OBVIOUS
<1>3. ASSUME NEW d \in n - u + 1 .. n PROVE d \in Q
  <2>1. n - d \in 0 .. n /\ ~ (u <= n - d) /\ n - (n - d) = d
    BY <1>2
  <2>2. n - d \notin Missed
    <3> HIDE DEF Missed
    <3> QED BY <1>1, <2>1
  <2> QED BY <2>1, <2>2
<1> QED BY <1>2, <1>3

(* What there is after growing is enough.                                  *)
LEMMA CapacityEnough ==
    ASSUME NEW c \in 0 .. Words, NEW min \in Int, Capacity(c, min) # None
    PROVE  /\ Capacity(c, min) \in 0 .. Words /\ Capacity(c, min) >= c /\ Capacity(c, min) >= min
           /\ c \in Capacities => Capacity(c, min) \in Capacities
<1> DEFINE Good(d) == Capacity(d, min) # None =>
                         Capacity(d, min) \in 0 .. Words /\ Capacity(d, min) >= d /\ Capacity(d, min) >= min
                         /\ (d \in Capacities => Capacity(d, min) \in Capacities)
           Q == {d \in 0 .. Words : Good(d)}
<1>0. Words \in Nat
  BY ClauseMemoryAssumption
<1>1. ASSUME NEW d \in 0 .. Words, \A x \in d + 1 .. Words : x \in Q PROVE d \in Q
  <2>1. CASE d >= min
    BY <2>1, CapacityIs
  <2>2. CASE d < min /\ Grown(d) > d
    <3>1. Grown(d) \in d + 1 .. Words
      BY <1>0, <2>2, CapacityIs
    <3>2. Grown(d) \in Q
      <4> HIDE DEF Q
      <4> QED BY <1>1, <3>1
    <3>3. Capacity(d, min) = Capacity(Grown(d), min)
      <4>1. ~ (d >= min) /\ ~ (Grown(d) <= d)
        BY <1>0, <2>2, <3>1
      <4> QED BY <4>1, CapacityIs
    <3>4. Grown(d) \in Capacities
      <4>1. d \in Nat
        BY <1>0
      <4> QED BY <4>1, GrownIs
    <3> QED BY <1>0, <2>2, <3>2, <3>3, <3>4
  <2>3. CASE d < min /\ ~ (Grown(d) > d)
    <3>1. ~ (d >= min) /\ Grown(d) <= d
      <4>1. Grown(d) \in 0 .. Words
        BY CapacityIs
      <4> QED BY <1>0, <2>3, <4>1
    <3>2. Capacity(d, min) = None
      BY <3>1, CapacityIs
    <3> QED BY <3>2
  <2> QED BY <1>0, <2>1, <2>2, <2>3
<1>2. c \in Q
  <2>1. 0 .. Words \subseteq Q
    <3> HIDE DEF Q
    <3> QED BY <1>0, <1>1, Descend
  <2> HIDE DEF Q
  <2> QED BY <2>1
<1> QED BY <1>2

(* A step that grows.                                                      *)
LEMMA CapacityStep ==
    ASSUME NEW c \in 0 .. Words, NEW min \in Int, c < min, Capacity(c, min) # None
    PROVE  Grown(c) \in c + 1 .. Words /\ Capacity(c, min) = Capacity(Grown(c), min)
<1>0. Words \in Nat
  BY ClauseMemoryAssumption
<1>1. ~ (c >= min) /\ Grown(c) \in 0 .. Words
  BY <1>0, CapacityIs
<1>2. ~ (Grown(c) <= c)
  BY <1>1, CapacityIs
<1>3. Capacity(c, min) = Capacity(Grown(c), min)
  BY <1>1, <1>2, CapacityIs
<1> QED BY <1>0, <1>1, <1>2, <1>3

(* Growing to what growing came to comes to it again.                      *)
LEMMA CapacityAgain ==
    ASSUME NEW c \in 0 .. Words, NEW min \in Int, Capacity(c, min) # None
    PROVE  Capacity(c, Capacity(c, min)) = Capacity(c, min)
<1> DEFINE Good(d) == Capacity(d, min) # None => Capacity(d, Capacity(d, min)) = Capacity(d, min)
           Q == {d \in 0 .. Words : Good(d)}
<1>0. Words \in Nat
  BY ClauseMemoryAssumption
<1>1. ASSUME NEW d \in 0 .. Words, \A x \in d + 1 .. Words : x \in Q PROVE d \in Q
  <2> DEFINE k == Capacity(d, min)
  <2> SUFFICES ASSUME k # None PROVE Capacity(d, k) = k
    OBVIOUS
  <2>1. k \in 0 .. Words /\ k >= d
    BY CapacityEnough
  <2>2. CASE d >= min
    <3>1. k = d
      BY <2>2, CapacityIs
    <3>2. d \in Int /\ d >= d
      BY <1>0
    <3> QED BY <3>1, <3>2, CapacityIs
  <2>3. CASE d < min
    <3>1. Grown(d) \in d + 1 .. Words /\ k = Capacity(Grown(d), min)
      BY <2>3, CapacityStep
    <3>2. Grown(d) \in Q
      <4> HIDE DEF Q
      <4> QED BY <1>1, <3>1
    <3>3. Capacity(Grown(d), k) = k /\ Grown(d) \in 0 .. Words
      BY <3>1, <3>2
    <3>4. Grown(d) <= k
      BY <3>1, <3>3, CapacityEnough
    <3> HIDE DEF k
    <3>5. ~ (d >= k) /\ ~ (Grown(d) <= d) /\ k \in Int
      BY <1>0, <2>1, <3>1, <3>4
    <3> QED BY <3>3, <3>5, CapacityIs
  <2> QED BY <1>0, <2>2, <2>3
<1>2. c \in Q
  <2>1. 0 .. Words \subseteq Q
    <3> HIDE DEF Q
    <3> QED BY <1>0, <1>1, Descend
  <2> HIDE DEF Q
  <2> QED BY <2>1
<1> QED BY <1>2

(* What growing in two steps comes to, growing in one comes to.            *)
LEMMA CapacityTwice ==
    ASSUME NEW a \in 0 .. Words, NEW c \in 0 .. Words, Capacity(a, c) = c,
           NEW min \in Int, Capacity(c, min) # None
    PROVE  Capacity(a, Capacity(c, min)) = Capacity(c, min)
<1> DEFINE k == Capacity(c, min)
           Good(d) == Capacity(d, c) = c => Capacity(d, k) = k
           Q == {d \in 0 .. Words : Good(d)}
<1>0. Words \in Nat /\ k \in 0 .. Words /\ k >= c
  BY ClauseMemoryAssumption, CapacityEnough
<1>1. Capacity(c, k) = k
  BY CapacityAgain
<1> HIDE DEF k
<1>2. ASSUME NEW d \in 0 .. Words, \A x \in d + 1 .. Words : x \in Q PROVE d \in Q
  <2> SUFFICES ASSUME Capacity(d, c) = c PROVE Capacity(d, k) = k
    OBVIOUS
  <2>1. c # None /\ c \in Int
    BY <1>0 DEF None
  <2>2. c >= d
    BY <2>1, CapacityEnough
  <2>3. CASE d = c
    BY <1>1, <2>3
  <2>4. CASE d < c
    <3>1. Grown(d) \in d + 1 .. Words /\ Capacity(Grown(d), c) = c
      BY <2>1, <2>4, CapacityStep
    <3>2. Grown(d) \in Q
      <4> HIDE DEF Q
      <4> QED BY <1>2, <3>1
    <3>3. Capacity(Grown(d), k) = k
      BY <3>1, <3>2
    <3>4. ~ (d >= k) /\ ~ (Grown(d) <= d) /\ k \in Int
      BY <1>0, <2>4, <3>1
    <3> QED BY <3>3, <3>4, CapacityIs
  <2> QED BY <1>0, <2>2, <2>3, <2>4
<1>3. a \in Q
  <2>1. 0 .. Words \subseteq Q
    <3> HIDE DEF Q
    <3> QED BY <1>0, <1>2, Descend
  <2> HIDE DEF Q
  <2> QED BY <2>1
<1>4. Capacity(a, k) = k
  BY <1>3
<1> QED BY <1>4 DEF k

(* Growing to less comes to no more.                                       *)
LEMMA CapacityLess ==
    ASSUME NEW a \in 0 .. Words, NEW c \in 0 .. Words, Capacity(a, c) = c, NEW n \in Int, n <= c
    PROVE  Capacity(a, n) # None /\ Capacity(a, n) <= c
<1> DEFINE Good(d) == Capacity(d, c) = c => Capacity(d, n) # None /\ Capacity(d, n) <= c
           Q == {d \in 0 .. Words : Good(d)}
<1>0. Words \in Nat
  BY ClauseMemoryAssumption
<1>1. c # None /\ c \in Int
  BY <1>0 DEF None
<1>2. ASSUME NEW d \in 0 .. Words, \A x \in d + 1 .. Words : x \in Q PROVE d \in Q
  <2> SUFFICES ASSUME Capacity(d, c) = c PROVE Capacity(d, n) # None /\ Capacity(d, n) <= c
    OBVIOUS
  <2>1. c >= d
    BY <1>1, CapacityEnough
  <2>2. CASE d >= n
    <3>1. Capacity(d, n) = d
      BY <2>2, CapacityIs
    <3> QED BY <1>0, <2>1, <3>1 DEF None
  <2>3. CASE d < n
    <3>1. d < c
      BY <1>0, <2>3
    <3>2. Grown(d) \in d + 1 .. Words /\ Capacity(Grown(d), c) = c
      BY <1>1, <3>1, CapacityStep
    <3>3. Grown(d) \in Q
      <4> HIDE DEF Q
      <4> QED BY <1>2, <3>2
    <3>4. ~ (d >= n) /\ ~ (Grown(d) <= d)
      BY <1>0, <2>3, <3>2
    <3>5. Capacity(d, n) = Capacity(Grown(d), n)
      BY <3>4, CapacityIs
    <3> QED BY <3>2, <3>3, <3>5
  <2> QED BY <1>0, <2>2, <2>3
<1>3. a \in Q
  <2>1. 0 .. Words \subseteq Q
    <3> HIDE DEF Q
    <3> QED BY <1>0, <1>2, Descend
  <2> HIDE DEF Q
  <2> QED BY <2>1
<1> QED BY <1>3

-----------------------------------------------------------------------------
(* Sums.                                                                   *)

(* The sums of the first numbers.                                          *)
LEMMA SumExists ==
    ASSUME NEW n \in Nat, NEW f \in [0 .. n - 1 -> Nat]
    PROVE  \E sum \in [0 .. n -> Nat] :
              /\ sum[0] = 0 /\ \A k \in 1 .. n : sum[k] = sum[k-1] + f[k-1]
              /\ Total(f, n) = sum[n]
<1> DEFINE step == [y \in Nat \X (1 .. n) |-> y[1] + f[y[2] - 1]]
           Eq(h) == [k \in 0 .. n |-> IF k = 0 THEN 0 ELSE h[k-1] + f[k-1]]
           sum == CHOOSE h : h = Eq(h)
<1>0. \A k \in 1 .. n : k - 1 \in 0 .. n - 1 /\ f[k-1] \in Nat
  <2>1. \A k \in 1 .. n : k - 1 \in 0 .. n - 1
    OBVIOUS
  <2> QED BY <2>1
<1>1. step \in [Nat \X (1 .. n) -> Nat]
  <2>1. ASSUME NEW y \in Nat \X (1 .. n) PROVE y[1] + f[y[2] - 1] \in Nat
    <3>1. y[1] \in Nat /\ f[y[2] - 1] \in Nat
      BY <1>0
    <3> QED BY <3>1
  <2> QED BY <2>1
<1>2. PICK g : IsRecursive(g, Nat, 0, n, step)
  <2> HIDE DEF step
  <2> QED BY <1>1, Recursion
<1>3. ASSUME NEW k \in 1 .. n PROVE g[k] = g[k-1] + f[k-1]
  <2>1. k - 1 \in 0 .. n
    OBVIOUS
  <2>2. g[k-1] \in Nat /\ g[k] = step[<<g[k-1], k>>]
    BY <1>2, <2>1 DEF IsRecursive
  <2>3. step[<<g[k-1], k>>] = g[k-1] + f[k-1]
    BY <2>2
  <2> QED BY <2>2, <2>3
<1>4. g = Eq(g)
  <2>1. g \in [0 .. n -> Nat] /\ g[0] = 0
    BY <1>2 DEF IsRecursive
  <2>2. \A k \in 0 .. n : k = 0 \/ k \in 1 .. n
    OBVIOUS
  <2> QED BY <1>3, <2>1, <2>2
<1>5. sum = Eq(sum)
  <2> HIDE DEF Eq
  <2> QED BY <1>4
<1>6. Total(f, n) = sum[n]
  BY DEF Total
<1>7. sum[0] = 0 /\ \A k \in 1 .. n : sum[k] = sum[k-1] + f[k-1]
  <2>1. 0 \in 0 .. n /\ \A k \in 1 .. n : k \in 0 .. n /\ k # 0
    OBVIOUS
  <2> HIDE DEF sum
  <2> QED BY <1>5, <2>1
<1> HIDE DEF sum
<1>8. sum \in [0 .. n -> Nat]
  <2> DEFINE Q == {k \in 0 .. n : sum[k] \in Nat}
  <2>1. 0 \in Q
    BY <1>7
  <2>2. ASSUME NEW k \in 0 .. n - 1, k \in Q PROVE k + 1 \in Q
    <3>1. k + 1 \in 1 .. n /\ k + 1 - 1 = k /\ k + 1 \in 0 .. n /\ sum[k] \in Nat
      BY <2>2
    <3>2. sum[k+1] = sum[k] + f[k] /\ f[k] \in Nat
      BY <1>0, <1>7, <3>1
    <3> QED BY <3>1, <3>2
  <2>3. 0 .. n \subseteq Q
    <3> HIDE DEF Q
    <3> QED BY <2>1, <2>2, Climb
  <2>4. sum = [k \in 0 .. n |-> sum[k]]
    BY <1>5
  <2> QED BY <2>3, <2>4
<1> HIDE DEF Eq
<1> QED BY <1>6, <1>7, <1>8

LEMMA TotalType ==
    ASSUME NEW n \in Nat, NEW f \in [0 .. n - 1 -> Nat]
    PROVE  Total(f, n) \in Nat
<1>1. PICK sum \in [0 .. n -> Nat] : Total(f, n) = sum[n]
  BY SumExists
<1> QED BY <1>1

(* No number is greater: no sum is.                                        *)
LEMMA TotalLess ==
    ASSUME NEW n \in Nat, NEW f \in [0 .. n - 1 -> Nat], NEW h \in [0 .. n - 1 -> Nat],
           \A k \in 0 .. n - 1 : f[k] <= h[k]
    PROVE  Total(f, n) <= Total(h, n)
<1>1. PICK a \in [0 .. n -> Nat] : /\ a[0] = 0 /\ \A k \in 1 .. n : a[k] = a[k-1] + f[k-1]
                                   /\ Total(f, n) = a[n]
  BY SumExists
<1>2. PICK b \in [0 .. n -> Nat] : /\ b[0] = 0 /\ \A k \in 1 .. n : b[k] = b[k-1] + h[k-1]
                                   /\ Total(h, n) = b[n]
  BY SumExists
<1> DEFINE Q == {k \in 0 .. n : a[k] <= b[k]}
<1>3. 0 \in Q
  BY <1>1, <1>2
<1>4. ASSUME NEW k \in 0 .. n - 1, k \in Q PROVE k + 1 \in Q
  <2>1. k + 1 \in 1 .. n /\ k + 1 - 1 = k /\ k + 1 \in 0 .. n /\ k \in 0 .. n
    OBVIOUS
  <2>2. a[k+1] = a[k] + f[k] /\ b[k+1] = b[k] + h[k]
    BY <1>1, <1>2, <2>1
  <2>3. a[k] \in Nat /\ b[k] \in Nat /\ f[k] \in Nat /\ h[k] \in Nat /\ a[k] <= b[k] /\ f[k] <= h[k]
    BY <1>4, <2>1
  <2> QED BY <2>1, <2>2, <2>3
<1>5. n \in Q
  <2>1. 0 .. n \subseteq Q
    <3> HIDE DEF Q
    <3> QED BY <1>3, <1>4, Climb
  <2> QED BY <2>1
<1> QED BY <1>1, <1>2, <1>5

(* One number is another.                                                  *)
LEMMA TotalChanges ==
    ASSUME NEW n \in Nat, NEW f \in [0 .. n - 1 -> Nat], NEW h \in [0 .. n - 1 -> Nat],
           NEW r \in 0 .. n - 1, \A k \in 0 .. n - 1 : k # r => f[k] = h[k]
    PROVE  Total(h, n) = Total(f, n) - f[r] + h[r]
<1>1. PICK a \in [0 .. n -> Nat] : /\ a[0] = 0 /\ \A k \in 1 .. n : a[k] = a[k-1] + f[k-1]
                                   /\ Total(f, n) = a[n]
  BY SumExists
<1>2. PICK b \in [0 .. n -> Nat] : /\ b[0] = 0 /\ \A k \in 1 .. n : b[k] = b[k-1] + h[k-1]
                                   /\ Total(h, n) = b[n]
  BY SumExists
<1> DEFINE Q == {k \in 0 .. n : b[k] = IF k <= r THEN a[k] ELSE a[k] - f[r] + h[r]}
<1>3. 0 \in Q
  BY <1>1, <1>2
<1>4. ASSUME NEW k \in 0 .. n - 1, k \in Q PROVE k + 1 \in Q
  <2>1. k + 1 \in 1 .. n /\ k + 1 - 1 = k /\ k + 1 \in 0 .. n /\ k \in 0 .. n
    OBVIOUS
  <2>2. a[k+1] = a[k] + f[k] /\ b[k+1] = b[k] + h[k]
    BY <1>1, <1>2, <2>1
  <2>3. a[k] \in Nat /\ b[k] \in Nat /\ f[k] \in Nat /\ h[k] \in Nat /\ f[r] \in Nat /\ h[r] \in Nat
    BY <2>1
  <2>4. b[k] = IF k <= r THEN a[k] ELSE a[k] - f[r] + h[r]
    BY <1>4
  <2>5. CASE k = r
    BY <2>1, <2>2, <2>3, <2>4, <2>5
  <2>6. CASE k # r
    <3>1. f[k] = h[k] /\ (k + 1 <= r <=> k <= r)
      BY <2>6
    <3>2. CASE k < r
      BY <2>1, <2>2, <2>3, <2>4, <3>1, <3>2
    <3>3. CASE k > r
      <4>1. ~ (k <= r) /\ ~ (k + 1 <= r)
        BY <3>3
      <4>2. b[k+1] = a[k] - f[r] + h[r] + f[k] /\ a[k+1] = a[k] + f[k]
        BY <2>2, <2>4, <3>1, <4>1
      <4>3. b[k+1] = a[k+1] - f[r] + h[r]
        <5> DEFINE ak == a[k]
                   fk == f[k]
                   fr == f[r]
                   hr == h[r]
                   aj == a[k+1]
                   bj == b[k+1]
        <5>1. ak \in Nat /\ fk \in Nat /\ fr \in Nat /\ hr \in Nat
          BY <2>3
        <5>2. bj = ak - fr + hr + fk /\ aj = ak + fk
          BY <4>2
        <5>3. bj = aj - fr + hr
          <6> HIDE DEF ak, fk, fr, hr, aj, bj
          <6> QED BY <5>1, <5>2
        <5> QED BY <5>3
      <4> QED BY <2>1, <4>1, <4>3
    <3> QED BY <2>6, <3>2, <3>3
  <2> QED BY <2>5, <2>6
<1>5. n \in Q
  <2>1. 0 .. n \subseteq Q
    <3> HIDE DEF Q
    <3> QED BY <1>3, <1>4, Climb
  <2> QED BY <2>1
<1> QED BY <1>1, <1>2, <1>5

(* Numbers that are the same but for one.                                  *)
DifferAt(f, h, n, r) ==
    /\ f \in [0 .. n - 1 -> Nat] /\ h \in [0 .. n - 1 -> Nat]
    /\ r \in 0 .. n - 1 /\ \A k \in 0 .. n - 1 : k # r => f[k] = h[k]

LEMMA TotalDiffers ==
    ASSUME NEW n \in Nat, NEW f, NEW h, NEW r, DifferAt(f, h, n, r)
    PROVE  Total(h, n) = Total(f, n) - f[r] + h[r]
BY TotalChanges DEF DifferAt

(* One number more, and nothing after it.                                  *)
LEMMA TotalExtended ==
    ASSUME NEW n \in Nat, NEW m \in Nat, n < m,
           NEW f \in [0 .. n - 1 -> Nat], NEW h \in [0 .. m - 1 -> Nat],
           \A k \in 0 .. n - 1 : f[k] = h[k], \A k \in n + 1 .. m - 1 : h[k] = 0
    PROVE  Total(h, m) = Total(f, n) + h[n]
<1>1. PICK a \in [0 .. n -> Nat] : /\ a[0] = 0 /\ \A k \in 1 .. n : a[k] = a[k-1] + f[k-1]
                                   /\ Total(f, n) = a[n]
  BY SumExists
<1>2. PICK b \in [0 .. m -> Nat] : /\ b[0] = 0 /\ \A k \in 1 .. m : b[k] = b[k-1] + h[k-1]
                                   /\ Total(h, m) = b[m]
  BY SumExists
<1> DEFINE Q == {k \in 0 .. m : b[k] = IF k <= n THEN a[k] ELSE a[n] + h[n]}
<1>3. 0 \in Q
  BY <1>1, <1>2
<1>4. ASSUME NEW k \in 0 .. m - 1, k \in Q PROVE k + 1 \in Q
  <2>1. k + 1 \in 1 .. m /\ k + 1 - 1 = k /\ k + 1 \in 0 .. m /\ k \in 0 .. m /\ n \in 0 .. m - 1
    OBVIOUS
  <2>2. b[k+1] = b[k] + h[k] /\ b[k] \in Nat /\ h[k] \in Nat /\ h[n] \in Nat
    BY <1>2, <2>1
  <2>3. b[k] = IF k <= n THEN a[k] ELSE a[n] + h[n]
    BY <1>4
  <2>4. CASE k < n
    <3>1. k + 1 \in 1 .. n /\ k \in 0 .. n - 1
      BY <2>4
    <3>2. a[k+1] = a[k] + f[k] /\ f[k] = h[k]
      BY <1>1, <2>1, <3>1
    <3> QED BY <2>1, <2>2, <2>3, <2>4, <3>1, <3>2
  <2>5. CASE k = n
    BY <2>1, <2>2, <2>3, <2>5
  <2>6. CASE k > n
    <3>1. k \in n + 1 .. m - 1
      BY <2>6
    <3>2. h[k] = 0 /\ a[n] \in Nat
      BY <3>1
    <3> QED BY <2>1, <2>2, <2>3, <2>6, <3>2
  <2> QED BY <2>4, <2>5, <2>6
<1>5. m \in Q
  <2>1. 0 .. m \subseteq Q
    <3> HIDE DEF Q
    <3> QED BY <1>3, <1>4, Climb
  <2> QED BY <2>1
<1> QED BY <1>1, <1>2, <1>5

-----------------------------------------------------------------------------
(* The inductive invariant, of the state as a record: what the region has, *)
(* the watch lists, what preprocessing has, the trail and the two lists.   *)

ClauseType == [id : Nat, lits : Seq(Int), learnt : BOOLEAN, has_extra : BOOLEAN,
               removed : BOOLEAN, reloced : BOOLEAN, relocation : Int]
RegionType == [mem : UNION {[D -> ClauseType] : D \in SUBSET Nat}, sz : Nat, cap : Int, wasted : Nat,
               extra_clause_field : BOOLEAN]
EntryType  == [lit : Lits, reason : Nat \cup {Undef}]
StateType  == [ca : RegionType, clauses : Seq(Nat), learnts : Seq(Nat), watches : [Lits -> Seq(Nat)],
               dirty : SUBSET Lits, occurs : [Vars -> Seq(Nat)], queue : Seq(Nat), tmpunit : Nat,
               trail : Seq(EntryType), simp : BOOLEAN]

(* The references of clauses not removed, and of all; not of the unit one. *)
Named(g) == {r \in DOMAIN g.mem : g.mem[r].id > 0}
Live(g)  == {r \in Named(g) : ~ g.mem[r].removed}

Proper(c) == c \in Seq(Lits) /\ Len(c) > 1 /\ \A i, j \in DOMAIN c : i # j => Var(c[i]) # Var(c[j])

(* The region has grown from nothing, its clauses have each a place and a  *)
(* number of its own, and those not removed are at least two literals.     *)
SizesOK(g) ==
    /\ g.sz \in Capacities /\ g.cap \in Capacities /\ g.sz <= g.cap
    /\ Capacity(0, g.cap) = g.cap
    /\ Total(LiveWords(g), g.sz) <= g.sz - g.wasted
PlacesOK(g) ==
    \A r \in DOMAIN g.mem :
      /\ r < g.sz /\ ~ g.mem[r].reloced /\ Len(g.mem[r].lits) + 2 < Words
      /\ g.mem[r].learnt \/ g.extra_clause_field => g.mem[r].has_extra
NumbersOK(g) == \A r, q \in DOMAIN g.mem : g.mem[r].id = g.mem[q].id => r = q
ClausesOK(g) == \A r \in Live(g) : Proper(g.mem[r].lits)
RegionOK(g)  == SizesOK(g) /\ PlacesOK(g) /\ NumbersOK(g) /\ ClausesOK(g)

(* The lists of watchers; only dirty ones have clauses that are removed.   *)
WatchOK(g, w, d) ==
    \A l \in Lits :
      /\ ToSet(w[l]) \subseteq Named(g)
      /\ \A r \in Live(g) : r \in ToSet(w[l]) <=> -l \in {g.mem[r].lits[1], g.mem[r].lits[2]}
      /\ \A i, j \in DOMAIN w[l] : w[l][i] = w[l][j] /\ w[l][i] \in Live(g) => i = j
      /\ l \notin d => ToSet(w[l]) \subseteq Live(g)

(* What preprocessing has.                                                 *)
VarsOf(c) == {Var(c[k]) : k \in DOMAIN c}
OccursOK(g, occ) ==
    \A v \in Vars : /\ ToSet(occ[v]) \subseteq Named(g)
                    /\ \A r \in Live(g) : r \in ToSet(occ[v]) <=> v \in VarsOf(g.mem[r].lits)
SimpOK(s) ==
    s.simp => /\ OccursOK(s.ca, s.occurs)
              /\ ToSet(s.queue) \subseteq DOMAIN s.ca.mem
              /\ s.tmpunit \in DOMAIN s.ca.mem \ Named(s.ca) /\ ~ s.ca.mem[s.tmpunit].removed

(* No literal and its negation are true, and reasons are not removed.      *)
TrailOK(g, t) ==
    /\ \A i, j \in DOMAIN t : t[i].lit # -t[j].lit
    /\ \A i \in DOMAIN t : t[i].reason # Undef =>
          t[i].reason \in Live(g) /\ g.mem[t[i].reason].lits[1] = t[i].lit

Core(s) == /\ s \in StateType /\ RegionOK(s.ca) /\ WatchOK(s.ca, s.watches, s.dirty)
           /\ SimpOK(s) /\ TrailOK(s.ca, s.trail)

(* The lists of clauses have each once; only the one of those that were    *)
(* not learnt has removed ones, before preprocessing ends.                 *)
Single(list) == \A i, j \in DOMAIN list : list[i] = list[j] => i = j
ListsOK(s) ==
    /\ Single(s.learnts) /\ Single(s.clauses)
    /\ \A r \in ToSet(s.learnts) : r \in Live(s.ca) /\ s.ca.mem[r].learnt
    /\ \A r \in ToSet(s.clauses) : r \in Named(s.ca) /\ ~ s.ca.mem[r].learnt
    /\ s.simp => s.learnts = <<>>
Settled(s) == s.simp \/ ToSet(s.clauses) \subseteq Live(s.ca)

Valid(s) == Core(s) /\ ListsOK(s) /\ Settled(s)

MemInv == /\ made \in Nat /\ ca \in RegionType
          /\ Running => Valid(State) /\ \A r \in DOMAIN ca.mem : ca.mem[r].id <= made

-----------------------------------------------------------------------------
(* Allocation.                                                             *)

(* A clause as it is in a region.                                          *)
Placed(g, c) == [c EXCEPT !.has_extra = c.learnt \/ g.extra_clause_field, !.reloced = FALSE]

LEMMA RegionFacts ==
    ASSUME NEW g \in RegionType
    PROVE  /\ DOMAIN g.mem \subseteq Nat /\ g.mem \in [DOMAIN g.mem -> ClauseType]
           /\ \A r \in DOMAIN g.mem : g.mem[r] \in ClauseType
<1>1. PICK D \in SUBSET Nat : g.mem \in [D -> ClauseType]
  BY DEF RegionType
<1> QED BY <1>1

LEMMA PlacedIs ==
    ASSUME NEW g \in RegionType, NEW c \in ClauseType, Len(c.lits) + 2 < Words
    PROVE  /\ Placed(g, c) \in ClauseType
           /\ Placed(g, c) = [c EXCEPT !.has_extra = c.learnt \/ g.extra_clause_field, !.reloced = FALSE]
           /\ Placed(g, c).id = c.id /\ Placed(g, c).lits = c.lits /\ Placed(g, c).learnt = c.learnt
           /\ Placed(g, c).removed = c.removed /\ ~ Placed(g, c).reloced
           /\ Placed(g, c).has_extra = (c.learnt \/ g.extra_clause_field)
           /\ clauseWord32Size(Placed(g, c)) \in 1 .. Words - 1
<1>1. (c.learnt \/ g.extra_clause_field) \in BOOLEAN
  OBVIOUS
<1>2. /\ Placed(g, c) \in ClauseType
      /\ Placed(g, c).id = c.id /\ Placed(g, c).lits = c.lits /\ Placed(g, c).learnt = c.learnt
      /\ Placed(g, c).removed = c.removed /\ ~ Placed(g, c).reloced
      /\ Placed(g, c).has_extra = (c.learnt \/ g.extra_clause_field)
  BY <1>1 DEF Placed, ClauseType
<1>3. Len(c.lits) \in Nat
  BY DEF ClauseType
<1>4. clauseWord32Size(Placed(g, c)) = 1 + Len(c.lits) + (IF Placed(g, c).has_extra THEN 1 ELSE 0)
  BY <1>2 DEF clauseWord32Size
<1>5. clauseWord32Size(Placed(g, c)) \in 1 .. Words - 1
  <2> DEFINE n == Len(c.lits)
             x == clauseWord32Size(Placed(g, c))
  <2>1. n \in Nat /\ n + 2 < Words /\ Words \in Nat
    BY <1>3, ClauseMemoryAssumption
  <2>2. x = 1 + n \/ x = 1 + n + 1
    <3>1. x = 1 + n + (IF Placed(g, c).has_extra THEN 1 ELSE 0)
      BY <1>4
    <3>2. (IF Placed(g, c).has_extra THEN 1 ELSE 0) \in {0, 1}
      OBVIOUS
    <3> HIDE DEF n, x
    <3> QED BY <2>1, <3>1, <3>2
  <2> HIDE DEF n, x
  <2>3. x \in 1 .. Words - 1
    BY <2>1, <2>2
  <2> QED BY <2>3 DEF x
<1> QED BY <1>2, <1>5 DEF Placed

(* The remainder of a sum of two numbers that are less.                    *)
LEMMA Wraps ==
    ASSUME NEW a \in Capacities, NEW b \in 1 .. Words - 1
    PROVE  /\ (a + b) % Words \in Capacities
           /\ a + b < Words => (a + b) % Words = a + b
           /\ a + b >= Words => (a + b) % Words < a
<1>1. Words \in Nat /\ Words > 3 /\ a \in Nat /\ b \in Nat /\ a < Words
  BY ClauseMemoryAssumption DEF Capacities
<1>2. (a + b) % Words \in Capacities
  <2>1. a + b \in Nat
    BY <1>1
  <2> QED BY <2>1, RemainderIs
<1>3. ASSUME a + b < Words PROVE (a + b) % Words = a + b
  BY <1>1, <1>3
<1>4. ASSUME a + b >= Words PROVE (a + b) % Words = a + b - Words
  BY <1>1, <1>4
<1>5. a + b - Words < a
  BY <1>1
<1> QED BY <1>1, <1>2, <1>3, <1>4, <1>5

(* alloc() puts the clause at the end, or there is no memory left.         *)
LEMMA AllocIs ==
    ASSUME NEW g \in RegionType, g.sz \in Capacities, g.cap \in Capacities, Capacity(0, g.cap) = g.cap,
           \A r \in DOMAIN g.mem : r < g.sz,
           NEW c \in ClauseType, Len(c.lits) + 2 < Words
    PROVE  LET h    == Alloc(g, c)
               new  == Placed(g, c)
               size == clauseWord32Size(new)
           IN  /\ h \in RegionType
               /\ g.sz + size <= g.cap => h.cap = g.cap
               /\ h.cap # None =>
                    /\ h.sz = g.sz + size /\ h.sz \in Capacities /\ h.sz <= h.cap
                    /\ h.cap \in Capacities /\ Capacity(0, h.cap) = h.cap
                    /\ h.wasted = g.wasted /\ h.extra_clause_field = g.extra_clause_field
                    /\ g.sz \notin DOMAIN g.mem /\ DOMAIN h.mem = DOMAIN g.mem \cup {g.sz}
                    /\ h.mem[g.sz] = new /\ \A r \in DOMAIN g.mem : h.mem[r] = g.mem[r]
<1> DEFINE new  == Placed(g, c)
           size == clauseWord32Size(new)
           sz   == (g.sz + size) % Words
           cap  == Capacity(g.cap, sz)
           mem  == [r \in DOMAIN g.mem \cup {g.sz} |-> IF r = g.sz THEN new ELSE g.mem[r]]
           h    == Alloc(g, c)
           ok   == [g EXCEPT !.mem = mem, !.sz = sz, !.cap = cap]
<1>0. Words \in Nat /\ g.sz \in Nat /\ g.cap \in Nat /\ g.cap \in 0 .. Words /\ g.cap # None
  BY ClauseMemoryAssumption DEF Capacities, None
<1>1. new \in ClauseType /\ size \in 1 .. Words - 1
  BY PlacedIs, Zenon
<1>2. h = IF OutOfMemory(g) \/ cap = None \/ sz < g.sz THEN [g EXCEPT !.cap = None] ELSE ok
  BY DEF Alloc, Placed
<1> HIDE DEF new, size
<1>3. /\ sz \in Capacities /\ sz \in Nat
      /\ g.sz + size < Words => sz = g.sz + size
      /\ g.sz + size >= Words => sz < g.sz
  <2>1. sz \in Nat
    <3>1. sz \in Capacities
      BY <1>1, Wraps
    <3> HIDE DEF sz
    <3> QED BY <1>0, <3>1 DEF Capacities
  <2> QED BY <1>1, <2>1, Wraps
<1> HIDE DEF sz
<1>4. cap \in Nat \cup {None} /\ (cap # None => cap \in Capacities /\ cap >= sz)
  BY <1>0, <1>3, CapacityIs, CapacityEnough
<1>5. cap # None => Capacity(0, cap) = cap
  <2>1. 0 \in 0 .. Words
    BY <1>0
  <2> QED BY <1>0, <1>3, <2>1, CapacityTwice
<1>6. g.cap >= sz => cap = g.cap
  BY <1>0, <1>3, CapacityIs
<1> HIDE DEF cap
<1>7. \A r \in DOMAIN g.mem : r \in Nat /\ r # g.sz
  <2>1. DOMAIN g.mem \subseteq Nat
    BY RegionFacts
  <2> QED BY <1>0, <2>1
<1>8. /\ mem \in [DOMAIN g.mem \cup {g.sz} -> ClauseType] /\ g.sz \notin DOMAIN g.mem
      /\ mem[g.sz] = new /\ \A r \in DOMAIN g.mem : mem[r] = g.mem[r]
  BY <1>1, <1>7, RegionFacts
<1>9. mem \in UNION {[D -> ClauseType] : D \in SUBSET Nat}
  BY <1>0, <1>7, <1>8
<1>10. DOMAIN mem = DOMAIN g.mem \cup {g.sz}
  OBVIOUS
<1> HIDE DEF mem
<1>11. [g EXCEPT !.cap = None] \in RegionType /\ [g EXCEPT !.cap = None].cap = None
  BY DEF RegionType, None
<1>12. /\ cap # None => ok \in RegionType
       /\ ok.mem = mem /\ ok.sz = sz /\ ok.cap = cap /\ ok.wasted = g.wasted
       /\ ok.extra_clause_field = g.extra_clause_field
  <2>1. /\ ok.mem = mem /\ ok.sz = sz /\ ok.cap = cap /\ ok.wasted = g.wasted
        /\ ok.extra_clause_field = g.extra_clause_field
    BY DEF RegionType
  <2>2. ASSUME cap # None PROVE cap \in Int
    BY <1>4, <2>2 DEF None
  <2>3. cap # None => ok \in RegionType
    BY <1>3, <1>9, <2>2 DEF RegionType
  <2> QED BY <2>1, <2>3
<1> HIDE DEF ok, h
<1>13. h \in RegionType
  BY <1>2, <1>11, <1>12
<1>14. ASSUME h.cap # None
       PROVE  h = ok /\ cap # None /\ ~ (sz < g.sz)
  BY <1>2, <1>11, <1>14
<1>15. ASSUME h.cap # None
       PROVE  /\ h.sz = g.sz + size /\ h.sz \in Capacities /\ h.sz <= h.cap
              /\ h.cap \in Capacities /\ Capacity(0, h.cap) = h.cap
              /\ h.wasted = g.wasted /\ h.extra_clause_field = g.extra_clause_field
              /\ g.sz \notin DOMAIN g.mem /\ DOMAIN h.mem = DOMAIN g.mem \cup {g.sz}
              /\ h.mem[g.sz] = new /\ \A r \in DOMAIN g.mem : h.mem[r] = g.mem[r]
  <2>1. h = ok /\ cap # None /\ ~ (sz < g.sz)
    BY <1>14, <1>15
  <2>2. sz = g.sz + size
    BY <1>0, <1>1, <1>3, <2>1
  <2>3. sz <= cap
    <3>1. cap \in Nat
      BY <1>4, <2>1
    <3> QED BY <1>3, <1>4, <2>1, <3>1
  <2> QED BY <1>3, <1>4, <1>5, <1>8, <1>10, <1>12, <2>1, <2>2, <2>3
<1>16. ASSUME g.sz + size <= g.cap PROVE h.cap = g.cap
  <2>1. g.sz + size < Words /\ size \in Nat
    BY <1>0, <1>1, <1>16 DEF Capacities
  <2>2. sz = g.sz + size /\ g.cap >= sz /\ ~ (sz < g.sz)
    BY <1>0, <1>3, <1>16, <2>1
  <2>3. cap = g.cap /\ ~ OutOfMemory(g)
    BY <1>0, <1>6, <2>2 DEF OutOfMemory
  <2> QED BY <1>0, <1>2, <1>12, <2>2, <2>3
<1> QED BY <1>13, <1>15, <1>16 DEF h, size, new

(* Without memory nothing can be allocated.                                *)
LEMMA AllocNone ==
    ASSUME NEW g \in RegionType, g.cap = None, NEW c
    PROVE  Alloc(g, c) \in RegionType /\ Alloc(g, c).cap = None
<1>1. Alloc(g, c) = [g EXCEPT !.cap = None]
  BY DEF Alloc, OutOfMemory
<1> QED BY <1>1 DEF RegionType, None

LEMMA SizeIs ==
    ASSUME NEW c \in ClauseType
    PROVE  /\ clauseWord32Size(c) \in Nat \ {0}
           /\ clauseWord32Size(c) = 1 + Len(c.lits) + (IF c.has_extra THEN 1 ELSE 0)
           /\ Len(c.lits) \in Nat
<1>1. Len(c.lits) \in Nat
  BY DEF ClauseType
<1>2. (IF c.has_extra THEN 1 ELSE 0) \in {0, 1}
  OBVIOUS
<1>3. clauseWord32Size(c) = 1 + Len(c.lits) + (IF c.has_extra THEN 1 ELSE 0)
  BY DEF clauseWord32Size
<1>4. \A n \in Nat, e \in {0, 1} : 1 + n + e \in Nat \ {0}
  OBVIOUS
<1> HIDE DEF clauseWord32Size
<1> QED BY <1>1, <1>2, <1>3, <1>4

(* The words that the clauses have.                                        *)
LEMMA WordsType ==
    ASSUME NEW g \in RegionType
    PROVE  /\ LiveWords(g) \in [0 .. g.sz - 1 -> Nat] /\ g.sz \in Nat
           /\ \A r \in 0 .. g.sz - 1 :
                 LiveWords(g)[r] = IF r \in DOMAIN g.mem /\ ~ g.mem[r].removed
                                   THEN clauseWord32Size(g.mem[r]) ELSE 0
<1> DEFINE of(r) == IF r \in DOMAIN g.mem /\ ~ g.mem[r].removed THEN clauseWord32Size(g.mem[r]) ELSE 0
<1>1. \A r : of(r) \in Nat
  <2>1. \A r \in DOMAIN g.mem : clauseWord32Size(g.mem[r]) \in Nat
    BY RegionFacts, SizeIs
  <2> QED BY <2>1
<1>2. LiveWords(g) = [r \in 0 .. g.sz - 1 |-> of(r)]
  BY DEF LiveWords
<1>3. g.sz \in Nat
  BY DEF RegionType
<1> HIDE DEF of
<1>4. LiveWords(g) \in [0 .. g.sz - 1 -> Nat] /\ \A r \in 0 .. g.sz - 1 : LiveWords(g)[r] = of(r)
  BY <1>1, <1>2
<1> QED BY <1>3, <1>4 DEF of

(* A region with one clause more.                                          *)
LEMMA RegionGrows ==
    ASSUME NEW g \in RegionType, RegionOK(g),
           NEW c \in ClauseType, Len(c.lits) + 2 < Words, ~ c.removed,
           c.id > 0 => Proper(c.lits),
           \A r \in DOMAIN g.mem : g.mem[r].id # c.id,
           Alloc(g, c).cap # None
    PROVE  LET h == Alloc(g, c)
           IN  /\ h \in RegionType /\ RegionOK(h)
               /\ g.sz \notin DOMAIN g.mem /\ DOMAIN h.mem = DOMAIN g.mem \cup {g.sz}
               /\ h.mem[g.sz] = Placed(g, c) /\ \A r \in DOMAIN g.mem : h.mem[r] = g.mem[r]
               /\ Named(h) = Named(g) \cup (IF c.id > 0 THEN {g.sz} ELSE {})
               /\ Live(h) = Live(g) \cup (IF c.id > 0 THEN {g.sz} ELSE {})
               /\ h.sz = g.sz + clauseWord32Size(Placed(g, c))
               /\ h.wasted = g.wasted /\ h.extra_clause_field = g.extra_clause_field
<1> DEFINE h    == Alloc(g, c)
           new  == Placed(g, c)
           size == clauseWord32Size(new)
<1>0. /\ g.sz \in Capacities /\ g.cap \in Capacities /\ Capacity(0, g.cap) = g.cap
      /\ \A r \in DOMAIN g.mem : r < g.sz
  BY DEF RegionOK, SizesOK, PlacesOK
<1>1. /\ h \in RegionType
      /\ h.sz = g.sz + size /\ h.sz \in Capacities /\ h.sz <= h.cap
      /\ h.cap \in Capacities /\ Capacity(0, h.cap) = h.cap
      /\ h.wasted = g.wasted /\ h.extra_clause_field = g.extra_clause_field
      /\ g.sz \notin DOMAIN g.mem /\ DOMAIN h.mem = DOMAIN g.mem \cup {g.sz}
      /\ h.mem[g.sz] = new /\ \A r \in DOMAIN g.mem : h.mem[r] = g.mem[r]
  BY <1>0, AllocIs
<1>2. /\ new \in ClauseType /\ new.id = c.id /\ new.lits = c.lits /\ new.learnt = c.learnt
      /\ ~ new.removed /\ ~ new.reloced
      /\ new.has_extra = (c.learnt \/ g.extra_clause_field)
      /\ size \in 1 .. Words - 1
  <2>1. /\ new \in ClauseType /\ new.id = c.id /\ new.lits = c.lits /\ new.learnt = c.learnt
        /\ new.removed = c.removed /\ ~ new.reloced
        /\ new.has_extra = (c.learnt \/ g.extra_clause_field)
        /\ size \in 1 .. Words - 1
    BY PlacedIs, Zenon
  <2> HIDE DEF new, size
  <2> QED BY <2>1
<1> HIDE DEF h, new, size
<1>3. Named(h) = Named(g) \cup (IF c.id > 0 THEN {g.sz} ELSE {})
  BY <1>1, <1>2 DEF Named
<1>4. Live(h) = Live(g) \cup (IF c.id > 0 THEN {g.sz} ELSE {})
  <2>1. ASSUME NEW r \in Named(h) PROVE ~ h.mem[r].removed <=> r = g.sz \/ r \in Live(g)
    <3>1. CASE r = g.sz
      BY <1>1, <1>2, <3>1
    <3>2. CASE r \in Named(g)
      <4>1. r \in DOMAIN g.mem
        BY <3>2 DEF Named
      <4> QED BY <1>1, <3>2, <4>1 DEF Live
    <3> QED BY <1>3, <3>1, <3>2
  <2>2. Live(h) = {r \in Named(h) : r = g.sz \/ r \in Live(g)}
    BY <2>1 DEF Live
  <2>3. Live(g) \subseteq Named(g) /\ g.sz \notin Named(g)
    BY <1>1 DEF Live, Named
  <2>4. CASE c.id > 0
    BY <1>3, <2>2, <2>3, <2>4
  <2>5. CASE ~ (c.id > 0)
    BY <1>3, <2>2, <2>3, <2>5
  <2> QED BY <2>4, <2>5
<1>5. PlacesOK(h)
  <2>1. /\ g.sz < h.sz /\ \A r \in DOMAIN g.mem : r < h.sz
    <3>1. g.sz \in Nat /\ size \in 1 .. Words - 1 /\ DOMAIN g.mem \subseteq Nat
      BY <1>2, RegionFacts DEF RegionType
    <3>2. \A r \in DOMAIN g.mem : r \in Nat /\ r < g.sz
      BY <1>0, <3>1
    <3> QED BY <1>1, <3>1, <3>2
  <2>2. ASSUME NEW r \in DOMAIN h.mem
        PROVE  /\ r < h.sz /\ ~ h.mem[r].reloced /\ Len(h.mem[r].lits) + 2 < Words
               /\ h.mem[r].learnt \/ h.extra_clause_field => h.mem[r].has_extra
    <3>1. CASE r = g.sz
      BY <1>1, <1>2, <2>1, <3>1
    <3>2. CASE r \in DOMAIN g.mem
      <4>1. /\ ~ g.mem[r].reloced /\ Len(g.mem[r].lits) + 2 < Words
            /\ g.mem[r].learnt \/ g.extra_clause_field => g.mem[r].has_extra
        BY <3>2 DEF RegionOK, PlacesOK
      <4> QED BY <1>1, <2>1, <3>2, <4>1
    <3> QED BY <1>1, <3>1, <3>2
  <2> QED BY <2>2 DEF PlacesOK
<1>6. NumbersOK(h)
  <2>1. ASSUME NEW r \in DOMAIN h.mem, NEW q \in DOMAIN h.mem, h.mem[r].id = h.mem[q].id PROVE r = q
    <3>1. CASE r \in DOMAIN g.mem /\ q \in DOMAIN g.mem
      BY <1>1, <2>1, <3>1 DEF RegionOK, NumbersOK
    <3>2. CASE r = g.sz /\ q \in DOMAIN g.mem
      BY <1>1, <1>2, <2>1, <3>2
    <3>3. CASE q = g.sz /\ r \in DOMAIN g.mem
      BY <1>1, <1>2, <2>1, <3>3
    <3> QED BY <1>1, <3>1, <3>2, <3>3
  <2> QED BY <2>1 DEF NumbersOK
<1>7. ClausesOK(h)
  <2>1. ASSUME NEW r \in Live(h) PROVE Proper(h.mem[r].lits)
    <3>1. CASE r \in Live(g)
      BY <1>1, <3>1 DEF RegionOK, ClausesOK, Live, Named
    <3>2. CASE r = g.sz /\ c.id > 0
      BY <1>1, <1>2, <3>2
    <3> QED BY <1>4, <3>1, <3>2
  <2> QED BY <2>1 DEF ClausesOK
<1>8. Total(LiveWords(h), h.sz) <= h.sz - h.wasted
  <2>1. /\ LiveWords(g) \in [0 .. g.sz - 1 -> Nat] /\ g.sz \in Nat
        /\ LiveWords(h) \in [0 .. h.sz - 1 -> Nat] /\ h.sz \in Nat
        /\ \A r \in 0 .. g.sz - 1 :
              LiveWords(g)[r] = IF r \in DOMAIN g.mem /\ ~ g.mem[r].removed
                                THEN clauseWord32Size(g.mem[r]) ELSE 0
        /\ \A r \in 0 .. h.sz - 1 :
              LiveWords(h)[r] = IF r \in DOMAIN h.mem /\ ~ h.mem[r].removed
                                THEN clauseWord32Size(h.mem[r]) ELSE 0
    BY <1>1, WordsType
  <2>2. g.sz < h.sz /\ h.sz = g.sz + size /\ size \in Nat /\ g.sz \in 0 .. h.sz - 1
    BY <1>1, <1>2, <2>1
  <2>3. \A k \in 0 .. g.sz - 1 : LiveWords(g)[k] = LiveWords(h)[k]
    <3>1. ASSUME NEW k \in 0 .. g.sz - 1 PROVE LiveWords(g)[k] = LiveWords(h)[k]
      <4>1. k \in 0 .. h.sz - 1 /\ k # g.sz
        BY <2>1, <2>2
      <4>2. k \in DOMAIN h.mem <=> k \in DOMAIN g.mem
        BY <1>1, <4>1
      <4> QED BY <1>1, <2>1, <4>1, <4>2
    <3> QED BY <3>1
  <2>4. \A k \in g.sz + 1 .. h.sz - 1 : LiveWords(h)[k] = 0
    <3>1. ASSUME NEW k \in g.sz + 1 .. h.sz - 1 PROVE LiveWords(h)[k] = 0
      <4>1. k \in 0 .. h.sz - 1 /\ k # g.sz /\ ~ (k < g.sz)
        BY <2>1, <2>2
      <4>2. k \notin DOMAIN h.mem
        BY <1>0, <1>1, <4>1
      <4> QED BY <2>1, <4>1, <4>2
    <3> QED BY <3>1
  <2>5. LiveWords(h)[g.sz] = size
    BY <1>1, <1>2, <2>1, <2>2 DEF size
  <2>6. Total(LiveWords(h), h.sz) = Total(LiveWords(g), g.sz) + size
    <3> DEFINE a == LiveWords(g)
               b == LiveWords(h)
               n == g.sz
               m == h.sz
    <3>1. /\ n \in Nat /\ m \in Nat /\ n < m /\ a \in [0 .. n - 1 -> Nat] /\ b \in [0 .. m - 1 -> Nat]
          /\ \A k \in 0 .. n - 1 : a[k] = b[k]
          /\ \A k \in n + 1 .. m - 1 : b[k] = 0
          /\ b[n] = size
      BY <2>1, <2>2, <2>3, <2>4, <2>5
    <3> HIDE DEF a, b, n, m
    <3>2. Total(b, m) = Total(a, n) + b[n]
      BY <3>1, TotalExtended
    <3> QED BY <3>1, <3>2 DEF a, b, n, m
  <2>7. Total(LiveWords(g), g.sz) \in Nat /\ Total(LiveWords(g), g.sz) <= g.sz - g.wasted /\ g.wasted \in Nat
    BY <2>1, TotalType DEF RegionOK, SizesOK, RegionType
  <2> QED BY <1>1, <2>1, <2>2, <2>6, <2>7
<1>9. RegionOK(h)
  BY <1>1, <1>5, <1>6, <1>7, <1>8 DEF RegionOK, SizesOK
<1> QED BY <1>1, <1>3, <1>4, <1>9 DEF h, new, size

(* What a region is when one clause of it is changed.                      *)
Changed(g, r, c, w) == [g EXCEPT !.mem = [g.mem EXCEPT ![r] = c], !.wasted = w]

LEMMA ClauseChanges ==
    ASSUME NEW g \in RegionType, NEW r \in DOMAIN g.mem, NEW c \in ClauseType, NEW w \in Nat
    PROVE  LET h == Changed(g, r, c, w)
           IN  /\ h \in RegionType /\ DOMAIN h.mem = DOMAIN g.mem
               /\ h.mem[r] = c /\ \A q \in DOMAIN g.mem : q # r => h.mem[q] = g.mem[q]
               /\ h.sz = g.sz /\ h.cap = g.cap /\ h.wasted = w
               /\ h.extra_clause_field = g.extra_clause_field
<1> DEFINE mem == [g.mem EXCEPT ![r] = c]
           h   == [g EXCEPT !.mem = mem, !.wasted = w]
<1>1. g.mem \in [DOMAIN g.mem -> ClauseType] /\ DOMAIN g.mem \subseteq Nat
  BY RegionFacts
<1>2. /\ mem \in [DOMAIN g.mem -> ClauseType] /\ DOMAIN mem = DOMAIN g.mem
      /\ mem[r] = c /\ \A q \in DOMAIN g.mem : q # r => mem[q] = g.mem[q]
  BY <1>1
<1> HIDE DEF mem
<1>3. mem \in UNION {[D -> ClauseType] : D \in SUBSET Nat}
  BY <1>1, <1>2
<1>4. /\ h \in RegionType /\ h.mem = mem /\ h.sz = g.sz /\ h.cap = g.cap /\ h.wasted = w
      /\ h.extra_clause_field = g.extra_clause_field
  BY <1>3 DEF RegionType
<1> HIDE DEF h
<1> QED BY <1>2, <1>4 DEF h, mem, Changed

(* A clause is removed.                                                    *)
LEMMA RegionRemoves ==
    ASSUME NEW g \in RegionType, RegionOK(g), NEW r \in Live(g)
    PROVE  LET h == [g EXCEPT !.mem[r].removed = TRUE, !.wasted = @ + clauseWord32Size(g.mem[r])]
           IN  /\ h \in RegionType /\ RegionOK(h) /\ DOMAIN h.mem = DOMAIN g.mem
               /\ h.mem[r] = [g.mem[r] EXCEPT !.removed = TRUE] /\ h.mem[r] \in ClauseType
               /\ \A q \in DOMAIN g.mem : q # r => h.mem[q] = g.mem[q]
               /\ Named(h) = Named(g) /\ Live(h) = Live(g) \ {r}
               /\ h.sz = g.sz /\ h.cap = g.cap /\ h.wasted >= g.wasted
               /\ h.extra_clause_field = g.extra_clause_field
<1> DEFINE c == [g.mem[r] EXCEPT !.removed = TRUE]
           size == clauseWord32Size(g.mem[r])
           w == g.wasted + size
           h == [g EXCEPT !.mem[r].removed = TRUE, !.wasted = @ + size]
           k == Changed(g, r, c, w)
<1>1. r \in DOMAIN g.mem /\ g.mem[r] \in ClauseType /\ g.mem[r].id > 0 /\ ~ g.mem[r].removed
  BY RegionFacts DEF Live, Named
<1>2. /\ c \in ClauseType /\ c.id = g.mem[r].id /\ c.lits = g.mem[r].lits /\ c.learnt = g.mem[r].learnt
      /\ c.has_extra = g.mem[r].has_extra /\ c.reloced = g.mem[r].reloced /\ c.removed
  BY <1>1 DEF ClauseType
<1>3. size \in Nat /\ w \in Nat /\ g.wasted \in Nat
  <2>1. size \in Nat
    BY <1>1, SizeIs
  <2>2. g.wasted \in Nat
    BY DEF RegionType
  <2> HIDE DEF size
  <2> QED BY <2>1, <2>2
<1>4. h = k
  BY <1>1 DEF RegionType, Changed
<1> HIDE DEF c, w, size
<1>5. /\ h \in RegionType /\ DOMAIN h.mem = DOMAIN g.mem
      /\ h.mem[r] = c /\ \A q \in DOMAIN g.mem : q # r => h.mem[q] = g.mem[q]
      /\ h.sz = g.sz /\ h.cap = g.cap /\ h.wasted = w
      /\ h.extra_clause_field = g.extra_clause_field
  <2>1. /\ k \in RegionType /\ DOMAIN k.mem = DOMAIN g.mem
        /\ k.mem[r] = c /\ \A q \in DOMAIN g.mem : q # r => k.mem[q] = g.mem[q]
        /\ k.sz = g.sz /\ k.cap = g.cap /\ k.wasted = w
        /\ k.extra_clause_field = g.extra_clause_field
    BY <1>1, <1>2, <1>3, ClauseChanges
  <2> HIDE DEF h, k
  <2> QED BY <1>4, <2>1
<1> HIDE DEF h, k
<1>6. Named(h) = Named(g)
  BY <1>2, <1>5 DEF Named
<1>7. Live(h) = Live(g) \ {r}
  <2>1. \A q \in Named(g) : q \in DOMAIN g.mem
    BY DEF Named
  <2> QED BY <1>2, <1>5, <1>6, <2>1 DEF Live
<1>8. PlacesOK(h)
  BY <1>2, <1>5 DEF RegionOK, PlacesOK
<1>9. NumbersOK(h)
  BY <1>2, <1>5 DEF RegionOK, NumbersOK
<1>10. ClausesOK(h)
  BY <1>5, <1>7 DEF RegionOK, ClausesOK, Live, Named
<1>11. SizesOK(h)
  <2>1. /\ LiveWords(g) \in [0 .. g.sz - 1 -> Nat] /\ g.sz \in Nat
        /\ LiveWords(h) \in [0 .. h.sz - 1 -> Nat]
        /\ \A q \in 0 .. g.sz - 1 :
              LiveWords(g)[q] = IF q \in DOMAIN g.mem /\ ~ g.mem[q].removed
                                THEN clauseWord32Size(g.mem[q]) ELSE 0
        /\ \A q \in 0 .. h.sz - 1 :
              LiveWords(h)[q] = IF q \in DOMAIN h.mem /\ ~ h.mem[q].removed
                                THEN clauseWord32Size(h.mem[q]) ELSE 0
    BY <1>5, WordsType
  <2>2. r \in 0 .. g.sz - 1
    <3>1. r < g.sz /\ r \in Nat
      BY <1>1, RegionFacts DEF RegionOK, PlacesOK
    <3> QED BY <2>1, <3>1
  <2>3. LiveWords(g)[r] = size /\ LiveWords(h)[r] = 0
    BY <1>1, <1>2, <1>5, <2>1, <2>2 DEF size
  <2>4. \A q \in 0 .. g.sz - 1 : q # r => LiveWords(g)[q] = LiveWords(h)[q]
    <3>1. ASSUME NEW q \in 0 .. g.sz - 1, q # r PROVE LiveWords(g)[q] = LiveWords(h)[q]
      <4>1. CASE q \in DOMAIN g.mem
        <5>1. h.mem[q] = g.mem[q] /\ q \in DOMAIN h.mem
          BY <1>5, <3>1, <4>1
        <5> QED BY <1>5, <2>1, <4>1, <5>1
      <4>2. CASE q \notin DOMAIN g.mem
        BY <1>5, <2>1, <4>2
      <4> QED BY <4>1, <4>2
    <3> QED BY <3>1
  <2>5. Total(LiveWords(h), h.sz) = Total(LiveWords(g), g.sz) - size
    <3> DEFINE a == LiveWords(g)
               b == LiveWords(h)
               n == g.sz
    <3>1. /\ n \in Nat /\ n = h.sz /\ a \in [0 .. n - 1 -> Nat] /\ b \in [0 .. n - 1 -> Nat]
          /\ r \in 0 .. n - 1 /\ \A q \in 0 .. n - 1 : q # r => a[q] = b[q]
          /\ a[r] = size /\ b[r] = 0
      BY <1>5, <2>1, <2>2, <2>3, <2>4
    <3> HIDE DEF a, b, n
    <3>4. Total(b, n) = Total(a, n) - a[r] + b[r]
      <4>1. DifferAt(a, b, n, r)
        BY <3>1 DEF DifferAt
      <4> QED BY <3>1, <4>1, TotalDiffers
    <3>2. Total(b, n) = Total(a, n) - a[r] + b[r] /\ Total(a, n) \in Nat
      BY <3>1, <3>4, TotalType
    <3>3. Total(b, n) = Total(a, n) - size
      BY <1>3, <3>1, <3>2
    <3> QED BY <3>1, <3>3 DEF a, b, n
  <2>6. Total(LiveWords(g), g.sz) \in Nat /\ Total(LiveWords(g), g.sz) <= g.sz - g.wasted
    BY <2>1, TotalType DEF RegionOK, SizesOK
  <2>7. Total(LiveWords(h), h.sz) <= h.sz - h.wasted
    BY <1>3, <1>5, <2>1, <2>5, <2>6 DEF w
  <2> QED BY <1>5, <2>7 DEF RegionOK, SizesOK
<1>12. RegionOK(h)
  BY <1>8, <1>9, <1>10, <1>11 DEF RegionOK
<1>13. h.wasted >= g.wasted
  BY <1>3, <1>5 DEF w
<1> QED BY <1>2, <1>5, <1>6, <1>7, <1>12, <1>13 DEF h, c, size

(* A clause gets other literals, and no more of them.                      *)
Shortened(g, r, new) == [g EXCEPT !.mem[r].lits = new]

LEMMA RegionShortens ==
    ASSUME NEW g \in RegionType, RegionOK(g), NEW r \in DOMAIN g.mem,
           NEW new \in Seq(Int), Len(new) <= Len(g.mem[r].lits), r \in Live(g) => Proper(new)
    PROVE  LET h == Shortened(g, r, new)
           IN  /\ h \in RegionType /\ RegionOK(h) /\ DOMAIN h.mem = DOMAIN g.mem
               /\ h.mem[r] = [g.mem[r] EXCEPT !.lits = new] /\ h.mem[r] \in ClauseType
               /\ \A q \in DOMAIN g.mem : q # r => h.mem[q] = g.mem[q]
               /\ Named(h) = Named(g) /\ Live(h) = Live(g)
               /\ h.sz = g.sz /\ h.cap = g.cap /\ h.wasted = g.wasted /\ h.extra_clause_field = g.extra_clause_field
<1> DEFINE c == [g.mem[r] EXCEPT !.lits = new]
           h == Shortened(g, r, new)
           k == Changed(g, r, c, g.wasted)
<1>1. g.mem[r] \in ClauseType /\ g.wasted \in Nat
  BY RegionFacts DEF RegionType
<1>2. /\ c \in ClauseType /\ c.id = g.mem[r].id /\ c.lits = new /\ c.learnt = g.mem[r].learnt
      /\ c.has_extra = g.mem[r].has_extra /\ c.reloced = g.mem[r].reloced
      /\ c.removed = g.mem[r].removed
  BY <1>1 DEF ClauseType
<1>3. h = k
  BY <1>1 DEF RegionType, Changed, Shortened
<1> HIDE DEF c
<1>4. /\ h \in RegionType /\ DOMAIN h.mem = DOMAIN g.mem
      /\ h.mem[r] = c /\ \A q \in DOMAIN g.mem : q # r => h.mem[q] = g.mem[q]
      /\ h.sz = g.sz /\ h.cap = g.cap /\ h.wasted = g.wasted
      /\ h.extra_clause_field = g.extra_clause_field
  <2>1. /\ k \in RegionType /\ DOMAIN k.mem = DOMAIN g.mem
        /\ k.mem[r] = c /\ \A q \in DOMAIN g.mem : q # r => k.mem[q] = g.mem[q]
        /\ k.sz = g.sz /\ k.cap = g.cap /\ k.wasted = g.wasted
        /\ k.extra_clause_field = g.extra_clause_field
    BY <1>1, <1>2, <1>3, ClauseChanges
  <2> HIDE DEF h, k
  <2> QED BY <1>3, <2>1
<1> HIDE DEF h, k
<1>5. Named(h) = Named(g)
  BY <1>2, <1>4 DEF Named
<1>6. Live(h) = Live(g)
  <2>1. \A q \in Named(g) : q \in DOMAIN g.mem
    BY DEF Named
  <2> QED BY <1>2, <1>4, <1>5, <2>1 DEF Live
<1>7. clauseWord32Size(c) <= clauseWord32Size(g.mem[r]) /\ Len(new) \in Nat
      /\ Len(g.mem[r].lits) \in Nat
  <2> DEFINE d == g.mem[r]
             e == IF d.has_extra THEN 1 ELSE 0
  <2>1. /\ clauseWord32Size(c) = 1 + Len(new) + e /\ clauseWord32Size(d) = 1 + Len(d.lits) + e
        /\ Len(new) \in Nat /\ Len(d.lits) \in Nat
    BY <1>1, <1>2, SizeIs
  <2>2. e \in {0, 1}
    OBVIOUS
  <2>3. Len(new) <= Len(d.lits)
    OBVIOUS
  <2> HIDE DEF d, e
  <2>4. clauseWord32Size(c) <= clauseWord32Size(d)
    BY <2>1, <2>2, <2>3
  <2> QED BY <2>1, <2>4 DEF d
<1>8. PlacesOK(h)
  <2>1. Len(new) + 2 < Words
    BY <1>7, ClauseMemoryAssumption DEF RegionOK, PlacesOK
  <2> QED BY <1>2, <1>4, <2>1 DEF RegionOK, PlacesOK
<1>9. NumbersOK(h)
  BY <1>2, <1>4 DEF RegionOK, NumbersOK
<1>10. ClausesOK(h)
  <2>1. \A q \in Live(g) : q \in DOMAIN g.mem
    BY DEF Live, Named
  <2> QED BY <1>2, <1>4, <1>6, <2>1 DEF RegionOK, ClausesOK
<1>11. SizesOK(h)
  <2>1. /\ LiveWords(g) \in [0 .. g.sz - 1 -> Nat] /\ g.sz \in Nat
        /\ LiveWords(h) \in [0 .. h.sz - 1 -> Nat]
        /\ \A q \in 0 .. g.sz - 1 :
              LiveWords(g)[q] = IF q \in DOMAIN g.mem /\ ~ g.mem[q].removed
                                THEN clauseWord32Size(g.mem[q]) ELSE 0
        /\ \A q \in 0 .. h.sz - 1 :
              LiveWords(h)[q] = IF q \in DOMAIN h.mem /\ ~ h.mem[q].removed
                                THEN clauseWord32Size(h.mem[q]) ELSE 0
    BY <1>4, WordsType
  <2>2. ASSUME NEW q \in 0 .. g.sz - 1 PROVE LiveWords(h)[q] <= LiveWords(g)[q]
    <3>1. LiveWords(g)[q] \in Nat /\ LiveWords(h)[q] \in Nat
      BY <1>4, <2>1
    <3>2. CASE q \notin DOMAIN g.mem
      BY <1>4, <2>1, <3>2
    <3>6. q \in 0 .. h.sz - 1
      BY <1>4
    <3>3. CASE q \in DOMAIN g.mem /\ q # r
      <4>1. h.mem[q] = g.mem[q] /\ q \in DOMAIN h.mem
        BY <1>4, <3>3
      <4>2. LiveWords(h)[q] = LiveWords(g)[q]
        BY <2>1, <3>3, <3>6, <4>1
      <4> QED BY <3>1, <4>2
    <3>4. CASE q = r /\ ~ g.mem[r].removed
      BY <1>2, <1>4, <1>7, <2>1, <3>4
    <3>5. CASE q = r /\ g.mem[r].removed
      <4>1. LiveWords(h)[q] = 0
        BY <1>2, <1>4, <2>1, <3>5, <3>6
      <4> QED BY <3>1, <4>1
    <3> QED BY <3>2, <3>3, <3>4, <3>5
  <2>3. Total(LiveWords(h), h.sz) <= Total(LiveWords(g), g.sz)
    <3> DEFINE a == LiveWords(g)
               b == LiveWords(h)
               n == g.sz
    <3>1. /\ n \in Nat /\ n = h.sz /\ a \in [0 .. n - 1 -> Nat] /\ b \in [0 .. n - 1 -> Nat]
          /\ \A q \in 0 .. n - 1 : b[q] <= a[q]
      BY <1>4, <2>1, <2>2
    <3> HIDE DEF a, b, n
    <3>2. Total(b, n) <= Total(a, n)
      BY <3>1, TotalLess
    <3> QED BY <3>1, <3>2 DEF a, b, n
  <2>4. /\ Total(LiveWords(g), g.sz) \in Nat /\ Total(LiveWords(g), g.sz) <= g.sz - g.wasted
        /\ Total(LiveWords(h), h.sz) \in Nat
    BY <1>4, <2>1, TotalType DEF RegionOK, SizesOK
  <2>5. Total(LiveWords(h), h.sz) <= h.sz - h.wasted
    BY <1>1, <1>4, <2>1, <2>3, <2>4
  <2> QED BY <1>4, <2>5 DEF RegionOK, SizesOK
<1>12. RegionOK(h)
  BY <1>8, <1>9, <1>10, <1>11 DEF RegionOK
<1> QED BY <1>2, <1>4, <1>5, <1>6, <1>12 DEF h, c

-----------------------------------------------------------------------------
(* Lists of references and of literals.                                    *)

(* Where the elements of a list without some are in the whole list.        *)
LEMMA WithoutOrder ==
    ASSUME NEW T, NEW list \in Seq(T), NEW gone,
           NEW i \in DOMAIN Without(list, gone), NEW j \in DOMAIN Without(list, gone)
    PROVE  \E a, b \in DOMAIN list :
              /\ Without(list, gone)[i] = list[a] /\ Without(list, gone)[j] = list[b]
              /\ a = b => i = j
<1> DEFINE w == Without(list, gone)
<1>1. w \in Seq(T) /\ \E at : Filters(at, w, list, gone)
  BY WithoutIs
<1> HIDE DEF w
<1>2. PICK at : Filters(at, w, list, gone)
  BY <1>1
<1>3. i \in 1 .. Len(w) /\ j \in 1 .. Len(w) /\ Len(w) \in Nat /\ Len(list) \in Nat
  BY <1>1 DEF w
<1>4. at[i] \in 1 .. Len(list) /\ at[j] \in 1 .. Len(list)
  BY <1>2, <1>3 DEF Filters
<1>5. (i < j => at[i] < at[j]) /\ (j < i => at[j] < at[i])
  BY <1>2, <1>3 DEF Filters
<1>6. at[i] = at[j] => i = j
  <2>1. i \in Int /\ j \in Int /\ at[i] \in Int /\ at[j] \in Int
    BY <1>3, <1>4
  <2> QED BY <1>5, <2>1
<1>7. w[i] = list[at[i]] /\ w[j] = list[at[j]]
  BY <1>2, <1>3 DEF Filters
<1>8. at[i] \in DOMAIN list /\ at[j] \in DOMAIN list
  BY <1>4
<1> QED BY <1>6, <1>7, <1>8 DEF w

LEMMA WithoutNone ==
    ASSUME NEW T, NEW list \in Seq(T), NEW gone, ToSet(list) \cap gone = {}
    PROVE  Without(list, gone) = list
<1> DEFINE n == Len(list)
<1>1. n \in Nat /\ \A k \in 1 .. n : list[k] \in T /\ list[k] \notin gone
  BY DEF ToSet
<1>0. PICK w : Thins(w, T, list, gone)
  BY WithoutThins
<1>2. /\ w \in [0 .. n -> Seq(T)]
      /\ w[0] = <<>>
      /\ \A k \in 1 .. n :
            w[k] = IF list[k] \in gone THEN w[k-1] ELSE Append(w[k-1], list[k])
      /\ Without(list, gone) = w[n]
  BY <1>0 DEF Thins
<1> DEFINE Q == {k \in 0 .. n : Len(w[k]) = k /\ \A j \in 1 .. k : w[k][j] = list[j]}
<1> HIDE DEF n
<1>3. 0 \in Q
  BY <1>1, <1>2
<1>4. ASSUME NEW k \in 0 .. n - 1, k \in Q PROVE k + 1 \in Q
  <2>1. k + 1 \in 1 .. n /\ k + 1 - 1 = k /\ k \in 0 .. n /\ k + 1 \in 0 .. n
    BY <1>1
  <2>6. w[k + 1] = IF list[k + 1] \in gone THEN w[k] ELSE Append(w[k], list[k + 1])
    BY <1>2, <2>1
  <2>2. w[k + 1] = Append(w[k], list[k + 1]) /\ w[k] \in Seq(T) /\ list[k + 1] \in T
    BY <1>1, <1>2, <2>1, <2>6
  <2>3. Len(w[k]) = k /\ \A j \in 1 .. k : w[k][j] = list[j]
    BY <1>4
  <2>4. /\ Len(w[k + 1]) = k + 1 /\ w[k + 1][k + 1] = list[k + 1]
        /\ \A j \in 1 .. k : w[k + 1][j] = w[k][j]
    BY <2>2, <2>3, AppendIs
  <2>5. \A j \in 1 .. k + 1 : j = k + 1 \/ j \in 1 .. k
    BY <2>1
  <2> QED BY <2>1, <2>3, <2>4, <2>5
<1>5. 0 .. n \subseteq Q
  <2> HIDE DEF Q
  <2> QED BY <1>1, <1>3, <1>4, Climb
<1>6. Len(w[n]) = n /\ \A j \in 1 .. n : w[n][j] = list[j]
  BY <1>1, <1>5
<1>7. w[n] \in Seq(T)
  BY <1>1, <1>2
<1> DEFINE x == w[n]
<1>8. x \in Seq(T) /\ list \in Seq(T) /\ Len(x) = Len(list) /\ \A j \in 1 .. Len(list) : x[j] = list[j]
  BY <1>6, <1>7 DEF n
<1> HIDE DEF x
<1>9. x = list
  BY <1>8
<1> QED BY <1>2, <1>9 DEF x

LEMMA WithoutNothing ==
    ASSUME NEW T, NEW list \in Seq(T)
    PROVE  list = Without(list, {})
<1>1. ToSet(list) \cap {} = {}
  OBVIOUS
<1> QED BY <1>1, WithoutNone

(* What is taken out matters for the elements only.                        *)
LEMMA WithoutAgree ==
    ASSUME NEW T, NEW list \in Seq(T), NEW gone, NEW away, \A x \in ToSet(list) : x \in gone <=> x \in away
    PROVE  Without(list, gone) = Without(list, away)
<1> DEFINE v == Without(list, gone)
           w == Without(list, away)
<1>1. \A k \in 1 .. Len(list) : list[k] \in gone <=> list[k] \in away
  BY DEF ToSet
<1>2. /\ v \in Seq(T) /\ w \in Seq(T) /\ Len(v) = Len(w)
      /\ \E at : Filters(at, v, list, gone) /\ Filters(at, w, list, away)
  BY <1>1, WithoutBoth
<1> HIDE DEF v, w
<1>3. \A i \in 1 .. Len(v) : v[i] = w[i]
  BY <1>2 DEF Filters
<1> QED BY <1>2, <1>3 DEF v, w

(* One element more.                                                       *)
LEMMA WithoutAppend ==
    ASSUME NEW T, NEW list \in Seq(T), NEW x \in T, NEW gone
    PROVE  /\ x \in gone => Without(Append(list, x), gone) = Without(list, gone)
           /\ x \notin gone => Without(Append(list, x), gone) = Append(Without(list, gone), x)
<1> DEFINE n == Len(list)
           more == Append(list, x)
<1>1. /\ n \in Nat /\ more \in Seq(T) /\ Len(more) = n + 1 /\ more[n + 1] = x
      /\ \A k \in 1 .. n : more[k] = list[k]
  BY AppendIs
<1>2. PICK w : Thins(w, T, list, gone)
  BY WithoutThins
<1> HIDE DEF more
<1>3. PICK v : Thins(v, T, more, gone)
  BY <1>1, WithoutThins
<1>4. /\ w[0] = <<>> /\ Without(list, gone) = w[n]
      /\ \A k \in 1 .. n : w[k] = IF list[k] \in gone THEN w[k-1] ELSE Append(w[k-1], list[k])
  BY <1>2 DEF Thins
<1> HIDE DEF n
<1>5. /\ v[0] = <<>> /\ Without(more, gone) = v[n + 1]
      /\ \A k \in 1 .. n + 1 : v[k] = IF more[k] \in gone THEN v[k-1] ELSE Append(v[k-1], more[k])
  BY <1>1, <1>3 DEF Thins
<1> DEFINE Q == {k \in 0 .. n : v[k] = w[k]}
<1>6. 0 \in Q
  BY <1>1, <1>4, <1>5
<1>7. ASSUME NEW k \in 0 .. n - 1, k \in Q PROVE k + 1 \in Q
  <2>1. k + 1 \in 1 .. n /\ k + 1 \in 1 .. n + 1 /\ k + 1 - 1 = k /\ k + 1 \in 0 .. n
    BY <1>1
  <2>2. w[k + 1] = IF list[k + 1] \in gone THEN w[k] ELSE Append(w[k], list[k + 1])
    BY <1>4, <2>1
  <2>3. v[k + 1] = IF list[k + 1] \in gone THEN v[k] ELSE Append(v[k], list[k + 1])
    BY <1>1, <1>5, <2>1
  <2> QED BY <1>7, <2>1, <2>2, <2>3
<1>8. v[n] = w[n]
  <2>1. 0 .. n \subseteq Q
    <3> HIDE DEF Q
    <3> QED BY <1>1, <1>6, <1>7, Climb
  <2> QED BY <1>1, <2>1
<1>9. v[n + 1] = IF x \in gone THEN v[n] ELSE Append(v[n], x)
  <2>1. n + 1 \in 1 .. n + 1 /\ n + 1 - 1 = n
    BY <1>1
  <2> QED BY <1>1, <1>5, <2>1
<1> QED BY <1>4, <1>5, <1>8, <1>9 DEF more

(* What an element of a list stands for; what is taken out of a list and   *)
(* stands for what is taken out of the others changes nothing.             *)
Tagged(tag, list) == [i \in DOMAIN list |-> tag[list[i]]]

TagsOf(tag, U, list, w) ==
    w \in Seq(U) /\ Len(w) = Len(list) /\ \A i \in 1 .. Len(list) : w[i] = tag[list[i]]

LEMMA TaggedIs ==
    ASSUME NEW T, NEW U, NEW tag \in [T -> U], NEW list \in Seq(T)
    PROVE  TagsOf(tag, U, list, Tagged(tag, list))
<1> DEFINE n == Len(list)
           w == Tagged(tag, list)
<1>1. n \in Nat /\ DOMAIN list = 1 .. n /\ \A i \in 1 .. n : list[i] \in T
  OBVIOUS
<1>2. w = [i \in 1 .. n |-> tag[list[i]]]
  BY <1>1 DEF Tagged
<1> HIDE DEF n, w
<1>3. w \in [1 .. n -> U] /\ \A i \in 1 .. n : w[i] = tag[list[i]]
  BY <1>1, <1>2
<1>4. w \in Seq(U) /\ Len(w) = n
  BY <1>1, <1>3, TableIs
<1>5. TagsOf(tag, U, list, w)
  BY <1>3, <1>4 DEF n, TagsOf
<1> QED BY <1>5 DEF w

LEMMA TaggedAppend ==
    ASSUME NEW T, NEW U, NEW tag \in [T -> U], NEW list \in Seq(T), NEW x \in T
    PROVE  Tagged(tag, Append(list, x)) = Append(Tagged(tag, list), tag[x])
<1> DEFINE n == Len(list)
           more == Append(list, x)
           v == Tagged(tag, list)
           w == Tagged(tag, more)
           u == Append(v, tag[x])
<1>1. /\ n \in Nat /\ more \in Seq(T) /\ Len(more) = n + 1 /\ more[n + 1] = x
      /\ \A k \in 1 .. n : more[k] = list[k]
  BY AppendIs
<1>2. v \in Seq(U) /\ Len(v) = n /\ \A i \in 1 .. n : v[i] = tag[list[i]]
  <2>1. TagsOf(tag, U, list, v)
    BY TaggedIs
  <2> HIDE DEF v
  <2> QED BY <2>1 DEF TagsOf
<1> HIDE DEF n, more, v
<1>3. w \in Seq(U) /\ Len(w) = n + 1 /\ \A i \in 1 .. n + 1 : w[i] = tag[more[i]]
  <2>1. TagsOf(tag, U, more, w)
    BY <1>1, TaggedIs
  <2> HIDE DEF w
  <2> QED BY <1>1, <2>1 DEF TagsOf
<1>4. tag[x] \in U
  OBVIOUS
<1>5. u \in Seq(U) /\ Len(u) = n + 1 /\ u[n + 1] = tag[x] /\ \A i \in 1 .. n : u[i] = v[i]
  BY <1>2, <1>4, AppendIs
<1> HIDE DEF u, w
<1>6. \A i \in 1 .. n + 1 : w[i] = u[i]
  <2>1. \A i \in 1 .. n + 1 : i = n + 1 \/ i \in 1 .. n
    BY <1>1
  <2> QED BY <1>1, <1>2, <1>3, <1>5, <2>1
<1>7. w = u
  BY <1>1, <1>3, <1>5, <1>6
<1> QED BY <1>7 DEF u, v, w, more

CanTag(tag, list) == \E T, U : tag \in [T -> U] /\ list \in Seq(T)
GoesToo(tag, list, gone, away) == \A x \in ToSet(list) : x \in gone => tag[x] \in away

LEMMA WithoutTagged ==
    ASSUME NEW tag, NEW list, NEW gone, NEW away, CanTag(tag, list), GoesToo(tag, list, gone, away)
    PROVE  Without(Tagged(tag, Without(list, gone)), away) = Without(Tagged(tag, list), away)
<1>0. PICK T, U : tag \in [T -> U] /\ list \in Seq(T)
  BY DEF CanTag
<1> DEFINE n == Len(list)
           tags == Tagged(tag, list)
<1>1. n \in Nat /\ \A k \in 1 .. n : list[k] \in T /\ (list[k] \in gone => tag[list[k]] \in away)
  BY <1>0 DEF ToSet, GoesToo
<1>2. tags \in Seq(U) /\ Len(tags) = n /\ \A i \in 1 .. n : tags[i] = tag[list[i]]
  <2>1. TagsOf(tag, U, list, tags)
    BY <1>0, TaggedIs
  <2> HIDE DEF tags
  <2> QED BY <2>1 DEF TagsOf
<1>3. PICK w : Thins(w, T, list, gone)
  BY <1>0, WithoutThins
<1> HIDE DEF tags
<1>4. PICK v : Thins(v, U, tags, away)
  BY <1>2, WithoutThins
<1>5. /\ w \in [0 .. n -> Seq(T)] /\ w[0] = <<>> /\ Without(list, gone) = w[n]
      /\ \A k \in 1 .. n : w[k] = IF list[k] \in gone THEN w[k-1] ELSE Append(w[k-1], list[k])
  BY <1>3 DEF Thins
<1> HIDE DEF n
<1>6. /\ v[0] = <<>> /\ Without(tags, away) = v[n]
      /\ \A k \in 1 .. n : v[k] = IF tags[k] \in away THEN v[k-1] ELSE Append(v[k-1], tags[k])
  BY <1>2, <1>4 DEF Thins
<1> DEFINE Thin(k) == Without(Tagged(tag, w[k]), away)
           Q == {k \in 0 .. n : Thin(k) = v[k]}
<1>7. 0 \in Q
  <2>1. <<>> \in Seq(T) /\ <<>> \in Seq(U) /\ ToSet(<<>>) \cap away = {}
    BY DEF ToSet
  <2>2. Tagged(tag, <<>>) = <<>>
    BY DEF Tagged
  <2>3. Without(<<>>, away) = <<>>
    BY <2>1, WithoutNone
  <2> QED BY <1>1, <1>5, <1>6, <2>2, <2>3
<1>8. ASSUME NEW k \in 0 .. n - 1, k \in Q PROVE k + 1 \in Q
  <2> DEFINE x == list[k + 1]
  <2>1. k + 1 \in 1 .. n /\ k + 1 - 1 = k /\ k + 1 \in 0 .. n /\ k \in 0 .. n
    BY <1>1
  <2>2. w[k + 1] = IF x \in gone THEN w[k] ELSE Append(w[k], x)
    BY <1>5, <2>1
  <2>3. v[k + 1] = IF tag[x] \in away THEN v[k] ELSE Append(v[k], tag[x])
    BY <1>2, <1>6, <2>1
  <2>4. x \in T /\ (x \in gone => tag[x] \in away) /\ w[k] \in Seq(T)
    BY <1>1, <1>5, <2>1
  <2>5. Thin(k) = v[k]
    BY <1>8
  <2> HIDE DEF x
  <2>6. CASE x \in gone
    <3>1. Thin(k + 1) = v[k + 1]
      BY <2>2, <2>3, <2>4, <2>5, <2>6
    <3> QED BY <2>1, <3>1
  <2>7. CASE x \notin gone
    <3> DEFINE y == Tagged(tag, w[k])
    <3>1. Tagged(tag, w[k + 1]) = Append(y, tag[x])
      BY <1>0, <2>2, <2>4, <2>7, TaggedAppend
    <3>2. y \in Seq(U) /\ tag[x] \in U
      <4>1. TagsOf(tag, U, w[k], y)
        BY <1>0, <2>4, TaggedIs
      <4> QED BY <1>0, <2>4, <4>1 DEF TagsOf
    <3> DEFINE z == tag[x]
    <3>3. Thin(k) = Without(y, away) /\ Thin(k + 1) = Without(Append(y, z), away)
      BY <3>1
    <3>4. v[k + 1] = IF z \in away THEN v[k] ELSE Append(v[k], z)
      BY <2>3
    <3> HIDE DEF y, z, Thin
    <3>5. /\ z \in away => Without(Append(y, z), away) = Without(y, away)
          /\ z \notin away => Without(Append(y, z), away) = Append(Without(y, away), z)
      <4>1. y \in Seq(U) /\ z \in U
        BY <3>2 DEF z
      <4> QED BY <4>1, WithoutAppend
    <3>6. Thin(k + 1) = v[k + 1]
      BY <2>5, <3>3, <3>4, <3>5
    <3> QED BY <2>1, <3>6
  <2> QED BY <2>6, <2>7
<1>9. Thin(n) = v[n]
  <2>1. 0 .. n \subseteq Q
    <3> HIDE DEF Q
    <3> QED BY <1>1, <1>7, <1>8, Climb
  <2>2. n \in Q
    BY <1>1, <2>1
  <2> QED BY <2>2
<1> QED BY <1>5, <1>6, <1>9 DEF tags

(* The first two elements stay the first two.                              *)
LEMMA WithoutFirst ==
    ASSUME NEW T, NEW list \in Seq(T), NEW gone,
           Len(list) > 1, list[1] \notin gone, list[2] \notin gone
    PROVE  LET w == Without(list, gone)
           IN  w[1] = list[1] /\ w[2] = list[2] /\ Len(w) > 1 /\ Len(w) <= Len(list)
<1> DEFINE n == Len(list)
<1>1. n \in Nat /\ n > 1 /\ \A k \in 1 .. n : list[k] \in T
  OBVIOUS
<1>0. PICK w : Thins(w, T, list, gone)
  BY WithoutThins
<1>2. /\ w \in [0 .. n -> Seq(T)]
      /\ w[0] = <<>>
      /\ \A k \in 1 .. n :
            w[k] = IF list[k] \in gone THEN w[k-1] ELSE Append(w[k-1], list[k])
      /\ Without(list, gone) = w[n]
  BY <1>0 DEF Thins
<1> DEFINE Q == {k \in 0 .. n : /\ Len(w[k]) <= k
                                /\ k >= 1 => Len(w[k]) >= 1 /\ w[k][1] = list[1]
                                /\ k >= 2 => Len(w[k]) >= 2 /\ w[k][2] = list[2]}
<1> HIDE DEF n
<1>3. 0 \in Q
  BY <1>1, <1>2
<1>4. ASSUME NEW k \in 0 .. n - 1, k \in Q PROVE k + 1 \in Q
  <2> DEFINE a == w[k]
             b == w[k + 1]
             x == list[k + 1]
  <2>1. k + 1 \in 1 .. n /\ k + 1 - 1 = k /\ k \in 0 .. n /\ k + 1 \in 0 .. n /\ k \in Nat
    BY <1>1
  <2>2. a \in Seq(T) /\ x \in T /\ Len(a) \in Nat
    BY <1>1, <1>2, <2>1
  <2>3. b = IF x \in gone THEN a ELSE Append(a, x)
    BY <1>2, <2>1
  <2>4. /\ Len(a) <= k
        /\ k >= 1 => Len(a) >= 1 /\ a[1] = list[1]
        /\ k >= 2 => Len(a) >= 2 /\ a[2] = list[2]
    BY <1>4
  <2>5. (k = 0 => x = list[1]) /\ (k = 1 => x = list[2])
    OBVIOUS
  <2> DEFINE P == /\ Len(b) <= k + 1
                  /\ Len(b) >= 1 /\ b[1] = list[1]
                  /\ k >= 1 => Len(b) >= 2 /\ b[2] = list[2]
  <2>8. P => k + 1 \in Q
    BY <2>1
  <2> HIDE DEF a, b, x, Q
  <2>6. CASE x \in gone
    <3>1. k # 0 /\ k # 1 /\ b = a
      BY <2>3, <2>5, <2>6
    <3>2. k >= 2
      BY <2>1, <3>1
    <3> QED BY <2>1, <2>2, <2>4, <2>8, <3>1, <3>2
  <2>7. CASE x \notin gone
    <3>1. b = Append(a, x)
      BY <2>3, <2>7
    <3>2. /\ Len(b) = Len(a) + 1 /\ b[Len(a) + 1] = x
          /\ \A i \in 1 .. Len(a) : b[i] = a[i]
      BY <2>2, <3>1, AppendIs
    <3>3. CASE k = 0
      <4>1. Len(a) = 0
        BY <2>2, <2>4, <3>3
      <4>2. Len(b) = 1 /\ b[1] = list[1]
        BY <2>5, <3>2, <3>3, <4>1
      <4> QED BY <2>1, <2>8, <3>3, <4>2
    <3>4. CASE k = 1
      <4>3. Len(a) >= 1 /\ Len(a) <= 1 /\ Len(a) \in Nat
        BY <2>1, <2>2, <2>4, <3>4
      <4>4. \A i \in Nat : i >= 1 /\ i <= 1 => i = 1
        OBVIOUS
      <4>1. Len(a) = 1
        BY <4>3, <4>4
      <4>2. Len(b) = 2 /\ b[2] = list[2] /\ b[1] = list[1]
        BY <2>4, <2>5, <3>2, <3>4, <4>1
      <4> QED BY <2>1, <2>8, <3>4, <4>2
    <3>5. CASE k >= 2
      <4>1. 1 \in 1 .. Len(a) /\ 2 \in 1 .. Len(a)
        BY <2>2, <2>4, <3>5
      <4>2. b[1] = list[1] /\ b[2] = list[2]
        BY <2>4, <3>2, <3>5, <2>1, <4>1
      <4>3. Len(b) <= k + 1 /\ Len(b) >= 2
        BY <2>1, <2>2, <2>4, <3>2, <3>5
      <4> QED BY <2>1, <2>8, <4>2, <4>3
    <3> QED BY <2>1, <3>3, <3>4, <3>5
  <2> QED BY <2>6, <2>7
<1>5. 0 .. n \subseteq Q
  <2> HIDE DEF Q
  <2> QED BY <1>1, <1>3, <1>4, Climb
<1>6. n \in Q /\ n >= 2 /\ n >= 1
  <2>1. n \in 0 .. n
    BY <1>1
  <2> HIDE DEF Q
  <2> QED BY <1>1, <1>5, <2>1
<1>7. Len(w[n]) <= n /\ w[n][1] = list[1] /\ Len(w[n]) >= 2 /\ w[n][2] = list[2]
  BY <1>6
<1>8. w[n] \in Seq(T)
  BY <1>1, <1>2
<1>9. Len(w[n]) > 1
  BY <1>7, <1>8
<1> QED BY <1>2, <1>7, <1>9 DEF n

LEMMA JoinIs ==
    ASSUME NEW T, NEW a \in Seq(T), NEW b \in Seq(T)
    PROVE  /\ a \o b \in Seq(T) /\ Len(a \o b) = Len(a) + Len(b)
           /\ \A i \in 1 .. Len(a) + Len(b) : (a \o b)[i] = IF i <= Len(a) THEN a[i] ELSE b[i - Len(a)]
OBVIOUS

LEMMA BeyondIs ==
    ASSUME NEW n \in Nat, NEW k \in 1 .. n, NEW i \in 1 .. n - 1, i >= k
    PROVE  /\ i - (k - 1) \in 1 .. n - k /\ i \in 1 .. (k - 1) + (n - k)
           /\ ~ (i <= k - 1) /\ ~ (i < k) /\ i - (k - 1) + k = i + 1
OBVIOUS

LEMMA RemoveAtIs ==
    ASSUME NEW T, NEW c \in Seq(T), NEW k \in DOMAIN c
    PROVE  /\ RemoveAt(c, k) \in Seq(T) /\ Len(RemoveAt(c, k)) = Len(c) - 1
           /\ \A i \in 1 .. Len(c) - 1 : RemoveAt(c, k)[i] = IF i < k THEN c[i] ELSE c[i + 1]
<1>1. Len(c) \in Nat /\ k \in 1 .. Len(c)
  OBVIOUS
<1> DEFINE a == SubSeq(c, 1, k - 1)
           b == SubSeq(c, k + 1, Len(c))
<1>2. /\ a \in Seq(T) /\ Len(a) = k - 1 /\ \A i \in 1 .. k - 1 : a[i] = c[i]
  BY <1>1
<1>3. /\ b \in Seq(T) /\ Len(b) = Len(c) - k /\ \A i \in 1 .. Len(c) - k : b[i] = c[i + k]
  BY <1>1
<1> HIDE DEF a, b
<1>4. /\ a \o b \in Seq(T) /\ Len(a \o b) = Len(a) + Len(b)
      /\ \A i \in 1 .. Len(a) + Len(b) : (a \o b)[i] = IF i <= Len(a) THEN a[i] ELSE b[i - Len(a)]
  <2>1. a \in Seq(T) /\ b \in Seq(T)
    BY <1>2, <1>3
  <2> QED BY <2>1, JoinIs
<1>5. ASSUME NEW i \in 1 .. Len(c) - 1
      PROVE  (a \o b)[i] = IF i < k THEN c[i] ELSE c[i + 1]
  <2>1. CASE i < k
    <3>1. i \in 1 .. k - 1 /\ i \in 1 .. Len(a) + Len(b) /\ i <= Len(a)
      BY <1>1, <1>2, <1>3, <2>1
    <3> QED BY <1>2, <1>4, <2>1, <3>1
  <2>2. CASE i >= k
    <3>1. /\ i - Len(a) \in 1 .. Len(c) - k /\ i \in 1 .. Len(a) + Len(b) /\ ~ (i <= Len(a)) /\ ~ (i < k)
          /\ i - Len(a) + k = i + 1
      <4> DEFINE p == Len(a)
                 q == Len(b)
                 n == Len(c)
      <4>1. n \in Nat /\ k \in 1 .. n /\ p = k - 1 /\ q = n - k /\ i \in 1 .. n - 1
        BY <1>1, <1>2, <1>3
      <4>2. i - p \in 1 .. n - k /\ i \in 1 .. p + q /\ ~ (i <= p) /\ ~ (i < k) /\ i - p + k = i + 1
        <5> HIDE DEF p, q, n
        <5> QED BY <2>2, <4>1, BeyondIs
      <4> QED BY <4>2
    <3>2. b[i - Len(a)] = c[i - Len(a) + k]
      BY <1>3, <3>1
    <3>3. (a \o b)[i] = b[i - Len(a)]
      BY <1>4, <3>1
    <3>4. (a \o b)[i] = c[i + 1]
      BY <3>1, <3>2, <3>3
    <3> QED BY <3>1, <3>4
  <2>3. i < k \/ i >= k
    BY <1>1
  <2> QED BY <2>1, <2>2, <2>3
<1>6. Len(a) + Len(b) = Len(c) - 1
  BY <1>1, <1>2, <1>3
<1>7. RemoveAt(c, k) = a \o b
  BY DEF RemoveAt, a, b
<1> QED BY <1>4, <1>5, <1>6, <1>7

(* A list that has each element once is as long as the set of them.        *)
LEMMA SingleLength ==
    ASSUME NEW T, NEW list \in Seq(T), Single(list)
    PROVE  Len(list) = Cardinality(ToSet(list))
<1>1. list \in Bijection(1 .. Len(list), ToSet(list)) /\ Len(list) \in Nat
  BY DEF Single, ToSet, Bijection, Injection, Surjection, IsInjective
<1>2. ExistsBijection(1 .. Len(list), ToSet(list))
  BY <1>1 DEF ExistsBijection
<1> QED BY <1>1, <1>2, FS_CountingElements

LEMMA LitIs ==
    ASSUME NEW l \in Lits
    PROVE  l \in Int /\ -l \in Lits /\ -(-l) = l /\ l # -l /\ Var(l) \in Vars /\ Var(-l) = Var(l)
<1>1. PICK v \in Vars : l = v \/ l = -v
  BY DEF Lits
<1>2. v \in Int /\ v > 0 /\ -v < 0 /\ -(-v) = v
  BY <1>1, ClauseMemoryAssumption DEF Vars
<1>3. v \in Lits /\ -v \in Lits
  BY DEF Lits
<1>4. CASE l = v
  BY <1>2, <1>3, <1>4 DEF Var
<1>5. CASE l = -v
  BY <1>2, <1>3, <1>5 DEF Var
<1> QED BY <1>1, <1>4, <1>5

LEMMA ProperIs ==
    ASSUME NEW c, Proper(c)
    PROVE  /\ c[1] \in Lits /\ c[2] \in Lits /\ -c[1] \in Lits /\ -c[2] \in Lits
           /\ c[1] # c[2] /\ -c[1] # -c[2] /\ 1 \in DOMAIN c /\ 2 \in DOMAIN c
           /\ DOMAIN c = 1 .. Len(c) /\ Len(c) \in Nat /\ \A k \in DOMAIN c : c[k] \in Lits
<1>1. /\ c \in Seq(Lits) /\ Len(c) > 1 /\ Len(c) \in Nat /\ DOMAIN c = 1 .. Len(c)
      /\ \A i, j \in DOMAIN c : i # j => Var(c[i]) # Var(c[j])
      /\ \A k \in DOMAIN c : c[k] \in Lits
  BY DEF Proper
<1>2. 1 \in DOMAIN c /\ 2 \in DOMAIN c
  BY <1>1
<1>3. c[1] \in Lits /\ c[2] \in Lits /\ Var(c[1]) # Var(c[2])
  BY <1>1, <1>2
<1>4. -c[1] \in Lits /\ -c[2] \in Lits /\ -(-c[1]) = c[1] /\ -(-c[2]) = c[2]
  BY <1>3, LitIs
<1> QED BY <1>1, <1>2, <1>3, <1>4

-----------------------------------------------------------------------------
(* What stays so when clauses change.                                      *)

(* Elements of a set are in a list once.                                   *)
Once(list, S) == \A i, j \in DOMAIN list : list[i] = list[j] /\ list[i] \in S => i = j

LEMMA OnceAppend ==
    ASSUME NEW T, NEW list \in Seq(T), NEW S, Once(list, S), NEW r \in T, r \notin ToSet(list)
    PROVE  Once(Append(list, r), S \cup {r})
<1> DEFINE n == Len(list)
           a == Append(list, r)
<1>1. /\ a \in Seq(T) /\ Len(a) = n + 1 /\ a[n + 1] = r /\ n \in Nat
      /\ \A i \in 1 .. n : a[i] = list[i]
  BY AppendIs
<1>2. DOMAIN a = 1 .. n + 1 /\ DOMAIN list = 1 .. n
  BY <1>1
<1> HIDE DEF a, n
<1>3. \A i \in 1 .. n : a[i] # r
  BY <1>1, <1>2 DEF ToSet
<1>4. \A i \in 1 .. n + 1 : i = n + 1 \/ i \in 1 .. n
  BY <1>1
<1> QED BY <1>1, <1>2, <1>3, <1>4 DEF Once, a

LEMMA OnceWithout ==
    ASSUME NEW T, NEW list \in Seq(T), NEW S, Once(list, S), NEW gone
    PROVE  Once(Without(list, gone), S)
<1> SUFFICES ASSUME NEW i \in DOMAIN Without(list, gone), NEW j \in DOMAIN Without(list, gone),
                    Without(list, gone)[i] = Without(list, gone)[j], Without(list, gone)[i] \in S
             PROVE  i = j
  BY DEF Once
<1>1. PICK a, b \in DOMAIN list :
              /\ Without(list, gone)[i] = list[a] /\ Without(list, gone)[j] = list[b]
              /\ a = b => i = j
  BY WithoutOrder
<1> QED BY <1>1 DEF Once

LEMMA WatchesSame ==
    ASSUME NEW g, NEW h, NEW w, NEW d, NEW e, WatchOK(g, w, d), d \subseteq e,
           Named(g) \subseteq Named(h), Live(h) \subseteq Live(g),
           \A r \in Live(h) : /\ h.mem[r].lits[1] = g.mem[r].lits[1]
                              /\ h.mem[r].lits[2] = g.mem[r].lits[2],
           \A r \in Live(g) \ Live(h) : \A l \in Lits :
              -l \in {g.mem[r].lits[1], g.mem[r].lits[2]} => l \in e
    PROVE  WatchOK(h, w, e)
<1> SUFFICES ASSUME NEW l \in Lits
             PROVE  /\ ToSet(w[l]) \subseteq Named(h)
                    /\ \A r \in Live(h) : r \in ToSet(w[l]) <=> -l \in {h.mem[r].lits[1], h.mem[r].lits[2]}
                    /\ \A i, j \in DOMAIN w[l] : w[l][i] = w[l][j] /\ w[l][i] \in Live(h) => i = j
                    /\ l \notin e => ToSet(w[l]) \subseteq Live(h)
  BY DEF WatchOK
<1>1. /\ ToSet(w[l]) \subseteq Named(g)
      /\ \A r \in Live(g) : r \in ToSet(w[l]) <=> -l \in {g.mem[r].lits[1], g.mem[r].lits[2]}
      /\ \A i, j \in DOMAIN w[l] : w[l][i] = w[l][j] /\ w[l][i] \in Live(g) => i = j
      /\ l \notin d => ToSet(w[l]) \subseteq Live(g)
  BY DEF WatchOK
<1>2. ASSUME l \notin e PROVE ToSet(w[l]) \subseteq Live(h)
  BY <1>1, <1>2
<1>3. \A r \in Live(h) : r \in ToSet(w[l]) <=> -l \in {h.mem[r].lits[1], h.mem[r].lits[2]}
  BY <1>1
<1>4. \A i, j \in DOMAIN w[l] : w[l][i] = w[l][j] /\ w[l][i] \in Live(h) => i = j
  BY <1>1
<1>5. ToSet(w[l]) \subseteq Named(h)
  BY <1>1
<1> QED BY <1>2, <1>3, <1>4, <1>5

(* The watchers of one clause change.                                      *)
SameBut(g, h, r) ==
    /\ Named(g) \subseteq Named(h) /\ Live(h) = Live(g) \cup {r}
    /\ \A q \in Live(g) : q # r => h.mem[q].lits = g.mem[q].lits
Rewatches(h, w, x, r) ==
    \A l \in Lits : /\ \A q : q # r => (q \in ToSet(x[l]) <=> q \in ToSet(w[l]))
                    /\ r \in ToSet(x[l]) <=> -l \in {h.mem[r].lits[1], h.mem[r].lits[2]}
                    /\ Once(x[l], Live(h))
Reoccurs(h, occ, new, r) ==
    \A v \in Vars : /\ \A q : q # r => (q \in ToSet(new[v]) <=> q \in ToSet(occ[v]))
                    /\ r \in ToSet(new[v]) <=> v \in VarsOf(h.mem[r].lits)

LEMMA WatchesChange ==
    ASSUME NEW g, NEW h, NEW w, NEW x, NEW d, WatchOK(g, w, d),
           NEW r, SameBut(g, h, r), Rewatches(h, w, x, r)
    PROVE  WatchOK(h, x, d)
<1> SUFFICES ASSUME NEW l \in Lits
             PROVE  /\ ToSet(x[l]) \subseteq Named(h)
                    /\ \A q \in Live(h) : q \in ToSet(x[l]) <=> -l \in {h.mem[q].lits[1], h.mem[q].lits[2]}
                    /\ \A i, j \in DOMAIN x[l] : x[l][i] = x[l][j] /\ x[l][i] \in Live(h) => i = j
                    /\ l \notin d => ToSet(x[l]) \subseteq Live(h)
  BY DEF WatchOK
<1>1. /\ ToSet(w[l]) \subseteq Named(g)
      /\ \A q \in Live(g) : q \in ToSet(w[l]) <=> -l \in {g.mem[q].lits[1], g.mem[q].lits[2]}
      /\ l \notin d => ToSet(w[l]) \subseteq Live(g)
  BY DEF WatchOK
<1>2. /\ \A q : q # r => (q \in ToSet(x[l]) <=> q \in ToSet(w[l]))
      /\ r \in ToSet(x[l]) <=> -l \in {h.mem[r].lits[1], h.mem[r].lits[2]}
      /\ Once(x[l], Live(h))
  BY DEF Rewatches
<1>3. r \in Live(h) /\ r \in Named(h) /\ Named(g) \subseteq Named(h) /\ Live(h) = Live(g) \cup {r}
  BY DEF Live, SameBut
<1>4. ToSet(x[l]) \subseteq Named(h)
  BY <1>1, <1>2, <1>3
<1>5. \A q \in Live(h) : q \in ToSet(x[l]) <=> -l \in {h.mem[q].lits[1], h.mem[q].lits[2]}
  <2>1. ASSUME NEW q \in Live(h), q # r
        PROVE  q \in ToSet(x[l]) <=> -l \in {h.mem[q].lits[1], h.mem[q].lits[2]}
    <3>1. q \in Live(g) /\ h.mem[q].lits = g.mem[q].lits
      BY <1>3, <2>1 DEF SameBut
    <3>2. q \in ToSet(w[l]) <=> -l \in {g.mem[q].lits[1], g.mem[q].lits[2]}
      BY <1>1, <3>1
    <3> QED BY <1>2, <2>1, <3>1, <3>2
  <2> QED BY <1>2, <2>1
<1>6. l \notin d => ToSet(x[l]) \subseteq Live(h)
  <2>1. ASSUME l \notin d, NEW q \in ToSet(x[l]) PROVE q \in Live(h)
    <3>1. CASE q = r
      BY <1>3, <3>1
    <3>2. CASE q # r
      BY <1>1, <1>2, <1>3, <2>1, <3>2
    <3> QED BY <3>1, <3>2
  <2> QED BY <2>1
<1> QED BY <1>2, <1>4, <1>5, <1>6 DEF Once

LEMMA OccursSame ==
    ASSUME NEW g, NEW h, NEW occ, OccursOK(g, occ),
           Named(g) \subseteq Named(h), Live(h) \subseteq Live(g),
           \A r \in Live(h) : VarsOf(h.mem[r].lits) = VarsOf(g.mem[r].lits)
    PROVE  OccursOK(h, occ)
<1> SUFFICES ASSUME NEW v \in Vars
             PROVE  /\ ToSet(occ[v]) \subseteq Named(h)
                    /\ \A r \in Live(h) : r \in ToSet(occ[v]) <=> v \in VarsOf(h.mem[r].lits)
  BY DEF OccursOK
<1>1. /\ ToSet(occ[v]) \subseteq Named(g)
      /\ \A r \in Live(g) : r \in ToSet(occ[v]) <=> v \in VarsOf(g.mem[r].lits)
  BY DEF OccursOK
<1> QED BY <1>1

(* The occurrences of one clause change.                                   *)
LEMMA OccursChange ==
    ASSUME NEW g, NEW h, NEW occ, NEW new, OccursOK(g, occ),
           NEW r, SameBut(g, h, r), Reoccurs(h, occ, new, r)
    PROVE  OccursOK(h, new)
<1> SUFFICES ASSUME NEW v \in Vars
             PROVE  /\ ToSet(new[v]) \subseteq Named(h)
                    /\ \A q \in Live(h) : q \in ToSet(new[v]) <=> v \in VarsOf(h.mem[q].lits)
  BY DEF OccursOK
<1>1. /\ ToSet(occ[v]) \subseteq Named(g)
      /\ \A q \in Live(g) : q \in ToSet(occ[v]) <=> v \in VarsOf(g.mem[q].lits)
  BY DEF OccursOK
<1>2. /\ \A q : q # r => (q \in ToSet(new[v]) <=> q \in ToSet(occ[v]))
      /\ r \in ToSet(new[v]) <=> v \in VarsOf(h.mem[r].lits)
  BY DEF Reoccurs
<1>3. r \in Named(h) /\ Named(g) \subseteq Named(h) /\ Live(h) = Live(g) \cup {r}
  BY DEF Live, SameBut
<1>4. ToSet(new[v]) \subseteq Named(h)
  BY <1>1, <1>2, <1>3
<1>5. ASSUME NEW q \in Live(h), q # r
      PROVE  q \in ToSet(new[v]) <=> v \in VarsOf(h.mem[q].lits)
  <2>1. q \in Live(g) /\ h.mem[q].lits = g.mem[q].lits
    BY <1>3, <1>5 DEF SameBut
  <2> QED BY <1>1, <1>2, <1>5, <2>1
<1> QED BY <1>2, <1>4, <1>5

(* A trail on which some reasons are forgotten.                            *)
Forgets(g, h, t, u) ==
    /\ DOMAIN u = DOMAIN t
    /\ \A i \in DOMAIN t :
          /\ u[i].lit = t[i].lit
          /\ u[i].reason # Undef =>
                /\ u[i].reason = t[i].reason /\ t[i].reason \in Live(h)
                /\ h.mem[t[i].reason].lits[1] = g.mem[t[i].reason].lits[1]

LEMMA TrailSame ==
    ASSUME NEW g, NEW h, NEW t, NEW u, TrailOK(g, t), Forgets(g, h, t, u)
    PROVE  TrailOK(h, u)
<1>0. /\ DOMAIN u = DOMAIN t
      /\ \A i \in DOMAIN t :
            /\ u[i].lit = t[i].lit
            /\ u[i].reason # Undef =>
                  /\ u[i].reason = t[i].reason /\ t[i].reason \in Live(h)
                  /\ h.mem[t[i].reason].lits[1] = g.mem[t[i].reason].lits[1]
  BY DEF Forgets
<1>1. \A i, j \in DOMAIN u : u[i].lit # -u[j].lit
  BY <1>0 DEF TrailOK
<1>2. ASSUME NEW i \in DOMAIN u, u[i].reason # Undef
      PROVE  u[i].reason \in Live(h) /\ h.mem[u[i].reason].lits[1] = u[i].lit
  <2>1. /\ u[i].lit = t[i].lit /\ u[i].reason = t[i].reason /\ t[i].reason \in Live(h)
        /\ h.mem[t[i].reason].lits[1] = g.mem[t[i].reason].lits[1]
    BY <1>0, <1>2
  <2>2. g.mem[t[i].reason].lits[1] = t[i].lit
    BY <1>0, <1>2, <2>1 DEF TrailOK
  <2> QED BY <2>1, <2>2
<1> QED BY <1>1, <1>2 DEF TrailOK

-----------------------------------------------------------------------------
(* Clauses are removed.                                                    *)

(* The trail u is t, without reasons that are not among those there are.   *)
Loses(t, u, live) ==
    /\ DOMAIN u = DOMAIN t
    /\ \A i \in DOMAIN t :
          /\ u[i].lit = t[i].lit
          /\ u[i].reason = t[i].reason \/ (u[i].reason = Undef /\ t[i].reason \notin live)

(* What is the same when clauses have been removed.                        *)
Follows(s, t) ==
    /\ t.clauses = s.clauses /\ t.learnts = s.learnts /\ t.watches = s.watches
    /\ t.occurs = s.occurs /\ t.queue = s.queue /\ t.tmpunit = s.tmpunit /\ t.simp = s.simp
    /\ DOMAIN t.ca.mem = DOMAIN s.ca.mem /\ Named(t.ca) = Named(s.ca) /\ Live(t.ca) \subseteq Live(s.ca)
    /\ \A r \in DOMAIN s.ca.mem : /\ t.ca.mem[r].id = s.ca.mem[r].id
                                  /\ t.ca.mem[r].lits = s.ca.mem[r].lits
                                  /\ t.ca.mem[r].learnt = s.ca.mem[r].learnt
    /\ Loses(s.trail, t.trail, Live(t.ca))
    /\ t.ca.sz = s.ca.sz /\ t.ca.cap = s.ca.cap /\ t.ca.wasted >= s.ca.wasted

LEMMA RemoveIs ==
    ASSUME NEW s, Core(s), NEW r \in Live(s.ca)
    PROVE  LET t == RemoveClause(s, r)
           IN  Core(t) /\ Follows(s, t) /\ Live(t.ca) = Live(s.ca) \ {r}
<1> DEFINE c == s.ca.mem[r]
           h == [s.ca EXCEPT !.mem[r].removed = TRUE, !.wasted = @ + clauseWord32Size(s.ca.mem[r])]
           d == s.dirty \cup {-c.lits[1], -c.lits[2]}
           u == [i \in DOMAIN s.trail |-> IF Locked(s, r) /\ s.trail[i].reason = r
                                          THEN [s.trail[i] EXCEPT !.reason = Undef] ELSE s.trail[i]]
           t == RemoveClause(s, r)
           e == [s EXCEPT !.dirty = d, !.trail = u, !.ca = h]
<1>1. /\ s \in StateType /\ RegionOK(s.ca) /\ WatchOK(s.ca, s.watches, s.dirty)
      /\ SimpOK(s) /\ TrailOK(s.ca, s.trail) /\ s.ca \in RegionType /\ s.dirty \subseteq Lits
      /\ s.trail \in Seq(EntryType) /\ s.ca.wasted \in Nat
  <2>1. s \in StateType
    BY DEF Core
  <2>2. s.ca \in RegionType /\ s.dirty \subseteq Lits /\ s.trail \in Seq(EntryType)
    BY <2>1 DEF StateType
  <2>3. s.ca.wasted \in Nat
    BY <2>2 DEF RegionType
  <2> QED BY <2>1, <2>2, <2>3 DEF Core
<1>2. /\ h \in RegionType /\ RegionOK(h) /\ DOMAIN h.mem = DOMAIN s.ca.mem
      /\ h.mem[r] = [c EXCEPT !.removed = TRUE] /\ h.mem[r] \in ClauseType
      /\ \A q \in DOMAIN s.ca.mem : q # r => h.mem[q] = s.ca.mem[q]
      /\ Named(h) = Named(s.ca) /\ Live(h) = Live(s.ca) \ {r}
      /\ h.sz = s.ca.sz /\ h.cap = s.ca.cap /\ h.wasted >= s.ca.wasted
      /\ h.extra_clause_field = s.ca.extra_clause_field
  BY <1>1, RegionRemoves, Zenon
<1>3. r \in DOMAIN s.ca.mem /\ c \in ClauseType
  BY <1>1, RegionFacts DEF Live, Named
<1>4. t = e
  BY <1>1 DEF RemoveClause, StateType, RegionType
<1>5. Proper(c.lits)
  BY <1>1 DEF RegionOK, ClausesOK
<1>6. d \subseteq Lits /\ s.dirty \subseteq d
  BY <1>1, <1>5, ProperIs
<1>7. /\ DOMAIN u = DOMAIN s.trail
      /\ \A i \in DOMAIN s.trail :
            /\ u[i] \in EntryType /\ u[i].lit = s.trail[i].lit
            /\ u[i].reason \in {s.trail[i].reason, Undef}
            /\ u[i].reason # r /\ (s.trail[i].reason # r => u[i].reason = s.trail[i].reason)
  <2>1. ASSUME NEW i \in DOMAIN s.trail
        PROVE  /\ u[i] \in EntryType /\ u[i].lit = s.trail[i].lit
               /\ u[i].reason \in {s.trail[i].reason, Undef}
               /\ u[i].reason # r /\ (s.trail[i].reason # r => u[i].reason = s.trail[i].reason)
    <3>1. s.trail[i] \in EntryType
      BY <1>1
    <3>2. r \in Nat
      BY <1>1, <1>3, RegionFacts
    <3>3. CASE s.trail[i].reason = r
      <4>1. c.lits[1] = s.trail[i].lit
        BY <1>1, <3>2, <3>3 DEF TrailOK, Undef
      <4>2. Locked(s, r)
        BY <3>3, <4>1 DEF Locked
      <4>3. u[i] = [s.trail[i] EXCEPT !.reason = Undef]
        BY <3>3, <4>2
      <4> QED BY <3>1, <3>2, <3>3, <4>3 DEF EntryType, Undef
    <3>4. CASE s.trail[i].reason # r
      <4>1. u[i] = s.trail[i]
        BY <3>4
      <4> QED BY <3>1, <3>4, <4>1
    <3> QED BY <3>3, <3>4
  <2> QED BY <2>1
<1>8. u \in Seq(EntryType)
  <2>1. DOMAIN s.trail = 1 .. Len(s.trail) /\ Len(s.trail) \in Nat
    BY <1>1
  <2> HIDE DEF u
  <2>2. u = [i \in DOMAIN s.trail |-> u[i]]
    BY DEF u
  <2> DEFINE n == Len(s.trail)
  <2>3. n \in Nat /\ u \in [1 .. n -> EntryType]
    BY <1>7, <2>1, <2>2
  <2> HIDE DEF n
  <2> QED BY <2>3, TableIs
<1> HIDE DEF h, d, u, t
<1>9. /\ t \in StateType /\ t.ca = h /\ t.dirty = d /\ t.trail = u
      /\ t.clauses = s.clauses /\ t.learnts = s.learnts /\ t.watches = s.watches
      /\ t.occurs = s.occurs /\ t.queue = s.queue /\ t.tmpunit = s.tmpunit /\ t.simp = s.simp
  BY <1>1, <1>2, <1>4, <1>6, <1>8 DEF StateType
<1>10. \A q \in DOMAIN s.ca.mem : h.mem[q].id = s.ca.mem[q].id /\ h.mem[q].lits = s.ca.mem[q].lits
                                  /\ h.mem[q].learnt = s.ca.mem[q].learnt
  <2>1. h.mem[r].id = c.id /\ h.mem[r].lits = c.lits /\ h.mem[r].learnt = c.learnt
    BY <1>2, <1>3 DEF ClauseType
  <2> QED BY <1>2, <2>1
<1>11. \A q \in Live(s.ca) : q \in DOMAIN s.ca.mem
  BY DEF Live, Named
<1>12. WatchOK(h, s.watches, d)
  <2>1. \A q \in Live(s.ca) \ Live(h) : \A l \in Lits :
           -l \in {s.ca.mem[q].lits[1], s.ca.mem[q].lits[2]} => l \in d
    <3>1. ASSUME NEW l \in Lits, -l \in {c.lits[1], c.lits[2]} PROVE l \in d
      <4>1. l = -(-l)
        BY LitIs
      <4> QED BY <3>1, <4>1 DEF d
    <3> QED BY <1>2, <3>1
  <2> QED BY <1>1, <1>2, <1>6, <1>10, <1>11, <2>1, WatchesSame
<1>13. SimpOK(t)
  <2>1. SUFFICES ASSUME s.simp
                 PROVE  /\ OccursOK(h, s.occurs) /\ ToSet(s.queue) \subseteq DOMAIN h.mem
                        /\ s.tmpunit \in DOMAIN h.mem \ Named(h) /\ ~ h.mem[s.tmpunit].removed
    BY <1>9 DEF SimpOK
  <2>2. /\ OccursOK(s.ca, s.occurs) /\ ToSet(s.queue) \subseteq DOMAIN s.ca.mem
        /\ s.tmpunit \in DOMAIN s.ca.mem \ Named(s.ca) /\ ~ s.ca.mem[s.tmpunit].removed
    BY <1>1, <2>1 DEF SimpOK
  <2>3. OccursOK(h, s.occurs)
    <3>1. \A q \in Live(h) : VarsOf(h.mem[q].lits) = VarsOf(s.ca.mem[q].lits)
      BY <1>2, <1>10, <1>11
    <3> QED BY <1>2, <2>2, <3>1, OccursSame
  <2>4. s.tmpunit # r
    BY <2>2 DEF Live
  <2> QED BY <1>2, <2>2, <2>3, <2>4
<1>14. TrailOK(h, u)
  <2>1. Forgets(s.ca, h, s.trail, u)
    <3>1. ASSUME NEW i \in DOMAIN s.trail, u[i].reason # Undef
          PROVE  /\ u[i].reason = s.trail[i].reason /\ s.trail[i].reason \in Live(h)
                 /\ h.mem[s.trail[i].reason].lits[1] = s.ca.mem[s.trail[i].reason].lits[1]
      <4>1. u[i].reason = s.trail[i].reason /\ u[i].reason # r
        BY <1>7, <3>1
      <4>2. s.trail[i].reason \in Live(s.ca)
        BY <1>1, <3>1, <4>1 DEF TrailOK
      <4> QED BY <1>2, <1>10, <1>11, <4>1, <4>2
    <3> QED BY <1>7, <3>1 DEF Forgets
  <2> QED BY <1>1, <2>1, TrailSame
<1>15. Core(t)
  BY <1>2, <1>9, <1>12, <1>13, <1>14 DEF Core
<1>16. Follows(s, t)
  <2>1. Loses(s.trail, u, Live(h))
    <3>1. r \notin Live(h)
      BY <1>2
    <3> QED BY <1>7, <3>1 DEF Loses
  <2> QED BY <1>2, <1>9, <1>10, <2>1 DEF Follows
<1> QED BY <1>2, <1>9, <1>15, <1>16 DEF t

LEMMA FollowsTwice ==
    ASSUME NEW s, Core(s), NEW t, Core(t), NEW u, Core(u), Follows(s, t), Follows(t, u)
    PROVE  Follows(s, u)
<1>1. s.ca.wasted \in Nat /\ t.ca.wasted \in Nat /\ u.ca.wasted \in Nat
  BY DEF Core, StateType, RegionType
<1>2. u.ca.wasted >= s.ca.wasted
  BY <1>1 DEF Follows
<1>3. Loses(s.trail, u.trail, Live(u.ca))
  <2>1. /\ Loses(s.trail, t.trail, Live(t.ca)) /\ Loses(t.trail, u.trail, Live(u.ca))
        /\ Live(u.ca) \subseteq Live(t.ca)
    BY DEF Follows
  <2> QED BY <2>1 DEF Loses
<1>4. /\ u.clauses = s.clauses /\ u.learnts = s.learnts /\ u.watches = s.watches
      /\ u.occurs = s.occurs /\ u.queue = s.queue /\ u.tmpunit = s.tmpunit /\ u.simp = s.simp
      /\ DOMAIN u.ca.mem = DOMAIN s.ca.mem /\ Named(u.ca) = Named(s.ca) /\ Live(u.ca) \subseteq Live(s.ca)
      /\ u.ca.sz = s.ca.sz /\ u.ca.cap = s.ca.cap
  BY DEF Follows
<1>5. \A r \in DOMAIN s.ca.mem : /\ u.ca.mem[r].id = s.ca.mem[r].id
                                 /\ u.ca.mem[r].lits = s.ca.mem[r].lits
                                 /\ u.ca.mem[r].learnt = s.ca.mem[r].learnt
  BY DEF Follows
<1> QED BY <1>2, <1>3, <1>4, <1>5 DEF Follows

LEMMA FollowsSelf ==
    ASSUME NEW s, Core(s)
    PROVE  Follows(s, s)
<1>1. s.ca.wasted \in Nat
  BY DEF Core, StateType, RegionType
<1>2. Loses(s.trail, s.trail, Live(s.ca))
  BY DEF Loses
<1> QED BY <1>1, <1>2 DEF Follows

(* Clauses of a list are removed.                                          *)
LEMMA RemoveAllIs ==
    ASSUME NEW s, Core(s), NEW list \in Seq(Nat), Single(list), NEW gone,
           ToSet(list) \cap gone \subseteq Live(s.ca)
    PROVE  LET t == RemoveAll(s, list, gone).state
           IN  /\ Core(t) /\ Follows(s, t) /\ Live(t.ca) = Live(s.ca) \ (ToSet(list) \cap gone)
               /\ RemoveAll(s, list, gone).rest = Without(list, gone)
<1> DEFINE n == Len(list)
           Eq(f) == [k \in 0 .. n |-> IF k = 0 THEN s
                                      ELSE IF list[k] \in gone THEN RemoveClause(f[k-1], list[k]) ELSE f[k-1]]
           S == {t \in StateType : Core(t)}
           step == [y \in S \X Nat |-> IF y[2] \in gone /\ y[2] \in Live(y[1].ca)
                                       THEN RemoveClause(y[1], y[2]) ELSE y[1]]
           w == CHOOSE f : f = Eq(f)
<1>1. /\ n \in Nat /\ \A k \in 1 .. n : list[k] \in Nat
      /\ \A i, j \in 1 .. n : list[i] = list[j] => i = j
      /\ ToSet(list) = {list[k] : k \in 1 .. n}
  BY DEF Single, ToSet
<1>2. s \in S
  BY DEF Core
<1>3. step \in [S \X Nat -> S]
  <2>1. ASSUME NEW y \in S \X Nat
        PROVE  (IF y[2] \in gone /\ y[2] \in Live(y[1].ca) THEN RemoveClause(y[1], y[2]) ELSE y[1]) \in S
    <3>1. y[1] \in S /\ Core(y[1])
      OBVIOUS
    <3>2. ASSUME y[2] \in Live(y[1].ca) PROVE RemoveClause(y[1], y[2]) \in S
      <4>1. Core(RemoveClause(y[1], y[2]))
        BY <3>1, <3>2, RemoveIs
      <4> QED BY <4>1 DEF Core
    <3> HIDE DEF S
    <3> QED BY <3>1, <3>2
  <2> QED BY <2>1
<1> HIDE DEF step
<1>4. PICK g : GoesThrough(g, S, s, list, step)
  <2> HIDE DEF S
  <2> QED BY <1>2, <1>3, EachExists
<1>5. /\ g[0] = s
      /\ \A k \in 0 .. n : Core(g[k])
      /\ \A k \in 1 .. n : g[k] = IF list[k] \in gone /\ list[k] \in Live(g[k-1].ca)
                                  THEN RemoveClause(g[k-1], list[k]) ELSE g[k-1]
  <2>1. ASSUME NEW k \in 1 .. n
        PROVE  g[k] = IF list[k] \in gone /\ list[k] \in Live(g[k-1].ca)
                      THEN RemoveClause(g[k-1], list[k]) ELSE g[k-1]
    <3>0. k - 1 \in 0 .. n
      BY <1>1
    <3>1. g[k-1] \in S /\ list[k] \in Nat
      BY <1>1, <1>4, <3>0 DEF GoesThrough
    <3>2. step[<<g[k-1], list[k]>>] = IF list[k] \in gone /\ list[k] \in Live(g[k-1].ca)
                      THEN RemoveClause(g[k-1], list[k]) ELSE g[k-1]
      <4> HIDE DEF S
      <4> QED BY <3>1 DEF step
    <3> QED BY <1>4, <3>2 DEF GoesThrough
  <2>2. \A k \in 0 .. n : g[k] \in S
    BY <1>4 DEF GoesThrough
  <2> QED BY <1>4, <2>1, <2>2 DEF GoesThrough
<1> DEFINE So(k) == {list[j] : j \in 1 .. k} \cap gone
           Q == {k \in 0 .. n : Follows(s, g[k]) /\ Live(g[k].ca) = Live(s.ca) \ So(k)}
<1> HIDE DEF n, S
<1>6. 0 \in Q
  <2>1. Follows(s, s)
    BY FollowsSelf
  <2> QED BY <1>1, <1>5, <2>1
<1>7. ASSUME NEW k \in 0 .. n - 1, k \in Q
      PROVE  /\ k + 1 \in Q
             /\ g[k + 1] = IF list[k + 1] \in gone THEN RemoveClause(g[k], list[k + 1]) ELSE g[k]
  <2>1. k + 1 \in 1 .. n /\ k + 1 - 1 = k /\ k \in 0 .. n /\ k + 1 \in 0 .. n /\ k \in Nat
    BY <1>1
  <2>2. 1 .. k + 1 = 1 .. k \cup {k + 1}
    BY <2>1
  <2>3. Follows(s, g[k]) /\ Live(g[k].ca) = Live(s.ca) \ So(k) /\ Core(g[k])
    BY <1>5, <1>7, <2>1
  <2>4. g[k + 1] = IF list[k + 1] \in gone /\ list[k + 1] \in Live(g[k].ca)
                   THEN RemoveClause(g[k], list[k + 1]) ELSE g[k]
    BY <1>5, <2>1
  <2>5. Core(g[k + 1])
    BY <1>5, <2>1
  <2>6. CASE list[k + 1] \in gone
    <3>1. list[k + 1] \notin So(k)
      <4>1. \A j \in 1 .. k : j \in 1 .. n /\ j # k + 1
        BY <1>1, <2>1
      <4> QED BY <1>1, <2>1, <4>1
    <3>2. list[k + 1] \in Live(g[k].ca)
      BY <1>1, <2>1, <2>3, <2>6, <3>1
    <3>3. g[k + 1] = RemoveClause(g[k], list[k + 1])
      BY <2>4, <2>6, <3>2
    <3>4. Follows(g[k], g[k + 1]) /\ Live(g[k + 1].ca) = Live(g[k].ca) \ {list[k + 1]}
      BY <2>3, <3>2, <3>3, RemoveIs
    <3>5. Follows(s, g[k + 1])
      BY <2>3, <2>5, <3>4, FollowsTwice
    <3>6. So(k + 1) = So(k) \cup {list[k + 1]}
      BY <2>2, <2>6
    <3> HIDE DEF So
    <3> QED BY <2>1, <2>3, <2>6, <3>3, <3>4, <3>5, <3>6
  <2>7. CASE list[k + 1] \notin gone
    <3>1. So(k + 1) = So(k)
      BY <2>2, <2>7
    <3>2. g[k + 1] = g[k]
      BY <2>4, <2>7
    <3> HIDE DEF So
    <3> QED BY <2>1, <2>3, <2>7, <3>1, <3>2
  <2> QED BY <2>6, <2>7
<1>8. 0 .. n \subseteq Q
  <2> HIDE DEF Q
  <2> QED BY <1>1, <1>6, <1>7, Climb
<1>9. \A k \in 1 .. n : g[k] = IF list[k] \in gone THEN RemoveClause(g[k-1], list[k]) ELSE g[k-1]
  <2>1. ASSUME NEW k \in 1 .. n
        PROVE  g[k] = IF list[k] \in gone THEN RemoveClause(g[k-1], list[k]) ELSE g[k-1]
    <3>1. k - 1 \in 0 .. n - 1 /\ k - 1 + 1 = k /\ k - 1 \in Q
      BY <1>1, <1>8
    <3> DEFINE m == k - 1
    <3>2. m \in 0 .. n - 1 /\ m + 1 = k /\ m \in Q
      BY <3>1
    <3> HIDE DEF Q, m
    <3>3. g[m + 1] = IF list[m + 1] \in gone THEN RemoveClause(g[m], list[m + 1]) ELSE g[m]
      BY <1>7, <3>2
    <3> QED BY <3>2, <3>3 DEF m
  <2> QED BY <2>1
<1>10. w = Eq(w)
  <2>1. DOMAIN g = 0 .. n /\ g = [k \in 0 .. n |-> g[k]]
    BY <1>4 DEF GoesThrough, n
  <2>2. \A k \in 0 .. n : k = 0 \/ k \in 1 .. n
    BY <1>1
  <2>3. g = Eq(g)
    BY <1>5, <1>9, <2>1, <2>2
  <2> HIDE DEF Eq
  <2> QED BY <2>3
<1>11. /\ w[0] = s
       /\ \A k \in 1 .. n : w[k] = IF list[k] \in gone THEN RemoveClause(w[k-1], list[k]) ELSE w[k-1]
  <2>1. 0 \in 0 .. n /\ \A k \in 1 .. n : k \in 0 .. n /\ k # 0
    BY <1>1
  <2> HIDE DEF w
  <2> QED BY <1>10, <2>1
<1> HIDE DEF w, Q
<1>12. w[n] = g[n]
  <2> DEFINE Same == {k \in 0 .. n : w[k] = g[k]}
  <2>1. 0 \in Same
    BY <1>1, <1>5, <1>11
  <2>2. ASSUME NEW k \in 0 .. n - 1, k \in Same PROVE k + 1 \in Same
    <3>1. k + 1 \in 1 .. n /\ k + 1 - 1 = k /\ k + 1 \in 0 .. n
      BY <1>1
    <3>2. w[k] = g[k]
      BY <2>2
    <3>3. w[k + 1] = IF list[k + 1] \in gone THEN RemoveClause(w[k], list[k + 1]) ELSE w[k]
      BY <1>11, <3>1
    <3>4. g[k + 1] = IF list[k + 1] \in gone THEN RemoveClause(g[k], list[k + 1]) ELSE g[k]
      BY <1>9, <3>1
    <3> QED BY <3>1, <3>2, <3>3, <3>4
  <2>3. 0 .. n \subseteq Same
    <3> HIDE DEF Same
    <3> QED BY <1>1, <2>1, <2>2, Climb
  <2> QED BY <1>1, <2>3
<1>13. RemoveAll(s, list, gone).state = w[n] /\ RemoveAll(s, list, gone).rest = Without(list, gone)
  BY DEF RemoveAll, Each, w, n
<1>14. Core(g[n]) /\ Follows(s, g[n]) /\ Live(g[n].ca) = Live(s.ca) \ (ToSet(list) \cap gone)
  <2>1. n \in Q
    BY <1>1, <1>8
  <2> QED BY <1>1, <1>5, <2>1 DEF Q
<1> QED BY <1>12, <1>13, <1>14

-----------------------------------------------------------------------------
(* Clauses lose false literals.                                            *)

Falses == {l \in Lits : IsFalse(l)}

(* What is the same of a region when they have.                            *)
Trims(g, h) ==
    /\ h \in RegionType /\ RegionOK(h)
    /\ DOMAIN h.mem = DOMAIN g.mem /\ Named(h) = Named(g) /\ Live(h) = Live(g)
    /\ \A r \in DOMAIN g.mem : h.mem[r].id = g.mem[r].id /\ h.mem[r].learnt = g.mem[r].learnt
    /\ \A r \in Live(g) : /\ h.mem[r].lits[1] = g.mem[r].lits[1]
                          /\ h.mem[r].lits[2] = g.mem[r].lits[2]
                          /\ h.mem[r].lits \in {g.mem[r].lits, Without(g.mem[r].lits, Falses)}
    /\ h.sz = g.sz /\ h.cap = g.cap /\ h.wasted = g.wasted
    /\ h.extra_clause_field = g.extra_clause_field

LEMMA ProperWithout ==
    ASSUME NEW c, Proper(c), NEW gone, c[1] \notin gone, c[2] \notin gone
    PROVE  /\ Proper(Without(c, gone)) /\ Without(c, gone) \in Seq(Int)
           /\ Len(Without(c, gone)) <= Len(c)
           /\ Without(c, gone)[1] = c[1] /\ Without(c, gone)[2] = c[2]
<1> DEFINE w == Without(c, gone)
<1>1. /\ c \in Seq(Lits) /\ Len(c) > 1
      /\ \A i, j \in DOMAIN c : i # j => Var(c[i]) # Var(c[j])
  BY DEF Proper
<1>2. w \in Seq(Lits)
  BY <1>1, WithoutIs
<1>3. w[1] = c[1] /\ w[2] = c[2] /\ Len(w) > 1 /\ Len(w) <= Len(c)
  BY <1>1, WithoutFirst
<1>4. ASSUME NEW i \in DOMAIN w, NEW j \in DOMAIN w, i # j PROVE Var(w[i]) # Var(w[j])
  <2>1. PICK a, b \in DOMAIN c : w[i] = c[a] /\ w[j] = c[b] /\ (a = b => i = j)
    BY <1>1, WithoutOrder
  <2> HIDE DEF w
  <2> QED BY <1>1, <1>4, <2>1
<1> HIDE DEF w
<1>5. w \in Seq(Int)
  <2>1. \A l \in Lits : l \in Int
    BY LitIs
  <2> QED BY <1>2, <2>1
<1>6. Proper(w)
  BY <1>2, <1>3, <1>4 DEF Proper
<1> QED BY <1>3, <1>5, <1>6 DEF w

LEMMA TrimIs ==
    ASSUME NEW g \in RegionType, RegionOK(g), NEW r \in Live(g)
    PROVE  Trims(g, Trim(g, r))
<1> DEFINE c   == g.mem[r].lits
           new == Without(c, {l \in ToSet(c) : IsFalse(l)})
           h   == Shortened(g, r, new)
<1>1. r \in DOMAIN g.mem /\ Proper(c) /\ \A q \in DOMAIN g.mem : g.mem[q] \in ClauseType
  BY RegionFacts DEF RegionOK, ClausesOK, Live, Named
<1>2. CASE Unassigned(c[1]) /\ Unassigned(c[2])
  <2>1. c[1] \notin {l \in ToSet(c) : IsFalse(l)} /\ c[2] \notin {l \in ToSet(c) : IsFalse(l)}
    BY <1>2 DEF Unassigned
  <2>2. /\ Proper(new) /\ new \in Seq(Int) /\ Len(new) <= Len(c) /\ new[1] = c[1] /\ new[2] = c[2]
    BY <1>1, <2>1, ProperWithout
  <2> HIDE DEF new
  <2>3. /\ h \in RegionType /\ RegionOK(h) /\ DOMAIN h.mem = DOMAIN g.mem
        /\ h.mem[r] = [g.mem[r] EXCEPT !.lits = new] /\ h.mem[r] \in ClauseType
        /\ \A q \in DOMAIN g.mem : q # r => h.mem[q] = g.mem[q]
        /\ Named(h) = Named(g) /\ Live(h) = Live(g)
        /\ h.sz = g.sz /\ h.cap = g.cap /\ h.wasted = g.wasted
        /\ h.extra_clause_field = g.extra_clause_field
    BY <1>1, <2>2, RegionShortens
  <2>4. Trim(g, r) = h
    BY <1>2 DEF Trim, Shortened, new
  <2>6. \A q \in Live(g) : q \in DOMAIN g.mem
    BY DEF Live, Named
  <2> HIDE DEF h
  <2>5. h.mem[r].id = g.mem[r].id /\ h.mem[r].learnt = g.mem[r].learnt /\ h.mem[r].lits = new
    BY <1>1, <2>3 DEF ClauseType
  <2>8. new = Without(c, Falses)
    <3>1. c \in Seq(Lits)
      BY <1>1 DEF Proper
    <3>2. \A l \in ToSet(c) : l \in Falses <=> l \in {k \in ToSet(c) : IsFalse(k)}
      <4>1. \A l \in ToSet(c) : l \in Lits
        BY <3>1 DEF ToSet
      <4> QED BY <4>1 DEF Falses
    <3> QED BY <3>1, <3>2, WithoutAgree DEF new
  <2>7. Trims(g, h)
    BY <2>2, <2>3, <2>5, <2>6, <2>8 DEF Trims
  <2> QED BY <2>4, <2>7
<1>3. CASE ~ (Unassigned(c[1]) /\ Unassigned(c[2]))
  <2>1. Trim(g, r) = g
    BY <1>3 DEF Trim
  <2> QED BY <2>1 DEF Trims
<1> QED BY <1>2, <1>3

LEMMA TrimsTwice ==
    ASSUME NEW g, RegionOK(g), NEW h, NEW k, Trims(g, h), Trims(h, k)
    PROVE  Trims(g, k)
<1>1. ASSUME NEW r \in Live(g) PROVE k.mem[r].lits \in {g.mem[r].lits, Without(g.mem[r].lits, Falses)}
  <2> DEFINE c == g.mem[r].lits
             d == Without(c, Falses)
  <2>1. h.mem[r].lits \in {c, d} /\ k.mem[r].lits \in {h.mem[r].lits, Without(h.mem[r].lits, Falses)}
    BY DEF Trims
  <2>2. c \in Seq(Lits)
    BY DEF RegionOK, ClausesOK, Proper
  <2>3. d \in Seq(Lits) /\ ToSet(d) \cap Falses = {}
    BY <2>2, WithoutIs
  <2>4. Without(d, Falses) = d
    BY <2>3, WithoutNone
  <2> QED BY <2>1, <2>4
<1> QED BY <1>1 DEF Trims

LEMMA TrimAllIs ==
    ASSUME NEW g \in RegionType, RegionOK(g), NEW list \in Seq(Nat), ToSet(list) \subseteq Live(g)
    PROVE  /\ Trims(g, Each(Trim, g, list))
           /\ list = <<>> => Each(Trim, g, list) = g
<1> DEFINE n == Len(list)
           Eq(f) == [k \in 0 .. n |-> IF k = 0 THEN g ELSE Trim(f[k-1], list[k])]
           S == {h \in RegionType : Trims(g, h)}
           step == [y \in S \X Live(g) |-> Trim(y[1], y[2])]
           w == CHOOSE f : f = Eq(f)
<1>1. n \in Nat /\ \A k \in 1 .. n : list[k] \in Live(g)
  BY DEF ToSet
<1>2. g \in S
  BY DEF Trims
<1>3. \A h \in S, r \in Live(g) : Trim(h, r) \in S
  <2> SUFFICES ASSUME NEW h \in S, NEW r \in Live(g) PROVE Trim(h, r) \in S
    OBVIOUS
  <2>1. h \in RegionType /\ RegionOK(h) /\ r \in Live(h) /\ Trims(g, h)
    BY DEF Trims
  <2>2. Trims(h, Trim(h, r))
    BY <2>1, TrimIs
  <2>3. Trims(g, Trim(h, r))
    BY <2>1, <2>2, TrimsTwice
  <2> QED BY <2>3 DEF Trims
<1> HIDE DEF S
<1>4. step \in [S \X Live(g) -> S]
  <2>1. ASSUME NEW y \in S \X Live(g) PROVE Trim(y[1], y[2]) \in S
    <3>1. y[1] \in S /\ y[2] \in Live(g)
      OBVIOUS
    <3> QED BY <1>3, <3>1
  <2> QED BY <2>1
<1>5. list \in Seq(Live(g))
  BY <1>1 DEF n
<1> HIDE DEF step
<1>6. PICK f : GoesThrough(f, S, g, list, step)
  BY <1>2, <1>4, <1>5, EachExists
<1>7. f \in [0 .. n -> S] /\ f[0] = g /\ \A k \in 1 .. n : f[k] = Trim(f[k-1], list[k])
  <2>1. f \in [0 .. n -> S] /\ f[0] = g
    BY <1>6 DEF GoesThrough
  <2>2. ASSUME NEW k \in 1 .. n PROVE f[k] = Trim(f[k-1], list[k])
    <3>1. k - 1 \in 0 .. n
      BY <1>1
    <3>2. f[k-1] \in S /\ list[k] \in Live(g)
      BY <1>1, <2>1, <3>1
    <3>3. step[<<f[k-1], list[k]>>] = Trim(f[k-1], list[k])
      BY <3>2 DEF step
    <3> QED BY <1>6, <3>3 DEF GoesThrough
  <2> QED BY <2>1, <2>2
<1> HIDE DEF n
<1>8. w = Eq(w)
  <2>1. \A k \in 0 .. n : k = 0 \/ k \in 1 .. n
    BY <1>1
  <2>2. f = Eq(f)
    BY <1>7, <2>1
  <2> HIDE DEF Eq
  <2> QED BY <2>2
<1>9. w[0] = g /\ \A k \in 1 .. n : w[k] = Trim(w[k-1], list[k])
  <2>1. 0 \in 0 .. n /\ \A k \in 1 .. n : k \in 0 .. n /\ k # 0
    BY <1>1
  <2> HIDE DEF w
  <2> QED BY <1>8, <2>1
<1> HIDE DEF w
<1>10. w[n] \in S
  <2> DEFINE Q == {k \in 0 .. n : w[k] \in S}
  <2>1. 0 \in Q
    BY <1>1, <1>2, <1>9
  <2>2. ASSUME NEW k \in 0 .. n - 1, k \in Q PROVE k + 1 \in Q
    <3>1. k + 1 \in 1 .. n /\ k + 1 - 1 = k /\ k + 1 \in 0 .. n
      BY <1>1
    <3>2. w[k + 1] = Trim(w[k], list[k + 1])
      BY <1>9, <3>1
    <3>3. w[k + 1] \in S
      BY <1>1, <1>3, <2>2, <3>1, <3>2
    <3> QED BY <3>1, <3>3
  <2>3. 0 .. n \subseteq Q
    <3> HIDE DEF Q
    <3> QED BY <1>1, <2>1, <2>2, Climb
  <2> QED BY <1>1, <2>3
<1>11. Each(Trim, g, list) = w[n]
  BY DEF Each, w, n
<1>12. list = <<>> => n = 0
  BY DEF n
<1> QED BY <1>9, <1>10, <1>11, <1>12 DEF S

-----------------------------------------------------------------------------
(* The copy of a region.                                                   *)

MoveType == [ca : RegionType, to : RegionType]

(* The clauses to copy, those that were copied, and the words of the others. *)
Remaining(g) == {r \in DOMAIN g.mem : ~ g.mem[r].removed}
Reloced(g)   == {r \in DOMAIN g.mem : g.mem[r].reloced}
Left(g)      == [r \in 0 .. g.sz - 1 |->
                   IF r \in Remaining(g) \ Reloced(g) THEN clauseWord32Size(g.mem[r]) ELSE 0]

(* During the copy of g, the old region has all clauses as they were, and  *)
(* the new one those copied; there is room for the others.                 *)
Moving(g, m) ==
    /\ m \in MoveType
    /\ DOMAIN m.ca.mem = DOMAIN g.mem /\ m.ca.sz = g.sz
    /\ \A r \in DOMAIN g.mem :
          /\ m.ca.mem[r].id = g.mem[r].id /\ m.ca.mem[r].lits = g.mem[r].lits
          /\ m.ca.mem[r].learnt = g.mem[r].learnt /\ m.ca.mem[r].has_extra = g.mem[r].has_extra
          /\ m.ca.mem[r].removed = g.mem[r].removed
    /\ RegionOK(m.to) /\ m.to.wasted = 0 /\ m.to.extra_clause_field = g.extra_clause_field
    /\ m.to.cap >= g.sz - g.wasted /\ m.to.cap <= g.cap
    /\ \A r \in Reloced(m.ca) :
          /\ r \in Remaining(g) /\ m.ca.mem[r].relocation \in DOMAIN m.to.mem
          /\ m.to.mem[m.ca.mem[r].relocation].id = g.mem[r].id
          /\ m.to.mem[m.ca.mem[r].relocation].lits = g.mem[r].lits
          /\ m.to.mem[m.ca.mem[r].relocation].learnt = g.mem[r].learnt
    /\ \A q \in DOMAIN m.to.mem :
          /\ ~ m.to.mem[q].removed
          /\ \E r \in Reloced(m.ca) : m.ca.mem[r].relocation = q
    /\ m.to.sz + Total(Left(m.ca), g.sz) <= g.sz - g.wasted

LEMMA LeftType ==
    ASSUME NEW g \in RegionType
    PROVE  /\ Left(g) \in [0 .. g.sz - 1 -> Nat] /\ g.sz \in Nat
           /\ \A r \in 0 .. g.sz - 1 :
                 Left(g)[r] = IF r \in Remaining(g) \ Reloced(g) THEN clauseWord32Size(g.mem[r]) ELSE 0
<1>1. g.sz \in Nat
  BY DEF RegionType
<1>2. ASSUME NEW r \in 0 .. g.sz - 1
      PROVE  (IF r \in Remaining(g) \ Reloced(g) THEN clauseWord32Size(g.mem[r]) ELSE 0) \in Nat
  <2>1. CASE r \in Remaining(g)
    <3>1. g.mem[r] \in ClauseType
      BY <2>1, RegionFacts DEF Remaining
    <3>2. clauseWord32Size(g.mem[r]) \in Nat
      BY <3>1, SizeIs
    <3> QED BY <3>2
  <2>2. CASE r \notin Remaining(g)
    BY <2>2
  <2> QED BY <2>1, <2>2
<1> QED BY <1>1, <1>2 DEF Left

(* A region without clauses.                                               *)
LEMMA RegionEmpty ==
    ASSUME NEW n \in Int, NEW extra \in BOOLEAN, Capacity(0, n) # None
    PROVE  LET g == Region(n, extra)
           IN  /\ g \in RegionType /\ RegionOK(g) /\ DOMAIN g.mem = {}
               /\ g.sz = 0 /\ g.wasted = 0 /\ g.cap = Capacity(0, n) /\ g.extra_clause_field = extra
<1> DEFINE g == Region(n, extra)
           cap == Capacity(0, n)
<1>1. 0 \in Capacities /\ 0 \in 0 .. Words
  BY ClauseMemoryAssumption DEF Capacities
<1>2. cap \in Capacities /\ cap \in 0 .. Words /\ cap >= 0 /\ Capacity(0, cap) = cap
  BY <1>1, CapacityEnough, CapacityAgain
<1> HIDE DEF cap
<1>3. g = [mem |-> <<>>, sz |-> 0, cap |-> cap, wasted |-> 0, extra_clause_field |-> extra]
  BY DEF Region, cap
<1> HIDE DEF g
<1>4. /\ g.mem = <<>> /\ g.sz = 0 /\ g.cap = cap /\ g.wasted = 0 /\ g.extra_clause_field = extra
      /\ DOMAIN g.mem = {}
  BY <1>3
<1>5. g \in RegionType
  <2>1. <<>> \in UNION {[D -> ClauseType] : D \in SUBSET Nat}
    <3>1. <<>> \in [{} -> ClauseType]
      OBVIOUS
    <3> QED BY <3>1
  <2>2. cap \in Int
    BY <1>2, ClauseMemoryAssumption
  <2> QED BY <1>3, <2>1, <2>2 DEF RegionType
<1>6. RegionOK(g)
  <2>1. Total(LiveWords(g), 0) = 0
    <3>1. LiveWords(g) \in [0 .. 0 - 1 -> Nat]
      BY <1>4, <1>5, WordsType
    <3>2. PICK sum \in [0 .. 0 -> Nat] : sum[0] = 0 /\ Total(LiveWords(g), 0) = sum[0]
      BY <3>1, SumExists
    <3> QED BY <3>2
  <2>2. SizesOK(g)
    BY <1>1, <1>2, <1>4, <2>1 DEF SizesOK
  <2>3. PlacesOK(g) /\ NumbersOK(g) /\ ClausesOK(g)
    BY <1>4 DEF PlacesOK, NumbersOK, ClausesOK, Live, Named
  <2> QED BY <2>2, <2>3 DEF RegionOK
<1> QED BY <1>4, <1>5, <1>6 DEF g, cap

LEMMA StartIs ==
    ASSUME NEW g \in RegionType, RegionOK(g)
    PROVE  LET m == [ca |-> g, to |-> Region(g.sz - g.wasted, g.extra_clause_field)]
           IN  Moving(g, m) /\ Reloced(m.ca) = {}
<1> DEFINE n  == g.sz - g.wasted
           to == Region(n, g.extra_clause_field)
           m  == [ca |-> g, to |-> to]
           cap == Capacity(0, n)
<1>1. /\ g.sz \in Nat /\ g.wasted \in Nat /\ n \in Int /\ g.cap \in 0 .. Words /\ n <= g.cap
      /\ Capacity(0, g.cap) = g.cap /\ Total(LiveWords(g), g.sz) <= n
      /\ 0 \in Capacities /\ 0 \in 0 .. Words /\ g.extra_clause_field \in BOOLEAN
  <2>1. g.sz \in Nat /\ g.wasted \in Nat /\ g.extra_clause_field \in BOOLEAN
    BY DEF RegionType
  <2>2. /\ g.cap \in Capacities /\ g.sz <= g.cap /\ Capacity(0, g.cap) = g.cap
        /\ Total(LiveWords(g), g.sz) <= n
    BY DEF RegionOK, SizesOK
  <2>3. g.cap \in 0 .. Words /\ 0 \in Capacities /\ 0 \in 0 .. Words
    BY <2>2, ClauseMemoryAssumption DEF Capacities
  <2> QED BY <2>1, <2>2, <2>3
<1> HIDE DEF n
<1>2. cap # None /\ cap <= g.cap
  BY <1>1, CapacityLess
<1>3. cap >= n
  BY <1>1, <1>2, CapacityEnough
<1>4. /\ to \in RegionType /\ RegionOK(to) /\ DOMAIN to.mem = {}
      /\ to.sz = 0 /\ to.wasted = 0 /\ to.cap = cap /\ to.extra_clause_field = g.extra_clause_field
  BY <1>1, <1>2, RegionEmpty
<1> HIDE DEF cap, to
<1>5. Reloced(g) = {}
  BY DEF Reloced, RegionOK, PlacesOK
<1>6. Left(g) = LiveWords(g)
  BY <1>5 DEF Left, LiveWords, Remaining
<1>7. m \in MoveType /\ m.ca = g /\ m.to = to
  BY <1>4 DEF MoveType
<1> HIDE DEF m
<1>8. to.sz + Total(Left(g), g.sz) <= n
  <2>1. Total(LiveWords(g), g.sz) \in Nat
    BY WordsType, TotalType
  <2> QED BY <1>1, <1>4, <1>6, <2>1
<1>9. Moving(g, m)
  BY <1>2, <1>3, <1>4, <1>5, <1>7, <1>8 DEF Moving, n, cap
<1> QED BY <1>5, <1>7, <1>9 DEF m, to, n

LEMMA CopyIs ==
    ASSUME NEW g \in RegionType, RegionOK(g), NEW m, Moving(g, m),
           NEW r \in Remaining(g), r \notin Reloced(m.ca)
    PROVE  /\ Moving(g, Copy(m, r))
           /\ Reloced(Copy(m, r).ca) = Reloced(m.ca) \cup {r}
<1> DEFINE c    == m.ca.mem[r]
           d    == [c EXCEPT !.reloced = TRUE, !.relocation = m.to.sz]
           ca1  == Changed(m.ca, r, d, m.ca.wasted)
           to1  == Alloc(m.to, c)
           new  == Placed(m.to, c)
           size == clauseWord32Size(c)
           n    == g.sz - g.wasted
           k    == Copy(m, r)
<1>1. /\ m \in MoveType /\ m.ca \in RegionType /\ m.to \in RegionType
      /\ DOMAIN m.ca.mem = DOMAIN g.mem /\ m.ca.sz = g.sz
      /\ RegionOK(m.to) /\ m.to.wasted = 0 /\ m.to.extra_clause_field = g.extra_clause_field
      /\ m.to.cap >= n /\ m.to.cap <= g.cap
      /\ m.to.sz + Total(Left(m.ca), g.sz) <= n
      /\ g.sz \in Nat /\ g.wasted \in Nat /\ m.ca.wasted \in Nat /\ m.to.sz \in Nat
      /\ m.to.cap \in Int
  <2>1. m \in MoveType
    BY DEF Moving
  <2>2. m.ca \in RegionType /\ m.to \in RegionType
    BY <2>1 DEF MoveType
  <2>3. g.sz \in Nat /\ g.wasted \in Nat /\ m.ca.wasted \in Nat /\ m.to.sz \in Nat /\ m.to.cap \in Int
    BY <2>2 DEF RegionType
  <2> QED BY <2>1, <2>2, <2>3 DEF Moving
<1>2. \A q \in DOMAIN g.mem :
          /\ m.ca.mem[q].id = g.mem[q].id /\ m.ca.mem[q].lits = g.mem[q].lits
          /\ m.ca.mem[q].learnt = g.mem[q].learnt /\ m.ca.mem[q].has_extra = g.mem[q].has_extra
          /\ m.ca.mem[q].removed = g.mem[q].removed
  BY DEF Moving
<1>3. \A q \in Reloced(m.ca) :
          /\ q \in Remaining(g) /\ m.ca.mem[q].relocation \in DOMAIN m.to.mem
          /\ m.to.mem[m.ca.mem[q].relocation].id = g.mem[q].id
          /\ m.to.mem[m.ca.mem[q].relocation].lits = g.mem[q].lits
          /\ m.to.mem[m.ca.mem[q].relocation].learnt = g.mem[q].learnt
  BY DEF Moving
<1>4. \A q \in DOMAIN m.to.mem :
          /\ ~ m.to.mem[q].removed
          /\ \E p \in Reloced(m.ca) : m.ca.mem[p].relocation = q
  BY DEF Moving
<1>5. /\ r \in DOMAIN g.mem /\ r \in DOMAIN m.ca.mem /\ c \in ClauseType /\ ~ c.removed /\ ~ c.reloced
      /\ c.id = g.mem[r].id /\ c.lits = g.mem[r].lits /\ c.learnt = g.mem[r].learnt
      /\ c.has_extra = g.mem[r].has_extra
  <2>1. r \in DOMAIN g.mem /\ r \in DOMAIN m.ca.mem /\ ~ g.mem[r].removed
    BY <1>1 DEF Remaining
  <2>2. c \in ClauseType
    BY <1>1, <2>1, RegionFacts
  <2>3. ~ c.reloced
    BY <2>1 DEF Reloced
  <2> QED BY <1>2, <2>1, <2>2, <2>3
<1>6. Len(c.lits) + 2 < Words /\ (c.learnt \/ g.extra_clause_field => c.has_extra)
  BY <1>5 DEF RegionOK, PlacesOK
<1>7. c.id > 0 => Proper(c.lits)
  <2>1. c.id > 0 => r \in Live(g)
    BY <1>5 DEF Live, Named, Remaining
  <2> QED BY <1>5, <2>1 DEF RegionOK, ClausesOK
<1>8. \A q \in DOMAIN m.to.mem : m.to.mem[q].id # c.id
  <2>1. ASSUME NEW q \in DOMAIN m.to.mem, m.to.mem[q].id = c.id PROVE FALSE
    <3>1. PICK p \in Reloced(m.ca) : m.ca.mem[p].relocation = q
      BY <1>4
    <3>2. p \in DOMAIN g.mem /\ g.mem[p].id = g.mem[r].id
      BY <1>3, <1>5, <2>1, <3>1 DEF Remaining
    <3>3. p = r
      BY <1>5, <3>2 DEF RegionOK, NumbersOK
    <3> QED BY <3>1, <3>3
  <2> QED BY <2>1
<1>9. /\ new.has_extra = (c.learnt \/ m.to.extra_clause_field)
      /\ new \in ClauseType /\ new.id = c.id /\ new.lits = c.lits /\ new.learnt = c.learnt
      /\ new.removed = c.removed
  BY <1>1, <1>5, <1>6, PlacedIs, Zenon
<1>10. size \in Nat /\ clauseWord32Size(new) \in Nat /\ clauseWord32Size(new) <= size
  <2>1. /\ size = 1 + Len(c.lits) + (IF c.has_extra THEN 1 ELSE 0) /\ Len(c.lits) \in Nat
        /\ clauseWord32Size(new) = 1 + Len(c.lits) + (IF new.has_extra THEN 1 ELSE 0)
        /\ size \in Nat /\ clauseWord32Size(new) \in Nat
    BY <1>5, <1>9, SizeIs
  <2>2. new.has_extra => c.has_extra
    BY <1>1, <1>6, <1>9
  <2> DEFINE x == IF c.has_extra THEN 1 ELSE 0
             y == IF new.has_extra THEN 1 ELSE 0
  <2>3. x \in {0, 1} /\ y \in {0, 1} /\ y <= x
    BY <2>2
  <2> HIDE DEF x, y
  <2>4. size = 1 + Len(c.lits) + x /\ clauseWord32Size(new) = 1 + Len(c.lits) + y
    BY <2>1 DEF x, y
  <2> DEFINE a == Len(c.lits)
             z == clauseWord32Size(new)
  <2>5. a \in Nat /\ size = 1 + a + x /\ z = 1 + a + y
    BY <2>1, <2>4
  <2> HIDE DEF a, z, size
  <2>6. z <= size
    BY <2>3, <2>5
  <2> QED BY <2>1, <2>6 DEF z, size
<1>11. /\ d \in ClauseType /\ d.id = c.id /\ d.lits = c.lits /\ d.learnt = c.learnt
       /\ d.has_extra = c.has_extra /\ d.removed = c.removed /\ d.reloced /\ d.relocation = m.to.sz
  <2>1. \A x \in ClauseType, z \in Int :
           LET y == [x EXCEPT !.reloced = TRUE, !.relocation = z]
           IN  /\ y \in ClauseType /\ y.id = x.id /\ y.lits = x.lits /\ y.learnt = x.learnt
               /\ y.has_extra = x.has_extra /\ y.removed = x.removed /\ y.reloced /\ y.relocation = z
    BY DEF ClauseType
  <2>2. m.to.sz \in Int
    BY <1>1
  <2> HIDE DEF c
  <2> QED BY <1>5, <2>1, <2>2, Zenon
<1>12. k = [ca |-> ca1, to |-> to1]
  BY <1>1, <1>5 DEF Copy, Changed, RegionType
<1> HIDE DEF new, d
<1>13. /\ ca1 \in RegionType /\ DOMAIN ca1.mem = DOMAIN g.mem
       /\ ca1.mem[r] = d /\ \A q \in DOMAIN g.mem : q # r => ca1.mem[q] = m.ca.mem[q]
       /\ ca1.sz = g.sz
  BY <1>1, <1>5, <1>11, ClauseChanges
<1> HIDE DEF ca1
<1>14. Reloced(ca1) = Reloced(m.ca) \cup {r}
  BY <1>1, <1>5, <1>11, <1>13 DEF Reloced
<1>15. Total(Left(ca1), g.sz) = Total(Left(m.ca), g.sz) - size /\ Total(Left(m.ca), g.sz) \in Nat
       /\ Total(Left(ca1), g.sz) \in Nat
  <2> DEFINE a == Left(m.ca)
             b == Left(ca1)
             z == g.sz
  <2>1. /\ a \in [0 .. z - 1 -> Nat] /\ b \in [0 .. z - 1 -> Nat]
        /\ \A q \in 0 .. z - 1 : a[q] = IF q \in Remaining(m.ca) \ Reloced(m.ca)
                                        THEN clauseWord32Size(m.ca.mem[q]) ELSE 0
        /\ \A q \in 0 .. z - 1 : b[q] = IF q \in Remaining(ca1) \ Reloced(ca1)
                                        THEN clauseWord32Size(ca1.mem[q]) ELSE 0
    BY <1>1, <1>13, LeftType
  <2>2. r \in 0 .. z - 1
    <3>1. r < g.sz /\ r \in Nat
      BY <1>5, RegionFacts DEF RegionOK, PlacesOK
    <3> QED BY <1>1, <3>1
  <2>3. Remaining(m.ca) = Remaining(g) /\ Remaining(ca1) = Remaining(g)
    BY <1>1, <1>2, <1>5, <1>11, <1>13 DEF Remaining
  <2>4. a[r] = size /\ b[r] = 0
    BY <1>14, <2>1, <2>2, <2>3
  <2>5. ASSUME NEW q \in 0 .. z - 1, q # r PROVE a[q] = b[q]
    <3>1. CASE q \in Remaining(g) \ Reloced(m.ca)
      <4>1. ca1.mem[q] = m.ca.mem[q] /\ q \in Remaining(ca1) \ Reloced(ca1)
            /\ q \in Remaining(m.ca) \ Reloced(m.ca)
        BY <1>13, <1>14, <2>3, <2>5, <3>1 DEF Remaining
      <4> QED BY <2>1, <4>1
    <3>2. CASE q \notin Remaining(g) \ Reloced(m.ca)
      <4>1. q \notin Remaining(ca1) \ Reloced(ca1) /\ q \notin Remaining(m.ca) \ Reloced(m.ca)
        BY <1>14, <2>3, <3>2
      <4> QED BY <2>1, <4>1
    <3> QED BY <3>1, <3>2
  <2>6. z \in Nat
    BY <1>1
  <2> HIDE DEF a, b, z
  <2>7. Total(b, z) = Total(a, z) - a[r] + b[r]
    <3>1. \A x \in [0 .. z - 1 -> Nat], y \in [0 .. z - 1 -> Nat], q \in 0 .. z - 1 :
             (\A j \in 0 .. z - 1 : j # q => x[j] = y[j]) => Total(y, z) = Total(x, z) - x[q] + y[q]
      BY <2>6, TotalChanges
    <3> QED BY <2>1, <2>2, <2>5, <3>1
  <2>8. Total(a, z) \in Nat /\ Total(b, z) \in Nat
    BY <2>1, <2>6, TotalType
  <2>9. Total(b, z) = Total(a, z) - size
    BY <1>10, <2>4, <2>7, <2>8
  <2> QED BY <2>8, <2>9 DEF a, b, z
<1>16. m.to.sz + clauseWord32Size(new) <= m.to.cap /\ to1.cap = m.to.cap /\ to1.cap # None
  <2>1. m.to.sz + size <= n
    BY <1>1, <1>10, <1>15
  <2>2. m.to.sz + clauseWord32Size(new) <= m.to.cap
    BY <1>1, <1>10, <2>1
  <2>3. /\ m.to.sz \in Capacities /\ m.to.cap \in Capacities /\ Capacity(0, m.to.cap) = m.to.cap
        /\ \A q \in DOMAIN m.to.mem : q < m.to.sz
    BY <1>1 DEF RegionOK, SizesOK, PlacesOK
  <2>4. to1.cap = m.to.cap
    BY <1>1, <1>5, <1>6, <2>2, <2>3, AllocIs DEF new
  <2>5. m.to.cap # None
    BY <2>3, ClauseMemoryAssumption DEF Capacities, None
  <2> QED BY <2>2, <2>4, <2>5
<1> HIDE DEF c
<1>17. /\ to1 \in RegionType /\ RegionOK(to1)
       /\ m.to.sz \notin DOMAIN m.to.mem /\ DOMAIN to1.mem = DOMAIN m.to.mem \cup {m.to.sz}
       /\ to1.mem[m.to.sz] = new /\ \A q \in DOMAIN m.to.mem : to1.mem[q] = m.to.mem[q]
       /\ to1.sz = m.to.sz + clauseWord32Size(new)
       /\ to1.wasted = m.to.wasted /\ to1.extra_clause_field = m.to.extra_clause_field
  <2>1. \A x \in RegionType, y \in ClauseType :
           /\ RegionOK(x) /\ Len(y.lits) + 2 < Words /\ ~ y.removed /\ (y.id > 0 => Proper(y.lits))
           /\ \A q \in DOMAIN x.mem : x.mem[q].id # y.id
           /\ Alloc(x, y).cap # None
           => LET h == Alloc(x, y)
              IN  /\ h \in RegionType /\ RegionOK(h)
                  /\ x.sz \notin DOMAIN x.mem /\ DOMAIN h.mem = DOMAIN x.mem \cup {x.sz}
                  /\ h.mem[x.sz] = Placed(x, y) /\ \A q \in DOMAIN x.mem : h.mem[q] = x.mem[q]
                  /\ h.sz = x.sz + clauseWord32Size(Placed(x, y))
                  /\ h.wasted = x.wasted /\ h.extra_clause_field = x.extra_clause_field
    BY RegionGrows
  <2> QED BY <1>1, <1>5, <1>6, <1>7, <1>8, <1>16, <2>1 DEF new
<1> HIDE DEF to1, size, c, n
<1>18. /\ k \in MoveType /\ k.ca = ca1 /\ k.to = to1
  BY <1>12, <1>13, <1>17 DEF MoveType
<1> HIDE DEF k
<1>19. \A q \in DOMAIN g.mem :
          /\ ca1.mem[q].id = g.mem[q].id /\ ca1.mem[q].lits = g.mem[q].lits
          /\ ca1.mem[q].learnt = g.mem[q].learnt /\ ca1.mem[q].has_extra = g.mem[q].has_extra
          /\ ca1.mem[q].removed = g.mem[q].removed
  BY <1>2, <1>5, <1>11, <1>13 DEF c
<1>20. ASSUME NEW q \in Reloced(ca1)
       PROVE  /\ q \in Remaining(g) /\ ca1.mem[q].relocation \in DOMAIN to1.mem
              /\ to1.mem[ca1.mem[q].relocation].id = g.mem[q].id
              /\ to1.mem[ca1.mem[q].relocation].lits = g.mem[q].lits
              /\ to1.mem[ca1.mem[q].relocation].learnt = g.mem[q].learnt
  <2>1. CASE q = r
    BY <1>5, <1>9, <1>11, <1>13, <1>17, <2>1
  <2>2. CASE q # r
    <3>1. q \in Reloced(m.ca)
      BY <1>14, <2>2
    <3>2. q \in Remaining(g) /\ m.ca.mem[q].relocation \in DOMAIN m.to.mem
      BY <1>3, <3>1
    <3>3. ca1.mem[q] = m.ca.mem[q]
      BY <1>13, <2>2, <3>2 DEF Remaining
    <3>4. /\ to1.mem[m.ca.mem[q].relocation] = m.to.mem[m.ca.mem[q].relocation]
          /\ m.ca.mem[q].relocation \in DOMAIN to1.mem
      BY <1>17, <3>2
    <3>5. /\ m.to.mem[m.ca.mem[q].relocation].id = g.mem[q].id
          /\ m.to.mem[m.ca.mem[q].relocation].lits = g.mem[q].lits
          /\ m.to.mem[m.ca.mem[q].relocation].learnt = g.mem[q].learnt
      BY <1>3, <3>1
    <3>6. ca1.mem[q].relocation = m.ca.mem[q].relocation
      BY <3>3
    <3> QED BY <3>2, <3>4, <3>5, <3>6
  <2> QED BY <2>1, <2>2
<1>21. ASSUME NEW q \in DOMAIN to1.mem
       PROVE  ~ to1.mem[q].removed /\ \E p \in Reloced(ca1) : ca1.mem[p].relocation = q
  <2>1. CASE q = m.to.sz
    <3>1. ca1.mem[r].relocation = q /\ r \in Reloced(ca1)
      BY <1>11, <1>13, <1>14, <2>1
    <3>2. ~ to1.mem[q].removed
      BY <1>5, <1>9, <1>17, <2>1
    <3> QED BY <3>1, <3>2
  <2>2. CASE q # m.to.sz
    <3>1. q \in DOMAIN m.to.mem /\ to1.mem[q] = m.to.mem[q]
      BY <1>17, <2>2
    <3>2. PICK p \in Reloced(m.ca) : m.ca.mem[p].relocation = q
      BY <1>4, <3>1
    <3>3. p # r /\ p \in DOMAIN g.mem
      BY <1>3, <3>2 DEF Remaining
    <3>4. ca1.mem[p] = m.ca.mem[p] /\ p \in Reloced(ca1)
      BY <1>13, <1>14, <3>3
    <3> QED BY <1>4, <3>1, <3>2, <3>4
  <2> QED BY <2>1, <2>2
<1>22. to1.sz + Total(Left(ca1), g.sz) <= n
  BY <1>1, <1>10, <1>15, <1>17 DEF n
<1>23. to1.cap >= n /\ to1.cap <= g.cap
  BY <1>1, <1>16
<1>24. Moving(g, k)
  BY <1>1, <1>13, <1>17, <1>18, <1>19, <1>20, <1>21, <1>22, <1>23, Zenon DEF Moving, n
<1> QED BY <1>14, <1>18, <1>24 DEF k

LEMMA RelocIs ==
    ASSUME NEW g \in RegionType, RegionOK(g), NEW m, Moving(g, m), NEW r \in Remaining(g)
    PROVE  /\ Moving(g, Reloc(m, r))
           /\ Reloced(Reloc(m, r).ca) = Reloced(m.ca) \cup {r}
<1>1. r \in DOMAIN m.ca.mem
  BY DEF Moving, Remaining
<1>2. CASE m.ca.mem[r].reloced
  BY <1>1, <1>2 DEF Reloc, Reloced
<1>3. CASE ~ m.ca.mem[r].reloced
  <2>1. r \notin Reloced(m.ca) /\ Reloc(m, r) = Copy(m, r)
    BY <1>3 DEF Reloc, Reloced
  <2> QED BY <2>1, CopyIs
<1> QED BY <1>2, <1>3

(* The clauses of a list are copied.                                       *)
LEMMA MoveIs ==
    ASSUME NEW g \in RegionType, RegionOK(g), NEW m, Moving(g, m),
           NEW list \in Seq(Nat), ToSet(list) \subseteq Remaining(g)
    PROVE  /\ Moving(g, Move(m, list))
           /\ Reloced(Move(m, list).ca) = Reloced(m.ca) \cup ToSet(list)
<1> DEFINE n == Len(list)
           T == Remaining(g)
           Eq(f) == [k \in 0 .. n |-> IF k = 0 THEN m ELSE Reloc(f[k-1], list[k])]
           S == {x \in MoveType : Moving(g, x)}
           step == [y \in S \X T |-> Reloc(y[1], y[2])]
           w == CHOOSE f : f = Eq(f)
           Adds(y) == {y}
<1>1. n \in Nat /\ \A k \in 1 .. n : list[k] \in T
  BY DEF ToSet
<1>2. m \in S
  BY DEF Moving
<1>3. \A x \in S, y \in T : /\ Reloc(x, y) \in S
                             /\ Reloced(Reloc(x, y).ca) = Reloced(x.ca) \cup Adds(y)
  <2> SUFFICES ASSUME NEW x \in S, NEW y \in T
               PROVE  Reloc(x, y) \in S /\ Reloced(Reloc(x, y).ca) = Reloced(x.ca) \cup Adds(y)
    OBVIOUS
  <2>1. Moving(g, x)
    OBVIOUS
  <2>2. Moving(g, Reloc(x, y)) /\ Reloced(Reloc(x, y).ca) = Reloced(x.ca) \cup Adds(y)
    BY <2>1, RelocIs
  <2>3. Reloc(x, y) \in MoveType
    BY <2>2, Zenon DEF Moving
  <2> HIDE DEF Adds
  <2> QED BY <2>2, <2>3
<1> HIDE DEF S, Adds, T
<1>4. step \in [S \X T -> S]
  <2>1. ASSUME NEW y \in S \X T PROVE Reloc(y[1], y[2]) \in S
    <3>1. y[1] \in S /\ y[2] \in T
      OBVIOUS
    <3> QED BY <1>3, <3>1
  <2> QED BY <2>1
<1>5. list \in Seq(T)
  <2>1. list = [k \in 1 .. n |-> list[k]]
    OBVIOUS
  <2> HIDE DEF n
  <2>2. list \in [1 .. n -> T]
    BY <1>1, <2>1
  <2>3. [1 .. n -> T] \subseteq Seq(T)
    BY <1>1
  <2> QED BY <2>2, <2>3
<1> HIDE DEF step
<1>6. PICK f : GoesThrough(f, S, m, list, step)
  BY <1>2, <1>4, <1>5, EachExists
<1>7. f \in [0 .. n -> S] /\ f[0] = m /\ \A k \in 1 .. n : f[k] = Reloc(f[k-1], list[k])
  <2>1. f \in [0 .. n -> S] /\ f[0] = m
    BY <1>6 DEF GoesThrough
  <2>2. ASSUME NEW k \in 1 .. n PROVE f[k] = Reloc(f[k-1], list[k])
    <3>1. k - 1 \in 0 .. n
      BY <1>1
    <3>2. f[k-1] \in S /\ list[k] \in T
      BY <1>1, <2>1, <3>1
    <3>3. step[<<f[k-1], list[k]>>] = Reloc(f[k-1], list[k])
      BY <3>2 DEF step
    <3> QED BY <1>6, <3>3 DEF GoesThrough
  <2> QED BY <2>1, <2>2
<1> HIDE DEF n
<1>8. w = Eq(w)
  <2>1. \A k \in 0 .. n : k = 0 \/ k \in 1 .. n
    BY <1>1
  <2>2. f = Eq(f)
    BY <1>7, <2>1
  <2> HIDE DEF Eq
  <2> QED BY <2>2
<1>9. w[0] = m /\ \A k \in 1 .. n : w[k] = Reloc(w[k-1], list[k])
  <2>1. 0 \in 0 .. n /\ \A k \in 1 .. n : k \in 0 .. n /\ k # 0
    BY <1>1
  <2> HIDE DEF w
  <2> QED BY <1>8, <2>1
<1> HIDE DEF w
<1> DEFINE So(k) == UNION {Adds(list[j]) : j \in 1 .. k}
<1>10. w[n] \in S /\ Reloced(w[n].ca) = Reloced(m.ca) \cup So(n)
  <2> DEFINE Q == {k \in 0 .. n : w[k] \in S /\ Reloced(w[k].ca) = Reloced(m.ca) \cup So(k)}
  <2>1. 0 \in Q
    <3>1. So(0) = {}
      OBVIOUS
    <3> QED BY <1>1, <1>2, <1>9, <3>1
  <2>2. ASSUME NEW k \in 0 .. n - 1, k \in Q PROVE k + 1 \in Q
    <3>1. k + 1 \in 1 .. n /\ k + 1 - 1 = k /\ k + 1 \in 0 .. n /\ 1 .. k + 1 = 1 .. k \cup {k + 1}
      BY <1>1
    <3>2. w[k + 1] = Reloc(w[k], list[k + 1])
      BY <1>9, <3>1
    <3>3. w[k] \in S /\ list[k + 1] \in T
      BY <1>1, <2>2, <3>1
    <3>4. w[k + 1] \in S /\ Reloced(w[k + 1].ca) = Reloced(w[k].ca) \cup Adds(list[k + 1])
      BY <1>3, <3>2, <3>3
    <3>5. So(k + 1) = So(k) \cup Adds(list[k + 1])
      BY <3>1
    <3>6. Reloced(w[k].ca) = Reloced(m.ca) \cup So(k)
      BY <2>2
    <3> HIDE DEF So
    <3> QED BY <3>1, <3>4, <3>5, <3>6
  <2>3. 0 .. n \subseteq Q
    <3> HIDE DEF Q
    <3> QED BY <1>1, <2>1, <2>2, Climb
  <2>4. n \in 0 .. n
    BY <1>1
  <2> QED BY <2>3, <2>4
<1>11. Move(m, list) = w[n]
  BY DEF Move, Each, w, n
<1>12. So(n) = ToSet(list)
  BY DEF ToSet, Adds, n
<1> HIDE DEF So
<1> QED BY <1>10, <1>11, <1>12 DEF S


(* Those of some lists are.                                                *)
LEMMA MoveAllIs ==
    ASSUME NEW g \in RegionType, RegionOK(g), NEW m, Moving(g, m),
           NEW lists \in Seq(Seq(Nat)), \A i \in DOMAIN lists : ToSet(lists[i]) \subseteq Remaining(g)
    PROVE  /\ Moving(g, MoveAll(m, lists))
           /\ Reloced(MoveAll(m, lists).ca) = Reloced(m.ca) \cup UNION {ToSet(lists[i]) : i \in DOMAIN lists}
<1> DEFINE n == Len(lists)
           T == {y \in Seq(Nat) : ToSet(y) \subseteq Remaining(g)}
           Eq(f) == [k \in 0 .. n |-> IF k = 0 THEN m ELSE Move(f[k-1], lists[k])]
           S == {x \in MoveType : Moving(g, x)}
           step == [y \in S \X T |-> Move(y[1], y[2])]
           w == CHOOSE f : f = Eq(f)
           Adds(y) == ToSet(y)
<1>1. n \in Nat /\ \A k \in 1 .. n : lists[k] \in T
  OBVIOUS
<1>2. m \in S
  BY DEF Moving
<1>3. \A x \in S, y \in T : /\ Move(x, y) \in S
                             /\ Reloced(Move(x, y).ca) = Reloced(x.ca) \cup Adds(y)
  <2> SUFFICES ASSUME NEW x \in S, NEW y \in T
               PROVE  Move(x, y) \in S /\ Reloced(Move(x, y).ca) = Reloced(x.ca) \cup Adds(y)
    OBVIOUS
  <2>1. Moving(g, x)
    OBVIOUS
  <2>2. Moving(g, Move(x, y)) /\ Reloced(Move(x, y).ca) = Reloced(x.ca) \cup Adds(y)
    BY <2>1, MoveIs
  <2>3. Move(x, y) \in MoveType
    BY <2>2, Zenon DEF Moving
  <2> HIDE DEF Adds
  <2> QED BY <2>2, <2>3
<1> HIDE DEF S, Adds, T
<1>4. step \in [S \X T -> S]
  <2>1. ASSUME NEW y \in S \X T PROVE Move(y[1], y[2]) \in S
    <3>1. y[1] \in S /\ y[2] \in T
      OBVIOUS
    <3> QED BY <1>3, <3>1
  <2> QED BY <2>1
<1>5. lists \in Seq(T)
  <2>1. lists = [k \in 1 .. n |-> lists[k]]
    OBVIOUS
  <2> HIDE DEF n
  <2>2. lists \in [1 .. n -> T]
    BY <1>1, <2>1
  <2>3. [1 .. n -> T] \subseteq Seq(T)
    BY <1>1
  <2> QED BY <2>2, <2>3
<1> HIDE DEF step
<1>6. PICK f : GoesThrough(f, S, m, lists, step)
  BY <1>2, <1>4, <1>5, EachExists
<1>7. f \in [0 .. n -> S] /\ f[0] = m /\ \A k \in 1 .. n : f[k] = Move(f[k-1], lists[k])
  <2>1. f \in [0 .. n -> S] /\ f[0] = m
    BY <1>6 DEF GoesThrough
  <2>2. ASSUME NEW k \in 1 .. n PROVE f[k] = Move(f[k-1], lists[k])
    <3>1. k - 1 \in 0 .. n
      BY <1>1
    <3>2. f[k-1] \in S /\ lists[k] \in T
      BY <1>1, <2>1, <3>1
    <3>3. step[<<f[k-1], lists[k]>>] = Move(f[k-1], lists[k])
      BY <3>2 DEF step
    <3> QED BY <1>6, <3>3 DEF GoesThrough
  <2> QED BY <2>1, <2>2
<1> HIDE DEF n
<1>8. w = Eq(w)
  <2>1. \A k \in 0 .. n : k = 0 \/ k \in 1 .. n
    BY <1>1
  <2>2. f = Eq(f)
    BY <1>7, <2>1
  <2> HIDE DEF Eq
  <2> QED BY <2>2
<1>9. w[0] = m /\ \A k \in 1 .. n : w[k] = Move(w[k-1], lists[k])
  <2>1. 0 \in 0 .. n /\ \A k \in 1 .. n : k \in 0 .. n /\ k # 0
    BY <1>1
  <2> HIDE DEF w
  <2> QED BY <1>8, <2>1
<1> HIDE DEF w
<1> DEFINE So(k) == UNION {Adds(lists[j]) : j \in 1 .. k}
<1>10. w[n] \in S /\ Reloced(w[n].ca) = Reloced(m.ca) \cup So(n)
  <2> DEFINE Q == {k \in 0 .. n : w[k] \in S /\ Reloced(w[k].ca) = Reloced(m.ca) \cup So(k)}
  <2>1. 0 \in Q
    <3>1. So(0) = {}
      OBVIOUS
    <3> QED BY <1>1, <1>2, <1>9, <3>1
  <2>2. ASSUME NEW k \in 0 .. n - 1, k \in Q PROVE k + 1 \in Q
    <3>1. k + 1 \in 1 .. n /\ k + 1 - 1 = k /\ k + 1 \in 0 .. n /\ 1 .. k + 1 = 1 .. k \cup {k + 1}
      BY <1>1
    <3>2. w[k + 1] = Move(w[k], lists[k + 1])
      BY <1>9, <3>1
    <3>3. w[k] \in S /\ lists[k + 1] \in T
      BY <1>1, <2>2, <3>1
    <3>4. w[k + 1] \in S /\ Reloced(w[k + 1].ca) = Reloced(w[k].ca) \cup Adds(lists[k + 1])
      BY <1>3, <3>2, <3>3
    <3>5. So(k + 1) = So(k) \cup Adds(lists[k + 1])
      BY <3>1
    <3>6. Reloced(w[k].ca) = Reloced(m.ca) \cup So(k)
      BY <2>2
    <3> HIDE DEF So
    <3> QED BY <3>1, <3>4, <3>5, <3>6
  <2>3. 0 .. n \subseteq Q
    <3> HIDE DEF Q
    <3> QED BY <1>1, <2>1, <2>2, Climb
  <2>4. n \in 0 .. n
    BY <1>1
  <2> QED BY <2>3, <2>4
<1>11. MoveAll(m, lists) = w[n]
  BY DEF MoveAll, Each, w, n
<1>12. So(n) = UNION {ToSet(lists[i]) : i \in DOMAIN lists}
  <2>1. DOMAIN lists = 1 .. n
    BY DEF n
  <2> QED BY <2>1 DEF Adds
<1> HIDE DEF So
<1> QED BY <1>10, <1>11, <1>12 DEF S


(* Those that are reasons are.                                             *)
LEMMA MoveReasonsIs ==
    ASSUME NEW g \in RegionType, RegionOK(g), NEW m, Moving(g, m),
           NEW s, s.trail \in Seq(EntryType),
           \A i \in DOMAIN s.trail : s.trail[i].reason # Undef =>
              s.trail[i].reason \in Remaining(g) /\ Locked(s, s.trail[i].reason)
    PROVE  /\ Moving(g, MoveReasons(m, s))
           /\ Reloced(MoveReasons(m, s).ca) = Reloced(m.ca) \cup ({s.trail[i].reason : i \in DOMAIN s.trail} \ {Undef})
<1> DEFINE n == Len(s.trail)
           T == {y \in EntryType : y.reason # Undef => y.reason \in Remaining(g) /\ Locked(s, y.reason)}
           Eq(f) == [k \in 0 .. n |-> IF k = 0 THEN m ELSE IF MovesReason(f[k-1], s, s.trail[k].reason) THEN Reloc(f[k-1], s.trail[k].reason) ELSE f[k-1]]
           S == {x \in MoveType : Moving(g, x)}
           step == [y \in S \X T |-> IF MovesReason(y[1], s, y[2].reason) THEN Reloc(y[1], y[2].reason) ELSE y[1]]
           w == CHOOSE f : f = Eq(f)
           Adds(y) == {y.reason} \ {Undef}
<1>1. n \in Nat /\ \A k \in 1 .. n : s.trail[k] \in T
  OBVIOUS
<1>2. m \in S
  BY Zenon DEF Moving
<1>3. \A x \in S, y \in T : /\ (IF MovesReason(x, s, y.reason) THEN Reloc(x, y.reason) ELSE x) \in S
                             /\ Reloced((IF MovesReason(x, s, y.reason) THEN Reloc(x, y.reason) ELSE x).ca) = Reloced(x.ca) \cup Adds(y)
  <2> SUFFICES ASSUME NEW x \in S, NEW y \in T
               PROVE  /\ (IF MovesReason(x, s, y.reason) THEN Reloc(x, y.reason) ELSE x) \in S
                      /\ Reloced((IF MovesReason(x, s, y.reason) THEN Reloc(x, y.reason) ELSE x).ca)
                            = Reloced(x.ca) \cup Adds(y)
    OBVIOUS
  <2>1. Moving(g, x)
    OBVIOUS
  <2>2. CASE y.reason = Undef
    <3>1. ~ MovesReason(x, s, y.reason) /\ Adds(y) = {}
      BY <2>2 DEF MovesReason
    <3> HIDE DEF S, T, Adds
    <3> QED BY <3>1
  <2>3. CASE y.reason # Undef
    <3>1. MovesReason(x, s, y.reason) /\ y.reason \in Remaining(g) /\ Adds(y) = {y.reason}
      BY <2>3 DEF MovesReason
    <3>2. /\ Moving(g, Reloc(x, y.reason))
          /\ Reloced(Reloc(x, y.reason).ca) = Reloced(x.ca) \cup {y.reason}
      BY <2>1, <3>1, RelocIs, Zenon
    <3>3. Reloc(x, y.reason) \in S
      BY <3>2, Zenon DEF Moving
    <3> HIDE DEF S, T, Adds
    <3> QED BY <3>1, <3>2, <3>3
  <2> QED BY <2>2, <2>3
<1> HIDE DEF S, Adds, T
<1>4. step \in [S \X T -> S]
  <2>1. ASSUME NEW y \in S \X T PROVE (IF MovesReason(y[1], s, y[2].reason) THEN Reloc(y[1], y[2].reason) ELSE y[1]) \in S
    <3>1. y[1] \in S /\ y[2] \in T
      OBVIOUS
    <3> QED BY <1>3, <3>1
  <2> QED BY <2>1
<1>5. s.trail \in Seq(T)
  <2>1. s.trail = [k \in 1 .. n |-> s.trail[k]]
    OBVIOUS
  <2> HIDE DEF n
  <2>2. s.trail \in [1 .. n -> T]
    BY <1>1, <2>1
  <2>3. [1 .. n -> T] \subseteq Seq(T)
    BY <1>1
  <2> QED BY <2>2, <2>3
<1> HIDE DEF step
<1>6. PICK f : GoesThrough(f, S, m, s.trail, step)
  BY <1>2, <1>4, <1>5, EachExists
<1>7. f \in [0 .. n -> S] /\ f[0] = m /\ \A k \in 1 .. n : f[k] = IF MovesReason(f[k-1], s, s.trail[k].reason) THEN Reloc(f[k-1], s.trail[k].reason) ELSE f[k-1]
  <2>1. f \in [0 .. n -> S] /\ f[0] = m
    BY <1>6 DEF GoesThrough
  <2>2. ASSUME NEW k \in 1 .. n PROVE f[k] = IF MovesReason(f[k-1], s, s.trail[k].reason) THEN Reloc(f[k-1], s.trail[k].reason) ELSE f[k-1]
    <3>1. k - 1 \in 0 .. n
      BY <1>1
    <3>2. f[k-1] \in S /\ s.trail[k] \in T
      BY <1>1, <2>1, <3>1
    <3>3. step[<<f[k-1], s.trail[k]>>] = IF MovesReason(f[k-1], s, s.trail[k].reason) THEN Reloc(f[k-1], s.trail[k].reason) ELSE f[k-1]
      BY <3>2 DEF step
    <3> QED BY <1>6, <3>3 DEF GoesThrough
  <2> QED BY <2>1, <2>2
<1> HIDE DEF n
<1>8. w = Eq(w)
  <2>1. \A k \in 0 .. n : k = 0 \/ k \in 1 .. n
    BY <1>1
  <2>2. f = Eq(f)
    BY <1>7, <2>1
  <2> HIDE DEF Eq
  <2> QED BY <2>2
<1>9. w[0] = m /\ \A k \in 1 .. n : w[k] = IF MovesReason(w[k-1], s, s.trail[k].reason) THEN Reloc(w[k-1], s.trail[k].reason) ELSE w[k-1]
  <2>1. 0 \in 0 .. n /\ \A k \in 1 .. n : k \in 0 .. n /\ k # 0
    BY <1>1
  <2> HIDE DEF w
  <2> QED BY <1>8, <2>1
<1> HIDE DEF w
<1> DEFINE So(k) == UNION {Adds(s.trail[j]) : j \in 1 .. k}
<1>10. w[n] \in S /\ Reloced(w[n].ca) = Reloced(m.ca) \cup So(n)
  <2> DEFINE Q == {k \in 0 .. n : w[k] \in S /\ Reloced(w[k].ca) = Reloced(m.ca) \cup So(k)}
  <2>1. 0 \in Q
    <3>1. So(0) = {}
      OBVIOUS
    <3> QED BY <1>1, <1>2, <1>9, <3>1
  <2>2. ASSUME NEW k \in 0 .. n - 1, k \in Q PROVE k + 1 \in Q
    <3>1. k + 1 \in 1 .. n /\ k + 1 - 1 = k /\ k + 1 \in 0 .. n /\ 1 .. k + 1 = 1 .. k \cup {k + 1}
      BY <1>1
    <3>2. w[k + 1] = IF MovesReason(w[k], s, s.trail[k + 1].reason) THEN Reloc(w[k], s.trail[k + 1].reason) ELSE w[k]
      BY <1>9, <3>1
    <3>3. w[k] \in S /\ s.trail[k + 1] \in T
      BY <1>1, <2>2, <3>1
    <3>4. w[k + 1] \in S /\ Reloced(w[k + 1].ca) = Reloced(w[k].ca) \cup Adds(s.trail[k + 1])
      BY <1>3, <3>2, <3>3
    <3>5. So(k + 1) = So(k) \cup Adds(s.trail[k + 1])
      BY <3>1
    <3>6. Reloced(w[k].ca) = Reloced(m.ca) \cup So(k)
      BY <2>2
    <3> HIDE DEF So
    <3> QED BY <3>1, <3>4, <3>5, <3>6
  <2>3. 0 .. n \subseteq Q
    <3> HIDE DEF Q
    <3> QED BY <1>1, <2>1, <2>2, Climb
  <2>4. n \in 0 .. n
    BY <1>1
  <2> QED BY <2>3, <2>4
<1>11. MoveReasons(m, s) = w[n]
  BY DEF MoveReasons, Each, w, n
<1>12. So(n) = {s.trail[i].reason : i \in DOMAIN s.trail} \ {Undef}
  <2>1. DOMAIN s.trail = 1 .. n
    BY DEF n
  <2> QED BY <2>1 DEF Adds
<1> HIDE DEF So
<1> QED BY <1>10, <1>11, <1>12 DEF S

-----------------------------------------------------------------------------
(* What refers to clauses when they have moved.                            *)

(* new: where the clauses R of g are in h, which has no other.             *)
Image(g, h, R, new) ==
    /\ R \subseteq Remaining(g)
    /\ \A r \in R : /\ new[r] \in DOMAIN h.mem /\ h.mem[new[r]].id = g.mem[r].id
                    /\ h.mem[new[r]].lits = g.mem[r].lits /\ h.mem[new[r]].learnt = g.mem[r].learnt
    /\ \A q \in DOMAIN h.mem : ~ h.mem[q].removed /\ \E r \in R : new[r] = q
    /\ \A r, q \in R : new[r] = new[q] => r = q

Mapped(new, list) == [i \in DOMAIN list |-> new[list[i]]]

(* The list w is the list of where the clauses of another are.             *)
MapsList(new, R, list, w) ==
    /\ w \in Seq(Nat) /\ Len(w) = Len(list)
    /\ \A q : q \in ToSet(w) <=> \E r \in ToSet(list) : q = new[r]
    /\ \A r \in R : new[r] \in ToSet(w) <=> r \in ToSet(list)
    /\ Single(list) => Single(w)

(* The lists c are those of w, without what is removed; each has an element *)
(* once.                                                                   *)
Cleans(g, R, S, w, c) ==
    c \in [S -> Seq(Nat)] /\ \A x \in S : ToSet(c[x]) = ToSet(w[x]) \cap Live(g) /\ ToSet(c[x]) \subseteq R
AllSingle(S, c) == \A x \in S : Single(c[x])

(* The trail u is t, with its reasons where they are now.                  *)
TrailMoves(new, R, t, u) ==
    /\ DOMAIN u = DOMAIN t
    /\ \A i \in DOMAIN t :
          /\ u[i].lit = t[i].lit
          /\ u[i].reason = IF t[i].reason = Undef THEN Undef ELSE new[t[i].reason]
          /\ t[i].reason # Undef => t[i].reason \in R

LEMMA MovingImage ==
    ASSUME NEW g \in RegionType, RegionOK(g), NEW m, Moving(g, m)
    PROVE  Image(g, m.to, Reloced(m.ca), [r \in Reloced(m.ca) |-> m.ca.mem[r].relocation])
<1> DEFINE R   == Reloced(m.ca)
           new == [r \in R |-> m.ca.mem[r].relocation]
<1>1. \A r \in R :
          /\ r \in Remaining(g) /\ m.ca.mem[r].relocation \in DOMAIN m.to.mem
          /\ m.to.mem[m.ca.mem[r].relocation].id = g.mem[r].id
          /\ m.to.mem[m.ca.mem[r].relocation].lits = g.mem[r].lits
          /\ m.to.mem[m.ca.mem[r].relocation].learnt = g.mem[r].learnt
  BY DEF Moving
<1>2. \A q \in DOMAIN m.to.mem :
          /\ ~ m.to.mem[q].removed
          /\ \E r \in R : m.ca.mem[r].relocation = q
  BY DEF Moving
<1>3. \A r \in R : new[r] = m.ca.mem[r].relocation
  OBVIOUS
<1> HIDE DEF new, R
<1>4. ASSUME NEW r \in R, NEW q \in R, new[r] = new[q] PROVE r = q
  <2>1. g.mem[r].id = g.mem[q].id /\ r \in DOMAIN g.mem /\ q \in DOMAIN g.mem
    BY <1>1, <1>3, <1>4 DEF Remaining
  <2> QED BY <2>1 DEF RegionOK, NumbersOK
<1>5. \A q \in DOMAIN m.to.mem : ~ m.to.mem[q].removed /\ \E r \in R : new[r] = q
  BY <1>2, <1>3
<1>6. R \subseteq Remaining(g)
  BY <1>1
<1>7. \A r \in R : /\ new[r] \in DOMAIN m.to.mem /\ m.to.mem[new[r]].id = g.mem[r].id
                   /\ m.to.mem[new[r]].lits = g.mem[r].lits /\ m.to.mem[new[r]].learnt = g.mem[r].learnt
  BY <1>1, <1>3
<1>8. Image(g, m.to, R, new)
  BY <1>4, <1>5, <1>6, <1>7 DEF Image
<1> QED BY <1>8 DEF R, new

LEMMA ImageLive ==
    ASSUME NEW g, NEW h, NEW R, NEW new, Image(g, h, R, new)
    PROVE  /\ \A r \in R : /\ new[r] \in Named(h) <=> r \in Named(g)
                           /\ new[r] \in Live(h) <=> r \in Live(g)
           /\ Live(h) = Named(h)
           /\ \A q \in Live(h) : \E r \in R \cap Live(g) : new[r] = q
<1>1. /\ R \subseteq Remaining(g)
      /\ \A r \in R : new[r] \in DOMAIN h.mem /\ h.mem[new[r]].id = g.mem[r].id
      /\ \A q \in DOMAIN h.mem : ~ h.mem[q].removed /\ \E r \in R : new[r] = q
  BY DEF Image
<1>2. Live(h) = Named(h)
  BY <1>1 DEF Live, Named
<1>3. \A r \in R : r \in DOMAIN g.mem /\ ~ g.mem[r].removed
  BY <1>1 DEF Remaining
<1>4. ASSUME NEW r \in R
      PROVE  (new[r] \in Named(h) <=> r \in Named(g)) /\ (r \in Named(g) <=> r \in Live(g))
  BY <1>1, <1>3 DEF Named, Live
<1>5. ASSUME NEW q \in Live(h) PROVE \E r \in R \cap Live(g) : new[r] = q
  <2>1. q \in DOMAIN h.mem
    BY DEF Live, Named
  <2>2. PICK r \in R : new[r] = q
    BY <1>1, <2>1
  <2> QED BY <1>2, <1>4, <2>2
<1> QED BY <1>2, <1>4, <1>5

LEMMA MappedIs ==
    ASSUME NEW g, NEW h \in RegionType, NEW R, NEW new, Image(g, h, R, new),
           NEW list \in Seq(Nat), ToSet(list) \subseteq R
    PROVE  MapsList(new, R, list, Mapped(new, list))
<1> DEFINE w == Mapped(new, list)
<1>1. /\ \A r \in R : new[r] \in DOMAIN h.mem
      /\ \A r, q \in R : new[r] = new[q] => r = q
  BY DEF Image
<1>2. DOMAIN h.mem \subseteq Nat
  BY RegionFacts
<1>3. \A i \in DOMAIN list : list[i] \in R /\ list[i] \in ToSet(list)
  BY DEF ToSet
<1>4. DOMAIN list = 1 .. Len(list) /\ Len(list) \in Nat
  OBVIOUS
<1>5. DOMAIN w = DOMAIN list /\ \A i \in DOMAIN list : w[i] = new[list[i]]
  BY DEF Mapped
<1>6. w \in Seq(Nat) /\ Len(w) = Len(list)
  <2>1. w = [i \in 1 .. Len(list) |-> new[list[i]]]
    BY <1>4 DEF Mapped
  <2>2. \A i \in 1 .. Len(list) : new[list[i]] \in Nat
    BY <1>1, <1>2, <1>3, <1>4
  <2>3. w \in [1 .. Len(list) -> Nat]
    BY <2>1, <2>2
  <2> DEFINE n == Len(list)
  <2>4. n \in Nat /\ w \in [1 .. n -> Nat]
    BY <2>3
  <2>5. w \in Seq(Nat) /\ Len(w) = n
    <3> HIDE DEF w, n
    <3> QED BY <2>4, TableIs
  <2> QED BY <2>5
<1> HIDE DEF w
<1>7. ASSUME NEW q PROVE q \in ToSet(w) <=> \E r \in ToSet(list) : q = new[r]
  BY <1>5 DEF ToSet
<1>8. ASSUME NEW r \in R PROVE new[r] \in ToSet(w) <=> r \in ToSet(list)
  <2>1. ASSUME new[r] \in ToSet(w) PROVE r \in ToSet(list)
    <3>1. PICK q \in ToSet(list) : new[r] = new[q]
      BY <1>7, <2>1
    <3>2. q \in R
      OBVIOUS
    <3> QED BY <1>1, <3>1, <3>2
  <2> QED BY <1>7, <2>1
<1>9. Single(list) => Single(w)
  BY <1>1, <1>3, <1>5 DEF Single
<1> QED BY <1>6, <1>7, <1>8, <1>9 DEF w, MapsList

LEMMA ImageWatches ==
    ASSUME NEW g, NEW h \in RegionType, NEW R, NEW new, Image(g, h, R, new),
           NEW w, NEW d, WatchOK(g, w, d), NEW c, Cleans(g, R, Lits, w, c), AllSingle(Lits, c)
    PROVE  WatchOK(h, [l \in Lits |-> Mapped(new, c[l])], {})
<1> DEFINE x == [l \in Lits |-> Mapped(new, c[l])]
<1> SUFFICES ASSUME NEW l \in Lits
             PROVE  /\ ToSet(x[l]) \subseteq Named(h)
                    /\ \A q \in Live(h) : q \in ToSet(x[l]) <=> -l \in {h.mem[q].lits[1], h.mem[q].lits[2]}
                    /\ \A i, j \in DOMAIN x[l] : x[l][i] = x[l][j] /\ x[l][i] \in Live(h) => i = j
                    /\ l \notin {} => ToSet(x[l]) \subseteq Live(h)
  BY DEF WatchOK
<1>1. x[l] = Mapped(new, c[l])
  OBVIOUS
<1> HIDE DEF x
<1>2. c[l] \in Seq(Nat) /\ ToSet(c[l]) = ToSet(w[l]) \cap Live(g) /\ ToSet(c[l]) \subseteq R /\ Single(c[l])
  BY DEF Cleans, AllSingle
<1>3. /\ \A q : q \in ToSet(x[l]) <=> \E r \in ToSet(c[l]) : q = new[r]
      /\ \A r \in R : new[r] \in ToSet(x[l]) <=> r \in ToSet(c[l])
      /\ Single(x[l])
  <2>1. MapsList(new, R, c[l], x[l])
    BY <1>1, <1>2, MappedIs
  <2> QED BY <1>2, <2>1 DEF MapsList
<1>4. /\ \A r \in R : new[r] \in Live(h) <=> r \in Live(g)
      /\ Live(h) = Named(h)
      /\ \A q \in Live(h) : \E r \in R \cap Live(g) : new[r] = q
  BY ImageLive
<1>5. \A r \in R : h.mem[new[r]].lits = g.mem[r].lits
  BY DEF Image
<1>6. \A r \in Live(g) : r \in ToSet(w[l]) <=> -l \in {g.mem[r].lits[1], g.mem[r].lits[2]}
  BY DEF WatchOK
<1>7. ToSet(x[l]) \subseteq Live(h)
  <2>1. ASSUME NEW q \in ToSet(x[l]) PROVE q \in Live(h)
    <3>1. PICK r \in ToSet(c[l]) : q = new[r]
      BY <1>3
    <3>2. r \in R /\ r \in Live(g)
      BY <1>2
    <3> QED BY <1>4, <3>1, <3>2
  <2> QED BY <2>1
<1>8. ASSUME NEW q \in Live(h)
      PROVE  q \in ToSet(x[l]) <=> -l \in {h.mem[q].lits[1], h.mem[q].lits[2]}
  <2>1. PICK r \in R \cap Live(g) : new[r] = q
    BY <1>4
  <2>2. q \in ToSet(x[l]) <=> r \in ToSet(w[l])
    BY <1>2, <1>3, <2>1
  <2>3. h.mem[q].lits = g.mem[r].lits
    BY <1>5, <2>1
  <2> QED BY <1>6, <2>1, <2>2, <2>3
<1>9. \A i, j \in DOMAIN x[l] : x[l][i] = x[l][j] => i = j
  BY <1>3 DEF Single
<1> QED BY <1>4, <1>7, <1>8, <1>9

LEMMA ImageOccurs ==
    ASSUME NEW g, NEW h \in RegionType, NEW R, NEW new, Image(g, h, R, new),
           NEW occ, OccursOK(g, occ), NEW c, Cleans(g, R, Vars, occ, c)
    PROVE  OccursOK(h, [v \in Vars |-> Mapped(new, c[v])])
<1> DEFINE x == [v \in Vars |-> Mapped(new, c[v])]
<1> SUFFICES ASSUME NEW v \in Vars
             PROVE  /\ ToSet(x[v]) \subseteq Named(h)
                    /\ \A q \in Live(h) : q \in ToSet(x[v]) <=> v \in VarsOf(h.mem[q].lits)
  BY DEF OccursOK
<1>1. x[v] = Mapped(new, c[v])
  OBVIOUS
<1> HIDE DEF x
<1>2. c[v] \in Seq(Nat) /\ ToSet(c[v]) = ToSet(occ[v]) \cap Live(g) /\ ToSet(c[v]) \subseteq R
  BY DEF Cleans
<1>3. /\ \A q : q \in ToSet(x[v]) <=> \E r \in ToSet(c[v]) : q = new[r]
      /\ \A r \in R : new[r] \in ToSet(x[v]) <=> r \in ToSet(c[v])
  <2>1. MapsList(new, R, c[v], x[v])
    BY <1>1, <1>2, MappedIs
  <2> QED BY <1>2, <2>1 DEF MapsList
<1>4. /\ \A r \in R : new[r] \in Live(h) <=> r \in Live(g)
      /\ Live(h) = Named(h)
      /\ \A q \in Live(h) : \E r \in R \cap Live(g) : new[r] = q
  BY ImageLive
<1>5. \A r \in R : h.mem[new[r]].lits = g.mem[r].lits
  BY DEF Image
<1>6. \A r \in Live(g) : r \in ToSet(occ[v]) <=> v \in VarsOf(g.mem[r].lits)
  BY DEF OccursOK
<1>7. ToSet(x[v]) \subseteq Named(h)
  <2>1. ASSUME NEW q \in ToSet(x[v]) PROVE q \in Live(h)
    <3>1. PICK r \in ToSet(c[v]) : q = new[r]
      BY <1>3
    <3>2. r \in R /\ r \in Live(g)
      BY <1>2
    <3> QED BY <1>4, <3>1, <3>2
  <2> QED BY <1>4, <2>1
<1>8. ASSUME NEW q \in Live(h)
      PROVE  q \in ToSet(x[v]) <=> v \in VarsOf(h.mem[q].lits)
  <2>1. PICK r \in R \cap Live(g) : new[r] = q
    BY <1>4
  <2>2. q \in ToSet(x[v]) <=> r \in ToSet(occ[v])
    BY <1>2, <1>3, <2>1
  <2>3. h.mem[q].lits = g.mem[r].lits
    BY <1>5, <2>1
  <2> QED BY <1>6, <2>1, <2>2, <2>3
<1> QED BY <1>7, <1>8

LEMMA ImageTrail ==
    ASSUME NEW g, NEW h, NEW R, NEW new, Image(g, h, R, new),
           NEW t, TrailOK(g, t), NEW u, TrailMoves(new, R, t, u)
    PROVE  TrailOK(h, u)
<1>1. \A i, j \in DOMAIN u : u[i].lit # -u[j].lit
  BY DEF TrailOK, TrailMoves
<1>2. ASSUME NEW i \in DOMAIN u, u[i].reason # Undef
      PROVE  u[i].reason \in Live(h) /\ h.mem[u[i].reason].lits[1] = u[i].lit
  <2> DEFINE r == t[i].reason
  <2>1. i \in DOMAIN t /\ r # Undef /\ u[i].reason = new[r] /\ r \in R /\ u[i].lit = t[i].lit
    BY <1>2 DEF TrailMoves
  <2>2. r \in Live(g) /\ g.mem[r].lits[1] = t[i].lit
    BY <2>1 DEF TrailOK
  <2>3. new[r] \in Live(h)
    BY <2>1, <2>2, ImageLive
  <2>4. h.mem[new[r]].lits = g.mem[r].lits
    BY <2>1 DEF Image
  <2> QED BY <2>1, <2>2, <2>3, <2>4
<1> QED BY <1>1, <1>2 DEF TrailOK

-----------------------------------------------------------------------------
(* garbageCollect.                                                         *)

LEMMA LitSeqIs ==
    /\ DOMAIN LitSeq = 1 .. 2 * MaxVar /\ 2 * MaxVar \in Nat
    /\ \A i \in DOMAIN LitSeq : LitSeq[i] \in Lits
    /\ \A l \in Lits : \E i \in DOMAIN LitSeq : LitSeq[i] = l
<1>1. MaxVar \in Nat /\ 2 * MaxVar \in Nat
  BY ClauseMemoryAssumption
<1>2. /\ DOMAIN LitSeq = 1 .. 2 * MaxVar
      /\ \A i \in 1 .. 2 * MaxVar : LitSeq[i] = IF i % 2 = 1 THEN (i + 1) \div 2 ELSE -(i \div 2)
  BY DEF LitSeq
<1>3. \A v \in 1 .. MaxVar : v \in Lits /\ -v \in Lits
  BY DEF Lits, Vars
<1>4. ASSUME NEW i \in 1 .. 2 * MaxVar PROVE LitSeq[i] \in Lits
  <2>1. CASE i % 2 = 1
    <3>1. (i + 1) \div 2 \in 1 .. MaxVar
      BY <1>1, <2>1
    <3> QED BY <1>2, <1>3, <2>1, <3>1
  <2>2. CASE i % 2 # 1
    <3>1. i \div 2 \in 1 .. MaxVar
      BY <1>1, <2>2
    <3> QED BY <1>2, <1>3, <2>2, <3>1
  <2> QED BY <2>1, <2>2
<1>5. ASSUME NEW l \in Lits PROVE \E i \in 1 .. 2 * MaxVar : LitSeq[i] = l
  <2>1. PICK v \in 1 .. MaxVar : l = v \/ l = -v
    BY DEF Lits, Vars
  <2>2. CASE l = v
    <3>1. /\ 2 * v - 1 \in 1 .. 2 * MaxVar /\ (2 * v - 1) % 2 = 1
          /\ (2 * v - 1 + 1) \div 2 = v
      BY <1>1
    <3> QED BY <1>2, <2>2, <3>1
  <2>3. CASE l = -v
    <3>1. 2 * v \in 1 .. 2 * MaxVar /\ (2 * v) % 2 = 0 /\ (2 * v) \div 2 = v
      BY <1>1
    <3> QED BY <1>2, <2>3, <3>1
  <2> QED BY <2>1, <2>2, <2>3
<1> QED BY <1>1, <1>2, <1>4, <1>5

LEMMA CleanIs ==
    ASSUME NEW g \in RegionType, NEW list \in Seq(Nat), ToSet(list) \subseteq DOMAIN g.mem
    PROVE  /\ Clean(g, list) \in Seq(Nat) /\ ToSet(Clean(g, list)) = ToSet(list) \cap Remaining(g)
           /\ ToSet(list) \subseteq Named(g) => ToSet(Clean(g, list)) = ToSet(list) \cap Live(g)
           /\ Single(list) => Single(Clean(g, list))
           /\ list = <<>> => Clean(g, list) = <<>>
<1> DEFINE gone == {r \in DOMAIN g.mem : g.mem[r].removed}
           w    == Clean(g, list)
<1>1. w = Without(list, gone)
  BY DEF Clean
<1>2. w \in Seq(Nat) /\ ToSet(w) = ToSet(list) \ gone
  BY <1>1, WithoutIs
<1>3. ToSet(list) \ gone = ToSet(list) \cap Remaining(g)
  BY DEF Remaining
<1>4. ToSet(list) \subseteq Named(g) => ToSet(list) \ gone = ToSet(list) \cap Live(g)
  BY DEF Live
<1>5. ASSUME Single(list) PROVE Single(w)
  <2>1. Once(list, Nat)
    BY <1>5 DEF Once, Single
  <2>2. Once(w, Nat)
    BY <1>1, <2>1, OnceWithout
  <2>3. \A i \in DOMAIN w : w[i] \in Nat
    BY <1>2
  <2> QED BY <2>2, <2>3 DEF Once, Single
<1>6. list = <<>> => w = <<>>
  <2>1. list = <<>> => ToSet(list) \cap gone = {}
    BY DEF ToSet
  <2> QED BY <1>1, <2>1, WithoutNone
<1> HIDE DEF w, gone
<1> QED BY <1>2, <1>3, <1>4, <1>5, <1>6 DEF w

(* The lists of the watchers and the occurrences as they are moved.        *)
LEMMA CleanedIs ==
    ASSUME NEW s, Core(s)
    PROVE  /\ CleanWatches(s) \in [Lits -> Seq(Nat)]
           /\ \A l \in Lits : /\ ToSet(CleanWatches(s)[l]) = ToSet(s.watches[l]) \cap Live(s.ca)
                              /\ Single(CleanWatches(s)[l])
           /\ s.simp => /\ CleanOccurs(s) \in [Vars -> Seq(Nat)]
                        /\ \A v \in Vars : ToSet(CleanOccurs(s)[v]) = ToSet(s.occurs[v]) \cap Live(s.ca)
<1> DEFINE g == s.ca
<1>1. /\ g \in RegionType /\ WatchOK(g, s.watches, s.dirty) /\ SimpOK(s)
      /\ s.watches \in [Lits -> Seq(Nat)] /\ s.occurs \in [Vars -> Seq(Nat)]
  BY DEF Core, StateType
<1>2. Named(g) \subseteq DOMAIN g.mem /\ Live(g) \subseteq Named(g)
  BY DEF Named, Live
<1> HIDE DEF g
<1>3. ASSUME NEW l \in Lits
      PROVE  /\ CleanWatches(s)[l] \in Seq(Nat)
             /\ ToSet(CleanWatches(s)[l]) = ToSet(s.watches[l]) \cap Live(g)
             /\ Single(CleanWatches(s)[l])
  <2> DEFINE w == s.watches[l]
  <2>1. /\ w \in Seq(Nat) /\ ToSet(w) \subseteq Named(g)
        /\ \A i, j \in DOMAIN w : w[i] = w[j] /\ w[i] \in Live(g) => i = j
        /\ l \notin s.dirty => ToSet(w) \subseteq Live(g)
    BY <1>1 DEF WatchOK
  <2>2. CleanWatches(s)[l] = IF l \in s.dirty THEN Clean(g, w) ELSE w
    BY DEF CleanWatches, g
  <2> HIDE DEF w
  <2>3. Once(w, Live(g))
    BY <2>1 DEF Once
  <2>4. CASE l \in s.dirty
    <3>1. Clean(g, w) \in Seq(Nat) /\ ToSet(Clean(g, w)) = ToSet(w) \cap Live(g)
      BY <1>1, <1>2, <2>1, CleanIs
    <3>2. Once(Clean(g, w), Live(g))
      BY <2>1, <2>3, OnceWithout DEF Clean
    <3>3. Single(Clean(g, w))
      <4>1. \A i \in DOMAIN Clean(g, w) : Clean(g, w)[i] \in Live(g)
        BY <3>1 DEF ToSet
      <4> QED BY <3>2, <4>1 DEF Once, Single
    <3> QED BY <2>2, <2>4, <3>1, <3>3 DEF w
  <2>5. CASE l \notin s.dirty
    <3>1. \A i \in DOMAIN w : w[i] \in Live(g)
      BY <2>1, <2>5 DEF ToSet
    <3>2. Single(w)
      BY <2>3, <3>1 DEF Once, Single
    <3> QED BY <2>1, <2>2, <2>5, <3>2 DEF w
  <2> QED BY <2>4, <2>5
<1>4. CleanWatches(s) \in [Lits -> Seq(Nat)]
  <2>1. CleanWatches(s) = [l \in Lits |-> CleanWatches(s)[l]]
    BY DEF CleanWatches
  <2> QED BY <1>3, <2>1
<1>5. ASSUME s.simp, NEW v \in Vars
      PROVE  CleanOccurs(s)[v] \in Seq(Nat) /\ ToSet(CleanOccurs(s)[v]) = ToSet(s.occurs[v]) \cap Live(g)
  <2>1. s.occurs[v] \in Seq(Nat) /\ ToSet(s.occurs[v]) \subseteq Named(g)
    BY <1>1, <1>5 DEF SimpOK, OccursOK, g
  <2>2. CleanOccurs(s)[v] = Clean(g, s.occurs[v])
    BY DEF CleanOccurs, g
  <2> QED BY <1>1, <1>2, <2>1, <2>2, CleanIs
<1>6. s.simp => CleanOccurs(s) \in [Vars -> Seq(Nat)]
  <2>1. CleanOccurs(s) = [v \in Vars |-> CleanOccurs(s)[v]]
    BY DEF CleanOccurs
  <2> QED BY <1>5, <2>1
<1> QED BY <1>3, <1>4, <1>5, <1>6 DEF g

Start(s)      == [ca |-> s.ca, to |-> Region(s.ca.sz - s.ca.wasted, s.ca.extra_clause_field)]
WatchLists(s) == [i \in DOMAIN LitSeq |-> CleanWatches(s)[LitSeq[i]]]
Watched(s)    == MoveAll(MoveSimp(Start(s), s), WatchLists(s))
KeptLists(s)  == <<Clean(s.ca, s.learnts), Clean(s.ca, s.clauses)>>
Final(s)      == MoveAll(MoveReasons(Watched(s), s), KeptLists(s))

(* What preprocessing has is copied.                                       *)
LEMMA MoveSimpIs ==
    ASSUME NEW s, Core(s)
    PROVE  LET m == MoveSimp(Start(s), s)
           IN  /\ Moving(s.ca, m)
               /\ s.simp => /\ \A v \in Vars : ToSet(CleanOccurs(s)[v]) \subseteq Reloced(m.ca)
                            /\ ToSet(Clean(s.ca, s.queue)) \subseteq Reloced(m.ca)
                            /\ s.tmpunit \in Reloced(m.ca)
<1> DEFINE g == s.ca
           q == Append(Clean(g, s.queue), s.tmpunit)
           a == MoveAll(Start(s), CleanOccurs(s))
           m == MoveSimp(Start(s), s)
<1>1. /\ g \in RegionType /\ RegionOK(g) /\ SimpOK(s)
      /\ s.queue \in Seq(Nat) /\ s.tmpunit \in Nat
  BY DEF Core, StateType
<1>2. Moving(g, Start(s)) /\ Reloced(Start(s).ca) = {}
  BY <1>1, StartIs DEF Start
<1>3. CASE ~ s.simp
  <2>1. m = Start(s)
    BY <1>3 DEF MoveSimp
  <2> QED BY <1>2, <1>3, <2>1
<1>4. CASE s.simp
  <2>1. m = Move(a, q)
    BY <1>4 DEF MoveSimp
  <2>2. /\ CleanOccurs(s) \in [Vars -> Seq(Nat)]
        /\ \A v \in Vars : ToSet(CleanOccurs(s)[v]) = ToSet(s.occurs[v]) \cap Live(g)
    BY <1>4, CleanedIs
  <2>3. Vars = 1 .. MaxVar /\ MaxVar \in Nat
    BY ClauseMemoryAssumption DEF Vars
  <2>4. CleanOccurs(s) \in Seq(Seq(Nat)) /\ DOMAIN CleanOccurs(s) = Vars
    BY <2>2, <2>3
  <2>5. Live(g) \subseteq Remaining(g)
    BY DEF Live, Named, Remaining
  <2>6. \A i \in DOMAIN CleanOccurs(s) : ToSet(CleanOccurs(s)[i]) \subseteq Remaining(g)
    BY <2>2, <2>4, <2>5
  <2>7. /\ Moving(g, a)
        /\ Reloced(a.ca) = Reloced(Start(s).ca) \cup UNION {ToSet(CleanOccurs(s)[i]) : i \in DOMAIN CleanOccurs(s)}
    BY <1>1, <1>2, <2>4, <2>6, MoveAllIs
  <2>8. /\ ToSet(s.queue) \subseteq DOMAIN g.mem
        /\ s.tmpunit \in DOMAIN g.mem \ Named(g) /\ ~ g.mem[s.tmpunit].removed
    BY <1>1, <1>4 DEF SimpOK
  <2>9. /\ Clean(g, s.queue) \in Seq(Nat) /\ ToSet(Clean(g, s.queue)) \subseteq Remaining(g)
        /\ s.tmpunit \in Remaining(g)
    BY <1>1, <2>8, CleanIs DEF Remaining
  <2>10. q \in Seq(Nat) /\ ToSet(q) = ToSet(Clean(g, s.queue)) \cup {s.tmpunit}
    BY <1>1, <2>9, AppendIs
  <2> HIDE DEF q, a, m
  <2>11. Moving(g, m) /\ Reloced(m.ca) = Reloced(a.ca) \cup ToSet(q)
    <3>1. ToSet(q) \subseteq Remaining(g)
      BY <2>9, <2>10
    <3> QED BY <1>1, <2>1, <2>7, <2>10, <3>1, MoveIs
  <2>12. \A v \in Vars : ToSet(CleanOccurs(s)[v]) \subseteq Reloced(m.ca)
    BY <2>4, <2>7, <2>11
  <2> QED BY <2>10, <2>11, <2>12 DEF m
<1> QED BY <1>3, <1>4

(* And all that has references.                                            *)
LEMMA FinalIs ==
    ASSUME NEW s, Core(s), ListsOK(s)
    PROVE  LET R == Reloced(Final(s).ca)
           IN  /\ Moving(s.ca, Final(s))
               /\ \A l \in Lits : ToSet(CleanWatches(s)[l]) \subseteq R
               /\ ToSet(Clean(s.ca, s.learnts)) \subseteq R /\ ToSet(Clean(s.ca, s.clauses)) \subseteq R
               /\ \A i \in DOMAIN s.trail :
                     /\ MovesReason(Watched(s), s, s.trail[i].reason) <=> s.trail[i].reason # Undef
                     /\ s.trail[i].reason # Undef => s.trail[i].reason \in R
               /\ s.simp => /\ \A v \in Vars : ToSet(CleanOccurs(s)[v]) \subseteq R
                            /\ ToSet(Clean(s.ca, s.queue)) \subseteq R
                            /\ s.tmpunit \in R
<1> DEFINE g == s.ca
           a == MoveSimp(Start(s), s)
           b == Watched(s)
           c == MoveReasons(b, s)
           m == Final(s)
           reasons == {s.trail[i].reason : i \in DOMAIN s.trail} \ {Undef}
<1>1. /\ g \in RegionType /\ RegionOK(g) /\ TrailOK(g, s.trail)
      /\ s.trail \in Seq(EntryType) /\ s.learnts \in Seq(Nat) /\ s.clauses \in Seq(Nat)
  BY DEF Core, StateType
<1>2. /\ Moving(g, a)
      /\ s.simp => /\ \A v \in Vars : ToSet(CleanOccurs(s)[v]) \subseteq Reloced(a.ca)
                   /\ ToSet(Clean(g, s.queue)) \subseteq Reloced(a.ca)
                   /\ s.tmpunit \in Reloced(a.ca)
  BY MoveSimpIs
<1>3. Live(g) \subseteq Remaining(g)
  BY DEF Live, Named, Remaining
<1> HIDE DEF a
<1>4. /\ Moving(g, b) /\ Reloced(a.ca) \subseteq Reloced(b.ca)
      /\ \A l \in Lits : ToSet(CleanWatches(s)[l]) \subseteq Reloced(b.ca)
  <2>1. /\ CleanWatches(s) \in [Lits -> Seq(Nat)]
        /\ \A l \in Lits : ToSet(CleanWatches(s)[l]) \subseteq Remaining(g)
    <3>1. CleanWatches(s) \in [Lits -> Seq(Nat)]
      BY CleanedIs
    <3>2. \A l \in Lits : ToSet(CleanWatches(s)[l]) = ToSet(s.watches[l]) \cap Live(g)
      BY CleanedIs
    <3> HIDE DEF g
    <3> QED BY <1>3, <3>1, <3>2
  <2>2. /\ DOMAIN LitSeq = 1 .. 2 * MaxVar /\ 2 * MaxVar \in Nat
        /\ \A i \in DOMAIN LitSeq : LitSeq[i] \in Lits
        /\ \A l \in Lits : \E i \in DOMAIN LitSeq : LitSeq[i] = l
    BY LitSeqIs
  <2> DEFINE w == WatchLists(s)
             n == 2 * MaxVar
  <2>3. /\ w \in [1 .. n -> Seq(Nat)] /\ DOMAIN w = 1 .. n
        /\ \A i \in 1 .. n : w[i] = CleanWatches(s)[LitSeq[i]]
    BY <2>1, <2>2 DEF WatchLists
  <2> HIDE DEF w, n
  <2>4. w \in Seq(Seq(Nat))
    <3>1. n \in Nat
      BY <2>2 DEF n
    <3> QED BY <2>3, <3>1, TableIs
  <2>5. \A i \in DOMAIN w : ToSet(w[i]) \subseteq Remaining(g)
    BY <2>1, <2>2, <2>3 DEF n
  <2>6. b = MoveAll(a, w)
    BY DEF Watched, a, w
  <2>7. Moving(g, b) /\ Reloced(b.ca) = Reloced(a.ca) \cup UNION {ToSet(w[i]) : i \in DOMAIN w}
    <3> HIDE DEF b
    <3> QED BY <1>1, <1>2, <2>4, <2>5, <2>6, MoveAllIs
  <2>8. ASSUME NEW l \in Lits PROVE ToSet(CleanWatches(s)[l]) \subseteq Reloced(b.ca)
    <3>1. PICK i \in DOMAIN w : w[i] = CleanWatches(s)[l]
      BY <2>2, <2>3 DEF n
    <3> QED BY <2>7, <3>1
  <2> QED BY <2>7, <2>8
<1>5. \A i \in DOMAIN s.trail : s.trail[i].reason # Undef =>
         s.trail[i].reason \in Remaining(g) /\ Locked(s, s.trail[i].reason)
  <2>1. ASSUME NEW i \in DOMAIN s.trail, s.trail[i].reason # Undef
        PROVE  s.trail[i].reason \in Remaining(g) /\ Locked(s, s.trail[i].reason)
    <3>1. s.trail[i].reason \in Live(g) /\ g.mem[s.trail[i].reason].lits[1] = s.trail[i].lit
      BY <1>1, <2>1 DEF TrailOK
    <3>2. Locked(s, s.trail[i].reason)
      BY <3>1 DEF Locked
    <3> QED BY <1>3, <3>1, <3>2
  <2> QED BY <2>1
<1>6. \A i \in DOMAIN s.trail : MovesReason(b, s, s.trail[i].reason) <=> s.trail[i].reason # Undef
  BY <1>5 DEF MovesReason
<1> HIDE DEF b
<1>7. Moving(g, c) /\ Reloced(c.ca) = Reloced(b.ca) \cup reasons
  BY <1>1, <1>4, <1>5, MoveReasonsIs
<1> HIDE DEF c
<1>8. /\ Moving(g, m) /\ Reloced(c.ca) \subseteq Reloced(m.ca)
      /\ ToSet(Clean(g, s.learnts)) \subseteq Reloced(m.ca) /\ ToSet(Clean(g, s.clauses)) \subseteq Reloced(m.ca)
  <2> DEFINE w == KeptLists(s)
  <2>1. ToSet(s.learnts) \subseteq DOMAIN g.mem /\ ToSet(s.clauses) \subseteq DOMAIN g.mem
    BY DEF ListsOK, Live, Named
  <2>2. /\ Clean(g, s.learnts) \in Seq(Nat) /\ ToSet(Clean(g, s.learnts)) \subseteq Remaining(g)
        /\ Clean(g, s.clauses) \in Seq(Nat) /\ ToSet(Clean(g, s.clauses)) \subseteq Remaining(g)
    BY <1>1, <2>1, CleanIs
  <2>3. /\ w \in Seq(Seq(Nat)) /\ DOMAIN w = {1, 2}
        /\ w[1] = Clean(g, s.learnts) /\ w[2] = Clean(g, s.clauses)
    BY <2>2 DEF KeptLists
  <2>4. m = MoveAll(c, w)
    BY DEF Final, c, b
  <2> HIDE DEF w, m
  <2>5. \A i \in DOMAIN w : ToSet(w[i]) \subseteq Remaining(g)
    BY <2>2, <2>3
  <2>6. Moving(g, m) /\ Reloced(m.ca) = Reloced(c.ca) \cup UNION {ToSet(w[i]) : i \in DOMAIN w}
    BY <1>1, <1>7, <2>3, <2>4, <2>5, MoveAllIs
  <2> QED BY <2>3, <2>6
<1> HIDE DEF m
<1>9. \A i \in DOMAIN s.trail : s.trail[i].reason # Undef => s.trail[i].reason \in Reloced(m.ca)
  BY <1>7, <1>8
<1>10. /\ Reloced(a.ca) \subseteq Reloced(m.ca)
       /\ \A l \in Lits : ToSet(CleanWatches(s)[l]) \subseteq Reloced(m.ca)
  BY <1>4, <1>7, <1>8
<1> QED BY <1>2, <1>6, <1>8, <1>9, <1>10 DEF m, b

(* What the copy of a region is.                                           *)
CopyOf(g, h) ==
    /\ h.wasted = 0 /\ h.cap <= g.cap /\ h.sz <= g.sz - g.wasted
    /\ \A q \in DOMAIN h.mem : /\ ~ h.mem[q].removed
                               /\ \E r \in DOMAIN g.mem : g.mem[r].id = h.mem[q].id

LEMMA MovedIs ==
    ASSUME NEW m, NEW list, ToSet(list) \subseteq Reloced(m.ca)
    PROVE  Moved(m, list) = Mapped([r \in Reloced(m.ca) |-> m.ca.mem[r].relocation], list)
BY DEF Moved, Mapped, ToSet

(* The state t is s, with its clauses where they are now.                  *)
Relocated(s, t, R, new) ==
    /\ Image(s.ca, t.ca, R, new) /\ TrailMoves(new, R, s.trail, t.trail) /\ t.simp = s.simp
    /\ t.learnts = Mapped(new, Clean(s.ca, s.learnts)) /\ ToSet(Clean(s.ca, s.learnts)) \subseteq R
    /\ t.clauses = Mapped(new, Clean(s.ca, s.clauses)) /\ ToSet(Clean(s.ca, s.clauses)) \subseteq R
    /\ \A l \in Lits : /\ t.watches[l] = Mapped(new, CleanWatches(s)[l])
                       /\ ToSet(CleanWatches(s)[l]) \subseteq R
    /\ s.simp => /\ \A v \in Vars : /\ t.occurs[v] = Mapped(new, Clean(s.ca, s.occurs[v]))
                                    /\ ToSet(Clean(s.ca, s.occurs[v])) \subseteq R
                 /\ t.queue = Mapped(new, Clean(s.ca, s.queue)) /\ ToSet(Clean(s.ca, s.queue)) \subseteq R
                 /\ t.tmpunit = new[s.tmpunit] /\ s.tmpunit \in R

LEMMA CollectIs ==
    ASSUME NEW s, Core(s), ListsOK(s)
    PROVE  /\ Valid(garbageCollect(s)) /\ CopyOf(s.ca, garbageCollect(s).ca)
           /\ \E R, new : Relocated(s, garbageCollect(s), R, new)
<1> DEFINE g   == s.ca
           m   == Final(s)
           h   == m.to
           R   == Reloced(m.ca)
           new == [r \in R |-> m.ca.mem[r].relocation]
           t   == garbageCollect(s)
           lea == Mapped(new, Clean(g, s.learnts))
           cls == Mapped(new, Clean(g, s.clauses))
           wat == [l \in Lits |-> Mapped(new, CleanWatches(s)[l])]
           tra == [i \in DOMAIN s.trail |->
                     IF MovesReason(Watched(s), s, s.trail[i].reason)
                     THEN [s.trail[i] EXCEPT !.reason = m.ca.mem[s.trail[i].reason].relocation] ELSE s.trail[i]]
           occ == IF s.simp THEN [v \in Vars |-> Mapped(new, CleanOccurs(s)[v])] ELSE s.occurs
           que == IF s.simp THEN Mapped(new, Clean(g, s.queue)) ELSE s.queue
           tmp == IF s.simp THEN new[s.tmpunit] ELSE s.tmpunit
<1>1. /\ g \in RegionType /\ RegionOK(g) /\ TrailOK(g, s.trail) /\ SimpOK(s)
      /\ WatchOK(g, s.watches, s.dirty) /\ s \in StateType
      /\ s.trail \in Seq(EntryType) /\ s.learnts \in Seq(Nat) /\ s.clauses \in Seq(Nat)
      /\ s.queue \in Seq(Nat) /\ s.tmpunit \in Nat /\ s.simp \in BOOLEAN /\ s.occurs \in [Vars -> Seq(Nat)]
  BY DEF Core, StateType
<1>2. /\ Moving(g, m)
      /\ \A l \in Lits : ToSet(CleanWatches(s)[l]) \subseteq R
      /\ ToSet(Clean(g, s.learnts)) \subseteq R /\ ToSet(Clean(g, s.clauses)) \subseteq R
      /\ \A i \in DOMAIN s.trail :
            /\ MovesReason(Watched(s), s, s.trail[i].reason) <=> s.trail[i].reason # Undef
            /\ s.trail[i].reason # Undef => s.trail[i].reason \in R
      /\ s.simp => /\ \A v \in Vars : ToSet(CleanOccurs(s)[v]) \subseteq R
                   /\ ToSet(Clean(g, s.queue)) \subseteq R
                   /\ s.tmpunit \in R
  BY FinalIs
<1>3. t = [s EXCEPT !.ca = h, !.learnts = lea, !.clauses = cls, !.watches = wat, !.dirty = {},
                    !.trail = tra, !.occurs = occ, !.queue = que, !.tmpunit = tmp]
  <2>1. \A y : ToSet(y) \subseteq R => Moved(m, y) = Mapped(new, y)
    BY MovedIs
  <2> DEFINE wat2 == [l \in Lits |-> Moved(m, CleanWatches(s)[l])]
             occ2 == IF s.simp THEN [v \in Vars |-> Moved(m, CleanOccurs(s)[v])] ELSE s.occurs
             que2 == IF s.simp THEN Moved(m, Clean(g, s.queue)) ELSE s.queue
             tmp2 == IF s.simp THEN m.ca.mem[s.tmpunit].relocation ELSE s.tmpunit
             lea2 == Moved(m, Clean(g, s.learnts))
             cls2 == Moved(m, Clean(g, s.clauses))
  <2>2. t = [s EXCEPT !.ca = h, !.learnts = lea2, !.clauses = cls2, !.watches = wat2, !.dirty = {},
                      !.trail = tra, !.occurs = occ2, !.queue = que2, !.tmpunit = tmp2]
    BY DEF garbageCollect, Final, Watched, Start, WatchLists, KeptLists
  <2>3. lea2 = lea /\ cls2 = cls
    BY <1>2, <2>1
  <2>4. wat2 = wat
    BY <1>2, <2>1
  <2>5. occ2 = occ
    BY <1>2, <2>1
  <2>6. que2 = que
    BY <1>2, <2>1
  <2>7. tmp2 = tmp
    BY <1>2
  <2> HIDE DEF lea2, cls2, wat2, occ2, que2, tmp2, lea, cls, wat, occ, que, tmp, tra, t, m
  <2> QED BY <2>2, <2>3, <2>4, <2>5, <2>6, <2>7
<1>4. Image(g, h, R, new)
  BY <1>1, <1>2, MovingImage
<1>5. h \in RegionType /\ RegionOK(h) /\ h.wasted = 0 /\ h.cap <= g.cap
      /\ h.sz + Total(Left(m.ca), g.sz) <= g.sz - g.wasted
      /\ m.ca \in RegionType /\ m.ca.sz = g.sz
  BY <1>2 DEF Moving, MoveType
<1> HIDE DEF m, new
<1>6. /\ \A r \in R : new[r] \in Named(h) <=> r \in Named(g)
      /\ \A r \in R : new[r] \in Live(h) <=> r \in Live(g)
      /\ Live(h) = Named(h)
  BY <1>4, ImageLive
<1>7. /\ R \subseteq Remaining(g) /\ \A r \in R : new[r] \in DOMAIN h.mem
      /\ \A r \in R : h.mem[new[r]].id = g.mem[r].id /\ h.mem[new[r]].learnt = g.mem[r].learnt
      /\ \A q \in DOMAIN h.mem : ~ h.mem[q].removed /\ \E r \in R : new[r] = q
  BY <1>4 DEF Image
<1>8. DOMAIN h.mem \subseteq Nat
  BY <1>5, RegionFacts
<1>9. /\ Clean(g, s.learnts) \in Seq(Nat) /\ Single(Clean(g, s.learnts))
      /\ ToSet(Clean(g, s.learnts)) \subseteq ToSet(s.learnts)
      /\ Clean(g, s.clauses) \in Seq(Nat) /\ Single(Clean(g, s.clauses))
      /\ ToSet(Clean(g, s.clauses)) \subseteq ToSet(s.clauses)
      /\ ToSet(Clean(g, s.learnts)) \subseteq Live(g) /\ ToSet(Clean(g, s.clauses)) \subseteq Live(g)
      /\ s.simp => Clean(g, s.learnts) = <<>>
  <2>1. /\ Single(s.learnts) /\ Single(s.clauses) /\ (s.simp => s.learnts = <<>>)
        /\ ToSet(s.learnts) \subseteq Named(g) /\ ToSet(s.clauses) \subseteq Named(g)
    BY DEF ListsOK, Live
  <2>2. Named(g) \subseteq DOMAIN g.mem
    BY DEF Named
  <2>3. /\ Clean(g, s.learnts) \in Seq(Nat) /\ Single(Clean(g, s.learnts))
        /\ ToSet(Clean(g, s.learnts)) = ToSet(s.learnts) \cap Live(g)
        /\ s.learnts = <<>> => Clean(g, s.learnts) = <<>>
    BY <1>1, <2>1, <2>2, CleanIs
  <2>4. /\ Clean(g, s.clauses) \in Seq(Nat) /\ Single(Clean(g, s.clauses))
        /\ ToSet(Clean(g, s.clauses)) = ToSet(s.clauses) \cap Live(g)
    BY <1>1, <2>1, <2>2, CleanIs
  <2> QED BY <2>1, <2>3, <2>4
<1>10. MapsList(new, R, Clean(g, s.learnts), lea)
  BY <1>2, <1>4, <1>5, <1>9, MappedIs
<1>11. MapsList(new, R, Clean(g, s.clauses), cls)
  BY <1>2, <1>4, <1>5, <1>9, MappedIs
<1> HIDE DEF lea, cls
<1>12. wat \in [Lits -> Seq(Nat)] /\ WatchOK(h, wat, {})
  <2> DEFINE c == CleanWatches(s)
  <2>1. /\ c \in [Lits -> Seq(Nat)]
        /\ \A l \in Lits : ToSet(c[l]) = ToSet(s.watches[l]) \cap Live(g) /\ ToSet(c[l]) \subseteq R /\ Single(c[l])
    BY <1>2, CleanedIs
  <2> HIDE DEF c
  <2>2. WatchOK(h, [l \in Lits |-> Mapped(new, c[l])], {})
    <3>1. Cleans(g, R, Lits, s.watches, c) /\ AllSingle(Lits, c)
      BY <2>1 DEF Cleans, AllSingle
    <3> QED BY <1>1, <1>4, <1>5, <3>1, ImageWatches
  <2>3. ASSUME NEW l \in Lits PROVE Mapped(new, c[l]) \in Seq(Nat)
    <3>1. MapsList(new, R, c[l], Mapped(new, c[l]))
      BY <1>4, <1>5, <2>1, MappedIs
    <3> QED BY <3>1 DEF MapsList
  <2> QED BY <2>2, <2>3 DEF c
<1>13. /\ occ \in [Vars -> Seq(Nat)] /\ que \in Seq(Nat) /\ tmp \in Nat
       /\ s.simp => /\ OccursOK(h, occ) /\ ToSet(que) \subseteq DOMAIN h.mem
                    /\ tmp \in DOMAIN h.mem \ Named(h)
  <2>1. CASE ~ s.simp
    BY <1>1, <2>1
  <2>2. CASE s.simp
    <3> DEFINE c == CleanOccurs(s)
    <3>1. /\ c \in [Vars -> Seq(Nat)]
          /\ \A v \in Vars : ToSet(c[v]) = ToSet(s.occurs[v]) \cap Live(g) /\ ToSet(c[v]) \subseteq R
      BY <1>2, <2>2, CleanedIs
    <3>2. /\ OccursOK(g, s.occurs) /\ ToSet(s.queue) \subseteq DOMAIN g.mem
          /\ s.tmpunit \in DOMAIN g.mem \ Named(g)
      BY <1>1, <2>2 DEF SimpOK
    <3> HIDE DEF c
    <3>3. OccursOK(h, [v \in Vars |-> Mapped(new, c[v])])
      <4>1. Cleans(g, R, Vars, s.occurs, c)
        BY <3>1 DEF Cleans
      <4> QED BY <1>4, <1>5, <3>2, <4>1, ImageOccurs
    <3>4. ASSUME NEW v \in Vars PROVE Mapped(new, c[v]) \in Seq(Nat)
      <4>1. MapsList(new, R, c[v], Mapped(new, c[v]))
        BY <1>4, <1>5, <3>1, MappedIs
      <4> QED BY <4>1 DEF MapsList
    <3>5. occ \in [Vars -> Seq(Nat)] /\ OccursOK(h, occ)
      BY <2>2, <3>3, <3>4 DEF c
    <3>6. Clean(g, s.queue) \in Seq(Nat)
      BY <1>1, <3>2, CleanIs
    <3>7. MapsList(new, R, Clean(g, s.queue), que)
      BY <1>2, <1>4, <1>5, <2>2, <3>6, MappedIs
    <3>8. que \in Seq(Nat) /\ ToSet(que) \subseteq DOMAIN h.mem
      <4> HIDE DEF que
      <4>1. ASSUME NEW q \in ToSet(que) PROVE q \in DOMAIN h.mem
        <5>1. PICK r \in ToSet(Clean(g, s.queue)) : q = new[r]
          BY <3>7 DEF MapsList
        <5> QED BY <1>2, <1>7, <2>2, <5>1
      <4> QED BY <3>7, <4>1 DEF MapsList
    <3>9. tmp \in DOMAIN h.mem \ Named(h)
      BY <1>2, <1>6, <1>7, <2>2, <3>2
    <3>10. tmp \in Nat
      BY <1>8, <3>9
    <3> HIDE DEF occ, que, tmp
    <3> QED BY <2>2, <3>5, <3>8, <3>9, <3>10
  <2> QED BY <2>1, <2>2
<1>14. /\ DOMAIN tra = DOMAIN s.trail
       /\ \A i \in DOMAIN s.trail :
             /\ tra[i].lit = s.trail[i].lit /\ tra[i] \in EntryType
             /\ tra[i].reason = IF s.trail[i].reason = Undef THEN Undef ELSE new[s.trail[i].reason]
             /\ s.trail[i].reason # Undef => s.trail[i].reason \in R
  <2>1. ASSUME NEW i \in DOMAIN s.trail
        PROVE  /\ tra[i].lit = s.trail[i].lit /\ tra[i] \in EntryType
               /\ tra[i].reason = IF s.trail[i].reason = Undef THEN Undef ELSE new[s.trail[i].reason]
    <3> DEFINE e == s.trail[i]
    <3>1. e \in EntryType
      BY <1>1
    <3>2. CASE e.reason = Undef
      <4>1. tra[i] = e
        BY <1>2, <3>2
      <4> QED BY <3>1, <3>2, <4>1, Zenon
    <3>3. CASE e.reason # Undef
      <4>1. tra[i] = [e EXCEPT !.reason = m.ca.mem[e.reason].relocation] /\ e.reason \in R
        BY <1>2, <3>3
      <4>2. m.ca.mem[e.reason].relocation = new[e.reason] /\ new[e.reason] \in Nat
        BY <1>7, <1>8, <4>1, Zenon DEF new
      <4> HIDE DEF e
      <4>3. tra[i].reason = new[e.reason] /\ tra[i].lit = e.lit /\ tra[i] \in EntryType
        BY <3>1, <4>1, <4>2, Zenon DEF EntryType
      <4> QED BY <3>3, <4>3, Zenon DEF e
    <3> QED BY <3>2, <3>3, Zenon
  <2> QED BY <1>2, <2>1, Zenon
<1>15. TrailOK(h, tra)
  <2> HIDE DEF tra
  <2>1. TrailMoves(new, R, s.trail, tra)
    BY <1>14 DEF TrailMoves
  <2> QED BY <1>1, <1>4, <2>1, ImageTrail
<1>16. tra \in Seq(EntryType)
  <2>1. DOMAIN s.trail = 1 .. Len(s.trail) /\ Len(s.trail) \in Nat
    BY <1>1
  <2>2. tra \in [DOMAIN s.trail -> EntryType]
    <3>1. tra = [i \in DOMAIN s.trail |-> tra[i]]
      OBVIOUS
    <3> HIDE DEF tra
    <3> QED BY <1>14, <3>1
  <2> HIDE DEF tra
  <2> DEFINE n == Len(s.trail)
  <2>3. tra \in [1 .. n -> EntryType] /\ n \in Nat
    BY <2>1, <2>2
  <2> HIDE DEF n
  <2> QED BY <2>3
<1>22. TrailMoves(new, R, s.trail, tra)
  <2> HIDE DEF tra
  <2> QED BY <1>14 DEF TrailMoves
<1>23. /\ \A l \in Lits : wat[l] = Mapped(new, CleanWatches(s)[l])
       /\ s.simp => /\ \A v \in Vars : occ[v] = Mapped(new, Clean(g, s.occurs[v]))
                    /\ que = Mapped(new, Clean(g, s.queue)) /\ tmp = new[s.tmpunit]
  BY DEF CleanOccurs
<1>24. s.simp => \A v \in Vars : ToSet(Clean(g, s.occurs[v])) \subseteq R
  BY <1>2 DEF CleanOccurs
<1>25. lea = Mapped(new, Clean(g, s.learnts)) /\ cls = Mapped(new, Clean(g, s.clauses))
  BY DEF lea, cls
<1> HIDE DEF tra
<1> HIDE DEF wat, occ, que, tmp, t
<1>17. /\ t \in StateType /\ t.ca = h /\ t.learnts = lea /\ t.clauses = cls /\ t.watches = wat
       /\ t.dirty = {} /\ t.trail = tra /\ t.occurs = occ /\ t.queue = que /\ t.tmpunit = tmp
       /\ t.simp = s.simp
  <2>1. lea \in Seq(Nat) /\ cls \in Seq(Nat)
    BY <1>10, <1>11 DEF MapsList
  <2> QED BY <1>1, <1>3, <1>5, <1>12, <1>13, <1>16, <2>1, Zenon DEF StateType
<1>18. Core(t)
  <2>1. SimpOK(t)
    <3>1. s.simp => ~ h.mem[tmp].removed
      BY <1>7, <1>13
    <3> QED BY <1>13, <1>17, <3>1 DEF SimpOK
  <2> QED BY <1>5, <1>12, <1>15, <1>17, <2>1 DEF Core
<1>19. ListsOK(t) /\ ToSet(t.clauses) \subseteq Live(t.ca)
  <2>1. ASSUME NEW q \in ToSet(lea) PROVE q \in Live(h) /\ h.mem[q].learnt
    <3>1. PICK r \in ToSet(Clean(g, s.learnts)) : q = new[r]
      BY <1>10 DEF MapsList
    <3>2. r \in R /\ r \in Live(g) /\ g.mem[r].learnt
      BY <1>2, <1>9 DEF ListsOK
    <3> QED BY <1>6, <1>7, <3>1, <3>2
  <2>2. ASSUME NEW q \in ToSet(cls) PROVE q \in Live(h) /\ ~ h.mem[q].learnt
    <3>1. PICK r \in ToSet(Clean(g, s.clauses)) : q = new[r]
      BY <1>11 DEF MapsList
    <3>2. r \in R /\ r \in Live(g) /\ ~ g.mem[r].learnt
      BY <1>2, <1>9 DEF ListsOK
    <3> QED BY <1>6, <1>7, <3>1, <3>2
  <2>3. Single(lea) /\ Single(cls)
    BY <1>9, <1>10, <1>11 DEF MapsList
  <2>4. s.simp => lea = <<>>
    BY <1>9, <1>10 DEF MapsList
  <2> QED BY <1>6, <1>17, <2>1, <2>2, <2>3, <2>4 DEF ListsOK
<1>20. Valid(t)
  BY <1>18, <1>19 DEF Valid, Settled
<1>21. CopyOf(g, h)
  <2>1. h.sz <= g.sz - g.wasted
    <3>1. Total(Left(m.ca), g.sz) \in Nat
      BY <1>5, LeftType, TotalType
    <3>2. h.sz \in Nat /\ g.sz \in Nat /\ g.wasted \in Nat
      BY <1>1, <1>5 DEF RegionType
    <3> DEFINE x == Total(Left(m.ca), g.sz)
    <3>3. x \in Nat /\ h.sz + x <= g.sz - g.wasted
      BY <1>5, <3>1
    <3> HIDE DEF x, h
    <3> QED BY <3>2, <3>3
  <2>2. ASSUME NEW q \in DOMAIN h.mem PROVE \E r \in DOMAIN g.mem : g.mem[r].id = h.mem[q].id
    <3>1. PICK r \in R : new[r] = q
      BY <1>7
    <3>2. r \in DOMAIN g.mem /\ g.mem[r].id = h.mem[q].id
      BY <1>7, <3>1 DEF Remaining
    <3> QED BY <3>2
  <2> QED BY <1>5, <1>7, <2>1, <2>2 DEF CopyOf
<1>26. Relocated(s, t, R, new)
  BY <1>2, <1>4, <1>17, <1>22, <1>23, <1>24, <1>25 DEF Relocated
<1> HIDE DEF R, h, g
<1> QED BY <1>17, <1>20, <1>21, <1>26 DEF t, h, g

-----------------------------------------------------------------------------
(* What a copy of the region keeps.                                        *)

(* The number of a clause, and the numbers of those that are not removed.  *)
NumberOf(g, r) == IF r \in DOMAIN g.mem THEN g.mem[r].id ELSE Undef
NumbersOf(g, list, kept) == Without([i \in DOMAIN list |-> NumberOf(g, list[i])], Int \ kept)
KeptOf(g) == {g.mem[r].id : r \in Live(g)}

(* The state u is s, without some of the clauses that may go, and without  *)
(* some false literals.                                                    *)
MayGo(s, r) == \/ Satisfied(r)
               \/ s.ca.mem[r].learnt /\ Len(s.ca.mem[r].lits) > 2 /\ ~ Locked(s, r)
Leads(s, u) ==
    /\ DOMAIN u.ca.mem = DOMAIN s.ca.mem /\ Named(u.ca) = Named(s.ca) /\ Live(u.ca) \subseteq Live(s.ca)
    /\ \A r \in DOMAIN s.ca.mem : u.ca.mem[r].id = s.ca.mem[r].id /\ u.ca.mem[r].learnt = s.ca.mem[r].learnt
    /\ \A r \in Live(u.ca) : u.ca.mem[r].lits \in {s.ca.mem[r].lits, Without(s.ca.mem[r].lits, Falses)}
    /\ \A r \in Live(s.ca) \ Live(u.ca) : MayGo(s, r)
    /\ u.watches = s.watches /\ Loses(s.trail, u.trail, Live(u.ca))
    /\ u.simp => (s.simp /\ u.occurs = s.occurs /\ u.queue = s.queue /\ u.tmpunit = s.tmpunit)
    /\ \E gone : gone \cap Live(u.ca) = {} /\ u.learnts = Without(s.learnts, gone)
    /\ \E gone : gone \cap Live(u.ca) = {} /\ u.clauses = Without(s.clauses, gone)

(* The state t is s, but for where the clauses are.                        *)
SameNumbers(g, h, a, b) == NumbersOf(h, b, KeptOf(h)) = NumbersOf(g, a, KeptOf(h))
Keeps(s, t) ==
    /\ SameNumbers(s.ca, t.ca, s.learnts, t.learnts) /\ SameNumbers(s.ca, t.ca, s.clauses, t.clauses)
    /\ \A l \in Lits : SameNumbers(s.ca, t.ca, s.watches[l], t.watches[l])
    /\ DOMAIN t.trail = DOMAIN s.trail
    /\ \A i \in DOMAIN s.trail : SameNumbers(s.ca, t.ca, <<s.trail[i].reason>>, <<t.trail[i].reason>>)
    /\ t.simp => /\ \A v \in Vars : SameNumbers(s.ca, t.ca, s.occurs[v], t.occurs[v])
                 /\ SameNumbers(s.ca, t.ca, s.queue, t.queue)
                 /\ NumberOf(t.ca, t.tmpunit) = NumberOf(s.ca, s.tmpunit)
    /\ \A r \in Live(s.ca), q \in Live(t.ca) :
          t.ca.mem[q].id = s.ca.mem[r].id =>
            /\ t.ca.mem[q].learnt = s.ca.mem[r].learnt
            /\ t.ca.mem[q].lits \in {s.ca.mem[r].lits, Without(s.ca.mem[r].lits, Falses)}
    /\ \A r \in Live(s.ca) : s.ca.mem[r].id \in KeptOf(t.ca) \/ MayGo(s, r)

(* The numbers of a list, as what its elements stand for.                  *)
NumberTag(g) == [r \in Nat \cup {Undef} |-> NumberOf(g, r)]

LEMMA NumbersTagged ==
    ASSUME NEW g \in RegionType, NEW list \in Seq(Nat \cup {Undef}), NEW kept
    PROVE  /\ NumberTag(g) \in [Nat \cup {Undef} -> Int]
           /\ NumbersOf(g, list, kept) = Without(Tagged(NumberTag(g), list), Int \ kept)
<1>1. \A r : NumberOf(g, r) \in Int
  <2>1. \A r \in DOMAIN g.mem : g.mem[r].id \in Int
    BY RegionFacts DEF ClauseType
  <2> QED BY <2>1 DEF NumberOf, Undef
<1>2. \A i \in DOMAIN list : list[i] \in Nat \cup {Undef}
  OBVIOUS
<1>3. [i \in DOMAIN list |-> NumberOf(g, list[i])] = Tagged(NumberTag(g), list)
  BY <1>2 DEF Tagged, NumberTag
<1> QED BY <1>1, <1>3 DEF NumbersOf, NumberTag

(* Clauses that are not kept can be left out of a list.                    *)
LEMMA NumbersWithout ==
    ASSUME NEW g \in RegionType, NEW list \in Seq(Nat), NEW gone, NEW kept,
           \A r \in ToSet(list) : r \in gone => NumberOf(g, r) \notin kept
    PROVE  NumbersOf(g, Without(list, gone), kept) = NumbersOf(g, list, kept)
<1> DEFINE T == Nat \cup {Undef}
           tag == NumberTag(g)
           w == Without(list, gone)
<1>1. list \in Seq(T)
  OBVIOUS
<1>2. w \in Seq(T)
  BY <1>1, WithoutIs
<1> HIDE DEF w
<1>3. /\ tag \in [T -> Int] /\ NumbersOf(g, list, kept) = Without(Tagged(tag, list), Int \ kept)
      /\ NumbersOf(g, w, kept) = Without(Tagged(tag, w), Int \ kept)
  BY <1>1, <1>2, NumbersTagged
<1>4. \A r \in ToSet(list) : r \in gone => tag[r] \in Int \ kept
  <2>1. ASSUME NEW r \in ToSet(list), r \in gone PROVE tag[r] \in Int \ kept
    <3>1. r \in T
      BY DEF ToSet
    <3>2. tag[r] = NumberOf(g, r) /\ tag[r] \in Int
      BY <1>3, <3>1 DEF NumberTag
    <3> QED BY <2>1, <3>2
  <2> QED BY <2>1
<1> DEFINE away == Int \ kept
           U == Int
<1>6. CanTag(tag, list)
  BY <1>1, <1>3 DEF CanTag
<1>7. GoesToo(tag, list, gone, away)
  BY <1>4 DEF GoesToo
<1> HIDE DEF tag, T, away, U
<1>5. Without(Tagged(tag, Without(list, gone)), away) = Without(Tagged(tag, list), away)
  BY <1>6, <1>7, WithoutTagged
<1> QED BY <1>3, <1>5 DEF w, away

(* A clause that was removed has not the number of one that is copied.     *)
LEMMA NumberGone ==
    ASSUME NEW f, NumbersOK(f), NEW h, NEW R, NEW new, Image(f, h, R, new), NEW r, r \notin Live(f)
    PROVE  NumberOf(f, r) \notin KeptOf(h)
<1> SUFFICES ASSUME NumberOf(f, r) \in KeptOf(h) PROVE FALSE
  OBVIOUS
<1>1. PICK q \in Live(h) : h.mem[q].id = NumberOf(f, r)
  BY DEF KeptOf
<1>2. PICK x \in R \cap Live(f) : new[x] = q
  BY ImageLive
<1>3. f.mem[x].id = NumberOf(f, r) /\ x \in DOMAIN f.mem /\ f.mem[x].id > 0
  BY <1>1, <1>2 DEF Image, Live, Named
<1>4. r \in DOMAIN f.mem /\ f.mem[r].id = f.mem[x].id
  BY <1>3 DEF NumberOf, Undef
<1>5. r = x
  BY <1>3, <1>4 DEF NumbersOK
<1> QED BY <1>2, <1>5

(* A list has the same numbers when clauses have gone and others moved.    *)
LEMMA ListMoves ==
    ASSUME NEW g \in RegionType, NEW f \in RegionType, NEW h \in RegionType,
           DOMAIN f.mem = DOMAIN g.mem, \A r \in DOMAIN g.mem : f.mem[r].id = g.mem[r].id,
           NumbersOK(f), NEW R, NEW new, Image(f, h, R, new),
           NEW list \in Seq(Nat), NEW gone, gone \cap Live(f) = {},
           ToSet(Clean(f, Without(list, gone))) \subseteq R
    PROVE  SameNumbers(g, h, list, Mapped(new, Clean(f, Without(list, gone))))
<1> DEFINE K == KeptOf(h)
           v == Without(list, gone)
           away == {r \in DOMAIN f.mem : f.mem[r].removed}
           w == Without(v, away)
<1>1. \A r : r \notin Live(f) => NumberOf(f, r) \notin K
  BY NumberGone
<1>2. w = Clean(f, v) /\ ToSet(w) \subseteq R
  BY DEF Clean
<1>3. v \in Seq(Nat)
  BY WithoutIs
<1>4. away \cap Live(f) = {}
  BY DEF Live
<1> HIDE DEF K, away
<1>5. NumbersOf(f, v, K) = NumbersOf(f, list, K)
  BY <1>1, NumbersWithout
<1> HIDE DEF v
<1>6. NumbersOf(f, w, K) = NumbersOf(f, v, K)
  BY <1>1, <1>3, <1>4, NumbersWithout
<1>7. w \in Seq(Nat)
  BY <1>3, WithoutIs
<1> HIDE DEF w
<1>8. NumbersOf(h, Mapped(new, w), K) = NumbersOf(f, w, K)
  <2> DEFINE x == Mapped(new, w)
  <2>1. DOMAIN x = DOMAIN w /\ \A i \in DOMAIN w : x[i] = new[w[i]] /\ w[i] \in R
    BY <1>2 DEF Mapped, ToSet
  <2>2. \A r \in R : /\ new[r] \in DOMAIN h.mem /\ h.mem[new[r]].id = f.mem[r].id
                     /\ r \in DOMAIN f.mem
    BY DEF Image, Remaining
  <2> HIDE DEF x
  <2>3. \A i \in DOMAIN w : NumberOf(h, x[i]) = NumberOf(f, w[i])
    BY <2>1, <2>2 DEF NumberOf
  <2>4. [i \in DOMAIN x |-> NumberOf(h, x[i])] = [i \in DOMAIN w |-> NumberOf(f, w[i])]
    BY <2>1, <2>3
  <2> QED BY <2>4 DEF NumbersOf, x
<1>9. NumbersOf(g, list, K) = NumbersOf(f, list, K)
  <2>1. \A r : NumberOf(g, r) = NumberOf(f, r)
    BY DEF NumberOf
  <2> QED BY <2>1 DEF NumbersOf
<1>10. NumbersOf(h, Mapped(new, w), K) = NumbersOf(g, list, K)
  BY <1>5, <1>6, <1>8, <1>9
<1> QED BY <1>2, <1>10 DEF SameNumbers, K, v

(* The same for a list from which nothing has been taken out.              *)
LEMMA ListMovesWhole ==
    ASSUME NEW g \in RegionType, NEW f \in RegionType, NEW h \in RegionType,
           DOMAIN f.mem = DOMAIN g.mem, \A r \in DOMAIN g.mem : f.mem[r].id = g.mem[r].id,
           NumbersOK(f), NEW R, NEW new, Image(f, h, R, new),
           NEW list \in Seq(Nat), ToSet(Clean(f, list)) \subseteq R
    PROVE  SameNumbers(g, h, list, Mapped(new, Clean(f, list)))
<1>1. Without(list, {}) = list
  BY WithoutNothing
<1>2. {} \cap Live(f) = {} /\ ToSet(Clean(f, Without(list, {}))) \subseteq R
  BY <1>1
<1>3. SameNumbers(g, h, list, Mapped(new, Clean(f, Without(list, {}))))
  BY <1>2, ListMoves
<1> QED BY <1>1, <1>3

(* A reason that is not kept is no number of the view.                     *)
LEMMA NoNumber ==
    ASSUME NEW g, NEW r, NEW kept, NumberOf(g, r) \in Int \ kept
    PROVE  NumbersOf(g, <<r>>, kept) = <<>>
<1> DEFINE x == NumberOf(g, r)
           away == Int \ kept
           U == Int
<1>1. [i \in DOMAIN <<r>> |-> NumberOf(g, <<r>>[i])] = <<x>>
  OBVIOUS
<1>2. <<x>> = Append(<<>>, x)
  OBVIOUS
<1>3. x \in U /\ x \in away
  OBVIOUS
<1> HIDE DEF x, away, U
<1>4. <<>> \in Seq(U) /\ ToSet(<<>>) \cap away = {}
  BY DEF ToSet
<1>5. Without(Append(<<>>, x), away) = Without(<<>>, away)
  BY <1>3, <1>4, WithoutAppend
<1>6. Without(<<>>, away) = <<>>
  BY <1>4, WithoutNone
<1>7. NumbersOf(g, <<r>>, kept) = Without(<<x>>, away)
  BY <1>1 DEF NumbersOf, away
<1> QED BY <1>2, <1>5, <1>6, <1>7

(* A copy keeps all that is left.                                          *)
LEMMA KeepsIs ==
    ASSUME NEW s, Valid(s), NEW u, Core(u), Leads(s, u), NEW t, Valid(t), NEW R, NEW new, Relocated(u, t, R, new)
    PROVE  Keeps(s, t)
<1> DEFINE g == s.ca
           f == u.ca
           h == t.ca
           K == KeptOf(h)
<1>1. /\ g \in RegionType /\ f \in RegionType /\ h \in RegionType /\ RegionOK(g) /\ RegionOK(f) /\ RegionOK(h)
      /\ WatchOK(f, u.watches, u.dirty) /\ TrailOK(g, s.trail) /\ TrailOK(f, u.trail) /\ TrailOK(h, t.trail)
      /\ s.learnts \in Seq(Nat) /\ s.clauses \in Seq(Nat) /\ s.watches \in [Lits -> Seq(Nat)]
      /\ s.occurs \in [Vars -> Seq(Nat)] /\ s.queue \in Seq(Nat) /\ u.simp \in BOOLEAN
  BY DEF Valid, Core, StateType
<1>2. /\ DOMAIN f.mem = DOMAIN g.mem /\ Live(f) \subseteq Live(g)
      /\ \A r \in DOMAIN g.mem : f.mem[r].id = g.mem[r].id /\ f.mem[r].learnt = g.mem[r].learnt
      /\ \A r \in Live(f) : f.mem[r].lits \in {g.mem[r].lits, Without(g.mem[r].lits, Falses)}
      /\ \A r \in Live(g) \ Live(f) : MayGo(s, r)
      /\ u.watches = s.watches /\ Loses(s.trail, u.trail, Live(f))
      /\ u.simp => s.simp /\ u.occurs = s.occurs /\ u.queue = s.queue /\ u.tmpunit = s.tmpunit
  BY DEF Leads
<1>3. /\ Image(f, h, R, new) /\ TrailMoves(new, R, u.trail, t.trail) /\ t.simp = u.simp
      /\ t.learnts = Mapped(new, Clean(f, u.learnts)) /\ ToSet(Clean(f, u.learnts)) \subseteq R
      /\ t.clauses = Mapped(new, Clean(f, u.clauses)) /\ ToSet(Clean(f, u.clauses)) \subseteq R
      /\ \A l \in Lits : /\ t.watches[l] = Mapped(new, CleanWatches(u)[l])
                         /\ ToSet(CleanWatches(u)[l]) \subseteq R
      /\ u.simp => /\ \A v \in Vars : /\ t.occurs[v] = Mapped(new, Clean(f, u.occurs[v]))
                                      /\ ToSet(Clean(f, u.occurs[v])) \subseteq R
                   /\ t.queue = Mapped(new, Clean(f, u.queue)) /\ ToSet(Clean(f, u.queue)) \subseteq R
                   /\ t.tmpunit = new[u.tmpunit] /\ u.tmpunit \in R
  BY DEF Relocated
<1>4. \E gone : gone \cap Live(f) = {} /\ u.learnts = Without(s.learnts, gone)
  BY DEF Leads
<1>5. \E gone : gone \cap Live(f) = {} /\ u.clauses = Without(s.clauses, gone)
  BY DEF Leads
<1>6. NumbersOK(f) /\ \A r \in DOMAIN g.mem : f.mem[r].id = g.mem[r].id
  BY <1>1, <1>2 DEF RegionOK
<1>7. /\ \A r \in R : /\ new[r] \in DOMAIN h.mem /\ h.mem[new[r]].id = f.mem[r].id
                      /\ h.mem[new[r]].lits = f.mem[r].lits /\ h.mem[new[r]].learnt = f.mem[r].learnt
                      /\ r \in DOMAIN f.mem
  BY <1>3 DEF Image, Remaining
<1>8. \A r : NumberOf(f, r) = NumberOf(g, r)
  BY <1>2 DEF NumberOf
<1> HIDE DEF g, f, h, K
<1>9. SameNumbers(g, h, s.learnts, t.learnts)
  <2>1. PICK gone : gone \cap Live(f) = {} /\ u.learnts = Without(s.learnts, gone)
    BY <1>4
  <2>2. ToSet(Clean(f, Without(s.learnts, gone))) \subseteq R
    BY <1>3, <2>1
  <2>3. SameNumbers(g, h, s.learnts, Mapped(new, Clean(f, Without(s.learnts, gone))))
    BY <1>1, <1>2, <1>3, <1>6, <2>1, <2>2, ListMoves
  <2> QED BY <1>3, <2>1, <2>3
<1>10. SameNumbers(g, h, s.clauses, t.clauses)
  <2>1. PICK gone : gone \cap Live(f) = {} /\ u.clauses = Without(s.clauses, gone)
    BY <1>5
  <2>2. ToSet(Clean(f, Without(s.clauses, gone))) \subseteq R
    BY <1>3, <2>1
  <2>3. SameNumbers(g, h, s.clauses, Mapped(new, Clean(f, Without(s.clauses, gone))))
    BY <1>1, <1>2, <1>3, <1>6, <2>1, <2>2, ListMoves
  <2> QED BY <1>3, <2>1, <2>3
<1>11. ASSUME NEW list \in Seq(Nat), ToSet(Clean(f, list)) \subseteq R
       PROVE  SameNumbers(g, h, list, Mapped(new, Clean(f, list)))
  BY <1>1, <1>2, <1>3, <1>6, <1>11, ListMovesWhole
<1>12. ASSUME NEW l \in Lits PROVE SameNumbers(g, h, s.watches[l], t.watches[l])
  <2> DEFINE w == s.watches[l]
  <2>1. w \in Seq(Nat)
    BY <1>1
  <2>2. CleanWatches(u)[l] = IF l \in u.dirty THEN Clean(f, w) ELSE w
    BY <1>2 DEF CleanWatches, f
  <2>3. l \notin u.dirty => Clean(f, w) = w
    <3>1. ASSUME l \notin u.dirty PROVE ToSet(w) \cap {r \in DOMAIN f.mem : f.mem[r].removed} = {}
      <4>1. ToSet(w) \subseteq Live(f)
        BY <1>1, <1>2, <3>1 DEF WatchOK
      <4> QED BY <4>1 DEF Live
    <3> HIDE DEF w
    <3> QED BY <2>1, <3>1, WithoutNone DEF Clean
  <2>4. CleanWatches(u)[l] = Clean(f, w)
    BY <2>2, <2>3
  <2>5. t.watches[l] = Mapped(new, Clean(f, w)) /\ ToSet(Clean(f, w)) \subseteq R
    BY <1>3, <2>4
  <2> QED BY <1>11, <2>1, <2>5
<1>13. ASSUME t.simp
       PROVE  /\ \A v \in Vars : SameNumbers(g, h, s.occurs[v], t.occurs[v])
              /\ SameNumbers(g, h, s.queue, t.queue)
              /\ NumberOf(h, t.tmpunit) = NumberOf(g, s.tmpunit)
  <2>1. u.simp /\ u.occurs = s.occurs /\ u.queue = s.queue /\ u.tmpunit = s.tmpunit
    BY <1>2, <1>3, <1>13
  <2>2. ASSUME NEW v \in Vars PROVE SameNumbers(g, h, s.occurs[v], t.occurs[v])
    <3>1. s.occurs[v] \in Seq(Nat)
      BY <1>1
    <3>2. t.occurs[v] = Mapped(new, Clean(f, s.occurs[v])) /\ ToSet(Clean(f, s.occurs[v])) \subseteq R
      BY <1>3, <2>1
    <3> QED BY <1>11, <3>1, <3>2
  <2>3. SameNumbers(g, h, s.queue, t.queue)
    <3>1. t.queue = Mapped(new, Clean(f, s.queue)) /\ ToSet(Clean(f, s.queue)) \subseteq R
      BY <1>3, <2>1
    <3> QED BY <1>1, <1>11, <3>1
  <2>4. NumberOf(h, t.tmpunit) = NumberOf(g, s.tmpunit)
    <3>1. t.tmpunit = new[s.tmpunit] /\ s.tmpunit \in R
      BY <1>3, <2>1
    <3> QED BY <1>7, <1>8, <3>1 DEF NumberOf
  <2> QED BY <2>2, <2>3, <2>4
<1>14. DOMAIN t.trail = DOMAIN s.trail
  BY <1>2, <1>3 DEF Loses, TrailMoves
<1>15. ASSUME NEW i \in DOMAIN s.trail
       PROVE  SameNumbers(g, h, <<s.trail[i].reason>>, <<t.trail[i].reason>>)
  <2> DEFINE a == s.trail[i].reason
             b == u.trail[i].reason
             c == t.trail[i].reason
  <2>1. b = a \/ (b = Undef /\ a \notin Live(f))
    BY <1>2 DEF Loses
  <2>2. /\ c = IF b = Undef THEN Undef ELSE new[b]
        /\ b # Undef => b \in R
    BY <1>2, <1>3 DEF Loses, TrailMoves
  <2>3. Undef \notin DOMAIN f.mem /\ Undef \notin DOMAIN h.mem
    BY <1>1, RegionFacts DEF Undef
  <2> HIDE DEF a, b, c
  <2>4. CASE b # Undef
    <3>1. a \in R /\ c = new[a]
      BY <2>1, <2>2, <2>4
    <3>2. NumberOf(h, c) = NumberOf(g, a)
      BY <1>7, <1>8, <3>1 DEF NumberOf
    <3>3. [j \in DOMAIN <<c>> |-> NumberOf(h, <<c>>[j])] = [j \in DOMAIN <<a>> |-> NumberOf(g, <<a>>[j])]
      <4>1. DOMAIN <<c>> = {1} /\ DOMAIN <<a>> = {1} /\ <<c>>[1] = c /\ <<a>>[1] = a
        OBVIOUS
      <4> QED BY <3>2, <4>1
    <3> QED BY <3>3 DEF SameNumbers, NumbersOf, a, c
  <2>5. CASE b = Undef
    <3>1. c = Undef /\ a \notin Live(f)
      BY <2>1, <2>2, <2>3, <2>5 DEF Live, Named
    <3>2. NumberOf(f, a) \notin K /\ NumberOf(f, a) = NumberOf(g, a)
      BY <1>3, <1>6, <1>8, <3>1, NumberGone DEF K
    <3>3. NumberOf(h, c) = Undef /\ NumberOf(h, c) \notin K
      <4>1. NumberOf(h, c) = Undef
        BY <2>3, <3>1 DEF NumberOf
      <4>2. \A q \in Live(h) : h.mem[q].id > 0
        BY DEF Live, Named
      <4>3. Undef \notin K
        BY <4>2 DEF K, KeptOf, Undef
      <4> QED BY <4>1, <4>3
    <3>4. NumberOf(g, a) \in Int
      <4>1. \A r \in DOMAIN g.mem : g.mem[r].id \in Int
        BY <1>1, RegionFacts DEF ClauseType
      <4> QED BY <4>1 DEF NumberOf, Undef
    <3>5. NumbersOf(g, <<a>>, K) = <<>>
      BY <3>2, <3>4, NoNumber
    <3>6. NumbersOf(h, <<c>>, K) = <<>>
      <4>1. NumberOf(h, c) \in Int \ K
        BY <3>3 DEF Undef
      <4> QED BY <4>1, NoNumber
    <3> QED BY <3>5, <3>6 DEF SameNumbers, K, a, c
  <2> QED BY <2>4, <2>5
<1>16. ASSUME NEW r \in Live(g), NEW q \in Live(h), h.mem[q].id = g.mem[r].id
       PROVE  /\ h.mem[q].learnt = g.mem[r].learnt
              /\ h.mem[q].lits \in {g.mem[r].lits, Without(g.mem[r].lits, Falses)}
  <2>1. PICK x \in R \cap Live(f) : new[x] = q
    BY <1>3, ImageLive
  <2>2. /\ x \in DOMAIN f.mem /\ h.mem[q].id = f.mem[x].id /\ h.mem[q].lits = f.mem[x].lits
        /\ h.mem[q].learnt = f.mem[x].learnt
    BY <1>7, <2>1
  <2>3. r \in DOMAIN f.mem /\ f.mem[r].id = g.mem[r].id
    BY <1>2 DEF Live, Named
  <2>4. x = r
    BY <1>6, <1>16, <2>2, <2>3 DEF NumbersOK
  <2> QED BY <1>2, <2>1, <2>2, <2>3, <2>4
<1>17. ASSUME NEW r \in Live(g) PROVE g.mem[r].id \in K \/ MayGo(s, r)
  <2>1. CASE r \in Live(f)
    <3> DEFINE l == -f.mem[r].lits[1]
    <3>1. Proper(f.mem[r].lits)
      BY <1>1, <2>1 DEF RegionOK, ClausesOK
    <3>2. f.mem[r].lits[1] \in Lits
      BY <3>1 DEF Proper
    <3>3. l \in Lits /\ -l = f.mem[r].lits[1]
      BY <3>2, LitIs
    <3> HIDE DEF l
    <3>4. r \in ToSet(u.watches[l])
      BY <1>1, <2>1, <3>3 DEF WatchOK
    <3>5. r \in R
      <4>1. ToSet(CleanWatches(u)[l]) = ToSet(u.watches[l]) \cap Live(u.ca)
        BY <3>3, CleanedIs
      <4> QED BY <1>3, <2>1, <3>3, <3>4, <4>1 DEF f
    <3>6. new[r] \in Live(h) /\ h.mem[new[r]].id = g.mem[r].id
      <4>1. new[r] \in Live(h)
        BY <1>3, <2>1, <3>5, ImageLive
      <4> QED BY <1>2, <1>7, <3>5, <4>1
    <3> QED BY <3>6 DEF K, KeptOf
  <2>2. CASE r \notin Live(f)
    BY <1>2, <2>2
  <2> QED BY <2>1, <2>2
<1> QED BY <1>9, <1>10, <1>12, <1>13, <1>14, <1>15, <1>16, <1>17 DEF Keeps, g, h, K
(* What clauses removed and trimmed leave.                                 *)
LEMMA LeadsFollows ==
    ASSUME NEW s, Core(s), NEW t, Core(t), Follows(s, t), NEW u, Trims(t.ca, u.ca),
           u.watches = t.watches, u.occurs = t.occurs, u.queue = t.queue, u.tmpunit = t.tmpunit,
           u.trail = t.trail, u.simp = t.simp,
           \A r \in Live(s.ca) \ Live(t.ca) : MayGo(s, r),
           NEW out, out \cap Live(t.ca) = {}, u.learnts = Without(s.learnts, out),
           NEW gone, gone \cap Live(t.ca) = {}, u.clauses = Without(s.clauses, gone)
    PROVE  Leads(s, u)
<1>1. /\ DOMAIN u.ca.mem = DOMAIN t.ca.mem /\ Named(u.ca) = Named(t.ca) /\ Live(u.ca) = Live(t.ca)
      /\ \A r \in DOMAIN t.ca.mem : u.ca.mem[r].id = t.ca.mem[r].id /\ u.ca.mem[r].learnt = t.ca.mem[r].learnt
      /\ \A r \in Live(t.ca) : u.ca.mem[r].lits \in {t.ca.mem[r].lits, Without(t.ca.mem[r].lits, Falses)}
  BY DEF Trims
<1>2. /\ t.watches = s.watches /\ t.occurs = s.occurs /\ t.queue = s.queue /\ t.tmpunit = s.tmpunit
      /\ t.simp = s.simp
      /\ DOMAIN t.ca.mem = DOMAIN s.ca.mem /\ Named(t.ca) = Named(s.ca) /\ Live(t.ca) \subseteq Live(s.ca)
      /\ Loses(s.trail, t.trail, Live(t.ca))
  BY DEF Follows
<1>3. \A r \in DOMAIN s.ca.mem : /\ t.ca.mem[r].id = s.ca.mem[r].id
                                 /\ t.ca.mem[r].lits = s.ca.mem[r].lits
                                 /\ t.ca.mem[r].learnt = s.ca.mem[r].learnt
  BY DEF Follows
<1>4. \A r \in Live(u.ca) : u.ca.mem[r].lits \in {s.ca.mem[r].lits, Without(s.ca.mem[r].lits, Falses)}
  <2>1. \A r \in Live(t.ca) : r \in DOMAIN s.ca.mem
    BY <1>2 DEF Live, Named
  <2> QED BY <1>1, <1>3, <2>1
<1>5. \A r \in DOMAIN s.ca.mem : u.ca.mem[r].id = s.ca.mem[r].id /\ u.ca.mem[r].learnt = s.ca.mem[r].learnt
  BY <1>1, <1>2, <1>3
<1>6. \E x : x \cap Live(u.ca) = {} /\ u.learnts = Without(s.learnts, x)
  BY <1>1
<1>7. \E x : x \cap Live(u.ca) = {} /\ u.clauses = Without(s.clauses, x)
  BY <1>1
<1> QED BY <1>1, <1>2, <1>4, <1>5, <1>6, <1>7 DEF Leads

-----------------------------------------------------------------------------
(* The invariant is inductive.                                             *)

LEMMA StateIs ==
    Valid(State) => /\ ca \in RegionType /\ RegionOK(ca) /\ WatchOK(ca, watches, dirty)
                    /\ TrailOK(ca, trail) /\ SimpOK(State) /\ ListsOK(State) /\ Settled(State)
                    /\ clauses \in Seq(Nat) /\ learnts \in Seq(Nat) /\ watches \in [Lits -> Seq(Nat)]
                    /\ dirty \subseteq Lits /\ occurs \in [Vars -> Seq(Nat)]
                    /\ subsumption_queue \in Seq(Nat) /\ bwdsub_tmpunit \in Nat
                    /\ trail \in Seq(EntryType) /\ use_simplification \in BOOLEAN
                    /\ State \in StateType
<1> SUFFICES ASSUME Valid(State)
             PROVE  /\ ca \in RegionType /\ RegionOK(ca) /\ WatchOK(ca, watches, dirty)
                    /\ TrailOK(ca, trail) /\ SimpOK(State) /\ ListsOK(State) /\ Settled(State)
                    /\ clauses \in Seq(Nat) /\ learnts \in Seq(Nat) /\ watches \in [Lits -> Seq(Nat)]
                    /\ dirty \subseteq Lits /\ occurs \in [Vars -> Seq(Nat)]
                    /\ subsumption_queue \in Seq(Nat) /\ bwdsub_tmpunit \in Nat
                    /\ trail \in Seq(EntryType) /\ use_simplification \in BOOLEAN
                    /\ State \in StateType
  OBVIOUS
<1>1. Core(State) /\ ListsOK(State) /\ Settled(State) /\ State \in StateType
  BY DEF Valid, Core
<1>2. /\ ca \in RegionType /\ clauses \in Seq(Nat) /\ learnts \in Seq(Nat)
      /\ watches \in [Lits -> Seq(Nat)]
      /\ dirty \subseteq Lits /\ occurs \in [Vars -> Seq(Nat)]
      /\ subsumption_queue \in Seq(Nat) /\ bwdsub_tmpunit \in Nat
      /\ trail \in Seq(EntryType) /\ use_simplification \in BOOLEAN
  BY <1>1 DEF StateType, State
<1>3. RegionOK(ca) /\ WatchOK(ca, watches, dirty) /\ TrailOK(ca, trail) /\ SimpOK(State)
  BY <1>1 DEF Core, State
<1> QED BY <1>1, <1>2, <1>3

LEMMA BecomesIs ==
    ASSUME NEW s \in StateType, Becomes(s)
    PROVE  State' = s
BY DEF State, Becomes, StateType

LEMMA CheckIs ==
    ASSUME NEW s, Valid(s), NEW n
    PROVE  /\ Valid(checkGarbage(s, n))
           /\ \/ checkGarbage(s, n) = s
              \/ /\ CopyOf(s.ca, checkGarbage(s, n).ca)
                 /\ \E R, new : Relocated(s, checkGarbage(s, n), R, new)
<1>1. CASE n * s.ca.wasted > s.ca.sz
  <2>1. checkGarbage(s, n) = garbageCollect(s)
    BY <1>1 DEF checkGarbage
  <2>2. Core(s) /\ ListsOK(s)
    BY DEF Valid
  <2> QED BY <2>1, <2>2, CollectIs
<1>2. CASE ~ (n * s.ca.wasted > s.ca.sz)
  BY <1>2 DEF checkGarbage
<1> QED BY <1>1, <1>2

(* A region of the same size, with the clauses of another; and a state that *)
(* may come after another: its region is not smaller, or a copy, and has no *)
(* new clauses.                                                             *)
SameRoom(g, h) ==
    /\ h.sz = g.sz /\ h.cap = g.cap /\ h.wasted >= g.wasted
    /\ DOMAIN h.mem = DOMAIN g.mem /\ \A r \in DOMAIN g.mem : h.mem[r].id = g.mem[r].id
Continues(s, t) ==
    /\ Valid(t)
    /\ t.ca.sz >= s.ca.sz \/ (CopyOf(s.ca, t.ca) /\ Keeps(s, t))
    /\ \A q \in DOMAIN t.ca.mem : \E r \in DOMAIN s.ca.mem : s.ca.mem[r].id = t.ca.mem[q].id

LEMMA RoomContinues ==
    ASSUME NEW s, Valid(s), NEW t, Valid(t), SameRoom(s.ca, t.ca)
    PROVE  Continues(s, t)
<1>1. s.ca.sz \in Nat /\ t.ca.sz = s.ca.sz
  BY DEF Valid, Core, StateType, RegionType, SameRoom
<1>2. t.ca.sz >= s.ca.sz
  BY <1>1
<1> QED BY <1>2 DEF Continues, SameRoom

LEMMA CheckContinues ==
    ASSUME NEW s, Valid(s), NEW u, Valid(u), SameRoom(s.ca, u.ca), Leads(s, u), NEW n
    PROVE  Continues(s, checkGarbage(u, n))
<1> DEFINE t == checkGarbage(u, n)
           Copies == CopyOf(u.ca, t.ca) /\ \E R, new : Relocated(u, t, R, new)
<1>1. Valid(t) /\ (t = u \/ Copies)
  BY CheckIs
<1>2. CASE t = u
  <2>1. Continues(s, u)
    BY RoomContinues
  <2> QED BY <1>2, <2>1
<1>3. CASE Copies
  <2>7. Keeps(s, t)
    <3>1. PICK R, new : Relocated(u, t, R, new)
      BY <1>3
    <3>2. Core(u)
      BY DEF Valid
    <3> HIDE DEF t
    <3> QED BY <1>1, <3>1, <3>2, KeepsIs
  <2>1. /\ s.ca.sz \in Nat /\ s.ca.wasted \in Nat /\ u.ca.wasted \in Nat /\ s.ca.cap \in Int
        /\ t.ca.sz \in Nat
    BY <1>1 DEF Valid, Core, StateType, RegionType
  <2>2. t.ca.wasted = 0 /\ t.ca.cap <= u.ca.cap /\ t.ca.sz <= u.ca.sz - u.ca.wasted
    BY <1>3 DEF CopyOf
  <2>3. u.ca.sz = s.ca.sz /\ u.ca.cap = s.ca.cap /\ u.ca.wasted >= s.ca.wasted
    BY DEF SameRoom
  <2> HIDE DEF t
  <2>4. t.ca.cap <= s.ca.cap /\ t.ca.sz <= s.ca.sz - s.ca.wasted
    BY <2>1, <2>2, <2>3
  <2>5. \A q \in DOMAIN t.ca.mem :
           ~ t.ca.mem[q].removed /\ \E r \in DOMAIN s.ca.mem : s.ca.mem[r].id = t.ca.mem[q].id
    <3> SUFFICES ASSUME NEW q \in DOMAIN t.ca.mem
                 PROVE  ~ t.ca.mem[q].removed /\ \E r \in DOMAIN s.ca.mem : s.ca.mem[r].id = t.ca.mem[q].id
      OBVIOUS
    <3>1. ~ t.ca.mem[q].removed /\ \E r \in DOMAIN u.ca.mem : u.ca.mem[r].id = t.ca.mem[q].id
      BY <1>3 DEF CopyOf
    <3> QED BY <3>1 DEF SameRoom
  <2>6. CopyOf(s.ca, t.ca)
    BY <2>2, <2>4, <2>5 DEF CopyOf
  <2> QED BY <1>1, <2>5, <2>6, <2>7 DEF Continues, t
<1> QED BY <1>1, <1>2, <1>3

LEMMA FollowsRoom ==
    ASSUME NEW s, NEW t, Follows(s, t)
    PROVE  SameRoom(s.ca, t.ca)
BY DEF Follows, SameRoom

LEMMA TrimsRoom ==
    ASSUME NEW g \in RegionType, NEW h, Trims(g, h)
    PROVE  SameRoom(g, h)
<1>1. g.wasted \in Nat
  BY DEF RegionType
<1> QED BY <1>1 DEF Trims, SameRoom

LEMMA RoomTwice ==
    ASSUME NEW g \in RegionType, NEW h \in RegionType, NEW k \in RegionType, SameRoom(g, h), SameRoom(h, k)
    PROVE  SameRoom(g, k)
<1>1. g.wasted \in Nat /\ h.wasted \in Nat /\ k.wasted \in Nat
  BY DEF RegionType
<1>2. k.wasted >= g.wasted
  BY <1>1 DEF SameRoom
<1> QED BY <1>2 DEF SameRoom

(* A literal becomes true, and those that were true are true no more.      *)
Entry(l, r) == [lit |-> l, reason |-> r]

LEMMA TrailAppend ==
    ASSUME NEW g, NEW t \in Seq(EntryType), TrailOK(g, t), NEW l \in Lits, NEW r \in Nat \cup {Undef},
           \A i \in DOMAIN t : t[i].lit # -l,
           r # Undef => r \in Live(g) /\ g.mem[r].lits[1] = l
    PROVE  TrailOK(g, Append(t, Entry(l, r))) /\ Append(t, Entry(l, r)) \in Seq(EntryType)
<1> DEFINE e == Entry(l, r)
           u == Append(t, e)
           n == Len(t)
<1>1. e \in EntryType /\ e.lit = l /\ e.reason = r
  BY DEF EntryType, Entry
<1>2. n \in Nat /\ DOMAIN t = 1 .. n /\ u \in Seq(EntryType) /\ DOMAIN u = 1 .. n + 1
      /\ u[n + 1] = e /\ \A i \in 1 .. n : u[i] = t[i]
  BY <1>1
<1> HIDE DEF u, n, e
<1>3. ASSUME NEW i \in DOMAIN u, NEW j \in DOMAIN u PROVE u[i].lit # -u[j].lit
  <2>1. i \in 1 .. n \/ i = n + 1
    BY <1>2
  <2>2. j \in 1 .. n \/ j = n + 1
    BY <1>2
  <2>3. \A k \in 1 .. n : t[k].lit \in Lits /\ t[k].lit # -l /\ -t[k].lit # l
    <3>1. ASSUME NEW k \in 1 .. n PROVE t[k].lit \in Lits /\ t[k].lit # -l /\ -t[k].lit # l
      <4>0. t[k] \in EntryType
        BY <1>2, <3>1
      <4>1. t[k].lit \in Lits /\ t[k].lit # -l
        BY <1>2, <3>1, <4>0 DEF EntryType
      <4>2. -(-t[k].lit) = t[k].lit
        BY <4>1, LitIs
      <4> QED BY <4>1, <4>2
    <3> QED BY <3>1
  <2>4. l # -l
    BY LitIs
  <2>5. CASE i \in 1 .. n /\ j \in 1 .. n
    BY <1>2, <2>5 DEF TrailOK
  <2>6. CASE i \in 1 .. n /\ j = n + 1
    BY <1>1, <1>2, <2>3, <2>6
  <2>7. CASE i = n + 1 /\ j \in 1 .. n
    BY <1>1, <1>2, <2>3, <2>7
  <2>8. CASE i = n + 1 /\ j = n + 1
    BY <1>1, <1>2, <2>4, <2>8
  <2> QED BY <2>1, <2>2, <2>5, <2>6, <2>7, <2>8
<1>4. ASSUME NEW i \in DOMAIN u, u[i].reason # Undef
      PROVE  u[i].reason \in Live(g) /\ g.mem[u[i].reason].lits[1] = u[i].lit
  <2>1. i \in 1 .. n \/ i = n + 1
    BY <1>2
  <2>2. CASE i \in 1 .. n
    BY <1>2, <1>4, <2>2 DEF TrailOK
  <2>3. CASE i = n + 1
    BY <1>1, <1>2, <1>4, <2>3
  <2> QED BY <2>1, <2>2, <2>3
<1> QED BY <1>2, <1>3, <1>4 DEF TrailOK, u, e

LEMMA TrailCut ==
    ASSUME NEW g, NEW t \in Seq(EntryType), TrailOK(g, t), NEW n \in 0 .. Len(t)
    PROVE  TrailOK(g, SubSeq(t, 1, n)) /\ SubSeq(t, 1, n) \in Seq(EntryType)
<1> DEFINE u == SubSeq(t, 1, n)
<1>1. u \in Seq(EntryType) /\ DOMAIN u \subseteq DOMAIN t /\ \A i \in DOMAIN u : u[i] = t[i]
  OBVIOUS
<1> HIDE DEF u
<1>2. TrailOK(g, u)
  BY <1>1 DEF TrailOK
<1> QED BY <1>1, <1>2 DEF u

LEMMA ValidTrail ==
    ASSUME NEW s, Valid(s), NEW u \in Seq(EntryType), TrailOK(s.ca, u)
    PROVE  Valid([s EXCEPT !.trail = u])
<1> DEFINE t == [s EXCEPT !.trail = u]
<1>1. Core(s) /\ ListsOK(s) /\ Settled(s) /\ s \in StateType
  BY DEF Valid, Core
<1>2. /\ t \in StateType /\ t.trail = u /\ t.ca = s.ca /\ t.watches = s.watches /\ t.dirty = s.dirty
      /\ t.simp = s.simp /\ t.occurs = s.occurs /\ t.queue = s.queue /\ t.tmpunit = s.tmpunit
      /\ t.learnts = s.learnts /\ t.clauses = s.clauses
  BY <1>1 DEF StateType
<1> HIDE DEF t
<1>3. Core(t)
  BY <1>1, <1>2 DEF Core, SimpOK
<1>4. ListsOK(t) /\ Settled(t)
  BY <1>1, <1>2 DEF ListsOK, Settled
<1>5. Valid(t)
  BY <1>3, <1>4 DEF Valid
<1> QED BY <1>5 DEF t

LEMMA SameRegion ==
    ASSUME NEW s, Valid(s), NEW t, Valid(t), t.ca = s.ca
    PROVE  Continues(s, t)
<1>1. s.ca.wasted \in Nat
  BY DEF Valid, Core, StateType, RegionType
<1> QED BY <1>1, RoomContinues DEF SameRoom

(* What steps do.                                                          *)
LEMMA EnqueueContinues ==
    Valid(State) /\ enqueue => Continues(State, State')
<1> SUFFICES ASSUME Valid(State), enqueue PROVE Continues(State, State')
  OBVIOUS
<1>1. PICK l \in Decided : ~ IsTrue(l) /\ ~ IsFalse(l) /\ trail' = Because(l, Undef)
  BY DEF enqueue
<1>2. l \in Lits
  BY ClauseMemoryAssumption
<1>3. \A i \in DOMAIN trail : trail[i].lit # -l
  BY <1>1 DEF IsFalse, IsTrue
<1>4. trail' = Append(trail, Entry(l, Undef))
  BY <1>1 DEF Because, Entry
<1>5. TrailOK(ca, trail') /\ trail' \in Seq(EntryType)
  <2>1. TrailOK(ca, trail) /\ trail \in Seq(EntryType)
    BY StateIs
  <2> QED BY <1>2, <1>3, <1>4, <2>1, TrailAppend
<1>6. State' = [State EXCEPT !.trail = trail']
  BY DEF State, enqueue
<1>7. State.ca = ca /\ State'.ca = ca
  BY <1>6 DEF State
<1>8. Valid(State')
  BY <1>5, <1>6, <1>7, ValidTrail
<1> QED BY <1>7, <1>8, SameRegion

LEMMA CancelContinues ==
    Valid(State) /\ cancelUntil => Continues(State, State')
<1> SUFFICES ASSUME Valid(State), cancelUntil PROVE Continues(State, State')
  OBVIOUS
<1>1. PICK n \in 0 .. Len(trail) - 1 : trail' = SubSeq(trail, 1, n)
  BY DEF cancelUntil
<1>2. TrailOK(ca, trail) /\ trail \in Seq(EntryType)
  BY StateIs
<1>3. n \in 0 .. Len(trail)
  BY <1>2
<1>4. TrailOK(ca, trail') /\ trail' \in Seq(EntryType)
  BY <1>1, <1>2, <1>3, TrailCut
<1>5. State' = [State EXCEPT !.trail = trail']
  <2>1. UNCHANGED <<ca, clauses, learnts, watches, dirty, occurs, subsumption_queue,
                    bwdsub_tmpunit, use_simplification>>
    BY DEF cancelUntil
  <2> QED BY <2>1 DEF State
<1>6. State.ca = ca /\ State'.ca = ca
  BY <1>5 DEF State
<1>7. Valid(State')
  BY <1>4, <1>5, <1>6, ValidTrail
<1> QED BY <1>6, <1>7, SameRegion

LEMMA DequeueContinues ==
    Valid(State) /\ dequeue => Continues(State, State')
<1> SUFFICES ASSUME Valid(State), dequeue PROVE Continues(State, State')
  OBVIOUS
<1> DEFINE q == Tail(subsumption_queue)
<1>1. subsumption_queue \in Seq(Nat) /\ subsumption_queue # <<>>
  BY StateIs DEF dequeue
<1>2. q \in Seq(Nat) /\ ToSet(q) \subseteq ToSet(subsumption_queue)
  <2>1. /\ q \in Seq(Nat) /\ Len(q) = Len(subsumption_queue) - 1
        /\ \A i \in 1 .. Len(q) : q[i] = subsumption_queue[i + 1] /\ i + 1 \in DOMAIN subsumption_queue
    BY <1>1
  <2> HIDE DEF q
  <2>2. ASSUME NEW x \in ToSet(q) PROVE x \in ToSet(subsumption_queue)
    <3>1. PICK i \in 1 .. Len(q) : x = q[i]
      BY <2>1 DEF ToSet
    <3> QED BY <2>1, <3>1 DEF ToSet
  <2> QED BY <2>1, <2>2
<1>3. /\ UNCHANGED <<ca, clauses, learnts, watches, dirty, occurs, bwdsub_tmpunit, trail,
                     use_simplification>>
      /\ subsumption_queue' = q
  BY DEF dequeue
<1> HIDE DEF q
<1> DEFINE t == State'
<1>4. t = [State EXCEPT !.queue = q]
  BY <1>3 DEF State
<1>5. Core(State) /\ ListsOK(State) /\ Settled(State) /\ State \in StateType
  BY DEF Valid, Core
<1>6. /\ t \in StateType /\ t.trail = State.trail /\ t.ca = State.ca /\ t.watches = State.watches
      /\ t.dirty = State.dirty /\ t.queue = q
      /\ t.simp = State.simp /\ t.occurs = State.occurs /\ t.tmpunit = State.tmpunit
      /\ t.learnts = State.learnts /\ t.clauses = State.clauses /\ State.queue = subsumption_queue
  <2>1. t \in StateType
    BY <1>2, <1>4, <1>5 DEF StateType
  <2> QED BY <1>4, <2>1 DEF State
<1> HIDE DEF t
<1>7. SimpOK(t)
  <2>1. State.simp => /\ OccursOK(t.ca, t.occurs) /\ ToSet(q) \subseteq DOMAIN t.ca.mem
                      /\ t.tmpunit \in DOMAIN t.ca.mem \ Named(t.ca) /\ ~ t.ca.mem[t.tmpunit].removed
    BY <1>2, <1>5, <1>6 DEF Core, SimpOK
  <2> QED BY <1>6, <2>1 DEF SimpOK
<1>8. Core(t)
  BY <1>5, <1>6, <1>7 DEF Core
<1>9. ListsOK(t) /\ Settled(t)
  BY <1>5, <1>6 DEF ListsOK, Settled
<1>10. Valid(t)
  BY <1>8, <1>9 DEF Valid
<1>11. Continues(State, t)
  BY <1>6, <1>10, SameRegion
<1> QED BY <1>11 DEF t

LEMMA LookupContinues ==
    Valid(State) /\ lookup => Continues(State, State')
<1> SUFFICES ASSUME Valid(State), lookup PROVE Continues(State, State')
  OBVIOUS
<1>1. PICK l \in dirty : watches' = [watches EXCEPT ![l] = Clean(ca, @)] /\ dirty' = dirty \ {l}
  BY DEF lookup
<1>2. UNCHANGED <<ca, clauses, learnts, occurs, subsumption_queue, bwdsub_tmpunit, trail,
                  use_simplification>>
  BY DEF lookup
<1>3. /\ ca \in RegionType /\ WatchOK(ca, watches, dirty) /\ watches \in [Lits -> Seq(Nat)]
      /\ dirty \subseteq Lits
  BY StateIs
<1> DEFINE c == Clean(ca, watches[l])
<1>4. l \in Lits /\ watches[l] \in Seq(Nat) /\ ToSet(watches[l]) \subseteq Named(ca)
  BY <1>1, <1>3 DEF WatchOK
<1>5. c \in Seq(Nat) /\ ToSet(c) = ToSet(watches[l]) \cap Live(ca)
  <2>1. ToSet(watches[l]) \subseteq DOMAIN ca.mem
    BY <1>4 DEF Named
  <2> QED BY <1>3, <1>4, <2>1, CleanIs
<1>6. Once(c, Live(ca))
  <2>1. Once(watches[l], Live(ca))
    BY <1>3, <1>4 DEF WatchOK, Once
  <2> QED BY <1>4, <2>1, OnceWithout DEF Clean
<1> HIDE DEF c
<1>7. watches' \in [Lits -> Seq(Nat)] /\ watches'[l] = c /\ \A k \in Lits : k # l => watches'[k] = watches[k]
  BY <1>1, <1>3, <1>4, <1>5 DEF c
<1>8. WatchOK(ca, watches', dirty')
  <2> SUFFICES ASSUME NEW k \in Lits
               PROVE  /\ ToSet(watches'[k]) \subseteq Named(ca)
                      /\ \A r \in Live(ca) : r \in ToSet(watches'[k]) <=> -k \in {ca.mem[r].lits[1], ca.mem[r].lits[2]}
                      /\ \A i, j \in DOMAIN watches'[k] :
                            watches'[k][i] = watches'[k][j] /\ watches'[k][i] \in Live(ca) => i = j
                      /\ k \notin dirty' => ToSet(watches'[k]) \subseteq Live(ca)
    BY DEF WatchOK
  <2>1. CASE k = l
    <3>1. \A r \in Live(ca) : r \in ToSet(watches[l]) <=> -l \in {ca.mem[r].lits[1], ca.mem[r].lits[2]}
      BY <1>3, <1>4 DEF WatchOK
    <3> QED BY <1>4, <1>5, <1>6, <1>7, <2>1, <3>1 DEF Once
  <2>2. CASE k # l
    <3>1. watches'[k] = watches[k] /\ (k \notin dirty' => k \notin dirty)
      BY <1>1, <1>7, <2>2
    <3> QED BY <1>3, <3>1 DEF WatchOK
  <2> QED BY <2>1, <2>2
<1> DEFINE t == State'
<1>9. t = [ca |-> ca, clauses |-> clauses, learnts |-> learnts, watches |-> watches', dirty |-> dirty',
           occurs |-> occurs, queue |-> subsumption_queue, tmpunit |-> bwdsub_tmpunit,
           trail |-> trail, simp |-> use_simplification]
  BY <1>2 DEF State
<1>10. Core(State) /\ ListsOK(State) /\ Settled(State) /\ State \in StateType
  BY DEF Valid, Core
<1>11. /\ t \in StateType /\ t.trail = State.trail /\ t.ca = ca /\ t.watches = watches'
       /\ t.dirty = dirty' /\ t.queue = State.queue
       /\ t.simp = State.simp /\ t.occurs = State.occurs /\ t.tmpunit = State.tmpunit
       /\ t.learnts = State.learnts /\ t.clauses = State.clauses /\ State.ca = ca
  <2>1. dirty' \subseteq Lits
    BY <1>1, <1>3
  <2>2. t \in StateType
    <3>1. State \in StateType
      BY <1>10
    <3>2. /\ ca \in RegionType /\ clauses \in Seq(Nat) /\ learnts \in Seq(Nat)
          /\ occurs \in [Vars -> Seq(Nat)]
          /\ subsumption_queue \in Seq(Nat) /\ bwdsub_tmpunit \in Nat
          /\ trail \in Seq(EntryType) /\ use_simplification \in BOOLEAN
      BY StateIs
    <3> HIDE DEF t
    <3> QED BY <1>7, <1>9, <2>1, <3>2 DEF StateType
  <2> HIDE DEF t
  <2> QED BY <1>9, <2>2 DEF State
<1> HIDE DEF t
<1>12. Core(t)
  BY <1>8, <1>10, <1>11 DEF Core, SimpOK
<1>13. ListsOK(t) /\ Settled(t)
  BY <1>10, <1>11 DEF ListsOK, Settled
<1>14. Valid(t)
  BY <1>12, <1>13 DEF Valid
<1>15. Continues(State, t)
  BY <1>11, <1>14, SameRegion
<1> QED BY <1>15 DEF t

(* The same literals in another order.                                     *)
Permutes(p, q, D) == /\ p \in [D -> D] /\ q \in [D -> D]
                     /\ \A m \in D : p[q[m]] = m /\ q[p[m]] = m
Reordered(c, new) ==
    Proper(new) /\ new \in Seq(Int) /\ Len(new) = Len(c) /\ VarsOf(new) = VarsOf(c)

LEMMA Permuted ==
    ASSUME NEW c, Proper(c), NEW p, NEW q, Permutes(p, q, DOMAIN c),
           NEW new \in [DOMAIN c -> Lits], \A m \in DOMAIN c : new[m] = c[p[m]]
    PROVE  Reordered(c, new)
<1> DEFINE n == Len(c)
<1>1. c \in Seq(Lits) /\ n > 1 /\ n \in Nat /\ DOMAIN c = 1 .. n
      /\ \A a, b \in DOMAIN c : a # b => Var(c[a]) # Var(c[b])
  BY DEF Proper
<1> HIDE DEF n
<1>2. new \in [1 .. n -> Lits]
  BY <1>1
<1>3. new \in Seq(Lits) /\ Len(new) = n
  BY <1>1, <1>2
<1>4. (\A a, b \in DOMAIN c : a # b => p[a] # p[b]) /\ \A a \in DOMAIN c : p[a] \in DOMAIN c
  BY DEF Permutes
<1>5. \A a, b \in DOMAIN new : a # b => Var(new[a]) # Var(new[b])
  BY <1>1, <1>4
<1>6. new \in Seq(Int)
  <2>1. \A l \in Lits : l \in Int
    BY LitIs
  <2>2. new \in [1 .. n -> Int]
    BY <1>2, <2>1
  <2> QED BY <1>1, <2>2
<1>7. VarsOf(new) = VarsOf(c)
  <2>1. ASSUME NEW v \in VarsOf(new) PROVE v \in VarsOf(c)
    <3>1. PICK m \in DOMAIN c : v = Var(new[m])
      BY DEF VarsOf
    <3>2. p[m] \in DOMAIN c /\ new[m] = c[p[m]]
      BY <1>4
    <3> QED BY <3>1, <3>2 DEF VarsOf
  <2>2. ASSUME NEW v \in VarsOf(c) PROVE v \in VarsOf(new)
    <3>1. PICK m \in DOMAIN c : v = Var(c[m])
      BY DEF VarsOf
    <3>2. q[m] \in DOMAIN new /\ new[q[m]] = c[m]
      BY DEF Permutes
    <3> QED BY <3>1, <3>2 DEF VarsOf
  <2> QED BY <2>1, <2>2
<1> QED BY <1>1, <1>3, <1>5, <1>6, <1>7 DEF Proper, Reordered, n

(* What propagate() makes of a clause.                                     *)
Here(c, i)         == [c EXCEPT ![1] = c[3 - i], ![2] = c[i]]
Rewatched(c, i, k) == [Here(c, i) EXCEPT ![2] = c[k], ![k] = c[i]]

LEMMA HereIs ==
    ASSUME NEW c, Proper(c), NEW i \in {1, 2}
    PROVE  LET new == Here(c, i)
           IN  /\ Reordered(c, new)
               /\ new[1] = c[3 - i] /\ new[2] = c[i] /\ {new[1], new[2]} = {c[1], c[2]}
<1> DEFINE new == Here(c, i)
           p == [m \in DOMAIN c |-> IF m = 1 THEN 3 - i ELSE IF m = 2 THEN i ELSE m]
<1>1. 1 \in DOMAIN c /\ 2 \in DOMAIN c /\ \A k \in DOMAIN c : c[k] \in Lits
  BY ProperIs
<1>2. 3 - i \in {1, 2} /\ i \in DOMAIN c /\ 3 - i \in DOMAIN c /\ 3 - i # i
  BY <1>1
<1>3. Permutes(p, p, DOMAIN c)
  BY <1>1, <1>2 DEF Permutes
<1>4. new \in [DOMAIN c -> Lits] /\ new[1] = c[3 - i] /\ new[2] = c[i]
      /\ \A m \in DOMAIN c : m \notin {1, 2} => new[m] = c[m]
  <2>1. c = [m \in DOMAIN c |-> c[m]]
    BY DEF Proper
  <2> QED BY <1>1, <1>2, <2>1 DEF Here
<1>5. \A m \in DOMAIN c : new[m] = c[p[m]]
  BY <1>1, <1>4
<1> HIDE DEF p, new
<1>6. Reordered(c, new)
  BY <1>3, <1>4, <1>5, Permuted
<1>7. {new[1], new[2]} = {c[1], c[2]}
  BY <1>2, <1>4
<1> QED BY <1>4, <1>6, <1>7 DEF new

LEMMA RewatchedIs ==
    ASSUME NEW c, Proper(c), NEW i \in {1, 2}, NEW k \in 3 .. Len(c)
    PROVE  LET new == Rewatched(c, i, k)
           IN  /\ Reordered(c, new)
               /\ new[1] = c[3 - i] /\ new[2] = c[k]
               /\ k \in DOMAIN c /\ c[k] # c[1] /\ c[k] # c[2]
<1> DEFINE new == Rewatched(c, i, k)
           p == [m \in DOMAIN c |-> IF m = 1 THEN 3 - i ELSE IF m = 2 THEN k ELSE IF m = k THEN i ELSE m]
           q == [m \in DOMAIN c |-> IF m = 3 - i THEN 1 ELSE IF m = k THEN 2 ELSE IF m = i THEN k ELSE m]
<1>1. 1 \in DOMAIN c /\ 2 \in DOMAIN c /\ (\A m \in DOMAIN c : c[m] \in Lits)
      /\ DOMAIN c = 1 .. Len(c) /\ Len(c) \in Nat
  BY ProperIs
<1>2. 3 - i \in {1, 2} /\ i \in DOMAIN c /\ 3 - i \in DOMAIN c /\ 3 - i # i /\ k \in DOMAIN c /\ k \notin {1, 2}
  BY <1>1
<1>3. Permutes(p, q, DOMAIN c)
  <2>1. p \in [DOMAIN c -> DOMAIN c] /\ q \in [DOMAIN c -> DOMAIN c]
    BY <1>1, <1>2
  <2>2. ASSUME NEW m \in DOMAIN c PROVE p[q[m]] = m /\ q[p[m]] = m
    <3>1. CASE i = 1
      BY <1>1, <1>2, <3>1
    <3>2. CASE i = 2
      BY <1>1, <1>2, <3>2
    <3> QED BY <3>1, <3>2
  <2> QED BY <2>1, <2>2 DEF Permutes
<1>4. new \in [DOMAIN c -> Lits] /\ new[1] = c[3 - i] /\ new[2] = c[k] /\ new[k] = c[i]
      /\ \A m \in DOMAIN c : m \notin {1, 2, k} => new[m] = c[m]
  <2>1. c = [m \in DOMAIN c |-> c[m]]
    BY DEF Proper
  <2> QED BY <1>1, <1>2, <2>1 DEF Here, Rewatched
<1>5. \A m \in DOMAIN c : new[m] = c[p[m]]
  BY <1>1, <1>2, <1>4
<1> HIDE DEF p, q, new
<1>6. Reordered(c, new)
  BY <1>3, <1>4, <1>5, Permuted
<1>7. c[k] # c[1] /\ c[k] # c[2]
  BY <1>1, <1>2 DEF Proper
<1> QED BY <1>2, <1>4, <1>6, <1>7 DEF new

(* A clause is rewritten, with no more literals, and with the same         *)
(* variables.                                                              *)
Rewritten(g, h, r, new) ==
    /\ h \in RegionType /\ RegionOK(h) /\ SameRoom(g, h)
    /\ Named(h) = Named(g) /\ Live(h) = Live(g) /\ SameBut(g, h, r)
    /\ \A q \in DOMAIN g.mem : h.mem[q].learnt = g.mem[q].learnt /\ h.mem[q].removed = g.mem[q].removed
    /\ h.mem[r].lits = new

LEMMA RewriteIs ==
    ASSUME NEW g \in RegionType, RegionOK(g), NEW r \in Live(g), NEW new \in Seq(Int), Proper(new),
           Len(new) <= Len(g.mem[r].lits)
    PROVE  Rewritten(g, Shortened(g, r, new), r, new)
<1> DEFINE h == Shortened(g, r, new)
           c == g.mem[r]
<1>1. r \in DOMAIN g.mem /\ c \in ClauseType
  <2>1. r \in DOMAIN g.mem
    BY DEF Live, Named
  <2> QED BY <2>1, RegionFacts
<1>2. Len(new) <= Len(c.lits)
  OBVIOUS
<1>3. /\ h \in RegionType /\ RegionOK(h) /\ DOMAIN h.mem = DOMAIN g.mem
      /\ h.mem[r] = [c EXCEPT !.lits = new] /\ h.mem[r] \in ClauseType
      /\ \A q \in DOMAIN g.mem : q # r => h.mem[q] = g.mem[q]
      /\ Named(h) = Named(g) /\ Live(h) = Live(g)
      /\ h.sz = g.sz /\ h.cap = g.cap /\ h.wasted = g.wasted /\ h.extra_clause_field = g.extra_clause_field
  BY <1>1, <1>2, RegionShortens
<1>4. h.mem[r].lits = new /\ h.mem[r].id = c.id /\ h.mem[r].learnt = c.learnt /\ h.mem[r].removed = c.removed
  BY <1>1, <1>3 DEF ClauseType
<1> HIDE DEF h
<1>5. SameRoom(g, h)
  <2>1. g.wasted \in Nat
    BY DEF RegionType
  <2>2. h.wasted >= g.wasted
    BY <1>3, <2>1
  <2>3. \A q \in DOMAIN g.mem : h.mem[q].id = g.mem[q].id
    BY <1>3, <1>4
  <2> QED BY <1>3, <2>2, <2>3 DEF SameRoom
<1>6. SameBut(g, h, r)
  <2>1. \A q \in Live(g) : q \in DOMAIN g.mem
    BY DEF Live, Named
  <2> QED BY <1>3, <2>1 DEF SameBut
<1>7. Rewritten(g, h, r, new)
  BY <1>3, <1>4, <1>5, <1>6 DEF Rewritten
<1> QED BY <1>7 DEF h

LEMMA OccursRewrite ==
    ASSUME NEW g, NEW h, NEW r, NEW new, Rewritten(g, h, r, new), VarsOf(new) = VarsOf(g.mem[r].lits),
           NEW occ, OccursOK(g, occ)
    PROVE  OccursOK(h, occ)
<1>1. \A q \in Live(h) : VarsOf(h.mem[q].lits) = VarsOf(g.mem[q].lits)
  BY DEF Rewritten, SameBut
<1>2. Named(g) \subseteq Named(h) /\ Live(h) \subseteq Live(g)
  BY DEF Rewritten
<1> QED BY <1>1, <1>2, OccursSame

(* The same lists, of the same clauses.                                    *)
LEMMA ListsSame ==
    ASSUME NEW s, ListsOK(s), Settled(s), NEW t, t.learnts = s.learnts, t.clauses = s.clauses,
           t.simp = s.simp, Named(t.ca) = Named(s.ca), Live(t.ca) = Live(s.ca),
           \A r \in DOMAIN s.ca.mem : t.ca.mem[r].learnt = s.ca.mem[r].learnt
    PROVE  ListsOK(t) /\ Settled(t)
<1>1. \A r \in Named(s.ca) : t.ca.mem[r].learnt = s.ca.mem[r].learnt
  BY DEF Named
<1>2. Live(s.ca) \subseteq Named(s.ca)
  BY DEF Live
<1> QED BY <1>1, <1>2 DEF ListsOK, Settled

(* propagate() rewrites a clause r and leaves what was true.               *)
LEMMA TrailRewrite ==
    ASSUME NEW g, NEW h, NEW t, TrailOK(g, t), NEW r, NEW new, Rewritten(g, h, r, new),
           (\E i \in DOMAIN t : t[i].reason = r) => new[1] = g.mem[r].lits[1]
    PROVE  TrailOK(h, t)
<1>1. Forgets(g, h, t, t)
  <2>1. ASSUME NEW i \in DOMAIN t, t[i].reason # Undef
        PROVE  t[i].reason \in Live(h) /\ h.mem[t[i].reason].lits[1] = g.mem[t[i].reason].lits[1]
    <3>1. t[i].reason \in Live(g)
      BY <2>1 DEF TrailOK
    <3>2. /\ Live(h) = Live(g) /\ h.mem[r].lits = new
          /\ \A q \in Live(g) : q # r => h.mem[q].lits = g.mem[q].lits
      BY DEF Rewritten, SameBut
    <3> QED BY <3>1, <3>2
  <2> QED BY <2>1 DEF Forgets
<1> QED BY <1>1, TrailSame

(* The state after a step, from its parts.                                 *)
LEMMA Built ==
    /\ ca' \in RegionType /\ RegionOK(ca') /\ WatchOK(ca', watches', dirty') /\ TrailOK(ca', trail')
    /\ clauses' \in Seq(Nat) /\ learnts' \in Seq(Nat) /\ watches' \in [Lits -> Seq(Nat)]
    /\ dirty' \subseteq Lits /\ occurs' \in [Vars -> Seq(Nat)]
    /\ subsumption_queue' \in Seq(Nat) /\ bwdsub_tmpunit' \in Nat
    /\ trail' \in Seq(EntryType) /\ use_simplification' \in BOOLEAN
    /\ SimpOK(State') /\ ListsOK(State') /\ Settled(State')
    => Valid(State')
<1> SUFFICES ASSUME /\ ca' \in RegionType /\ RegionOK(ca') /\ WatchOK(ca', watches', dirty')
                    /\ TrailOK(ca', trail')
                    /\ clauses' \in Seq(Nat) /\ learnts' \in Seq(Nat) /\ watches' \in [Lits -> Seq(Nat)]
                    /\ dirty' \subseteq Lits /\ occurs' \in [Vars -> Seq(Nat)]
                    /\ subsumption_queue' \in Seq(Nat) /\ bwdsub_tmpunit' \in Nat
                    /\ trail' \in Seq(EntryType) /\ use_simplification' \in BOOLEAN
                    /\ SimpOK(State') /\ ListsOK(State') /\ Settled(State')
             PROVE  Valid(State')
  OBVIOUS
<1> DEFINE t == State'
<1>1. t \in StateType
  BY DEF State, StateType
<1>2. t.ca = ca' /\ t.watches = watches' /\ t.dirty = dirty' /\ t.trail = trail'
  BY DEF State
<1> QED BY <1>1, <1>2 DEF Valid, Core

LEMMA PropagateContinues ==
    Valid(State) /\ propagate => Continues(State, State')
<1> SUFFICES ASSUME Valid(State), propagate PROVE Continues(State, State')
  OBVIOUS
<1>1. /\ ca \in RegionType /\ RegionOK(ca) /\ WatchOK(ca, watches, dirty)
      /\ TrailOK(ca, trail) /\ SimpOK(State) /\ ListsOK(State) /\ Settled(State)
      /\ clauses \in Seq(Nat) /\ learnts \in Seq(Nat) /\ watches \in [Lits -> Seq(Nat)]
      /\ dirty \subseteq Lits /\ occurs \in [Vars -> Seq(Nat)]
      /\ subsumption_queue \in Seq(Nat) /\ bwdsub_tmpunit \in Nat
      /\ trail \in Seq(EntryType) /\ use_simplification \in BOOLEAN
  BY StateIs
<1>2. UNCHANGED <<clauses, learnts, dirty, occurs, subsumption_queue, bwdsub_tmpunit, use_simplification>>
  BY Zenon DEF propagate
<1>3. PICK r \in LiveRefs, i \in {1, 2} :
         LET c     == ca.mem[r].lits
             other == c[3 - i]
             here  == [c EXCEPT ![1] = other, ![2] = c[i]]
             free  == {k \in 3 .. Len(c) : ~ IsFalse(c[k])}
         IN  /\ IsFalse(c[i]) /\ ~ IsTrue(other)
             /\ IF free # {}
                THEN LET k == Min(free)
                     IN  /\ ca' = [ca EXCEPT !.mem[r].lits = [here EXCEPT ![2] = c[k], ![k] = c[i]]]
                         /\ watches' = [watches EXCEPT ![-c[i]] = Without(@, {r}), ![-c[k]] = Append(@, r)]
                         /\ UNCHANGED trail
                ELSE /\ ca' = [ca EXCEPT !.mem[r].lits = here]
                     /\ trail' = IF IsFalse(other) THEN trail ELSE Because(other, r)
                     /\ UNCHANGED watches
  BY Zenon DEF propagate
<1> DEFINE c     == ca.mem[r].lits
           other == c[3 - i]
           free  == {k \in 3 .. Len(c) : ~ IsFalse(c[k])}
<1>4. r \in Live(ca)
  BY DEF LiveRefs, Live, Named
<1>5. Proper(c)
  BY <1>1, <1>4 DEF RegionOK, ClausesOK
<1>6. IsFalse(c[i]) /\ ~ IsTrue(other)
  BY <1>3, Zenon
<1>7. /\ free # {} => LET k == Min(free)
                      IN  /\ ca' = Shortened(ca, r, Rewatched(c, i, k))
                          /\ watches' = [watches EXCEPT ![-c[i]] = Without(@, {r}), ![-c[k]] = Append(@, r)]
                          /\ UNCHANGED trail
      /\ free = {} => /\ ca' = Shortened(ca, r, Here(c, i))
                      /\ trail' = IF IsFalse(other) THEN trail ELSE Because(other, r)
                      /\ UNCHANGED watches
  BY <1>3, Zenon DEF Shortened, Rewatched, Here
<1>8. free # {} => Min(free) \in free
  <2>1. free \subseteq Nat
    BY <1>5 DEF Proper
  <2> HIDE DEF free
  <2>2. ASSUME free # {} PROVE \E k \in free : \A j \in free : k <= j
    BY <2>1, <2>2, LeastNat
  <2> QED BY <2>2 DEF Min
<1>9. /\ State.ca = ca /\ State.clauses = clauses /\ State.learnts = learnts
      /\ State.simp = use_simplification /\ State.occurs = occurs /\ State.queue = subsumption_queue
      /\ State.tmpunit = bwdsub_tmpunit
      /\ State'.ca = ca' /\ State'.clauses = clauses /\ State'.learnts = learnts
      /\ State'.simp = use_simplification /\ State'.occurs = occurs /\ State'.queue = subsumption_queue
      /\ State'.tmpunit = bwdsub_tmpunit
  BY <1>2 DEF State
<1>10. \A q \in Live(ca) : q \in DOMAIN ca.mem
  BY DEF Live, Named
<1>11. IsFalse(c[i]) => \A j \in DOMAIN trail : trail[j].lit # c[i]
  <2>1. c[i] \in Lits
    BY <1>5, ProperIs
  <2>2. ASSUME NEW k \in DOMAIN trail, trail[k].lit = -c[i], NEW j \in DOMAIN trail, trail[j].lit = c[i] PROVE FALSE
    BY <1>1, <2>2 DEF TrailOK
  <2> QED BY <2>2 DEF IsFalse, IsTrue
<1>12. \A j \in DOMAIN trail : trail[j].reason = r => i = 2
  <2>1. ASSUME NEW j \in DOMAIN trail, trail[j].reason = r PROVE i = 2
    <3>1. r # Undef
      <4>1. r \in Nat
        BY <1>1, <1>4, <1>10, RegionFacts
      <4> QED BY <4>1 DEF Undef
    <3>2. trail[j].lit = c[1]
      BY <1>1, <2>1, <3>1 DEF TrailOK
    <3> QED BY <1>6, <1>11, <3>2
  <2> QED BY <2>1
<1> HIDE DEF c, free
<1>15. ASSUME NEW new, Rewritten(ca, ca', r, new), Reordered(c, new), WatchOK(ca', watches', dirty),
              TrailOK(ca', trail'), watches' \in [Lits -> Seq(Nat)], trail' \in Seq(EntryType)
       PROVE  Continues(State, State')
  <2>1. /\ ca' \in RegionType /\ RegionOK(ca') /\ SameRoom(ca, ca')
        /\ Named(ca') = Named(ca) /\ Live(ca') = Live(ca)
        /\ \A q \in DOMAIN ca.mem : ca'.mem[q].learnt = ca.mem[q].learnt /\ ca'.mem[q].removed = ca.mem[q].removed
    BY <1>15 DEF Rewritten
  <2>2. SimpOK(State')
    <3> SUFFICES ASSUME use_simplification
                 PROVE  /\ OccursOK(ca', occurs) /\ ToSet(subsumption_queue) \subseteq DOMAIN ca'.mem
                        /\ bwdsub_tmpunit \in DOMAIN ca'.mem \ Named(ca') /\ ~ ca'.mem[bwdsub_tmpunit].removed
      BY <1>9 DEF SimpOK
    <3>1. /\ OccursOK(ca, occurs) /\ ToSet(subsumption_queue) \subseteq DOMAIN ca.mem
          /\ bwdsub_tmpunit \in DOMAIN ca.mem \ Named(ca) /\ ~ ca.mem[bwdsub_tmpunit].removed
      BY <1>1, <1>9 DEF SimpOK
    <3>2. OccursOK(ca', occurs)
      <4>1. VarsOf(new) = VarsOf(ca.mem[r].lits)
        BY <1>15 DEF Reordered, c
      <4> QED BY <1>15, <3>1, <4>1, OccursRewrite
    <3>3. DOMAIN ca'.mem = DOMAIN ca.mem
      BY <2>1 DEF SameRoom
    <3> QED BY <2>1, <3>1, <3>2, <3>3
  <2>3. ListsOK(State') /\ Settled(State')
    <3>1. \A q \in DOMAIN State.ca.mem : State'.ca.mem[q].learnt = State.ca.mem[q].learnt
      BY <1>9, <2>1
    <3> QED BY <1>1, <1>9, <2>1, <3>1, ListsSame
  <2>4. Valid(State')
    BY <1>1, <1>2, <1>15, <2>1, <2>2, <2>3, Built
  <2>5. SameRoom(State.ca, State'.ca)
    BY <1>9, <2>1
  <2> QED BY <2>4, <2>5, RoomContinues
<1>13. CASE free # {}
  <2> DEFINE k == Min(free)
             new == Rewatched(c, i, k)
  <2>1. k \in 3 .. Len(c)
    BY <1>8, <1>13 DEF free
  <2> HIDE DEF k
  <2>2. /\ Reordered(c, new) /\ new[1] = c[3 - i] /\ new[2] = c[k]
        /\ k \in DOMAIN c /\ c[k] # c[1] /\ c[k] # c[2]
    <3>1. i \in {1, 2}
      OBVIOUS
    <3>2. Reordered(c, new) /\ k \in DOMAIN c /\ c[k] # c[1] /\ c[k] # c[2]
      BY <1>5, <2>1, <3>1, RewatchedIs
    <3>3. new[1] = c[3 - i]
      BY <1>5, <2>1, <3>1, RewatchedIs
    <3>4. new[2] = c[k]
      <4>1. 2 \in DOMAIN c /\ k # 2
        BY <1>5, <2>1, ProperIs
      <4> QED BY <4>1 DEF Rewatched, Here
    <3> QED BY <3>2, <3>3, <3>4
  <2>3. /\ ca' = Shortened(ca, r, new)
        /\ watches' = [watches EXCEPT ![-c[i]] = Without(@, {r}), ![-c[k]] = Append(@, r)]
        /\ trail' = trail
    BY <1>7, <1>13 DEF k
  <2> HIDE DEF new
  <2>4. Rewritten(ca, ca', r, new)
    <3>1. Proper(new) /\ new \in Seq(Int) /\ Len(new) = Len(c)
      BY <2>2 DEF Reordered
    <3>2. Len(new) <= Len(c)
      BY <1>5, <3>1 DEF Proper
    <3>3. Rewritten(ca, Shortened(ca, r, new), r, new)
      BY <1>1, <1>4, <3>1, <3>2, RewriteIs DEF c
    <3> QED BY <2>3, <3>3
  <2>5. WatchOK(ca', watches', dirty)
    <3> DEFINE a == -c[i]
               b == -c[k]
    <3>1. /\ a \in Lits /\ b \in Lits /\ a # b /\ r \in Nat
          /\ c[i] \in Lits /\ c[k] \in Lits /\ c[3 - i] \in Lits /\ c[i] # c[3 - i]
          /\ {c[1], c[2]} = {c[i], c[3 - i]}
      <4>1. c[1] \in Lits /\ c[2] \in Lits /\ c[k] \in Lits /\ c[1] # c[2]
        BY <1>5, <2>2, ProperIs
      <4>2. i = 1 \/ i = 2
        OBVIOUS
      <4>3. c[i] \in Lits /\ c[3 - i] \in Lits /\ c[i] # c[3 - i] /\ {c[1], c[2]} = {c[i], c[3 - i]}
        BY <4>1, <4>2
      <4>4. c[i] # c[k]
        BY <2>2, <4>2
      <4>5. -c[i] \in Lits /\ -c[k] \in Lits /\ -(-c[i]) = c[i] /\ -(-c[k]) = c[k]
        BY <4>1, <4>3, LitIs
      <4>6. r \in Nat
        BY <1>1, <1>4, <1>10, RegionFacts
      <4> QED BY <4>1, <4>3, <4>4, <4>5, <4>6
    <3> HIDE DEF a, b
    <3>2. /\ watches'[a] = Without(watches[a], {r}) /\ watches'[b] = Append(watches[b], r)
          /\ \A l \in Lits : l \notin {a, b} => watches'[l] = watches[l]
      BY <1>1, <2>3, <3>1 DEF a, b
    <3>3. \A l \in Lits : /\ watches[l] \in Seq(Nat)
                          /\ r \in ToSet(watches[l]) <=> -l \in {c[1], c[2]}
                          /\ Once(watches[l], Live(ca))
      BY <1>1, <1>4 DEF WatchOK, Once, c
    <3>6. Live(ca') = Live(ca) /\ ca'.mem[r].lits = new
      BY <2>4 DEF Rewritten
    <3>4. ASSUME NEW l \in Lits
          PROVE  /\ \A q : q # r => (q \in ToSet(watches'[l]) <=> q \in ToSet(watches[l]))
                 /\ r \in ToSet(watches'[l]) <=> -l \in {new[1], new[2]}
                 /\ Once(watches'[l], Live(ca'))
      <4>0. -l \in Lits /\ (-l = c[i] <=> l = a) /\ (-l = c[k] <=> l = b)
        <5>1. -(-l) = l /\ -(-c[i]) = c[i] /\ -(-c[k]) = c[k] /\ -l \in Lits
          BY <3>1, LitIs
        <5> QED BY <5>1 DEF a, b
      <4>1. CASE l = a
        <5>1. ToSet(watches'[l]) = ToSet(watches[l]) \ {r}
          BY <3>2, <3>3, <4>1, WithoutIs
        <5>2. Once(watches'[l], Live(ca'))
          BY <3>3, <3>6, <4>1, <3>2, OnceWithout
        <5>3. -l \notin {new[1], new[2]}
          BY <2>2, <3>1, <4>0, <4>1
        <5> QED BY <5>1, <5>2, <5>3
      <4>2. CASE l = b
        <5>1. ToSet(watches'[l]) = ToSet(watches[l]) \cup {r}
          <6>1. watches[l] \in Seq(Nat) /\ r \in Nat /\ watches'[l] = Append(watches[l], r)
            BY <3>1, <3>2, <3>3, <4>2
          <6> QED BY <6>1, AppendIs
        <5>2. Once(watches'[l], Live(ca'))
          <6>1. r \notin ToSet(watches[l])
            BY <2>2, <3>3, <4>0, <4>2
          <6>2. Live(ca') = Live(ca) \cup {r}
            BY <1>4, <3>6
          <6>3. watches[l] \in Seq(Nat) /\ r \in Nat /\ watches'[l] = Append(watches[l], r)
            BY <3>1, <3>2, <3>3, <4>2
          <6>4. Once(watches[l], Live(ca))
            BY <3>3
          <6>5. Once(Append(watches[l], r), Live(ca) \cup {r})
            BY <6>1, <6>3, <6>4, OnceAppend
          <6> QED BY <6>2, <6>3, <6>5
        <5>3. -l \in {new[1], new[2]}
          BY <2>2, <4>0, <4>2
        <5> QED BY <5>1, <5>2, <5>3
      <4>3. CASE l \notin {a, b}
        <5>1. watches'[l] = watches[l]
          BY <3>2, <4>3
        <5>2. r \in ToSet(watches[l]) <=> -l = c[3 - i]
          BY <3>1, <3>3, <4>0, <4>3
        <5>3. -l \in {new[1], new[2]} <=> -l = c[3 - i]
          BY <2>2, <4>0, <4>3
        <5> QED BY <3>3, <3>6, <5>1, <5>2, <5>3
      <4> QED BY <4>1, <4>2, <4>3
    <3>5. Rewatches(ca', watches, watches', r)
      BY <3>4, <3>6 DEF Rewatches
    <3>7. SameBut(ca, ca', r)
      BY <2>4 DEF Rewritten
    <3> QED BY <1>1, <3>5, <3>7, WatchesChange
  <2>6. TrailOK(ca', trail')
    <3>1. (\E j \in DOMAIN trail : trail[j].reason = r) => new[1] = ca.mem[r].lits[1]
      BY <1>12, <2>2 DEF c
    <3> QED BY <1>1, <2>3, <2>4, <3>1, TrailRewrite
  <2>7. watches' \in [Lits -> Seq(Nat)] /\ trail' \in Seq(EntryType)
    <3>1. r \in Nat
      BY <1>1, <1>4, <1>10, RegionFacts
    <3>2. -c[i] \in Lits /\ -c[k] \in Lits
      <4>1. i = 1 \/ i = 2
        OBVIOUS
      <4>2. c[i] \in Lits /\ c[k] \in Lits
        BY <1>5, <2>2, <4>1, ProperIs
      <4> QED BY <4>2, LitIs
    <3>3. \A l \in Lits : Without(watches[l], {r}) \in Seq(Nat)
      BY <1>1, WithoutIs
    <3>4. \A l \in Lits : Append(watches[l], r) \in Seq(Nat)
      BY <1>1, <3>1
    <3> DEFINE a == -c[i]
               b == -c[k]
    <3>5. a # b
      <4>1. i = 1 \/ i = 2
        OBVIOUS
      <4>2. c[i] # c[k] /\ c[i] \in Lits /\ c[k] \in Lits
        BY <1>5, <2>2, <4>1, ProperIs
      <4>3. -(-c[i]) = c[i] /\ -(-c[k]) = c[k]
        BY <4>2, LitIs
      <4> QED BY <4>2, <4>3
    <3> HIDE DEF a, b
    <3>6. /\ watches'[a] = Without(watches[a], {r}) /\ watches'[b] = Append(watches[b], r)
          /\ (\A l \in Lits : l \notin {a, b} => watches'[l] = watches[l])
          /\ watches' = [l \in Lits |-> watches'[l]]
      BY <1>1, <2>3, <3>2, <3>5 DEF a, b
    <3>7. ASSUME NEW l \in Lits PROVE watches'[l] \in Seq(Nat)
      <4>1. CASE l = a
        BY <3>3, <3>6, <4>1
      <4>2. CASE l = b
        BY <3>4, <3>6, <4>2
      <4>3. CASE l \notin {a, b}
        <5>1. watches'[l] = watches[l] /\ watches[l] \in Seq(Nat)
          BY <1>1, <3>6, <4>3
        <5> QED BY <5>1
      <4> QED BY <4>1, <4>2, <4>3
    <3> QED BY <1>1, <2>3, <3>6, <3>7
  <2> QED BY <1>15, <2>2, <2>4, <2>5, <2>6, <2>7
<1>14. CASE free = {}
  <2> DEFINE new == Here(c, i)
  <2>1. /\ ca' = Shortened(ca, r, new) /\ watches' = watches
        /\ trail' = IF IsFalse(other) THEN trail ELSE Because(other, r)
    BY <1>7, <1>14
  <2>2. Reordered(c, new) /\ new[1] = other /\ {new[1], new[2]} = {c[1], c[2]}
    <3>1. i \in {1, 2}
      OBVIOUS
    <3> QED BY <1>5, <3>1, HereIs
  <2> HIDE DEF new
  <2>3. Rewritten(ca, ca', r, new)
    <3>1. Proper(new) /\ new \in Seq(Int) /\ Len(new) = Len(c)
      BY <2>2 DEF Reordered
    <3>2. Len(new) <= Len(c)
      BY <1>5, <3>1 DEF Proper
    <3>3. Rewritten(ca, Shortened(ca, r, new), r, new)
      BY <1>1, <1>4, <3>1, <3>2, RewriteIs DEF c
    <3> QED BY <2>1, <3>3
  <2>4. Live(ca') = Live(ca) /\ ca'.mem[r].lits = new /\ SameBut(ca, ca', r)
    BY <2>3 DEF Rewritten
  <2>5. WatchOK(ca', watches', dirty)
    <3>1. ASSUME NEW l \in Lits
          PROVE  /\ r \in ToSet(watches[l]) <=> -l \in {c[1], c[2]}
                 /\ Once(watches[l], Live(ca))
      BY <1>1, <1>4 DEF WatchOK, Once, c
    <3>2. Rewatches(ca', watches, watches, r)
      BY <2>2, <2>4, <3>1 DEF Rewatches
    <3> QED BY <1>1, <2>1, <2>4, <3>2, WatchesChange
  <2>6. TrailOK(ca', trail)
    <3>1. (\E j \in DOMAIN trail : trail[j].reason = r) => new[1] = ca.mem[r].lits[1]
      <4>1. i = 2 => other = c[1]
        OBVIOUS
      <4> QED BY <1>12, <2>2, <4>1 DEF c
    <3> QED BY <1>1, <2>3, <3>1, TrailRewrite
  <2>7. TrailOK(ca', trail') /\ trail' \in Seq(EntryType)
    <3>1. CASE IsFalse(other)
      BY <1>1, <2>1, <2>6, <3>1
    <3>2. CASE ~ IsFalse(other)
      <4>1. other \in Lits
        <5>1. i = 1 \/ i = 2
          OBVIOUS
        <5> QED BY <1>5, <5>1, ProperIs
      <4>2. \A j \in DOMAIN trail : trail[j].lit # -other
        BY <3>2 DEF IsFalse, IsTrue
      <4>3. r \in Nat
        BY <1>1, <1>4, <1>10, RegionFacts
      <4>4. r \in Live(ca') /\ ca'.mem[r].lits[1] = other
        BY <1>4, <2>2, <2>4
      <4>5. trail' = Append(trail, Entry(other, r))
        BY <2>1, <3>2 DEF Because, Entry
      <4> HIDE DEF other
      <4>6. TrailOK(ca', Append(trail, Entry(other, r))) /\ Append(trail, Entry(other, r)) \in Seq(EntryType)
        BY <1>1, <2>6, <4>1, <4>2, <4>3, <4>4, TrailAppend
      <4> QED BY <4>5, <4>6
    <3> QED BY <3>1, <3>2
  <2> QED BY <1>1, <1>15, <2>1, <2>2, <2>3, <2>5, <2>7
<1> QED BY <1>13, <1>14

LEMMA SingleWithout ==
    ASSUME NEW T, NEW list \in Seq(T), Single(list), NEW gone
    PROVE  /\ Single(Without(list, gone)) /\ Without(list, gone) \in Seq(T)
           /\ ToSet(Without(list, gone)) = ToSet(list) \ gone
<1> DEFINE w == Without(list, gone)
<1>1. w \in Seq(T) /\ ToSet(w) = ToSet(list) \ gone
  BY WithoutIs
<1>2. ASSUME NEW i \in DOMAIN w, NEW j \in DOMAIN w, w[i] = w[j] PROVE i = j
  <2>1. PICK a \in DOMAIN list, b \in DOMAIN list : w[i] = list[a] /\ w[j] = list[b] /\ (a = b => i = j)
    BY WithoutOrder
  <2> QED BY <1>2, <2>1 DEF Single
<1> QED BY <1>1, <1>2 DEF Single

LEMMA TrimsSelf ==
    ASSUME NEW g \in RegionType, RegionOK(g)
    PROVE  Trims(g, g)
BY DEF Trims

(* What is left of the lists when clauses have been removed and trimmed.   *)
LEMMA ValidFollows ==
    ASSUME NEW s, Valid(s), NEW t, Core(t), Follows(s, t), NEW u \in StateType,
           Trims(t.ca, u.ca), s.simp => u.ca = t.ca,
           u.watches = t.watches, u.dirty = t.dirty, u.occurs = t.occurs, u.queue = t.queue,
           u.tmpunit = t.tmpunit, u.trail = t.trail, u.simp = t.simp,
           Single(u.learnts), ToSet(u.learnts) \subseteq ToSet(s.learnts) \cap Live(t.ca),
           s.simp => u.learnts = <<>>,
           Single(u.clauses), ToSet(u.clauses) \subseteq ToSet(s.clauses),
           s.simp \/ ToSet(u.clauses) \subseteq Live(t.ca)
    PROVE  Valid(u) /\ SameRoom(s.ca, u.ca)
<1>1. /\ ListsOK(s) /\ t \in StateType /\ RegionOK(t.ca) /\ WatchOK(t.ca, t.watches, t.dirty)
      /\ SimpOK(t) /\ TrailOK(t.ca, t.trail) /\ t.ca \in RegionType /\ u.ca \in RegionType /\ s.ca \in RegionType
      /\ t.simp = s.simp
  BY DEF Valid, Core, StateType, Follows
<1>2. /\ RegionOK(u.ca) /\ Named(u.ca) = Named(t.ca) /\ Live(u.ca) = Live(t.ca)
      /\ \A r \in DOMAIN t.ca.mem : u.ca.mem[r].learnt = t.ca.mem[r].learnt
      /\ \A r \in Live(t.ca) : /\ u.ca.mem[r].lits[1] = t.ca.mem[r].lits[1]
                               /\ u.ca.mem[r].lits[2] = t.ca.mem[r].lits[2]
  BY DEF Trims
<1>3. WatchOK(u.ca, u.watches, u.dirty)
  BY <1>1, <1>2, WatchesSame
<1>4. TrailOK(u.ca, u.trail)
  <2>1. Forgets(t.ca, u.ca, t.trail, t.trail)
    <3>1. ASSUME NEW i \in DOMAIN t.trail, t.trail[i].reason # Undef
          PROVE  /\ t.trail[i].reason \in Live(u.ca)
                 /\ u.ca.mem[t.trail[i].reason].lits[1] = t.ca.mem[t.trail[i].reason].lits[1]
      <4>1. t.trail[i].reason \in Live(t.ca)
        BY <1>1, <3>1 DEF TrailOK
      <4> QED BY <1>2, <4>1
    <3> QED BY <3>1 DEF Forgets
  <2> QED BY <1>1, <2>1, TrailSame
<1>5. SimpOK(u)
  <2>1. u.simp => u.ca = t.ca
    BY <1>1
  <2> QED BY <1>1, <2>1 DEF SimpOK
<1>6. Core(u)
  BY <1>2, <1>3, <1>4, <1>5 DEF Core
<1>7. /\ \A r \in DOMAIN s.ca.mem : t.ca.mem[r].learnt = s.ca.mem[r].learnt
      /\ DOMAIN t.ca.mem = DOMAIN s.ca.mem /\ Named(t.ca) = Named(s.ca)
  BY DEF Follows
<1>8. \A r \in Named(s.ca) : u.ca.mem[r].learnt = s.ca.mem[r].learnt
  BY <1>2, <1>7 DEF Named
<1>9. /\ \A r \in ToSet(u.learnts) : r \in Live(u.ca) /\ u.ca.mem[r].learnt
      /\ \A r \in ToSet(u.clauses) : r \in Named(u.ca) /\ ~ u.ca.mem[r].learnt
  <2>1. Live(s.ca) \subseteq Named(s.ca)
    BY DEF Live
  <2>2. ASSUME NEW r \in ToSet(u.learnts) PROVE r \in Live(u.ca) /\ u.ca.mem[r].learnt
    <3>1. r \in ToSet(s.learnts) /\ r \in Live(t.ca)
      OBVIOUS
    <3>2. r \in Live(s.ca) /\ s.ca.mem[r].learnt
      BY <1>1, <3>1 DEF ListsOK
    <3> QED BY <1>2, <1>8, <2>1, <3>1, <3>2
  <2>3. ASSUME NEW r \in ToSet(u.clauses) PROVE r \in Named(u.ca) /\ ~ u.ca.mem[r].learnt
    <3>1. r \in Named(s.ca) /\ ~ s.ca.mem[r].learnt
      BY <1>1 DEF ListsOK
    <3> QED BY <1>2, <1>7, <1>8, <3>1
  <2> QED BY <2>2, <2>3
<1>10. ListsOK(u) /\ Settled(u)
  BY <1>1, <1>2, <1>9 DEF ListsOK, Settled
<1>11. Valid(u)
  BY <1>6, <1>10 DEF Valid
<1>12. SameRoom(s.ca, u.ca)
  BY <1>1, FollowsRoom, TrimsRoom, RoomTwice
<1> QED BY <1>11, <1>12

LEMMA ReduceContinues ==
    Valid(State) /\ reduceDB => Continues(State, State')
<1> SUFFICES ASSUME Valid(State), reduceDB PROVE Continues(State, State')
  OBVIOUS
<1> DEFINE s == State
<1>1. PICK gone \in SUBSET {r \in ToSet(learnts) : Len(ca.mem[r].lits) > 2 /\ ~ Locked(State, r)} :
         LET x == RemoveAll(State, learnts, gone)
         IN  Becomes(checkGarbage([x.state EXCEPT !.learnts = x.rest], 5))
  BY DEF reduceDB
<1> DEFINE x == RemoveAll(State, learnts, gone)
           t == x.state
           u == [t EXCEPT !.learnts = x.rest]
<1>2. Core(s) /\ ListsOK(s) /\ Settled(s) /\ s.learnts = learnts /\ s.clauses = clauses /\ learnts \in Seq(Nat)
      /\ s.clauses \in Seq(Nat)
  <2>1. Core(s) /\ ListsOK(s) /\ Settled(s)
    BY DEF Valid
  <2>2. s.learnts = learnts /\ s.clauses = clauses
    BY DEF State
  <2> QED BY <2>1, <2>2, StateIs
<1> HIDE DEF s
<1>3. Single(learnts) /\ ToSet(learnts) \subseteq Live(s.ca) /\ Single(s.clauses)
  BY <1>2 DEF ListsOK
<1>4. /\ Core(t) /\ Follows(s, t) /\ Live(t.ca) = Live(s.ca) \ (ToSet(learnts) \cap gone)
      /\ x.rest = Without(learnts, gone)
  <2>1. ToSet(learnts) \cap gone \subseteq Live(s.ca)
    BY <1>3
  <2> QED BY <1>2, <1>3, <2>1, RemoveAllIs DEF s
<1> HIDE DEF x, t
<1>5. Single(x.rest) /\ x.rest \in Seq(Nat) /\ ToSet(x.rest) = ToSet(learnts) \ gone
  BY <1>2, <1>3, <1>4, SingleWithout
<1>6. s.simp => x.rest = <<>>
  <2>1. ASSUME s.simp PROVE x.rest = <<>>
    <3>1. learnts = <<>>
      BY <1>2, <2>1 DEF ListsOK
    <3>2. ToSet(x.rest) = {}
      BY <1>5, <3>1 DEF ToSet
    <3>3. x.rest # <<>> => x.rest[1] \in ToSet(x.rest)
      BY <1>5 DEF ToSet
    <3> QED BY <3>2, <3>3
  <2> QED BY <2>1
<1>7. /\ u \in StateType /\ u.ca = t.ca /\ u.watches = t.watches /\ u.dirty = t.dirty /\ u.occurs = t.occurs
      /\ u.queue = t.queue /\ u.tmpunit = t.tmpunit /\ u.trail = t.trail /\ u.simp = t.simp
      /\ u.learnts = x.rest /\ u.clauses = s.clauses
  <2>1. t \in StateType /\ t.clauses = s.clauses
    BY <1>4 DEF Core, Follows
  <2> QED BY <1>5, <2>1 DEF StateType
<1>8. Trims(t.ca, u.ca)
  <2>1. t.ca \in RegionType /\ RegionOK(t.ca)
    BY <1>4 DEF Core, StateType
  <2> QED BY <1>7, <2>1, TrimsSelf
<1>9. ToSet(u.clauses) \subseteq ToSet(s.clauses) /\ (s.simp \/ ToSet(u.clauses) \subseteq Live(t.ca))
  <2>1. ASSUME ~ s.simp, NEW r \in ToSet(s.clauses) PROVE r \in Live(t.ca)
    <3>1. r \in Live(s.ca) /\ r \notin ToSet(learnts)
      BY <1>2, <2>1 DEF ListsOK, Settled
    <3> QED BY <1>4, <3>1
  <2> QED BY <1>7, <2>1
<1>10. ToSet(u.learnts) \subseteq ToSet(s.learnts) \cap Live(t.ca)
  BY <1>2, <1>3, <1>4, <1>5, <1>7
<1> HIDE DEF u
<1>11. Valid(s)
  BY DEF s
<1>12. Valid(u) /\ SameRoom(s.ca, u.ca)
  BY <1>3, <1>4, <1>5, <1>6, <1>7, <1>8, <1>9, <1>10, <1>11, ValidFollows
<1>15. Leads(s, u)
  <2>1. \A r \in Live(s.ca) \ Live(t.ca) : MayGo(s, r)
    <3>1. ASSUME NEW r \in Live(s.ca) \ Live(t.ca) PROVE MayGo(s, r)
      <4>1. r \in gone /\ r \in ToSet(s.learnts)
        BY <1>2, <1>4
      <4>2. Len(ca.mem[r].lits) > 2 /\ ~ Locked(State, r)
        BY <4>1
      <4>3. s.ca.mem[r].learnt
        BY <1>2, <4>1 DEF ListsOK
      <4>4. s.ca = ca /\ s = State
        BY DEF s, State
      <4> QED BY <4>2, <4>3, <4>4 DEF MayGo
    <3> QED BY <3>1
  <2>2. gone \cap Live(t.ca) = {} /\ {} \cap Live(t.ca) = {}
    BY <1>4
  <2>3. u.learnts = Without(s.learnts, gone) /\ u.clauses = Without(s.clauses, {})
    <3>1. s.clauses = Without(s.clauses, {})
      BY <1>2, WithoutNothing
    <3> QED BY <1>2, <1>4, <1>7, <3>1
  <2> QED BY <1>2, <1>4, <1>7, <1>8, <2>1, <2>2, <2>3, LeadsFollows
<1>13. Continues(s, checkGarbage(u, 5))
  BY <1>11, <1>12, <1>15, CheckContinues
<1>14. State' = checkGarbage(u, 5)
  <2>1. checkGarbage(u, 5) \in StateType
    BY <1>13 DEF Continues, Valid, Core
  <2>2. Becomes(checkGarbage(u, 5))
    BY <1>1 DEF u, t, x
  <2> QED BY <2>1, <2>2, BecomesIs
<1> QED BY <1>13, <1>14 DEF s

LEMMA SimplifyContinues ==
    Valid(State) /\ simplify => Continues(State, State')
<1> SUFFICES ASSUME Valid(State), simplify PROVE Continues(State, State')
  OBVIOUS
<1> DEFINE s    == State
           satL == {r \in ToSet(learnts) : Satisfied(r)}
           satC == {r \in ToSet(clauses) : Satisfied(r)}
           lea  == RemoveAll(State, learnts, satL)
           cls  == IF use_simplification THEN [state |-> lea.state, rest |-> clauses]
                   ELSE RemoveAll(lea.state, clauses, satC)
           own  == IF use_simplification THEN <<>> ELSE lea.rest \o cls.rest
           t    == cls.state
           u    == [t EXCEPT !.ca = Each(Trim, @, own), !.learnts = lea.rest, !.clauses = cls.rest]
<1>1. Becomes(checkGarbage(u, 5))
  BY DEF simplify
<1>2. /\ Core(s) /\ ListsOK(s) /\ Settled(s) /\ s.learnts = learnts /\ s.clauses = clauses
      /\ learnts \in Seq(Nat) /\ clauses \in Seq(Nat) /\ s.simp = use_simplification
      /\ use_simplification \in BOOLEAN
  <2>1. Core(s) /\ ListsOK(s) /\ Settled(s)
    BY DEF Valid
  <2>2. s.learnts = learnts /\ s.clauses = clauses /\ s.simp = use_simplification
    BY DEF State
  <2>3. learnts \in Seq(Nat) /\ clauses \in Seq(Nat) /\ use_simplification \in BOOLEAN
    BY StateIs
  <2> QED BY <2>1, <2>2, <2>3
<1> HIDE DEF s
<1>3. /\ Single(learnts) /\ ToSet(learnts) \subseteq Live(s.ca) /\ Single(clauses)
      /\ \A r \in ToSet(clauses) : r \notin ToSet(learnts)
  BY <1>2 DEF ListsOK
<1>20. /\ satL \subseteq ToSet(learnts) /\ satC \subseteq ToSet(clauses)
       /\ \A r \in satL \cup satC : Satisfied(r)
  OBVIOUS
<1> HIDE DEF satL, satC
<1>4. /\ Core(lea.state) /\ Follows(s, lea.state)
      /\ Live(lea.state.ca) = Live(s.ca) \ (ToSet(learnts) \cap satL)
      /\ lea.rest = Without(learnts, satL)
  <2>1. ToSet(learnts) \cap satL \subseteq Live(s.ca)
    BY <1>3
  <2> QED BY <1>2, <1>3, <2>1, RemoveAllIs DEF s
<1>5. Single(lea.rest) /\ lea.rest \in Seq(Nat) /\ ToSet(lea.rest) = ToSet(learnts) \ satL
  BY <1>2, <1>3, <1>4, SingleWithout
<1> HIDE DEF lea
<1>6. /\ Core(t) /\ Follows(s, t) /\ ToSet(lea.rest) \subseteq Live(t.ca)
      /\ Single(cls.rest) /\ cls.rest \in Seq(Nat) /\ ToSet(cls.rest) \subseteq ToSet(clauses)
      /\ use_simplification \/ ToSet(cls.rest) \subseteq Live(t.ca)
      /\ Live(t.ca) \subseteq Live(s.ca) /\ satL \cap Live(t.ca) = {}
      /\ \A r \in Live(s.ca) \ Live(t.ca) : r \in satL \cup satC
      /\ \E gone : gone \cap Live(t.ca) = {} /\ cls.rest = Without(clauses, gone)
  <2>1. CASE use_simplification
    <3>1. t = lea.state /\ cls.rest = clauses
      BY <2>1
    <3>3. \E gone : gone \cap Live(t.ca) = {} /\ cls.rest = Without(clauses, gone)
      <4>1. clauses = Without(clauses, {}) /\ {} \cap Live(t.ca) = {}
        BY <1>2, WithoutNothing
      <4> QED BY <3>1, <4>1
    <3>4. /\ Live(t.ca) \subseteq Live(s.ca) /\ satL \cap Live(t.ca) = {}
          /\ \A r \in Live(s.ca) \ Live(t.ca) : r \in satL \cup satC
      BY <1>4, <1>20, <3>1
    <3>2. ToSet(lea.rest) \subseteq Live(t.ca)
      BY <1>3, <1>4, <1>5, <3>1
    <3> QED BY <1>2, <1>3, <1>4, <2>1, <3>1, <3>2, <3>3, <3>4
  <2>2. CASE ~ use_simplification
    <3>1. cls = RemoveAll(lea.state, clauses, satC)
      BY <2>2
    <3>2. ToSet(clauses) \subseteq Live(lea.state.ca)
      <4>1. ToSet(clauses) \subseteq Live(s.ca)
        BY <1>2, <2>2 DEF Settled
      <4> QED BY <1>3, <1>4, <4>1
    <3> HIDE DEF cls
    <3>3. /\ Core(t) /\ Follows(lea.state, t) /\ Live(t.ca) = Live(lea.state.ca) \ (ToSet(clauses) \cap satC)
          /\ cls.rest = Without(clauses, satC)
      BY <1>2, <1>3, <1>4, <3>1, <3>2, RemoveAllIs
    <3>4. Single(cls.rest) /\ cls.rest \in Seq(Nat) /\ ToSet(cls.rest) = ToSet(clauses) \ satC
      BY <1>2, <1>3, <3>3, SingleWithout
    <3>5. Follows(s, t)
      BY <1>2, <1>4, <3>3, FollowsTwice
    <3>6. ToSet(lea.rest) \subseteq Live(t.ca)
      BY <1>3, <1>4, <1>5, <3>3
    <3>7. ToSet(cls.rest) \subseteq Live(t.ca)
      BY <3>2, <3>3, <3>4
    <3>8. /\ Live(t.ca) \subseteq Live(s.ca) /\ satL \cap Live(t.ca) = {} /\ satC \cap Live(t.ca) = {}
          /\ \A r \in Live(s.ca) \ Live(t.ca) : r \in satL \cup satC
      BY <1>4, <1>20, <3>3
    <3>9. \E gone : gone \cap Live(t.ca) = {} /\ cls.rest = Without(clauses, gone)
      BY <3>3, <3>8
    <3> QED BY <3>3, <3>4, <3>5, <3>6, <3>7, <3>8, <3>9
  <2> QED BY <1>2, <2>1, <2>2
<1> HIDE DEF cls
<1>7. t \in StateType /\ t.ca \in RegionType /\ RegionOK(t.ca)
  BY <1>6 DEF Core, StateType
<1>8. own \in Seq(Nat) /\ ToSet(own) \subseteq Live(t.ca) /\ (use_simplification => own = <<>>)
  <2>1. CASE use_simplification
    <3>1. own = <<>>
      BY <2>1
    <3> HIDE DEF own
    <3> QED BY <3>1 DEF ToSet
  <2>2. CASE ~ use_simplification
    <3>1. own = lea.rest \o cls.rest
      BY <2>2
    <3>2. own \in Seq(Nat) /\ ToSet(own) \subseteq ToSet(lea.rest) \cup ToSet(cls.rest)
      <4> DEFINE a == lea.rest
                 b == cls.rest
      <4>1. a \in Seq(Nat) /\ b \in Seq(Nat)
        BY <1>5, <1>6
      <4> HIDE DEF a, b
      <4>2. /\ a \o b \in Seq(Nat) /\ Len(a \o b) = Len(a) + Len(b)
            /\ \A i \in 1 .. Len(a) + Len(b) : (a \o b)[i] = IF i <= Len(a) THEN a[i] ELSE b[i - Len(a)]
        BY <4>1
      <4>3. ASSUME NEW x \in ToSet(a \o b) PROVE x \in ToSet(a) \cup ToSet(b)
        <5>1. PICK i \in 1 .. Len(a) + Len(b) : x = (a \o b)[i]
          BY <4>1, <4>2 DEF ToSet
        <5>2. CASE i <= Len(a)
          BY <4>1, <4>2, <5>1, <5>2 DEF ToSet
        <5>3. CASE ~ (i <= Len(a))
          <6>1. x = b[i - Len(a)] /\ i - Len(a) \in DOMAIN b
            BY <4>1, <4>2, <5>1, <5>3
          <6> QED BY <6>1 DEF ToSet
        <5> QED BY <5>2, <5>3
      <4>4. ToSet(a \o b) \subseteq ToSet(a) \cup ToSet(b)
        BY <4>3
      <4> QED BY <3>1, <4>2, <4>4 DEF a, b
    <3> HIDE DEF own
    <3> QED BY <1>6, <2>2, <3>2
  <2> QED BY <1>2, <2>1, <2>2
<1> HIDE DEF own
<1>9. Trims(t.ca, Each(Trim, t.ca, own)) /\ (use_simplification => Each(Trim, t.ca, own) = t.ca)
  BY <1>7, <1>8, TrimAllIs
<1> DEFINE h == Each(Trim, t.ca, own)
<1>10. h \in RegionType
  BY <1>9 DEF Trims
<1> HIDE DEF t
<1>11. u = [t EXCEPT !.ca = h, !.learnts = lea.rest, !.clauses = cls.rest]
  OBVIOUS
<1> HIDE DEF u, h
<1>12. /\ u \in StateType /\ u.ca = h /\ u.watches = t.watches /\ u.dirty = t.dirty /\ u.occurs = t.occurs
       /\ u.queue = t.queue /\ u.tmpunit = t.tmpunit /\ u.trail = t.trail /\ u.simp = t.simp
       /\ u.learnts = lea.rest /\ u.clauses = cls.rest
  BY <1>5, <1>6, <1>7, <1>10, <1>11 DEF StateType
<1>13. u.learnts = <<>> \/ ~ s.simp
  <2>1. ASSUME s.simp PROVE lea.rest = <<>>
    <3>1. learnts = <<>>
      BY <1>2, <2>1 DEF ListsOK
    <3>2. ToSet(lea.rest) = {}
      <4>1. ToSet(learnts) = {}
        BY <3>1 DEF ToSet
      <4> QED BY <1>5, <4>1
    <3>3. lea.rest # <<>> => lea.rest[1] \in ToSet(lea.rest)
      BY <1>5 DEF ToSet
    <3> QED BY <3>2, <3>3
  <2> QED BY <1>12, <2>1
<1>14. Valid(s)
  BY DEF s
<1>15. Trims(t.ca, u.ca) /\ (s.simp => u.ca = t.ca)
  BY <1>2, <1>9, <1>12 DEF h
<1>16. /\ Single(u.learnts) /\ ToSet(u.learnts) \subseteq ToSet(s.learnts) \cap Live(t.ca)
       /\ Single(u.clauses) /\ ToSet(u.clauses) \subseteq ToSet(s.clauses)
       /\ s.simp \/ ToSet(u.clauses) \subseteq Live(t.ca)
  BY <1>2, <1>5, <1>6, <1>12
<1>17. Valid(u) /\ SameRoom(s.ca, u.ca)
  BY <1>6, <1>12, <1>13, <1>14, <1>15, <1>16, ValidFollows
<1>21. Leads(s, u)
  <2>1. \A r \in Live(s.ca) \ Live(t.ca) : MayGo(s, r)
    BY <1>6, <1>20 DEF MayGo
  <2>2. PICK gone : gone \cap Live(t.ca) = {} /\ cls.rest = Without(clauses, gone)
    BY <1>6
  <2>3. satL \cap Live(t.ca) = {} /\ u.learnts = Without(s.learnts, satL) /\ u.clauses = Without(s.clauses, gone)
    BY <1>2, <1>4, <1>6, <1>12, <2>2
  <2> QED BY <1>2, <1>6, <1>12, <1>15, <2>1, <2>2, <2>3, LeadsFollows
<1>18. Continues(s, checkGarbage(u, 5))
  BY <1>14, <1>17, <1>21, CheckContinues
<1>19. State' = checkGarbage(u, 5)
  <2>1. checkGarbage(u, 5) \in StateType
    BY <1>18 DEF Continues, Valid, Core
  <2> QED BY <1>1, <2>1, BecomesIs
<1> QED BY <1>18, <1>19 DEF s

LEMMA LookupIs ==
    ASSUME Valid(State), use_simplification, NEW v \in Vars, NEW r \in Lookup(v)
    PROVE  r \in Live(ca) /\ v \in VarsOf(ca.mem[r].lits) /\ r \in Nat
<1>1. ca \in RegionType /\ SimpOK(State) /\ occurs \in [Vars -> Seq(Nat)]
  BY StateIs
<1>2. OccursOK(ca, occurs)
  BY <1>1 DEF SimpOK, State
<1>3. occurs[v] \in Seq(Nat) /\ ToSet(occurs[v]) \subseteq Named(ca) /\ ToSet(occurs[v]) \subseteq DOMAIN ca.mem
  BY <1>1, <1>2 DEF OccursOK, Named
<1>4. ToSet(Clean(ca, occurs[v])) = ToSet(occurs[v]) \cap Live(ca)
  BY <1>1, <1>3, CleanIs
<1>5. r \in ToSet(occurs[v]) /\ r \in Live(ca)
  BY <1>4 DEF Lookup
<1>6. r \in Nat
  BY <1>1, <1>3, <1>5, RegionFacts
<1> QED BY <1>2, <1>5, <1>6 DEF OccursOK

(* Preprocessing removes a clause.                                         *)
LEMMA ValidRemove ==
    ASSUME NEW s, Valid(s), s.simp, NEW r \in Live(s.ca)
    PROVE  LET t == RemoveClause(s, r)
           IN  Valid(t) /\ Follows(s, t) /\ Live(t.ca) = Live(s.ca) \ {r}
<1> DEFINE t == RemoveClause(s, r)
<1>1. Core(s) /\ ListsOK(s)
  BY DEF Valid
<1>2. Core(t) /\ Follows(s, t) /\ Live(t.ca) = Live(s.ca) \ {r}
  BY <1>1, RemoveIs
<1> HIDE DEF t
<1>3. t \in StateType /\ t.ca \in RegionType /\ RegionOK(t.ca)
  BY <1>2 DEF Core, StateType
<1>4. t.learnts = s.learnts /\ t.clauses = s.clauses
  BY <1>2 DEF Follows
<1>5. Trims(t.ca, t.ca)
  BY <1>3, TrimsSelf
<1>6. Single(s.learnts) /\ Single(s.clauses) /\ s.learnts = <<>> /\ ToSet(s.learnts) = {}
  <2>1. s.learnts = <<>>
    BY <1>1 DEF ListsOK
  <2> QED BY <1>1, <2>1 DEF ListsOK, ToSet
<1>7. Valid(t)
  BY <1>2, <1>3, <1>4, <1>5, <1>6, ValidFollows
<1> QED BY <1>2, <1>7 DEF t

LEMMA SubsumeContinues ==
    Valid(State) /\ subsume => Continues(State, State')
<1> SUFFICES ASSUME Valid(State), subsume PROVE Continues(State, State')
  OBVIOUS
<1>1. PICK v \in Vars : \E r \in Lookup(v) : Becomes(RemoveClause(State, r))
  BY DEF subsume
<1>2. PICK r \in Lookup(v) : Becomes(RemoveClause(State, r))
  BY <1>1
<1> DEFINE t == RemoveClause(State, r)
<1>3. use_simplification /\ State.simp = use_simplification /\ State.ca = ca
  BY DEF subsume, State
<1>4. r \in Live(State.ca)
  BY <1>3, LookupIs
<1>5. Valid(t) /\ Follows(State, t)
  BY <1>3, <1>4, ValidRemove
<1> HIDE DEF t
<1>6. Continues(State, t)
  BY <1>5, FollowsRoom, RoomContinues
<1>7. t \in StateType
  BY <1>5 DEF Valid, Core
<1>8. State' = t
  BY <1>2, <1>7, BecomesIs DEF t
<1> QED BY <1>6, <1>8

LEMMA EliminatedContinues ==
    Valid(State) /\ eliminated => Continues(State, State')
<1> SUFFICES ASSUME Valid(State), eliminated PROVE Continues(State, State')
  OBVIOUS
<1>1. Becomes(checkGarbage(State, 2))
  BY DEF eliminated
<1>2. SameRoom(State.ca, State.ca)
  <2>1. State.ca.wasted \in Nat
    BY DEF Valid, Core, StateType, RegionType
  <2> QED BY <2>1 DEF SameRoom
<1>6. Leads(State, State)
  <2>1. Core(State) /\ State.ca \in RegionType /\ RegionOK(State.ca) /\ State.learnts \in Seq(Nat)
        /\ State.clauses \in Seq(Nat)
    BY DEF Valid, Core, StateType
  <2>2. Follows(State, State) /\ Trims(State.ca, State.ca)
    BY <2>1, FollowsSelf, TrimsSelf
  <2>3. State.learnts = Without(State.learnts, {}) /\ State.clauses = Without(State.clauses, {})
    BY <2>1, WithoutNothing
  <2>4. {} \cap Live(State.ca) = {} /\ \A r \in Live(State.ca) \ Live(State.ca) : MayGo(State, r)
    OBVIOUS
  <2> QED BY <2>1, <2>2, <2>3, <2>4, LeadsFollows
<1>3. Continues(State, checkGarbage(State, 2))
  BY <1>2, <1>6, CheckContinues
<1>4. checkGarbage(State, 2) \in StateType
  BY <1>3 DEF Continues, Valid, Core
<1>5. State' = checkGarbage(State, 2)
  BY <1>1, <1>4, BecomesIs
<1> QED BY <1>3, <1>5

LEMMA EliminateContinues ==
    Valid(State) /\ eliminate => Continues(State, State')
<1> SUFFICES ASSUME Valid(State), eliminate PROVE Continues(State, State')
  OBVIOUS
<1> DEFINE s == State
           g == [s.ca EXCEPT !.extra_clause_field = FALSE]
           u == [State EXCEPT !.occurs = [v \in Vars |-> <<>>], !.queue = <<>>,
                              !.simp = FALSE, !.ca.extra_clause_field = FALSE]
           t == garbageCollect(u)
<1>1. Becomes(t)
  BY DEF eliminate
<1>2. /\ Core(s) /\ ListsOK(s) /\ s \in StateType /\ s.ca \in RegionType /\ RegionOK(s.ca)
      /\ WatchOK(s.ca, s.watches, s.dirty) /\ TrailOK(s.ca, s.trail)
  BY DEF Valid, Core, StateType
<1>3. /\ g \in RegionType /\ g.mem = s.ca.mem /\ g.sz = s.ca.sz /\ g.cap = s.ca.cap /\ g.wasted = s.ca.wasted
      /\ g.extra_clause_field = FALSE
  BY <1>2 DEF RegionType
<1>4. u = [s EXCEPT !.occurs = [v \in Vars |-> <<>>], !.queue = <<>>, !.simp = FALSE, !.ca = g]
  OBVIOUS
<1> HIDE DEF u, s, g
<1>5. /\ u \in StateType /\ u.ca = g /\ u.clauses = s.clauses /\ u.learnts = s.learnts
      /\ u.watches = s.watches /\ u.dirty = s.dirty /\ u.trail = s.trail /\ u.simp = FALSE
  <2>1. [v \in Vars |-> <<>>] \in [Vars -> Seq(Nat)] /\ <<>> \in Seq(Nat)
    OBVIOUS
  <2> QED BY <1>2, <1>3, <1>4, <2>1 DEF StateType
<1>6. Named(g) = Named(s.ca) /\ Live(g) = Live(s.ca)
  BY <1>3 DEF Named, Live
<1>7. RegionOK(g)
  <2>1. LiveWords(g) = LiveWords(s.ca)
    BY <1>3 DEF LiveWords
  <2>2. SizesOK(g)
    BY <1>2, <1>3, <2>1 DEF RegionOK, SizesOK
  <2>3. PlacesOK(g) /\ NumbersOK(g)
    BY <1>2, <1>3 DEF RegionOK, PlacesOK, NumbersOK
  <2>4. ClausesOK(g)
    BY <1>2, <1>3, <1>6 DEF RegionOK, ClausesOK
  <2> QED BY <2>2, <2>3, <2>4 DEF RegionOK
<1>8. WatchOK(g, s.watches, s.dirty) /\ TrailOK(g, s.trail)
  BY <1>2, <1>3, <1>6 DEF WatchOK, TrailOK
<1>9. Core(u)
  BY <1>5, <1>7, <1>8 DEF Core, SimpOK
<1>10. ListsOK(u)
  <2>1. /\ Single(s.learnts) /\ Single(s.clauses)
        /\ \A r \in ToSet(s.learnts) : r \in Live(s.ca) /\ s.ca.mem[r].learnt
        /\ \A r \in ToSet(s.clauses) : r \in Named(s.ca) /\ ~ s.ca.mem[r].learnt
    BY <1>2 DEF ListsOK
  <2> QED BY <1>3, <1>5, <1>6, <2>1 DEF ListsOK
<1> HIDE DEF t
<1>11. Valid(t) /\ CopyOf(g, t.ca)
  BY <1>5, <1>9, <1>10, CollectIs DEF t
<1>12. CopyOf(s.ca, t.ca)
  BY <1>3, <1>11 DEF CopyOf
<1>16. Leads(s, u)
  <2>1. s.learnts = Without(s.learnts, {}) /\ s.clauses = Without(s.clauses, {})
    <3>1. s.learnts \in Seq(Nat) /\ s.clauses \in Seq(Nat)
      BY <1>2 DEF StateType
    <3> QED BY <3>1, WithoutNothing
  <2>2. Loses(s.trail, u.trail, Live(u.ca))
    BY <1>5 DEF Loses
  <2>3. {} \cap Live(u.ca) = {}
    OBVIOUS
  <2>4. \E gone : gone \cap Live(u.ca) = {} /\ u.learnts = Without(s.learnts, gone)
    BY <1>5, <2>1, <2>3
  <2>5. \E gone : gone \cap Live(u.ca) = {} /\ u.clauses = Without(s.clauses, gone)
    BY <1>5, <2>1, <2>3
  <2> QED BY <1>3, <1>5, <1>6, <2>2, <2>4, <2>5 DEF Leads
<1>17. Keeps(s, t)
  <2>1. PICK R, new : Relocated(u, t, R, new)
    BY <1>9, <1>10, CollectIs DEF t
  <2>2. Valid(s)
    BY DEF s
  <2> QED BY <1>9, <1>11, <1>16, <2>1, <2>2, KeepsIs
<1>13. Continues(s, t)
  BY <1>11, <1>12, <1>17 DEF Continues, CopyOf
<1>14. t \in StateType
  BY <1>11 DEF Valid, Core
<1>15. State' = t
  BY <1>1, <1>14, BecomesIs
<1> QED BY <1>13, <1>15 DEF s

(* The watchers with a clause, and without it.                             *)
Attaches(w, x, r, c, S) ==
    /\ x \in [Lits -> Seq(Nat)]
    /\ \A l \in Lits : /\ \A q : q # r => (q \in ToSet(x[l]) <=> q \in ToSet(w[l]))
                       /\ r \in ToSet(x[l]) <=> -l \in {c[1], c[2]}
                       /\ Once(x[l], S \cup {r})
Detached(w, r, S) ==
    /\ w \in [Lits -> Seq(Nat)]
    /\ \A l \in Lits : r \notin ToSet(w[l]) /\ Once(w[l], S)

LEMMA WatchPair ==
    ASSUME NEW c, Proper(c)
    PROVE  /\ -c[1] \in Lits /\ -c[2] \in Lits /\ -c[1] # -c[2]
           /\ \A l \in Lits : (-l = c[1] <=> l = -c[1]) /\ (-l = c[2] <=> l = -c[2])
<1>1. c[1] \in Lits /\ c[2] \in Lits /\ -c[1] \in Lits /\ -c[2] \in Lits /\ -c[1] # -c[2]
  BY ProperIs
<1>2. ASSUME NEW l \in Lits PROVE (-l = c[1] <=> l = -c[1]) /\ (-l = c[2] <=> l = -c[2])
  <2>1. -(-l) = l /\ -(-c[1]) = c[1] /\ -(-c[2]) = c[2]
    BY <1>1, LitIs
  <2> QED BY <2>1
<1> QED BY <1>1, <1>2

LEMMA AttachIs ==
    ASSUME NEW w, NEW r \in Nat, NEW S, Detached(w, r, S), NEW c, Proper(c)
    PROVE  Attaches(w, Attach(w, r, c), r, c, S)
<1> DEFINE a == -c[1]
           b == -c[2]
           x == Attach(w, r, c)
<1>1. /\ a \in Lits /\ b \in Lits /\ a # b
      /\ \A l \in Lits : (-l = c[1] <=> l = a) /\ (-l = c[2] <=> l = b)
  BY WatchPair
<1>2. /\ w \in [Lits -> Seq(Nat)]
      /\ \A l \in Lits : r \notin ToSet(w[l]) /\ Once(w[l], S)
  BY DEF Detached
<1>3. x = [w EXCEPT ![a] = Append(@, r), ![b] = Append(@, r)]
  BY DEF Attach
<1> HIDE DEF a, b, x
<1>4. /\ x[a] = Append(w[a], r) /\ x[b] = Append(w[b], r)
      /\ (\A l \in Lits : l \notin {a, b} => x[l] = w[l])
      /\ x = [l \in Lits |-> x[l]]
  BY <1>1, <1>2, <1>3
<1>5. ASSUME NEW l \in Lits
      PROVE  /\ x[l] \in Seq(Nat)
             /\ \A q : q # r => (q \in ToSet(x[l]) <=> q \in ToSet(w[l]))
             /\ r \in ToSet(x[l]) <=> -l \in {c[1], c[2]}
             /\ Once(x[l], S \cup {r})
  <2>1. w[l] \in Seq(Nat) /\ r \notin ToSet(w[l]) /\ Once(w[l], S)
    BY <1>2
  <2>2. CASE l \in {a, b}
    <3>1. x[l] = Append(w[l], r)
      BY <1>4, <2>2
    <3>2. x[l] \in Seq(Nat) /\ ToSet(x[l]) = ToSet(w[l]) \cup {r}
      BY <2>1, <3>1, AppendIs
    <3>3. Once(x[l], S \cup {r})
      BY <2>1, <3>1, OnceAppend
    <3>4. -l \in {c[1], c[2]}
      BY <1>1, <2>2
    <3> QED BY <3>2, <3>3, <3>4
  <2>3. CASE l \notin {a, b}
    <3>1. x[l] = w[l]
      BY <1>4, <2>3
    <3>2. Once(x[l], S \cup {r})
      <4>1. ASSUME NEW i \in DOMAIN w[l], NEW j \in DOMAIN w[l], w[l][i] = w[l][j], w[l][i] \in S \cup {r}
            PROVE  i = j
        <5>1. w[l][i] # r
          BY <2>1 DEF ToSet
        <5> QED BY <2>1, <4>1, <5>1 DEF Once
      <4> QED BY <3>1, <4>1 DEF Once
    <3>3. -l \notin {c[1], c[2]}
      BY <1>1, <2>3
    <3> QED BY <2>1, <3>1, <3>2, <3>3
  <2> QED BY <2>2, <2>3
<1>6. x \in [Lits -> Seq(Nat)]
  BY <1>4, <1>5
<1> QED BY <1>5, <1>6 DEF Attaches, x

LEMMA DetachIs ==
    ASSUME NEW w \in [Lits -> Seq(Nat)], NEW r \in Nat, NEW S, NEW c, Proper(c),
           \A l \in Lits : (r \in ToSet(w[l]) <=> -l \in {c[1], c[2]}) /\ Once(w[l], S)
    PROVE  /\ Detached(Detach(w, r, c), r, S)
           /\ \A l \in Lits : \A q : q # r => (q \in ToSet(Detach(w, r, c)[l]) <=> q \in ToSet(w[l]))
<1> DEFINE a == -c[1]
           b == -c[2]
           x == Detach(w, r, c)
<1>1. /\ a \in Lits /\ b \in Lits /\ a # b
      /\ \A l \in Lits : (-l = c[1] <=> l = a) /\ (-l = c[2] <=> l = b)
  BY WatchPair
<1>2. x = [w EXCEPT ![a] = Without(@, {r}), ![b] = Without(@, {r})]
  BY DEF Detach
<1> HIDE DEF a, b, x
<1>3. /\ x[a] = Without(w[a], {r}) /\ x[b] = Without(w[b], {r})
      /\ (\A l \in Lits : l \notin {a, b} => x[l] = w[l])
      /\ x = [l \in Lits |-> x[l]]
  BY <1>1, <1>2
<1>4. ASSUME NEW l \in Lits
      PROVE  /\ x[l] \in Seq(Nat)
             /\ \A q : q # r => (q \in ToSet(x[l]) <=> q \in ToSet(w[l]))
             /\ r \notin ToSet(x[l])
             /\ Once(x[l], S)
  <2>1. w[l] \in Seq(Nat) /\ Once(w[l], S) /\ (r \in ToSet(w[l]) <=> -l \in {c[1], c[2]})
    OBVIOUS
  <2>2. CASE l \in {a, b}
    <3>1. x[l] = Without(w[l], {r})
      BY <1>3, <2>2
    <3>2. x[l] \in Seq(Nat) /\ ToSet(x[l]) = ToSet(w[l]) \ {r}
      BY <2>1, <3>1, WithoutIs
    <3>3. Once(x[l], S)
      BY <2>1, <3>1, OnceWithout
    <3> QED BY <3>2, <3>3
  <2>3. CASE l \notin {a, b}
    <3>1. x[l] = w[l]
      BY <1>3, <2>3
    <3>2. -l \notin {c[1], c[2]}
      BY <1>1, <2>3
    <3> QED BY <2>1, <3>1, <3>2
  <2> QED BY <2>2, <2>3
<1>5. x \in [Lits -> Seq(Nat)]
  BY <1>3, <1>4
<1> QED BY <1>4, <1>5 DEF Detached, x

(* A new clause, at the end of the region and watched.                     *)
Joins(g, h, n, c, learnt) ==
    /\ h \in RegionType /\ RegionOK(h) /\ h.sz >= g.sz
    /\ g.sz \in Nat /\ g.sz \notin DOMAIN g.mem /\ DOMAIN h.mem = DOMAIN g.mem \cup {g.sz}
    /\ Named(h) = Named(g) \cup {g.sz} /\ Live(h) = Live(g) \cup {g.sz}
    /\ SameBut(g, h, g.sz)
    /\ \A r \in DOMAIN g.mem : h.mem[r] = g.mem[r]
    /\ h.mem[g.sz].id = n /\ h.mem[g.sz].lits = c /\ h.mem[g.sz].learnt = learnt

LEMMA AddedIs ==
    ASSUME NEW c \in Added
    PROVE  Proper(c) /\ c \in Seq(Int) /\ Len(c) + 2 < Words
<1>1. /\ c \in Seq(Lits) /\ Len(c) > 1 /\ Len(c) + 2 < Words
      /\ \A i, j \in DOMAIN c : i # j => Var(c[i]) # Var(c[j])
  BY ClauseMemoryAssumption
<1>2. Lits \subseteq Int
  BY LitIs
<1>3. c \in Seq(Int)
  <2> DEFINE n == Len(c)
  <2>1. n \in Nat /\ c \in [1 .. n -> Lits]
    BY <1>1
  <2> HIDE DEF n
  <2>2. c \in [1 .. n -> Int]
    BY <1>2, <2>1
  <2> QED BY <2>1, <2>2
<1> QED BY <1>1, <1>3 DEF Proper

LEMMA JoinsIs ==
    ASSUME NEW g \in RegionType, RegionOK(g), NEW n \in Nat, n > 0,
           \A r \in DOMAIN g.mem : g.mem[r].id < n,
           NEW c \in Added, NEW learnt \in BOOLEAN, Alloc(g, Clause(n, c, learnt)).cap # None
    PROVE  Joins(g, Alloc(g, Clause(n, c, learnt)), n, c, learnt)
<1> DEFINE d == Clause(n, c, learnt)
           h == Alloc(g, d)
<1>1. Proper(c) /\ c \in Seq(Int) /\ Len(c) + 2 < Words
  BY AddedIs
<1>2. d \in ClauseType /\ d.lits = c /\ d.id = n /\ d.learnt = learnt /\ ~ d.removed
  BY <1>1 DEF Clause, ClauseType, Undef
<1>3. \A r \in DOMAIN g.mem : g.mem[r].id # d.id
  <2>1. \A r \in DOMAIN g.mem : g.mem[r].id \in Nat
    BY RegionFacts DEF ClauseType
  <2> QED BY <1>2, <2>1
<1> HIDE DEF d
<1>4. /\ h \in RegionType /\ RegionOK(h)
      /\ g.sz \notin DOMAIN g.mem /\ DOMAIN h.mem = DOMAIN g.mem \cup {g.sz}
      /\ h.mem[g.sz] = Placed(g, d) /\ \A r \in DOMAIN g.mem : h.mem[r] = g.mem[r]
      /\ Named(h) = Named(g) \cup (IF d.id > 0 THEN {g.sz} ELSE {})
      /\ Live(h) = Live(g) \cup (IF d.id > 0 THEN {g.sz} ELSE {})
      /\ h.sz = g.sz + clauseWord32Size(Placed(g, d))
  <2>1. h.cap # None
    BY DEF d
  <2>2. d.id > 0 => Proper(d.lits)
    BY <1>1, <1>2
  <2>3. Len(d.lits) + 2 < Words
    BY <1>1, <1>2
  <2> QED BY <1>2, <1>3, <2>1, <2>2, <2>3, RegionGrows
<1>5. Placed(g, d).id = n /\ Placed(g, d).lits = c /\ Placed(g, d).learnt = learnt
      /\ clauseWord32Size(Placed(g, d)) \in 1 .. Words - 1
  BY <1>1, <1>2, PlacedIs, Zenon
<1> HIDE DEF h
<1>6. g.sz \in Nat /\ h.sz >= g.sz
  <2>1. g.sz \in Nat
    BY DEF RegionType
  <2> QED BY <1>4, <1>5, <2>1
<1>7. Named(h) = Named(g) \cup {g.sz} /\ Live(h) = Live(g) \cup {g.sz}
  BY <1>2, <1>4
<1>8. SameBut(g, h, g.sz)
  <2>1. \A q \in Live(g) : q \in DOMAIN g.mem
    BY DEF Live, Named
  <2> QED BY <1>4, <1>7, <2>1 DEF SameBut
<1>9. Joins(g, h, n, c, learnt)
  BY <1>4, <1>5, <1>6, <1>7, <1>8 DEF Joins
<1> QED BY <1>9 DEF h, d

LEMMA JoinWatches ==
    ASSUME NEW g, NEW h, NEW n, NEW c, Proper(c), NEW learnt, Joins(g, h, n, c, learnt),
           NEW w \in [Lits -> Seq(Nat)], NEW d, WatchOK(g, w, d)
    PROVE  /\ WatchOK(h, Attach(w, g.sz, c), d)
           /\ Attach(w, g.sz, c) \in [Lits -> Seq(Nat)]
<1> DEFINE r == g.sz
           x == Attach(w, r, c)
<1>1. /\ r \in Nat /\ r \notin DOMAIN g.mem /\ SameBut(g, h, r) /\ Live(h) = Live(g) \cup {r}
      /\ h.mem[r].lits = c
  BY DEF Joins
<1> HIDE DEF r
<1>2. ASSUME NEW l \in Lits PROVE r \notin ToSet(w[l]) /\ Once(w[l], Live(g))
  BY <1>1 DEF WatchOK, Once, Named
<1>3. Detached(w, r, Live(g))
  BY <1>2 DEF Detached
<1>4. Attaches(w, x, r, c, Live(g))
  BY <1>1, <1>3, AttachIs
<1> HIDE DEF x
<1>5. Rewatches(h, w, x, r)
  BY <1>1, <1>4 DEF Attaches, Rewatches
<1>6. WatchOK(h, x, d)
  BY <1>1, <1>5, WatchesChange
<1> QED BY <1>4, <1>6 DEF Attaches, x, r

LEMMA JoinTrail ==
    ASSUME NEW g, NEW h, NEW n, NEW c, NEW learnt, Joins(g, h, n, c, learnt),
           NEW t, TrailOK(g, t)
    PROVE  TrailOK(h, t)
<1>1. /\ Live(h) = Live(g) \cup {g.sz} /\ \A r \in DOMAIN g.mem : h.mem[r] = g.mem[r]
  BY DEF Joins
<1>2. \A r \in Live(g) : h.mem[r] = g.mem[r]
  BY <1>1 DEF Live, Named
<1> QED BY <1>1, <1>2 DEF TrailOK

LEMMA ListAppend ==
    ASSUME NEW list \in Seq(Nat), Single(list), NEW r \in Nat, r \notin ToSet(list)
    PROVE  /\ Append(list, r) \in Seq(Nat) /\ Single(Append(list, r))
           /\ ToSet(Append(list, r)) = ToSet(list) \cup {r}
<1>1. /\ Append(list, r) \in Seq(Nat) /\ ToSet(Append(list, r)) = ToSet(list) \cup {r}
  BY AppendIs
<1>2. Once(list, ToSet(list))
  BY DEF Once, Single
<1>3. Once(Append(list, r), ToSet(list) \cup {r})
  BY <1>2, OnceAppend
<1> HIDE DEF Once
<1>4. Single(Append(list, r))
  <2> DEFINE a == Append(list, r)
  <2>1. \A i \in DOMAIN a : a[i] \in ToSet(a)
    BY DEF ToSet
  <2> QED BY <1>1, <1>3, <2>1 DEF Single, Once
<1> QED BY <1>1, <1>4

LEMMA AddContinues ==
    Valid(State) /\ made \in Nat /\ (\A r \in DOMAIN ca.mem : ca.mem[r].id <= made) /\ addClause /\ Running'
    => /\ Valid(State') /\ ca'.sz >= ca.sz
       /\ made' \in Nat /\ \A r \in DOMAIN ca'.mem : ca'.mem[r].id <= made'
<1> SUFFICES ASSUME Valid(State), made \in Nat, \A r \in DOMAIN ca.mem : ca.mem[r].id <= made,
                    addClause, Running'
             PROVE  /\ Valid(State') /\ ca'.sz >= ca.sz
                    /\ made' \in Nat /\ \A r \in DOMAIN ca'.mem : ca'.mem[r].id <= made'
  OBVIOUS
<1>1. /\ ca \in RegionType /\ RegionOK(ca) /\ WatchOK(ca, watches, dirty)
      /\ TrailOK(ca, trail) /\ SimpOK(State) /\ ListsOK(State) /\ Settled(State)
      /\ clauses \in Seq(Nat) /\ learnts \in Seq(Nat) /\ watches \in [Lits -> Seq(Nat)]
      /\ dirty \subseteq Lits /\ occurs \in [Vars -> Seq(Nat)]
      /\ subsumption_queue \in Seq(Nat) /\ bwdsub_tmpunit \in Nat
      /\ trail \in Seq(EntryType) /\ use_simplification \in BOOLEAN
  BY StateIs
<1>2. made' = made + 1 /\ UNCHANGED <<learnts, dirty, bwdsub_tmpunit, trail, use_simplification>>
  BY DEF addClause, New
<1>3. PICK c \in Added :
         /\ ca' = Alloc(ca, Clause(made', c, FALSE))
         /\ clauses' = Append(clauses, ca.sz)
         /\ watches' = Attach(watches, ca.sz, c)
         /\ IF use_simplification
            THEN /\ subsumption_queue' = Append(subsumption_queue, ca.sz)
                 /\ occurs' = [v \in Vars |-> IF v \in {Var(l) : l \in ToSet(c)}
                                              THEN Append(occurs[v], ca.sz) ELSE occurs[v]]
            ELSE UNCHANGED <<subsumption_queue, occurs>>
  BY DEF addClause
<1> DEFINE r == ca.sz
<1>4. Joins(ca, ca', made', c, FALSE)
  <2>1. made' \in Nat /\ made' > 0 /\ \A q \in DOMAIN ca.mem : ca.mem[q].id < made'
    <3>1. \A q \in DOMAIN ca.mem : ca.mem[q].id \in Nat
      BY <1>1, RegionFacts DEF ClauseType
    <3> QED BY <1>2, <3>1
  <2>2. Alloc(ca, Clause(made', c, FALSE)).cap # None
    BY <1>3 DEF Running, OutOfMemory
  <2> QED BY <1>1, <1>3, <2>1, <2>2, JoinsIs
<1>5. /\ ca' \in RegionType /\ RegionOK(ca') /\ ca'.sz >= ca.sz
      /\ r \in Nat /\ r \notin DOMAIN ca.mem /\ DOMAIN ca'.mem = DOMAIN ca.mem \cup {r}
      /\ Named(ca') = Named(ca) \cup {r} /\ Live(ca') = Live(ca) \cup {r} /\ SameBut(ca, ca', r)
      /\ \A q \in DOMAIN ca.mem : ca'.mem[q] = ca.mem[q]
      /\ ca'.mem[r].id = made' /\ ca'.mem[r].lits = c /\ ca'.mem[r].learnt = FALSE
  BY <1>4 DEF Joins
<1>6. WatchOK(ca', watches', dirty') /\ watches' \in [Lits -> Seq(Nat)] /\ TrailOK(ca', trail')
  <2>1. Proper(c)
    BY AddedIs
  <2> QED BY <1>1, <1>2, <1>3, <1>4, <2>1, JoinWatches, JoinTrail
<1> HIDE DEF r
<1>7. State.ca = ca /\ State.clauses = clauses /\ State.learnts = learnts /\ State.simp = use_simplification
      /\ State.occurs = occurs /\ State.queue = subsumption_queue /\ State.tmpunit = bwdsub_tmpunit
      /\ State'.ca = ca' /\ State'.clauses = clauses' /\ State'.learnts = learnts
      /\ State'.simp = use_simplification
      /\ State'.occurs = occurs' /\ State'.queue = subsumption_queue' /\ State'.tmpunit = bwdsub_tmpunit
  BY <1>2 DEF State
<1>8. Live(ca) \subseteq Named(ca) /\ Named(ca) \subseteq DOMAIN ca.mem
  BY DEF Live, Named
<1>9. Single(clauses) /\ ToSet(clauses) \subseteq Named(ca) /\ (\A q \in ToSet(clauses) : ~ ca.mem[q].learnt)
      /\ Single(learnts) /\ (\A q \in ToSet(learnts) : q \in Live(ca) /\ ca.mem[q].learnt)
      /\ (use_simplification => learnts = <<>>)
      /\ (use_simplification \/ ToSet(clauses) \subseteq Live(ca))
  BY <1>1, <1>7 DEF ListsOK, Settled
<1>10. /\ clauses' \in Seq(Nat) /\ Single(clauses') /\ ToSet(clauses') = ToSet(clauses) \cup {r}
  <2>1. r \notin ToSet(clauses) /\ clauses' = Append(clauses, r)
    BY <1>3, <1>5, <1>8, <1>9 DEF r
  <2> QED BY <1>1, <1>5, <1>9, <2>1, ListAppend
<1>11. ListsOK(State') /\ Settled(State')
  <2>1. \A q \in ToSet(clauses') : q \in Named(ca') /\ ~ ca'.mem[q].learnt
    BY <1>5, <1>8, <1>9, <1>10
  <2>2. \A q \in ToSet(learnts) : q \in Live(ca') /\ ca'.mem[q].learnt
    BY <1>5, <1>8, <1>9
  <2>3. use_simplification \/ ToSet(clauses') \subseteq Live(ca')
    BY <1>5, <1>9, <1>10
  <2> QED BY <1>7, <1>9, <1>10, <2>1, <2>2, <2>3 DEF ListsOK, Settled
<1>12. subsumption_queue' \in Seq(Nat) /\ occurs' \in [Vars -> Seq(Nat)] /\ SimpOK(State')
  <2>1. CASE use_simplification
    <3>1. /\ OccursOK(ca, occurs) /\ ToSet(subsumption_queue) \subseteq DOMAIN ca.mem
          /\ bwdsub_tmpunit \in DOMAIN ca.mem \ Named(ca) /\ ~ ca.mem[bwdsub_tmpunit].removed
      BY <1>1, <1>7, <2>1 DEF SimpOK
    <3>2. subsumption_queue' = Append(subsumption_queue, r)
      BY <1>3, <2>1 DEF r
    <3>3. subsumption_queue' \in Seq(Nat) /\ ToSet(subsumption_queue') \subseteq DOMAIN ca'.mem
      <4>1. subsumption_queue' \in Seq(Nat) /\ ToSet(subsumption_queue') = ToSet(subsumption_queue) \cup {r}
        <5>1. subsumption_queue \in Seq(Nat) /\ r \in Nat
          BY <1>1, <1>5
        <5> QED BY <3>2, <5>1, AppendIs
      <4> QED BY <1>5, <3>1, <4>1
    <3>4. VarsOf(c) = {Var(l) : l \in ToSet(c)}
      <4>1. \A l : l \in ToSet(c) <=> \E k \in DOMAIN c : l = c[k]
        BY DEF ToSet
      <4> QED BY <4>1 DEF VarsOf
    <3>5. occurs' = [v \in Vars |-> IF v \in VarsOf(c) THEN Append(occurs[v], r) ELSE occurs[v]]
      BY <1>3, <2>1, <3>4 DEF r
    <3>6. ASSUME NEW v \in Vars
          PROVE  /\ occurs'[v] \in Seq(Nat)
                 /\ \A q : q # r => (q \in ToSet(occurs'[v]) <=> q \in ToSet(occurs[v]))
                 /\ r \in ToSet(occurs'[v]) <=> v \in VarsOf(c)
      <4>1. occurs[v] \in Seq(Nat) /\ r \notin ToSet(occurs[v])
        BY <1>1, <1>5, <1>8, <3>1 DEF OccursOK
      <4>2. CASE v \in VarsOf(c)
        <5>1. occurs'[v] = Append(occurs[v], r)
          BY <3>5, <4>2
        <5>2. occurs'[v] \in Seq(Nat) /\ ToSet(occurs'[v]) = ToSet(occurs[v]) \cup {r}
          BY <1>5, <4>1, <5>1, AppendIs
        <5> QED BY <4>2, <5>2
      <4>3. CASE v \notin VarsOf(c)
        <5>1. occurs'[v] = occurs[v]
          BY <3>5, <4>3
        <5> QED BY <4>1, <4>3, <5>1
      <4> QED BY <4>2, <4>3
    <3>7. OccursOK(ca', occurs')
      <4>1. Reoccurs(ca', occurs, occurs', r)
        BY <1>5, <3>6 DEF Reoccurs
      <4> QED BY <1>5, <3>1, <4>1, OccursChange
    <3>8. occurs' \in [Vars -> Seq(Nat)]
      <4>1. occurs' = [v \in Vars |-> occurs'[v]]
        BY <3>5
      <4> QED BY <3>6, <4>1
    <3>9. bwdsub_tmpunit \in DOMAIN ca'.mem \ Named(ca') /\ ~ ca'.mem[bwdsub_tmpunit].removed
      BY <1>5, <3>1
    <3> QED BY <1>7, <3>3, <3>7, <3>8, <3>9 DEF SimpOK
  <2>2. CASE ~ use_simplification
    <3>1. subsumption_queue' = subsumption_queue /\ occurs' = occurs
      BY <1>3, <2>2
    <3> QED BY <1>1, <1>7, <2>2, <3>1 DEF SimpOK
  <2> QED BY <2>1, <2>2
<1>13. Valid(State')
  BY <1>1, <1>2, <1>5, <1>6, <1>10, <1>11, <1>12, Built
<1>14. made' \in Nat /\ \A q \in DOMAIN ca'.mem : ca'.mem[q].id <= made'
  <2>1. \A q \in DOMAIN ca.mem : ca.mem[q].id \in Nat
    BY <1>1, RegionFacts DEF ClauseType
  <2> QED BY <1>2, <1>5, <2>1
<1> QED BY <1>5, <1>13, <1>14

LEMMA LearnContinues ==
    Valid(State) /\ made \in Nat /\ (\A r \in DOMAIN ca.mem : ca.mem[r].id <= made) /\ learn /\ Running'
    => /\ Valid(State') /\ ca'.sz >= ca.sz
       /\ made' \in Nat /\ \A r \in DOMAIN ca'.mem : ca'.mem[r].id <= made'
<1> SUFFICES ASSUME Valid(State), made \in Nat, \A r \in DOMAIN ca.mem : ca.mem[r].id <= made,
                    learn, Running'
             PROVE  /\ Valid(State') /\ ca'.sz >= ca.sz
                    /\ made' \in Nat /\ \A r \in DOMAIN ca'.mem : ca'.mem[r].id <= made'
  OBVIOUS
<1>1. /\ ca \in RegionType /\ RegionOK(ca) /\ WatchOK(ca, watches, dirty)
      /\ TrailOK(ca, trail) /\ SimpOK(State) /\ ListsOK(State) /\ Settled(State)
      /\ clauses \in Seq(Nat) /\ learnts \in Seq(Nat) /\ watches \in [Lits -> Seq(Nat)]
      /\ dirty \subseteq Lits /\ occurs \in [Vars -> Seq(Nat)]
      /\ subsumption_queue \in Seq(Nat) /\ bwdsub_tmpunit \in Nat
      /\ trail \in Seq(EntryType) /\ use_simplification \in BOOLEAN
  BY StateIs
<1>2. /\ made' = made + 1
      /\ UNCHANGED <<clauses, dirty, occurs, subsumption_queue, bwdsub_tmpunit, use_simplification>>
  BY DEF learn, New
<1>3. PICK c \in Added :
         /\ ~ IsTrue(c[1]) /\ \A k \in DOMAIN c : IsFalse(c[k]) <=> k > 1
         /\ ca' = Alloc(ca, Clause(made', c, TRUE))
         /\ learnts' = Append(learnts, ca.sz)
         /\ watches' = Attach(watches, ca.sz, c)
         /\ trail' = Because(c[1], ca.sz)
  BY DEF learn
<1> DEFINE r == ca.sz
<1>4. Joins(ca, ca', made', c, TRUE)
  <2>1. made' \in Nat /\ made' > 0 /\ \A q \in DOMAIN ca.mem : ca.mem[q].id < made'
    <3>1. \A q \in DOMAIN ca.mem : ca.mem[q].id \in Nat
      BY <1>1, RegionFacts DEF ClauseType
    <3> QED BY <1>2, <3>1
  <2>2. Alloc(ca, Clause(made', c, TRUE)).cap # None
    BY <1>3 DEF Running, OutOfMemory
  <2> QED BY <1>1, <1>3, <2>1, <2>2, JoinsIs
<1>5. /\ ca' \in RegionType /\ RegionOK(ca') /\ ca'.sz >= ca.sz
      /\ r \in Nat /\ r \notin DOMAIN ca.mem /\ DOMAIN ca'.mem = DOMAIN ca.mem \cup {r}
      /\ Named(ca') = Named(ca) \cup {r} /\ Live(ca') = Live(ca) \cup {r}
      /\ \A q \in DOMAIN ca.mem : ca'.mem[q] = ca.mem[q]
      /\ ca'.mem[r].id = made' /\ ca'.mem[r].lits = c /\ ca'.mem[r].learnt = TRUE
  BY <1>4 DEF Joins
<1>6. WatchOK(ca', watches', dirty') /\ watches' \in [Lits -> Seq(Nat)]
  <2>1. Proper(c)
    BY AddedIs
  <2> QED BY <1>1, <1>2, <1>3, <1>4, <2>1, JoinWatches
<1> HIDE DEF r
<1>7. TrailOK(ca', trail') /\ trail' \in Seq(EntryType)
  <2>1. TrailOK(ca', trail)
    BY <1>1, <1>4, JoinTrail
  <2>2. c[1] \in Lits /\ 1 \in DOMAIN c
    BY AddedIs, ProperIs
  <2>3. \A i \in DOMAIN trail : trail[i].lit # -c[1]
    <3>1. ~ IsFalse(c[1])
      BY <1>3, <2>2
    <3> QED BY <3>1 DEF IsFalse, IsTrue
  <2>4. r \in Live(ca') /\ ca'.mem[r].lits[1] = c[1]
    BY <1>5
  <2>5. trail' = Append(trail, Entry(c[1], r))
    BY <1>3 DEF Because, Entry, r
  <2>6. TrailOK(ca', Append(trail, Entry(c[1], r))) /\ Append(trail, Entry(c[1], r)) \in Seq(EntryType)
    BY <1>1, <1>5, <2>1, <2>2, <2>3, <2>4, TrailAppend
  <2> QED BY <2>5, <2>6
<1>8. ~ use_simplification
  BY DEF learn
<1>9. State.ca = ca /\ State.clauses = clauses /\ State.learnts = learnts /\ State.simp = use_simplification
      /\ State'.ca = ca' /\ State'.clauses = clauses /\ State'.learnts = learnts'
      /\ State'.simp = use_simplification
  BY <1>2 DEF State
<1>10. Live(ca) \subseteq Named(ca) /\ Named(ca) \subseteq DOMAIN ca.mem
  BY DEF Live, Named
<1>11. Single(clauses) /\ ToSet(clauses) \subseteq Live(ca) /\ (\A q \in ToSet(clauses) : ~ ca.mem[q].learnt)
      /\ Single(learnts) /\ (\A q \in ToSet(learnts) : q \in Live(ca) /\ ca.mem[q].learnt)
  BY <1>1, <1>8, <1>9 DEF ListsOK, Settled
<1>12. /\ learnts' \in Seq(Nat) /\ Single(learnts') /\ ToSet(learnts') = ToSet(learnts) \cup {r}
  <2>1. r \notin ToSet(learnts) /\ learnts' = Append(learnts, r)
    BY <1>3, <1>5, <1>10, <1>11 DEF r
  <2> QED BY <1>1, <1>5, <1>11, <2>1, ListAppend
<1>13. ListsOK(State') /\ Settled(State')
  <2>1. \A q \in ToSet(clauses) : q \in Live(ca') /\ q \in Named(ca') /\ ~ ca'.mem[q].learnt
    BY <1>5, <1>10, <1>11
  <2>2. \A q \in ToSet(learnts') : q \in Live(ca') /\ ca'.mem[q].learnt
    BY <1>5, <1>10, <1>11, <1>12
  <2> QED BY <1>8, <1>9, <1>11, <1>12, <2>1, <2>2 DEF ListsOK, Settled
<1>14. SimpOK(State')
  BY <1>8, <1>9 DEF SimpOK
<1>15. Valid(State')
  BY <1>1, <1>2, <1>5, <1>6, <1>7, <1>12, <1>13, <1>14, Built
<1>16. made' \in Nat /\ \A q \in DOMAIN ca'.mem : ca'.mem[q].id <= made'
  <2>1. \A q \in DOMAIN ca.mem : ca.mem[q].id \in Nat
    BY <1>1, RegionFacts DEF ClauseType
  <2> QED BY <1>2, <1>5, <2>1
<1> QED BY <1>5, <1>15, <1>16

(* A clause to look at again, and one that is removed gets shorter.        *)
LEMMA ValidQueue ==
    ASSUME NEW s, Valid(s), NEW r \in Nat, r \in DOMAIN s.ca.mem
    PROVE  Valid([s EXCEPT !.queue = Append(s.queue, r)])
<1> DEFINE q == Append(s.queue, r)
           t == [s EXCEPT !.queue = q]
<1>1. Core(s) /\ ListsOK(s) /\ Settled(s) /\ s \in StateType /\ SimpOK(s) /\ s.queue \in Seq(Nat)
  BY DEF Valid, Core, StateType
<1>2. q \in Seq(Nat) /\ ToSet(q) = ToSet(s.queue) \cup {r}
  BY <1>1, AppendIs
<1> HIDE DEF q
<1>3. /\ t \in StateType /\ t.ca = s.ca /\ t.watches = s.watches /\ t.dirty = s.dirty /\ t.trail = s.trail
      /\ t.simp = s.simp /\ t.occurs = s.occurs /\ t.queue = q /\ t.tmpunit = s.tmpunit
      /\ t.learnts = s.learnts /\ t.clauses = s.clauses
  BY <1>1, <1>2 DEF StateType
<1> HIDE DEF t
<1>4. Core(t)
  BY <1>1, <1>2, <1>3 DEF Core, SimpOK
<1>5. ListsOK(t) /\ Settled(t)
  BY <1>1, <1>3 DEF ListsOK, Settled
<1> QED BY <1>4, <1>5 DEF Valid, t, q

LEMMA ValidShortened ==
    ASSUME NEW s, Valid(s), s.simp, NEW r \in Named(s.ca), r \notin Live(s.ca),
           NEW new \in Seq(Int), Len(new) <= Len(s.ca.mem[r].lits)
    PROVE  LET t == [s EXCEPT !.ca = Shortened(s.ca, r, new)]
           IN  Valid(t) /\ SameRoom(s.ca, t.ca)
<1> DEFINE g == s.ca
           h == Shortened(g, r, new)
           t == [s EXCEPT !.ca = h]
<1>1. /\ Core(s) /\ ListsOK(s) /\ Settled(s) /\ s \in StateType /\ SimpOK(s)
      /\ g \in RegionType /\ RegionOK(g) /\ WatchOK(g, s.watches, s.dirty) /\ TrailOK(g, s.trail)
  BY DEF Valid, Core, StateType
<1>2. r \in DOMAIN g.mem /\ g.mem[r] \in ClauseType
  <2>1. r \in DOMAIN g.mem
    BY DEF Named
  <2> QED BY <1>1, <2>1, RegionFacts
<1>3. /\ h \in RegionType /\ RegionOK(h) /\ DOMAIN h.mem = DOMAIN g.mem
      /\ h.mem[r] = [g.mem[r] EXCEPT !.lits = new]
      /\ \A q \in DOMAIN g.mem : q # r => h.mem[q] = g.mem[q]
      /\ Named(h) = Named(g) /\ Live(h) = Live(g)
      /\ h.sz = g.sz /\ h.cap = g.cap /\ h.wasted = g.wasted
  BY <1>1, <1>2, RegionShortens
<1> HIDE DEF h
<1>4. /\ t \in StateType /\ t.ca = h /\ t.watches = s.watches /\ t.dirty = s.dirty /\ t.trail = s.trail
      /\ t.simp = s.simp /\ t.occurs = s.occurs /\ t.queue = s.queue /\ t.tmpunit = s.tmpunit
      /\ t.learnts = s.learnts /\ t.clauses = s.clauses
  BY <1>1, <1>3 DEF StateType
<1>5. \A q \in Live(g) : q \in DOMAIN g.mem /\ h.mem[q] = g.mem[q]
  BY <1>3 DEF Live, Named
<1>6. WatchOK(h, s.watches, s.dirty) /\ TrailOK(h, s.trail)
  BY <1>1, <1>3, <1>5 DEF WatchOK, TrailOK
<1>7. /\ h.mem[r].id = g.mem[r].id /\ h.mem[r].learnt = g.mem[r].learnt
      /\ h.mem[r].removed = g.mem[r].removed
  BY <1>2, <1>3 DEF ClauseType
<1>8. \A q \in DOMAIN g.mem : /\ h.mem[q].id = g.mem[q].id /\ h.mem[q].learnt = g.mem[q].learnt
                              /\ h.mem[q].removed = g.mem[q].removed
  BY <1>3, <1>7
<1>9. OccursOK(h, s.occurs)
  <2>1. OccursOK(g, s.occurs)
    BY <1>1 DEF SimpOK
  <2> QED BY <1>3, <1>5, <2>1 DEF OccursOK
<1> HIDE DEF t
<1>10. SimpOK(t)
  BY <1>1, <1>3, <1>4, <1>8, <1>9 DEF SimpOK
<1>11. ListsOK(t) /\ Settled(t)
  BY <1>1, <1>3, <1>4, <1>8, ListsSame
<1>12. Valid(t)
  BY <1>3, <1>4, <1>6, <1>10, <1>11 DEF Valid, Core
<1>13. SameRoom(g, h)
  <2>1. g.wasted \in Nat
    BY <1>1 DEF RegionType
  <2>2. h.wasted >= g.wasted
    BY <1>3, <2>1
  <2> QED BY <1>3, <1>8, <2>2 DEF SameRoom
<1> QED BY <1>4, <1>12, <1>13 DEF t, h

(* A clause without one of its literals.                                   *)
LEMMA RestIs ==
    ASSUME NEW c, Proper(c), NEW k \in DOMAIN c
    PROVE  LET rest == RemoveAt(c, k)
           IN  /\ rest \in Seq(Int) /\ Len(rest) <= Len(c) /\ rest[1] \in Lits
               /\ Len(c) > 2 => Proper(rest)
               /\ VarsOf(rest) = VarsOf(c) \ {Var(c[k])}
               /\ k # 1 => rest[1] = c[1]
<1> DEFINE rest == RemoveAt(c, k)
           n == Len(c)
           from(i) == IF i < k THEN i ELSE i + 1
<1>1. /\ c \in Seq(Lits) /\ n > 1 /\ n \in Nat /\ DOMAIN c = 1 .. n /\ k \in 1 .. n
      /\ \A i, j \in DOMAIN c : i # j => Var(c[i]) # Var(c[j])
  BY DEF Proper
<1>2. /\ rest \in Seq(Lits) /\ Len(rest) = n - 1
      /\ \A i \in 1 .. n - 1 : rest[i] = IF i < k THEN c[i] ELSE c[i + 1]
  BY <1>1, RemoveAtIs, Zenon
<1> HIDE DEF rest, n
<1>3. DOMAIN rest = 1 .. n - 1 /\ \A i \in 1 .. n - 1 : rest[i] = c[from(i)] /\ from(i) \in 1 .. n /\ from(i) # k
  BY <1>1, <1>2
<1>4. \A i, j \in 1 .. n - 1 : i # j => from(i) # from(j)
  BY <1>1
<1>5. \A m \in 1 .. n : m # k => \E i \in 1 .. n - 1 : from(i) = m
  <2>1. ASSUME NEW m \in 1 .. n, m < k PROVE m \in 1 .. n - 1 /\ from(m) = m
    BY <1>1, <2>1
  <2>2. ASSUME NEW m \in 1 .. n, m > k PROVE m - 1 \in 1 .. n - 1 /\ from(m - 1) = m
    BY <1>1, <2>2
  <2>3. \A m \in 1 .. n : m # k => m < k \/ m > k
    BY <1>1
  <2> HIDE DEF from
  <2> QED BY <2>1, <2>2, <2>3
<1>6. k # 1 => from(1) = 1
  BY <1>1
<1>7. 1 \in 1 .. n - 1 /\ n - 1 <= n
  BY <1>1
<1> HIDE DEF from
<1>8. rest \in Seq(Int)
  <2>1. Lits \subseteq Int
    BY LitIs
  <2> DEFINE m == Len(rest)
  <2>2. m \in Nat /\ rest \in [1 .. m -> Lits]
    BY <1>2
  <2> HIDE DEF m
  <2>3. rest \in [1 .. m -> Int]
    BY <2>1, <2>2
  <2> QED BY <2>2, <2>3
<1>9. n > 2 => Proper(rest)
  <2>1. ASSUME NEW i \in DOMAIN rest, NEW j \in DOMAIN rest, i # j PROVE Var(rest[i]) # Var(rest[j])
    BY <1>1, <1>3, <1>4, <2>1
  <2>2. n > 2 => Len(rest) > 1
    BY <1>1, <1>2
  <2> QED BY <1>2, <2>1, <2>2 DEF Proper
<1>10. VarsOf(rest) = VarsOf(c) \ {Var(c[k])}
  <2>1. ASSUME NEW i \in DOMAIN rest PROVE \E m \in DOMAIN c : m # k /\ rest[i] = c[m]
    BY <1>1, <1>3
  <2>2. ASSUME NEW m \in DOMAIN c, m # k PROVE \E i \in DOMAIN rest : rest[i] = c[m]
    BY <1>1, <1>3, <1>5, <2>2
  <2>3. \A m \in DOMAIN c : Var(c[m]) = Var(c[k]) <=> m = k
    BY <1>1
  <2>4. ASSUME NEW v \in VarsOf(rest) PROVE v \in VarsOf(c) /\ v # Var(c[k])
    <3>1. PICK i \in DOMAIN rest : v = Var(rest[i])
      BY <2>4 DEF VarsOf
    <3>2. PICK m \in DOMAIN c : m # k /\ rest[i] = c[m]
      BY <2>1
    <3> QED BY <2>3, <3>1, <3>2 DEF VarsOf
  <2>5. ASSUME NEW v \in VarsOf(c), v # Var(c[k]) PROVE v \in VarsOf(rest)
    <3>1. PICK m \in DOMAIN c : v = Var(c[m])
      BY <2>5 DEF VarsOf
    <3>2. PICK i \in DOMAIN rest : rest[i] = c[m]
      BY <2>2, <2>5, <3>1
    <3> QED BY <3>1, <3>2 DEF VarsOf
  <2> QED BY <2>4, <2>5
<1>11. rest[1] \in Lits /\ (k # 1 => rest[1] = c[1])
  BY <1>2, <1>3, <1>6, <1>7
<1>12. Len(rest) <= n
  BY <1>2, <1>7
<1> QED BY <1>8, <1>9, <1>10, <1>11, <1>12 DEF rest, n

(* A clause of two literals is removed, and the other literal is true.     *)
LEMMA ValidShrunk ==
    ASSUME Valid(State), use_simplification, NEW r \in Live(ca), r \in Nat,
           NEW k \in DOMAIN ca.mem[r].lits, Len(ca.mem[r].lits) = 2
    PROVE  LET rest == RemoveAt(ca.mem[r].lits, k)
               todo == [State EXCEPT !.queue = Append(@, r)]
               gone == [RemoveClause(todo, r) EXCEPT !.ca.mem[r].lits = rest]
               t    == [gone EXCEPT !.trail = IF Unassigned(rest[1])
                                              THEN Append(@, [lit |-> rest[1], reason |-> Undef])
                                              ELSE @]
           IN  Valid(t) /\ SameRoom(ca, t.ca)
<1> DEFINE c    == ca.mem[r].lits
           rest == RemoveAt(c, k)
           todo == [State EXCEPT !.queue = Append(@, r)]
           out  == RemoveClause(todo, r)
           gone == [out EXCEPT !.ca.mem[r].lits = rest]
           next == IF Unassigned(rest[1]) THEN Append(gone.trail, [lit |-> rest[1], reason |-> Undef])
                   ELSE gone.trail
           t    == [gone EXCEPT !.trail = next]
<1>1. Proper(c) /\ r \in Named(ca) /\ r \in DOMAIN ca.mem /\ ca \in RegionType
  <2>1. RegionOK(ca) /\ ca \in RegionType
    BY StateIs
  <2> QED BY <2>1 DEF RegionOK, ClausesOK, Live, Named
<1>2. rest \in Seq(Int) /\ Len(rest) <= Len(c) /\ rest[1] \in Lits
  BY <1>1, RestIs
<1> HIDE DEF rest
<1>3. State.ca = ca /\ State.simp = use_simplification /\ State.trail = trail
  BY DEF State
<1>4. todo = [State EXCEPT !.queue = Append(State.queue, r)]
  OBVIOUS
<1>5. Valid(todo)
  BY <1>1, <1>3, <1>4, ValidQueue
<1>6. todo.ca = ca /\ todo.simp = use_simplification /\ todo.trail = trail
  BY <1>3 DEF State
<1> HIDE DEF todo
<1>7. Valid(out) /\ Follows(todo, out) /\ Live(out.ca) = Live(ca) \ {r}
  BY <1>5, <1>6, ValidRemove
<1> HIDE DEF out
<1>8. /\ out.simp /\ r \in Named(out.ca) /\ r \notin Live(out.ca) /\ out.ca.mem[r].lits = c
      /\ SameRoom(ca, out.ca) /\ DOMAIN out.trail = DOMAIN trail
      /\ \A i \in DOMAIN trail : out.trail[i].lit = trail[i].lit
  <2>1. SameRoom(ca, out.ca)
    BY <1>6, <1>7, FollowsRoom
  <2>2. out.simp = todo.simp /\ Named(out.ca) = Named(todo.ca) /\ Loses(todo.trail, out.trail, Live(out.ca))
    BY <1>7 DEF Follows
  <2>3. out.ca.mem[r].lits = ca.mem[r].lits
    BY <1>1, <1>6, <1>7 DEF Follows
  <2>4. DOMAIN out.trail = DOMAIN trail /\ \A i \in DOMAIN trail : out.trail[i].lit = trail[i].lit
    BY <1>6, <2>2 DEF Loses
  <2> QED BY <1>1, <1>6, <1>7, <2>1, <2>2, <2>3, <2>4
<1>9. gone = [out EXCEPT !.ca = Shortened(out.ca, r, rest)]
  BY DEF Shortened
<1>10. Valid(gone) /\ SameRoom(out.ca, gone.ca)
  <2>1. Len(rest) <= Len(out.ca.mem[r].lits)
    BY <1>2, <1>8
  <2>2. LET u == [out EXCEPT !.ca = Shortened(out.ca, r, rest)] IN Valid(u) /\ SameRoom(out.ca, u.ca)
    BY <1>2, <1>7, <1>8, <2>1, ValidShortened
  <2> QED BY <1>9, <2>2
<1>11. gone.trail = out.trail
  BY <1>7, <1>9 DEF Valid, Core, StateType
<1> HIDE DEF gone
<1>12. SameRoom(ca, gone.ca)
  <2>1. out.ca \in RegionType /\ gone.ca \in RegionType
    BY <1>7, <1>10 DEF Valid, Core, StateType
  <2> QED BY <1>1, <1>8, <1>10, <2>1, RoomTwice
<1>13. TrailOK(gone.ca, gone.trail) /\ gone.trail \in Seq(EntryType) /\ gone \in StateType
  BY <1>10 DEF Valid, Core, StateType
<1>14. TrailOK(gone.ca, next) /\ next \in Seq(EntryType)
  <2>1. CASE Unassigned(rest[1])
    <3>1. \A i \in DOMAIN gone.trail : gone.trail[i].lit # -rest[1]
      <4>1. \A i \in DOMAIN trail : trail[i].lit # -rest[1]
        BY <2>1 DEF Unassigned, IsFalse, IsTrue
      <4> QED BY <1>8, <1>11, <4>1
    <3>2. next = Append(gone.trail, Entry(rest[1], Undef))
      BY <2>1 DEF Entry
    <3> HIDE DEF next
    <3>3. /\ TrailOK(gone.ca, Append(gone.trail, Entry(rest[1], Undef)))
          /\ Append(gone.trail, Entry(rest[1], Undef)) \in Seq(EntryType)
      BY <1>2, <1>13, <3>1, TrailAppend
    <3> QED BY <3>2, <3>3
  <2>2. CASE ~ Unassigned(rest[1])
    BY <1>13, <2>2
  <2> QED BY <2>1, <2>2
<1> HIDE DEF next
<1>15. Valid(t) /\ t.ca = gone.ca
  BY <1>10, <1>13, <1>14, ValidTrail DEF StateType
<1> QED BY <1>12, <1>15 DEF t, next, gone, out, todo, rest

LEMMA StrengthenContinues ==
    Valid(State) /\ strengthenClause => Continues(State, State')
<1> SUFFICES ASSUME Valid(State), strengthenClause PROVE Continues(State, State')
  OBVIOUS
<1>1. /\ ca \in RegionType /\ RegionOK(ca) /\ WatchOK(ca, watches, dirty)
      /\ TrailOK(ca, trail) /\ SimpOK(State) /\ ListsOK(State) /\ Settled(State)
      /\ clauses \in Seq(Nat) /\ learnts \in Seq(Nat) /\ watches \in [Lits -> Seq(Nat)]
      /\ dirty \subseteq Lits /\ occurs \in [Vars -> Seq(Nat)]
      /\ subsumption_queue \in Seq(Nat) /\ bwdsub_tmpunit \in Nat
      /\ trail \in Seq(EntryType) /\ use_simplification \in BOOLEAN /\ State \in StateType
  BY StateIs
<1>2. use_simplification /\ State.simp = use_simplification /\ State.ca = ca /\ State.occurs = occurs
  BY DEF strengthenClause, State
<1> DEFINE Clause1(r)     == ca.mem[r].lits
           Todo(r)        == [State EXCEPT !.queue = Append(@, r)]
           Gone(r, rest)  == [RemoveClause(Todo(r), r) EXCEPT !.ca.mem[r].lits = rest]
           One(r, rest)   == [Gone(r, rest) EXCEPT !.trail = IF Unassigned(rest[1])
                                                    THEN Append(@, [lit |-> rest[1], reason |-> Undef])
                                                    ELSE @]
           Short(r, rest, v) == [Todo(r) EXCEPT !.ca.mem[r].lits = rest,
                                          !.watches = Attach(Detach(@, r, Clause1(r)), r, rest),
                                          !.occurs[v] = Without(@, {r})]
<1>3. PICK v \in Vars : \E r \in Lookup(v) : \E k \in DOMAIN Clause1(r) :
         /\ Var(Clause1(r)[k]) = v /\ ~ IsTrue(Clause1(r)[k])
         /\ IF Len(Clause1(r)) = 2
            THEN Becomes(One(r, RemoveAt(Clause1(r), k)))
            ELSE Becomes(Short(r, RemoveAt(Clause1(r), k), v))
  BY Zenon DEF strengthenClause
<1>4. PICK r \in Lookup(v) : \E k \in DOMAIN Clause1(r) :
         /\ Var(Clause1(r)[k]) = v /\ ~ IsTrue(Clause1(r)[k])
         /\ IF Len(Clause1(r)) = 2
            THEN Becomes(One(r, RemoveAt(Clause1(r), k)))
            ELSE Becomes(Short(r, RemoveAt(Clause1(r), k), v))
  BY <1>3, Zenon
<1> DEFINE c == Clause1(r)
<1>5. PICK k \in DOMAIN c :
         /\ Var(c[k]) = v /\ ~ IsTrue(c[k])
         /\ IF Len(c) = 2 THEN Becomes(One(r, RemoveAt(c, k))) ELSE Becomes(Short(r, RemoveAt(c, k), v))
  BY <1>4, Zenon
<1> DEFINE rest == RemoveAt(c, k)
<1>6. r \in Live(ca) /\ r \in Nat
  BY <1>2, LookupIs
<1>7. Proper(c) /\ r \in DOMAIN ca.mem /\ Len(c) \in Nat /\ Len(c) > 1
  <2>1. Proper(c) /\ r \in DOMAIN ca.mem
    BY <1>1, <1>6 DEF RegionOK, ClausesOK, Live, Named
  <2> HIDE DEF c
  <2> QED BY <2>1 DEF Proper
<1>8. CASE Len(c) = 2
  <2>1. Valid(One(r, rest)) /\ SameRoom(ca, One(r, rest).ca)
    BY <1>2, <1>6, <1>8, ValidShrunk, Zenon
  <2>2. Becomes(One(r, rest))
    BY <1>5, <1>8
  <2> HIDE DEF One
  <2>3. State' = One(r, rest)
    BY <2>1, <2>2, BecomesIs DEF Valid, Core
  <2> QED BY <1>2, <2>1, <2>3, RoomContinues
<1>9. CASE Len(c) > 2
  <2>1. /\ rest \in Seq(Int) /\ Len(rest) <= Len(c) /\ Proper(rest)
        /\ VarsOf(rest) = VarsOf(c) \ {Var(c[k])} /\ (k # 1 => rest[1] = c[1])
    BY <1>7, <1>9, RestIs
  <2>15. Becomes(Short(r, rest, v))
    <3>1. Len(c) # 2
      <4> DEFINE n == Len(c)
      <4>1. n \in Nat /\ n > 2
        BY <1>7, <1>9
      <4> HIDE DEF n
      <4>2. n # 2
        BY <4>1
      <4> QED BY <4>2 DEF n
    <3> HIDE DEF One, Short
    <3> QED BY <1>5, <3>1
  <2> HIDE DEF rest, Clause1
  <2> DEFINE h == Shortened(ca, r, rest)
             x == Attach(Detach(watches, r, c), r, rest)
             occ == [occurs EXCEPT ![v] = Without(@, {r})]
             q == Append(subsumption_queue, r)
  <2>2. Rewritten(ca, h, r, rest)
    BY <1>1, <1>6, <2>1, RewriteIs DEF Clause1
  <2>4. /\ ca' = h /\ watches' = x /\ occurs' = occ /\ subsumption_queue' = q
        /\ UNCHANGED <<clauses, learnts, dirty, bwdsub_tmpunit, trail, use_simplification>>
    BY <2>15 DEF Becomes, State, Shortened
  <2> HIDE DEF h, x, occ, q
  <2>5. /\ ca' \in RegionType /\ RegionOK(ca') /\ SameRoom(ca, ca')
        /\ Named(ca') = Named(ca) /\ Live(ca') = Live(ca) /\ SameBut(ca, ca', r)
        /\ (\A p \in DOMAIN ca.mem : ca'.mem[p].learnt = ca.mem[p].learnt /\ ca'.mem[p].removed = ca.mem[p].removed)
        /\ ca'.mem[r].lits = rest
    BY <2>2, <2>4 DEF Rewritten
  <2>6. WatchOK(ca', watches', dirty) /\ watches' \in [Lits -> Seq(Nat)]
    <3> DEFINE d == Detach(watches, r, c)
    <3>1. \A l \in Lits : (r \in ToSet(watches[l]) <=> -l \in {c[1], c[2]}) /\ Once(watches[l], Live(ca))
      BY <1>1, <1>6 DEF WatchOK, Once, Clause1
    <3>2. /\ Detached(d, r, Live(ca))
          /\ \A l \in Lits : \A p : p # r => (p \in ToSet(d[l]) <=> p \in ToSet(watches[l]))
      BY <1>1, <1>6, <1>7, <3>1, DetachIs
    <3> HIDE DEF d
    <3>3. Attaches(d, Attach(d, r, rest), r, rest, Live(ca))
      BY <1>6, <2>1, <3>2, AttachIs
    <3>4. watches' = Attach(d, r, rest)
      BY <2>4 DEF x, d
    <3>5. Live(ca) \cup {r} = Live(ca')
      BY <1>6, <2>5
    <3>6. Rewatches(ca', watches, watches', r) /\ watches' \in [Lits -> Seq(Nat)]
      BY <2>5, <3>2, <3>3, <3>4, <3>5 DEF Attaches, Rewatches
    <3> QED BY <1>1, <2>5, <3>6, WatchesChange
  <2>7. OccursOK(ca', occurs') /\ occurs' \in [Vars -> Seq(Nat)]
    <3>1. OccursOK(ca, occurs)
      BY <1>1, <1>2 DEF SimpOK
    <3>2. Without(occurs[v], {r}) \in Seq(Nat) /\ ToSet(Without(occurs[v], {r})) = ToSet(occurs[v]) \ {r}
      BY <1>1, WithoutIs
    <3>3. /\ occurs' \in [Vars -> Seq(Nat)] /\ occurs'[v] = Without(occurs[v], {r})
          /\ \A u \in Vars : u # v => occurs'[u] = occurs[u]
      BY <1>1, <2>4, <3>2 DEF occ
    <3>4. \A u \in Vars : r \in ToSet(occurs[u]) <=> u \in VarsOf(c)
      BY <1>6, <3>1 DEF OccursOK, Clause1
    <3>5. VarsOf(rest) = VarsOf(c) \ {v}
      BY <1>5, <2>1
    <3>6. Reoccurs(ca', occurs, occurs', r)
      <4>1. ASSUME NEW u \in Vars
            PROVE  /\ \A p : p # r => (p \in ToSet(occurs'[u]) <=> p \in ToSet(occurs[u]))
                   /\ r \in ToSet(occurs'[u]) <=> u \in VarsOf(rest)
        BY <3>2, <3>3, <3>4, <3>5
      <4> QED BY <2>5, <4>1 DEF Reoccurs
    <3> QED BY <2>5, <3>1, <3>3, <3>6, OccursChange
  <2>8. TrailOK(ca', trail')
    <3>1. (\E i \in DOMAIN trail : trail[i].reason = r) => rest[1] = ca.mem[r].lits[1]
      <4>1. ASSUME NEW i \in DOMAIN trail, trail[i].reason = r PROVE k # 1
        <5>1. r # Undef
          BY <1>6 DEF Undef
        <5>2. trail[i].lit = c[1]
          BY <1>1, <4>1, <5>1 DEF TrailOK, Clause1
        <5> QED BY <1>5, <5>2 DEF IsTrue
      <4> QED BY <2>1, <4>1 DEF Clause1
    <3>2. Rewritten(ca, ca', r, rest)
      BY <2>2, <2>4
    <3>3. TrailOK(ca', trail)
      BY <1>1, <3>1, <3>2, TrailRewrite
    <3> QED BY <2>4, <3>3
  <2>9. subsumption_queue' \in Seq(Nat) /\ ToSet(subsumption_queue') = ToSet(subsumption_queue) \cup {r}
    <3>1. subsumption_queue \in Seq(Nat) /\ r \in Nat /\ subsumption_queue' = Append(subsumption_queue, r)
      BY <1>1, <1>6, <2>4 DEF q
    <3> QED BY <3>1, AppendIs
  <2>10. /\ State.clauses = clauses /\ State.learnts = learnts
         /\ State.queue = subsumption_queue /\ State.tmpunit = bwdsub_tmpunit
         /\ State'.ca = ca' /\ State'.clauses = clauses /\ State'.learnts = learnts
         /\ State'.simp = use_simplification /\ State'.occurs = occurs' /\ State'.queue = subsumption_queue'
         /\ State'.tmpunit = bwdsub_tmpunit
    BY <2>4 DEF State
  <2>11. SimpOK(State')
    <3>1. /\ ToSet(subsumption_queue) \subseteq DOMAIN ca.mem
          /\ bwdsub_tmpunit \in DOMAIN ca.mem \ Named(ca) /\ ~ ca.mem[bwdsub_tmpunit].removed
      BY <1>1, <1>2, <2>10 DEF SimpOK
    <3>2. DOMAIN ca'.mem = DOMAIN ca.mem
      BY <2>5 DEF SameRoom
    <3>3. ToSet(subsumption_queue') \subseteq DOMAIN ca'.mem
      BY <1>7, <2>9, <3>1, <3>2
    <3>4. bwdsub_tmpunit \in DOMAIN ca'.mem \ Named(ca') /\ ~ ca'.mem[bwdsub_tmpunit].removed
      BY <2>5, <3>1, <3>2
    <3> QED BY <2>7, <2>10, <3>3, <3>4 DEF SimpOK
  <2>12. ListsOK(State') /\ Settled(State')
    <3>1. \A p \in DOMAIN State.ca.mem : State'.ca.mem[p].learnt = State.ca.mem[p].learnt
      BY <1>2, <2>5, <2>10
    <3> QED BY <1>1, <1>2, <2>5, <2>10, <3>1, ListsSame
  <2>13. Valid(State')
    BY <1>1, <2>4, <2>5, <2>6, <2>7, <2>8, <2>9, <2>11, <2>12, Built
  <2>14. SameRoom(State.ca, State'.ca)
    BY <1>2, <2>5, <2>10
  <2> QED BY <2>13, <2>14, RoomContinues
<1>10. Len(c) = 2 \/ Len(c) > 2
  <2> DEFINE n == Len(c)
  <2>1. n \in Nat /\ n > 1
    BY <1>7
  <2> HIDE DEF n
  <2>2. n = 2 \/ n > 2
    BY <2>1
  <2> QED BY <2>2 DEF n
<1> QED BY <1>8, <1>9, <1>10


LEMMA MemInit ==
    Init => MemInv
<1> SUFFICES ASSUME Init PROVE MemInv
  OBVIOUS
<1> DEFINE g == Region(2, TRUE)
           c == Clause(0, <<0>>, FALSE)
<1>1. /\ ca = Alloc(g, c) /\ bwdsub_tmpunit = 0 /\ clauses = <<>> /\ learnts = <<>>
      /\ watches = [l \in Lits |-> <<>>] /\ dirty = {} /\ occurs = [v \in Vars |-> <<>>]
      /\ subsumption_queue = <<>> /\ trail = <<>> /\ use_simplification = TRUE /\ made = 0
  BY DEF Init
<1>2. c \in ClauseType /\ c.lits = <<0>> /\ c.id = 0 /\ ~ c.removed /\ Len(c.lits) + 2 < Words
  <2>1. c = [id |-> 0, lits |-> <<0>>, learnt |-> FALSE, has_extra |-> FALSE, removed |-> FALSE,
             reloced |-> FALSE, relocation |-> -1]
    BY DEF Clause, Undef
  <2>2. <<0>> \in Seq(Int) /\ Len(<<0>>) = 1
    OBVIOUS
  <2> HIDE DEF c
  <2>3. c \in ClauseType /\ c.lits = <<0>> /\ c.id = 0 /\ ~ c.removed
    BY <2>1, <2>2 DEF ClauseType
  <2> QED BY <2>2, <2>3, ClauseMemoryAssumption
<1> HIDE DEF c
<1>3. CASE g.cap = None
  <2>1. ca = [g EXCEPT !.cap = None]
    BY <1>1, <1>3 DEF Alloc, OutOfMemory
  <2>2. ca = [mem |-> <<>>, sz |-> 0, cap |-> -1, wasted |-> 0, extra_clause_field |-> TRUE]
    BY <2>1 DEF Region, None
  <2>3. ca \in RegionType
    <3>1. <<>> \in UNION {[D -> ClauseType] : D \in SUBSET Nat}
      <4>1. <<>> \in [{} -> ClauseType]
        OBVIOUS
      <4> QED BY <4>1
    <3> QED BY <2>2, <3>1 DEF RegionType
  <2>4. ~ Running
    BY <2>2 DEF Running, OutOfMemory, None
  <2> QED BY <1>1, <2>3, <2>4 DEF MemInv
<1>4. CASE g.cap # None
  <2>1. /\ g \in RegionType /\ RegionOK(g) /\ DOMAIN g.mem = {} /\ g.sz = 0
    <3>1. g.cap = Capacity(0, 2)
      BY DEF Region
    <3>2. Capacity(0, 2) # None
      <4> HIDE DEF g
      <4> QED BY <1>4, <3>1
    <3>3. 2 \in Int
      OBVIOUS
    <3>4. TRUE \in BOOLEAN
      OBVIOUS
    <3>5. LET h == Region(2, TRUE)
          IN  h \in RegionType /\ RegionOK(h) /\ DOMAIN h.mem = {} /\ h.sz = 0
      BY <3>2, <3>3, <3>4, RegionEmpty
    <3> QED BY <3>5
  <2> HIDE DEF g
  <2>2. ca \in RegionType
    <3>1. /\ g.sz \in Capacities /\ g.cap \in Capacities /\ Capacity(0, g.cap) = g.cap
          /\ \A r \in DOMAIN g.mem : r < g.sz
      BY <2>1 DEF RegionOK, SizesOK, PlacesOK
    <3> QED BY <1>1, <1>2, <2>1, <3>1, AllocIs
  <2>3. ASSUME Running PROVE Valid(State) /\ \A r \in DOMAIN ca.mem : ca.mem[r].id <= made
    <3>1. Alloc(g, c).cap # None
      BY <1>1, <2>3 DEF Running, OutOfMemory
    <3>2. /\ RegionOK(ca) /\ DOMAIN ca.mem = {0} /\ ca.mem[0] = Placed(g, c)
          /\ Named(ca) = {} /\ Live(ca) = {}
      <4>1. \A r \in DOMAIN g.mem : g.mem[r].id # c.id
        BY <2>1
      <4>2. Named(g) = {} /\ Live(g) = {} /\ ~ (c.id > 0)
        BY <1>2, <2>1 DEF Named, Live
      <4>3. /\ RegionOK(ca) /\ DOMAIN ca.mem = DOMAIN g.mem \cup {g.sz}
            /\ ca.mem[g.sz] = Placed(g, c)
            /\ Named(ca) = Named(g) \cup (IF c.id > 0 THEN {g.sz} ELSE {})
            /\ Live(ca) = Live(g) \cup (IF c.id > 0 THEN {g.sz} ELSE {})
        BY <1>1, <1>2, <2>1, <3>1, <4>1, <4>2, RegionGrows
      <4> QED BY <2>1, <4>2, <4>3
    <3>3. ca.mem[0].id = 0 /\ ~ ca.mem[0].removed
      <4>1. Placed(g, c).id = c.id /\ Placed(g, c).removed = c.removed
        BY <1>2, <2>1, PlacedIs, Zenon
      <4> QED BY <1>2, <3>2, <4>1
    <3>4. WatchOK(ca, watches, dirty) /\ watches \in [Lits -> Seq(Nat)]
      <4>1. \A l \in Lits : watches[l] = <<>> /\ ToSet(watches[l]) = {}
        BY <1>1 DEF ToSet
      <4> QED BY <1>1, <3>2, <4>1 DEF WatchOK
    <3>5. TrailOK(ca, trail) /\ trail \in Seq(EntryType)
      BY <1>1 DEF TrailOK
    <3>6. State.ca = ca /\ State.clauses = <<>> /\ State.learnts = <<>> /\ State.simp = TRUE
          /\ State.occurs = occurs /\ State.queue = <<>> /\ State.tmpunit = 0
          /\ State.watches = watches /\ State.dirty = dirty /\ State.trail = trail
      BY <1>1 DEF State
    <3>7. SimpOK(State)
      <4>1. \A v \in Vars : ToSet(occurs[v]) = {}
        BY <1>1 DEF ToSet
      <4>2. OccursOK(ca, occurs)
        BY <3>2, <4>1 DEF OccursOK
      <4>3. ToSet(State.queue) = {}
        BY <3>6 DEF ToSet
      <4> QED BY <3>2, <3>3, <3>6, <4>2, <4>3 DEF SimpOK
    <3>8. ListsOK(State) /\ Settled(State)
      <4>1. ToSet(State.clauses) = {} /\ ToSet(State.learnts) = {}
        BY <3>6 DEF ToSet
      <4>2. Single(State.clauses) /\ Single(State.learnts)
        BY <3>6 DEF Single
      <4> QED BY <3>6, <4>1, <4>2 DEF ListsOK, Settled
    <3>9. State \in StateType
      <4>1. occurs \in [Vars -> Seq(Nat)] /\ <<>> \in Seq(Nat)
        BY <1>1
      <4>2. State = [ca |-> ca, clauses |-> <<>>, learnts |-> <<>>, watches |-> watches, dirty |-> dirty,
                     occurs |-> occurs, queue |-> <<>>, tmpunit |-> 0, trail |-> trail, simp |-> TRUE]
        BY <1>1 DEF State
      <4>3. dirty \in SUBSET Lits
        BY <1>1
      <4> HIDE DEF State
      <4> QED BY <2>2, <3>4, <3>5, <4>1, <4>2, <4>3 DEF StateType
    <3>10. Valid(State)
      BY <3>2, <3>4, <3>5, <3>6, <3>7, <3>8, <3>9 DEF Valid, Core
    <3> QED BY <1>1, <3>2, <3>3, <3>10
  <2> QED BY <1>1, <2>2, <2>3 DEF MemInv
<1> QED BY <1>3, <1>4

(* A clause for which there is no room leaves the region as it was.        *)
LEMMA NoRoom ==
    ASSUME NEW g \in RegionType, RegionOK(g), NEW n \in Nat, NEW c \in Added, NEW learnt \in BOOLEAN
    PROVE  LET h == Alloc(g, Clause(n, c, learnt))
           IN  h \in RegionType /\ (h.cap = None => h.sz = g.sz)
<1> DEFINE d == Clause(n, c, learnt)
           h == Alloc(g, d)
<1>1. d \in ClauseType /\ Len(d.lits) + 2 < Words
  <2>1. c \in Seq(Int) /\ Len(c) + 2 < Words
    BY AddedIs
  <2> QED BY <2>1 DEF Clause, ClauseType, Undef
<1> HIDE DEF d
<1>2. h \in RegionType
  <2>1. /\ g.sz \in Capacities /\ g.cap \in Capacities /\ Capacity(0, g.cap) = g.cap
        /\ \A r \in DOMAIN g.mem : r < g.sz
    BY DEF RegionOK, SizesOK, PlacesOK
  <2> QED BY <1>1, <2>1, AllocIs
<1>3. h.cap = None => h.sz = g.sz
  <2> DEFINE new == [d EXCEPT !.has_extra = d.learnt \/ g.extra_clause_field, !.reloced = FALSE]
             sz  == (g.sz + clauseWord32Size(new)) % Words
             cap == Capacity(g.cap, sz)
             mem == [r \in DOMAIN g.mem \cup {g.sz} |-> IF r = g.sz THEN new ELSE g.mem[r]]
  <2>1. h = IF OutOfMemory(g) \/ cap = None \/ sz < g.sz THEN [g EXCEPT !.cap = None]
            ELSE [g EXCEPT !.mem = mem, !.sz = sz, !.cap = cap]
    BY DEF Alloc
  <2> HIDE DEF sz, cap, mem, h
  <2> QED BY <2>1 DEF RegionType
<1> QED BY <1>2, <1>3 DEF h, d

(* What each step does to memory.                                          *)
StepOK == MemInv' /\ (Copied => Running' /\ Valid(State') /\ CopyOf(ca, ca') /\ Keeps(State, State'))

LEMMA ContinuesOK ==
    ASSUME MemInv, Running, Continues(State, State'), made' = made
    PROVE  StepOK
<1>1. State.ca = ca /\ State'.ca = ca'
  BY DEF State
<1>2. /\ Valid(State') /\ (ca'.sz >= ca.sz \/ (CopyOf(ca, ca') /\ Keeps(State, State')))
      /\ \A q \in DOMAIN ca'.mem : \E r \in DOMAIN ca.mem : ca.mem[r].id = ca'.mem[q].id
  BY <1>1 DEF Continues
<1>3. ca' \in RegionType /\ RegionOK(ca') /\ ca \in RegionType
  BY <1>1, <1>2 DEF Valid, Core, StateType, MemInv
<1>4. ca.sz \in Nat /\ ca'.sz \in Nat
  BY <1>3 DEF RegionType
<1>5. Running'
  <2>1. ca'.cap \in Capacities
    BY <1>3 DEF RegionOK, SizesOK
  <2>2. ca'.cap # None
    BY <2>1, ClauseMemoryAssumption DEF Capacities, None
  <2> QED BY <2>2 DEF Running, OutOfMemory
<1>6. \A q \in DOMAIN ca'.mem : ca'.mem[q].id <= made'
  BY <1>2 DEF MemInv
<1>7. MemInv'
  BY <1>2, <1>3, <1>6 DEF MemInv
<1>8. Copied => CopyOf(ca, ca') /\ Keeps(State, State')
  BY <1>2, <1>4 DEF Copied
<1> QED BY <1>2, <1>5, <1>7, <1>8 DEF StepOK

LEMMA MadeOK ==
    ASSUME MemInv, Running, ca' \in RegionType, ca'.cap = None => ca'.sz = ca.sz, made' \in Nat,
           Running' => /\ Valid(State') /\ ca'.sz >= ca.sz
                       /\ \A r \in DOMAIN ca'.mem : ca'.mem[r].id <= made'
    PROVE  StepOK
<1>1. ca.sz \in Nat /\ ca'.sz \in Nat
  BY DEF MemInv, RegionType
<1>2. ~ Copied
  <2>1. CASE Running'
    BY <1>1, <2>1 DEF Copied
  <2>2. CASE ~ Running'
    <3>1. ca'.sz = ca.sz
      BY <2>2 DEF Running, OutOfMemory
    <3> QED BY <1>1, <3>1 DEF Copied
  <2> QED BY <2>1, <2>2
<1>3. MemInv'
  BY DEF MemInv
<1> QED BY <1>2, <1>3 DEF StepOK

LEMMA MemStep ==
    MemInv /\ [Next]_vars => StepOK
<1> SUFFICES ASSUME MemInv, [Next]_vars PROVE StepOK
  OBVIOUS
<1>1. CASE ~ Running \/ UNCHANGED vars
  <2>1. UNCHANGED vars
    <3>1. Next => Running
      BY Zenon DEF Next, addClause, learn, New, enqueue, propagate, cancelUntil, reduceDB, simplify, subsume,
             strengthenClause, dequeue, eliminated, eliminate, lookup
    <3> QED BY <1>1, <3>1
  <2>2. ca' = ca /\ made' = made /\ State' = State
    BY <2>1 DEF vars, State
  <2>3. MemInv'
    BY <2>2 DEF MemInv, Running, OutOfMemory
  <2>4. ~ Copied
    <3>1. ca.sz \in Nat
      BY DEF MemInv, RegionType
    <3> QED BY <2>2, <3>1 DEF Copied
  <2> QED BY <2>3, <2>4 DEF StepOK
<1>2. CASE Running /\ Next
  <2>1. /\ Valid(State) /\ made \in Nat /\ (\A r \in DOMAIN ca.mem : ca.mem[r].id <= made)
        /\ ca \in RegionType /\ RegionOK(ca)
    BY <1>2, StateIs DEF MemInv
  <2>2. CASE addClause
    <3>1. ca' \in RegionType /\ (ca'.cap = None => ca'.sz = ca.sz) /\ made' \in Nat
      <4>1. made' \in Nat
        BY <2>1, <2>2 DEF addClause, New
      <4>2. PICK c \in Added : ca' = Alloc(ca, Clause(made', c, FALSE))
        BY <2>2 DEF addClause
      <4> QED BY <2>1, <4>1, <4>2, NoRoom
    <3>2. Running' => /\ Valid(State') /\ ca'.sz >= ca.sz
                      /\ \A r \in DOMAIN ca'.mem : ca'.mem[r].id <= made'
      BY <2>1, <2>2, AddContinues
    <3> QED BY <1>2, <3>1, <3>2, MadeOK
  <2>3. CASE learn
    <3>1. ca' \in RegionType /\ (ca'.cap = None => ca'.sz = ca.sz) /\ made' \in Nat
      <4>1. made' \in Nat
        BY <2>1, <2>3 DEF learn, New
      <4>2. PICK c \in Added : ca' = Alloc(ca, Clause(made', c, TRUE))
        BY <2>3 DEF learn
      <4> QED BY <2>1, <4>1, <4>2, NoRoom
    <3>2. Running' => /\ Valid(State') /\ ca'.sz >= ca.sz
                      /\ \A r \in DOMAIN ca'.mem : ca'.mem[r].id <= made'
      BY <2>1, <2>3, LearnContinues
    <3> QED BY <1>2, <3>1, <3>2, MadeOK
  <2>4. CASE enqueue
    <3>1. made' = made
      BY <2>4 DEF enqueue
    <3> QED BY <1>2, <2>1, <2>4, <3>1, EnqueueContinues, ContinuesOK
  <2>5. CASE propagate
    <3>1. made' = made
      BY <2>5, Zenon DEF propagate
    <3> QED BY <1>2, <2>1, <2>5, <3>1, PropagateContinues, ContinuesOK
  <2>6. CASE cancelUntil
    <3>1. made' = made
      BY <2>6 DEF cancelUntil
    <3> QED BY <1>2, <2>1, <2>6, <3>1, CancelContinues, ContinuesOK
  <2>7. CASE reduceDB
    <3>1. made' = made
      BY <2>7 DEF reduceDB
    <3> QED BY <1>2, <2>1, <2>7, <3>1, ReduceContinues, ContinuesOK
  <2>8. CASE simplify
    <3>1. made' = made
      BY <2>8 DEF simplify
    <3> QED BY <1>2, <2>1, <2>8, <3>1, SimplifyContinues, ContinuesOK
  <2>9. CASE subsume
    <3>1. made' = made
      BY <2>9 DEF subsume
    <3> QED BY <1>2, <2>1, <2>9, <3>1, SubsumeContinues, ContinuesOK
  <2>10. CASE strengthenClause
    <3>1. made' = made
      BY <2>10 DEF strengthenClause
    <3> QED BY <1>2, <2>1, <2>10, <3>1, StrengthenContinues, ContinuesOK
  <2>11. CASE dequeue
    <3>1. made' = made
      BY <2>11 DEF dequeue
    <3> QED BY <1>2, <2>1, <2>11, <3>1, DequeueContinues, ContinuesOK
  <2>12. CASE eliminated
    <3>1. made' = made
      BY <2>12 DEF eliminated
    <3> QED BY <1>2, <2>1, <2>12, <3>1, EliminatedContinues, ContinuesOK
  <2>13. CASE eliminate
    <3>1. made' = made
      BY <2>13 DEF eliminate
    <3> QED BY <1>2, <2>1, <2>13, <3>1, EliminateContinues, ContinuesOK
  <2>14. CASE lookup
    <3>1. made' = made
      BY <2>14 DEF lookup
    <3> QED BY <1>2, <2>1, <2>14, <3>1, LookupContinues, ContinuesOK
  <2> QED BY <1>2, <2>2, <2>3, <2>4, <2>5, <2>6, <2>7, <2>8, <2>9, <2>10, <2>11, <2>12, <2>13, <2>14
          DEF Next
<1> QED BY <1>1, <1>2

-----------------------------------------------------------------------------
(* The properties.                                                         *)

LEMMA WatchersIs ==
    ASSUME Valid(State), NEW l \in Lits
    PROVE  LET live == Clean(ca, watches[l])
           IN  /\ ToSet(live) = {r \in Live(ca) : -l \in {ca.mem[r].lits[1], ca.mem[r].lits[2]}}
               /\ Len(live) = Cardinality(ToSet(live))
               /\ live = watches[l] \/ l \in dirty
               /\ ToSet(watches[l]) \subseteq DOMAIN ca.mem
<1> DEFINE w    == watches[l]
           live == Clean(ca, w)
<1>1. ca \in RegionType /\ WatchOK(ca, watches, dirty) /\ watches \in [Lits -> Seq(Nat)]
  BY StateIs
<1>2. /\ w \in Seq(Nat) /\ ToSet(w) \subseteq Named(ca)
      /\ (\A r \in Live(ca) : r \in ToSet(w) <=> -l \in {ca.mem[r].lits[1], ca.mem[r].lits[2]})
      /\ Once(w, Live(ca)) /\ (l \notin dirty => ToSet(w) \subseteq Live(ca))
  BY <1>1 DEF WatchOK, Once
<1>3. ToSet(w) \subseteq DOMAIN ca.mem
  BY <1>2 DEF Named
<1> HIDE DEF w
<1>4. live \in Seq(Nat) /\ ToSet(live) = ToSet(w) \cap Live(ca)
  BY <1>1, <1>2, <1>3, CleanIs
<1>5. Single(live)
  <2>1. Once(live, Live(ca))
    BY <1>2, OnceWithout DEF Clean
  <2>2. \A i \in DOMAIN live : live[i] \in Live(ca)
    BY <1>4 DEF ToSet
  <2> HIDE DEF live
  <2> QED BY <2>1, <2>2 DEF Once, Single
<1>6. l \notin dirty => live = w
  <2>1. ASSUME l \notin dirty PROVE ToSet(w) \cap {r \in DOMAIN ca.mem : ca.mem[r].removed} = {}
    BY <1>2, <2>1 DEF Live
  <2> QED BY <1>2, <2>1, WithoutNone DEF Clean
<1> HIDE DEF live
<1>7. Len(live) = Cardinality(ToSet(live))
  BY <1>4, <1>5, SingleLength
<1>8. ToSet(live) = {r \in Live(ca) : -l \in {ca.mem[r].lits[1], ca.mem[r].lits[2]}}
  BY <1>2, <1>4
<1> QED BY <1>3, <1>6, <1>7, <1>8 DEF live, w

LEMMA MemRefs ==
    MemInv => RefsValid
<1> SUFFICES ASSUME MemInv, Running PROVE RefsValid
  BY DEF RefsValid
<1>1. Valid(State)
  BY DEF MemInv
<1>2. /\ ca \in RegionType /\ RegionOK(ca) /\ TrailOK(ca, trail) /\ SimpOK(State) /\ ListsOK(State)
      /\ occurs \in [Vars -> Seq(Nat)] /\ use_simplification \in BOOLEAN
  BY <1>1, StateIs
<1>3. /\ State.ca = ca /\ State.clauses = clauses /\ State.learnts = learnts
      /\ State.simp = use_simplification /\ State.occurs = occurs /\ State.queue = subsumption_queue
      /\ State.tmpunit = bwdsub_tmpunit
  BY DEF State
<1>4. LiveRefs = Live(ca) /\ Live(ca) \subseteq Named(ca) /\ Named(ca) \subseteq DOMAIN ca.mem
  BY DEF LiveRefs, Live, Named
<1>5. ToSet(clauses) \subseteq DOMAIN ca.mem /\ ToSet(learnts) \subseteq DOMAIN ca.mem
  BY <1>2, <1>3, <1>4 DEF ListsOK
<1>6. \A l \in Lits : ToSet(watches[l]) \subseteq DOMAIN ca.mem
  BY <1>1, WatchersIs
<1>7. ASSUME use_simplification
      PROVE  /\ \A v \in Vars : /\ ToSet(occurs[v]) \subseteq DOMAIN ca.mem
                                /\ Lookup(v) = {r \in LiveRefs : v \in {Var(l) : l \in ToSet(ca.mem[r].lits)}}
             /\ ToSet(subsumption_queue) \subseteq DOMAIN ca.mem
             /\ ToSet(<<bwdsub_tmpunit>>) \subseteq DOMAIN ca.mem
  <2>1. /\ OccursOK(ca, occurs) /\ ToSet(subsumption_queue) \subseteq DOMAIN ca.mem
        /\ bwdsub_tmpunit \in DOMAIN ca.mem
    BY <1>2, <1>3, <1>7 DEF SimpOK
  <2>2. ToSet(<<bwdsub_tmpunit>>) \subseteq DOMAIN ca.mem
    BY <2>1 DEF ToSet
  <2>3. ASSUME NEW v \in Vars
        PROVE  /\ ToSet(occurs[v]) \subseteq DOMAIN ca.mem
               /\ Lookup(v) = {r \in LiveRefs : v \in {Var(l) : l \in ToSet(ca.mem[r].lits)}}
    <3>1. /\ occurs[v] \in Seq(Nat) /\ ToSet(occurs[v]) \subseteq Named(ca)
          /\ \A r \in Live(ca) : r \in ToSet(occurs[v]) <=> v \in VarsOf(ca.mem[r].lits)
      BY <1>2, <2>1 DEF OccursOK
    <3>2. ToSet(occurs[v]) \subseteq DOMAIN ca.mem
      BY <1>4, <3>1
    <3>3. Lookup(v) = ToSet(occurs[v]) \cap Live(ca)
      BY <1>2, <3>1, <3>2, CleanIs DEF Lookup
    <3>4. \A c : VarsOf(c) = {Var(l) : l \in ToSet(c)}
      BY DEF VarsOf, ToSet
    <3> QED BY <1>4, <3>1, <3>2, <3>3, <3>4
  <2> QED BY <2>1, <2>2, <2>3
<1>8. \A r \in DOMAIN ca.mem : ~ ca.mem[r].reloced
  BY <1>2 DEF RegionOK, PlacesOK
<1>9. \A l \in Lits : LET live == Clean(ca, watches[l])
                      IN  /\ ToSet(live) = {r \in LiveRefs : -l \in {ca.mem[r].lits[1], ca.mem[r].lits[2]}}
                          /\ Len(live) = Cardinality(ToSet(live))
                          /\ live = watches[l] \/ l \in dirty
  BY <1>1, <1>4, WatchersIs
<1>10. \A i \in DOMAIN trail :
          trail[i].reason # Undef => /\ trail[i].reason \in LiveRefs
                                     /\ ca.mem[trail[i].reason].lits[1] = trail[i].lit
  BY <1>2, <1>4 DEF TrailOK
<1>11. \A list \in ({clauses, learnts} \cup {watches[l] : l \in Lits}) \cup
                   (IF use_simplification
                    THEN {occurs[v] : v \in Vars} \cup {subsumption_queue, <<bwdsub_tmpunit>>} ELSE {}) :
          ToSet(list) \subseteq DOMAIN ca.mem
  BY <1>5, <1>6, <1>7
<1> QED BY <1>7, <1>8, <1>9, <1>10, <1>11 DEF RefsValid

LEMMA MemAccounted ==
    MemInv => MemoryAccounted
<1> SUFFICES ASSUME MemInv, Running PROVE MemoryAccounted
  BY DEF MemoryAccounted
<1>1. RegionOK(ca)
  BY StateIs DEF MemInv
<1> QED BY <1>1 DEF RegionOK, SizesOK, MemoryAccounted

(* The action of the property.                                             *)
CollectedStep ==
    Copied =>
      /\ ~ OutOfMemory(ca') /\ ca'.cap <= ca.cap
      /\ ca'.wasted = 0 /\ ca'.sz <= ca.sz - ca.wasted
      /\ \A r \in DOMAIN ca'.mem : ~ ca'.mem[r].removed
      /\ \A r, q \in DOMAIN ca'.mem : ca'.mem[r].id = ca'.mem[q].id => r = q

LEMMA StepCollects ==
    StepOK => CollectedStep
<1> SUFFICES ASSUME StepOK, Copied PROVE CollectedStep
  BY DEF CollectedStep
<1>1. Running' /\ Valid(State') /\ CopyOf(ca, ca')
  BY DEF StepOK
<1>2. ~ OutOfMemory(ca')
  BY <1>1 DEF Running
<1>3. RegionOK(ca')
  BY <1>1 DEF Valid, Core, State
<1>4. \A r, q \in DOMAIN ca'.mem : ca'.mem[r].id = ca'.mem[q].id => r = q
  BY <1>3 DEF RegionOK, NumbersOK
<1>5. /\ ca'.cap <= ca.cap /\ ca'.wasted = 0 /\ ca'.sz <= ca.sz - ca.wasted
      /\ \A r \in DOMAIN ca'.mem : ~ ca'.mem[r].removed
  BY <1>1 DEF CopyOf
<1> QED BY <1>2, <1>4, <1>5 DEF CollectedStep

(* The action of the property.                                             *)
ViewStep ==
    Copied =>
      /\ View(Kept)' = View(Kept')
      /\ use_simplification' => SimpView(Kept)' = SimpView(Kept')
      /\ \A id \in Kept \cap Kept' :
           /\ Numbered(id)'.learnt = Numbered(id).learnt
           /\ Numbered(id)'.lits \in {Numbered(id).lits,
                                      Without(Numbered(id).lits, {l \in Lits : IsFalse(l)})}
      /\ \A r \in LiveRefs :
           \/ ca.mem[r].id \in Kept'
           \/ Satisfied(r)
           \/ ca.mem[r].learnt /\ Len(ca.mem[r].lits) > 2 /\ ~ Locked(State, r)

LEMMA KeepsViews ==
    ASSUME Keeps(State, State')
    PROVE  ViewStep
<1> DEFINE K == Kept'
<1>1. /\ State.ca = ca /\ State.clauses = clauses /\ State.learnts = learnts /\ State.watches = watches
      /\ State.occurs = occurs /\ State.queue = subsumption_queue /\ State.tmpunit = bwdsub_tmpunit
      /\ State.trail = trail
      /\ State'.ca = ca' /\ State'.clauses = clauses' /\ State'.learnts = learnts' /\ State'.watches = watches'
      /\ State'.occurs = occurs' /\ State'.queue = subsumption_queue' /\ State'.tmpunit = bwdsub_tmpunit'
      /\ State'.trail = trail' /\ State'.simp = use_simplification'
  BY DEF State
<1>2. /\ LiveRefs = Live(ca) /\ LiveRefs' = Live(ca') /\ Kept = KeptOf(ca) /\ K = KeptOf(ca')
  BY DEF LiveRefs, Live, Named, Kept, KeptOf
<1>3. /\ NumbersOf(ca', learnts', K) = NumbersOf(ca, learnts, K)
      /\ NumbersOf(ca', clauses', K) = NumbersOf(ca, clauses, K)
      /\ \A l \in Lits : NumbersOf(ca', watches'[l], K) = NumbersOf(ca, watches[l], K)
      /\ DOMAIN trail' = DOMAIN trail
      /\ \A i \in DOMAIN trail : NumbersOf(ca', <<trail'[i].reason>>, K) = NumbersOf(ca, <<trail[i].reason>>, K)
  BY <1>1, <1>2 DEF Keeps, SameNumbers
<1>4. use_simplification' =>
        /\ \A v \in Vars : NumbersOf(ca', occurs'[v], K) = NumbersOf(ca, occurs[v], K)
        /\ NumbersOf(ca', subsumption_queue', K) = NumbersOf(ca, subsumption_queue, K)
        /\ NumberOf(ca', bwdsub_tmpunit') = NumberOf(ca, bwdsub_tmpunit)
  BY <1>1, <1>2 DEF Keeps, SameNumbers
<1>5. \A r \in Live(ca), q \in Live(ca') :
         ca'.mem[q].id = ca.mem[r].id =>
            /\ ca'.mem[q].learnt = ca.mem[r].learnt
            /\ ca'.mem[q].lits \in {ca.mem[r].lits, Without(ca.mem[r].lits, Falses)}
  BY <1>1 DEF Keeps
<1>6. \A r \in Live(ca) : ca.mem[r].id \in K \/ MayGo(State, r)
  BY <1>1, <1>2 DEF Keeps
<1>7. View(Kept)' = View(K)
  <2>1. View(Kept)' = [clauses |-> NumbersOf(ca', clauses', K), learnts |-> NumbersOf(ca', learnts', K),
                       watches |-> [l \in Lits |-> NumbersOf(ca', watches'[l], K)],
                       reasons |-> [i \in DOMAIN trail' |-> NumbersOf(ca', <<trail'[i].reason>>, K)]]
    BY DEF View, Numbers, Number, NumbersOf, NumberOf
  <2>2. View(K) = [clauses |-> NumbersOf(ca, clauses, K), learnts |-> NumbersOf(ca, learnts, K),
                   watches |-> [l \in Lits |-> NumbersOf(ca, watches[l], K)],
                   reasons |-> [i \in DOMAIN trail |-> NumbersOf(ca, <<trail[i].reason>>, K)]]
    BY DEF View, Numbers, Number, NumbersOf, NumberOf
  <2> HIDE DEF K
  <2> QED BY <1>3, <2>1, <2>2
<1>8. use_simplification' => SimpView(Kept)' = SimpView(K)
  <2>1. SimpView(Kept)' = [occurs  |-> [v \in Vars |-> NumbersOf(ca', occurs'[v], K)],
                           queue   |-> NumbersOf(ca', subsumption_queue', K),
                           tmpunit |-> NumberOf(ca', bwdsub_tmpunit')]
    BY DEF SimpView, Numbers, Number, NumbersOf, NumberOf
  <2>2. SimpView(K) = [occurs  |-> [v \in Vars |-> NumbersOf(ca, occurs[v], K)],
                       queue   |-> NumbersOf(ca, subsumption_queue, K),
                       tmpunit |-> NumberOf(ca, bwdsub_tmpunit)]
    BY DEF SimpView, Numbers, Number, NumbersOf, NumberOf
  <2> HIDE DEF K
  <2> QED BY <1>4, <2>1, <2>2
<1>9. ASSUME NEW id \in Kept \cap K
      PROVE  /\ Numbered(id)'.learnt = Numbered(id).learnt
             /\ Numbered(id)'.lits \in {Numbered(id).lits,
                                        Without(Numbered(id).lits, {l \in Lits : IsFalse(l)})}
  <2> DEFINE r == CHOOSE x \in LiveRefs : ca.mem[x].id = id
             q == CHOOSE x \in LiveRefs' : ca'.mem[x].id = id
  <2>1. r \in Live(ca) /\ ca.mem[r].id = id
    <3>1. \E x \in LiveRefs : ca.mem[x].id = id
      BY <1>2 DEF KeptOf
    <3> QED BY <1>2, <3>1
  <2>2. q \in Live(ca') /\ ca'.mem[q].id = id
    <3>1. \E x \in LiveRefs' : ca'.mem[x].id = id
      BY <1>2 DEF KeptOf
    <3> QED BY <1>2, <3>1
  <2>3. Numbered(id) = ca.mem[r] /\ Numbered(id)' = ca'.mem[q]
    BY DEF Numbered
  <2> HIDE DEF r, q
  <2> QED BY <1>5, <2>1, <2>2, <2>3 DEF Falses
<1>10. ASSUME NEW r \in LiveRefs
       PROVE  \/ ca.mem[r].id \in K
              \/ Satisfied(r)
              \/ ca.mem[r].learnt /\ Len(ca.mem[r].lits) > 2 /\ ~ Locked(State, r)
  BY <1>1, <1>2, <1>6 DEF MayGo
<1> QED BY <1>7, <1>8, <1>9, <1>10 DEF ViewStep

(* The invariant: made counts the clauses, and, until memory is exhausted, *)
(* the region, the lists, the watchers, the occurrences and the reasons    *)
(* agree with each other.                                                  *)
THEOREM Memory ==
    Spec => []MemInv
<1>1. MemInv /\ [Next]_vars => MemInv'
  BY MemStep DEF StepOK
<1> QED BY <1>1, MemInit, PTL DEF Spec

(* Every reference that can still be followed is valid, after any number   *)
(* of additions, removals and copies of the region: the watch lists, the   *)
(* occurrences, the reasons and the lists of clauses refer to the clauses  *)
(* that they should (SimpSolver::garbageCollect, Solver::relocAll).        *)
THEOREM RefsAreValid ==
    Spec => []RefsValid
<1> QED BY Memory, MemRefs, PTL

(* The words not counted as wasted are enough for the clauses that are not *)
(* removed, so that a copy of the region fits in them.                     *)
THEOREM MemoryIsAccounted ==
    Spec => []MemoryAccounted
<1> QED BY Memory, MemAccounted, PTL

(* A copy of the region cannot run out of memory, has no clause that was   *)
(* removed and none twice, and fits in what was not wasted                 *)
(* (garbageCollect, RegionAllocator::capacity).                            *)
THEOREM GarbageCollected ==
    Spec => Collected
<1>1. MemInv /\ [Next]_vars => [CollectedStep]_vars
  BY MemStep, StepCollects
<1>2. Spec => [][CollectedStep]_vars
  BY <1>1, Memory, PTL DEF Spec
<1> QED BY <1>2 DEF Collected, CollectedStep

(* A copy of the region changes offsets only: the lists, in their order,   *)
(* the reasons and what preprocessing has refer to the same clauses, and   *)
(* what is gone or shorter is so by what the solver did before the copy    *)
(* (garbageCollect, relocAll, reduceDB, removeSatisfied).                  *)
THEOREM ViewIsKept ==
    Spec => ViewKept
<1>1. MemInv /\ [Next]_vars => [ViewStep]_vars
  <2>1. StepOK /\ Copied => ViewStep
    BY KeepsViews DEF StepOK
  <2>2. ~ Copied => ViewStep
    BY DEF ViewStep
  <2> QED BY <2>1, <2>2, MemStep
<1>2. Spec => [][ViewStep]_vars
  BY <1>1, Memory, PTL DEF Spec
<1> QED BY <1>2 DEF ViewKept, ViewStep
=============================================================================

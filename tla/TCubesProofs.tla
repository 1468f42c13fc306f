---------------------------- MODULE TCubesProofs ----------------------------
(***************************************************************************)
(* The queue of proof obligations, for any number of frames and TCubes:    *)
(* the binary heap keeps the least key in front and the positions of all,  *)
(* so that insert and removeMin push and pop stacks by their level; every  *)
(* TCube is counted; and TCubes in this queue are what ObligationQueue     *)
(* asks for.                                                               *)
(***************************************************************************)
EXTENDS TCubes, NumberLemmas, SequenceTheorems

-----------------------------------------------------------------------------
(* Functions whose value is made of the value at another argument.         *)

\* f has the value first[j] where next[j] is 0, and is made of f[next[j]] elsewhere.
Chained(f, n, next, first, comb) ==
    \A j \in 1 .. n : f[j] = IF next[j] = 0 THEN first[j] ELSE comb[<<f[next[j]], j>>]

(* One that looks down exists.                                             *)
LEMMA Descent ==
    ASSUME NEW S, NEW n \in Nat, NEW next \in [1 .. n -> 0 .. n], NEW first \in [1 .. n -> S],
           NEW comb, comb \in [S \X (1 .. n) -> S], \A j \in 1 .. n : next[j] < j
    PROVE  \E f \in [1 .. n -> S] : Chained(f, n, next, first, comb)
<1> DEFINE Is(f, m) == \A j \in 1 .. m : f[j] = IF next[j] = 0 THEN first[j] ELSE comb[<<f[next[j]], j>>]
           T == {m \in 0 .. n : \E f \in [1 .. m -> S] : Is(f, m)}
<1>1. 0 \in T
  <2>1. [j \in 1 .. 0 |-> 0] \in [1 .. 0 -> S] /\ Is([j \in 1 .. 0 |-> 0], 0) /\ 0 \in 0 .. n
    OBVIOUS
  <2> HIDE DEF Is
  <2> QED BY <2>1
<1>2. ASSUME NEW m \in 0 .. n - 1, m \in T PROVE m + 1 \in T
  <2>1. PICK f \in [1 .. m -> S] : Is(f, m)
    BY <1>2
  <2> DEFINE x == IF next[m + 1] = 0 THEN first[m + 1] ELSE comb[<<f[next[m + 1]], m + 1>>]
             g == [j \in 1 .. m + 1 |-> IF j = m + 1 THEN x ELSE f[j]]
  <2>2. x \in S
    <3>1. m + 1 \in 1 .. n /\ next[m + 1] \in 0 .. m
      OBVIOUS
    <3> QED BY <3>1
  <2> HIDE DEF x
  <2>3. g \in [1 .. m + 1 -> S]
    BY <2>2
  <2>4. \A j \in 1 .. m : g[j] = f[j]
    OBVIOUS
  <2>5. ASSUME NEW j \in 1 .. m + 1
        PROVE  g[j] = IF next[j] = 0 THEN first[j] ELSE comb[<<g[next[j]], j>>]
    <3>1. next[j] \in 0 .. j - 1 /\ (next[j] # 0 => next[j] \in 1 .. m)
      OBVIOUS
    <3>2. next[j] # 0 => g[next[j]] = f[next[j]]
      BY <2>4, <3>1
    <3>3. CASE j = m + 1
      BY <3>2, <3>3 DEF x
    <3>4. CASE j # m + 1
      <4>1. j \in 1 .. m /\ g[j] = f[j]
        BY <3>4
      <4> HIDE DEF g
      <4> QED BY <2>1, <3>2, <4>1
    <3> QED BY <3>3, <3>4
  <2> HIDE DEF g
  <2>6. m + 1 \in 0 .. n
    OBVIOUS
  <2> QED BY <2>3, <2>5, <2>6
<1>3. n \in T
  <2> HIDE DEF T
  <2>1. 0 .. n \subseteq T
    BY <1>1, <1>2, Climb
  <2> QED BY <2>1
<1> QED BY <1>3 DEF Chained

(* So does one that looks up.                                              *)
LEMMA Ascent ==
    ASSUME NEW S, NEW n \in Nat, NEW next \in [1 .. n -> 0 .. n], NEW first \in [1 .. n -> S],
           NEW comb, comb \in [S \X (1 .. n) -> S], \A j \in 1 .. n : next[j] = 0 \/ next[j] > j
    PROVE  \E f \in [1 .. n -> S] : Chained(f, n, next, first, comb)
<1> DEFINE Is(f, m) == \A j \in n - m + 1 .. n :
                          f[j] = IF next[j] = 0 THEN first[j] ELSE comb[<<f[next[j]], j>>]
           T == {m \in 0 .. n : \E f \in [n - m + 1 .. n -> S] : Is(f, m)}
<1>1. 0 \in T
  <2>1. [j \in n - 0 + 1 .. n |-> 0] \in [n - 0 + 1 .. n -> S] /\ Is([j \in n - 0 + 1 .. n |-> 0], 0)
    OBVIOUS
  <2>2. 0 \in 0 .. n
    OBVIOUS
  <2> HIDE DEF Is
  <2> QED BY <2>1, <2>2
<1>2. ASSUME NEW m \in 0 .. n - 1, m \in T PROVE m + 1 \in T
  <2> DEFINE k == n - m
  <2>0. k \in 1 .. n /\ n - (m + 1) + 1 = k /\ n - m + 1 = k + 1
    OBVIOUS
  <2>1. PICK f \in [k + 1 .. n -> S] : Is(f, m)
    BY <1>2, <2>0
  <2> DEFINE x == IF next[k] = 0 THEN first[k] ELSE comb[<<f[next[k]], k>>]
             g == [j \in k .. n |-> IF j = k THEN x ELSE f[j]]
  <2> HIDE DEF k
  <2>2. x \in S
    <3>1. k \in 1 .. n /\ (next[k] = 0 \/ next[k] \in k + 1 .. n)
      BY <2>0
    <3> QED BY <3>1
  <2> HIDE DEF x
  <2>3. g \in [k .. n -> S]
    BY <2>0, <2>2
  <2>4. \A j \in k + 1 .. n : g[j] = f[j]
    BY <2>0
  <2>5. ASSUME NEW j \in k .. n
        PROVE  g[j] = IF next[j] = 0 THEN first[j] ELSE comb[<<g[next[j]], j>>]
    <3>1. next[j] # 0 => next[j] \in k + 1 .. n
      BY <2>0
    <3>2. next[j] # 0 => g[next[j]] = f[next[j]]
      BY <2>4, <3>1
    <3>3. CASE j = k
      BY <3>2, <3>3 DEF x
    <3>4. CASE j # k
      <4>1. j \in k + 1 .. n /\ g[j] = f[j]
        BY <2>0, <3>4
      <4>2. f[j] = IF next[j] = 0 THEN first[j] ELSE comb[<<f[next[j]], j>>]
        BY <2>0, <2>1, <4>1
      <4> HIDE DEF g
      <4> QED BY <3>2, <4>1, <4>2
    <3> QED BY <3>3, <3>4
  <2> HIDE DEF g
  <2>6. m + 1 \in 0 .. n
    OBVIOUS
  <2> QED BY <2>0, <2>3, <2>5, <2>6
<1>3. n \in T
  <2> HIDE DEF T
  <2>1. 0 .. n \subseteq T
    BY <1>1, <1>2, Climb
  <2> QED BY <2>1
<1>4. PICK f \in [n - n + 1 .. n -> S] : Is(f, n)
  BY <1>3
<1>5. n - n + 1 = 1
  OBVIOUS
<1> QED BY <1>4, <1>5 DEF Chained

-----------------------------------------------------------------------------
(* The array of a heap.                                                    *)

Arrays(n)   == [1 .. n -> Int]
\* The entries among the first m; their order; and that none is there twice.
Entries(h, M)  == {h[p] : p \in M}
Ordered(h, m)  == \A p \in 2 .. m : h[p \div 2] <= h[p]
Distinct(h, M) == \A p, q \in M : h[p] = h[q] => p = q

\* What percolateUp makes of array h, when x is to rise from a position.
Rises(r, n, h, x) ==
    /\ r \in [1 .. n -> Arrays(n)]
    /\ \A j \in 1 .. n :
          r[j] = IF j = 1 \/ ~ (x < h[j \div 2]) THEN [h EXCEPT ![j] = x]
                 ELSE [r[j \div 2] EXCEPT ![j] = h[j \div 2]]

(* There is such a function.                                               *)
LEMMA RiseExists ==
    ASSUME NEW n \in Nat, NEW h \in Arrays(n), NEW x \in Int
    PROVE  \E r : Rises(r, n, h, x)
<1> DEFINE next  == [j \in 1 .. n |-> IF j = 1 \/ ~ (x < h[j \div 2]) THEN 0 ELSE j \div 2]
           first == [j \in 1 .. n |-> [h EXCEPT ![j] = x]]
           comb  == [p \in Arrays(n) \X (1 .. n) |-> [p[1] EXCEPT ![p[2]] = IF p[2] = 1 THEN x ELSE h[p[2] \div 2]]]
<1>1. \A j \in 1 .. n : j = 1 \/ (j \div 2 \in 1 .. n /\ j \div 2 < j)
  OBVIOUS
<1>2. next \in [1 .. n -> 0 .. n] /\ \A j \in 1 .. n : next[j] < j
  BY <1>1
<1>3. first \in [1 .. n -> Arrays(n)]
  BY DEF Arrays
<1>4. comb \in [Arrays(n) \X (1 .. n) -> Arrays(n)]
  BY <1>1 DEF Arrays
<1>5. PICK r \in [1 .. n -> Arrays(n)] : Chained(r, n, next, first, comb)
  <2> HIDE DEF next, first, comb
  <2> QED BY <1>2, <1>3, <1>4, Descent
<1>6. ASSUME NEW j \in 1 .. n
      PROVE  r[j] = IF j = 1 \/ ~ (x < h[j \div 2]) THEN [h EXCEPT ![j] = x]
                    ELSE [r[j \div 2] EXCEPT ![j] = h[j \div 2]]
  <2>1. r[j] = IF next[j] = 0 THEN first[j] ELSE comb[<<r[next[j]], j>>]
    BY <1>5 DEF Chained
  <2>2. CASE j = 1 \/ ~ (x < h[j \div 2])
    BY <2>1, <2>2
  <2>3. CASE ~ (j = 1 \/ ~ (x < h[j \div 2]))
    <3>1. next[j] = j \div 2 /\ j \div 2 \in 1 .. n /\ r[j \div 2] \in Arrays(n)
      BY <1>1, <2>3
    <3>2. comb[<<r[j \div 2], j>>] = [r[j \div 2] EXCEPT ![j] = h[j \div 2]]
      BY <2>3, <3>1
    <3> HIDE DEF next, comb
    <3> QED BY <2>1, <2>3, <3>1, <3>2
  <2> QED BY <2>2, <2>3
<1> QED BY <1>6 DEF Rises

(* percolateUp is its value at the position.                               *)
LEMMA percolateUpIs ==
    ASSUME NEW n \in Nat, NEW h \in Arrays(n), NEW i \in 1 .. n
    PROVE  \E r : Rises(r, n, h, h[i]) /\ percolateUp(h, i) = r[i]
<1> DEFINE x == h[i]
           Eq(r) == [j \in 1 .. n |-> IF j = 1 \/ ~ (x < h[j \div 2]) THEN [h EXCEPT ![j] = x]
                                      ELSE [r[j \div 2] EXCEPT ![j] = h[j \div 2]]]
           rise == CHOOSE r : r = Eq(r)
<1>1. x \in Int /\ DOMAIN h = 1 .. n
  BY DEF Arrays
<1>2. PICK r : Rises(r, n, h, x)
  <2> HIDE DEF x
  <2> QED BY <1>1, RiseExists
<1>3. r = Eq(r)
  <2> HIDE DEF x
  <2> QED BY <1>2 DEF Rises
<1>4. rise = Eq(rise)
  <2> HIDE DEF Eq
  <2> QED BY <1>3
<1>5. percolateUp(h, i) = rise[i]
  BY <1>1 DEF percolateUp
<1>6. \A j \in 1 .. n : rise[j] = IF j = 1 \/ ~ (x < h[j \div 2]) THEN [h EXCEPT ![j] = x]
                                  ELSE [rise[j \div 2] EXCEPT ![j] = h[j \div 2]]
  <2> HIDE DEF rise, x
  <2> QED BY <1>4
<1>7. \A j \in 1 .. n : r[j] = IF j = 1 \/ ~ (x < h[j \div 2]) THEN [h EXCEPT ![j] = x]
                               ELSE [r[j \div 2] EXCEPT ![j] = h[j \div 2]]
  <2> HIDE DEF x
  <2> QED BY <1>2 DEF Rises
<1>8. rise = r
  <2> DEFINE T == {m \in 0 .. n : \A j \in 1 .. m : rise[j] = r[j]}
  <2>1. 0 \in T
    OBVIOUS
  <2>2. ASSUME NEW m \in 0 .. n - 1, m \in T PROVE m + 1 \in T
    <3>1. m + 1 \in 1 .. n /\ m + 1 \in 0 .. n /\ (m + 1 # 1 => (m + 1) \div 2 \in 1 .. m)
      OBVIOUS
    <3>2. m + 1 # 1 => rise[(m + 1) \div 2] = r[(m + 1) \div 2]
      BY <2>2, <3>1
    <3>3. ASSUME NEW j \in 1 .. n, j = 1 \/ rise[j \div 2] = r[j \div 2] PROVE rise[j] = r[j]
      <4>1. CASE j = 1 \/ ~ (x < h[j \div 2])
        <5> HIDE DEF rise, x
        <5> QED BY <1>6, <1>7, <4>1
      <4>2. CASE ~ (j = 1 \/ ~ (x < h[j \div 2]))
        <5> HIDE DEF rise, x
        <5>1. rise[j] = [rise[j \div 2] EXCEPT ![j] = h[j \div 2]]
          BY <1>6, <4>2
        <5>2. r[j] = [r[j \div 2] EXCEPT ![j] = h[j \div 2]]
          BY <1>7, <4>2
        <5> QED BY <3>3, <4>2, <5>1, <5>2
      <4> QED BY <4>1, <4>2
    <3>5. rise[m + 1] = r[m + 1]
      <4> HIDE DEF rise
      <4> QED BY <3>1, <3>2, <3>3
    <3>4. \A j \in 1 .. m + 1 : j = m + 1 \/ j \in 1 .. m
      OBVIOUS
    <3> HIDE DEF rise
    <3> QED BY <2>2, <3>1, <3>4, <3>5
  <2>3. n \in T
    <3> HIDE DEF T
    <3>1. 0 .. n \subseteq T
      BY <2>1, <2>2, Climb
    <3> QED BY <3>1
  <2>4. \A j \in 1 .. n : rise[j] = r[j]
    BY <2>3
  <2>5. Eq(rise) = Eq(r)
    <3>1. \A j \in 1 .. n : j # 1 => rise[j \div 2] = r[j \div 2]
      BY <2>4
    <3> HIDE DEF rise, x
    <3> QED BY <3>1
  <2> HIDE DEF rise, Eq
  <2> QED BY <1>3, <1>4, <2>5
<1> HIDE DEF rise, x
<1>9. Rises(r, n, h, h[i]) /\ percolateUp(h, i) = r[i]
  BY <1>2, <1>5, <1>8 DEF x
<1> QED BY <1>9

(* What is among the entries.                                              *)
LEMMA EntriesAre ==
    ASSUME NEW h, NEW M
    PROVE  /\ \A p \in M : h[p] \in Entries(h, M)
           /\ \A y \in Entries(h, M) : \E p \in M : y = h[p]
BY DEF Entries

\* What is known of an array g that x has risen in from position j: nothing
\* has changed after j, and up to j there are the entries before j and x, in order.
RisenIn(g, n, h, x, j) ==
    /\ g \in Arrays(n)
    /\ \A p \in j + 1 .. n : g[p] = h[p]
    /\ Entries(g, 1 .. j) = Entries(h, 1 .. j - 1) \cup {x}
    /\ Distinct(g, 1 .. j)
    /\ \A q \in 1 .. j - 1 : g[q] <= h[q]
    /\ g[j] = x \/ (j > 1 /\ g[j] = h[j \div 2])
    /\ Ordered(g, j)

(* Where x stops.                                                          *)
LEMMA RiseStops ==
    ASSUME NEW n \in Nat, NEW h \in Arrays(n), NEW x \in Int, NEW j \in 1 .. n,
           Ordered(h, j - 1), Distinct(h, 1 .. j - 1), x \notin Entries(h, 1 .. j - 1),
           j = 1 \/ ~ (x < h[j \div 2])
    PROVE  RisenIn([h EXCEPT ![j] = x], n, h, x, j)
<1> DEFINE g == [h EXCEPT ![j] = x]
<1>1. /\ g \in Arrays(n) /\ g[j] = x /\ \A p \in 1 .. n : p # j => g[p] = h[p]
      /\ \A p \in 1 .. n : h[p] \in Int
  BY DEF Arrays
<1> HIDE DEF g
<1>2. \A q \in 1 .. j - 1 : q \in 1 .. n /\ q # j
  OBVIOUS
<1>3. \A q \in 1 .. j : q = j \/ q \in 1 .. j - 1
  OBVIOUS
<1>4. \A p \in j + 1 .. n : g[p] = h[p]
  BY <1>1
<1>5. Entries(g, 1 .. j) = Entries(h, 1 .. j - 1) \cup {x}
  <2>1. \A q \in 1 .. j : g[q] = x \/ \E p \in 1 .. j - 1 : g[q] = h[p]
    BY <1>1, <1>2, <1>3
  <2>2. \A q \in 1 .. j - 1 : q \in 1 .. j /\ h[q] = g[q]
    BY <1>1, <1>2
  <2>3. j \in 1 .. j
    OBVIOUS
  <2> QED BY <1>1, <2>1, <2>2, <2>3 DEF Entries
<1>6. Distinct(g, 1 .. j)
  <2> SUFFICES ASSUME NEW p \in 1 .. j, NEW q \in 1 .. j, g[p] = g[q] PROVE p = q
    BY DEF Distinct
  <2>1. CASE p = j /\ q # j
    BY <1>1, <1>2, <1>3, <2>1 DEF Entries
  <2>2. CASE p # j /\ q = j
    BY <1>1, <1>2, <1>3, <2>2 DEF Entries
  <2>3. CASE p # j /\ q # j
    BY <1>1, <1>2, <1>3, <2>3 DEF Distinct
  <2> QED BY <2>1, <2>2, <2>3
<1>7. Ordered(g, j)
  <2> SUFFICES ASSUME NEW p \in 2 .. j PROVE g[p \div 2] <= g[p]
    BY DEF Ordered
  <2>1. p \div 2 \in 1 .. j - 1 /\ p \div 2 \in 1 .. n
    OBVIOUS
  <2>2. CASE p = j
    BY <1>1, <1>2, <2>1, <2>2
  <2>3. CASE p # j
    <3>1. p \in 2 .. j - 1 /\ p \in 1 .. n
      BY <2>3
    <3> QED BY <1>1, <1>2, <2>1, <2>3, <3>1 DEF Ordered
  <2> QED BY <2>2, <2>3
<1>8. \A q \in 1 .. j - 1 : g[q] <= h[q]
  BY <1>1, <1>2
<1>9. RisenIn(g, n, h, x, j)
  BY <1>1, <1>4, <1>5, <1>6, <1>7, <1>8 DEF RisenIn
<1> QED BY <1>9 DEF g

(* Where it passes a parent, which comes down.                             *)
LEMMA RisePasses ==
    ASSUME NEW n \in Nat, NEW h \in Arrays(n), NEW x \in Int, NEW j \in 2 .. n, NEW k, k = j \div 2,
           Ordered(h, j - 1), Distinct(h, 1 .. j - 1), x \notin Entries(h, 1 .. j - 1),
           x < h[k], NEW f, RisenIn(f, n, h, x, k)
    PROVE  RisenIn([f EXCEPT ![j] = h[k]], n, h, x, j)
<1> DEFINE g == [f EXCEPT ![j] = h[k]]
<1>0. k \in 1 .. j - 1 /\ k \in 1 .. n
  OBVIOUS
<1>1. /\ g \in Arrays(n) /\ g[j] = h[k] /\ \A p \in 1 .. n : p # j => g[p] = f[p]
      /\ \A p \in 1 .. n : h[p] \in Int /\ f[p] \in Int
  BY <1>0 DEF Arrays, RisenIn
<1> HIDE DEF g
<1>2. /\ \A p \in k + 1 .. n : f[p] = h[p]
      /\ Entries(f, 1 .. k) = Entries(h, 1 .. k - 1) \cup {x}
      /\ Distinct(f, 1 .. k)
      /\ \A q \in 1 .. k - 1 : f[q] <= h[q]
      /\ f[k] = x \/ (k > 1 /\ f[k] = h[k \div 2])
      /\ Ordered(f, k)
  BY DEF RisenIn
<1>3. \A p \in j + 1 .. n : g[p] = h[p]
  BY <1>0, <1>1, <1>2
<1>4. \A q \in 1 .. k : \/ f[q] = x
                        \/ \E p \in 1 .. k - 1 : f[q] = h[p]
  BY <1>2 DEF Entries
<1>5. \A q \in k + 1 .. j - 1 : q \in 1 .. n /\ g[q] = h[q]
  BY <1>0, <1>1, <1>2
<1>6. \A q \in 1 .. k : q \in 1 .. n /\ g[q] = f[q]
  BY <1>0, <1>1
<1>7. \A q \in 1 .. j : q = j \/ q \in 1 .. k \/ q \in k + 1 .. j - 1
  BY <1>0
<1>8. Entries(g, 1 .. j) = Entries(h, 1 .. j - 1) \cup {x}
  <2>1. \A q \in 1 .. j : g[q] = x \/ \E p \in 1 .. j - 1 : g[q] = h[p]
    <3>1. \A p \in 1 .. k - 1 : p \in 1 .. j - 1
      BY <1>0
    <3>2. \A p \in k + 1 .. j - 1 : p \in 1 .. j - 1
      BY <1>0
    <3> QED BY <1>0, <1>1, <1>4, <1>5, <1>6, <1>7, <3>1, <3>2
  <2>2. \A q \in 1 .. j - 1 : \E p \in 1 .. j : h[q] = g[p]
    <3>1. \A q \in 1 .. j - 1 : q = k \/ q \in 1 .. k - 1 \/ q \in k + 1 .. j - 1
      BY <1>0
    <3>2. ASSUME NEW q \in 1 .. k - 1 PROVE \E p \in 1 .. k : h[q] = f[p]
      <4>1. h[q] \in Entries(f, 1 .. k)
        BY <1>2, EntriesAre
      <4> QED BY <4>1, EntriesAre
    <3>3. \A p \in 1 .. k : p \in 1 .. j
      BY <1>0
    <3>4. j \in 1 .. j /\ \A p \in k + 1 .. j - 1 : p \in 1 .. j
      BY <1>0
    <3>5. \A q \in 1 .. k - 1 : \E p \in 1 .. j : h[q] = g[p]
      <4> SUFFICES ASSUME NEW q \in 1 .. k - 1 PROVE \E p \in 1 .. j : h[q] = g[p]
        OBVIOUS
      <4>1. PICK p \in 1 .. k : h[q] = f[p]
        BY <3>2
      <4> QED BY <1>6, <3>3, <4>1
    <3>6. \E p \in 1 .. j : h[k] = g[p]
      BY <1>1, <3>4
    <3>7. \A q \in k + 1 .. j - 1 : \E p \in 1 .. j : h[q] = g[p]
      BY <1>5, <3>4
    <3> QED BY <3>1, <3>5, <3>6, <3>7
  <2>3. \E p \in 1 .. j : x = g[p]
    <3>1. PICK p \in 1 .. k : x = f[p]
      <4>1. x \in Entries(f, 1 .. k)
        BY <1>2
      <4> QED BY <4>1, EntriesAre
    <3>2. p \in 1 .. j
      BY <1>0
    <3> QED BY <1>6, <3>1, <3>2
  <2>4. ASSUME NEW y \in Entries(g, 1 .. j) PROVE y \in Entries(h, 1 .. j - 1) \cup {x}
    <3>1. PICK q \in 1 .. j : y = g[q]
      BY EntriesAre
    <3> QED BY <2>1, <3>1, EntriesAre
  <2>5. ASSUME NEW y \in Entries(h, 1 .. j - 1) \cup {x} PROVE y \in Entries(g, 1 .. j)
    <3>1. CASE y = x
      BY <2>3, <3>1, EntriesAre
    <3>2. CASE y \in Entries(h, 1 .. j - 1)
      <4>1. PICK q \in 1 .. j - 1 : y = h[q]
        BY <3>2, EntriesAre
      <4> QED BY <2>2, <4>1, EntriesAre
    <3> QED BY <3>1, <3>2
  <2> QED BY <2>4, <2>5
<1>9. Distinct(g, 1 .. j)
  <2>0. \A p, q \in 1 .. j - 1 : h[p] = h[q] => p = q
    BY DEF Distinct
  <2>1. \A q \in 1 .. j - 1 : h[q] # x
    BY DEF Entries
  <2>2. \A q \in 1 .. k : f[q] # h[k]
    <3>1. \A p \in 1 .. k - 1 : p \in 1 .. j - 1 /\ p # k
      BY <1>0
    <3> QED BY <1>0, <1>4, <2>0, <2>1, <3>1
  <2>3. \A q \in 1 .. k, p \in k + 1 .. j - 1 : f[q] # h[p]
    <3>1. \A p \in 1 .. k - 1 : p \in 1 .. j - 1
      BY <1>0
    <3>2. \A p \in k + 1 .. j - 1 : p \in 1 .. j - 1 /\ p > k
      BY <1>0
    <3> QED BY <1>0, <1>4, <2>0, <2>1, <3>1, <3>2
  <2>4. \A p \in k + 1 .. j - 1 : p \in 1 .. j - 1 /\ h[p] # h[k]
    BY <1>0, <2>0
  <2> SUFFICES ASSUME NEW p \in 1 .. j, NEW q \in 1 .. j, g[p] = g[q], p # q PROVE FALSE
    BY DEF Distinct
  <2>5. CASE p = j
    BY <1>1, <1>5, <1>6, <1>7, <2>2, <2>4, <2>5
  <2>6. CASE q = j
    BY <1>1, <1>5, <1>6, <1>7, <2>2, <2>4, <2>6
  <2>7. CASE p # j /\ q # j
    BY <1>2, <1>5, <1>6, <1>7, <2>0, <2>3, <2>4, <2>7 DEF Distinct
  <2> QED BY <2>5, <2>6, <2>7
<1>10. \A q \in 1 .. j - 1 : g[q] <= h[q]
  <2> SUFFICES ASSUME NEW q \in 1 .. j - 1 PROVE g[q] <= h[q]
    OBVIOUS
  <2>1. q \in 1 .. n
    OBVIOUS
  <2>2. CASE q = k
    <3>1. CASE f[k] = x
      BY <1>0, <1>1, <1>6, <2>2, <3>1
    <3>2. CASE k > 1 /\ f[k] = h[k \div 2]
      <4>1. k \in 2 .. j - 1
        BY <1>0, <3>2
      <4> QED BY <1>0, <1>6, <2>2, <3>2, <4>1 DEF Ordered
    <3> QED BY <1>2, <3>1, <3>2
  <2>3. CASE q \in 1 .. k - 1
    BY <1>0, <1>2, <1>6, <2>3
  <2>4. CASE q \in k + 1 .. j - 1
    BY <1>1, <1>5, <2>1, <2>4
  <2> QED BY <1>0, <2>2, <2>3, <2>4
<1>11. Ordered(g, j)
  <2> SUFFICES ASSUME NEW p \in 2 .. j PROVE g[p \div 2] <= g[p]
    BY DEF Ordered
  <2>1. p \div 2 \in 1 .. j - 1 /\ p \div 2 \in 1 .. n /\ p \in 1 .. n
    OBVIOUS
  <2>2. CASE p \in 2 .. k
    <3>1. p \div 2 \in 1 .. k /\ p \in 1 .. k
      BY <2>2
    <3> QED BY <1>2, <1>6, <2>2, <3>1 DEF Ordered
  <2>3. CASE p \in k + 1 .. j - 1
    <3>1. p \in 2 .. j - 1
      BY <2>3
    <3>2. h[p \div 2] <= h[p]
      BY <3>1 DEF Ordered
    <3>3. g[p \div 2] <= h[p \div 2] /\ g[p] = h[p]
      BY <1>5, <1>10, <2>1, <2>3
    <3> QED BY <1>1, <2>1, <3>2, <3>3 DEF Arrays
  <2>4. CASE p = j
    <3>1. g[k] <= h[k]
      BY <1>0, <1>10
    <3> QED BY <1>1, <2>4, <3>1
  <2> QED BY <1>0, <2>2, <2>3, <2>4
<1>12. RisenIn(g, n, h, x, j)
  BY <1>0, <1>1, <1>3, <1>8, <1>9, <1>10, <1>11 DEF RisenIn
<1> QED BY <1>12 DEF g

(* The last entry of an array that is a heap but for it: percolateUp makes *)
(* the whole a heap of the same entries.                                   *)
LEMMA percolateUpKeeps ==
    ASSUME NEW n \in Nat \ {0}, NEW h \in Arrays(n), Distinct(h, 1 .. n), Ordered(h, n - 1)
    PROVE  /\ percolateUp(h, n) \in Arrays(n)
           /\ Entries(percolateUp(h, n), 1 .. n) = Entries(h, 1 .. n)
           /\ Distinct(percolateUp(h, n), 1 .. n)
           /\ Ordered(percolateUp(h, n), n)
<1> DEFINE x == h[n]
<1>1. x \in Int /\ n \in 1 .. n
  BY DEF Arrays
<1>2. PICK r : Rises(r, n, h, x) /\ percolateUp(h, n) = r[n]
  BY <1>1, percolateUpIs
<1>3. x \notin Entries(h, 1 .. n - 1)
  <2>1. \A p \in 1 .. n - 1 : p \in 1 .. n /\ p # n
    OBVIOUS
  <2> QED BY <1>1, <2>1 DEF Distinct, Entries
<1>4. Entries(h, 1 .. n) = Entries(h, 1 .. n - 1) \cup {x}
  <2>1. \A p \in 1 .. n : p = n \/ p \in 1 .. n - 1
    OBVIOUS
  <2>2. \A p \in 1 .. n - 1 : p \in 1 .. n
    OBVIOUS
  <2> QED BY <1>1, <2>1, <2>2 DEF Entries
<1> HIDE DEF x
<1> DEFINE T == {m \in 0 .. n : \A j \in 1 .. m : RisenIn(r[j], n, h, x, j)}
<1>5. 0 \in T
  OBVIOUS
<1>6. ASSUME NEW m \in 0 .. n - 1, m \in T PROVE m + 1 \in T
  <2>1. PICK j : j = m + 1 /\ j \in 1 .. n /\ j \in 0 .. n
    OBVIOUS
  <2>2. /\ Ordered(h, j - 1) /\ Distinct(h, 1 .. j - 1) /\ x \notin Entries(h, 1 .. j - 1)
    <3>1. /\ \A p \in 1 .. j - 1 : p \in 1 .. n /\ p \in 1 .. n - 1
          /\ \A p \in 2 .. j - 1 : p \in 2 .. n - 1
      BY <2>1
    <3> QED BY <1>3, <3>1 DEF Ordered, Distinct, Entries
  <2>3. CASE j = 1 \/ ~ (x < h[j \div 2])
    <3>1. r[j] = [h EXCEPT ![j] = x]
      BY <1>2, <2>1, <2>3 DEF Rises
    <3>2. RisenIn(r[j], n, h, x, j)
      BY <1>1, <2>1, <2>2, <2>3, <3>1, RiseStops
    <3> QED BY <1>6, <2>1, <3>2
  <2>4. CASE j # 1 /\ x < h[j \div 2]
    <3>1. PICK k : k = j \div 2
      OBVIOUS
    <3>2. r[j] = [r[k] EXCEPT ![j] = h[k]]
      BY <1>2, <2>1, <2>4, <3>1 DEF Rises
    <3>3. k \in 1 .. m /\ j \in 2 .. n
      BY <2>1, <2>4, <3>1
    <3>4. RisenIn(r[k], n, h, x, k)
      BY <1>6, <3>3
    <3>5. RisenIn([r[k] EXCEPT ![j] = h[k]], n, h, x, j)
      BY <1>1, <2>2, <2>4, <3>1, <3>3, <3>4, RisePasses
    <3> QED BY <1>6, <2>1, <3>2, <3>5
  <2> QED BY <2>3, <2>4
<1>7. n \in T
  <2> HIDE DEF T
  <2>1. 0 .. n \subseteq T
    BY <1>5, <1>6, Climb
  <2> QED BY <2>1
<1>8. RisenIn(r[n], n, h, x, n)
  BY <1>1, <1>7
<1> QED BY <1>2, <1>4, <1>8 DEF RisenIn

(* Where all is in order, no entry rises.                                  *)
LEMMA percolateUpOrdered ==
    ASSUME NEW n \in Nat, NEW h \in Arrays(n), Ordered(h, n), NEW i \in 1 .. n
    PROVE  percolateUp(h, i) = h
<1>1. PICK r : Rises(r, n, h, h[i]) /\ percolateUp(h, i) = r[i]
  BY percolateUpIs
<1>2. i = 1 \/ ~ (h[i] < h[i \div 2])
  <2>1. CASE i # 1
    <3>1. i \in 2 .. n /\ i \div 2 \in 1 .. n
      BY <2>1
    <3> QED BY <3>1 DEF Ordered, Arrays
  <2> QED BY <2>1
<1>3. r[i] = [h EXCEPT ![i] = h[i]]
  BY <1>1, <1>2 DEF Rises
<1> QED BY <1>1, <1>3 DEF Arrays

-----------------------------------------------------------------------------
(* The same downwards.                                                     *)

\* The child that percolateDown compares with.
Child(h, n, j) == IF 2 * j < n /\ h[2 * j + 1] < h[2 * j] THEN 2 * j + 1 ELSE 2 * j

\* What it makes of array h, when x is to sink from a position.
Sinks(r, n, h, x) ==
    /\ r \in [1 .. n -> Arrays(n)]
    /\ \A j \in 1 .. n :
          r[j] = IF 2 * j > n \/ ~ (h[Child(h, n, j)] < x) THEN [h EXCEPT ![j] = x]
                 ELSE [r[Child(h, n, j)] EXCEPT ![j] = h[Child(h, n, j)]]

(* A child comes later, and is no larger than the other one.               *)
LEMMA ChildIs ==
    ASSUME NEW n \in Nat, NEW h \in Arrays(n), NEW j \in 1 .. n, 2 * j <= n
    PROVE  /\ Child(h, n, j) \in j + 1 .. n /\ Child(h, n, j) \in 1 .. n
           /\ Child(h, n, j) \div 2 = j
           /\ \A p \in 2 .. n : p \div 2 = j => h[Child(h, n, j)] <= h[p]
<1>1. \A p \in 1 .. n : h[p] \in Int
  BY DEF Arrays
<1>2. \A p \in 2 .. n : p \div 2 = j => p = 2 * j \/ p = 2 * j + 1
  OBVIOUS
<1>3. 2 * j \in 1 .. n /\ (2 * j) \div 2 = j /\ (2 * j + 1) \div 2 = j /\ (2 * j < n => 2 * j + 1 \in 1 .. n)
  OBVIOUS
<1>4. CASE 2 * j < n /\ h[2 * j + 1] < h[2 * j]
  BY <1>1, <1>2, <1>3, <1>4 DEF Child
<1>5. CASE ~ (2 * j < n /\ h[2 * j + 1] < h[2 * j])
  BY <1>1, <1>2, <1>3, <1>5 DEF Child
<1> QED BY <1>4, <1>5

(* There is such a function.                                               *)
LEMMA SinkExists ==
    ASSUME NEW n \in Nat, NEW h \in Arrays(n), NEW x \in Int
    PROVE  \E r : Sinks(r, n, h, x)
<1> DEFINE Stays(j) == 2 * j > n \/ ~ (h[Child(h, n, j)] < x)
           next  == [j \in 1 .. n |-> IF Stays(j) THEN 0 ELSE Child(h, n, j)]
           first == [j \in 1 .. n |-> [h EXCEPT ![j] = x]]
           comb  == [p \in Arrays(n) \X (1 .. n) |->
                       [p[1] EXCEPT ![p[2]] = IF 2 * p[2] > n THEN x ELSE h[Child(h, n, p[2])]]]
<1>1. \A j \in 1 .. n : ~ Stays(j) => Child(h, n, j) \in 1 .. n /\ Child(h, n, j) > j
  BY ChildIs
<1>2. next \in [1 .. n -> 0 .. n] /\ \A j \in 1 .. n : next[j] = 0 \/ next[j] > j
  <2> HIDE DEF Stays
  <2> QED BY <1>1
<1>3. first \in [1 .. n -> Arrays(n)]
  BY DEF Arrays
<1>4. comb \in [Arrays(n) \X (1 .. n) -> Arrays(n)]
  <2>1. \A j \in 1 .. n : 2 * j > n \/ h[Child(h, n, j)] \in Int
    BY ChildIs DEF Arrays
  <2> QED BY <2>1 DEF Arrays
<1>5. PICK r \in [1 .. n -> Arrays(n)] : Chained(r, n, next, first, comb)
  <2> HIDE DEF next, first, comb
  <2> QED BY <1>2, <1>3, <1>4, Ascent
<1>6. ASSUME NEW j \in 1 .. n
      PROVE  r[j] = IF Stays(j) THEN [h EXCEPT ![j] = x]
                    ELSE [r[Child(h, n, j)] EXCEPT ![j] = h[Child(h, n, j)]]
  <2>1. r[j] = IF next[j] = 0 THEN first[j] ELSE comb[<<r[next[j]], j>>]
    BY <1>5 DEF Chained
  <2>2. CASE Stays(j)
    <3> HIDE DEF Stays
    <3> QED BY <2>1, <2>2
  <2>3. CASE ~ Stays(j)
    <3>1. next[j] = Child(h, n, j) /\ Child(h, n, j) \in 1 .. n /\ r[Child(h, n, j)] \in Arrays(n)
      <4> HIDE DEF Stays
      <4> QED BY <1>1, <2>3
    <3>2. comb[<<r[Child(h, n, j)], j>>] = [r[Child(h, n, j)] EXCEPT ![j] = h[Child(h, n, j)]]
      BY <2>3, <3>1
    <3> HIDE DEF next, comb, Stays
    <3> QED BY <2>1, <2>3, <3>1, <3>2
  <2> QED BY <2>2, <2>3
<1> QED BY <1>6 DEF Sinks

(* percolateDown is its value at the position.                             *)
LEMMA percolateDownIs ==
    ASSUME NEW n \in Nat, NEW h \in Arrays(n), Len(h) = n, NEW i \in 1 .. n
    PROVE  \E r : Sinks(r, n, h, h[i]) /\ percolateDown(h, i) = r[i]
<1> DEFINE x == h[i]
           Stays(j) == 2 * j > n \/ ~ (h[Child(h, n, j)] < x)
           Eq(r) == [j \in 1 .. n |-> IF Stays(j) THEN [h EXCEPT ![j] = x]
                                      ELSE [r[Child(h, n, j)] EXCEPT ![j] = h[Child(h, n, j)]]]
           sink == CHOOSE r : r = Eq(r)
<1>1. x \in Int /\ DOMAIN h = 1 .. n
  BY DEF Arrays
<1>2. PICK r : Sinks(r, n, h, x)
  <2> HIDE DEF x
  <2> QED BY <1>1, SinkExists
<1>3. r = Eq(r)
  <2> HIDE DEF x
  <2> QED BY <1>2 DEF Sinks
<1>4. sink = Eq(sink)
  <2> HIDE DEF Eq
  <2> QED BY <1>3
<1>5. percolateDown(h, i) = sink[i]
  BY <1>1 DEF percolateDown, Child
<1> HIDE DEF x
<1>6. \A j \in 1 .. n : sink[j] = IF Stays(j) THEN [h EXCEPT ![j] = x]
                                  ELSE [sink[Child(h, n, j)] EXCEPT ![j] = h[Child(h, n, j)]]
  <2> HIDE DEF sink, Stays
  <2> QED BY <1>4
<1>7. \A j \in 1 .. n : r[j] = IF Stays(j) THEN [h EXCEPT ![j] = x]
                               ELSE [r[Child(h, n, j)] EXCEPT ![j] = h[Child(h, n, j)]]
  BY <1>2 DEF Sinks
<1>8. \A j \in 1 .. n : ~ Stays(j) => Child(h, n, j) \in j + 1 .. n
  BY ChildIs
<1> HIDE DEF sink, Stays
<1>9. sink = r
  <2> DEFINE T == {m \in 0 .. n : \A j \in n - m + 1 .. n : sink[j] = r[j]}
  <2>1. 0 \in T
    OBVIOUS
  <2>2. ASSUME NEW m \in 0 .. n - 1, m \in T PROVE m + 1 \in T
    <3>1. PICK k : k = n - m /\ k \in 1 .. n /\ n - m + 1 = k + 1 /\ n - (m + 1) + 1 = k /\ m + 1 \in 0 .. n
      OBVIOUS
    <3>2. ~ Stays(k) => sink[Child(h, n, k)] = r[Child(h, n, k)]
      BY <1>8, <2>2, <3>1
    <3>3. sink[k] = r[k]
      <4>1. CASE Stays(k)
        BY <1>6, <1>7, <3>1, <4>1
      <4>2. CASE ~ Stays(k)
        <5>1. sink[k] = [sink[Child(h, n, k)] EXCEPT ![k] = h[Child(h, n, k)]]
          BY <1>6, <3>1, <4>2
        <5>2. r[k] = [r[Child(h, n, k)] EXCEPT ![k] = h[Child(h, n, k)]]
          BY <1>7, <3>1, <4>2
        <5> QED BY <3>2, <4>2, <5>1, <5>2
      <4> QED BY <4>1, <4>2
    <3>4. \A j \in k .. n : j = k \/ j \in k + 1 .. n
      BY <3>1
    <3> QED BY <2>2, <3>1, <3>3, <3>4
  <2>3. n \in T
    <3> HIDE DEF T
    <3>1. 0 .. n \subseteq T
      BY <2>1, <2>2, Climb
    <3> QED BY <3>1
  <2>4. \A j \in 1 .. n : sink[j] = r[j]
    BY <2>3
  <2>5. Eq(sink) = Eq(r)
    <3>1. \A j \in 1 .. n : ~ Stays(j) => sink[Child(h, n, j)] = r[Child(h, n, j)]
      BY <1>8, <2>4
    <3> QED BY <3>1
  <2> HIDE DEF Eq
  <2> QED BY <1>3, <1>4, <2>5
<1>10. Sinks(r, n, h, h[i]) /\ percolateDown(h, i) = r[i]
  BY <1>2, <1>5, <1>9 DEF x
<1> QED BY <1>10

\* The order of the pairs whose parent is j or comes later.
OrderedFrom(h, n, j) == \A p \in 2 .. n : p \div 2 >= j => h[p \div 2] <= h[p]

\* What is known of an array g that x has sunk in from position j.
SunkIn(g, n, h, x, j) ==
    /\ g \in Arrays(n)
    /\ \A p \in 1 .. j - 1 : g[p] = h[p]
    /\ Entries(g, j .. n) = Entries(h, j + 1 .. n) \cup {x}
    /\ Distinct(g, j .. n)
    /\ \A q \in j + 1 .. n : h[q] <= g[q]
    /\ g[j] = x \/ (2 * j <= n /\ g[j] = h[Child(h, n, j)])
    /\ OrderedFrom(g, n, j)

(* Where x stops.                                                          *)
LEMMA SinkStops ==
    ASSUME NEW n \in Nat, NEW h \in Arrays(n), NEW x \in Int, NEW j \in 1 .. n,
           OrderedFrom(h, n, j + 1), Distinct(h, j + 1 .. n), x \notin Entries(h, j + 1 .. n),
           2 * j > n \/ ~ (h[Child(h, n, j)] < x)
    PROVE  SunkIn([h EXCEPT ![j] = x], n, h, x, j)
<1> DEFINE g == [h EXCEPT ![j] = x]
<1>1. /\ g \in Arrays(n) /\ g[j] = x /\ \A p \in 1 .. n : p # j => g[p] = h[p]
      /\ \A p \in 1 .. n : h[p] \in Int
  BY DEF Arrays
<1> HIDE DEF g
<1>2. \A q \in j + 1 .. n : q \in 1 .. n /\ q # j /\ q \in j .. n
  OBVIOUS
<1>3. j \in j .. n /\ \A q \in j .. n : q = j \/ q \in j + 1 .. n
  OBVIOUS
<1>4. \A p \in 1 .. j - 1 : g[p] = h[p]
  BY <1>1
<1>5. Entries(g, j .. n) = Entries(h, j + 1 .. n) \cup {x}
  <2>1. \A q \in j .. n : g[q] = x \/ \E p \in j + 1 .. n : g[q] = h[p]
    BY <1>1, <1>2, <1>3
  <2>2. \A q \in j + 1 .. n : q \in j .. n /\ h[q] = g[q]
    BY <1>1, <1>2
  <2> QED BY <1>1, <1>3, <2>1, <2>2 DEF Entries
<1>6. Distinct(g, j .. n)
  <2> SUFFICES ASSUME NEW p \in j .. n, NEW q \in j .. n, g[p] = g[q] PROVE p = q
    BY DEF Distinct
  <2>1. CASE p = j /\ q # j
    BY <1>1, <1>2, <1>3, <2>1 DEF Entries
  <2>2. CASE p # j /\ q = j
    BY <1>1, <1>2, <1>3, <2>2 DEF Entries
  <2>3. CASE p # j /\ q # j
    BY <1>1, <1>2, <1>3, <2>3 DEF Distinct
  <2> QED BY <2>1, <2>2, <2>3
<1>7. OrderedFrom(g, n, j)
  <2> SUFFICES ASSUME NEW p \in 2 .. n, p \div 2 >= j PROVE g[p \div 2] <= g[p]
    BY DEF OrderedFrom
  <2>1. p \div 2 \in j .. n /\ p \div 2 \in 1 .. n /\ p \in 1 .. n /\ p # j
    OBVIOUS
  <2>2. CASE p \div 2 = j
    <3>1. 2 * j <= n
      BY <2>2
    <3>2. Child(h, n, j) \in 1 .. n /\ h[Child(h, n, j)] <= h[p]
      BY <2>2, <3>1, ChildIs
    <3>3. ~ (h[Child(h, n, j)] < x) /\ h[Child(h, n, j)] \in Int
      BY <1>1, <3>1, <3>2
    <3> QED BY <1>1, <2>1, <2>2, <3>2, <3>3
  <2>3. CASE p \div 2 # j
    <3>1. h[p \div 2] <= h[p]
      BY <2>1, <2>3 DEF OrderedFrom
    <3> QED BY <1>1, <2>1, <2>3, <3>1
  <2> QED BY <2>2, <2>3
<1>8. \A q \in j + 1 .. n : h[q] <= g[q]
  BY <1>1, <1>2
<1>9. SunkIn(g, n, h, x, j)
  BY <1>1, <1>4, <1>5, <1>6, <1>7, <1>8 DEF SunkIn
<1> QED BY <1>9 DEF g

(* Where it passes a child, which comes up.                                *)
LEMMA SinkPasses ==
    ASSUME NEW n \in Nat, NEW h \in Arrays(n), NEW x \in Int, NEW j \in 1 .. n, 2 * j <= n,
           NEW c, c = Child(h, n, j),
           OrderedFrom(h, n, j + 1), Distinct(h, j + 1 .. n), x \notin Entries(h, j + 1 .. n),
           h[c] < x, NEW f, SunkIn(f, n, h, x, c)
    PROVE  SunkIn([f EXCEPT ![j] = h[c]], n, h, x, j)
<1> DEFINE g == [f EXCEPT ![j] = h[c]]
<1>0. /\ c \in j + 1 .. n /\ c \in 1 .. n /\ c \div 2 = j
      /\ \A p \in 2 .. n : p \div 2 = j => h[c] <= h[p]
  BY ChildIs
<1>1. /\ g \in Arrays(n) /\ g[j] = h[c] /\ \A p \in 1 .. n : p # j => g[p] = f[p]
      /\ \A p \in 1 .. n : h[p] \in Int /\ f[p] \in Int
  BY <1>0 DEF Arrays, SunkIn
<1> HIDE DEF g
<1>2. /\ \A p \in 1 .. c - 1 : f[p] = h[p]
      /\ Entries(f, c .. n) = Entries(h, c + 1 .. n) \cup {x}
      /\ Distinct(f, c .. n)
      /\ \A q \in c + 1 .. n : h[q] <= f[q]
      /\ f[c] = x \/ (2 * c <= n /\ f[c] = h[Child(h, n, c)])
      /\ OrderedFrom(f, n, c)
  BY DEF SunkIn
<1>14. /\ \A y \in Entries(f, c .. n) : \E p \in c .. n : y = f[p]
       /\ \A y \in Entries(h, c + 1 .. n) : \E p \in c + 1 .. n : y = h[p]
  BY DEF Entries
<1>3. \A p \in 1 .. j - 1 : g[p] = h[p]
  BY <1>0, <1>1, <1>2
<1>4. ASSUME NEW q \in c .. n PROVE f[q] = x \/ \E p \in c + 1 .. n : f[q] = h[p]
  <2>1. f[q] \in Entries(f, c .. n)
    BY EntriesAre
  <2>2. f[q] \in Entries(h, c + 1 .. n) \/ f[q] = x
    BY <1>2, <2>1
  <2> QED BY <1>14, <2>2
<1>5. \A q \in j + 1 .. c - 1 : q \in 1 .. n /\ g[q] = h[q]
  BY <1>0, <1>1, <1>2
<1>6. \A q \in c .. n : q \in 1 .. n /\ g[q] = f[q]
  BY <1>0, <1>1
<1>7. \A q \in j .. n : q = j \/ q \in c .. n \/ q \in j + 1 .. c - 1
  BY <1>0
<1>8. /\ \A p \in c + 1 .. n : p \in j + 1 .. n /\ p # c
      /\ \A p \in j + 1 .. c - 1 : p \in j + 1 .. n /\ p < c /\ p \in j .. n
      /\ \A p \in c .. n : p \in j .. n
      /\ j \in j .. n
  BY <1>0
<1>9. Entries(g, j .. n) = Entries(h, j + 1 .. n) \cup {x}
  <2>1. \A q \in j .. n : g[q] = x \/ \E p \in j + 1 .. n : g[q] = h[p]
    BY <1>0, <1>1, <1>4, <1>5, <1>6, <1>7, <1>8
  <2>2. ASSUME NEW q \in j + 1 .. n PROVE \E p \in j .. n : h[q] = g[p]
    <3>1. CASE q = c
      BY <1>1, <1>8, <3>1
    <3>2. CASE q \in c + 1 .. n
      <4>1. h[q] \in Entries(f, c .. n)
        BY <1>2, <3>2, EntriesAre
      <4>2. PICK p \in c .. n : h[q] = f[p]
        BY <1>14, <4>1
      <4> QED BY <1>6, <1>8, <4>2
    <3>3. CASE q \in j + 1 .. c - 1
      BY <1>5, <1>8, <3>3
    <3> QED BY <1>0, <3>1, <3>2, <3>3
  <2>3. \E p \in j .. n : x = g[p]
    <3>1. x \in Entries(f, c .. n)
      BY <1>2
    <3>2. PICK p \in c .. n : x = f[p]
      BY <1>14, <3>1
    <3> QED BY <1>6, <1>8, <3>2
  <2>4. ASSUME NEW y \in Entries(g, j .. n) PROVE y \in Entries(h, j + 1 .. n) \cup {x}
    <3>1. PICK q \in j .. n : y = g[q]
      BY EntriesAre
    <3> QED BY <2>1, <3>1, EntriesAre
  <2>5. ASSUME NEW y \in Entries(h, j + 1 .. n) \cup {x} PROVE y \in Entries(g, j .. n)
    <3>1. CASE y = x
      BY <2>3, <3>1, EntriesAre
    <3>2. CASE y \in Entries(h, j + 1 .. n)
      <4>1. PICK q \in j + 1 .. n : y = h[q]
        BY <3>2, EntriesAre
      <4> QED BY <2>2, <4>1, EntriesAre
    <3> QED BY <3>1, <3>2
  <2> QED BY <2>4, <2>5
<1>10. Distinct(g, j .. n)
  <2>0. \A p, q \in j + 1 .. n : h[p] = h[q] => p = q
    BY DEF Distinct
  <2>1. \A q \in j + 1 .. n : h[q] # x
    BY DEF Entries
  <2>2. \A q \in c .. n : f[q] # h[c]
    BY <1>0, <1>4, <1>8, <2>0, <2>1
  <2>3. \A q \in c .. n, p \in j + 1 .. c - 1 : f[q] # h[p]
    <3>1. \A q \in c + 1 .. n, p \in j + 1 .. c - 1 : p < q
      BY <1>0
    <3> QED BY <1>0, <1>4, <1>8, <2>0, <2>1, <3>1
  <2>4. \A p \in j + 1 .. c - 1 : h[p] # h[c]
    BY <1>0, <1>8, <2>0
  <2> SUFFICES ASSUME NEW p \in j .. n, NEW q \in j .. n, g[p] = g[q], p # q PROVE FALSE
    BY DEF Distinct
  <2>5. CASE p = j
    BY <1>1, <1>5, <1>6, <1>7, <2>2, <2>4, <2>5
  <2>6. CASE q = j
    BY <1>1, <1>5, <1>6, <1>7, <2>2, <2>4, <2>6
  <2>7. CASE p # j /\ q # j
    BY <1>2, <1>5, <1>6, <1>7, <1>8, <2>0, <2>3, <2>7 DEF Distinct
  <2> QED BY <2>5, <2>6, <2>7
<1>11. \A q \in j + 1 .. n : h[q] <= g[q]
  <2> SUFFICES ASSUME NEW q \in j + 1 .. n PROVE h[q] <= g[q]
    OBVIOUS
  <2>1. q \in 1 .. n
    OBVIOUS
  <2>2. CASE q = c
    <3>1. CASE f[c] = x
      BY <1>0, <1>1, <1>6, <2>2, <3>1
    <3>2. CASE 2 * c <= n /\ f[c] = h[Child(h, n, c)]
      <4>1. Child(h, n, c) \in 2 .. n /\ Child(h, n, c) \div 2 = c
        BY <1>0, <3>2, ChildIs
      <4>2. c >= j + 1 /\ c \in c .. n
        BY <1>0
      <4>3. h[c] <= h[Child(h, n, c)]
        BY <4>1, <4>2 DEF OrderedFrom
      <4> QED BY <1>6, <2>2, <3>2, <4>2, <4>3
    <3> QED BY <1>2, <3>1, <3>2
  <2>3. CASE q \in c + 1 .. n
    BY <1>0, <1>2, <1>6, <2>3
  <2>4. CASE q \in j + 1 .. c - 1
    BY <1>1, <1>5, <2>1, <2>4
  <2> QED BY <1>0, <2>2, <2>3, <2>4
<1>12. OrderedFrom(g, n, j)
  <2> SUFFICES ASSUME NEW p \in 2 .. n, p \div 2 >= j PROVE g[p \div 2] <= g[p]
    BY DEF OrderedFrom
  <2>1. p \div 2 \in j .. n /\ p \div 2 \in 1 .. n /\ p \in j + 1 .. n /\ p \in 1 .. n
    OBVIOUS
  <2>2. CASE p \div 2 \in c .. n
    <3>1. p \in c .. n /\ p \div 2 >= c
      BY <1>0, <2>1, <2>2
    <3> QED BY <1>2, <1>6, <2>2, <3>1 DEF OrderedFrom
  <2>3. CASE p \div 2 \in j + 1 .. c - 1
    <3>1. h[p \div 2] <= h[p]
      BY <2>3 DEF OrderedFrom
    <3>2. h[p] <= g[p] /\ g[p \div 2] = h[p \div 2]
      BY <1>5, <1>11, <2>1, <2>3
    <3> QED BY <1>1, <2>1, <3>1, <3>2 DEF Arrays
  <2>4. CASE p \div 2 = j
    <3>1. h[c] <= h[p] /\ h[p] <= g[p] /\ g[p \div 2] = h[c]
      BY <1>0, <1>1, <1>11, <2>1, <2>4
    <3>2. h[c] \in Int /\ h[p] \in Int /\ g[p] \in Int
      BY <1>0, <1>1, <2>1 DEF Arrays
    <3> QED BY <3>1, <3>2
  <2> QED BY <1>0, <2>1, <2>2, <2>3, <2>4
<1>13. SunkIn(g, n, h, x, j)
  BY <1>0, <1>1, <1>3, <1>9, <1>10, <1>11, <1>12 DEF SunkIn
<1> QED BY <1>13 DEF g

(* An array that is a heap but for its first entry: percolateDown makes it *)
(* a heap of the same entries.                                             *)
LEMMA percolateDownKeeps ==
    ASSUME NEW n \in Nat \ {0}, NEW h \in Arrays(n), Len(h) = n, Distinct(h, 1 .. n), OrderedFrom(h, n, 2)
    PROVE  /\ percolateDown(h, 1) \in Arrays(n)
           /\ Entries(percolateDown(h, 1), 1 .. n) = Entries(h, 1 .. n)
           /\ Distinct(percolateDown(h, 1), 1 .. n)
           /\ Ordered(percolateDown(h, 1), n)
<1> DEFINE x == h[1]
<1>1. x \in Int /\ 1 \in 1 .. n
  BY DEF Arrays
<1>2. PICK r : Sinks(r, n, h, x) /\ percolateDown(h, 1) = r[1]
  BY <1>1, percolateDownIs
<1>3. Entries(h, 1 .. n) = Entries(h, 2 .. n) \cup {x}
  <2>1. \A p \in 1 .. n : p = 1 \/ p \in 2 .. n
    OBVIOUS
  <2>2. \A p \in 2 .. n : p \in 1 .. n
    OBVIOUS
  <2> QED BY <1>1, <2>1, <2>2 DEF Entries
<1>4. x \notin Entries(h, 2 .. n)
  <2>1. \A p \in 2 .. n : p \in 1 .. n /\ p # 1
    OBVIOUS
  <2> QED BY <1>1, <2>1 DEF Distinct, Entries
<1> HIDE DEF x
<1> DEFINE T == {m \in 0 .. n : \A j \in n - m + 1 .. n : SunkIn(r[j], n, h, x, j)}
<1>5. 0 \in T
  OBVIOUS
<1>6. ASSUME NEW m \in 0 .. n - 1, m \in T PROVE m + 1 \in T
  <2>1. PICK j : j = n - m /\ j \in 1 .. n /\ n - m + 1 = j + 1 /\ n - (m + 1) + 1 = j /\ m + 1 \in 0 .. n
    OBVIOUS
  <2>2. OrderedFrom(h, n, j + 1) /\ Distinct(h, j + 1 .. n) /\ x \notin Entries(h, j + 1 .. n)
    <3>1. \A p \in j + 1 .. n : p \in 1 .. n /\ p \in 2 .. n
      BY <2>1
    <3>2. \A p \in 2 .. n : p \div 2 >= j + 1 => p \div 2 >= 2
      BY <2>1
    <3> QED BY <1>4, <3>1, <3>2 DEF OrderedFrom, Distinct, Entries
  <2>3. \A k \in j .. n : k = j \/ k \in j + 1 .. n
    BY <2>1
  <2>4. CASE 2 * j > n \/ ~ (h[Child(h, n, j)] < x)
    <3>1. r[j] = [h EXCEPT ![j] = x]
      BY <1>2, <2>1, <2>4 DEF Sinks
    <3>2. SunkIn([h EXCEPT ![j] = x], n, h, x, j)
      BY <1>1, <2>1, <2>2, <2>4, SinkStops
    <3> QED BY <1>6, <2>1, <2>3, <3>1, <3>2
  <2>5. CASE 2 * j <= n /\ h[Child(h, n, j)] < x
    <3>1. PICK c : c = Child(h, n, j)
      OBVIOUS
    <3>2. r[j] = [r[c] EXCEPT ![j] = h[c]]
      <4>1. r[j] = IF 2 * j > n \/ ~ (h[Child(h, n, j)] < x) THEN [h EXCEPT ![j] = x]
                   ELSE [r[Child(h, n, j)] EXCEPT ![j] = h[Child(h, n, j)]]
        BY <1>2, <2>1 DEF Sinks
      <4>2. ~ (2 * j > n \/ ~ (h[Child(h, n, j)] < x))
        BY <2>1, <2>5
      <4> QED BY <3>1, <4>1, <4>2
    <3>3. c \in j + 1 .. n
      BY <2>1, <2>5, <3>1, ChildIs
    <3>4. SunkIn(r[c], n, h, x, c)
      BY <1>6, <2>1, <3>3
    <3>5. SunkIn([r[c] EXCEPT ![j] = h[c]], n, h, x, j)
      BY <1>1, <2>1, <2>2, <2>5, <3>1, <3>4, SinkPasses
    <3> QED BY <1>6, <2>1, <2>3, <3>2, <3>5
  <2> QED BY <2>1, <2>4, <2>5
<1>7. n \in T
  <2> HIDE DEF T
  <2>1. 0 .. n \subseteq T
    BY <1>5, <1>6, Climb
  <2> QED BY <2>1
<1>8. SunkIn(r[1], n, h, x, 1)
  BY <1>1, <1>7
<1>9. Ordered(r[1], n)
  BY <1>8 DEF SunkIn, OrderedFrom, Ordered
<1>10. /\ r[1] \in Arrays(n) /\ Distinct(r[1], 1 .. n)
       /\ Entries(r[1], 1 .. n) = Entries(h, 2 .. n) \cup {x}
  BY <1>8 DEF SunkIn
<1> QED BY <1>2, <1>3, <1>9, <1>10

(* Where all is in order, no entry sinks.                                  *)
LEMMA percolateDownOrdered ==
    ASSUME NEW n \in Nat, NEW h \in Arrays(n), Len(h) = n, Ordered(h, n), NEW i \in 1 .. n
    PROVE  percolateDown(h, i) = h
<1>1. PICK r : Sinks(r, n, h, h[i]) /\ percolateDown(h, i) = r[i]
  BY percolateDownIs
<1>2. 2 * i > n \/ ~ (h[Child(h, n, i)] < h[i])
  <2>1. CASE 2 * i <= n
    <3>1. Child(h, n, i) \in 2 .. n /\ Child(h, n, i) \div 2 = i /\ Child(h, n, i) \in 1 .. n
      BY <2>1, ChildIs
    <3>2. h[i] <= h[Child(h, n, i)]
      BY <3>1 DEF Ordered
    <3> QED BY <3>1, <3>2 DEF Arrays
  <2> QED BY <2>1
<1>3. r[i] = [h EXCEPT ![i] = h[i]]
  BY <1>1, <1>2 DEF Sinks
<1> QED BY <1>1, <1>3 DEF Arrays

(* The first entry is the least.                                           *)
LEMMA LeastFirst ==
    ASSUME NEW n \in Nat, NEW h \in Arrays(n), Ordered(h, n), NEW i \in 1 .. n
    PROVE  h[1] <= h[i]
<1> DEFINE T == {m \in 0 .. n : \A p \in 1 .. m : h[1] <= h[p]}
<1>0. \A p \in 1 .. n : h[p] \in Int
  BY DEF Arrays
<1>1. 0 \in T
  OBVIOUS
<1>2. ASSUME NEW m \in 0 .. n - 1, m \in T PROVE m + 1 \in T
  <2>1. PICK p : p = m + 1 /\ p \in 1 .. n /\ p \in 0 .. n /\ 1 \in 1 .. n
    OBVIOUS
  <2>2. h[1] <= h[p]
    <3>1. CASE p = 1
      BY <1>0, <2>1, <3>1
    <3>2. CASE p # 1
      <4>1. p \div 2 \in 1 .. m /\ p \in 2 .. n /\ p \div 2 \in 1 .. n
        BY <2>1, <3>2
      <4>2. h[1] <= h[p \div 2] /\ h[p \div 2] <= h[p]
        BY <1>2, <4>1 DEF Ordered
      <4> QED BY <1>0, <2>1, <4>1, <4>2
    <3> QED BY <3>1, <3>2
  <2>3. \A q \in 1 .. m + 1 : q = p \/ q \in 1 .. m
    BY <2>1
  <2> QED BY <1>2, <2>1, <2>2, <2>3
<1>3. n \in T
  <2> HIDE DEF T
  <2>1. 0 .. n \subseteq T
    BY <1>1, <1>2, Climb
  <2> QED BY <2>1
<1> QED BY <1>3

-----------------------------------------------------------------------------
(* The heap of keys.                                                       *)

\* All keys of a heap.
Keys(h) == Entries(h, 1 .. Len(h))

\* The positions are those of the keys in the heap, and -1 for the others.
Located(ind, h) ==
    /\ DOMAIN ind \subseteq Nat
    /\ Keys(h) \subseteq DOMAIN ind
    /\ \A p \in 1 .. Len(h) : ind[h[p]] = p - 1
    /\ \A k \in DOMAIN ind : k \notin Keys(h) => ind[k] = -1

IsHeap(h, ind) ==
    /\ h \in Seq(Nat)
    /\ Distinct(h, 1 .. Len(h))
    /\ Ordered(h, Len(h))
    /\ Located(ind, h)

(* A sequence of numbers is an array, and an array of keys a sequence.     *)
LEMMA ArraySeq ==
    /\ \A h \in Seq(Nat) : h \in Arrays(Len(h)) /\ Len(h) \in Nat /\ Keys(h) \subseteq Nat /\ DOMAIN h = 1 .. Len(h)
    /\ \A n \in Nat : \A h \in Arrays(n) :
          Entries(h, 1 .. n) \subseteq Nat => h \in Seq(Nat) /\ Len(h) = n /\ Keys(h) = Entries(h, 1 .. n)
<1>1. ASSUME NEW h \in Seq(Nat)
      PROVE  h \in Arrays(Len(h)) /\ Len(h) \in Nat /\ Keys(h) \subseteq Nat /\ DOMAIN h = 1 .. Len(h)
  BY DEF Arrays, Keys, Entries
<1>2. ASSUME NEW n \in Nat, NEW h \in Arrays(n), Entries(h, 1 .. n) \subseteq Nat
      PROVE  h \in Seq(Nat) /\ Len(h) = n /\ Keys(h) = Entries(h, 1 .. n)
  <2>1. h \in [1 .. n -> Nat]
    BY <1>2 DEF Arrays, Entries
  <2>2. h \in Seq(Nat) /\ Len(h) = n
    BY <2>1
  <2> QED BY <2>2 DEF Keys
<1> QED BY <1>1, <1>2

(* Positions are right after a move, if they were where nothing moved.     *)
LEMMA MovedIs ==
    ASSUME NEW ind, DOMAIN ind \subseteq Nat, NEW h \in Seq(Nat), NEW g \in Seq(Nat),
           Distinct(g, 1 .. Len(g)), Keys(g) \subseteq DOMAIN ind,
           \A p \in 1 .. Len(g) : p <= Len(h) /\ h[p] = g[p] => ind[g[p]] = p - 1,
           \A k \in DOMAIN ind : k \notin Keys(g) => ind[k] = -1
    PROVE  Located(Moved(ind, h, g), g) /\ DOMAIN Moved(ind, h, g) = DOMAIN ind
<1> DEFINE m == Moved(ind, h, g)
           Changed(k, j) == g[j] = k /\ (j > Len(h) \/ h[j] # k)
<1>1. DOMAIN g = 1 .. Len(g) /\ Len(h) \in Nat /\ Len(g) \in Nat
  OBVIOUS
<1>2. /\ DOMAIN m = DOMAIN ind
      /\ \A k \in DOMAIN ind : m[k] = IF \E j \in DOMAIN g : Changed(k, j)
                                      THEN (CHOOSE j \in DOMAIN g : g[j] = k) - 1
                                      ELSE ind[k]
  BY DEF Moved
<1> HIDE DEF m
<1>3. ASSUME NEW p \in 1 .. Len(g) PROVE m[g[p]] = p - 1
  <2>1. g[p] \in DOMAIN ind
    BY DEF Keys, Entries
  <2>2. (CHOOSE j \in DOMAIN g : g[j] = g[p]) = p
    BY <1>1 DEF Distinct
  <2>3. CASE \E j \in DOMAIN g : Changed(g[p], j)
    <3> HIDE DEF Changed
    <3> QED BY <1>2, <2>1, <2>2, <2>3
  <2>4. CASE ~ \E j \in DOMAIN g : Changed(g[p], j)
    <3>0. p \in DOMAIN g /\ ~ (g[p] = g[p] /\ (p > Len(h) \/ h[p] # g[p]))
      BY <1>1, <2>4
    <3>1. p <= Len(h) /\ h[p] = g[p]
      BY <1>1, <3>0
    <3>2. ind[g[p]] = p - 1
      BY <3>1
    <3> HIDE DEF Changed
    <3> QED BY <1>2, <2>1, <2>4, <3>2
  <2> QED BY <2>3, <2>4
<1>4. ASSUME NEW k \in DOMAIN ind, k \notin Keys(g) PROVE m[k] = -1
  <2>1. ~ \E j \in DOMAIN g : Changed(k, j)
    BY <1>1, <1>4 DEF Keys, Entries
  <2> HIDE DEF Changed
  <2> QED BY <1>2, <1>4, <2>1
<1>5. Located(m, g) /\ DOMAIN m = DOMAIN ind
  BY <1>2, <1>3, <1>4 DEF Located
<1> QED BY <1>5 DEF m

\* The members of a queue.
QueueOf(el, z, h, ind) == [elements |-> el, sz |-> z, heap |-> h, indices |-> ind]

\* What update makes of the array and the positions.
Known(ind, key) == [k \in DOMAIN ind \cup 0 .. key |-> IF k \in DOMAIN ind THEN ind[k] ELSE -1]
Updated(h, ind, key) ==
    IF key \in DOMAIN ind /\ ind[key] >= 0
    THEN percolateDown(percolateUp(h, ind[key] + 1), Moved(ind, h, percolateUp(h, ind[key] + 1))[key] + 1)
    ELSE percolateUp(Append(h, key), Len(h) + 1)

(* update puts the key in the heap, if it is not there.                    *)
LEMMA updateIs ==
    ASSUME NEW el, NEW z, NEW h, NEW ind, IsHeap(h, ind), NEW key \in Nat
    PROVE  \E g, jnd : /\ update(QueueOf(el, z, h, ind), key) = QueueOf(el, z, g, jnd)
                       /\ IsHeap(g, jnd)
                       /\ Keys(g) = Keys(h) \cup {key}
<1> DEFINE v == QueueOf(el, z, h, ind)
           n == Len(h)
           i == ind[key] + 1
           known == Known(ind, key)
           g == Updated(h, ind, key)
           jnd == Moved(known, h, g)
<1>1. update(v, key) = QueueOf(el, z, g, jnd)
  <2>1. update(v, key) = [v EXCEPT !.heap = Updated(v.heap, v.indices, key),
                                   !.indices = Moved(Known(v.indices, key), v.heap, Updated(v.heap, v.indices, key))]
    BY DEF update, inHeap, Updated, Known
  <2>2. v.heap = h /\ v.indices = ind
    BY DEF QueueOf
  <2>3. update(v, key) = [v EXCEPT !.heap = g, !.indices = jnd]
    <3> HIDE DEF v
    <3> QED BY <2>1, <2>2
  <2> HIDE DEF g, jnd
  <2> QED BY <2>3 DEF QueueOf
<1>2. /\ h \in Seq(Nat) /\ n \in Nat /\ h \in Arrays(n) /\ DOMAIN h = 1 .. n
      /\ Distinct(h, 1 .. n) /\ Ordered(h, n) /\ Keys(h) \subseteq Nat
  BY ArraySeq DEF IsHeap
<1>3. /\ DOMAIN ind \subseteq Nat /\ Keys(h) \subseteq DOMAIN ind
      /\ \A p \in 1 .. n : ind[h[p]] = p - 1
      /\ \A k \in DOMAIN ind : k \notin Keys(h) => ind[k] = -1
  BY DEF IsHeap, Located
<1>4. key \in DOMAIN ind /\ ind[key] >= 0 <=> key \in Keys(h)
  <2>2. key \in Keys(h) => \E p \in 1 .. n : key = h[p]
    BY DEF Keys, Entries
  <2> HIDE DEF v, n
  <2>3. ASSUME key \in Keys(h) PROVE key \in DOMAIN ind /\ ind[key] >= 0
    <3>1. PICK p \in 1 .. n : key = h[p]
      BY <2>2, <2>3
    <3> QED BY <1>2, <1>3, <2>3, <3>1
  <2>4. ASSUME key \notin Keys(h) PROVE ~ (key \in DOMAIN ind /\ ind[key] >= 0)
    BY <1>3, <2>4
  <2> QED BY <2>3, <2>4
<1>5. /\ DOMAIN known \subseteq Nat /\ key \in DOMAIN known /\ DOMAIN ind \subseteq DOMAIN known
      /\ \A k \in DOMAIN known : known[k] = IF k \in DOMAIN ind THEN ind[k] ELSE -1
  BY <1>3 DEF Known
<1> HIDE DEF v, n, known
<1>6. CASE key \in Keys(h)
  <2>1. PICK p \in 1 .. n : key = h[p]
    BY <1>6 DEF Keys, Entries, n
  <2>2. i = p
    BY <1>2, <1>3, <2>1
  <2>3. percolateUp(h, i) = h
    BY <1>2, <2>2, percolateUpOrdered
  <2>4. key \in DOMAIN ind
    BY <1>3, <1>6
  <2>5. Moved(ind, h, h)[key] = ind[key]
    <3>1. ~ \E j \in DOMAIN h : h[j] = key /\ (j > Len(h) \/ h[j] # key)
      BY <1>2 DEF n
    <3> QED BY <2>4, <3>1 DEF Moved
  <2>6. percolateDown(h, p) = h
    BY <1>2, percolateDownOrdered DEF n
  <2>7. g = h
    BY <1>4, <1>6, <2>2, <2>3, <2>5, <2>6 DEF Updated
  <2> HIDE DEF g
  <2>8. Located(Moved(known, h, h), h)
    <3>1. Keys(h) \subseteq DOMAIN known
      BY <1>3, <1>5
    <3>2. \A q \in 1 .. n : h[q] \in Keys(h)
      BY DEF Keys, Entries, n
    <3>3. \A q \in 1 .. n : known[h[q]] = q - 1
      BY <1>3, <1>5, <3>2
    <3>4. \A k \in DOMAIN known : k \notin Keys(h) => known[k] = -1
      BY <1>3, <1>5
    <3> QED BY <1>2, <1>5, <3>1, <3>3, <3>4, MovedIs DEF n
  <2>9. IsHeap(g, jnd)
    BY <1>2, <2>7, <2>8 DEF IsHeap, n
  <2> HIDE DEF jnd
  <2> QED BY <1>1, <1>6, <2>7, <2>9 DEF v
<1>7. CASE key \notin Keys(h)
  <2> DEFINE a == Append(h, key)
  <2>1. /\ a \in Seq(Nat) /\ Len(a) = n + 1 /\ a[n + 1] = key /\ \A p \in 1 .. n : a[p] = h[p]
    BY <1>2 DEF n
  <2> HIDE DEF a
  <2>2. a \in Arrays(n + 1) /\ n + 1 \in Nat \ {0}
    BY <1>2, <2>1, ArraySeq
  <2>3. \A p \in 1 .. n : h[p] # key
    BY <1>7 DEF Keys, Entries, n
  <2>4. \A p \in 1 .. n + 1 : p = n + 1 \/ p \in 1 .. n
    BY <1>2
  <2>5. Distinct(a, 1 .. n + 1)
    <3> SUFFICES ASSUME NEW p \in 1 .. n + 1, NEW q \in 1 .. n + 1, a[p] = a[q] PROVE p = q
      BY DEF Distinct
    <3> QED BY <1>2, <2>1, <2>3, <2>4 DEF Distinct
  <2>6. Ordered(a, n)
    <3> SUFFICES ASSUME NEW p \in 2 .. n PROVE a[p \div 2] <= a[p]
      BY DEF Ordered
    <3>1. p \in 1 .. n /\ p \div 2 \in 1 .. n
      BY <1>2
    <3> QED BY <1>2, <2>1, <3>1 DEF Ordered
  <2>7. g = percolateUp(a, n + 1)
    BY <1>4, <1>7 DEF a, Updated, n
  <2>8. n + 1 - 1 = n
    BY <1>2
  <2>9. /\ g \in Arrays(n + 1)
        /\ Entries(g, 1 .. n + 1) = Entries(a, 1 .. n + 1)
        /\ Distinct(g, 1 .. n + 1)
        /\ Ordered(g, n + 1)
    <3> HIDE DEF g
    <3>1. PICK m \in Nat \ {0} : m = n + 1
      BY <2>2
    <3>2. a \in Arrays(m) /\ Distinct(a, 1 .. m) /\ Ordered(a, m - 1) /\ g = percolateUp(a, m)
      <4>1. m - 1 = n
        BY <1>2, <3>1
      <4> QED BY <2>2, <2>5, <2>6, <2>7, <3>1, <4>1
    <3>3. /\ g \in Arrays(m) /\ Entries(g, 1 .. m) = Entries(a, 1 .. m)
          /\ Distinct(g, 1 .. m) /\ Ordered(g, m)
      BY <3>2, percolateUpKeeps
    <3> QED BY <3>1, <3>3
  <2> HIDE DEF g
  <2>10. Entries(a, 1 .. n + 1) = Keys(h) \cup {key}
    <3>1. \A p \in 1 .. n : p \in 1 .. n + 1
      BY <1>2
    <3>2. n + 1 \in 1 .. n + 1
      BY <1>2
    <3> QED BY <2>1, <2>4, <3>1, <3>2 DEF Keys, Entries, n
  <2>11. g \in Seq(Nat) /\ Len(g) = n + 1 /\ Keys(g) = Keys(h) \cup {key}
    BY <1>2, <2>2, <2>9, <2>10, ArraySeq
  <2>12. Located(jnd, g)
    <3>1. Keys(g) \subseteq DOMAIN known
      BY <1>3, <1>5, <2>11
    <3>2. ASSUME NEW p \in 1 .. Len(g), p <= Len(h), h[p] = g[p] PROVE known[g[p]] = p - 1
      <4>1. p \in 1 .. n
        BY <1>2, <3>2 DEF n
      <4>2. h[p] \in Keys(h)
        BY <4>1 DEF Keys, Entries, n
      <4> QED BY <1>3, <1>5, <3>2, <4>1, <4>2
    <3>3. \A k \in DOMAIN known : k \notin Keys(g) => known[k] = -1
      BY <1>3, <1>5, <2>11
    <3>4. Distinct(g, 1 .. Len(g))
      BY <2>9, <2>11
    <3> QED BY <1>2, <1>5, <2>11, <3>1, <3>2, <3>3, <3>4, MovedIs
  <2>13. IsHeap(g, jnd)
    BY <2>9, <2>11, <2>12 DEF IsHeap
  <2> HIDE DEF jnd
  <2> QED BY <1>1, <2>11, <2>13 DEF v
<1> QED BY <1>6, <1>7

\* What removeKey makes of the array and the positions.
Cut(h) == Pop([h EXCEPT ![1] = h[Len(h)]])
Removed(h) == IF Len(Cut(h)) > 1 THEN percolateDown(Cut(h), 1) ELSE Cut(h)
Unlocated(ind, h) == [[ind EXCEPT ![h[Len(h)]] = 0] EXCEPT ![h[1]] = -1]

(* removeKey takes the first key from the heap.                            *)
LEMMA removeKeyIs ==
    ASSUME NEW el, NEW z, NEW h, NEW ind, IsHeap(h, ind), h # <<>>
    PROVE  \E g, jnd : /\ removeKey(QueueOf(el, z, h, ind)) = QueueOf(el, z, g, jnd)
                       /\ IsHeap(g, jnd)
                       /\ Keys(g) = Keys(h) \ {h[1]}
<1> DEFINE v == QueueOf(el, z, h, ind)
           n == Len(h)
           last == h[n]
           cut == Cut(h)
           g == Removed(h)
           known == Unlocated(ind, h)
           jnd == Moved(known, cut, g)
<1>1. removeKey(v) = QueueOf(el, z, g, jnd)
  <2>1. removeKey(v) = [v EXCEPT !.heap = Removed(v.heap),
                                 !.indices = Moved(Unlocated(v.indices, v.heap), Cut(v.heap), Removed(v.heap))]
    BY DEF removeKey, Removed, Cut, Unlocated
  <2>2. v.heap = h /\ v.indices = ind
    BY DEF QueueOf
  <2>3. removeKey(v) = [v EXCEPT !.heap = g, !.indices = jnd]
    <3> HIDE DEF v
    <3> QED BY <2>1, <2>2
  <2> HIDE DEF g, jnd
  <2> QED BY <2>3 DEF QueueOf
<1>2. /\ h \in Seq(Nat) /\ n \in Nat /\ n > 0 /\ h \in Arrays(n) /\ DOMAIN h = 1 .. n
      /\ Distinct(h, 1 .. n) /\ Ordered(h, n) /\ Keys(h) \subseteq Nat
  BY ArraySeq DEF IsHeap
<1>3. /\ DOMAIN ind \subseteq Nat /\ Keys(h) \subseteq DOMAIN ind
      /\ \A p \in 1 .. n : ind[h[p]] = p - 1
      /\ \A k \in DOMAIN ind : k \notin Keys(h) => ind[k] = -1
  BY DEF IsHeap, Located
<1>4. \A p \in 1 .. n : h[p] \in Keys(h) /\ h[p] \in Nat
  BY <1>2 DEF Keys, Entries
<1>5. /\ cut \in Seq(Nat) /\ Len(cut) = n - 1
      /\ \A p \in 1 .. n - 1 : cut[p] = IF p = 1 THEN last ELSE h[p]
  <2> DEFINE e == [h EXCEPT ![1] = last]
  <2>1. last \in Nat
    BY <1>2, <1>4
  <2> HIDE DEF last, n
  <2>2. e \in Seq(Nat) /\ Len(e) = n /\ \A p \in 1 .. n : e[p] = IF p = 1 THEN last ELSE h[p]
    BY <1>2, <2>1 DEF n
  <2>3. cut = SubSeq(e, 1, n - 1)
    BY <2>2 DEF Pop, Cut, last, n
  <2> HIDE DEF e, cut
  <2>4. /\ cut \in Seq(Nat) /\ Len(cut) = n - 1
        /\ \A p \in 1 .. n - 1 : cut[p] = e[p]
    BY <1>2, <2>2, <2>3
  <2>5. \A p \in 1 .. n - 1 : p \in 1 .. n
    BY <1>2
  <2> QED BY <2>2, <2>4, <2>5
<1>6. /\ DOMAIN known = DOMAIN ind /\ known[h[1]] = -1
      /\ \A k \in DOMAIN ind : k # h[1] /\ k # last => known[k] = ind[k]
      /\ last # h[1] => known[last] = 0
  BY <1>2, <1>3, <1>4 DEF Unlocated
<1>7. last \in Keys(h) /\ h[1] \in Keys(h) /\ n \in 1 .. n /\ 1 \in 1 .. n
  BY <1>2, <1>4
<1> HIDE DEF v, known, cut, n
<1>8. \A p \in 1 .. n - 1 : p \in 1 .. n /\ p # n
  BY <1>2
<1>9. last # h[1] <=> n # 1
  BY <1>2, <1>7 DEF Distinct
<1>10. cut \in Arrays(n - 1) /\ n - 1 \in Nat
  BY <1>2, <1>5, ArraySeq
<1>11. Distinct(cut, 1 .. n - 1)
  <2> SUFFICES ASSUME NEW p \in 1 .. n - 1, NEW q \in 1 .. n - 1, cut[p] = cut[q] PROVE p = q
    BY DEF Distinct
  <2>1. p \in 1 .. n /\ q \in 1 .. n /\ p # n /\ q # n /\ n \in 1 .. n
    BY <1>2
  <2>2. \A a, b \in 1 .. n : h[a] = h[b] => a = b
    BY <1>2 DEF Distinct
  <2> QED BY <1>5, <2>1, <2>2
<1>12. OrderedFrom(cut, n - 1, 2)
  <2> SUFFICES ASSUME NEW p \in 2 .. n - 1, p \div 2 >= 2 PROVE cut[p \div 2] <= cut[p]
    BY DEF OrderedFrom
  <2>1. p \div 2 \in 1 .. n - 1 /\ p \div 2 # 1 /\ p \in 1 .. n - 1 /\ p # 1 /\ p \in 2 .. n
    BY <1>2
  <2> HIDE DEF last
  <2>2. cut[p \div 2] = h[p \div 2] /\ cut[p] = h[p]
    BY <1>5, <2>1
  <2> QED BY <1>2, <2>1, <2>2 DEF Ordered
<1>13. Entries(cut, 1 .. n - 1) = Keys(h) \ {h[1]}
  <2>1. \A y \in Keys(h) : \E p \in 1 .. n : y = h[p]
    BY DEF Keys, Entries, n
  <2>2. ASSUME NEW y \in Entries(cut, 1 .. n - 1) PROVE y \in Keys(h) /\ y # h[1]
    <3>1. PICK p \in 1 .. n - 1 : y = cut[p]
      BY DEF Entries
    <3>2. CASE p = 1
      BY <1>2, <1>5, <1>7, <1>9, <3>1, <3>2
    <3>3. CASE p # 1
      <4>1. y = h[p] /\ p \in 1 .. n
        BY <1>5, <1>8, <3>1, <3>3
      <4> QED BY <1>2, <1>4, <1>7, <3>3, <4>1 DEF Distinct
    <3> QED BY <3>2, <3>3
  <2>3. ASSUME NEW y \in Keys(h), y # h[1] PROVE y \in Entries(cut, 1 .. n - 1)
    <3>1. PICK p \in 1 .. n : y = h[p]
      BY <2>1
    <3>2. CASE p = n
      <4>1. 1 \in 1 .. n - 1 /\ cut[1] = y
        BY <1>2, <1>5, <2>3, <3>1, <3>2
      <4> QED BY <4>1 DEF Entries
    <3>3. CASE p # n
      <4>1. p \in 1 .. n - 1 /\ cut[p] = y
        BY <1>2, <1>5, <2>3, <3>1, <3>3
      <4> QED BY <4>1 DEF Entries
    <3> QED BY <3>2, <3>3
  <2> QED BY <2>2, <2>3
<1> HIDE DEF last
<1>14. /\ g \in Arrays(n - 1)
       /\ Entries(g, 1 .. n - 1) = Entries(cut, 1 .. n - 1)
       /\ Distinct(g, 1 .. n - 1)
       /\ Ordered(g, n - 1)
  <2>1. CASE Len(cut) > 1
    <3>1. PICK m \in Nat \ {0} : m = n - 1
      BY <1>2, <1>5, <2>1
    <3>2. g = percolateDown(cut, 1)
      BY <2>1 DEF Removed, cut
    <3> HIDE DEF g
    <3> QED BY <1>5, <1>10, <1>11, <1>12, <3>1, <3>2, percolateDownKeeps
  <2>2. CASE ~ (Len(cut) > 1)
    <3>1. g = cut
      BY <2>2 DEF Removed, cut
    <3>2. ~ (n - 1 > 1)
      BY <1>5, <2>2
    <3> HIDE DEF g
    <3>3. Ordered(cut, n - 1)
      BY <1>2, <3>2 DEF Ordered
    <3> QED BY <1>10, <1>11, <3>1, <3>3
  <2> QED BY <2>1, <2>2
<1> HIDE DEF g
<1>15. g \in Seq(Nat) /\ Len(g) = n - 1 /\ Keys(g) = Keys(h) \ {h[1]}
  <2>1. Entries(g, 1 .. n - 1) \subseteq Nat
    BY <1>2, <1>13, <1>14
  <2> QED BY <1>10, <1>13, <1>14, <2>1, ArraySeq
<1>16. Located(jnd, g)
  <2>1. Keys(g) \subseteq DOMAIN known
    BY <1>3, <1>6, <1>15
  <2>2. ASSUME NEW p \in 1 .. Len(g), p <= Len(cut), cut[p] = g[p] PROVE known[g[p]] = p - 1
    <3>1. p \in 1 .. n - 1 /\ g[p] = IF p = 1 THEN last ELSE h[p]
      BY <1>5, <1>15, <2>2
    <3>2. CASE p = 1
      BY <1>2, <1>6, <1>9, <3>1, <3>2
    <3>3. CASE p # 1
      <4>1. p \in 1 .. n /\ p # n /\ g[p] = h[p]
        BY <1>8, <3>1, <3>3
      <4>2. h[p] # h[1] /\ h[p] # last
        BY <1>2, <1>7, <3>3, <4>1 DEF Distinct, last
      <4>3. h[p] \in DOMAIN ind
        BY <1>3, <1>4, <4>1
      <4> QED BY <1>3, <1>6, <4>1, <4>2, <4>3
    <3> QED BY <3>2, <3>3
  <2>3. ASSUME NEW k \in DOMAIN known, k \notin Keys(g) PROVE known[k] = -1
    <3>1. CASE k = h[1]
      BY <1>6, <3>1
    <3>2. CASE k # h[1]
      <4>1. k \notin Keys(h)
        BY <1>15, <2>3, <3>2
      <4>2. k # last
        BY <1>7, <4>1
      <4> QED BY <1>3, <1>6, <2>3, <3>2, <4>1, <4>2
    <3> QED BY <3>1, <3>2
  <2>4. Distinct(g, 1 .. Len(g))
    BY <1>14, <1>15
  <2>5. DOMAIN known \subseteq Nat
    BY <1>3, <1>6
  <2> QED BY <1>5, <1>15, <2>1, <2>2, <2>3, <2>4, <2>5, MovedIs
<1>17. IsHeap(g, jnd)
  BY <1>14, <1>15, <1>16 DEF IsHeap
<1> HIDE DEF jnd
<1> QED BY <1>1, <1>15, <1>17 DEF v

-----------------------------------------------------------------------------
(* The queue.                                                              *)

Stack(v, k) == IF k \in DOMAIN v.elements THEN v.elements[k] ELSE <<>>

\* A queue of members of E: the heap has the keys whose stacks are not empty.
IsQueue(v, E) ==
    /\ v = QueueOf(v.elements, v.sz, v.heap, v.indices)
    /\ v.sz \in Int
    /\ DOMAIN v.elements \subseteq Nat
    /\ \A k \in DOMAIN v.elements : v.elements[k] \in Seq(E)
    /\ IsHeap(v.heap, v.indices)
    /\ Keys(v.heap) = {k \in DOMAIN v.elements : v.elements[k] # <<>>}

(* What a queue's stacks are.                                              *)
LEMMA StackIs ==
    ASSUME NEW E, NEW v, IsQueue(v, E)
    PROVE  /\ \A k : Stack(v, k) \in Seq(E) /\ (Stack(v, k) # <<>> <=> k \in Keys(v.heap))
           /\ Keys(v.heap) \subseteq Nat
           /\ DOMAIN Stacks(v) = Keys(v.heap) /\ \A k \in Keys(v.heap) : Stacks(v)[k] = Stack(v, k)
<1>1. \A k : Stack(v, k) \in Seq(E)
  <2>1. <<>> \in Seq(E)
    OBVIOUS
  <2> QED BY <2>1 DEF Stack, IsQueue
<1>2. \A k : Stack(v, k) # <<>> <=> k \in Keys(v.heap)
  BY DEF Stack, IsQueue
<1>3. Keys(v.heap) \subseteq Nat
  BY DEF IsQueue
<1>4. DOMAIN Stacks(v) = Keys(v.heap) /\ \A k \in Keys(v.heap) : Stacks(v)[k] = Stack(v, k)
  BY DEF Stacks, Stack, IsQueue
<1> QED BY <1>1, <1>2, <1>3, <1>4

(* insert pushes x on the stack of its key.                                *)
LEMMA insertIs ==
    ASSUME NEW E, NEW v, IsQueue(v, E), NEW key \in Nat, NEW x \in E
    PROVE  /\ IsQueue(insert(v, key, x), E)
           /\ insert(v, key, x).sz = v.sz + 1
           /\ \A k : Stack(insert(v, key, x), k) = IF k = key THEN Append(Stack(v, k), x) ELSE Stack(v, k)
           /\ Keys(insert(v, key, x).heap) = Keys(v.heap) \cup {key}
<1> DEFINE el == v.elements
           grown == [k \in DOMAIN el \cup 0 .. key |-> IF k \in DOMAIN el THEN el[k] ELSE <<>>]
           fl == [grown EXCEPT ![key] = Append(@, x)]
           w == insert(v, key, x)
<1>1. PICK g, jnd : /\ update(v, key) = QueueOf(v.elements, v.sz, g, jnd)
                    /\ IsHeap(g, jnd)
                    /\ Keys(g) = Keys(v.heap) \cup {key}
  BY updateIs DEF IsQueue
<1>2. w = QueueOf(fl, v.sz + 1, g, jnd)
  <2>1. w = [update(v, key) EXCEPT !.sz = update(v, key).sz + 1, !.elements = fl]
    BY DEF insert
  <2>2. update(v, key).sz = v.sz
    BY <1>1 DEF QueueOf
  <2> HIDE DEF fl, w
  <2>3. PICK y, z : y = update(v, key) /\ z = v.sz + 1
    OBVIOUS
  <2>4. w = [y EXCEPT !.sz = z, !.elements = fl]
    BY <2>1, <2>2, <2>3
  <2>5. y = QueueOf(v.elements, v.sz, g, jnd)
    BY <1>1, <2>3
  <2>6. [y EXCEPT !.sz = z, !.elements = fl] = QueueOf(fl, z, g, jnd)
    <3>1. PICK y2, e, e2 : y2 = [y EXCEPT !.sz = z] /\ e = v.elements /\ e2 = fl
      OBVIOUS
    <3>2. y2 = QueueOf(e, z, g, jnd)
      BY <2>5, <3>1 DEF QueueOf
    <3>3. [y2 EXCEPT !.elements = e2] = QueueOf(e2, z, g, jnd)
      BY <3>2 DEF QueueOf
    <3> QED BY <3>1, <3>3
  <2> QED BY <2>3, <2>4, <2>6
<1>3. w.elements = fl /\ w.sz = v.sz + 1 /\ w.heap = g /\ w.indices = jnd
  <2> HIDE DEF fl, w
  <2> QED BY <1>2 DEF QueueOf
<1>4. /\ DOMAIN el \subseteq Nat /\ \A k \in DOMAIN el : el[k] \in Seq(E)
      /\ Keys(v.heap) = {k \in DOMAIN el : el[k] # <<>>}
      /\ v.sz \in Int
  BY DEF IsQueue
<1> HIDE DEF el
<1>5. /\ DOMAIN fl = DOMAIN el \cup 0 .. key
      /\ \A k \in DOMAIN el \cup 0 .. key : k # key => fl[k] = IF k \in DOMAIN el THEN el[k] ELSE <<>>
      /\ fl[key] = Append(IF key \in DOMAIN el THEN el[key] ELSE <<>>, x)
  OBVIOUS
<1> HIDE DEF fl, w
<1>6. Append(IF key \in DOMAIN el THEN el[key] ELSE <<>>, x) \in Seq(E)
  <2>1. (IF key \in DOMAIN el THEN el[key] ELSE <<>>) \in Seq(E)
    <3>1. <<>> \in Seq(E)
      OBVIOUS
    <3> QED BY <1>4, <3>1
  <2> QED BY <2>1
<1>7. Append(IF key \in DOMAIN el THEN el[key] ELSE <<>>, x) # <<>>
  <2>1. PICK q : q = IF key \in DOMAIN el THEN el[key] ELSE <<>>
    OBVIOUS
  <2>2. q \in Seq(E)
    <3>1. <<>> \in Seq(E)
      OBVIOUS
    <3> QED BY <1>4, <2>1, <3>1
  <2>3. q \in Seq(E) /\ x \in E => Len(Append(q, x)) = Len(q) + 1 /\ Len(q) \in Nat
    OBVIOUS
  <2>4. Append(q, x) # <<>>
    BY <2>2, <2>3
  <2> QED BY <2>1, <2>4
<1>8. \A k \in DOMAIN fl : fl[k] \in Seq(E)
  <2>1. <<>> \in Seq(E)
    OBVIOUS
  <2> QED BY <1>4, <1>5, <1>6, <2>1
<1>9. {k \in DOMAIN fl : fl[k] # <<>>} = Keys(v.heap) \cup {key}
  <2>1. key \in DOMAIN fl
    BY <1>5
  <2> QED BY <1>4, <1>5, <1>7, <2>1
<1>10. DOMAIN fl \subseteq Nat
  BY <1>4, <1>5
<1>11. IsQueue(w, E)
  BY <1>1, <1>2, <1>3, <1>4, <1>8, <1>9, <1>10 DEF IsQueue
<1>12. \A k : Stack(w, k) = IF k = key THEN Append(Stack(v, k), x) ELSE Stack(v, k)
  <2> SUFFICES ASSUME NEW k PROVE Stack(w, k) = IF k = key THEN Append(Stack(v, k), x) ELSE Stack(v, k)
    OBVIOUS
  <2>1. Stack(w, k) = IF k \in DOMAIN fl THEN fl[k] ELSE <<>>
    BY <1>3 DEF Stack
  <2>2. Stack(v, k) = IF k \in DOMAIN el THEN el[k] ELSE <<>>
    BY DEF Stack, el
  <2>3. key \in DOMAIN fl
    BY <1>5
  <2>4. CASE k = key
    BY <1>5, <2>1, <2>2, <2>3, <2>4
  <2>5. CASE k # key
    BY <1>5, <2>1, <2>2, <2>5
  <2> QED BY <2>4, <2>5
<1>13. IsQueue(w, E) /\ w.sz = v.sz + 1 /\ Keys(w.heap) = Keys(v.heap) \cup {key}
  BY <1>1, <1>3, <1>11
<1> QED BY <1>12, <1>13 DEF w

(* The level of a queue that is not empty is its least key, peekMin the    *)
(* last element there, and removeMin takes it away.                        *)
LEMMA removeMinIs ==
    ASSUME NEW E, NEW v, IsQueue(v, E), Keys(v.heap) # {}
    PROVE  /\ level(v) \in Keys(v.heap) /\ \A k \in Keys(v.heap) : level(v) <= k
           /\ Stack(v, level(v)) # <<>>
           /\ peekMin(v) = Stack(v, level(v))[Len(Stack(v, level(v)))]
           /\ IsQueue(removeMin(v), E)
           /\ removeMin(v).sz = v.sz - 1
           /\ \A k : Stack(removeMin(v), k) = IF k = level(v) THEN Pop(Stack(v, k)) ELSE Stack(v, k)
<1> DEFINE h == v.heap
           el == v.elements
           fl == [el EXCEPT ![level(v)] = Pop(@)]
           w == [v EXCEPT !.elements[level(v)] = Pop(@), !.sz = @ - 1]
           u == removeMin(v)
<1>1. /\ h \in Seq(Nat) /\ h \in Arrays(Len(h)) /\ Len(h) \in Nat
      /\ Ordered(h, Len(h)) /\ Keys(h) \subseteq Nat /\ IsHeap(h, v.indices)
  BY ArraySeq DEF IsQueue, IsHeap
<1>2. Len(h) > 0 /\ h # <<>> /\ 1 \in 1 .. Len(h)
  <2>1. \E p \in 1 .. Len(h) : TRUE
    BY DEF Keys, Entries
  <2> QED BY <1>1, <2>1
<1>3. level(v) = h[1] /\ h[1] \in Keys(h)
  BY <1>2 DEF level, Keys, Entries
<1>4. \A k \in Keys(h) : h[1] <= k
  <2> SUFFICES ASSUME NEW k \in Keys(h) PROVE h[1] <= k
    OBVIOUS
  <2>1. PICK p \in 1 .. Len(h) : k = h[p]
    BY DEF Keys, Entries
  <2> HIDE DEF h
  <2> QED BY <1>1, <2>1, LeastFirst
<1>5. /\ DOMAIN el \subseteq Nat /\ \A k \in DOMAIN el : el[k] \in Seq(E)
      /\ Keys(h) = {k \in DOMAIN el : el[k] # <<>>}
      /\ v.sz \in Int
  BY DEF IsQueue
<1>6. level(v) \in DOMAIN el /\ el[level(v)] # <<>> /\ Stack(v, level(v)) = el[level(v)]
  BY <1>3, <1>5 DEF Stack
<1>7. peekMin(v) = Stack(v, level(v))[Len(Stack(v, level(v)))]
  BY <1>6 DEF peekMin
<1>8. w = QueueOf(fl, v.sz - 1, h, v.indices)
  <2>1. v = QueueOf(el, v.sz, h, v.indices)
    BY DEF IsQueue
  <2>2. w = [v EXCEPT !.elements = fl, !.sz = v.sz - 1]
    <3>1. "elements" \in DOMAIN v /\ "sz" \in DOMAIN v
      <4> HIDE DEF el, h
      <4> QED BY <2>1 DEF QueueOf
    <3> QED BY <3>1
  <2> HIDE DEF w, fl, el, h
  <2>3. [v EXCEPT !.elements = fl, !.sz = v.sz - 1] = QueueOf(fl, v.sz - 1, h, v.indices)
    <3>1. PICK y, z, e, i : y = [v EXCEPT !.elements = fl] /\ z = v.sz - 1 /\ e = fl /\ i = v.indices
      OBVIOUS
    <3>2. y = QueueOf(e, v.sz, h, i)
      BY <2>1, <3>1 DEF QueueOf
    <3>3. [y EXCEPT !.sz = z] = QueueOf(e, z, h, i)
      BY <3>2 DEF QueueOf
    <3> QED BY <3>1, <3>3
  <2> QED BY <2>2, <2>3
<1>9. w.elements = fl
  <2> HIDE DEF w, fl
  <2> QED BY <1>8 DEF QueueOf
<1> DEFINE l == level(v)
<1>10. /\ DOMAIN fl = DOMAIN el /\ fl[l] = Pop(el[l])
       /\ \A k \in DOMAIN el : k # l => fl[k] = el[k]
  BY <1>6
<1>11. u = IF w.elements[l] = <<>> THEN removeKey(w) ELSE w
  <2>1. level(w) = l /\ TRUE
    <3>1. w.heap = h
      <4> HIDE DEF w, fl, h
      <4> QED BY <1>8 DEF QueueOf
    <3> HIDE DEF w
    <3> QED BY <3>1 DEF level
  <2>2. u = IF w.elements[level(w)] = <<>> THEN removeKey(w) ELSE w
    <3>1. u = IF w.elements[level(v)] = <<>> THEN removeKey(w) ELSE w
      BY DEF removeMin
    <3> HIDE DEF w, u
    <3> QED BY <2>1, <3>1
  <2> HIDE DEF w, u
  <2> QED BY <2>1, <2>2
<1>12. Pop(el[l]) \in Seq(E)
  <2>1. el[l] \in Seq(E) /\ el[l] # <<>>
    BY <1>5, <1>6
  <2> HIDE DEF el, l
  <2> QED BY <2>1 DEF Pop
<1> HIDE DEF w, u, fl, el, h
<1>13. \A k \in DOMAIN fl : fl[k] \in Seq(E)
  BY <1>5, <1>10, <1>12
<1>14. \E g, jnd : /\ u = QueueOf(fl, v.sz - 1, g, jnd)
                   /\ IsHeap(g, jnd)
                   /\ Keys(g) = {k \in DOMAIN fl : fl[k] # <<>>}
  <2>1. CASE fl[l] = <<>>
    <3>1. u = removeKey(QueueOf(fl, v.sz - 1, h, v.indices))
      BY <1>8, <1>9, <1>11, <2>1
    <3>2. PICK g, jnd : u = QueueOf(fl, v.sz - 1, g, jnd) /\ IsHeap(g, jnd) /\ Keys(g) = Keys(h) \ {h[1]}
      BY <1>1, <1>2, <3>1, removeKeyIs
    <3>3. Keys(g) = {k \in DOMAIN fl : fl[k] # <<>>}
      BY <1>3, <1>5, <1>10, <2>1, <3>2
    <3> QED BY <3>2, <3>3
  <2>2. CASE fl[l] # <<>>
    <3>1. u = QueueOf(fl, v.sz - 1, h, v.indices)
      BY <1>8, <1>9, <1>11, <2>2
    <3>2. Keys(h) = {k \in DOMAIN fl : fl[k] # <<>>}
      BY <1>5, <1>6, <1>10, <2>2
    <3> QED BY <1>1, <3>1, <3>2
  <2> QED BY <2>1, <2>2
<1>15. PICK g, jnd : /\ u = QueueOf(fl, v.sz - 1, g, jnd)
                     /\ IsHeap(g, jnd)
                     /\ Keys(g) = {k \in DOMAIN fl : fl[k] # <<>>}
  BY <1>14
<1>16. u.elements = fl /\ u.sz = v.sz - 1 /\ u.heap = g /\ u.indices = jnd
  BY <1>15 DEF QueueOf
<1>17. IsQueue(u, E)
  BY <1>5, <1>10, <1>13, <1>15, <1>16 DEF IsQueue
<1>18. \A k : Stack(u, k) = IF k = l THEN Pop(Stack(v, k)) ELSE Stack(v, k)
  <2> SUFFICES ASSUME NEW k PROVE Stack(u, k) = IF k = l THEN Pop(Stack(v, k)) ELSE Stack(v, k)
    OBVIOUS
  <2>1. Stack(u, k) = IF k \in DOMAIN fl THEN fl[k] ELSE <<>>
    BY <1>16 DEF Stack
  <2>2. Stack(v, k) = IF k \in DOMAIN el THEN el[k] ELSE <<>>
    BY DEF Stack, el
  <2> QED BY <1>6, <1>10, <2>1, <2>2
<1>19. level(v) \in Keys(v.heap) /\ (\A k \in Keys(v.heap) : level(v) <= k) /\ Stack(v, level(v)) # <<>>
  BY <1>3, <1>4, <1>6 DEF h
<1> QED BY <1>7, <1>16, <1>17, <1>18, <1>19 DEF u

-----------------------------------------------------------------------------
(* The TCubes on the queue.                                                *)

Waiting(v) == {a \in Addresses : \E k \in Keys(v.heap) : \E j \in 1 .. Len(Stack(v, k)) : Stack(v, k)[j] = a}

\* v is a queue of TCubes of the store, each on the stack of its frame, and there once.
Filed(v, store) ==
    /\ IsQueue(v, Addresses)
    /\ \A k \in Keys(v.heap) : \A j \in 1 .. Len(Stack(v, k)) :
          Stack(v, k)[j] \in DOMAIN store /\ store[Stack(v, k)[j]].frame = k
    /\ \A k \in Keys(v.heap) : Distinct(Stack(v, k), 1 .. Len(Stack(v, k)))
    /\ v.sz = Cardinality(Waiting(v))

(* One element fewer.                                                      *)
LEMMA OneOut ==
    ASSUME NEW D, IsFiniteSet(D), NEW y \in D
    PROVE  Cardinality(D \ {y}) = Cardinality(D) - 1
BY FS_RemoveElement

(* There are finitely many TCubes.                                         *)
LEMMA AddressesFinite ==
    /\ IsFiniteSet(Addresses) /\ Cardinality(Addresses) = MaxTCubes
    /\ \A S \in SUBSET Addresses : IsFiniteSet(S) /\ Cardinality(S) \in Nat /\ Cardinality(S) <= MaxTCubes
<1>1. IsFiniteSet(Addresses) /\ Cardinality(Addresses) = MaxTCubes
  BY TCubesAssumption, FS_Interval DEF Addresses
<1>2. ASSUME NEW S \in SUBSET Addresses
      PROVE  IsFiniteSet(S) /\ Cardinality(S) \in Nat /\ Cardinality(S) <= MaxTCubes
  BY <1>1, FS_Subset, FS_CardinalityType
<1> QED BY <1>1, <1>2

(* The queue is empty at first.                                            *)
LEMMA EmptyFiled ==
    ASSUME NEW store
    PROVE  Filed(EmptyVHeap, store) /\ Waiting(EmptyVHeap) = {} /\ Keys(EmptyVHeap.heap) = {}
<1> DEFINE v == EmptyVHeap
<1>1. v.heap = <<>> /\ v.sz = 0 /\ DOMAIN v.elements = {} /\ DOMAIN v.indices = {}
  BY DEF EmptyVHeap
<1>2. v = QueueOf(v.elements, v.sz, v.heap, v.indices)
  BY DEF EmptyVHeap, QueueOf
<1> HIDE DEF v
<1>3. Keys(v.heap) = {}
  BY <1>1 DEF Keys, Entries
<1>4. IsHeap(v.heap, v.indices)
  BY <1>1, <1>3 DEF IsHeap, Distinct, Ordered, Located
<1>5. Waiting(v) = {}
  BY <1>3 DEF Waiting
<1>6. v.sz = Cardinality(Waiting(v))
  BY <1>1, <1>5, FS_EmptySet
<1>7. IsQueue(v, Addresses)
  BY <1>1, <1>2, <1>3, <1>4 DEF IsQueue
<1> QED BY <1>3, <1>5, <1>6, <1>7 DEF Filed, v

(* A TCube that waits does so on the stack of its frame.                   *)
LEMMA WaitingIs ==
    ASSUME NEW v, NEW store, Filed(v, store)
    PROVE  /\ Waiting(v) \subseteq DOMAIN store /\ Waiting(v) \subseteq Addresses
           /\ \A k : \A j \in 1 .. Len(Stack(v, k)) :
                 Stack(v, k)[j] \in Waiting(v) /\ k \in Keys(v.heap) /\ store[Stack(v, k)[j]].frame = k
           /\ \A a \in Waiting(v) : \E k \in Keys(v.heap) : \E j \in 1 .. Len(Stack(v, k)) : Stack(v, k)[j] = a
           /\ (Waiting(v) = {} <=> Keys(v.heap) = {})
           /\ (v.sz = 0 <=> Waiting(v) = {}) /\ v.sz \in Nat
<1>0. \A k : Stack(v, k) \in Seq(Addresses) /\ (Stack(v, k) # <<>> <=> k \in Keys(v.heap))
  BY StackIs DEF Filed
<1>1. \A a \in Waiting(v) : \E k \in Keys(v.heap) : \E j \in 1 .. Len(Stack(v, k)) : Stack(v, k)[j] = a
  BY DEF Waiting
<1>2. Waiting(v) \subseteq Addresses
  BY DEF Waiting
<1>3. Waiting(v) \subseteq DOMAIN store
  BY <1>1 DEF Filed
<1>4. ASSUME NEW k, NEW j \in 1 .. Len(Stack(v, k))
      PROVE  Stack(v, k)[j] \in Waiting(v) /\ k \in Keys(v.heap) /\ store[Stack(v, k)[j]].frame = k
  <2>1. PICK q : q = Stack(v, k)
    OBVIOUS
  <2>2. q \in Seq(Addresses) /\ q # <<>> /\ q[j] \in Addresses
    BY <1>0, <2>1
  <2>3. k \in Keys(v.heap)
    BY <1>0, <2>1, <2>2
  <2> QED BY <2>1, <2>2, <2>3 DEF Filed, Waiting
<1>5. ASSUME NEW k \in Keys(v.heap) PROVE Waiting(v) # {}
  <2>1. PICK q : q = Stack(v, k)
    OBVIOUS
  <2>2. q \in Seq(Addresses) /\ q # <<>>
    BY <1>0, <2>1
  <2>3. 1 \in 1 .. Len(q)
    BY <2>2
  <2> QED BY <1>4, <2>1, <2>3
<1>6. Waiting(v) = {} <=> Keys(v.heap) = {}
  BY <1>1, <1>5
<1>7. (v.sz = 0 <=> Waiting(v) = {}) /\ v.sz \in Nat
  BY <1>2, AddressesFinite, FS_EmptySet DEF Filed
<1> QED BY <1>1, <1>2, <1>3, <1>4, <1>6, <1>7

\* w has a on the stack of f, and is v otherwise.
StackedOn(w, v, f, a) == \A k : Stack(w, k) = IF k = f THEN Append(Stack(v, k), a) ELSE Stack(v, k)

(* insert adds a TCube that does not wait.                                 *)
LEMMA FileInserted ==
    ASSUME NEW v, NEW old, Filed(v, old),
           NEW store, Waiting(v) \subseteq DOMAIN store, \A b \in Waiting(v) : store[b].frame = old[b].frame,
           NEW a \in DOMAIN store, a \in Addresses, a \notin Waiting(v),
           NEW f \in Nat, f = store[a].frame,
           NEW w, w = insert(v, f, a)
    PROVE  Filed(w, store) /\ Waiting(w) = Waiting(v) \cup {a} /\ StackedOn(w, v, f, a)
<1>2. /\ IsQueue(w, Addresses) /\ w.sz = v.sz + 1 /\ Keys(w.heap) = Keys(v.heap) \cup {f}
      /\ \A k : Stack(w, k) = IF k = f THEN Append(Stack(v, k), a) ELSE Stack(v, k)
  <2>1. IsQueue(v, Addresses)
    BY DEF Filed
  <2>2. PICK E : E = Addresses
    OBVIOUS
  <2>3. IsQueue(v, E) /\ a \in E /\ f \in Nat
    BY <2>1, <2>2
  <2>4. /\ IsQueue(insert(v, f, a), E)
        /\ insert(v, f, a).sz = v.sz + 1
        /\ \A k : Stack(insert(v, f, a), k) = IF k = f THEN Append(Stack(v, k), a) ELSE Stack(v, k)
        /\ Keys(insert(v, f, a).heap) = Keys(v.heap) \cup {f}
    <3>1. \A key \in Nat : \A x \in E :
             /\ IsQueue(insert(v, key, x), E)
             /\ insert(v, key, x).sz = v.sz + 1
             /\ \A k : Stack(insert(v, key, x), k) = IF k = key THEN Append(Stack(v, k), x) ELSE Stack(v, k)
             /\ Keys(insert(v, key, x).heap) = Keys(v.heap) \cup {key}
      BY <2>3, insertIs
    <3> QED BY <2>3, <3>1
  <2> QED BY <2>2, <2>4
<1>3. \A k : Stack(v, k) \in Seq(Addresses) /\ (Stack(v, k) # <<>> <=> k \in Keys(v.heap))
  BY StackIs DEF Filed
<1>4. /\ \A k : \A j \in 1 .. Len(Stack(v, k)) :
            Stack(v, k)[j] \in Waiting(v) /\ k \in Keys(v.heap) /\ old[Stack(v, k)[j]].frame = k
      /\ \A b \in Waiting(v) : \E k \in Keys(v.heap) : \E j \in 1 .. Len(Stack(v, k)) : Stack(v, k)[j] = b
      /\ Waiting(v) \subseteq Addresses
  BY WaitingIs
<1>5. PICK q : q = Stack(v, f) /\ q \in Seq(Addresses)
  BY <1>3
<1>6. /\ Stack(w, f) = Append(q, a) /\ Len(Append(q, a)) = Len(q) + 1 /\ Len(q) \in Nat
      /\ Append(q, a)[Len(q) + 1] = a
      /\ \A j \in 1 .. Len(q) : Append(q, a)[j] = q[j]
  <2>1. Stack(w, f) = Append(q, a)
    BY <1>2, <1>5
  <2> QED BY <1>5, <2>1
<1>7. ASSUME NEW k, NEW j \in 1 .. Len(Stack(w, k))
      PROVE  \/ k = f /\ j = Len(q) + 1 /\ Stack(w, k)[j] = a
             \/ j \in 1 .. Len(Stack(v, k)) /\ Stack(w, k)[j] = Stack(v, k)[j]
  <2>1. CASE k = f
    BY <1>5, <1>6, <2>1
  <2>2. CASE k # f
    BY <1>2, <2>2
  <2> QED BY <2>1, <2>2
<1>8. ASSUME NEW k, NEW j \in 1 .. Len(Stack(v, k))
      PROVE  j \in 1 .. Len(Stack(w, k)) /\ Stack(w, k)[j] = Stack(v, k)[j]
  <2>1. CASE k = f
    BY <1>5, <1>6, <2>1
  <2>2. CASE k # f
    BY <1>2, <2>2
  <2> QED BY <2>1, <2>2
<1>9. Waiting(w) = Waiting(v) \cup {a}
  <2>1. ASSUME NEW b \in Waiting(w) PROVE b \in Waiting(v) \cup {a}
    <3>1. PICK k \in Keys(w.heap) : \E j \in 1 .. Len(Stack(w, k)) : Stack(w, k)[j] = b
      BY DEF Waiting
    <3> QED BY <1>4, <1>7, <3>1
  <2>2. ASSUME NEW b \in Waiting(v) PROVE b \in Waiting(w)
    <3>1. PICK k \in Keys(v.heap) : \E j \in 1 .. Len(Stack(v, k)) : Stack(v, k)[j] = b
      BY <1>4
    <3>2. PICK j \in 1 .. Len(Stack(v, k)) : Stack(v, k)[j] = b
      BY <3>1
    <3>3. j \in 1 .. Len(Stack(w, k)) /\ Stack(w, k)[j] = b
      BY <1>8, <3>2
    <3>4. k \in Keys(w.heap) /\ b \in Addresses
      BY <1>2, <1>4
    <3> QED BY <3>3, <3>4 DEF Waiting
  <2>3. a \in Waiting(w)
    <3>1. f \in Keys(w.heap) /\ Len(q) + 1 \in 1 .. Len(Stack(w, f)) /\ Stack(w, f)[Len(q) + 1] = a
      BY <1>2, <1>6
    <3> QED BY <3>1 DEF Waiting
  <2> QED BY <2>1, <2>2, <2>3
<1>10. w.sz = Cardinality(Waiting(w))
  BY <1>2, <1>4, <1>9, AddressesFinite, FS_AddElement DEF Filed
<1>11. \A k \in Keys(w.heap) : \A j \in 1 .. Len(Stack(w, k)) :
          Stack(w, k)[j] \in DOMAIN store /\ store[Stack(w, k)[j]].frame = k
  BY <1>4, <1>7
<1>12. \A k \in Keys(w.heap) : Distinct(Stack(w, k), 1 .. Len(Stack(w, k)))
  <2> SUFFICES ASSUME NEW k \in Keys(w.heap),
                      NEW i \in 1 .. Len(Stack(w, k)), NEW j \in 1 .. Len(Stack(w, k)),
                      Stack(w, k)[i] = Stack(w, k)[j]
               PROVE  i = j
    BY DEF Distinct
  <2>1. CASE i \in 1 .. Len(Stack(v, k)) /\ j \in 1 .. Len(Stack(v, k))
    <3>1. Stack(v, k)[i] = Stack(v, k)[j]
      BY <1>8, <2>1
    <3>2. k \in Keys(v.heap)
      BY <1>4, <2>1
    <3> QED BY <2>1, <3>1, <3>2 DEF Filed, Distinct
  <2>2. CASE i \notin 1 .. Len(Stack(v, k)) \/ j \notin 1 .. Len(Stack(v, k))
    BY <1>4, <1>7, <2>2
  <2> QED BY <2>1, <2>2
<1> QED BY <1>2, <1>9, <1>10, <1>11, <1>12 DEF Filed, StackedOn

(* removeMin takes peekMin from the queue, which waits at the least frame. *)
LEMMA FileRemoved ==
    ASSUME NEW v, NEW store, Filed(v, store), Waiting(v) # {}
    PROVE  /\ level(v) \in Keys(v.heap) /\ (\A k \in Keys(v.heap) : level(v) <= k)
           /\ peekMin(v) \in Waiting(v) /\ store[peekMin(v)].frame = level(v)
           /\ Filed(removeMin(v), store)
           /\ Waiting(removeMin(v)) = Waiting(v) \ {peekMin(v)}
           /\ Stack(v, level(v)) # <<>>
           /\ peekMin(v) = Stack(v, level(v))[Len(Stack(v, level(v)))]
           /\ \A k : Stack(removeMin(v), k) = IF k = level(v) THEN Pop(Stack(v, k)) ELSE Stack(v, k)
<1>1. PICK w, f, x : w = removeMin(v) /\ f = level(v) /\ x = peekMin(v)
  OBVIOUS
<1>2. /\ f \in Keys(v.heap) /\ (\A k \in Keys(v.heap) : f <= k)
      /\ Stack(v, f) # <<>> /\ x = Stack(v, f)[Len(Stack(v, f))]
      /\ IsQueue(w, Addresses) /\ w.sz = v.sz - 1
      /\ \A k : Stack(w, k) = IF k = f THEN Pop(Stack(v, k)) ELSE Stack(v, k)
  <2>1. IsQueue(v, Addresses) /\ Keys(v.heap) # {}
    BY WaitingIs DEF Filed
  <2> QED BY <1>1, <2>1, removeMinIs
<1>3. \A k : Stack(v, k) \in Seq(Addresses) /\ (Stack(v, k) # <<>> <=> k \in Keys(v.heap))
  BY StackIs DEF Filed
<1>4. /\ \A k : \A j \in 1 .. Len(Stack(v, k)) :
            Stack(v, k)[j] \in Waiting(v) /\ k \in Keys(v.heap) /\ store[Stack(v, k)[j]].frame = k
      /\ \A b \in Waiting(v) : \E k \in Keys(v.heap) : \E j \in 1 .. Len(Stack(v, k)) : Stack(v, k)[j] = b
      /\ Waiting(v) \subseteq Addresses
  BY WaitingIs
<1>5. PICK q : q = Stack(v, f) /\ q \in Seq(Addresses) /\ q # <<>>
  BY <1>2, <1>3
<1>6. /\ Stack(w, f) = Pop(q) /\ Len(Pop(q)) = Len(q) - 1 /\ Len(q) \in Nat /\ Len(q) > 0
      /\ q[Len(q)] = x
      /\ \A j \in 1 .. Len(q) - 1 : Pop(q)[j] = q[j]
  <2>1. /\ Len(Pop(q)) = Len(q) - 1 /\ Len(q) \in Nat /\ Len(q) > 0
        /\ \A j \in 1 .. Len(q) - 1 : Pop(q)[j] = q[j]
    <3>1. PICK n : n = Len(q) /\ n \in Nat /\ n > 0
      BY <1>5
    <3>2. PICK r : r = Pop(q) /\ r = SubSeq(q, 1, n - 1)
      BY <3>1 DEF Pop
    <3>3. Len(r) = n - 1 /\ \A j \in 1 .. n - 1 : r[j] = q[j]
      BY <1>5, <3>1, <3>2
    <3> QED BY <3>1, <3>2, <3>3
  <2> QED BY <1>2, <1>5, <2>1
<1>7. Len(q) \in 1 .. Len(Stack(v, f)) /\ x \in Waiting(v) /\ store[x].frame = f
  BY <1>4, <1>5, <1>6
<1>8. ASSUME NEW k, NEW j \in 1 .. Len(Stack(w, k))
      PROVE  j \in 1 .. Len(Stack(v, k)) /\ Stack(w, k)[j] = Stack(v, k)[j] /\ (k = f => j # Len(q))
  <2>1. CASE k = f
    BY <1>5, <1>6, <2>1
  <2>2. CASE k # f
    BY <1>2, <2>2
  <2> QED BY <2>1, <2>2
<1>9. ASSUME NEW k, NEW j \in 1 .. Len(Stack(v, k)), ~ (k = f /\ j = Len(q))
      PROVE  j \in 1 .. Len(Stack(w, k)) /\ Stack(w, k)[j] = Stack(v, k)[j]
  <2>1. CASE k = f
    BY <1>5, <1>6, <1>9, <2>1
  <2>2. CASE k # f
    BY <1>2, <2>2
  <2> QED BY <2>1, <2>2
<1>10. \A k : Stack(w, k) # <<>> => k \in Keys(w.heap)
  BY <1>2, StackIs
<1>11. \A k : \A j \in 1 .. Len(Stack(w, k)) : k \in Keys(w.heap)
  <2> SUFFICES ASSUME NEW k, NEW j \in 1 .. Len(Stack(w, k)) PROVE k \in Keys(w.heap)
    OBVIOUS
  <2>1. PICK r : r = Stack(w, k)
    OBVIOUS
  <2>2. r # <<>>
    BY <2>1
  <2> QED BY <1>10, <2>1, <2>2
<1>12. ASSUME NEW k, NEW j \in 1 .. Len(Stack(v, k)), Stack(v, k)[j] = x
       PROVE  k = f /\ j = Len(q)
  <2>1. k = f
    BY <1>4, <1>7, <1>12
  <2>2. Distinct(q, 1 .. Len(q))
    BY <1>2, <1>5 DEF Filed
  <2> QED BY <1>5, <1>6, <1>12, <2>1, <2>2 DEF Distinct
<1>13. Waiting(w) = Waiting(v) \ {x}
  <2>1. ASSUME NEW b \in Waiting(w) PROVE b \in Waiting(v) /\ b # x
    <3>1. PICK k \in Keys(w.heap) : \E j \in 1 .. Len(Stack(w, k)) : Stack(w, k)[j] = b
      BY DEF Waiting
    <3>2. PICK j \in 1 .. Len(Stack(w, k)) : Stack(w, k)[j] = b
      BY <3>1
    <3>3. j \in 1 .. Len(Stack(v, k)) /\ Stack(v, k)[j] = b /\ (k = f => j # Len(q))
      BY <1>8, <3>2
    <3> QED BY <1>4, <1>12, <3>3
  <2>2. ASSUME NEW b \in Waiting(v), b # x PROVE b \in Waiting(w)
    <3>1. PICK k \in Keys(v.heap) : \E j \in 1 .. Len(Stack(v, k)) : Stack(v, k)[j] = b
      BY <1>4
    <3>2. PICK j \in 1 .. Len(Stack(v, k)) : Stack(v, k)[j] = b
      BY <3>1
    <3>3. j \in 1 .. Len(Stack(w, k)) /\ Stack(w, k)[j] = b
      BY <1>5, <1>6, <1>9, <2>2, <3>2
    <3>4. b \in Addresses /\ k \in Keys(w.heap)
      BY <1>4, <1>11, <3>3
    <3> QED BY <3>3, <3>4 DEF Waiting
  <2> QED BY <2>1, <2>2
<1>14. w.sz = Cardinality(Waiting(w))
  <2>1. IsFiniteSet(Waiting(v)) /\ v.sz = Cardinality(Waiting(v))
    BY <1>4, AddressesFinite DEF Filed
  <2>2. Cardinality(Waiting(v) \ {x}) = Cardinality(Waiting(v)) - 1
    BY <1>7, <2>1, FS_RemoveElement
  <2> QED BY <1>2, <1>13, <2>1, <2>2
<1>15. \A k \in Keys(w.heap) : \A j \in 1 .. Len(Stack(w, k)) :
          Stack(w, k)[j] \in DOMAIN store /\ store[Stack(w, k)[j]].frame = k
  BY <1>4, <1>8, WaitingIs
<1>16. \A k \in Keys(w.heap) : Distinct(Stack(w, k), 1 .. Len(Stack(w, k)))
  <2> SUFFICES ASSUME NEW k \in Keys(w.heap),
                      NEW i \in 1 .. Len(Stack(w, k)), NEW j \in 1 .. Len(Stack(w, k)),
                      Stack(w, k)[i] = Stack(w, k)[j]
               PROVE  i = j
    BY DEF Distinct
  <2>1. i \in 1 .. Len(Stack(v, k)) /\ j \in 1 .. Len(Stack(v, k)) /\ Stack(v, k)[i] = Stack(v, k)[j]
    BY <1>8
  <2>2. k \in Keys(v.heap)
    BY <1>4, <2>1
  <2> QED BY <2>1, <2>2 DEF Filed, Distinct
<1>17. Filed(w, store)
  BY <1>2, <1>14, <1>15, <1>16 DEF Filed
<1> QED BY <1>1, <1>2, <1>7, <1>13, <1>17

-----------------------------------------------------------------------------
(* The store of TCubes and their counts.                                   *)

TCubeSet == [frame : 0 .. MaxDepth, refs : Int, parent : 0 .. MaxTCubes, cube : Cubes]
Stores   == UNION {[D -> TCubeSet] : D \in SUBSET Addresses}

\* No TCube is its own ancestor: anc has the TCubes that a chain of parents may meet.
IsAncestry(anc, store) ==
    /\ anc \in [DOMAIN store -> SUBSET DOMAIN store]
    /\ \A a \in DOMAIN store : /\ a \in anc[a]
                               /\ store[a].parent # 0 => anc[store[a].parent] \subseteq anc[a] \ {a}

IsStore(store) ==
    /\ store \in Stores
    /\ \A a \in DOMAIN store : store[a].parent \in DOMAIN store \cup {0}
    /\ \E anc : IsAncestry(anc, store)

One(p) == IF p THEN 1 ELSE 0
Children(store, a) == {b \in DOMAIN store : store[b].parent = a}

\* The counts are those of the references: from the queue, which holds W, from the
\* parents, from b, c and x.
CountOK(store, W, b, c, x) ==
    \A a \in DOMAIN store :
       /\ store[a].refs = One(a \in W) + Cardinality(Children(store, a))
                          + One(b = a) + One(c = a) + One(x = a)
       /\ store[a].refs > 0

(* What a store is made of.                                                *)
LEMMA StoreIs ==
    ASSUME NEW store, IsStore(store)
    PROVE  /\ DOMAIN store \subseteq Addresses /\ store \in [DOMAIN store -> TCubeSet]
           /\ \A a \in DOMAIN store : /\ store[a].refs \in Int /\ store[a].frame \in 0 .. MaxDepth
                                      /\ store[a].cube \in Cubes /\ store[a] \in TCubeSet
                                      /\ store[a].parent \in DOMAIN store \cup {0}
           /\ IsFiniteSet(DOMAIN store) /\ 0 \notin DOMAIN store
           /\ \A a : /\ IsFiniteSet(Children(store, a)) /\ Cardinality(Children(store, a)) \in Nat
                     /\ Children(store, a) \subseteq Addresses
<1>1. PICK D \in SUBSET Addresses : store \in [D -> TCubeSet]
  BY DEF IsStore, Stores
<1>2. DOMAIN store = D
  BY <1>1
<1>3. \A a : Children(store, a) \in SUBSET Addresses
  BY <1>2 DEF Children
<1>4. \A a \in DOMAIN store : /\ store[a].refs \in Int /\ store[a].frame \in 0 .. MaxDepth
                              /\ store[a].cube \in Cubes /\ store[a] \in TCubeSet
  BY <1>1 DEF TCubeSet
<1>5. 0 \notin Addresses
  BY DEF Addresses
<1> QED BY <1>1, <1>2, <1>3, <1>4, <1>5, AddressesFinite DEF IsStore

\* t is the store with y for the TCube at x.
Changed(t, store, x, y) == t = [store EXCEPT ![x] = y]

(* A TCube gets other fields, but its parent.                              *)
LEMMA OneChanged ==
    ASSUME NEW store, IsStore(store), NEW x \in DOMAIN store, NEW y \in TCubeSet, y.parent = store[x].parent,
           NEW t, Changed(t, store, x, y)
    PROVE  /\ IsStore(t) /\ DOMAIN t = DOMAIN store
           /\ t[x] = y /\ (\A a \in DOMAIN t : a # x => t[a] = store[a])
           /\ \A a : Children(t, a) = Children(store, a)
           /\ \A a \in DOMAIN t : t[a].parent = store[a].parent
<1>1. /\ DOMAIN store \in SUBSET Addresses /\ store \in [DOMAIN store -> TCubeSet]
      /\ \A a \in DOMAIN store : store[a].parent \in DOMAIN store \cup {0}
  BY StoreIs
<1>2. /\ DOMAIN t = DOMAIN store /\ t[x] = y /\ \A a \in DOMAIN store : a # x => t[a] = store[a]
      /\ t \in [DOMAIN store -> TCubeSet]
  BY <1>1 DEF Changed
<1>3. \A a \in DOMAIN t : t[a].parent = store[a].parent
  BY <1>2
<1>4. t \in Stores
  BY <1>1, <1>2 DEF Stores
<1>5. \A a : Children(t, a) = Children(store, a)
  BY <1>2, <1>3 DEF Children
<1>6. PICK anc : IsAncestry(anc, store)
  BY DEF IsStore
<1>7. IsAncestry(anc, t)
  BY <1>2, <1>3, <1>6 DEF IsAncestry
<1>8. IsStore(t)
  BY <1>1, <1>2, <1>3, <1>4, <1>7 DEF IsStore
<1> QED BY <1>2, <1>3, <1>5, <1>8

(* A count that is given up.                                               *)
LEMMA OneFewer ==
    ASSUME NEW store, IsStore(store), NEW x \in DOMAIN store, store[x].refs > 1,
           NEW W, NEW b, NEW c, CountOK(store, W, b, c, x),
           NEW y \in TCubeSet, y.refs = store[x].refs - 1,
           y.frame = store[x].frame, y.parent = store[x].parent, y.cube = store[x].cube,
           NEW t, Changed(t, store, x, y)
    PROVE  /\ IsStore(t) /\ DOMAIN t = DOMAIN store
           /\ CountOK(t, W, b, c, 0)
           /\ \A a \in DOMAIN t : /\ t[a].frame = store[a].frame /\ t[a].parent = store[a].parent
                                  /\ t[a].cube = store[a].cube
<1>1. /\ \A a \in DOMAIN store : store[a].refs \in Int /\ store[a] \in TCubeSet
      /\ \A a : Cardinality(Children(store, a)) \in Nat
      /\ 0 \notin DOMAIN store
  BY StoreIs
<1>3. /\ IsStore(t) /\ DOMAIN t = DOMAIN store
      /\ t[x] = y /\ (\A a \in DOMAIN t : a # x => t[a] = store[a])
      /\ \A a : Children(t, a) = Children(store, a)
  BY OneChanged
<1>4. \A a \in DOMAIN t : /\ t[a].frame = store[a].frame /\ t[a].parent = store[a].parent
                          /\ t[a].cube = store[a].cube
  BY <1>3
<1>5. CountOK(t, W, b, c, 0)
  <2> SUFFICES ASSUME NEW a \in DOMAIN t
               PROVE  /\ t[a].refs = One(a \in W) + Cardinality(Children(t, a)) + One(b = a) + One(c = a) + One(0 = a)
                      /\ t[a].refs > 0
    BY DEF CountOK
  <2>1. /\ store[a].refs = One(a \in W) + Cardinality(Children(store, a))
                          + One(b = a) + One(c = a) + One(x = a)
        /\ store[a].refs > 0 /\ a \in DOMAIN store
    BY <1>3 DEF CountOK
  <2>2. One(0 = a) = 0 /\ One(x = a) = IF x = a THEN 1 ELSE 0
    BY <1>1, <2>1 DEF One
  <2>3. One(a \in W) \in Int /\ One(b = a) \in Int /\ One(c = a) \in Int
    BY DEF One
  <2>4. t[a].refs = IF a = x THEN store[a].refs - 1 ELSE store[a].refs
    BY <1>3, <2>1
  <2>5. Cardinality(Children(store, a)) \in Nat /\ store[a].refs \in Int
    BY <1>1, <2>1
  <2>6. Children(t, a) = Children(store, a)
    BY <1>3
  <2>7. CASE a = x
    BY <2>1, <2>2, <2>3, <2>4, <2>5, <2>6, <2>7
  <2>8. CASE a # x
    BY <2>1, <2>2, <2>3, <2>4, <2>5, <2>6, <2>8
  <2> QED BY <2>7, <2>8
<1> QED BY <1>3, <1>4, <1>5

(* A TCube that goes: nothing refers to it, and its parent is the next to  *)
(* lose a count.                                                           *)
LEMMA OneGone ==
    ASSUME NEW store, IsStore(store), NEW x \in DOMAIN store, ~ (store[x].refs > 1),
           NEW W, NEW b, NEW c, CountOK(store, W, b, c, x),
           NEW t, t = [d \in DOMAIN store \ {x} |-> store[d]]
    PROVE  /\ IsStore(t) /\ DOMAIN t = DOMAIN store \ {x} /\ \A a \in DOMAIN t : t[a] = store[a]
           /\ store[x].parent \in DOMAIN t \cup {0}
           /\ CountOK(t, W, b, c, store[x].parent)
           /\ x \notin W /\ b # x /\ c # x
<1> DEFINE p == store[x].parent
<1>1. /\ DOMAIN store \in SUBSET Addresses /\ store \in [DOMAIN store -> TCubeSet]
      /\ \A a \in DOMAIN store : /\ store[a].refs \in Int /\ store[a] \in TCubeSet
                                 /\ store[a].parent \in DOMAIN store \cup {0}
      /\ \A a : IsFiniteSet(Children(store, a)) /\ Cardinality(Children(store, a)) \in Nat
      /\ 0 \notin DOMAIN store
  BY StoreIs
<1>2. /\ store[x].refs = One(x \in W) + Cardinality(Children(store, x)) + One(b = x) + One(c = x) + One(x = x)
      /\ store[x].refs > 0
  BY DEF CountOK
<1>3. /\ One(x \in W) = 0 /\ Cardinality(Children(store, x)) = 0 /\ One(b = x) = 0 /\ One(c = x) = 0
  <2>1. One(x = x) = 1
    BY DEF One
  <2>2. One(x \in W) \in Nat /\ One(b = x) \in Nat /\ One(c = x) \in Nat
    BY DEF One
  <2>3. Cardinality(Children(store, x)) \in Nat /\ store[x].refs \in Int
    BY <1>1
  <2> QED BY <1>2, <2>1, <2>2, <2>3
<1>4. x \notin W /\ b # x /\ c # x
  BY <1>3 DEF One
<1>5. Children(store, x) = {}
  BY <1>1, <1>3, FS_EmptySet
<1>6. \A a \in DOMAIN store : store[a].parent # x
  BY <1>5 DEF Children
<1>7. DOMAIN t = DOMAIN store \ {x} /\ \A a \in DOMAIN t : t[a] = store[a]
  OBVIOUS
<1>8. t \in Stores
  <2>1. t \in [DOMAIN t -> TCubeSet]
    BY <1>1
  <2>2. DOMAIN t \in SUBSET Addresses
    BY <1>1
  <2> QED BY <2>1, <2>2 DEF Stores
<1>9. IsStore(t)
  <2>1. PICK anc : IsAncestry(anc, store)
    BY DEF IsStore
  <2> DEFINE anc2 == [a \in DOMAIN t |-> anc[a] \ {x}]
  <2>2. /\ anc \in [DOMAIN store -> SUBSET DOMAIN store]
        /\ \A a \in DOMAIN store : /\ a \in anc[a]
                                   /\ store[a].parent # 0 => anc[store[a].parent] \subseteq anc[a] \ {a}
    BY <2>1 DEF IsAncestry
  <2>3. anc2 \in [DOMAIN t -> SUBSET DOMAIN t]
    BY <1>7, <2>2
  <2>4. ASSUME NEW a \in DOMAIN t
        PROVE  a \in anc2[a] /\ (t[a].parent # 0 => anc2[t[a].parent] \subseteq anc2[a] \ {a})
    <3>1. a \in DOMAIN store /\ a # x /\ t[a] = store[a] /\ a \in anc2[a]
      BY <1>7, <2>2
    <3>2. CASE t[a].parent # 0
      <4>1. PICK q : q = t[a].parent
        OBVIOUS
      <4>2. q \in DOMAIN store /\ q # x /\ q \in DOMAIN t /\ anc[q] \subseteq anc[a] \ {a}
        BY <1>1, <1>6, <1>7, <2>2, <3>1, <3>2, <4>1
      <4> QED BY <3>1, <4>1, <4>2
    <3> QED BY <3>1, <3>2
  <2> HIDE DEF anc2
  <2>5. IsAncestry(anc2, t)
    BY <2>3, <2>4 DEF IsAncestry
  <2> QED BY <1>1, <1>6, <1>7, <1>8, <2>5 DEF IsStore
<1>10. p \in DOMAIN t \cup {0}
  BY <1>1, <1>6, <1>7
<1>11. CountOK(t, W, b, c, p)
  <2> SUFFICES ASSUME NEW a \in DOMAIN t
               PROVE  /\ t[a].refs = One(a \in W) + Cardinality(Children(t, a)) + One(b = a) + One(c = a) + One(p = a)
                      /\ t[a].refs > 0
    BY DEF CountOK
  <2>1. /\ store[a].refs = One(a \in W) + Cardinality(Children(store, a))
                          + One(b = a) + One(c = a) + One(x = a)
        /\ store[a].refs > 0 /\ a \in DOMAIN store /\ a # x /\ t[a] = store[a]
    BY <1>7 DEF CountOK
  <2>2. One(x = a) = 0 /\ One(p = a) = IF p = a THEN 1 ELSE 0
    BY <2>1 DEF One
  <2>3. One(a \in W) \in Int /\ One(b = a) \in Int /\ One(c = a) \in Int
    BY DEF One
  <2>4. Cardinality(Children(store, a)) \in Nat /\ store[a].refs \in Int
    BY <1>1, <2>1
  <2>5. Children(t, a) = Children(store, a) \ {x}
    BY <1>7 DEF Children
  <2>6. x \in Children(store, a) <=> p = a
    BY DEF Children
  <2>7. Cardinality(Children(t, a)) = IF p = a THEN Cardinality(Children(store, a)) - 1
                                      ELSE Cardinality(Children(store, a))
    <3>1. PICK S : S = Children(store, a) /\ IsFiniteSet(S)
      BY <1>1
    <3>2. Cardinality(S \ {x}) = IF x \in S THEN Cardinality(S) - 1 ELSE Cardinality(S)
      BY <3>1, FS_RemoveElement
    <3> HIDE DEF p
    <3> QED BY <2>5, <2>6, <3>1, <3>2
  <2> HIDE DEF p
  <2> QED BY <2>1, <2>2, <2>3, <2>4, <2>7
<1> QED BY <1>4, <1>7, <1>9, <1>10, <1>11

-----------------------------------------------------------------------------
(* What deref leaves.                                                      *)

\* One round of its loop, over what is left and whose count goes down.
LeaveOne(pr) ==
    IF pr[2] = 0 THEN pr
    ELSE IF pr[1][pr[2]].refs > 1 THEN <<[pr[1] EXCEPT ![pr[2]].refs = @ - 1], 0>>
    ELSE <<[d \in DOMAIN pr[1] \ {pr[2]} |-> pr[1][d]], pr[1][pr[2]].parent>>

\* t is what is left of a store whose TCubes in W, and b and c, are still referred to.
Remains(t, store, W, b, c) ==
    /\ IsStore(t)
    /\ DOMAIN t \subseteq DOMAIN store
    /\ \A a \in DOMAIN t : /\ t[a].frame = store[a].frame /\ t[a].parent = store[a].parent
                           /\ t[a].cube = store[a].cube
    /\ W \subseteq DOMAIN t
    /\ b \in DOMAIN t \cup {0} /\ c \in DOMAIN t \cup {0}

Leaves(pr, store, W, b, c) ==
    /\ Remains(pr[1], store, W, b, c)
    /\ pr[2] \in DOMAIN pr[1] \cup {0}
    /\ CountOK(pr[1], W, b, c, pr[2])

(* A round keeps what is referred to, and ends or takes a TCube away.      *)
LEMMA LeaveOneIs ==
    ASSUME NEW store, NEW W, NEW b, NEW c, NEW pr \in Stores \X (0 .. MaxTCubes), Leaves(pr, store, W, b, c)
    PROVE  /\ LeaveOne(pr) \in Stores \X (0 .. MaxTCubes)
           /\ Leaves(LeaveOne(pr), store, W, b, c)
           /\ \/ LeaveOne(pr)[2] = 0
              \/ pr[2] # 0 /\ DOMAIN LeaveOne(pr)[1] = DOMAIN pr[1] \ {pr[2]}
<1>1. PICK st, x : pr = <<st, x>> /\ pr[1] = st /\ pr[2] = x
  OBVIOUS
<1>2. /\ Remains(st, store, W, b, c) /\ x \in DOMAIN st \cup {0} /\ CountOK(st, W, b, c, x)
      /\ IsStore(st) /\ st \in Stores
  BY <1>1 DEF Leaves, Remains, IsStore
<1>3. DOMAIN st \subseteq Addresses /\ Addresses \subseteq 0 .. MaxTCubes /\ 0 \notin DOMAIN st
  BY <1>2, StoreIs DEF Addresses
<1>4. CASE x = 0
  BY <1>1, <1>4 DEF LeaveOne
<1>5. CASE x # 0 /\ st[x].refs > 1
  <2>1. x \in DOMAIN st
    BY <1>2, <1>5
  <2>2. PICK y, t : y = [st[x] EXCEPT !.refs = @ - 1] /\ t = [st EXCEPT ![x] = y]
    OBVIOUS
  <2>3. /\ IsStore(t) /\ DOMAIN t = DOMAIN st /\ CountOK(t, W, b, c, 0)
        /\ \A a \in DOMAIN t : t[a].frame = st[a].frame /\ t[a].parent = st[a].parent /\ t[a].cube = st[a].cube
    <3>1. st[x].refs > 1 /\ IsStore(st) /\ CountOK(st, W, b, c, x)
      BY <1>2, <1>5
    <3>2. st[x] \in TCubeSet /\ st[x].refs \in Int
      BY <2>1, <3>1, StoreIs
    <3>3. /\ y \in TCubeSet /\ y.refs = st[x].refs - 1
          /\ y.frame = st[x].frame /\ y.parent = st[x].parent /\ y.cube = st[x].cube
      BY <2>2, <3>2 DEF TCubeSet
    <3>4. Changed(t, st, x, y)
      BY <2>2 DEF Changed
    <3> QED BY <3>1, <2>1, <3>3, <3>4, OneFewer
  <2>4. LeaveOne(pr) = <<t, 0>>
    BY <1>1, <1>5, <2>2 DEF LeaveOne
  <2>5. Remains(t, store, W, b, c)
    BY <1>2, <2>3 DEF Remains
  <2>6. t \in Stores
    BY <2>3 DEF IsStore
  <2>7. /\ LeaveOne(pr) \in Stores \X (0 .. MaxTCubes)
        /\ LeaveOne(pr)[1] = t /\ LeaveOne(pr)[2] = 0
    BY <2>4, <2>6, TCubesAssumption
  <2> QED BY <2>3, <2>5, <2>7 DEF Leaves
<1>6. CASE x # 0 /\ ~ (st[x].refs > 1)
  <2>1. x \in DOMAIN st
    BY <1>2, <1>6
  <2>2. PICK t, p : t = [d \in DOMAIN st \ {x} |-> st[d]] /\ p = st[x].parent
    OBVIOUS
  <2>3. /\ IsStore(t) /\ DOMAIN t = DOMAIN st \ {x} /\ \A a \in DOMAIN t : t[a] = st[a]
        /\ p \in DOMAIN t \cup {0}
        /\ CountOK(t, W, b, c, p)
        /\ x \notin W /\ b # x /\ c # x
    BY <1>2, <1>6, <2>1, <2>2, OneGone
  <2>4. LeaveOne(pr) = <<t, p>>
    BY <1>1, <1>6, <2>2 DEF LeaveOne
  <2>5. Remains(t, store, W, b, c)
    BY <1>2, <2>3 DEF Remains
  <2>6. t \in Stores /\ p \in 0 .. MaxTCubes
    <3>1. 0 \in 0 .. MaxTCubes
      BY TCubesAssumption
    <3>2. t \in Stores
      BY <2>3 DEF IsStore
    <3> QED BY <1>3, <2>3, <3>1, <3>2
  <2>7. /\ LeaveOne(pr) \in Stores \X (0 .. MaxTCubes)
        /\ LeaveOne(pr)[1] = t /\ LeaveOne(pr)[2] = p
    BY <2>4, <2>6
  <2> QED BY <1>1, <1>6, <2>3, <2>5, <2>7 DEF Leaves
<1> QED BY <1>4, <1>5, <1>6

(* The TCubes that deref leaves are those that something refers to, with   *)
(* the counts of what refers to them.                                      *)
LEMMA derefIs ==
    ASSUME NEW store, IsStore(store), NEW x \in DOMAIN store,
           NEW W, W \subseteq DOMAIN store,
           NEW b \in DOMAIN store \cup {0}, NEW c \in DOMAIN store \cup {0},
           CountOK(store, W, b, c, x)
    PROVE  /\ Remains(deref(store, x), store, W, b, c)
           /\ CountOK(deref(store, x), W, b, c, 0)
<1> DEFINE n == Cardinality(DOMAIN store)
           Eq(r) == [k \in 0 .. n |->
                       IF k = 0 THEN <<store, x>>
                       ELSE LET st == r[k-1][1]
                                y  == r[k-1][2]
                            IN  IF y = 0 THEN r[k-1]
                                ELSE IF st[y].refs > 1 THEN <<[st EXCEPT ![y].refs = @ - 1], 0>>
                                ELSE <<[d \in DOMAIN st \ {y} |-> st[d]], st[y].parent>>]
           r == CHOOSE f : f = Eq(f)
           Pairs == Stores \X (0 .. MaxTCubes)
           S == {pr \in Pairs : Leaves(pr, store, W, b, c)}
           step == [p \in S \X (1 .. n) |-> LeaveOne(p[1])]
<1>1. deref(store, x) = r[n][1]
  BY DEF deref
<1>2. /\ DOMAIN store \subseteq Addresses /\ IsFiniteSet(DOMAIN store) /\ 0 \notin DOMAIN store
      /\ Addresses \subseteq 0 .. MaxTCubes
  BY StoreIs DEF Addresses
<1>3. n \in Nat
  BY <1>2, FS_CardinalityType
<1> HIDE DEF n
<1>4. <<store, x>> \in S
  <2>1. Remains(store, store, W, b, c)
    BY DEF Remains
  <2>2. <<store, x>> \in Pairs
    BY <1>2 DEF IsStore
  <2>3. Leaves(<<store, x>>, store, W, b, c)
    BY <2>1 DEF Leaves
  <2> QED BY <2>2, <2>3
<1>5. \A pr \in S : /\ LeaveOne(pr) \in S
                    /\ \/ LeaveOne(pr)[2] = 0
                       \/ pr[2] # 0 /\ DOMAIN LeaveOne(pr)[1] = DOMAIN pr[1] \ {pr[2]}
  BY LeaveOneIs
<1>6. step \in [S \X (1 .. n) -> S]
  BY <1>5
<1>7. ASSUME NEW f PROVE Eq(f) = [k \in 0 .. n |-> IF k = 0 THEN <<store, x>> ELSE LeaveOne(f[k-1])]
  BY DEF LeaveOne
<1>8. PICK g : IsRecursive(g, S, <<store, x>>, n, step)
  <2> HIDE DEF S, step
  <2> QED BY <1>3, <1>4, <1>6, Recursion
<1>9. /\ g \in [0 .. n -> S] /\ g[0] = <<store, x>>
      /\ \A k \in 1 .. n : g[k] = step[<<g[k-1], k>>]
  <2> HIDE DEF S, step
  <2> QED BY <1>8 DEF IsRecursive
<1>10. \A k \in 1 .. n : g[k] = LeaveOne(g[k-1])
  <2> SUFFICES ASSUME NEW k \in 1 .. n PROVE g[k] = LeaveOne(g[k-1])
    OBVIOUS
  <2>1. k - 1 \in 0 .. n
    BY <1>3
  <2>2. g[k-1] \in S
    <3> HIDE DEF S, step
    <3> QED BY <1>9, <2>1
  <2>3. step[<<g[k-1], k>>] = LeaveOne(g[k-1])
    <3> HIDE DEF S
    <3> QED BY <2>2
  <2> HIDE DEF S, step
  <2> QED BY <1>9, <2>3
<1>11. g = Eq(g)
  <2>1. g = [k \in 0 .. n |-> g[k]]
    <3> HIDE DEF S
    <3> QED BY <1>9
  <2>2. \A k \in 0 .. n : g[k] = IF k = 0 THEN <<store, x>> ELSE LeaveOne(g[k-1])
    <3>1. \A k \in 0 .. n : k = 0 \/ k \in 1 .. n
      OBVIOUS
    <3> QED BY <1>9, <1>10, <3>1
  <2>3. g = [k \in 0 .. n |-> IF k = 0 THEN <<store, x>> ELSE LeaveOne(g[k-1])]
    BY <2>1, <2>2
  <2> HIDE DEF Eq
  <2> QED BY <1>7, <2>3
<1>12. r = Eq(r)
  <2> HIDE DEF Eq
  <2> QED BY <1>11
<1> HIDE DEF r, Eq, step
<1>13. r = [k \in 0 .. n |-> IF k = 0 THEN <<store, x>> ELSE LeaveOne(r[k-1])]
  BY <1>7, <1>12
<1>14. \A k \in 0 .. n : r[k] = IF k = 0 THEN <<store, x>> ELSE LeaveOne(r[k-1])
  BY <1>13
<1> DEFINE T == {k \in 0 .. n : r[k] \in S /\ (r[k][2] = 0 \/ Cardinality(DOMAIN r[k][1]) = n - k)}
<1>15. 0 \in T
  <2>1. r[0] = <<store, x>> /\ 0 \in 0 .. n
    BY <1>3, <1>14
  <2>2. Cardinality(DOMAIN store) = n - 0
    BY <1>3 DEF n
  <2> HIDE DEF S
  <2> QED BY <1>4, <2>1, <2>2
<1>16. ASSUME NEW k \in 0 .. n - 1, k \in T PROVE k + 1 \in T
  <2>1. PICK pr, m : pr = r[k] /\ m = k + 1
    OBVIOUS
  <2>2. pr \in S /\ (pr[2] = 0 \/ Cardinality(DOMAIN pr[1]) = n - k)
    <3> HIDE DEF S
    <3> QED BY <1>16, <2>1
  <2>3. m \in 0 .. n /\ m # 0 /\ m - 1 = k
    BY <1>3, <2>1
  <2>4. r[m] = LeaveOne(pr)
    BY <1>14, <2>1, <2>3
  <2>5. /\ LeaveOne(pr) \in S
        /\ LeaveOne(pr)[2] = 0 \/ (pr[2] # 0 /\ DOMAIN LeaveOne(pr)[1] = DOMAIN pr[1] \ {pr[2]})
    <3> HIDE DEF S
    <3> QED BY <1>5, <2>2
  <2>6. CASE LeaveOne(pr)[2] = 0
    <3> HIDE DEF S
    <3> QED BY <2>1, <2>3, <2>4, <2>5, <2>6
  <2>7. CASE pr[2] # 0 /\ DOMAIN LeaveOne(pr)[1] = DOMAIN pr[1] \ {pr[2]}
    <3>1. IsStore(pr[1]) /\ pr[2] \in DOMAIN pr[1]
      BY <2>2, <2>7 DEF Leaves, Remains
    <3>2. IsFiniteSet(DOMAIN pr[1])
      BY <3>1, StoreIs
    <3>3. Cardinality(DOMAIN pr[1] \ {pr[2]}) = Cardinality(DOMAIN pr[1]) - 1
      BY <3>1, <3>2, OneOut
    <3>4. Cardinality(DOMAIN LeaveOne(pr)[1]) = n - m
      BY <1>3, <2>1, <2>2, <2>7, <3>3
    <3> HIDE DEF S
    <3> QED BY <2>1, <2>3, <2>4, <2>5, <3>4
  <2> QED BY <2>5, <2>6, <2>7
<1>17. n \in T
  <2> HIDE DEF T
  <2>1. 0 .. n \subseteq T
    BY <1>3, <1>15, <1>16, Climb
  <2> QED BY <1>3, <2>1
<1>18. PICK pr : pr = r[n] /\ pr \in S /\ (pr[2] = 0 \/ Cardinality(DOMAIN pr[1]) = n - n)
  <2> HIDE DEF S
  <2> QED BY <1>17
<1>19. /\ Remains(pr[1], store, W, b, c) /\ pr[2] \in DOMAIN pr[1] \cup {0}
       /\ CountOK(pr[1], W, b, c, pr[2])
  BY <1>18 DEF Leaves
<1>20. pr[2] = 0
  <2>1. CASE Cardinality(DOMAIN pr[1]) = n - n
    <3>1. Cardinality(DOMAIN pr[1]) = 0
      BY <1>3, <2>1
    <3>2. IsFiniteSet(DOMAIN pr[1])
      BY <1>19, StoreIs DEF Remains
    <3>3. DOMAIN pr[1] = {}
      BY <3>1, <3>2, FS_EmptySet
    <3> QED BY <1>19, <3>3
  <2> QED BY <1>18, <2>1
<1> QED BY <1>1, <1>18, <1>19, <1>20

-----------------------------------------------------------------------------
(* The invariant.                                                          *)

(* A store in which TCubes refer to each other alone is empty: a chain of  *)
(* children would have no end.                                             *)
LEMMA NoneLeft ==
    ASSUME NEW store, IsStore(store), CountOK(store, {}, 0, 0, 0)
    PROVE  DOMAIN store = {}
<1> SUFFICES ASSUME DOMAIN store # {} PROVE FALSE
  OBVIOUS
<1>1. PICK anc : IsAncestry(anc, store)
  BY DEF IsStore
<1>2. /\ anc \in [DOMAIN store -> SUBSET DOMAIN store]
      /\ \A a \in DOMAIN store : /\ a \in anc[a]
                                 /\ store[a].parent # 0 => anc[store[a].parent] \subseteq anc[a] \ {a}
  BY <1>1 DEF IsAncestry
<1>3. DOMAIN store \subseteq Addresses /\ 0 \notin DOMAIN store /\ \A a : IsFiniteSet(Children(store, a))
  BY StoreIs
<1> DEFINE F == {Addresses \ anc[a] : a \in DOMAIN store}
<1>4. F # {} /\ \A X \in F : IsFiniteSet(X)
  <2>1. \A a \in DOMAIN store : Addresses \ anc[a] \in SUBSET Addresses
    OBVIOUS
  <2> QED BY <2>1, AddressesFinite
<1>5. PICK X \in F : \A Y \in F : Y \subseteq X => Y = X
  <2> HIDE DEF F
  <2> QED BY <1>4, MinimalSet
<1>6. PICK a \in DOMAIN store : X = Addresses \ anc[a]
  OBVIOUS
<1>7. PICK d \in DOMAIN store : store[d].parent = a
  <2>1. One(a \in {}) = 0 /\ One(0 = a) = 0
    BY <1>3 DEF One
  <2>2. store[a].refs > 0 /\ store[a].refs = 0 + Cardinality(Children(store, a)) + 0 + 0 + 0
    BY <2>1 DEF CountOK
  <2>3. Cardinality(Children(store, a)) # 0
    BY <2>2
  <2>4. Children(store, a) # {}
    BY <2>3, FS_EmptySet
  <2> QED BY <2>4 DEF Children
<1>8. a # 0 /\ anc[a] \subseteq anc[d] \ {d} /\ d \in anc[d] /\ d \in Addresses
  BY <1>2, <1>3, <1>7
<1>9. Addresses \ anc[d] \in F /\ Addresses \ anc[d] \subseteq X
  BY <1>6, <1>8
<1>10. Addresses \ anc[d] = X
  <2> HIDE DEF F
  <2> QED BY <1>5, <1>9
<1> QED BY <1>6, <1>8, <1>10

Added(t, store, a, y) == t = With(store, a, y)
Grown(t, store, a, y) ==
    /\ IsStore(t) /\ DOMAIN t = DOMAIN store \cup {a}
    /\ t[a] = y /\ (\A d \in DOMAIN store : t[d] = store[d])
    /\ \A d : Children(t, d) = IF y.parent = d THEN Children(store, d) \cup {a} ELSE Children(store, d)
    /\ Children(t, a) = {}

(* A new TCube.                                                            *)
LEMMA WithIs ==
    ASSUME NEW store, IsStore(store), NEW a \in Addresses, a \notin DOMAIN store,
           NEW y \in TCubeSet, y.parent \in DOMAIN store \cup {0},
           NEW t, Added(t, store, a, y)
    PROVE  Grown(t, store, a, y)
<1>1. /\ DOMAIN store \subseteq Addresses /\ store \in [DOMAIN store -> TCubeSet]
      /\ \A d \in DOMAIN store : store[d].parent \in DOMAIN store \cup {0}
      /\ 0 \notin DOMAIN store
  BY StoreIs
<1>2. /\ DOMAIN t = DOMAIN store \cup {a} /\ t[a] = y /\ (\A d \in DOMAIN store : t[d] = store[d])
      /\ t = [d \in DOMAIN store \cup {a} |-> t[d]]
  BY DEF Added, With
<1>3. a # 0
  BY DEF Addresses
<1>4. t \in Stores
  <2>1. t \in [DOMAIN t -> TCubeSet]
    BY <1>1, <1>2
  <2>2. DOMAIN t \in SUBSET Addresses
    BY <1>1, <1>2
  <2> QED BY <2>1, <2>2 DEF Stores
<1>5. \A d \in DOMAIN t : t[d].parent \in DOMAIN store \cup {0}
  BY <1>1, <1>2
<1>6. ASSUME NEW d
      PROVE  Children(t, d) = IF y.parent = d THEN Children(store, d) \cup {a} ELSE Children(store, d)
  BY <1>2 DEF Children
<1>7. Children(t, a) = {}
  BY <1>3, <1>5 DEF Children
<1>8. IsStore(t)
  <2>1. PICK anc : IsAncestry(anc, store)
    BY DEF IsStore
  <2>2. /\ anc \in [DOMAIN store -> SUBSET DOMAIN store]
        /\ \A d \in DOMAIN store : /\ d \in anc[d]
                                   /\ store[d].parent # 0 => anc[store[d].parent] \subseteq anc[d] \ {d}
    BY <2>1 DEF IsAncestry
  <2> DEFINE mine == IF y.parent = 0 THEN {a} ELSE anc[y.parent] \cup {a}
             anc2 == [d \in DOMAIN t |-> IF d = a THEN mine ELSE anc[d]]
  <2>3. mine \subseteq DOMAIN t /\ a \in mine
    BY <1>2, <2>2
  <2>4. y.parent # 0 => anc[y.parent] \subseteq mine \ {a}
    BY <2>2
  <2> HIDE DEF mine
  <2>5. anc2 \in [DOMAIN t -> SUBSET DOMAIN t]
    BY <1>2, <2>2, <2>3
  <2>6. anc2[a] = mine /\ \A d \in DOMAIN store : anc2[d] = anc[d]
    BY <1>2
  <2> HIDE DEF anc2
  <2>7. ASSUME NEW d \in DOMAIN t
        PROVE  d \in anc2[d] /\ (t[d].parent # 0 => anc2[t[d].parent] \subseteq anc2[d] \ {d})
    <3>1. CASE d = a
      BY <1>2, <2>3, <2>4, <2>6, <3>1
    <3>2. CASE d # a
      <4>1. d \in DOMAIN store /\ t[d] = store[d] /\ anc2[d] = anc[d]
        BY <1>2, <2>6, <3>2
      <4>2. store[d].parent # 0 => anc2[store[d].parent] = anc[store[d].parent]
        BY <1>1, <2>6, <4>1
      <4> QED BY <2>2, <4>1, <4>2
    <3> QED BY <3>1, <3>2
  <2>8. IsAncestry(anc2, t)
    BY <2>5, <2>7 DEF IsAncestry
  <2>9. \A d \in DOMAIN t : t[d].parent \in DOMAIN t \cup {0}
    BY <1>2, <1>5
  <2> QED BY <1>4, <2>8, <2>9 DEF IsStore
<1> QED BY <1>2, <1>6, <1>7, <1>8 DEF Grown

\* The state between two steps of solve.
QInvOf(p, d, store, b, v, c) ==
    /\ IsStore(store)
    /\ Filed(v, store)
    /\ d \in 1 .. MaxDepth
    /\ b \in DOMAIN store \cup {0} /\ c \in DOMAIN store \cup {0}
    /\ CountOK(store, Waiting(v), b, c, 0)
    /\ p \in {"solve", "block", "cex"}
    /\ p = "solve" => DOMAIN store = {}
    /\ p # "cex" => c = 0
    /\ p = "block" => b # 0

QInv == QInvOf(pc, depth, tcubes, B, Q, cex)

(* A new TCube has an address of its own.                                  *)
LEMMA NewIs ==
    ASSUME Alive \subseteq Addresses, Addresses # Alive
    PROVE  New \in Addresses /\ New \notin Alive
<1>1. PICK T : T = Addresses \ Alive
  OBVIOUS
<1>2. T \subseteq Nat /\ T # {}
  <2>1. T \subseteq Addresses /\ T # {}
    BY <1>1
  <2> QED BY <2>1 DEF Addresses
<1>3. \E a \in T : \A b \in T : a <= b
  BY <1>2, LeastNat
<1>4. (CHOOSE a \in T : \A b \in T : a <= b) \in T
  BY <1>3
<1> QED BY <1>1, <1>4 DEF New

(* solve queues the first TCube of block_cube.                             *)
LEMMA NewBadIs ==
    ASSUME NEW d \in 1 .. MaxDepth, NEW cube \in Cubes, NEW a \in Addresses,
           NEW store, IsStore(store), DOMAIN store = {}, NEW v, Filed(v, store),
           NEW t, t = With(store, a, [frame |-> d, refs |-> 2, parent |-> 0, cube |-> cube]),
           NEW w, w = insert(v, d, a)
    PROVE  QInvOf("block", d, t, a, w, 0)
<1>1. PICK y : y = [frame |-> d, refs |-> 2, parent |-> 0, cube |-> cube]
  OBVIOUS
<1>2. y \in TCubeSet /\ y.parent = 0 /\ y.refs = 2 /\ y.frame = d
  <2>1. d \in 0 .. MaxDepth /\ 0 \in 0 .. MaxTCubes
    BY TCubesAssumption
  <2> QED BY <1>1, <2>1 DEF TCubeSet
<1>3. /\ IsStore(t) /\ DOMAIN t = {a} /\ t[a] = y /\ Children(t, a) = {}
  <2>1. Added(t, store, a, y) /\ a \notin DOMAIN store /\ y.parent \in DOMAIN store \cup {0}
    BY <1>1, <1>2 DEF Added
  <2>2. Grown(t, store, a, y)
    BY <1>2, <2>1, WithIs
  <2> QED BY <2>2 DEF Grown
<1>4. Waiting(v) = {}
  BY WaitingIs
<1>5. Filed(w, t) /\ Waiting(w) = {a}
  <2>1. d \in Nat /\ d = t[a].frame
    BY <1>2, <1>3, TCubesAssumption
  <2>2. /\ Waiting(v) \subseteq DOMAIN t /\ (\A b \in Waiting(v) : t[b].frame = store[b].frame)
        /\ a \in DOMAIN t /\ a \notin Waiting(v)
    BY <1>3, <1>4
  <2>3. Filed(w, t) /\ Waiting(w) = Waiting(v) \cup {a}
    BY <2>1, <2>2, FileInserted
  <2> QED BY <1>4, <2>3
<1>6. a # 0
  BY DEF Addresses
<1>7. CountOK(t, Waiting(w), a, 0, 0)
  <2>1. One(a \in {a}) = 1 /\ One(a = a) = 1 /\ One(0 = a) = 0
    BY <1>6 DEF One
  <2>2. Cardinality(Children(t, a)) = 0
    BY <1>3, FS_EmptySet
  <2> QED BY <1>2, <1>3, <1>5, <2>1, <2>2 DEF CountOK
<1> QED BY <1>3, <1>5, <1>7 DEF QInvOf

(* block_cube queues a predecessor of the TCube it looks at, which it puts *)
(* back.                                                                   *)
LEMMA PredecessorIs ==
    ASSUME NEW d, NEW store, NEW b, NEW v, QInvOf("block", d, store, b, v, 0), Waiting(v) # {},
           NEW x, x = peekMin(v), NEW cube \in Cubes, store[x].frame > 0,
           NEW a \in Addresses, a \notin DOMAIN store,
           NEW y \in TCubeSet, y.refs = store[x].refs + 1,
           y.frame = store[x].frame, y.parent = store[x].parent, y.cube = store[x].cube,
           NEW mid, Changed(mid, store, x, y),
           NEW z \in TCubeSet, z = [frame |-> store[x].frame - 1, refs |-> 1, parent |-> x, cube |-> cube],
           NEW t, Added(t, mid, a, z),
           NEW w, w = insert(insert(removeMin(v), store[x].frame, x), store[x].frame - 1, a)
    PROVE  QInvOf("block", d, t, b, w, 0)
<1>1. /\ IsStore(store) /\ Filed(v, store) /\ d \in 1 .. MaxDepth
      /\ b \in DOMAIN store \cup {0} /\ CountOK(store, Waiting(v), b, 0, 0) /\ b # 0
  BY DEF QInvOf
<1>2. /\ x \in Waiting(v) /\ x \in DOMAIN store /\ x \in Addresses
      /\ Filed(removeMin(v), store) /\ Waiting(removeMin(v)) = Waiting(v) \ {x}
  <2>1. x \in Waiting(v) /\ Filed(removeMin(v), store) /\ Waiting(removeMin(v)) = Waiting(v) \ {x}
    BY <1>1, FileRemoved
  <2>2. Waiting(v) \subseteq DOMAIN store /\ Waiting(v) \subseteq Addresses
    BY <1>1, WaitingIs
  <2> QED BY <2>1, <2>2
<1>3. /\ \A e \in DOMAIN store : store[e].refs \in Int /\ store[e].frame \in 0 .. MaxDepth
      /\ \A e : IsFiniteSet(Children(store, e)) /\ Cardinality(Children(store, e)) \in Nat
      /\ 0 \notin DOMAIN store /\ DOMAIN store \subseteq Addresses
      /\ \A e : Children(store, e) \subseteq DOMAIN store
  BY <1>1, StoreIs DEF Children
<1>4. /\ IsStore(mid) /\ DOMAIN mid = DOMAIN store /\ mid[x] = y
      /\ \A e \in DOMAIN mid : e # x => mid[e] = store[e]
      /\ \A e : Children(mid, e) = Children(store, e)
  BY <1>1, <1>2, OneChanged
<1>5. /\ IsStore(t) /\ DOMAIN t = DOMAIN mid \cup {a} /\ t[a] = z /\ (\A e \in DOMAIN mid : t[e] = mid[e])
      /\ \A e : Children(t, e) = IF z.parent = e THEN Children(mid, e) \cup {a} ELSE Children(mid, e)
      /\ Children(t, a) = {}
  <2>1. z.parent \in DOMAIN mid \cup {0} /\ a \notin DOMAIN mid
    BY <1>2, <1>4
  <2>2. Grown(t, mid, a, z)
    BY <1>4, <2>1, WithIs
  <2> QED BY <2>2 DEF Grown
<1>6. z.parent = x /\ z.refs = 1 /\ z.frame = store[x].frame - 1
  OBVIOUS
<1>7. /\ \A e \in DOMAIN store : t[e].frame = store[e].frame
      /\ \A e \in DOMAIN store : t[e].refs = IF e = x THEN store[x].refs + 1 ELSE store[e].refs
  BY <1>4, <1>5
<1>8. PICK u, f, g : u = insert(removeMin(v), f, x) /\ f = store[x].frame /\ g = f - 1 /\ w = insert(u, g, a)
  OBVIOUS
<1>9. f \in Nat /\ g \in Nat /\ t[x].frame = f /\ t[a].frame = g
  BY <1>2, <1>3, <1>5, <1>6, <1>7, <1>8
<1>10. Filed(u, store) /\ Waiting(u) = Waiting(v)
  <2>1. PICK r : r = removeMin(v) /\ Filed(r, store) /\ Waiting(r) = Waiting(v) \ {x} /\ u = insert(r, f, x)
    BY <1>2, <1>8
  <2>2. Waiting(r) \subseteq DOMAIN store /\ x \notin Waiting(r)
    BY <2>1, WaitingIs
  <2>3. Filed(u, store) /\ Waiting(u) = Waiting(r) \cup {x}
    BY <1>2, <1>8, <1>9, <2>1, <2>2, FileInserted
  <2> QED BY <1>2, <2>1, <2>3
<1>11. Filed(w, t) /\ Waiting(w) = Waiting(v) \cup {a}
  <2>1. Waiting(u) \subseteq DOMAIN store /\ a \notin Waiting(u)
    BY <1>10, WaitingIs
  <2>2. Waiting(u) \subseteq DOMAIN t /\ a \in DOMAIN t /\ \A e \in Waiting(u) : t[e].frame = store[e].frame
    BY <1>4, <1>5, <1>7, <2>1
  <2>3. Filed(w, t) /\ Waiting(w) = Waiting(u) \cup {a}
    BY <1>8, <1>9, <1>10, <2>1, <2>2, FileInserted
  <2> QED BY <1>10, <2>3
<1>12. CountOK(t, Waiting(w), b, 0, 0)
  <2> SUFFICES ASSUME NEW e \in DOMAIN t
               PROVE  /\ t[e].refs = One(e \in Waiting(w)) + Cardinality(Children(t, e))
                                     + One(b = e) + One(0 = e) + One(0 = e)
                      /\ t[e].refs > 0
    BY DEF CountOK
  <2>1. CASE e = a
    <3>1. a # 0 /\ a # b
      BY <1>1 DEF Addresses
    <3>2. One(a \in Waiting(w)) = 1 /\ One(b = a) = 0 /\ One(0 = a) = 0
      BY <1>11, <3>1 DEF One
    <3>3. Cardinality(Children(t, a)) = 0
      BY <1>5, FS_EmptySet
    <3>4. t[a].refs = 1
      BY <1>5, <1>6
    <3> QED BY <2>1, <3>2, <3>3, <3>4
  <2>2. CASE e # a
    <3>1. e \in DOMAIN store
      BY <1>4, <1>5, <2>2
    <3>2. /\ store[e].refs = One(e \in Waiting(v)) + Cardinality(Children(store, e))
                             + One(b = e) + One(0 = e) + One(0 = e)
          /\ store[e].refs > 0
      BY <1>1, <3>1 DEF CountOK
    <3>3. One(e \in Waiting(w)) = One(e \in Waiting(v))
      BY <1>11, <2>2 DEF One
    <3>4. One(e \in Waiting(v)) \in Int /\ One(b = e) \in Int /\ One(0 = e) \in Int
      BY DEF One
    <3>5. store[e].refs \in Int /\ Cardinality(Children(store, e)) \in Nat
      BY <1>3, <3>1
    <3>6. CASE e = x
      <4>1. Children(t, x) = Children(store, x) \cup {a}
        BY <1>4, <1>5, <1>6
      <4>2. PICK S : S = Children(store, x) /\ IsFiniteSet(S) /\ a \notin S
        BY <1>3
      <4>3. Cardinality(S \cup {a}) = Cardinality(S) + 1
        BY <4>2, FS_AddElement
      <4>4. t[e].refs = store[e].refs + 1
        BY <1>7, <3>1, <3>6
      <4> QED BY <3>2, <3>3, <3>4, <3>5, <3>6, <4>1, <4>2, <4>3, <4>4
    <3>7. CASE e # x
      <4>1. Children(t, e) = Children(store, e)
        BY <1>4, <1>5, <1>6, <3>7
      <4>2. t[e].refs = store[e].refs
        BY <1>7, <3>1, <3>7
      <4> QED BY <3>2, <3>3, <4>1, <4>2
    <3> QED BY <3>6, <3>7
  <2> QED BY <2>1, <2>2
<1>13. b \in DOMAIN t \cup {0} /\ 0 \in DOMAIN t \cup {0}
  BY <1>1, <1>4, <1>5
<1> QED BY <1>1, <1>5, <1>11, <1>12, <1>13 DEF QInvOf

(* It puts the TCube off to a later frame.                                 *)
LEMMA QueueForwardIs ==
    ASSUME NEW d, NEW store, NEW b, NEW v, QInvOf("block", d, store, b, v, 0), Waiting(v) # {},
           NEW x, x = peekMin(v), NEW f \in Nat,
           NEW y \in TCubeSet, y.refs = store[x].refs,
           y.frame = f, y.parent = store[x].parent, y.cube = store[x].cube,
           NEW t, Changed(t, store, x, y),
           NEW w, w = insert(removeMin(v), f, x)
    PROVE  QInvOf("block", d, t, b, w, 0)
<1>1. /\ IsStore(store) /\ Filed(v, store) /\ d \in 1 .. MaxDepth
      /\ b \in DOMAIN store \cup {0} /\ CountOK(store, Waiting(v), b, 0, 0) /\ b # 0
  BY DEF QInvOf
<1>2. /\ x \in Waiting(v) /\ x \in DOMAIN store /\ x \in Addresses
      /\ Filed(removeMin(v), store) /\ Waiting(removeMin(v)) = Waiting(v) \ {x}
  <2>1. x \in Waiting(v) /\ Filed(removeMin(v), store) /\ Waiting(removeMin(v)) = Waiting(v) \ {x}
    BY <1>1, FileRemoved
  <2>2. Waiting(v) \subseteq DOMAIN store /\ Waiting(v) \subseteq Addresses
    BY <1>1, WaitingIs
  <2> QED BY <2>1, <2>2
<1>3. /\ IsStore(t) /\ DOMAIN t = DOMAIN store /\ t[x] = y
      /\ \A e \in DOMAIN t : e # x => t[e] = store[e]
      /\ \A e : Children(t, e) = Children(store, e)
  BY <1>1, <1>2, OneChanged
<1>4. Filed(w, t) /\ Waiting(w) = Waiting(v)
  <2>1. PICK r : r = removeMin(v) /\ Filed(r, store) /\ Waiting(r) = Waiting(v) \ {x} /\ w = insert(r, f, x)
    BY <1>2
  <2>2. Waiting(r) \subseteq DOMAIN t /\ x \notin Waiting(r) /\ \A e \in Waiting(r) : t[e].frame = store[e].frame
    BY <1>3, <2>1, WaitingIs
  <2>3. x \in DOMAIN t /\ t[x].frame = f
    BY <1>2, <1>3
  <2>4. Filed(w, t) /\ Waiting(w) = Waiting(r) \cup {x}
    BY <1>2, <2>1, <2>2, <2>3, FileInserted
  <2> QED BY <1>2, <2>1, <2>4
<1>5. \A e \in DOMAIN t : t[e].refs = store[e].refs
  BY <1>3
<1>6. CountOK(t, Waiting(w), b, 0, 0)
  BY <1>1, <1>3, <1>4, <1>5 DEF CountOK
<1> QED BY <1>1, <1>3, <1>4, <1>6 DEF QInvOf

(* It is done with the TCube.                                              *)
LEMMA DropIs ==
    ASSUME NEW d, NEW store, NEW b, NEW v, QInvOf("block", d, store, b, v, 0), Waiting(v) # {},
           NEW x, x = peekMin(v), NEW t, t = deref(store, x), NEW w, w = removeMin(v)
    PROVE  /\ QInvOf("block", d, t, b, w, 0)
           /\ Remains(t, store, Waiting(w), b, 0)
<1>1. /\ IsStore(store) /\ Filed(v, store) /\ d \in 1 .. MaxDepth
      /\ b \in DOMAIN store \cup {0} /\ CountOK(store, Waiting(v), b, 0, 0) /\ b # 0
  BY DEF QInvOf
<1>2. /\ x \in Waiting(v) /\ x \in DOMAIN store /\ Waiting(v) \subseteq DOMAIN store
      /\ Filed(w, store) /\ Waiting(w) = Waiting(v) \ {x} /\ 0 \notin DOMAIN store
  <2>1. x \in Waiting(v) /\ Filed(w, store) /\ Waiting(w) = Waiting(v) \ {x}
    BY <1>1, FileRemoved
  <2>2. Waiting(v) \subseteq DOMAIN store
    BY <1>1, WaitingIs
  <2> QED BY <1>1, <2>1, <2>2, StoreIs
<1>3. CountOK(store, Waiting(w), b, 0, x)
  <2> SUFFICES ASSUME NEW e \in DOMAIN store
               PROVE  /\ store[e].refs = One(e \in Waiting(w)) + Cardinality(Children(store, e))
                                         + One(b = e) + One(0 = e) + One(x = e)
                      /\ store[e].refs > 0
    BY DEF CountOK
  <2>1. /\ store[e].refs = One(e \in Waiting(v)) + Cardinality(Children(store, e))
                           + One(b = e) + One(0 = e) + One(0 = e)
        /\ store[e].refs > 0
    BY <1>1 DEF CountOK
  <2>2. One(0 = e) = 0 /\ One(b = e) \in Int
    BY <1>2 DEF One
  <2>3. Cardinality(Children(store, e)) \in Nat
    BY <1>1, StoreIs
  <2>4. One(e \in Waiting(v)) \in Int /\ One(e \in Waiting(v)) = One(e \in Waiting(w)) + One(x = e)
    BY <1>2 DEF One
  <2>5. One(e \in Waiting(w)) \in Int /\ One(x = e) \in Int
    BY DEF One
  <2> QED BY <2>1, <2>2, <2>3, <2>4, <2>5
<1>4. Remains(t, store, Waiting(w), b, 0) /\ CountOK(t, Waiting(w), b, 0, 0)
  <2>1. Waiting(w) \subseteq DOMAIN store /\ 0 \in DOMAIN store \cup {0}
    BY <1>2
  <2> QED BY <1>1, <1>2, <1>3, <2>1, derefIs
<1>5. /\ IsStore(t) /\ DOMAIN t \subseteq DOMAIN store
      /\ \A e \in DOMAIN t : t[e].frame = store[e].frame
      /\ Waiting(w) \subseteq DOMAIN t /\ b \in DOMAIN t \cup {0} /\ 0 \in DOMAIN t \cup {0}
  BY <1>4 DEF Remains
<1>6. Filed(w, t)
  <2>1. \A k : \A j \in 1 .. Len(Stack(w, k)) :
           Stack(w, k)[j] \in Waiting(w) /\ k \in Keys(w.heap) /\ store[Stack(w, k)[j]].frame = k
    BY <1>2, WaitingIs
  <2> QED BY <1>2, <1>5, <2>1 DEF Filed
<1> QED BY <1>1, <1>4, <1>5, <1>6 DEF QInvOf

(* block_cube returns, and nothing is left.                                *)
LEMMA ReturnIs ==
    ASSUME NEW d, NEW store, NEW b, NEW v, QInvOf("block", d, store, b, v, 0), Waiting(v) = {},
           NEW t, t = deref(store, b)
    PROVE  QInvOf("solve", d, t, 0, v, 0)
<1>1. /\ IsStore(store) /\ Filed(v, store) /\ d \in 1 .. MaxDepth
      /\ b \in DOMAIN store \cup {0} /\ CountOK(store, Waiting(v), b, 0, 0) /\ b # 0
  BY DEF QInvOf
<1>2. b \in DOMAIN store /\ 0 \notin DOMAIN store
  BY <1>1, StoreIs
<1>3. CountOK(store, {}, 0, 0, b)
  <2> SUFFICES ASSUME NEW e \in DOMAIN store
               PROVE  /\ store[e].refs = One(e \in {}) + Cardinality(Children(store, e))
                                         + One(0 = e) + One(0 = e) + One(b = e)
                      /\ store[e].refs > 0
    BY DEF CountOK
  <2>1. /\ store[e].refs = One(e \in {}) + Cardinality(Children(store, e))
                           + One(b = e) + One(0 = e) + One(0 = e)
        /\ store[e].refs > 0
    BY <1>1 DEF CountOK
  <2>2. One(0 = e) = 0 /\ One(b = e) \in Int /\ One(e \in {}) = 0
    BY <1>2 DEF One
  <2>3. Cardinality(Children(store, e)) \in Nat
    BY <1>1, StoreIs
  <2> QED BY <2>1, <2>2, <2>3
<1>4. Remains(t, store, {}, 0, 0) /\ CountOK(t, {}, 0, 0, 0)
  BY <1>1, <1>2, <1>3, derefIs
<1>5. IsStore(t) /\ DOMAIN t = {}
  BY <1>4, NoneLeft DEF Remains
<1>6. Filed(v, t)
  <2>1. \A k : \A j \in 1 .. Len(Stack(v, k)) : FALSE
    BY <1>1, WaitingIs
  <2> QED BY <1>1, <2>1 DEF Filed
<1> QED BY <1>1, <1>4, <1>5, <1>6 DEF QInvOf

(* It returns a counterexample.                                            *)
LEMMA ReturnCexIs ==
    ASSUME NEW d, NEW store, NEW b, NEW v, QInvOf("block", d, store, b, v, 0), Waiting(v) # {},
           NEW x, x = peekMin(v), NEW w, w = removeMin(v)
    PROVE  QInvOf("cex", d, store, b, w, x)
<1>1. /\ IsStore(store) /\ Filed(v, store) /\ d \in 1 .. MaxDepth
      /\ b \in DOMAIN store \cup {0} /\ CountOK(store, Waiting(v), b, 0, 0) /\ b # 0
  BY DEF QInvOf
<1>2. /\ x \in Waiting(v) /\ x \in DOMAIN store
      /\ Filed(w, store) /\ Waiting(w) = Waiting(v) \ {x} /\ 0 \notin DOMAIN store
  <2>1. x \in Waiting(v) /\ Filed(w, store) /\ Waiting(w) = Waiting(v) \ {x}
    BY <1>1, FileRemoved
  <2>2. Waiting(v) \subseteq DOMAIN store
    BY <1>1, WaitingIs
  <2> QED BY <1>1, <2>1, <2>2, StoreIs
<1>3. CountOK(store, Waiting(w), b, x, 0)
  <2> SUFFICES ASSUME NEW e \in DOMAIN store
               PROVE  /\ store[e].refs = One(e \in Waiting(w)) + Cardinality(Children(store, e))
                                         + One(b = e) + One(x = e) + One(0 = e)
                      /\ store[e].refs > 0
    BY DEF CountOK
  <2>1. /\ store[e].refs = One(e \in Waiting(v)) + Cardinality(Children(store, e))
                           + One(b = e) + One(0 = e) + One(0 = e)
        /\ store[e].refs > 0
    BY <1>1 DEF CountOK
  <2>2. One(0 = e) = 0 /\ One(b = e) \in Int
    BY <1>2 DEF One
  <2>3. Cardinality(Children(store, e)) \in Nat
    BY <1>1, StoreIs
  <2>4. One(e \in Waiting(v)) \in Int /\ One(e \in Waiting(v)) = One(e \in Waiting(w)) + One(x = e)
    BY <1>2 DEF One
  <2>5. One(e \in Waiting(w)) \in Int /\ One(x = e) \in Int
    BY DEF One
  <2> QED BY <2>1, <2>2, <2>3, <2>4, <2>5
<1> QED BY <1>1, <1>2, <1>3 DEF QInvOf

(* It holds at first.                                                      *)
LEMMA QInvInit == Init => QInv
<1> SUFFICES ASSUME Init PROVE QInv
  OBVIOUS
<1>1. pc = "solve" /\ depth = 1 /\ tcubes = [a \in {} |-> <<>>] /\ B = 0 /\ Q = EmptyVHeap /\ cex = 0
  BY DEF Init
<1>2. DOMAIN tcubes = {}
  BY <1>1
<1>3. IsStore(tcubes)
  <2>1. tcubes \in [{} -> TCubeSet] /\ {} \in SUBSET Addresses
    BY <1>1
  <2>2. tcubes \in Stores
    BY <2>1 DEF Stores
  <2>3. [a \in {} |-> {}] \in [{} -> SUBSET {}]
    OBVIOUS
  <2>4. IsAncestry([a \in {} |-> {}], tcubes)
    BY <1>2, <2>3 DEF IsAncestry
  <2> QED BY <1>2, <2>2, <2>4 DEF IsStore
<1>4. Filed(Q, tcubes)
  BY <1>1, EmptyFiled
<1>5. CountOK(tcubes, Waiting(Q), B, cex, 0)
  BY <1>2 DEF CountOK
<1>6. depth \in 1 .. MaxDepth /\ B \in DOMAIN tcubes \cup {0} /\ cex \in DOMAIN tcubes \cup {0}
  BY <1>1, TCubesAssumption
<1> QED BY <1>1, <1>2, <1>3, <1>4, <1>5, <1>6 DEF QInv, QInvOf

(* Between the steps of block_cube there is a TCube to look at, or none.   *)
LEMMA BlockIs ==
    ASSUME QInv, pc = "block"
    PROVE  /\ QInvOf("block", depth, tcubes, B, Q, 0) /\ cex = 0
           /\ (Q.sz > 0 <=> Waiting(Q) # {}) /\ (Q.sz = 0 <=> Waiting(Q) = {})
           /\ Waiting(Q) # {} => /\ s \in Alive /\ s = peekMin(Q) /\ tcubes[s] \in TCubeSet
                                 /\ tcubes[s].frame \in 0 .. MaxDepth /\ tcubes[s].refs \in Int
                                 /\ tcubes[s].parent \in 0 .. MaxTCubes /\ tcubes[s].cube \in Cubes
           /\ Alive \subseteq Addresses /\ depth \in 1 .. MaxDepth
<1>1. QInvOf("block", depth, tcubes, B, Q, 0) /\ cex = 0
  BY DEF QInv, QInvOf
<1>2. IsStore(tcubes) /\ Filed(Q, tcubes) /\ depth \in 1 .. MaxDepth
  BY <1>1 DEF QInvOf
<1>3. (Q.sz = 0 <=> Waiting(Q) = {}) /\ Q.sz \in Nat /\ Waiting(Q) \subseteq Alive
  BY <1>2, WaitingIs DEF Alive
<1>4. ASSUME Waiting(Q) # {}
      PROVE  /\ s \in Alive /\ s = peekMin(Q) /\ tcubes[s] \in TCubeSet
             /\ tcubes[s].frame \in 0 .. MaxDepth /\ tcubes[s].refs \in Int
             /\ tcubes[s].parent \in 0 .. MaxTCubes /\ tcubes[s].cube \in Cubes
  <2>1. s \in Alive /\ s = peekMin(Q)
    BY <1>2, <1>3, <1>4, FileRemoved DEF s
  <2>2. tcubes[s] \in TCubeSet
    BY <1>2, <2>1, StoreIs DEF Alive
  <2> QED BY <2>1, <2>2 DEF TCubeSet
<1>5. Alive \subseteq Addresses
  BY <1>2, StoreIs DEF Alive
<1> QED BY <1>1, <1>2, <1>3, <1>4, <1>5

(* Each action keeps what QInv says.                                       *)
LEMMA QInvNewBad == QInv /\ NewBad => QInv'
<1> SUFFICES ASSUME QInv, NewBad PROVE QInv'
  OBVIOUS
<1>1. /\ IsStore(tcubes) /\ Filed(Q, tcubes) /\ DOMAIN tcubes = {} /\ cex = 0 /\ depth \in 1 .. MaxDepth
  BY DEF QInv, QInvOf, NewBad
<1>2. PICK cube \in Cubes :
         tcubes' = With(tcubes, New, [frame |-> depth', refs |-> 2, parent |-> 0, cube |-> cube])
  BY DEF NewBad
<1>3. PICK a, d : a = New /\ d = depth'
  OBVIOUS
<1>4. a \in Addresses
  <2>1. Alive = {}
    BY <1>1 DEF Alive
  <2>2. 1 \in Addresses
    BY TCubesAssumption DEF Addresses
  <2> QED BY <1>3, <2>1, <2>2, NewIs
<1>5. d \in 1 .. MaxDepth
  <2>1. depth' \in depth .. MaxDepth
    BY DEF NewBad
  <2> QED BY <1>1, <1>3, <2>1
<1>6. PICK t : t = tcubes' /\ t = With(tcubes, a, [frame |-> d, refs |-> 2, parent |-> 0, cube |-> cube])
  BY <1>2, <1>3
<1>7. PICK w : w = Q' /\ w = insert(Q, d, a)
  BY <1>3 DEF NewBad
<1>8. QInvOf("block", d, t, a, w, 0)
  BY <1>1, <1>4, <1>5, <1>6, <1>7, NewBadIs
<1>9. pc' = "block" /\ depth' = d /\ tcubes' = t /\ B' = a /\ Q' = w /\ cex' = 0
  BY <1>1, <1>3, <1>6, <1>7 DEF NewBad
<1> QED BY <1>8, <1>9 DEF QInv

(* The TCube returned is off the queue and still referred to.              *)
LEMMA QInvReturnCex == QInv /\ ReturnCex => QInv'
<1> SUFFICES ASSUME QInv, ReturnCex PROVE QInv'
  OBVIOUS
<1>1. /\ QInvOf("block", depth, tcubes, B, Q, 0) /\ Waiting(Q) # {} /\ s = peekMin(Q)
  BY BlockIs DEF ReturnCex
<1>2. PICK x, w : x = s /\ x = peekMin(Q) /\ w = removeMin(Q)
  BY <1>1
<1>3. QInvOf("cex", depth, tcubes, B, w, x)
  BY <1>1, <1>2, ReturnCexIs
<1>4. pc' = "cex" /\ depth' = depth /\ tcubes' = tcubes /\ B' = B /\ Q' = w /\ cex' = x
  BY <1>2 DEF ReturnCex
<1> QED BY <1>3, <1>4 DEF QInv

\* What Predecessor makes of the TCubes and the queue.
PredecessorParts(a, x, cube, y, mid, z) ==
    /\ a = New /\ a \in Addresses /\ a \notin DOMAIN tcubes
    /\ x = s /\ x = peekMin(Q) /\ Waiting(Q) # {} /\ tcubes[x].frame > 0 /\ cube \in Cubes
    /\ y \in TCubeSet /\ y.refs = tcubes[x].refs + 1
    /\ y.frame = tcubes[x].frame /\ y.parent = tcubes[x].parent /\ y.cube = tcubes[x].cube
    /\ Changed(mid, tcubes, x, y)
    /\ z \in TCubeSet /\ z = [frame |-> tcubes[x].frame - 1, refs |-> 1, parent |-> x, cube |-> cube]
    /\ Added(tcubes', mid, a, z)
    /\ Q' = insert(insert(removeMin(Q), tcubes[x].frame, x), tcubes[x].frame - 1, a)

(* Predecessor makes such parts.                                           *)
LEMMA PredecessorStep ==
    ASSUME QInv, Predecessor
    PROVE  \E a, x, cube, y, mid, z : PredecessorParts(a, x, cube, y, mid, z)
<1>1. pc = "block" /\ Q.sz > 0 /\ tcubes[s].frame > 0 /\ Addresses # Alive
  BY DEF Predecessor
<1>2. /\ QInvOf("block", depth, tcubes, B, Q, 0) /\ Waiting(Q) # {} /\ s = peekMin(Q) /\ s \in Alive
      /\ tcubes[s] \in TCubeSet /\ tcubes[s].frame \in 0 .. MaxDepth /\ tcubes[s].refs \in Int
      /\ Alive \subseteq Addresses
  BY <1>1, BlockIs
<1>3. PICK a : a = New /\ a \in Addresses /\ a \notin DOMAIN tcubes
  BY <1>1, <1>2, NewIs DEF Alive
<1>4. PICK x : x = s /\ x = peekMin(Q) /\ x \in DOMAIN tcubes /\ tcubes[x] \in TCubeSet
               /\ tcubes[x].frame \in 0 .. MaxDepth /\ tcubes[x].refs \in Int /\ tcubes[x].frame > 0
  BY <1>1, <1>2 DEF Alive
<1>5. PICK cube \in Cubes :
         /\ tcubes' = With([tcubes EXCEPT ![x].refs = @ + 1], a,
                           [frame |-> tcubes[x].frame - 1, refs |-> 1, parent |-> x, cube |-> cube])
         /\ Q' = insert(insert(removeMin(Q), tcubes[x].frame, x), tcubes[x].frame - 1, a)
  BY <1>3, <1>4 DEF Predecessor
<1>6. PICK y, mid, z : /\ y = [tcubes[x] EXCEPT !.refs = @ + 1]
                       /\ mid = [tcubes EXCEPT ![x] = y]
                       /\ z = [frame |-> tcubes[x].frame - 1, refs |-> 1, parent |-> x, cube |-> cube]
  OBVIOUS
<1>7. /\ y \in TCubeSet /\ y.refs = tcubes[x].refs + 1
      /\ y.frame = tcubes[x].frame /\ y.parent = tcubes[x].parent /\ y.cube = tcubes[x].cube
  BY <1>4, <1>6 DEF TCubeSet
<1>8. z \in TCubeSet
  <2>1. tcubes[x].frame - 1 \in 0 .. MaxDepth
    BY <1>4, TCubesAssumption
  <2>2. x \in 0 .. MaxTCubes
    BY <1>2, <1>4 DEF Alive, Addresses
  <2> QED BY <1>6, <2>1, <2>2 DEF TCubeSet
<1>9. Changed(mid, tcubes, x, y)
  BY <1>6 DEF Changed
<1>10. Added(tcubes', mid, a, z)
  BY <1>5, <1>6 DEF Added
<1>11. PredecessorParts(a, x, cube, y, mid, z)
  BY <1>2, <1>3, <1>4, <1>5, <1>6, <1>7, <1>8, <1>9, <1>10 DEF PredecessorParts
<1> QED BY <1>11

(* A predecessor is a TCube more, and a reference more to its parent.      *)
LEMMA QInvPredecessor == QInv /\ Predecessor => QInv'
<1> SUFFICES ASSUME QInv, Predecessor PROVE QInv'
  OBVIOUS
<1>1. QInvOf("block", depth, tcubes, B, Q, 0) /\ cex = 0 /\ pc = "block"
  BY BlockIs DEF Predecessor
<1>2. PICK a, x, cube, y, mid, z : PredecessorParts(a, x, cube, y, mid, z)
  BY PredecessorStep
<1>3. PICK t, w : t = tcubes' /\ w = Q'
  OBVIOUS
<1>4. /\ a \in Addresses /\ a \notin DOMAIN tcubes
      /\ x = peekMin(Q) /\ Waiting(Q) # {} /\ tcubes[x].frame > 0 /\ cube \in Cubes
      /\ y \in TCubeSet /\ y.refs = tcubes[x].refs + 1
      /\ y.frame = tcubes[x].frame /\ y.parent = tcubes[x].parent /\ y.cube = tcubes[x].cube
      /\ Changed(mid, tcubes, x, y)
      /\ z \in TCubeSet /\ z = [frame |-> tcubes[x].frame - 1, refs |-> 1, parent |-> x, cube |-> cube]
      /\ Added(t, mid, a, z)
      /\ w = insert(insert(removeMin(Q), tcubes[x].frame, x), tcubes[x].frame - 1, a)
  BY <1>2, <1>3 DEF PredecessorParts
<1>5. QInvOf("block", depth, t, B, w, 0)
  BY <1>1, <1>4, PredecessorIs
<1>6. pc' = "block" /\ depth' = depth /\ B' = B /\ cex' = 0
  BY <1>1 DEF Predecessor
<1> QED BY <1>3, <1>5, <1>6 DEF QInv

\* What QueueForward makes of them.
ForwardParts(x, f, y) ==
    /\ x = s /\ x = peekMin(Q) /\ Waiting(Q) # {}
    /\ f \in tcubes[x].frame + 1 .. depth /\ f \in Nat
    /\ y \in TCubeSet /\ y.refs = tcubes[x].refs
    /\ y.frame = f /\ y.parent = tcubes[x].parent /\ y.cube = tcubes[x].cube
    /\ Changed(tcubes', tcubes, x, y)
    /\ Q' = insert(removeMin(Q), f, x)

(* QueueForward makes such parts.                                          *)
LEMMA ForwardStep ==
    ASSUME QInv, QueueForward
    PROVE  \E x, f, y : ForwardParts(x, f, y)
<1>1. pc = "block" /\ Q.sz > 0 /\ tcubes[s].frame > 0
  BY DEF QueueForward
<1>2. /\ QInvOf("block", depth, tcubes, B, Q, 0) /\ Waiting(Q) # {} /\ s = peekMin(Q) /\ s \in Alive
      /\ tcubes[s] \in TCubeSet /\ tcubes[s].frame \in 0 .. MaxDepth /\ tcubes[s].refs \in Int
      /\ depth \in 1 .. MaxDepth
  BY <1>1, BlockIs
<1>3. PICK x : x = s /\ x = peekMin(Q) /\ x \in DOMAIN tcubes /\ tcubes[x] \in TCubeSet
               /\ tcubes[x].frame \in 0 .. MaxDepth
  BY <1>2 DEF Alive
<1>4. PICK f \in tcubes[x].frame + 1 .. depth :
         tcubes' = [tcubes EXCEPT ![x].frame = f] /\ Q' = insert(removeMin(Q), f, x)
  BY <1>3 DEF QueueForward
<1>5. PICK y : y = [tcubes[x] EXCEPT !.frame = f]
  OBVIOUS
<1>6. f \in 0 .. MaxDepth /\ f \in Nat
  BY <1>2, <1>3, <1>4, TCubesAssumption
<1>7. /\ y \in TCubeSet /\ y.refs = tcubes[x].refs
      /\ y.frame = f /\ y.parent = tcubes[x].parent /\ y.cube = tcubes[x].cube
  BY <1>3, <1>5, <1>6 DEF TCubeSet
<1>8. Changed(tcubes', tcubes, x, y)
  BY <1>4, <1>5 DEF Changed
<1>9. ForwardParts(x, f, y)
  BY <1>2, <1>3, <1>4, <1>6, <1>7, <1>8 DEF ForwardParts
<1> QED BY <1>9

(* A TCube put off is filed at its new frame.                              *)
LEMMA QInvQueueForward == QInv /\ QueueForward => QInv'
<1> SUFFICES ASSUME QInv, QueueForward PROVE QInv'
  OBVIOUS
<1>1. QInvOf("block", depth, tcubes, B, Q, 0) /\ cex = 0 /\ pc = "block"
  BY BlockIs DEF QueueForward
<1>2. PICK x, f, y : ForwardParts(x, f, y)
  BY ForwardStep
<1>3. PICK t, w : t = tcubes' /\ w = Q'
  OBVIOUS
<1>4. /\ x = peekMin(Q) /\ Waiting(Q) # {} /\ f \in Nat
      /\ y \in TCubeSet /\ y.refs = tcubes[x].refs
      /\ y.frame = f /\ y.parent = tcubes[x].parent /\ y.cube = tcubes[x].cube
      /\ Changed(t, tcubes, x, y)
      /\ w = insert(removeMin(Q), f, x)
  BY <1>2, <1>3 DEF ForwardParts
<1>5. QInvOf("block", depth, t, B, w, 0)
  BY <1>1, <1>4, QueueForwardIs
<1>6. pc' = "block" /\ depth' = depth /\ B' = B /\ cex' = 0
  BY <1>1 DEF QueueForward
<1> QED BY <1>3, <1>5, <1>6 DEF QInv

(* What deref takes away was not referred to.                              *)
LEMMA QInvDrop == QInv /\ Drop => QInv' /\ Remains(tcubes', tcubes, Waiting(Q'), B, 0)
<1> SUFFICES ASSUME QInv, Drop PROVE QInv' /\ Remains(tcubes', tcubes, Waiting(Q'), B, 0)
  OBVIOUS
<1>1. /\ QInvOf("block", depth, tcubes, B, Q, 0) /\ cex = 0 /\ Waiting(Q) # {} /\ s = peekMin(Q)
  BY BlockIs DEF Drop
<1>2. PICK x, t, w : x = s /\ x = peekMin(Q) /\ t = deref(tcubes, x) /\ w = removeMin(Q)
  BY <1>1
<1>3. QInvOf("block", depth, t, B, w, 0) /\ Remains(t, tcubes, Waiting(w), B, 0)
  BY <1>1, <1>2, DropIs
<1>4. pc' = "block" /\ depth' = depth /\ tcubes' = t /\ B' = B /\ Q' = w /\ cex' = 0
  BY <1>1, <1>2 DEF Drop
<1> QED BY <1>3, <1>4 DEF QInv

(* When block_cube returns, the last reference is given up.                *)
LEMMA QInvReturn == QInv /\ Return => QInv'
<1> SUFFICES ASSUME QInv, Return PROVE QInv'
  OBVIOUS
<1>1. /\ QInvOf("block", depth, tcubes, B, Q, 0) /\ cex = 0 /\ Waiting(Q) = {}
  BY BlockIs DEF Return
<1>2. PICK t : t = deref(tcubes, B)
  OBVIOUS
<1>3. QInvOf("solve", depth, t, 0, Q, 0)
  BY <1>1, <1>2, ReturnIs
<1>4. pc' = "solve" /\ depth' = depth /\ tcubes' = t /\ B' = 0 /\ Q' = Q /\ cex' = 0
  BY <1>1, <1>2 DEF Return
<1> QED BY <1>3, <1>4 DEF QInv

(* Every step keeps it.                                                    *)
LEMMA QInvNext == QInv /\ [Next]_vars => QInv'
<1>1. QInv /\ UNCHANGED vars => QInv'
  BY DEF QInv, vars
<1> QED BY <1>1, QInvNewBad, QInvReturnCex, QInvPredecessor, QInvQueueForward, QInvDrop, QInvReturn DEF Next

(* TCubes and queue agree in every state: the TCubes on the queue are      *)
(* alive, each on the stack of its frame and on it once, no chain of       *)
(* parents comes back to its start, and counts are of references.          *)
THEOREM QueueAndStore == Spec => []QInv
<1> QED BY QInvInit, QInvNext, PTL DEF Spec

(* A TCube is on the queue once, or not at all.                            *)
LEMMA QueuedIs ==
    ASSUME QInv, NEW a \in Addresses
    PROVE  Cardinality(Queued(a)) = One(a \in Waiting(Q)) /\ (a \notin Waiting(Q) => Queued(a) = {})
<1>1. /\ IsStore(tcubes) /\ Filed(Q, tcubes)
  BY DEF QInv, QInvOf
<1>2. /\ \A k : Stack(Q, k) \in Seq(Addresses) /\ (Stack(Q, k) # <<>> <=> k \in Keys(Q.heap))
      /\ Keys(Q.heap) \subseteq Nat
  BY <1>1, StackIs DEF Filed
<1>3. /\ Waiting(Q) \subseteq DOMAIN tcubes
      /\ \A k : \A j \in 1 .. Len(Stack(Q, k)) :
            Stack(Q, k)[j] \in Waiting(Q) /\ k \in Keys(Q.heap) /\ tcubes[Stack(Q, k)[j]].frame = k
      /\ \A b \in Waiting(Q) : \E k \in Keys(Q.heap) : \E j \in 1 .. Len(Stack(Q, k)) : Stack(Q, k)[j] = b
  BY <1>1, WaitingIs
<1>4. ASSUME NEW p \in Queued(a)
      PROVE  p \in (0 .. MaxDepth) \X (1 .. MaxTCubes) /\ p[2] \in 1 .. Len(Stack(Q, p[1])) /\ Stack(Q, p[1])[p[2]] = a
  <2>1. /\ p \in (0 .. MaxDepth) \X (1 .. MaxTCubes)
        /\ p[1] \in DOMAIN Q.elements
        /\ p[2] \in DOMAIN Q.elements[p[1]]
        /\ Q.elements[p[1]][p[2]] = a
    BY DEF Queued
  <2>2. PICK q : q = Stack(Q, p[1]) /\ q = Q.elements[p[1]]
    BY <2>1 DEF Stack
  <2>3. DOMAIN q = 1 .. Len(q)
    BY <1>2, <2>2
  <2> QED BY <2>1, <2>2, <2>3
<1>5. CASE a \notin Waiting(Q)
  <2>1. Queued(a) = {}
    BY <1>3, <1>4, <1>5
  <2> QED BY <1>5, <2>1, FS_EmptySet DEF One
<1>6. CASE a \in Waiting(Q)
  <2>1. PICK k \in Keys(Q.heap) : \E j \in 1 .. Len(Stack(Q, k)) : Stack(Q, k)[j] = a
    BY <1>3, <1>6
  <2>2. PICK j \in 1 .. Len(Stack(Q, k)) : Stack(Q, k)[j] = a
    BY <2>1
  <2>3. Distinct(Stack(Q, k), 1 .. Len(Stack(Q, k)))
    BY <1>1 DEF Filed
  <2>4. PICK q : q = Stack(Q, k) /\ q \in Seq(Addresses) /\ q # <<>>
    BY <1>2, <2>1
  <2>5. tcubes[a].frame = k /\ a \in DOMAIN tcubes
    BY <1>3, <1>6, <2>2
  <2>6. k \in 0 .. MaxDepth
    BY <1>1, <2>5, StoreIs
  <2>7. Len(q) \in Nat /\ Len(q) <= MaxTCubes
    <3>1. Len(q) \in Nat /\ q \in [1 .. Len(q) -> Addresses]
      BY <2>4
    <3>2. q \in Injection(1 .. Len(q), Addresses)
      BY <2>3, <2>4, <3>1 DEF Injection, IsInjective, Distinct
    <3>3. Cardinality(1 .. Len(q)) <= MaxTCubes
      BY <3>2, AddressesFinite, FS_Injection
    <3>4. Cardinality(1 .. Len(q)) = Len(q)
      <4>1. PICK n \in Nat : n = Len(q)
        BY <3>1
      <4>2. Cardinality(1 .. n) = n
        BY FS_Interval
      <4> QED BY <4>1, <4>2
    <3> QED BY <3>1, <3>3, <3>4
  <2>8. <<k, j>> \in Queued(a)
    <3>1. j \in 1 .. MaxTCubes
      BY <2>4, <2>7, TCubesAssumption
    <3>2. k \in DOMAIN Q.elements /\ Q.elements[k] = q
      BY <2>4 DEF Stack
    <3>3. DOMAIN q = 1 .. Len(q)
      BY <2>4
    <3>4. PICK p : p = <<k, j>>
      OBVIOUS
    <3>5. p[1] = k /\ p[2] = j /\ p \in (0 .. MaxDepth) \X (1 .. MaxTCubes)
      BY <2>6, <3>1, <3>4
    <3>6. p \in Queued(a)
      BY <2>2, <2>4, <3>2, <3>3, <3>5 DEF Queued
    <3> QED BY <3>4, <3>6
  <2>9. ASSUME NEW p \in Queued(a) PROVE p = <<k, j>>
    <3>1. p \in (0 .. MaxDepth) \X (1 .. MaxTCubes) /\ p[2] \in 1 .. Len(Stack(Q, p[1])) /\ Stack(Q, p[1])[p[2]] = a
      BY <1>4
    <3>2. p[1] = k
      BY <1>3, <2>5, <3>1
    <3>3. p[2] = j
      BY <2>2, <2>3, <3>1, <3>2 DEF Distinct
    <3> QED BY <3>1, <3>2, <3>3
  <2>10. Queued(a) = {<<k, j>>}
    BY <2>8, <2>9
  <2> QED BY <1>6, <2>10, FS_Singleton DEF One
<1> QED BY <1>5, <1>6

(* The count of a TCube is the number of references to it, and none points *)
(* to one that was deleted (ic3Types.h, ref and deref; ic3.h:621, 623).    *)
THEOREM AllCounted == Spec => []Counted
<1>1. QInv => Counted
  <2> SUFFICES ASSUME QInv PROVE Counted
    OBVIOUS
  <2>1. /\ IsStore(tcubes) /\ Filed(Q, tcubes)
        /\ B \in Alive \cup {0} /\ cex \in Alive \cup {0}
        /\ CountOK(tcubes, Waiting(Q), B, cex, 0)
        /\ pc = "solve" => Alive = {}
    BY DEF QInv, QInvOf, Alive
  <2>2. /\ Alive \subseteq Addresses /\ 0 \notin Alive /\ 0 \notin Addresses
        /\ \A b \in Alive : tcubes[b].parent \in Alive \cup {0}
        /\ Waiting(Q) \subseteq Alive
        /\ \A a : Cardinality(Children(tcubes, a)) \in Nat
    BY <2>1, StoreIs, WaitingIs DEF Alive, Addresses
  <2>3. ASSUME NEW a \in Addresses \ Alive
        PROVE  Queued(a) = {} /\ B # a /\ cex # a /\ \A b \in Alive : tcubes[b].parent # a
    BY <2>1, <2>2, QueuedIs
  <2>4. ASSUME NEW a \in Alive
        PROVE  tcubes[a].refs = Cardinality(Queued(a))
                                + Cardinality({b \in Alive : tcubes[b].parent = a})
                                + (IF B = a THEN 1 ELSE 0) + (IF cex = a THEN 1 ELSE 0)
    <3>1. tcubes[a].refs = One(a \in Waiting(Q)) + Cardinality(Children(tcubes, a))
                           + One(B = a) + One(cex = a) + One(0 = a)
      BY <2>1 DEF CountOK, Alive
    <3>2. Cardinality(Queued(a)) = One(a \in Waiting(Q))
      BY <2>2, QueuedIs
    <3>3. Children(tcubes, a) = {b \in Alive : tcubes[b].parent = a}
      BY DEF Children, Alive
    <3>4. One(0 = a) = 0 /\ One(B = a) = (IF B = a THEN 1 ELSE 0) /\ One(cex = a) = (IF cex = a THEN 1 ELSE 0)
      BY <2>2 DEF One
    <3>5. One(a \in Waiting(Q)) \in Nat
      BY DEF One
    <3>6. PICK i, n, ib, ic : /\ i = One(a \in Waiting(Q)) /\ n = Cardinality(Children(tcubes, a))
                              /\ ib = One(B = a) /\ ic = One(cex = a)
      OBVIOUS
    <3>7. i \in Int /\ n \in Int /\ ib \in Int /\ ic \in Int
      BY <2>2, <3>6 DEF One
    <3>8. tcubes[a].refs = i + n + ib + ic
      BY <3>1, <3>4, <3>6, <3>7
    <3> QED BY <3>2, <3>3, <3>4, <3>6, <3>8
  <2> QED BY <2>1, <2>3, <2>4 DEF Counted
<1> QED BY <1>1, QueueAndStore, PTL

-----------------------------------------------------------------------------
(* The paths.                                                              *)

PathOver(store, a) ==
    LET path[n \in 0 .. MaxTCubes] ==
          [b \in DOMAIN store \cup {0} |->
             IF n = 0 \/ b = 0 THEN <<>>
             ELSE <<store[b].cube>> \o path[n-1][store[b].parent]]
    IN  path[MaxTCubes][a]

\* f has the paths of so many TCubes at most.
IsPaths(f, store) ==
    /\ f \in [0 .. MaxTCubes -> [DOMAIN store \cup {0} -> Seq(Cubes)]]
    /\ \A n \in 0 .. MaxTCubes : \A b \in DOMAIN store \cup {0} :
          f[n][b] = IF n = 0 \/ b = 0 THEN <<>> ELSE <<store[b].cube>> \o f[n-1][store[b].parent]

(* There are such paths.                                                   *)
LEMMA PathsExist ==
    ASSUME NEW store, IsStore(store)
    PROVE  \E f : IsPaths(f, store)
<1> DEFINE D == DOMAIN store \cup {0}
           S == [D -> Seq(Cubes)]
           first == [b \in D |-> <<>>]
           next(g) == [b \in D |-> IF b = 0 THEN <<>> ELSE <<store[b].cube>> \o g[store[b].parent]]
           step == [p \in S \X (1 .. MaxTCubes) |-> next(p[1])]
<1>1. \A b \in DOMAIN store : store[b].parent \in D /\ store[b].cube \in Cubes
  BY StoreIs
<1>2. <<>> \in Seq(Cubes)
  OBVIOUS
<1>3. first \in S
  BY <1>2
<1>4. ASSUME NEW g \in S PROVE next(g) \in S
  <2> SUFFICES ASSUME NEW b \in D
               PROVE  (IF b = 0 THEN <<>> ELSE <<store[b].cube>> \o g[store[b].parent]) \in Seq(Cubes)
    OBVIOUS
  <2>1. CASE b = 0
    BY <1>2, <2>1
  <2>2. CASE b # 0
    <3>1. PICK q, c : q = g[store[b].parent] /\ q \in Seq(Cubes) /\ c = store[b].cube /\ c \in Cubes
      BY <1>1, <2>2
    <3>2. <<c>> \o q \in Seq(Cubes)
      BY <3>1
    <3> QED BY <2>2, <3>1, <3>2
  <2> QED BY <2>1, <2>2
<1> HIDE DEF next, first, S
<1>5. step \in [S \X (1 .. MaxTCubes) -> S]
  BY <1>4
<1>6. PICK f : IsRecursive(f, S, first, MaxTCubes, step)
  <2> HIDE DEF step
  <2> QED BY <1>3, <1>5, Recursion, TCubesAssumption
<1>7. f \in [0 .. MaxTCubes -> S] /\ f[0] = first /\ \A n \in 1 .. MaxTCubes : f[n] = step[<<f[n-1], n>>]
  <2> HIDE DEF step
  <2> QED BY <1>6 DEF IsRecursive
<1>8. \A n \in 1 .. MaxTCubes : f[n] = next(f[n-1])
  <2> SUFFICES ASSUME NEW n \in 1 .. MaxTCubes PROVE f[n] = next(f[n-1])
    OBVIOUS
  <2>1. n - 1 \in 0 .. MaxTCubes
    BY TCubesAssumption
  <2>2. f[n-1] \in S
    BY <1>7, <2>1
  <2> QED BY <1>7, <2>2
<1>9. ASSUME NEW n \in 0 .. MaxTCubes, NEW b \in D
      PROVE  f[n][b] = IF n = 0 \/ b = 0 THEN <<>> ELSE <<store[b].cube>> \o f[n-1][store[b].parent]
  <2>1. CASE n = 0
    BY <1>7, <2>1 DEF first
  <2>2. CASE n # 0
    <3>1. n \in 1 .. MaxTCubes
      BY <2>2
    <3>2. f[n] = next(f[n-1])
      BY <1>8, <3>1
    <3> QED BY <2>2, <3>2 DEF next
  <2> QED BY <2>1, <2>2
<1> QED BY <1>7, <1>9 DEF IsPaths, S

(* PathOver is a value of theirs.                                          *)
LEMMA PathOverIs ==
    ASSUME NEW store, IsStore(store)
    PROVE  \E f : IsPaths(f, store) /\ \A a : PathOver(store, a) = f[MaxTCubes][a]
<1> DEFINE D == DOMAIN store \cup {0}
           Eq(f) == [n \in 0 .. MaxTCubes |->
                       [b \in D |->
                          IF n = 0 \/ b = 0 THEN <<>>
                          ELSE <<store[b].cube>> \o f[n-1][store[b].parent]]]
           path == CHOOSE f : f = Eq(f)
<1>1. \A a : PathOver(store, a) = path[MaxTCubes][a]
  BY DEF PathOver
<1>2. PICK f : IsPaths(f, store)
  BY PathsExist
<1>3. /\ f \in [0 .. MaxTCubes -> [D -> Seq(Cubes)]]
      /\ \A n \in 0 .. MaxTCubes : \A b \in D :
            f[n][b] = IF n = 0 \/ b = 0 THEN <<>> ELSE <<store[b].cube>> \o f[n-1][store[b].parent]
  BY <1>2 DEF IsPaths
<1>4. f = Eq(f)
  <2> HIDE DEF D
  <2>1. f = [n \in 0 .. MaxTCubes |-> f[n]]
    BY <1>3
  <2>2. \A n \in 0 .. MaxTCubes : f[n] = [b \in D |-> f[n][b]]
    BY <1>3
  <2>3. \A n \in 0 .. MaxTCubes :
           f[n] = [b \in D |-> IF n = 0 \/ b = 0 THEN <<>> ELSE <<store[b].cube>> \o f[n-1][store[b].parent]]
    BY <1>3, <2>2
  <2> QED BY <2>1, <2>3
<1>5. path = Eq(path)
  <2> HIDE DEF Eq
  <2> QED BY <1>4
<1> HIDE DEF path, D
<1>6. \A n \in 0 .. MaxTCubes :
         path[n] = [b \in D |-> IF n = 0 \/ b = 0 THEN <<>> ELSE <<store[b].cube>> \o path[n-1][store[b].parent]]
  BY <1>5
<1> HIDE DEF Eq
<1>7. \A b \in DOMAIN store : store[b].parent \in D
  BY StoreIs DEF D
<1> DEFINE T == {n \in 0 .. MaxTCubes : \A b \in D : path[n][b] = f[n][b]}
<1>8. 0 \in T
  <2>1. 0 \in 0 .. MaxTCubes
    BY TCubesAssumption
  <2> QED BY <1>3, <1>6, <2>1
<1>9. ASSUME NEW n \in 0 .. MaxTCubes - 1, n \in T PROVE n + 1 \in T
  <2>1. PICK m : m = n + 1 /\ m \in 0 .. MaxTCubes /\ m # 0 /\ m - 1 = n /\ n \in 0 .. MaxTCubes
    BY TCubesAssumption
  <2>2. ASSUME NEW b \in D PROVE path[m][b] = f[m][b]
    <3>1. CASE b = 0
      BY <1>3, <1>6, <2>1, <3>1
    <3>2. CASE b # 0
      <4>1. store[b].parent \in D
        BY <1>7, <3>2 DEF D
      <4>2. path[n][store[b].parent] = f[n][store[b].parent]
        BY <1>9, <4>1
      <4>3. path[m][b] = <<store[b].cube>> \o path[n][store[b].parent]
        <5>1. path[m] = [b2 \in D |-> IF m = 0 \/ b2 = 0 THEN <<>>
                                     ELSE <<store[b2].cube>> \o path[m-1][store[b2].parent]]
          BY <1>6, <2>1
        <5>2. path[m][b] = IF m = 0 \/ b = 0 THEN <<>> ELSE <<store[b].cube>> \o path[m-1][store[b].parent]
          BY <5>1
        <5> QED BY <2>1, <3>2, <5>2
      <4>4. f[m][b] = <<store[b].cube>> \o f[n][store[b].parent]
        BY <1>3, <2>1, <3>2
      <4> QED BY <4>2, <4>3, <4>4
    <3> QED BY <3>1, <3>2
  <2> QED BY <2>1, <2>2
<1>10. MaxTCubes \in T
  <2> HIDE DEF T
  <2>1. 0 .. MaxTCubes \subseteq T
    BY <1>8, <1>9, Climb, TCubesAssumption
  <2> QED BY <2>1, TCubesAssumption
<1>11. path[MaxTCubes] = f[MaxTCubes]
  <2>1. MaxTCubes \in 0 .. MaxTCubes
    BY TCubesAssumption
  <2>2. f[MaxTCubes] = [b \in D |-> f[MaxTCubes][b]]
    BY <1>3, <2>1
  <2>3. path[MaxTCubes] = [b \in D |-> path[MaxTCubes][b]]
    <3>1. PICK m : m = MaxTCubes /\ m \in 0 .. MaxTCubes
      BY <2>1
    <3>2. path[m] = [b \in D |-> IF m = 0 \/ b = 0 THEN <<>> ELSE <<store[b].cube>> \o path[m-1][store[b].parent]]
      BY <1>6, <3>1
    <3>3. path[m] = [b \in D |-> path[m][b]]
      BY <3>2
    <3> QED BY <3>1, <3>3
  <2>4. \A b \in D : path[MaxTCubes][b] = f[MaxTCubes][b]
    BY <1>10
  <2> QED BY <2>2, <2>3, <2>4
<1> QED BY <1>1, <1>2, <1>11

(* The path of a TCube is its cube, and the path of its parent: a chain of *)
(* parents has no more TCubes than there are.                              *)
LEMMA PathIs ==
    ASSUME NEW store, IsStore(store)
    PROVE  /\ PathOver(store, 0) = <<>>
           /\ \A a \in DOMAIN store :
                 /\ PathOver(store, a) \in Seq(Cubes)
                 /\ PathOver(store, a) = <<store[a].cube>> \o PathOver(store, store[a].parent)
<1>1. PICK f : IsPaths(f, store) /\ \A a : PathOver(store, a) = f[MaxTCubes][a]
  BY PathOverIs
<1>2. /\ f \in [0 .. MaxTCubes -> [DOMAIN store \cup {0} -> Seq(Cubes)]]
      /\ \A n \in 0 .. MaxTCubes : \A b \in DOMAIN store \cup {0} :
            f[n][b] = IF n = 0 \/ b = 0 THEN <<>> ELSE <<store[b].cube>> \o f[n-1][store[b].parent]
  BY <1>1 DEF IsPaths
<1>3. PICK anc : IsAncestry(anc, store)
  BY DEF IsStore
<1>4. /\ anc \in [DOMAIN store -> SUBSET DOMAIN store]
      /\ \A a \in DOMAIN store : /\ a \in anc[a]
                                 /\ store[a].parent # 0 => anc[store[a].parent] \subseteq anc[a] \ {a}
  BY <1>3 DEF IsAncestry
<1>5. /\ DOMAIN store \subseteq Addresses
      /\ \A a \in DOMAIN store : store[a].parent \in DOMAIN store \cup {0}
      /\ 0 \notin DOMAIN store
  BY StoreIs
<1>6. ASSUME NEW a \in DOMAIN store
      PROVE  /\ IsFiniteSet(anc[a]) /\ Cardinality(anc[a]) \in Nat /\ Cardinality(anc[a]) <= MaxTCubes
             /\ Cardinality(anc[a]) # 0
  <2>1. anc[a] \in SUBSET Addresses
    BY <1>4, <1>5
  <2>2. IsFiniteSet(anc[a]) /\ Cardinality(anc[a]) \in Nat /\ Cardinality(anc[a]) <= MaxTCubes
    BY <2>1, AddressesFinite
  <2>3. anc[a] # {}
    BY <1>4
  <2> QED BY <2>2, <2>3, FS_EmptySet
<1>7. ASSUME NEW a \in DOMAIN store, store[a].parent # 0
      PROVE  store[a].parent \in DOMAIN store /\ Cardinality(anc[store[a].parent]) < Cardinality(anc[a])
  <2>1. PICK p, X, Y : p = store[a].parent /\ p \in DOMAIN store /\ X = anc[p] /\ Y = anc[a]
    BY <1>5, <1>7
  <2>2. X \subseteq Y \ {a} /\ a \in Y /\ IsFiniteSet(Y) /\ Cardinality(Y) \in Nat
    BY <1>4, <1>6, <1>7, <2>1
  <2>3. Cardinality(Y \ {a}) = Cardinality(Y) - 1
    BY <2>2, OneOut
  <2>4. IsFiniteSet(Y \ {a})
    BY <2>2, FS_RemoveElement
  <2>5. Cardinality(X) <= Cardinality(Y \ {a})
    BY <2>2, <2>4, FS_Subset
  <2>6. Cardinality(X) \in Nat
    BY <1>6, <2>1
  <2> QED BY <2>1, <2>2, <2>3, <2>5, <2>6
<1>8. MaxTCubes \in Nat /\ MaxTCubes # 0
  BY TCubesAssumption
<1>9. \A n \in 0 .. MaxTCubes : f[n][0] = <<>>
  BY <1>2
<1> DEFINE T == {n \in 0 .. MaxTCubes - 1 :
                    \A a \in DOMAIN store : Cardinality(anc[a]) <= n => f[n][a] = f[n + 1][a]}
<1>10. 0 \in T
  <2>1. 0 \in 0 .. MaxTCubes - 1
    BY <1>8
  <2>2. \A a \in DOMAIN store : ~ (Cardinality(anc[a]) <= 0)
    BY <1>6
  <2> QED BY <2>1, <2>2
<1>11. ASSUME NEW n \in 0 .. (MaxTCubes - 1) - 1, n \in T PROVE n + 1 \in T
  <2>1. PICK m : m = n + 1 /\ m \in 0 .. MaxTCubes - 1 /\ m \in 1 .. MaxTCubes /\ m - 1 = n
    BY <1>8
  <2>2. PICK k : k = m + 1 /\ k \in 1 .. MaxTCubes /\ k - 1 = m
    BY <1>8, <2>1
  <2>3. ASSUME NEW a \in DOMAIN store, Cardinality(anc[a]) <= m PROVE f[m][a] = f[k][a]
    <3>1. PICK p : p = store[a].parent
      OBVIOUS
    <3>2. f[m][a] = <<store[a].cube>> \o f[n][p]
      <4>1. m \in 0 .. MaxTCubes /\ m # 0 /\ a \in DOMAIN store \cup {0} /\ a # 0
        BY <1>5, <1>8, <2>1
      <4>2. f[m][a] = IF m = 0 \/ a = 0 THEN <<>> ELSE <<store[a].cube>> \o f[m-1][store[a].parent]
        BY <1>2, <4>1
      <4> QED BY <2>1, <3>1, <4>1, <4>2
    <3>3. f[k][a] = <<store[a].cube>> \o f[m][p]
      <4>1. k \in 0 .. MaxTCubes /\ k # 0 /\ a \in DOMAIN store \cup {0} /\ a # 0
        BY <1>5, <1>8, <2>2
      <4>2. f[k][a] = IF k = 0 \/ a = 0 THEN <<>> ELSE <<store[a].cube>> \o f[k-1][store[a].parent]
        BY <1>2, <4>1
      <4> QED BY <2>2, <3>1, <4>1, <4>2
    <3>4. f[n][p] = f[m][p]
      <4>1. CASE p = 0
        BY <1>8, <1>9, <2>1, <4>1
      <4>2. CASE p # 0
        <5>1. p \in DOMAIN store /\ Cardinality(anc[p]) < Cardinality(anc[a])
          BY <1>7, <3>1, <4>2
        <5>2. Cardinality(anc[p]) <= n
          BY <1>6, <2>1, <2>3, <5>1
        <5> QED BY <1>11, <2>1, <5>1, <5>2
      <4> QED BY <4>1, <4>2
    <3> QED BY <3>2, <3>3, <3>4
  <2> QED BY <2>1, <2>2, <2>3
<1>12. MaxTCubes - 1 \in T
  <2>1. PICK m : m = MaxTCubes - 1 /\ m \in Nat
    BY <1>8
  <2>2. 0 .. m \subseteq T
    <3> HIDE DEF T
    <3> QED BY <1>10, <1>11, <2>1, Climb
  <2> HIDE DEF T
  <2> QED BY <2>1, <2>2
<1>13. ASSUME NEW a \in DOMAIN store
       PROVE  f[MaxTCubes][a] = <<store[a].cube>> \o f[MaxTCubes][store[a].parent]
  <2>1. PICK p, m : p = store[a].parent /\ m = MaxTCubes - 1 /\ m + 1 = MaxTCubes /\ MaxTCubes \in 0 .. MaxTCubes
                    /\ m \in 0 .. MaxTCubes
    BY <1>8
  <2>2. f[MaxTCubes][a] = <<store[a].cube>> \o f[m][p]
    BY <1>2, <1>5, <1>8, <2>1
  <2>3. f[m][p] = f[MaxTCubes][p]
    <3>1. CASE p = 0
      BY <1>9, <2>1, <3>1
    <3>2. CASE p # 0
      <4>1. p \in DOMAIN store /\ Cardinality(anc[p]) < Cardinality(anc[a])
        BY <1>7, <2>1, <3>2
      <4>2. Cardinality(anc[p]) <= m
        BY <1>6, <1>8, <2>1, <4>1
      <4> QED BY <1>12, <2>1, <4>1, <4>2
    <3> QED BY <3>1, <3>2
  <2> QED BY <2>1, <2>2, <2>3
<1>14. \A a \in DOMAIN store : f[MaxTCubes][a] \in Seq(Cubes)
  <2>1. MaxTCubes \in 0 .. MaxTCubes
    BY <1>8
  <2> QED BY <1>2, <2>1
<1>15. f[MaxTCubes][0] = <<>>
  BY <1>8, <1>9
<1> QED BY <1>1, <1>13, <1>14, <1>15

(* A path is the same in two stores that have its TCubes.                  *)
LEMMA PathSame ==
    ASSUME NEW store, IsStore(store), NEW t, IsStore(t),
           \A a \in DOMAIN store \cap DOMAIN t : t[a].cube = store[a].cube /\ t[a].parent = store[a].parent
    PROVE  \A a \in DOMAIN store \cap DOMAIN t : PathOver(t, a) = PathOver(store, a)
<1> DEFINE D == DOMAIN store \cap DOMAIN t
<1>1. PICK anc : IsAncestry(anc, store)
  BY DEF IsStore
<1>2. /\ anc \in [DOMAIN store -> SUBSET DOMAIN store]
      /\ \A a \in DOMAIN store : /\ a \in anc[a]
                                 /\ store[a].parent # 0 => anc[store[a].parent] \subseteq anc[a] \ {a}
  BY <1>1 DEF IsAncestry
<1>3. /\ DOMAIN store \subseteq Addresses
      /\ \A a \in DOMAIN store : store[a].parent \in DOMAIN store \cup {0}
      /\ \A a \in DOMAIN t : t[a].parent \in DOMAIN t \cup {0}
  BY StoreIs
<1> DEFINE Bad == {a \in D : PathOver(t, a) # PathOver(store, a)}
           F == {anc[a] : a \in Bad}
<1> SUFFICES ASSUME Bad # {} PROVE FALSE
  OBVIOUS
<1>4. F # {} /\ \A X \in F : IsFiniteSet(X)
  <2>1. \A a \in Bad : anc[a] \in SUBSET Addresses
    BY <1>2, <1>3
  <2> QED BY <2>1, AddressesFinite
<1>5. PICK X \in F : \A Y \in F : Y \subseteq X => Y = X
  <2> HIDE DEF F
  <2> QED BY <1>4, MinimalSet
<1>6. PICK a \in Bad : X = anc[a]
  OBVIOUS
<1>7. a \in DOMAIN store /\ a \in DOMAIN t /\ t[a].cube = store[a].cube /\ t[a].parent = store[a].parent
  OBVIOUS
<1>8. PICK p : p = store[a].parent
  OBVIOUS
<1>9. /\ PathOver(store, a) = <<store[a].cube>> \o PathOver(store, p)
      /\ PathOver(t, a) = <<store[a].cube>> \o PathOver(t, p)
      /\ PathOver(store, 0) = <<>> /\ PathOver(t, 0) = <<>>
  BY <1>7, <1>8, PathIs
<1>10. PathOver(store, p) # PathOver(t, p)
  BY <1>6, <1>9
<1>11. p # 0 /\ p \in D
  BY <1>3, <1>7, <1>8, <1>9, <1>10
<1>12. p \in Bad /\ anc[p] \subseteq X \ {a} /\ a \in X
  BY <1>2, <1>6, <1>7, <1>8, <1>10, <1>11
<1>13. anc[p] \in F
  BY <1>12
<1> HIDE DEF F, Bad
<1> QED BY <1>5, <1>12, <1>13

-----------------------------------------------------------------------------
(* The queue as the queue of ObligationQueue.                              *)

\* The mapping, over a queue and a store.
QAbs(v, store) == [k \in DOMAIN Stacks(v) |->
                     [j \in DOMAIN Stacks(v)[k] |-> PathOver(store, Stacks(v)[k][j])]]
AnsAbs(store, c) == IF c = 0 THEN <<>> ELSE PathOver(store, c)

\* The operators of ObligationQueue, over a queue.
LowestOf(q)  == CHOOSE f \in DOMAIN q : \A g \in DOMAIN q : f <= g
RemovedOf(q) == [f \in {g \in DOMAIN q : g # LowestOf(q) \/ Len(q[g]) > 1} |->
                   IF f = LowestOf(q) THEN SubSeq(q[f], 1, Len(q[f]) - 1) ELSE q[f]]
PathIn(q)    == q[LowestOf(q)][Len(q[LowestOf(q)])]
Pushed(q, x) == [f \in DOMAIN q \cup {x.frame} |->
                   (IF f \in DOMAIN q THEN q[f] ELSE <<>>)
                   \o (IF f = x.frame THEN <<x.path>> ELSE <<>>)]

\* The paths of a stack of TCubes.
PathsOf(store, st) == [j \in 1 .. Len(st) |-> PathOver(store, st[j])]

\* Both stores have the same paths.
Agree(store, t) ==
    \A a \in DOMAIN store \cap DOMAIN t : t[a].cube = store[a].cube /\ t[a].parent = store[a].parent

(* A stack's paths: one is pushed, and popped, with its TCube.             *)
LEMMA PathsOfIs ==
    ASSUME NEW store, IsStore(store), NEW st \in Seq(DOMAIN store)
    PROVE  /\ PathsOf(store, st) \in Seq(Seq(Cubes)) /\ Len(PathsOf(store, st)) = Len(st)
           /\ \A a \in DOMAIN store :
                 PathsOf(store, Append(st, a)) = PathsOf(store, st) \o <<PathOver(store, a)>>
           /\ st # <<>> => /\ PathsOf(store, Pop(st)) = SubSeq(PathsOf(store, st), 1, Len(st) - 1)
                           /\ PathsOf(store, st)[Len(st)] = PathOver(store, st[Len(st)])
<1>1. \A a \in DOMAIN store : PathOver(store, a) \in Seq(Cubes)
  BY PathIs
<1>2. PICK q : q = PathsOf(store, st)
  OBVIOUS
<1>3. /\ q \in Seq(Seq(Cubes)) /\ Len(q) = Len(st) /\ Len(st) \in Nat
      /\ \A j \in 1 .. Len(st) : q[j] = PathOver(store, st[j]) /\ st[j] \in DOMAIN store
  <2>1. \A j \in 1 .. Len(st) : st[j] \in DOMAIN store
    OBVIOUS
  <2> QED BY <1>1, <1>2, <2>1 DEF PathsOf
<1>4. ASSUME NEW a \in DOMAIN store
      PROVE  PathsOf(store, Append(st, a)) = q \o <<PathOver(store, a)>>
  <2>1. PICK x : x = PathOver(store, a) /\ x \in Seq(Cubes)
    BY <1>1
  <2>2. PICK st2 : st2 = Append(st, a)
    OBVIOUS
  <2>3. /\ Len(st2) = Len(st) + 1
        /\ \A j \in 1 .. Len(st) : st2[j] = st[j]
        /\ st2[Len(st) + 1] = a
    BY <2>2
  <2>4. PICK q2 : q2 = PathsOf(store, st2)
    OBVIOUS
  <2>5. q2 = [j \in 1 .. Len(st) + 1 |-> PathOver(store, st2[j])]
    BY <2>3, <2>4 DEF PathsOf
  <2>6. \A j \in 1 .. Len(st) + 1 : q2[j] = IF j \in 1 .. Len(st) THEN q[j] ELSE x
    BY <1>3, <2>1, <2>3, <2>5
  <2>7. q2 \in Seq(Seq(Cubes)) /\ Len(q2) = Len(st) + 1
    <3>1. \A j \in 1 .. Len(st) : q[j] \in Seq(Cubes)
      BY <1>3
    <3>2. \A j \in 1 .. Len(st) + 1 : q2[j] \in Seq(Cubes)
      BY <2>1, <2>6, <3>1
    <3> QED BY <1>3, <2>5, <3>2
  <2>8. PICK q3 : q3 = q \o <<x>>
    OBVIOUS
  <2>9. /\ q3 \in Seq(Seq(Cubes)) /\ Len(q3) = Len(st) + 1
        /\ \A j \in 1 .. Len(st) + 1 : q3[j] = IF j \in 1 .. Len(st) THEN q[j] ELSE x
    BY <1>3, <2>1, <2>8
  <2>10. q2 = q3
    BY <2>6, <2>7, <2>9, SeqEqual
  <2> QED BY <2>1, <2>2, <2>4, <2>8, <2>10
<1>5. ASSUME st # <<>>
      PROVE  /\ PathsOf(store, Pop(st)) = SubSeq(q, 1, Len(st) - 1)
             /\ q[Len(st)] = PathOver(store, st[Len(st)])
  <2>1. Len(st) \in 1 .. Len(st)
    BY <1>3, <1>5
  <2>2. PICK st2 : st2 = SubSeq(st, 1, Len(st) - 1)
    OBVIOUS
  <2>3. /\ Len(st2) = Len(st) - 1
        /\ \A j \in 1 .. Len(st) - 1 : st2[j] = st[j]
    BY <1>3, <2>1, <2>2
  <2>4. PICK q2 : q2 = PathsOf(store, st2)
    OBVIOUS
  <2>5. q2 = [j \in 1 .. Len(st) - 1 |-> PathOver(store, st2[j])]
    BY <2>3, <2>4 DEF PathsOf
  <2>6. \A j \in 1 .. Len(st) - 1 : q2[j] = q[j] /\ q2[j] \in Seq(Cubes)
    BY <1>3, <2>3, <2>5
  <2>7. q2 \in Seq(Seq(Cubes)) /\ Len(q2) = Len(st) - 1
    <3>1. Len(st) - 1 \in Nat
      BY <1>3, <2>1
    <3> QED BY <2>5, <2>6, <3>1
  <2>8. PICK q3 : q3 = SubSeq(q, 1, Len(st) - 1)
    OBVIOUS
  <2>9. /\ q3 \in Seq(Seq(Cubes)) /\ Len(q3) = Len(st) - 1
        /\ \A j \in 1 .. Len(st) - 1 : q3[j] = q[j]
    BY <1>3, <2>1, <2>8
  <2>10. q2 = q3
    BY <2>6, <2>7, <2>9, SeqEqual
  <2> QED BY <1>3, <2>1, <2>2, <2>4, <2>8, <2>10 DEF Pop
<1> QED BY <1>2, <1>3, <1>4, <1>5

(* The abstract queue has the paths of each stack.                         *)
LEMMA QAbsIs ==
    ASSUME NEW v, NEW store, IsQueue(v, Addresses)
    PROVE  QAbs(v, store) = [k \in Keys(v.heap) |-> PathsOf(store, Stack(v, k))]
<1>1. /\ DOMAIN Stacks(v) = Keys(v.heap) /\ \A k \in Keys(v.heap) : Stacks(v)[k] = Stack(v, k)
      /\ \A k : Stack(v, k) \in Seq(Addresses)
  BY StackIs
<1>2. \A k \in Keys(v.heap) :
         [j \in DOMAIN Stacks(v)[k] |-> PathOver(store, Stacks(v)[k][j])] = PathsOf(store, Stack(v, k))
  <2> SUFFICES ASSUME NEW k \in Keys(v.heap)
               PROVE  [j \in DOMAIN Stacks(v)[k] |-> PathOver(store, Stacks(v)[k][j])] = PathsOf(store, Stack(v, k))
    OBVIOUS
  <2>1. PICK st : st = Stack(v, k) /\ st = Stacks(v)[k] /\ DOMAIN st = 1 .. Len(st)
    BY <1>1
  <2> QED BY <2>1 DEF PathsOf
<1> QED BY <1>1, <1>2 DEF QAbs

(* A queue shows the same over two stores that agree on what waits.        *)
LEMMA QAbsSame ==
    ASSUME NEW v, NEW store, IsStore(store), Filed(v, store),
           NEW t, IsStore(t), Agree(store, t), Waiting(v) \subseteq DOMAIN t,
           NEW w, IsQueue(w, Addresses), \A k : Stack(w, k) = Stack(v, k)
    PROVE  QAbs(w, t) = QAbs(v, store)
<1>1. /\ IsQueue(v, Addresses)
      /\ \A k : Stack(v, k) \in Seq(Addresses) /\ (Stack(v, k) # <<>> <=> k \in Keys(v.heap))
      /\ \A k : Stack(w, k) # <<>> <=> k \in Keys(w.heap)
  BY StackIs DEF Filed
<1>2. Keys(w.heap) = Keys(v.heap)
  BY <1>1
<1>3. \A a \in DOMAIN store \cap DOMAIN t : PathOver(t, a) = PathOver(store, a)
  BY PathSame DEF Agree
<1>4. ASSUME NEW k PROVE PathsOf(t, Stack(w, k)) = PathsOf(store, Stack(v, k))
  <2>1. PICK st : st = Stack(v, k) /\ st = Stack(w, k)
    OBVIOUS
  <2>2. \A j \in 1 .. Len(st) : st[j] \in DOMAIN store \cap DOMAIN t
    BY <2>1, WaitingIs
  <2>3. \A j \in 1 .. Len(st) : PathOver(t, st[j]) = PathOver(store, st[j])
    BY <1>3, <2>2
  <2> QED BY <2>1, <2>3 DEF PathsOf
<1>5. /\ QAbs(w, t) = [k \in Keys(w.heap) |-> PathsOf(t, Stack(w, k))]
      /\ QAbs(v, store) = [k \in Keys(v.heap) |-> PathsOf(store, Stack(v, k))]
  BY <1>1, QAbsIs
<1> QED BY <1>2, <1>4, <1>5

(* A TCube on a stack is a path on the abstract one.                       *)
LEMMA QAbsPushed ==
    ASSUME NEW v, NEW t, IsStore(t), IsQueue(v, Addresses), Waiting(v) \subseteq DOMAIN t,
           NEW w, IsQueue(w, Addresses), NEW f, NEW a \in DOMAIN t, StackedOn(w, v, f, a),
           NEW x, x = [frame |-> f, path |-> PathOver(t, a)]
    PROVE  QAbs(w, t) = Pushed(QAbs(v, t), x)
<1>0. \A k : Stack(w, k) = IF k = f THEN Append(Stack(v, k), a) ELSE Stack(v, k)
  BY DEF StackedOn
<1>1. /\ \A k : Stack(v, k) \in Seq(Addresses) /\ (Stack(v, k) # <<>> <=> k \in Keys(v.heap))
      /\ \A k : Stack(w, k) # <<>> <=> k \in Keys(w.heap)
  BY StackIs
<1>2. \A k : Stack(v, k) \in Seq(DOMAIN t)
  <2> SUFFICES ASSUME NEW k PROVE Stack(v, k) \in Seq(DOMAIN t)
    OBVIOUS
  <2>1. PICK st : st = Stack(v, k) /\ st \in Seq(Addresses)
    BY <1>1
  <2>2. ASSUME NEW j \in 1 .. Len(st) PROVE st[j] \in DOMAIN t
    <3>1. k \in Keys(v.heap) /\ st[j] \in Addresses
      <4>1. st # <<>>
        BY <2>1, <2>2
      <4> QED BY <1>1, <2>1, <4>1
    <3>2. st[j] \in Waiting(v)
      BY <2>1, <3>1 DEF Waiting
    <3> QED BY <3>2
  <2> QED BY <2>1, <2>2
<1>3. Keys(w.heap) = Keys(v.heap) \cup {f}
  <2>1. Append(Stack(v, f), a) # <<>>
    <3>1. PICK st : st = Stack(v, f) /\ st \in Seq(DOMAIN t)
      BY <1>2
    <3> QED BY <3>1
  <2> QED BY <1>0, <1>1, <2>1
<1>4. PICK q : q = QAbs(v, t) /\ q = [k \in Keys(v.heap) |-> PathsOf(t, Stack(v, k))]
  BY QAbsIs
<1>5. QAbs(w, t) = [k \in Keys(w.heap) |-> PathsOf(t, Stack(w, k))]
  BY QAbsIs
<1>6. ASSUME NEW k \in Keys(w.heap)
      PROVE  PathsOf(t, Stack(w, k)) = (IF k \in DOMAIN q THEN q[k] ELSE <<>>)
                                       \o (IF k = x.frame THEN <<x.path>> ELSE <<>>)
  <2>1. PICK st, ps : st = Stack(v, k) /\ st \in Seq(DOMAIN t) /\ ps = PathsOf(t, st)
    BY <1>2
  <2>2. ps \in Seq(Seq(Cubes)) /\ PathsOf(t, Append(st, a)) = ps \o <<PathOver(t, a)>>
    BY <2>1, PathsOfIs
  <2>3. (IF k \in DOMAIN q THEN q[k] ELSE <<>>) = ps
    <3>1. CASE k \in Keys(v.heap)
      BY <1>4, <2>1, <3>1
    <3>2. CASE k \notin Keys(v.heap)
      <4>1. st = <<>>
        BY <1>1, <2>1, <3>2
      <4>2. Len(ps) = 0
        BY <2>1, <4>1, PathsOfIs
      <4>3. ps = <<>>
        BY <2>2, <4>2
      <4> QED BY <1>4, <3>2, <4>3
    <3> QED BY <3>1, <3>2
  <2>4. CASE k = f
    <3>1. PathsOf(t, Stack(w, k)) = ps \o <<PathOver(t, a)>>
      BY <1>0, <2>1, <2>2, <2>4
    <3> QED BY <2>3, <2>4, <3>1
  <2>5. CASE k # f
    <3>1. PathsOf(t, Stack(w, k)) = ps
      BY <1>0, <2>1, <2>5
    <3>2. ps \o <<>> = ps
      BY <2>2
    <3> QED BY <2>3, <2>5, <3>1, <3>2
  <2> QED BY <2>4, <2>5
<1>7. DOMAIN q \cup {x.frame} = Keys(w.heap)
  BY <1>3, <1>4
<1> QED BY <1>4, <1>5, <1>6, <1>7 DEF Pushed

(* peekMin is the path that is next, and removeMin takes it away.          *)
LEMMA QAbsRemoved ==
    ASSUME NEW v, NEW store, IsStore(store), Filed(v, store), Waiting(v) # {}
    PROVE  /\ DOMAIN QAbs(v, store) # {}
           /\ LowestOf(QAbs(v, store)) = level(v)
           /\ PathIn(QAbs(v, store)) = PathOver(store, peekMin(v))
           /\ RemovedOf(QAbs(v, store)) = QAbs(removeMin(v), store)
<1>1. PICK w, f, a : w = removeMin(v) /\ f = level(v) /\ a = peekMin(v)
  OBVIOUS
<1>2. /\ f \in Keys(v.heap) /\ (\A k \in Keys(v.heap) : f <= k)
      /\ Filed(w, store)
      /\ Stack(v, f) # <<>> /\ a = Stack(v, f)[Len(Stack(v, f))]
      /\ \A k : Stack(w, k) = IF k = f THEN Pop(Stack(v, k)) ELSE Stack(v, k)
  BY <1>1, FileRemoved
<1>3. /\ \A k : Stack(v, k) \in Seq(Addresses) /\ (Stack(v, k) # <<>> <=> k \in Keys(v.heap))
      /\ \A k : Stack(w, k) # <<>> <=> k \in Keys(w.heap)
      /\ Keys(v.heap) \subseteq Nat
      /\ IsQueue(v, Addresses) /\ IsQueue(w, Addresses)
  BY <1>2, StackIs DEF Filed
<1>4. \A k : Stack(v, k) \in Seq(DOMAIN store)
  <2> SUFFICES ASSUME NEW k PROVE Stack(v, k) \in Seq(DOMAIN store)
    OBVIOUS
  <2>1. PICK st : st = Stack(v, k) /\ st \in Seq(Addresses)
    BY <1>3
  <2>2. \A j \in 1 .. Len(st) : st[j] \in DOMAIN store
    BY <2>1, WaitingIs
  <2> QED BY <2>1, <2>2
<1>5. PICK q : q = QAbs(v, store) /\ q = [k \in Keys(v.heap) |-> PathsOf(store, Stack(v, k))]
  BY <1>3, QAbsIs
<1>6. DOMAIN q = Keys(v.heap) /\ DOMAIN q # {}
  BY <1>2, <1>5
<1>7. LowestOf(q) = f
  <2>1. \A k \in DOMAIN q : (\A g \in DOMAIN q : k <= g) => k = f
    BY <1>2, <1>3, <1>6
  <2>2. f \in DOMAIN q /\ \A g \in DOMAIN q : f <= g
    BY <1>2, <1>6
  <2> QED BY <2>1, <2>2 DEF LowestOf
<1>8. PICK st, ps : st = Stack(v, f) /\ st \in Seq(DOMAIN store) /\ ps = PathsOf(store, st) /\ st # <<>>
  BY <1>2, <1>4
<1>9. /\ ps \in Seq(Seq(Cubes)) /\ Len(ps) = Len(st) /\ Len(st) \in Nat /\ q[f] = ps
      /\ PathsOf(store, Pop(st)) = SubSeq(ps, 1, Len(st) - 1)
      /\ ps[Len(st)] = PathOver(store, st[Len(st)])
  BY <1>2, <1>5, <1>8, PathsOfIs
<1>10. PathIn(q) = PathOver(store, a)
  BY <1>2, <1>7, <1>8, <1>9 DEF PathIn
<1>11. QAbs(w, store) = [k \in Keys(w.heap) |-> PathsOf(store, Stack(w, k))]
  BY <1>3, QAbsIs
<1>12. Keys(w.heap) = {g \in DOMAIN q : g # f \/ Len(q[g]) > 1}
  <2>1. Pop(st) # <<>> <=> Len(st) > 1
    <3>1. Len(st) \in Nat /\ Len(st) > 0
      BY <1>8
    <3>2. PICK n : n = Len(st) - 1 /\ n \in Nat
      BY <3>1
    <3>3. PICK r : r = Pop(st) /\ r = SubSeq(st, 1, n)
      BY <3>2 DEF Pop
    <3>4. r \in Seq(DOMAIN store) /\ Len(r) = n
      BY <1>8, <3>1, <3>2, <3>3
    <3>5. r # <<>> <=> Len(r) > 0
      BY <3>2, <3>4
    <3> QED BY <3>1, <3>2, <3>3, <3>4, <3>5
  <2>2. f \in Keys(w.heap) <=> Len(q[f]) > 1
    BY <1>2, <1>3, <1>8, <1>9, <2>1
  <2>3. \A k : k # f => (k \in Keys(w.heap) <=> k \in Keys(v.heap))
    BY <1>2, <1>3
  <2> QED BY <1>2, <1>6, <2>2, <2>3
<1>13. ASSUME NEW k \in Keys(w.heap)
       PROVE  PathsOf(store, Stack(w, k)) = IF k = f THEN SubSeq(q[k], 1, Len(q[k]) - 1) ELSE q[k]
  <2>1. CASE k = f
    BY <1>2, <1>8, <1>9, <2>1
  <2>2. CASE k # f
    <3>1. k \in Keys(v.heap)
      BY <1>12, <1>6
    <3> QED BY <1>2, <1>5, <2>2, <3>1
  <2> QED BY <2>1, <2>2
<1>14. RemovedOf(q) = QAbs(w, store)
  BY <1>7, <1>11, <1>12, <1>13 DEF RemovedOf
<1> QED BY <1>1, <1>5, <1>6, <1>7, <1>10, <1>14

(* A TCube that goes back where it was leaves the stacks as they were.     *)
LEMMA PutBack ==
    ASSUME NEW v, NEW store, IsStore(store), Filed(v, store), Waiting(v) # {}, NEW x, x = peekMin(v),
           NEW u, u = insert(removeMin(v), store[x].frame, x)
    PROVE  Filed(u, store) /\ Waiting(u) = Waiting(v) /\ \A k : Stack(u, k) = Stack(v, k)
<1>1. PICK r, f : r = removeMin(v) /\ f = store[x].frame /\ u = insert(r, f, x)
  OBVIOUS
<1>2. /\ x \in Waiting(v) /\ f = level(v)
      /\ Filed(r, store) /\ Waiting(r) = Waiting(v) \ {x}
      /\ Stack(v, f) # <<>> /\ x = Stack(v, f)[Len(Stack(v, f))]
      /\ \A k : Stack(r, k) = IF k = f THEN Pop(Stack(v, k)) ELSE Stack(v, k)
  BY <1>1, FileRemoved
<1>3. x \in DOMAIN store /\ x \in Addresses /\ f \in Nat
  <2>1. Waiting(v) \subseteq DOMAIN store /\ Waiting(v) \subseteq Addresses
    BY WaitingIs
  <2>2. f \in 0 .. MaxDepth
    BY <1>1, <1>2, <2>1, StoreIs
  <2> QED BY <1>2, <2>1, <2>2
<1>4. Filed(u, store) /\ Waiting(u) = Waiting(r) \cup {x} /\ StackedOn(u, r, f, x)
  <2>1. Waiting(r) \subseteq DOMAIN store /\ x \notin Waiting(r)
    BY <1>2, WaitingIs
  <2>2. Filed(r, store) /\ \A e \in Waiting(r) : store[e].frame = store[e].frame
    BY <1>2
  <2>3. u = insert(r, f, x) /\ f = store[x].frame
    BY <1>1
  <2> QED BY <1>3, <2>1, <2>2, <2>3, FileInserted
<1>5. PICK st : st = Stack(v, f) /\ st \in Seq(Addresses) /\ st # <<>> /\ x = st[Len(st)]
  <2>1. \A k : Stack(v, k) \in Seq(Addresses)
    BY StackIs DEF Filed
  <2> QED BY <1>2, <2>1
<1>6. Append(Pop(st), x) = st
  <2>1. PICK n : n = Len(st) /\ n \in Nat /\ n > 0
    BY <1>5
  <2>2. PICK p : p = Pop(st) /\ p = SubSeq(st, 1, n - 1)
    BY <2>1 DEF Pop
  <2>3. p \in Seq(Addresses) /\ Len(p) = n - 1 /\ \A j \in 1 .. n - 1 : p[j] = st[j]
    BY <1>5, <2>1, <2>2
  <2>4. PICK q : q = Append(p, x)
    OBVIOUS
  <2>5. q \in Seq(Addresses) /\ Len(q) = n /\ \A j \in 1 .. n : q[j] = st[j]
    BY <1>3, <1>5, <2>1, <2>3, <2>4
  <2>6. q = st
    BY <1>5, <2>1, <2>5, SeqEqual
  <2> QED BY <2>2, <2>4, <2>6
<1>7. \A k : Stack(u, k) = Stack(v, k)
  <2> SUFFICES ASSUME NEW k PROVE Stack(u, k) = Stack(v, k)
    OBVIOUS
  <2>1. CASE k = f
    BY <1>2, <1>4, <1>5, <1>6, <2>1 DEF StackedOn
  <2>2. CASE k # f
    BY <1>2, <1>4, <2>2 DEF StackedOn
  <2> QED BY <2>1, <2>2
<1> QED BY <1>2, <1>4, <1>7

\* q2 is q with a path more.
WithPath(q2, q, f, p) == q2 = Pushed(q, [frame |-> f, path |-> p])

(* A predecessor's path is its cube before the one of the TCube that waits *)
(* for it, which stays.                                                    *)
LEMMA PredecessorShows ==
    ASSUME NEW d, NEW store, NEW b, NEW v, QInvOf("block", d, store, b, v, 0), Waiting(v) # {},
           NEW x, x = peekMin(v), NEW cube \in Cubes, store[x].frame > 0,
           NEW a \in Addresses, a \notin DOMAIN store,
           NEW y \in TCubeSet, y.refs = store[x].refs + 1,
           y.frame = store[x].frame, y.parent = store[x].parent, y.cube = store[x].cube,
           NEW mid, Changed(mid, store, x, y),
           NEW z \in TCubeSet, z = [frame |-> store[x].frame - 1, refs |-> 1, parent |-> x, cube |-> cube],
           NEW t, Added(t, mid, a, z),
           NEW w, w = insert(insert(removeMin(v), store[x].frame, x), store[x].frame - 1, a),
           NEW q, q = QAbs(v, store)
    PROVE  /\ DOMAIN q # {} /\ LowestOf(q) > 0
           /\ WithPath(QAbs(w, t), q, LowestOf(q) - 1, <<cube>> \o PathIn(q))
<1>1. IsStore(store) /\ Filed(v, store)
  BY DEF QInvOf
<1>2. /\ DOMAIN q # {} /\ LowestOf(q) = level(v) /\ PathIn(q) = PathOver(store, x)
      /\ x \in Waiting(v) /\ level(v) = store[x].frame
  BY <1>1, QAbsRemoved, FileRemoved
<1>3. PICK u, f, g : u = insert(removeMin(v), f, x) /\ f = store[x].frame /\ g = f - 1 /\ w = insert(u, g, a)
  OBVIOUS
<1>4. Filed(u, store) /\ Waiting(u) = Waiting(v) /\ \A k : Stack(u, k) = Stack(v, k)
  BY <1>1, <1>3, PutBack
<1>5. x \in DOMAIN store /\ Waiting(v) \subseteq DOMAIN store /\ f \in Nat /\ g \in Nat
  <2>1. Waiting(v) \subseteq DOMAIN store
    BY <1>1, WaitingIs
  <2>2. f \in 0 .. MaxDepth
    BY <1>1, <1>2, <1>3, <2>1, StoreIs
  <2> QED BY <1>2, <1>3, <2>1, <2>2
<1>6. IsStore(mid) /\ DOMAIN mid = DOMAIN store /\ mid[x] = y /\ \A e \in DOMAIN mid : e # x => mid[e] = store[e]
  BY <1>1, <1>5, OneChanged
<1>7. z.parent = x /\ z.cube = cube /\ z.frame = g
  BY <1>3
<1>8. IsStore(t) /\ DOMAIN t = DOMAIN mid \cup {a} /\ t[a] = z /\ \A e \in DOMAIN mid : t[e] = mid[e]
  <2>1. z.parent \in DOMAIN mid \cup {0} /\ a \notin DOMAIN mid
    BY <1>5, <1>6, <1>7
  <2>2. Grown(t, mid, a, z)
    BY <1>6, <2>1, WithIs
  <2> QED BY <2>2 DEF Grown
<1>9. /\ Agree(store, t)
      /\ \A e \in DOMAIN store : e \in DOMAIN t /\ t[e].frame = store[e].frame
  <2>1. \A e \in DOMAIN store : /\ t[e].cube = store[e].cube /\ t[e].parent = store[e].parent
                                /\ t[e].frame = store[e].frame
    BY <1>6, <1>8
  <2> QED BY <1>6, <1>8, <2>1 DEF Agree
<1>10. QAbs(u, t) = q
  <2>1. IsQueue(u, Addresses) /\ Waiting(v) \subseteq DOMAIN t
    BY <1>4, <1>5, <1>9 DEF Filed
  <2> QED BY <1>1, <1>4, <1>8, <1>9, <2>1, QAbsSame
<1>11. Filed(w, t) /\ StackedOn(w, u, g, a)
  <2>1. Waiting(u) \subseteq DOMAIN t /\ a \notin Waiting(u) /\ a \in DOMAIN t
        /\ \A e \in Waiting(u) : t[e].frame = store[e].frame
    BY <1>4, <1>5, <1>8, <1>9
  <2>2. g = t[a].frame
    BY <1>7, <1>8
  <2> QED BY <1>3, <1>4, <1>5, <2>1, <2>2, FileInserted
<1>12. PathOver(t, a) = <<cube>> \o PathIn(q)
  <2>1. a \in DOMAIN t /\ t[a].cube = cube /\ t[a].parent = x
    BY <1>7, <1>8
  <2>2. PathOver(t, a) = <<cube>> \o PathOver(t, x)
    BY <1>8, <2>1, PathIs
  <2>3. PathOver(t, x) = PathOver(store, x)
    BY <1>1, <1>5, <1>8, <1>9, PathSame DEF Agree
  <2> QED BY <1>2, <2>2, <2>3
<1>13. PICK o : o = [frame |-> g, path |-> PathOver(t, a)]
  OBVIOUS
<1>14. QAbs(w, t) = Pushed(QAbs(u, t), o)
  <2>1. IsQueue(u, Addresses) /\ IsQueue(w, Addresses) /\ Waiting(u) \subseteq DOMAIN t /\ a \in DOMAIN t
    BY <1>4, <1>5, <1>8, <1>9, <1>11 DEF Filed
  <2> QED BY <1>8, <1>11, <1>13, <2>1, QAbsPushed
<1>15. o = [frame |-> LowestOf(q) - 1, path |-> <<cube>> \o PathIn(q)]
  BY <1>2, <1>3, <1>12, <1>13
<1> QED BY <1>2, <1>10, <1>14, <1>15 DEF WithPath

(* A TCube put off has its path at the later frame.                        *)
LEMMA QueueForwardShows ==
    ASSUME NEW d, NEW store, NEW b, NEW v, QInvOf("block", d, store, b, v, 0), Waiting(v) # {},
           NEW x, x = peekMin(v), NEW f \in Nat,
           NEW y \in TCubeSet, y.refs = store[x].refs,
           y.frame = f, y.parent = store[x].parent, y.cube = store[x].cube,
           NEW t, Changed(t, store, x, y),
           NEW w, w = insert(removeMin(v), f, x),
           NEW q, q = QAbs(v, store)
    PROVE  /\ DOMAIN q # {} /\ LowestOf(q) = store[x].frame
           /\ WithPath(QAbs(w, t), RemovedOf(q), f, PathIn(q))
<1>1. IsStore(store) /\ Filed(v, store)
  BY DEF QInvOf
<1>2. PICK r : r = removeMin(v) /\ w = insert(r, f, x)
  OBVIOUS
<1>3. /\ DOMAIN q # {} /\ LowestOf(q) = level(v) /\ PathIn(q) = PathOver(store, x)
      /\ RemovedOf(q) = QAbs(r, store)
      /\ x \in Waiting(v) /\ level(v) = store[x].frame
      /\ Filed(r, store) /\ Waiting(r) = Waiting(v) \ {x}
  BY <1>1, <1>2, QAbsRemoved, FileRemoved
<1>4. x \in DOMAIN store /\ x \in Addresses /\ Waiting(r) \subseteq DOMAIN store
  <2>1. Waiting(v) \subseteq DOMAIN store /\ Waiting(v) \subseteq Addresses
    BY <1>1, WaitingIs
  <2> QED BY <1>3, <2>1
<1>5. IsStore(t) /\ DOMAIN t = DOMAIN store /\ t[x] = y /\ \A e \in DOMAIN t : e # x => t[e] = store[e]
  BY <1>1, <1>4, OneChanged
<1>6. Agree(store, t)
  <2>1. \A e \in DOMAIN store : t[e].cube = store[e].cube /\ t[e].parent = store[e].parent
    BY <1>5
  <2> QED BY <2>1 DEF Agree
<1>7. QAbs(r, t) = RemovedOf(q)
  <2>1. IsQueue(r, Addresses) /\ Waiting(r) \subseteq DOMAIN t /\ \A k : Stack(r, k) = Stack(r, k)
    BY <1>3, <1>4, <1>5 DEF Filed
  <2>2. QAbs(r, t) = QAbs(r, store)
    BY <1>1, <1>3, <1>5, <1>6, <2>1, QAbsSame
  <2> QED BY <1>3, <2>2
<1>8. Filed(w, t) /\ StackedOn(w, r, f, x)
  <2>1. Waiting(r) \subseteq DOMAIN t /\ x \notin Waiting(r) /\ x \in DOMAIN t /\ f = t[x].frame
        /\ \A e \in Waiting(r) : t[e].frame = store[e].frame
    BY <1>3, <1>4, <1>5
  <2> QED BY <1>2, <1>3, <1>4, <2>1, FileInserted
<1>9. PathOver(t, x) = PathIn(q)
  BY <1>1, <1>3, <1>4, <1>5, <1>6, PathSame DEF Agree
<1>10. PICK o : o = [frame |-> f, path |-> PathOver(t, x)]
  OBVIOUS
<1>11. QAbs(w, t) = Pushed(QAbs(r, t), o)
  <2>1. IsQueue(r, Addresses) /\ IsQueue(w, Addresses) /\ Waiting(r) \subseteq DOMAIN t /\ x \in DOMAIN t
    BY <1>3, <1>4, <1>5, <1>8 DEF Filed
  <2> QED BY <1>5, <1>8, <1>10, <2>1, QAbsPushed
<1> QED BY <1>3, <1>7, <1>9, <1>10, <1>11 DEF WithPath

(* The first TCube's path is its cube.                                     *)
LEMMA NewBadShows ==
    ASSUME NEW d \in 1 .. MaxDepth, NEW cube \in Cubes, NEW a \in Addresses,
           NEW store, IsStore(store), DOMAIN store = {}, NEW v, Filed(v, store),
           NEW t, t = With(store, a, [frame |-> d, refs |-> 2, parent |-> 0, cube |-> cube]),
           NEW w, w = insert(v, d, a),
           NEW q, q = QAbs(v, store)
    PROVE  DOMAIN q = {} /\ WithPath(QAbs(w, t), q, d, <<cube>>)
<1>1. PICK y : y = [frame |-> d, refs |-> 2, parent |-> 0, cube |-> cube]
  OBVIOUS
<1>2. y \in TCubeSet /\ y.parent = 0 /\ y.cube = cube /\ y.frame = d /\ d \in Nat
  <2>1. d \in 0 .. MaxDepth /\ 0 \in 0 .. MaxTCubes
    BY TCubesAssumption
  <2> QED BY <1>1, <2>1 DEF TCubeSet
<1>3. IsStore(t) /\ DOMAIN t = {a} /\ t[a] = y
  <2>1. Added(t, store, a, y) /\ a \notin DOMAIN store /\ y.parent \in DOMAIN store \cup {0}
    BY <1>1, <1>2 DEF Added
  <2>2. Grown(t, store, a, y)
    BY <1>2, <2>1, WithIs
  <2> QED BY <2>2 DEF Grown
<1>4. Waiting(v) = {} /\ Keys(v.heap) = {} /\ IsQueue(v, Addresses)
  BY WaitingIs DEF Filed
<1>5. DOMAIN q = {}
  BY <1>4, QAbsIs
<1>6. QAbs(v, t) = q
  <2>1. Agree(store, t) /\ Waiting(v) \subseteq DOMAIN t /\ \A k : Stack(v, k) = Stack(v, k)
    BY <1>4 DEF Agree
  <2> QED BY <1>3, <1>4, <2>1, QAbsSame
<1>7. Filed(w, t) /\ StackedOn(w, v, d, a)
  <2>1. /\ Waiting(v) \subseteq DOMAIN t /\ (\A e \in Waiting(v) : t[e].frame = store[e].frame)
        /\ a \in DOMAIN t /\ a \notin Waiting(v) /\ d = t[a].frame
    BY <1>2, <1>3, <1>4
  <2> QED BY <1>2, <2>1, FileInserted
<1>8. PathOver(t, a) = <<cube>>
  <2>1. a \in DOMAIN t /\ t[a].parent = 0 /\ t[a].cube = cube
    BY <1>2, <1>3
  <2>2. PathOver(t, a) = <<cube>> \o PathOver(t, 0) /\ PathOver(t, 0) = <<>>
    BY <1>3, <2>1, PathIs
  <2>3. <<cube>> \o <<>> = <<cube>>
    OBVIOUS
  <2> QED BY <2>2, <2>3
<1>9. PICK o : o = [frame |-> d, path |-> PathOver(t, a)]
  OBVIOUS
<1>10. QAbs(w, t) = Pushed(QAbs(v, t), o)
  <2>1. IsQueue(v, Addresses) /\ IsQueue(w, Addresses) /\ Waiting(v) \subseteq DOMAIN t /\ a \in DOMAIN t
    BY <1>3, <1>4, <1>7 DEF Filed
  <2> QED BY <1>3, <1>7, <1>9, <2>1, QAbsPushed
<1> QED BY <1>5, <1>6, <1>8, <1>9, <1>10 DEF WithPath

(* The mapping and the operators of ObligationQueue, by those above.       *)
LEMMA MappingIs ==
    /\ Obligations = QAbs(Q, tcubes) /\ Answer = AnsAbs(tcubes, cex)
    /\ Obligations' = QAbs(Q', tcubes') /\ Answer' = AnsAbs(tcubes', cex')
    /\ Abstract!Lowest = LowestOf(Obligations)
    /\ Abstract!Path = PathIn(Obligations)
    /\ Abstract!Removed = RemovedOf(Obligations)
    /\ \A q, x : Abstract!Push(q, x) = Pushed(q, x)
<1>1. \A a : PathOf(a) = PathOver(tcubes, a)
  BY DEF PathOf, PathOver, Alive
<1>2. ASSUME NEW a PROVE PathOf(a)' = PathOver(tcubes', a)
  BY DEF PathOf, PathOver, Alive
<1>3. Obligations = QAbs(Q, tcubes) /\ Answer = AnsAbs(tcubes, cex)
  BY <1>1 DEF Obligations, Answer, QAbs, AnsAbs
<1>4. Obligations' = QAbs(Q', tcubes')
  BY <1>2 DEF Obligations, QAbs
<1>5. Answer' = AnsAbs(tcubes', cex')
  BY <1>2 DEF Answer, AnsAbs
<1>6. Abstract!Lowest = LowestOf(Obligations)
  BY DEF Abstract!Lowest, LowestOf
<1>7. Abstract!Path = PathIn(Obligations)
  BY <1>6 DEF Abstract!Path, PathIn
<1>8. Abstract!Removed = RemovedOf(Obligations)
  BY <1>6 DEF Abstract!Removed, RemovedOf
<1>9. \A q, x : Abstract!Push(q, x) = Pushed(q, x)
  BY DEF Abstract!Push, Pushed
<1> QED BY <1>3, <1>4, <1>5, <1>6, <1>7, <1>8, <1>9

(* A queue with nothing on it is empty, whatever the store.                *)
LEMMA NothingShows ==
    ASSUME NEW v, NEW old, Filed(v, old), Waiting(v) = {}, NEW store, NEW t
    PROVE  DOMAIN QAbs(v, store) = {} /\ QAbs(v, t) = QAbs(v, store)
<1>1. Keys(v.heap) = {} /\ IsQueue(v, Addresses)
  BY WaitingIs DEF Filed
<1>2. PICK K : K = Keys(v.heap) /\ K = {}
  BY <1>1
<1>3. /\ QAbs(v, store) = [k \in K |-> PathsOf(store, Stack(v, k))]
      /\ QAbs(v, t) = [k \in K |-> PathsOf(t, Stack(v, k))]
  BY <1>1, <1>2, QAbsIs
<1>4. [k \in K |-> PathsOf(store, Stack(v, k))] = [k \in K |-> PathsOf(t, Stack(v, k))]
  BY <1>2
<1> QED BY <1>2, <1>3, <1>4

(* At first nothing waits.                                                 *)
LEMMA InitShows == Init => Abstract!Init
<1> SUFFICES ASSUME Init PROVE Abstract!Init
  OBVIOUS
<1>1. Q = EmptyVHeap /\ depth = 1 /\ cex = 0
  BY DEF Init
<1>2. Filed(Q, tcubes) /\ Waiting(Q) = {}
  BY <1>1, EmptyFiled
<1>3. DOMAIN QAbs(Q, tcubes) = {}
  BY <1>2, NothingShows
<1>4. Answer = <<>>
  BY <1>1 DEF Answer
<1> QED BY <1>1, <1>3, <1>4, MappingIs DEF Abstract!Init

(* Each action is one of ObligationQueue.                                  *)
LEMMA NewBadStarts == QInv /\ NewBad => Abstract!Start
<1> SUFFICES ASSUME QInv, NewBad PROVE Abstract!Start
  OBVIOUS
<1>1. /\ IsStore(tcubes) /\ Filed(Q, tcubes) /\ DOMAIN tcubes = {} /\ cex = 0 /\ depth \in 1 .. MaxDepth
      /\ cex' = cex
  BY DEF QInv, QInvOf, NewBad
<1>2. PICK cube \in Cubes :
         tcubes' = With(tcubes, New, [frame |-> depth', refs |-> 2, parent |-> 0, cube |-> cube])
  BY DEF NewBad
<1>3. PICK a, d : a = New /\ d = depth'
  OBVIOUS
<1>4. a \in Addresses
  <2>1. Alive = {}
    BY <1>1 DEF Alive
  <2>2. 1 \in Addresses
    BY TCubesAssumption DEF Addresses
  <2> QED BY <1>3, <2>1, <2>2, NewIs
<1>5. d \in 1 .. MaxDepth /\ d \in Nat /\ d >= depth
  <2>1. depth' \in depth .. MaxDepth
    BY DEF NewBad
  <2> QED BY <1>1, <1>3, <2>1, TCubesAssumption
<1>6. PICK t : t = tcubes' /\ t = With(tcubes, a, [frame |-> d, refs |-> 2, parent |-> 0, cube |-> cube])
  BY <1>2, <1>3
<1>7. PICK w : w = Q' /\ w = insert(Q, d, a)
  BY <1>3 DEF NewBad
<1>8. PICK q : q = QAbs(Q, tcubes)
  OBVIOUS
<1>9. DOMAIN q = {} /\ WithPath(QAbs(w, t), q, d, <<cube>>)
  BY <1>1, <1>4, <1>5, <1>6, <1>7, <1>8, NewBadShows
<1>10. /\ Obligations = q
       /\ Obligations' = Abstract!Push(Obligations, [frame |-> depth', path |-> <<cube>>])
  <2>1. Obligations = q /\ Obligations' = QAbs(w, t)
    BY <1>6, <1>7, <1>8, MappingIs
  <2>2. QAbs(w, t) = Pushed(q, [frame |-> d, path |-> <<cube>>])
    BY <1>9 DEF WithPath
  <2>3. PICK x : x = [frame |-> d, path |-> <<cube>>]
    OBVIOUS
  <2>4. Abstract!Push(q, x) = Pushed(q, x)
    BY MappingIs
  <2> QED BY <1>3, <2>1, <2>2, <2>3, <2>4
<1>11. Answer = <<>> /\ Answer' = Answer
  BY <1>1 DEF Answer
<1> QED BY <1>3, <1>5, <1>9, <1>10, <1>11 DEF Abstract!Start, Abstract!Empty

(* The path of the TCube that block_cube returns is the answer.            *)
LEMMA ReturnCexReports == QInv /\ ReturnCex => Abstract!Report
<1> SUFFICES ASSUME QInv, ReturnCex PROVE Abstract!Report
  OBVIOUS
<1>1. QInvOf("block", depth, tcubes, B, Q, 0) /\ cex = 0 /\ Waiting(Q) # {} /\ s = peekMin(Q) /\ s \in Alive
  BY BlockIs DEF ReturnCex
<1>2. Q' = removeMin(Q) /\ tcubes' = tcubes /\ cex' = s /\ depth' = depth
  BY DEF ReturnCex
<1>3. IsStore(tcubes) /\ Filed(Q, tcubes)
  BY <1>1 DEF QInvOf
<1>4. PICK q, w, x : q = QAbs(Q, tcubes) /\ w = removeMin(Q) /\ x = s
  OBVIOUS
<1>5. /\ DOMAIN q # {} /\ PathIn(q) = PathOver(tcubes, x) /\ RemovedOf(q) = QAbs(w, tcubes)
  BY <1>1, <1>3, <1>4, QAbsRemoved
<1>6. x # 0
  BY <1>1, <1>3, <1>4, StoreIs DEF Alive
<1>7. Obligations = q /\ Obligations' = RemovedOf(q)
  BY <1>2, <1>4, <1>5, MappingIs
<1>8. Answer = <<>> /\ Answer' = PathIn(q)
  <2>1. Answer = <<>>
    BY <1>1 DEF Answer
  <2>2. Answer' = AnsAbs(tcubes, x)
    BY <1>2, <1>4, MappingIs
  <2> QED BY <1>5, <1>6, <2>1, <2>2 DEF AnsAbs
<1> QED BY <1>2, <1>5, <1>7, <1>8, MappingIs DEF Abstract!Report, Abstract!Empty

(* The TCube that a predecessor was found of waits.                        *)
LEMMA PredecessorWaits == QInv /\ Predecessor => Abstract!Wait
<1> SUFFICES ASSUME QInv, Predecessor PROVE Abstract!Wait
  OBVIOUS
<1>1. QInvOf("block", depth, tcubes, B, Q, 0) /\ cex = 0 /\ pc = "block"
  BY BlockIs DEF Predecessor
<1>2. PICK a, x, cube, y, mid, z : PredecessorParts(a, x, cube, y, mid, z)
  BY PredecessorStep
<1>3. PICK t, w, q : t = tcubes' /\ w = Q' /\ q = QAbs(Q, tcubes)
  OBVIOUS
<1>4. /\ a \in Addresses /\ a \notin DOMAIN tcubes
      /\ x = peekMin(Q) /\ Waiting(Q) # {} /\ tcubes[x].frame > 0 /\ cube \in Cubes
      /\ y \in TCubeSet /\ y.refs = tcubes[x].refs + 1
      /\ y.frame = tcubes[x].frame /\ y.parent = tcubes[x].parent /\ y.cube = tcubes[x].cube
      /\ Changed(mid, tcubes, x, y)
      /\ z \in TCubeSet /\ z = [frame |-> tcubes[x].frame - 1, refs |-> 1, parent |-> x, cube |-> cube]
      /\ Added(t, mid, a, z)
      /\ w = insert(insert(removeMin(Q), tcubes[x].frame, x), tcubes[x].frame - 1, a)
  BY <1>2, <1>3 DEF PredecessorParts
<1>5. DOMAIN q # {} /\ LowestOf(q) > 0 /\ WithPath(QAbs(w, t), q, LowestOf(q) - 1, <<cube>> \o PathIn(q))
  BY <1>1, <1>3, <1>4, PredecessorShows
<1>6. /\ Obligations = q /\ Abstract!Lowest = LowestOf(q) /\ Abstract!Path = PathIn(q)
      /\ Obligations' = QAbs(w, t)
  BY <1>3, MappingIs
<1>7. Obligations' = Abstract!Push(q, [frame |-> LowestOf(q) - 1, path |-> <<cube>> \o PathIn(q)])
  <2>1. PICK o : o = [frame |-> LowestOf(q) - 1, path |-> <<cube>> \o PathIn(q)]
    OBVIOUS
  <2>2. Abstract!Push(q, o) = Pushed(q, o)
    BY MappingIs
  <2> QED BY <1>5, <1>6, <2>1, <2>2 DEF WithPath
<1>8. depth' = depth /\ Answer' = Answer
  <2>1. depth' = depth /\ cex' = 0
    BY <1>1 DEF Predecessor
  <2> QED BY <1>1, <2>1 DEF Answer
<1> QED BY <1>4, <1>5, <1>6, <1>7, <1>8 DEF Abstract!Wait, Abstract!Empty

(* A blocked TCube that is put off is postponed.                           *)
LEMMA QueueForwardPostpones == QInv /\ QueueForward => Abstract!Postpone
<1> SUFFICES ASSUME QInv, QueueForward PROVE Abstract!Postpone
  OBVIOUS
<1>1. QInvOf("block", depth, tcubes, B, Q, 0) /\ cex = 0 /\ pc = "block"
  BY BlockIs DEF QueueForward
<1>2. PICK x, f, y : ForwardParts(x, f, y)
  BY ForwardStep
<1>3. PICK t, w, q : t = tcubes' /\ w = Q' /\ q = QAbs(Q, tcubes)
  OBVIOUS
<1>4. /\ x = peekMin(Q) /\ Waiting(Q) # {} /\ f \in Nat /\ f \in tcubes[x].frame + 1 .. depth
      /\ y \in TCubeSet /\ y.refs = tcubes[x].refs
      /\ y.frame = f /\ y.parent = tcubes[x].parent /\ y.cube = tcubes[x].cube
      /\ Changed(t, tcubes, x, y)
      /\ w = insert(removeMin(Q), f, x)
  BY <1>2, <1>3 DEF ForwardParts
<1>5. DOMAIN q # {} /\ LowestOf(q) = tcubes[x].frame /\ WithPath(QAbs(w, t), RemovedOf(q), f, PathIn(q))
  BY <1>1, <1>3, <1>4, QueueForwardShows
<1>6. /\ Obligations = q /\ Abstract!Lowest = LowestOf(q) /\ Abstract!Path = PathIn(q)
      /\ Abstract!Removed = RemovedOf(q)
      /\ Obligations' = QAbs(w, t)
  BY <1>3, MappingIs
<1>7. Obligations' = Abstract!Push(RemovedOf(q), [frame |-> f, path |-> PathIn(q)])
  <2>1. PICK o, r : o = [frame |-> f, path |-> PathIn(q)] /\ r = RemovedOf(q)
    OBVIOUS
  <2>2. Abstract!Push(r, o) = Pushed(r, o)
    BY MappingIs
  <2> QED BY <1>5, <1>6, <2>1, <2>2 DEF WithPath
<1>8. depth' = depth /\ Answer' = Answer
  <2>1. depth' = depth /\ cex' = 0
    BY <1>1 DEF QueueForward
  <2> QED BY <1>1, <2>1 DEF Answer
<1>9. f \in LowestOf(q) + 1 .. depth
  BY <1>4, <1>5
<1> QED BY <1>5, <1>6, <1>7, <1>8, <1>9 DEF Abstract!Postpone, Abstract!Empty

(* One that is not is discarded, whatever was deleted with it.             *)
LEMMA DropDiscards == QInv /\ Drop => Abstract!Discard
<1> SUFFICES ASSUME QInv, Drop PROVE Abstract!Discard
  OBVIOUS
<1>1. QInvOf("block", depth, tcubes, B, Q, 0) /\ cex = 0 /\ Waiting(Q) # {}
  BY BlockIs DEF Drop
<1>2. IsStore(tcubes) /\ Filed(Q, tcubes)
  BY <1>1 DEF QInvOf
<1>3. Q' = removeMin(Q) /\ depth' = depth /\ cex' = 0
  BY <1>1 DEF Drop
<1>4. PICK q, w, t : q = QAbs(Q, tcubes) /\ w = Q' /\ t = tcubes'
  OBVIOUS
<1>5. Remains(t, tcubes, Waiting(w), B, 0)
  BY <1>4, QInvDrop
<1>6. w = removeMin(Q) /\ Filed(w, tcubes)
  BY <1>1, <1>2, <1>3, <1>4, FileRemoved
<1>7. DOMAIN q # {} /\ RemovedOf(q) = QAbs(w, tcubes)
  BY <1>1, <1>2, <1>4, <1>6, QAbsRemoved
<1>8. QAbs(w, t) = QAbs(w, tcubes)
  <2>1. IsStore(t) /\ Agree(tcubes, t) /\ Waiting(w) \subseteq DOMAIN t
    BY <1>5 DEF Remains, Agree
  <2>2. IsQueue(w, Addresses) /\ \A k : Stack(w, k) = Stack(w, k)
    BY <1>6 DEF Filed
  <2> QED BY <1>2, <1>6, <2>1, <2>2, QAbsSame
<1>9. Obligations = q /\ Obligations' = RemovedOf(q)
  BY <1>4, <1>7, <1>8, MappingIs
<1>10. Answer' = Answer
  BY <1>1, <1>3 DEF Answer
<1> QED BY <1>3, <1>7, <1>9, <1>10, MappingIs DEF Abstract!Discard, Abstract!Empty

(* The return of block_cube changes nothing that it shows.                 *)
LEMMA ReturnStutters == QInv /\ Return => UNCHANGED Abstract!vars
<1> SUFFICES ASSUME QInv, Return PROVE UNCHANGED Abstract!vars
  OBVIOUS
<1>1. QInvOf("block", depth, tcubes, B, Q, 0) /\ cex = 0 /\ Waiting(Q) = {}
  BY BlockIs DEF Return
<1>2. Filed(Q, tcubes)
  BY <1>1 DEF QInvOf
<1>3. Q' = Q /\ depth' = depth /\ cex' = 0
  BY <1>1 DEF Return
<1>4. PICK t : t = tcubes'
  OBVIOUS
<1>5. QAbs(Q, t) = QAbs(Q, tcubes)
  BY <1>1, <1>2, NothingShows
<1>6. Obligations' = Obligations
  BY <1>3, <1>4, <1>5, MappingIs
<1>7. Answer' = Answer
  BY <1>1, <1>3 DEF Answer
<1> QED BY <1>3, <1>6, <1>7 DEF Abstract!vars

(* The objects and the heap of the code are the queue that module IC3 is   *)
(* written over: the next obligation is one of the lowest frame, the last  *)
(* that was put there; none is lost, or changed but for its frame, and the *)
(* chain of parents of the TCube that block_cube returns is the path from  *)
(* it to the bad state (util/VHeap.h, ic3Types.h, block_cube).             *)
THEOREM QueueImplemented == Spec => ImplementsQueue
<1>1. QInv /\ [Next]_vars => [Abstract!Next]_(Abstract!vars)
  <2>1. QInv /\ UNCHANGED vars => UNCHANGED Abstract!vars
    <3> SUFFICES ASSUME QInv, UNCHANGED vars PROVE UNCHANGED Abstract!vars
      OBVIOUS
    <3>1. Q' = Q /\ tcubes' = tcubes /\ cex' = cex /\ depth' = depth
      BY DEF vars
    <3>2. Obligations' = Obligations /\ Answer' = Answer
      BY <3>1, MappingIs
    <3> QED BY <3>1, <3>2 DEF Abstract!vars
  <2> QED BY <2>1, NewBadStarts, ReturnCexReports, PredecessorWaits, QueueForwardPostpones, DropDiscards,
             ReturnStutters DEF Next, Abstract!Next
<1> QED BY <1>1, InitShows, QueueAndStore, PTL DEF Spec, ImplementsQueue, Abstract!Spec

=============================================================================

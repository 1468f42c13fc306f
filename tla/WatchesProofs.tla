---------------------------- MODULE WatchesProofs ----------------------------
(***************************************************************************)
(* Proofs about the watch lists, for any number of variables, any clauses  *)
(* and any length of the search: no clause is lost from its lists, and     *)
(* propagation misses nothing.                                             *)
(***************************************************************************)
EXTENDS Watches, NumberLemmas

-----------------------------------------------------------------------------
(* The inductive invariant.                                                *)

Once(seq, c) == \E k \in DOMAIN seq : \A j \in DOMAIN seq : seq[j].cref = c <=> j = k
Never(seq, c) == \A j \in DOMAIN seq : seq[j].cref # c

(* The list of l, the part that is being visited put back.                 *)
List(l) == IF l = cur THEN watches[l] \o todo ELSE watches[l]
Watched(c) == {-ca[c][1], -ca[c][2]}

(* The variables stay in the domains that the declarations in Solver.h and *)
(* SolverTypes.h give them, and a clause has no variable twice.            *)
WatchersType == [cref : Nat, blocker : Lits]
EntryType    == [lit : Lits, level : Nat, reason : Nat]
ClauseOK(c) == /\ Len(c) > 1
               /\ \A i, j \in DOMAIN c : i # j => Var(c[i]) # Var(c[j])
TypeOK ==
    /\ ca \in Seq(Seq(Lits))
    /\ \A c \in Live : ClauseOK(ca[c])
    /\ watches \in [Lits -> Seq(WatchersType)]
    /\ dirty \subseteq Lits
    /\ trail \in Seq(EntryType)
    /\ trail_lim \in Seq(Nat)
    /\ qhead \in 0 .. Len(trail)
    /\ cur \in Lits \cup {0}
    /\ todo \in Seq(WatchersType)
    /\ confl \in Nat
    /\ cancels \in Nat

(* The trail has each variable once, and its levels are the stretches      *)
(* between the decisions.                                                  *)
TrailOK ==
    /\ \A i, j \in DOMAIN trail : i # j => Var(trail[i].lit) # Var(trail[j].lit)
    /\ \A m \in DOMAIN trail_lim : trail_lim[m] <= Len(trail)
    /\ \A i \in DOMAIN trail :
          /\ trail[i].level <= decisionLevel
          /\ \A m \in DOMAIN trail_lim : trail[i].level >= m <=> i > trail_lim[m]

(* What is propagated is of the last level, and a conflict ends it.        *)
QueueOK ==
    /\ cur # 0 => \E i \in 1 .. qhead : trail[i].lit = cur /\ trail[i].level = decisionLevel
    /\ cur = 0 => todo = <<>>
    /\ confl = 0 => \A i \in qhead + 1 .. Len(trail) : trail[i].level = decisionLevel
    /\ confl # 0 => todo = <<>> /\ qhead = Len(trail)

(* A clause is once in the lists of its first two literals, and in no other. *)
ListsOK ==
    /\ \A l \in Lits : \A k \in DOMAIN List(l) :
          LET x == List(l)[k]
          IN  /\ x.cref \in DOMAIN ca
              /\ l \notin dirty => x.cref \in Live
              /\ x.cref \in Live => x.blocker \in ToSet(ca[x.cref])
    /\ cur \notin dirty
    /\ \A c \in Live, l \in Lits :
          /\ l \in Watched(c) => Once(List(l), c)
          /\ l \notin Watched(c) => Never(List(l), c)

(* Where a watched literal was found false, a literal of the clause has    *)
(* been true since no later a level.                                       *)
Pending(c, p) == trail[p].lit = cur /\ ~ Never(todo, c)
Rescued(c, p) == \E k \in DOMAIN trail : /\ trail[k].lit \in ToSet(ca[c])
                                        /\ trail[k].level <= trail[p].level
Due(c, p) == /\ trail[p].lit \in Watched(c)
             /\ ~ Pending(c, p)
             /\ confl # 0 => trail[p].level < decisionLevel
CoveredOK == \A c \in Live : \A p \in 1 .. qhead : Due(c, p) => Rescued(c, p)

WatchInv == TypeOK /\ TrailOK /\ QueueOK /\ ListsOK /\ CoveredOK

-----------------------------------------------------------------------------
(* Literals.                                                               *)

(* A literal and its negation are the two literals of a variable.          *)
LEMMA LitFacts ==
    /\ \A l \in Lits : l \in Int /\ l # 0 /\ -l \in Lits /\ -(-l) = l /\ -l # l
    /\ \A k, l \in Lits : Var(k) = Var(l) <=> k = l \/ k = -l
    /\ \A k, l \in Lits : -k = -l => k = l
    /\ 0 \notin Lits
<1>1. Vars \subseteq Nat \ {0}
  BY WatchesAssumption DEF Vars
<1>2. ASSUME NEW l \in Lits PROVE l \in Int /\ l # 0 /\ -l \in Lits /\ -(-l) = l /\ -l # l
  <2>1. CASE l \in Vars
    BY <1>1, <2>1 DEF Lits
  <2>2. CASE l \in {-v : v \in Vars}
    <3>1. PICK v \in Vars : l = -v
      BY <2>2
    <3>2. -l = v
      BY <1>1, <3>1
    <3> QED BY <1>1, <3>1, <3>2 DEF Lits
  <2> QED BY <2>1, <2>2 DEF Lits
<1>3. ASSUME NEW k \in Lits, NEW l \in Lits PROVE Var(k) = Var(l) <=> k = l \/ k = -l
  BY <1>2 DEF Var
<1> QED BY <1>2, <1>3

-----------------------------------------------------------------------------
(* Sequences of watchers.                                                  *)

(* What is appended changes nothing for other clauses, and is the one      *)
(* watcher of a clause that had none.                                      *)
LEMMA Appending ==
    ASSUME NEW seq \in Seq(WatchersType), NEW x \in WatchersType, NEW c \in Nat
    PROVE  /\ x.cref # c /\ Once(seq, c)  => Once(Append(seq, x), c)
           /\ x.cref # c /\ Never(seq, c) => Never(Append(seq, x), c)
           /\ x.cref = c /\ Never(seq, c) => Once(Append(seq, x), c)
<1> DEFINE new == Append(seq, x)
<1>1. /\ new \in Seq(WatchersType) /\ Len(new) = Len(seq) + 1
      /\ DOMAIN new = 1 .. Len(seq) + 1 /\ DOMAIN seq = 1 .. Len(seq)
      /\ Len(seq) \in Nat
      /\ \A k \in 1 .. Len(seq) : new[k] = seq[k]
      /\ new[Len(seq) + 1] = x
  OBVIOUS
<1> HIDE DEF new
<1>2. ASSUME x.cref # c, Once(seq, c) PROVE Once(new, c)
  <2>1. PICK k \in DOMAIN seq : \A j \in DOMAIN seq : seq[j].cref = c <=> j = k
    BY <1>2 DEF Once
  <2>2. \A j \in DOMAIN new : new[j].cref = c <=> j = k
    BY <1>1, <1>2, <2>1
  <2> QED BY <1>1, <2>1, <2>2 DEF Once
<1>3. x.cref # c /\ Never(seq, c) => Never(new, c)
  BY <1>1 DEF Never
<1>4. ASSUME x.cref = c, Never(seq, c) PROVE Once(new, c)
  <2>1. ASSUME NEW j \in DOMAIN new PROVE new[j].cref = c <=> j = Len(seq) + 1
    <3>1. CASE j = Len(seq) + 1
      BY <1>1, <1>4, <3>1
    <3>2. CASE j \in DOMAIN seq
      <4>1. j # Len(seq) + 1
        BY <1>1, <3>2
      <4> QED BY <1>1, <1>4, <3>2, <4>1 DEF Never
    <3> QED BY <1>1, <3>1, <3>2
  <2>2. Len(seq) + 1 \in DOMAIN new
    BY <1>1
  <2> QED BY <2>1, <2>2 DEF Once
<1> QED BY <1>2, <1>3, <1>4 DEF new

(* Blockers do not matter to where a clause is.                            *)
LEMMA SameClauses ==
    ASSUME NEW seq \in Seq(WatchersType), NEW new \in Seq(WatchersType), Len(seq) = Len(new),
           \A k \in 1 .. Len(seq) : seq[k].cref = new[k].cref, NEW c \in Nat
    PROVE  /\ Once(seq, c) => Once(new, c)
           /\ Never(seq, c) => Never(new, c)
<1>1. /\ DOMAIN seq = 1 .. Len(seq) /\ DOMAIN new = 1 .. Len(seq)
      /\ \A k \in DOMAIN seq : seq[k].cref = new[k].cref
  OBVIOUS
<1>2. \A k \in DOMAIN new : new[k].cref = c <=> seq[k].cref = c
  BY <1>1
<1>3. DOMAIN seq = DOMAIN new
  BY <1>1
<1>4. Never(seq, c) => Never(new, c)
  BY <1>2, <1>3 DEF Never
<1>5. ASSUME Once(seq, c) PROVE Once(new, c)
  <2>1. PICK k \in DOMAIN seq : \A j \in DOMAIN seq : seq[j].cref = c <=> j = k
    BY <1>5 DEF Once
  <2>2. \A j \in DOMAIN new : new[j].cref = c <=> j = k
    BY <1>2, <1>3, <2>1
  <2> QED BY <1>3, <2>1, <2>2 DEF Once
<1> QED BY <1>4, <1>5

(* A list that loses one watcher has its clause no more, and has the       *)
(* others as before.                                                       *)
LEMMA Removing ==
    ASSUME NEW kept \in Seq(WatchersType), NEW left \in Seq(WatchersType), left # <<>>, NEW c \in Nat
    PROVE  /\ Head(left).cref = c /\ Once(kept \o left, c) => Never(kept \o Tail(left), c)
           /\ Head(left).cref # c /\ Once(kept \o left, c) => Once(kept \o Tail(left), c)
           /\ Never(kept \o left, c) => Never(kept \o Tail(left), c)
<1> DEFINE old == kept \o left
           new == kept \o Tail(left)
           n   == Len(kept)
<1>1. /\ n \in Nat /\ Len(left) \in Nat \ {0}
      /\ DOMAIN old = 1 .. n + Len(left) /\ DOMAIN new = 1 .. n + Len(left) - 1
      /\ \A k \in 1 .. n : old[k] = kept[k] /\ new[k] = kept[k]
      /\ old[n + 1] = Head(left)
      /\ \A k \in n + 1 .. n + Len(left) - 1 : new[k] = old[k + 1]
  <2>1. Tail(left) \in Seq(WatchersType) /\ Len(Tail(left)) = Len(left) - 1 /\ Len(left) \in Nat \ {0}
    OBVIOUS
  <2>2. \A k \in 1 .. Len(left) - 1 : Tail(left)[k] = left[k + 1]
    OBVIOUS
  <2>3. \A k \in n + 1 .. n + Len(left) - 1 : new[k] = Tail(left)[k - n] /\ old[k + 1] = left[k + 1 - n]
    BY <2>1
  <2>4. \A k \in n + 1 .. n + Len(left) - 1 : new[k] = old[k + 1]
    BY <2>1, <2>2, <2>3
  <2>5. DOMAIN old = 1 .. n + Len(left) /\ DOMAIN new = 1 .. n + Len(left) - 1
    BY <2>1
  <2>6. old[n + 1] = Head(left)
    BY <2>1
  <2>7. \A k \in 1 .. n : old[k] = kept[k] /\ new[k] = kept[k]
    BY <2>1
  <2> QED BY <2>1, <2>4, <2>5, <2>6, <2>7
<1> HIDE DEF old, new, n
<1> DEFINE at(j) == IF j <= n THEN j ELSE j + 1
<1>5. ASSUME NEW j \in DOMAIN new
      PROVE  j \in Nat /\ at(j) \in Nat /\ at(j) \in DOMAIN old /\ at(j) # n + 1 /\ new[j] = old[at(j)]
  <2>1. CASE j <= n
    BY <1>1, <2>1
  <2>2. CASE j > n
    <3>1. j \in n + 1 .. n + Len(left) - 1
      BY <1>1, <2>2
    <3> QED BY <1>1, <2>2, <3>1
  <2> QED BY <1>1, <2>1, <2>2
<1>6. \A i, j \in DOMAIN new : at(i) = at(j) => i = j
  BY <1>1, <1>5
<1>7. ASSUME NEW k \in DOMAIN old, k # n + 1 PROVE \E j \in DOMAIN new : at(j) = k
  <2>1. CASE k <= n
    <3>1. k \in DOMAIN new /\ at(k) = k
      BY <1>1, <2>1
    <3> HIDE DEF at
    <3> QED BY <3>1
  <2>2. CASE k > n
    <3>1. k - 1 \in DOMAIN new /\ at(k - 1) = k
      BY <1>1, <1>7, <2>2
    <3> HIDE DEF at
    <3> QED BY <3>1
  <2> QED BY <1>1, <2>1, <2>2
<1>8. n + 1 \in DOMAIN old /\ old[n + 1] = Head(left)
  BY <1>1
<1> HIDE DEF at
<1>2. Never(old, c) => Never(new, c)
  BY <1>5 DEF Never
<1>3. ASSUME Head(left).cref = c, Once(old, c) PROVE Never(new, c)
  <2>1. \A j \in DOMAIN old : old[j].cref = c <=> j = n + 1
    BY <1>3, <1>8 DEF Once
  <2> QED BY <1>5, <2>1 DEF Never
<1>4. ASSUME Head(left).cref # c, Once(old, c) PROVE Once(new, c)
  <2>1. PICK k \in DOMAIN old : \A j \in DOMAIN old : old[j].cref = c <=> j = k
    BY <1>4 DEF Once
  <2>2. k # n + 1
    BY <1>4, <1>8, <2>1
  <2>3. PICK i \in DOMAIN new : at(i) = k
    BY <1>7, <2>2
  <2>4. \A j \in DOMAIN new : new[j].cref = c <=> j = i
    BY <1>5, <1>6, <2>1, <2>3
  <2> QED BY <2>4 DEF Once
<1> QED BY <1>2, <1>3, <1>4 DEF old, new

(* A list where one watcher is put in place of another.                    *)
LEMMA Replacing ==
    ASSUME NEW kept \in Seq(WatchersType), NEW left \in Seq(WatchersType), left # <<>>,
           NEW x \in WatchersType
    PROVE  LET old == kept \o left
               new == Append(kept, x) \o Tail(left)
               n   == Len(kept)
           IN  /\ old \in Seq(WatchersType) /\ new \in Seq(WatchersType) /\ Len(old) = Len(new)
               /\ n + 1 \in DOMAIN old /\ old[n + 1] = Head(left)
               /\ \A k \in DOMAIN new : \/ k = n + 1 /\ new[k] = x
                                        \/ k \in DOMAIN old /\ new[k] = old[k]
<1> DEFINE old  == kept \o left
           more == Append(kept, x)
           rest == Tail(left)
           new  == more \o rest
           n    == Len(kept)
           m    == Len(left)
<1>1. /\ n \in Nat /\ m \in Nat \ {0}
      /\ old \in Seq(WatchersType) /\ Len(old) = n + m /\ DOMAIN old = 1 .. n + m
      /\ \A k \in 1 .. n : old[k] = kept[k]
      /\ \A k \in n + 1 .. n + m : old[k] = left[k - n]
  OBVIOUS
<1>2. /\ more \in Seq(WatchersType) /\ Len(more) = n + 1 /\ more[n + 1] = x
      /\ \A k \in 1 .. n : more[k] = kept[k]
  OBVIOUS
<1>3. /\ rest \in Seq(WatchersType) /\ Len(rest) = m - 1
      /\ \A k \in 1 .. m - 1 : rest[k] = left[k + 1]
  OBVIOUS
<1> HIDE DEF old, more, rest, n, m
<1>4. /\ new \in Seq(WatchersType) /\ Len(new) = n + m
      /\ \A k \in 1 .. n + 1 : new[k] = more[k]
      /\ \A k \in n + 2 .. n + m : new[k] = rest[k - (n + 1)]
  <2>6. more \in Seq(WatchersType) /\ rest \in Seq(WatchersType)
    BY <1>2, <1>3
  <2>1. new \in Seq(WatchersType) /\ Len(new) = Len(more) + Len(rest) /\ Len(rest) \in Nat
    BY <2>6
  <2>2. Len(new) = n + m
    BY <1>1, <1>2, <1>3, <2>1
  <2>3. \A k \in 1 .. Len(more) : new[k] = more[k]
    BY <2>6
  <2>4. \A k \in Len(more) + 1 .. Len(more) + Len(rest) : new[k] = rest[k - Len(more)]
    BY <2>6
  <2>5. \A k \in n + 2 .. n + m : /\ k \in Len(more) + 1 .. Len(more) + Len(rest)
                                  /\ k - Len(more) = k - (n + 1)
    BY <1>1, <1>2, <1>3
  <2> HIDE DEF new
  <2> QED BY <1>2, <2>1, <2>2, <2>3, <2>4, <2>5
<1>5. DOMAIN new = 1 .. n + m
  BY <1>4
<1> HIDE DEF new
<1>6. ASSUME NEW k \in 1 .. n + m
      PROVE  \/ k = n + 1 /\ new[k] = x
             \/ k \in DOMAIN old /\ new[k] = old[k]
  <2>1. CASE k <= n
    <3>1. k \in 1 .. n /\ k \in 1 .. n + 1
      BY <1>1, <2>1
    <3>2. new[k] = kept[k] /\ old[k] = kept[k]
      BY <1>1, <1>2, <1>4, <3>1
    <3> QED BY <1>1, <3>2
  <2>2. CASE k = n + 1
    <3>1. k \in 1 .. n + 1
      BY <1>1, <2>2
    <3> QED BY <1>2, <1>4, <2>2, <3>1
  <2>3. CASE k > n + 1
    <3>1. k \in n + 2 .. n + m /\ k \in n + 1 .. n + m
      BY <1>1, <2>3
    <3>2. k - (n + 1) \in 1 .. m - 1 /\ k - (n + 1) + 1 = k - n
      BY <1>1, <3>1
    <3>3. rest[k - (n + 1)] = left[k - n]
      BY <1>3, <3>2
    <3>4. new[k] = left[k - n] /\ old[k] = left[k - n]
      BY <1>1, <1>4, <3>1, <3>3
    <3> QED BY <1>1, <3>4
  <2> QED BY <1>1, <2>1, <2>2, <2>3
<1>7. n + 1 \in DOMAIN old /\ old[n + 1] = Head(left)
  <2>1. n + 1 \in n + 1 .. n + m /\ n + 1 \in 1 .. n + m /\ n + 1 - n = 1 /\ Head(left) = left[1]
    BY <1>1
  <2>2. old[n + 1] = left[n + 1 - n]
    BY <1>1, <2>1
  <2> QED BY <1>1, <2>1, <2>2
<1>8. /\ old \in Seq(WatchersType) /\ new \in Seq(WatchersType) /\ Len(old) = Len(new)
      /\ \A k \in DOMAIN new : \/ k = n + 1 /\ new[k] = x
                               \/ k \in DOMAIN old /\ new[k] = old[k]
  BY <1>1, <1>4, <1>5, <1>6
<1> QED BY <1>7, <1>8 DEF old, new, n, more, rest

(* Cleaning keeps the watchers of the clauses that are still there.        *)
LEMMA CleanedIs ==
    ASSUME NEW seq \in Seq(WatchersType), Live \subseteq Nat
    PROVE  /\ Cleaned(seq) \in Seq(WatchersType)
           /\ \A k \in DOMAIN Cleaned(seq) :
                 /\ Cleaned(seq)[k].cref \in Live
                 /\ \E j \in DOMAIN seq : Cleaned(seq)[k] = seq[j]
           /\ \A c \in Live : /\ Once(seq, c) => Once(Cleaned(seq), c)
                              /\ Never(seq, c) => Never(Cleaned(seq), c)
<1> DEFINE n == Len(seq)
           Eq(f) == [k \in 0 .. n |-> IF k = 0 THEN <<>>
                                      ELSE IF seq[k].cref \in Live THEN Append(f[k-1], seq[k])
                                           ELSE f[k-1]]
           step == [y \in Seq(WatchersType) \X (1 .. n) |->
                      IF seq[y[2]].cref \in Live THEN Append(y[1], seq[y[2]]) ELSE y[1]]
           kept == CHOOSE h : h = Eq(h)
<1>1. n \in Nat /\ DOMAIN seq = 1 .. n /\ \A k \in 1 .. n : seq[k] \in WatchersType
  OBVIOUS
<1>2. kept = Eq(kept)
  <2>1. step \in [Seq(WatchersType) \X (1 .. n) -> Seq(WatchersType)]
    <3>1. ASSUME NEW y \in Seq(WatchersType) \X (1 .. n)
          PROVE  (IF seq[y[2]].cref \in Live THEN Append(y[1], seq[y[2]]) ELSE y[1])
                    \in Seq(WatchersType)
      <4>1. y[1] \in Seq(WatchersType) /\ seq[y[2]] \in WatchersType
        BY <1>1
      <4> QED BY <4>1
    <3> QED BY <3>1
  <2>2. PICK g \in [0 .. n -> Seq(WatchersType)] :
          g[0] = <<>> /\ \A k \in 1 .. n : g[k] = step[<<g[k-1], k>>]
    <3>1. <<>> \in Seq(WatchersType) /\ n \in Nat
      OBVIOUS
    <3>2. \E g : IsRecursive(g, Seq(WatchersType), <<>>, n, step)
      <4> HIDE DEF step, n
      <4> QED BY <2>1, <3>1, Recursion
    <3> HIDE DEF step, n
    <3> QED BY <3>2 DEF IsRecursive
  <2>3. ASSUME NEW k \in 1 .. n
        PROVE  g[k] = IF seq[k].cref \in Live THEN Append(g[k-1], seq[k]) ELSE g[k-1]
    <3>1. g[k-1] \in Seq(WatchersType)
      BY <1>1, <2>2
    <3>2. step[<<g[k-1], k>>] = IF seq[k].cref \in Live THEN Append(g[k-1], seq[k]) ELSE g[k-1]
      BY <3>1
    <3> QED BY <2>2, <3>2
  <2>4. g = Eq(g)
    <3>1. \A k \in 0 .. n : k = 0 \/ k \in 1 .. n
      BY <1>1
    <3> HIDE DEF n
    <3> QED BY <2>2, <2>3, <3>1
  <2> HIDE DEF Eq
  <2> QED BY <2>4
<1>3. Cleaned(seq) = kept[n]
  BY DEF Cleaned
<1>4. /\ kept[0] = <<>>
      /\ \A m \in 0 .. n - 1 :
            kept[m+1] = IF seq[m+1].cref \in Live THEN Append(kept[m], seq[m+1]) ELSE kept[m]
  <2>1. 0 \in 0 .. n /\ \A m \in 0 .. n - 1 : m + 1 \in 0 .. n /\ m + 1 # 0 /\ m + 1 - 1 = m
    BY <1>1
  <2>2. kept[0] = <<>>
    BY <1>2, <2>1
  <2>3. ASSUME NEW m \in 0 .. n - 1
        PROVE  kept[m+1] = IF seq[m+1].cref \in Live THEN Append(kept[m], seq[m+1]) ELSE kept[m]
    <3>1. kept[m+1] = Eq(kept)[m+1]
      BY <1>2
    <3> HIDE DEF kept
    <3> QED BY <2>1, <3>1
  <2> QED BY <2>2, <2>3
<1> DEFINE None(m, c) == \A j \in 1 .. m : seq[j].cref # c
           One(m, c) == \E k \in 1 .. m : \A j \in 1 .. m : seq[j].cref = c <=> j = k
           Good(m) == /\ kept[m] \in Seq(WatchersType)
                      /\ \A k \in DOMAIN kept[m] : /\ kept[m][k].cref \in Live
                                                   /\ \E j \in 1 .. m : kept[m][k] = seq[j]
                      /\ \A c \in Live : /\ None(m, c) => Never(kept[m], c)
                                         /\ One(m, c) => Once(kept[m], c)
<1> HIDE DEF kept, Eq, step
<1>5. Good(0)
  BY <1>4 DEF Never
<1>6. ASSUME NEW m \in 0 .. n - 1, Good(m) PROVE Good(m + 1)
  <2> DEFINE x == seq[m+1]
             old == kept[m]
  <2>1. x \in WatchersType /\ m \in Nat /\ m + 1 \in 1 .. n
    BY <1>1
  <2>2. ASSUME NEW c \in Live
        PROVE  /\ None(m + 1, c) => x.cref # c /\ Never(old, c)
               /\ One(m + 1, c) => \/ x.cref # c /\ Once(old, c)
                                   \/ x.cref = c /\ Never(old, c)
    <3>1. \A j \in 1 .. m : j \in 1 .. m + 1 /\ j # m + 1
      BY <2>1
    <3>2. m + 1 \in 1 .. m + 1 /\ \A j \in 1 .. m + 1 : j = m + 1 \/ j \in 1 .. m
      BY <2>1
    <3>3. None(m + 1, c) => x.cref # c /\ None(m, c)
      BY <3>1, <3>2
    <3>4. ASSUME One(m + 1, c)
          PROVE  \/ x.cref # c /\ One(m, c)
                 \/ x.cref = c /\ None(m, c)
      <4>1. PICK k \in 1 .. m + 1 : \A j \in 1 .. m + 1 : seq[j].cref = c <=> j = k
        BY <3>4
      <4>2. CASE k = m + 1
        BY <3>1, <3>2, <4>1, <4>2
      <4>3. CASE k \in 1 .. m
        <5>1. x.cref # c
          BY <3>1, <3>2, <4>1, <4>3
        <5> QED BY <3>1, <4>1, <4>3, <5>1
      <4> QED BY <3>2, <4>2, <4>3
    <3> HIDE DEF None, One
    <3> QED BY <1>6, <3>3, <3>4
  <2>3. CASE x.cref \in Live
    <3> DEFINE new == Append(old, x)
    <3>1. kept[m+1] = new
      BY <1>4, <2>3
    <3>2. new \in Seq(WatchersType)
      BY <1>6, <2>1
    <3>3. ASSUME NEW k \in DOMAIN new
          PROVE  new[k].cref \in Live /\ \E j \in 1 .. m + 1 : new[k] = seq[j]
      <4>1. \/ k \in DOMAIN old /\ new[k] = old[k]
            \/ new[k] = x
        BY <1>6, <2>1
      <4>2. CASE new[k] = x
        <5>1. m + 1 \in 1 .. m + 1
          BY <2>1
        <5> QED BY <2>3, <4>2, <5>1
      <4>3. CASE k \in DOMAIN old /\ new[k] = old[k]
        <5>1. PICK j \in 1 .. m : old[k] = seq[j]
          BY <1>6, <4>3
        <5>2. j \in 1 .. m + 1
          BY <2>1
        <5> HIDE DEF new, old
        <5> QED BY <1>6, <4>3, <5>1, <5>2 DEF old
      <4> QED BY <4>1, <4>2, <4>3
    <3>4. ASSUME NEW c \in Live
          PROVE  (None(m + 1, c) => Never(new, c)) /\ (One(m + 1, c) => Once(new, c))
      <4>1. old \in Seq(WatchersType) /\ c \in Nat
        BY <1>6
      <4> HIDE DEF None, One, old, x
      <4> QED BY <2>1, <2>2, <4>1, Appending
    <3> HIDE DEF new, None, One
    <3> QED BY <3>1, <3>2, <3>3, <3>4
  <2>4. CASE x.cref \notin Live
    <3>1. kept[m+1] = old
      BY <1>4, <2>4
    <3>2. \A k \in DOMAIN old : old[k].cref \in Live /\ \E j \in 1 .. m + 1 : old[k] = seq[j]
      <4>1. \A j \in 1 .. m : j \in 1 .. m + 1
        BY <2>1
      <4> QED BY <1>6, <4>1
    <3>3. \A c \in Live : (None(m + 1, c) => Never(old, c)) /\ (One(m + 1, c) => Once(old, c))
      <4> HIDE DEF None, One, old, x
      <4> QED BY <2>2, <2>4
    <3> HIDE DEF None, One
    <3> QED BY <1>6, <3>1, <3>2, <3>3
  <2> QED BY <2>3, <2>4
<1>7. Good(n)
  <2> DEFINE T == {m \in 0 .. n : Good(m)}
  <2> HIDE DEF Good
  <2>1. 0 \in T /\ \A m \in 0 .. n - 1 : m \in T => m + 1 \in T
    BY <1>1, <1>5, <1>6
  <2>2. 0 .. n \subseteq T
    <3> HIDE DEF T, n
    <3> QED BY <1>1, <2>1, Climb
  <2>3. n \in 0 .. n
    BY <1>1
  <2> QED BY <2>2, <2>3
<1>8. \A c : (Never(seq, c) <=> None(n, c)) /\ (Once(seq, c) <=> One(n, c))
  BY <1>1 DEF Never, Once
<1> HIDE DEF None, One
<1> QED BY <1>1, <1>3, <1>7, <1>8

(* g is f with a watcher of the clause c, of reference new, in the lists   *)
(* of the negations of its first two literals.                             *)
HasAttached(g, f, new, c) ==
    /\ g \in [Lits -> Seq(WatchersType)]
    /\ \A l \in Lits : \A k \in DOMAIN g[l] :
          \/ k \in DOMAIN f[l] /\ g[l][k] = f[l][k]
          \/ g[l][k].cref = new /\ g[l][k].blocker \in ToSet(c)
    /\ \A l \in Lits, d \in Nat :
          d # new => /\ Once(f[l], d) => Once(g[l], d)
                     /\ Never(f[l], d) => Never(g[l], d)
    /\ \A l \in Lits :
          Never(f[l], new) => /\ l \in {-c[1], -c[2]} => Once(g[l], new)
                              /\ l \notin {-c[1], -c[2]} => Never(g[l], new)

(* Attaching a clause does this.                                           *)
LEMMA AttachedIs ==
    ASSUME NEW f \in [Lits -> Seq(WatchersType)], NEW new \in Nat, NEW c \in Seq(Lits),
           Len(c) > 1, c[1] # c[2],
           NEW g, g = Attached(f, new, c)
    PROVE  HasAttached(g, f, new, c)
<1> DEFINE one == -c[1]
           two == -c[2]
<1>1. 1 \in DOMAIN c /\ 2 \in DOMAIN c /\ c[1] \in Lits /\ c[2] \in Lits
  OBVIOUS
<1>2. one \in Lits /\ two \in Lits /\ one # two
  BY <1>1, LitFacts
<1>3. Watcher(new, c[1]) \in WatchersType /\ Watcher(new, c[2]) \in WatchersType
  BY <1>1 DEF Watcher, WatchersType
<1>4. g \in [Lits -> Seq(WatchersType)]
  <2> DEFINE S == Seq(WatchersType)
  <2>1. Append(f[one], Watcher(new, c[2])) \in S /\ Append(f[two], Watcher(new, c[1])) \in S
    BY <1>2, <1>3
  <2>2. g = [f EXCEPT ![one] = Append(f[one], Watcher(new, c[2])),
                      ![two] = Append(f[two], Watcher(new, c[1]))]
    BY <1>2 DEF Attached
  <2> DEFINE value(l) == IF l = one THEN Append(f[one], Watcher(new, c[2]))
                         ELSE IF l = two THEN Append(f[two], Watcher(new, c[1])) ELSE f[l]
  <2>3. \A l \in Lits : value(l) \in S
    BY <2>1
  <2>4. g = [l \in Lits |-> value(l)]
    BY <1>2, <2>2
  <2> HIDE DEF S, value
  <2> QED BY <2>3, <2>4 DEF S
<1>5. \A l \in Lits : \/ /\ l \in {one, two}
                         /\ \E x \in {Watcher(new, c[1]), Watcher(new, c[2])} : g[l] = Append(f[l], x)
                      \/ l \notin {one, two} /\ g[l] = f[l]
  BY <1>2, <1>3 DEF Attached
<1>6. \A x \in {Watcher(new, c[1]), Watcher(new, c[2])} :
         x \in WatchersType /\ x.cref = new /\ x.blocker \in ToSet(c)
  BY <1>1, <1>3 DEF Watcher, ToSet
<1> HIDE DEF one, two
<1>7. ASSUME NEW l \in Lits, NEW k \in DOMAIN g[l]
      PROVE  \/ k \in DOMAIN f[l] /\ g[l][k] = f[l][k]
             \/ g[l][k].cref = new /\ g[l][k].blocker \in ToSet(c)
  <2>1. CASE g[l] = f[l]
    BY <2>1
  <2>2. CASE \E x \in {Watcher(new, c[1]), Watcher(new, c[2])} : g[l] = Append(f[l], x)
    <3>1. PICK x \in {Watcher(new, c[1]), Watcher(new, c[2])} : g[l] = Append(f[l], x)
      BY <2>2
    <3>2. x \in WatchersType /\ f[l] \in Seq(WatchersType)
      BY <1>6
    <3>3. \/ k \in DOMAIN f[l] /\ g[l][k] = f[l][k]
          \/ g[l][k] = x
      BY <3>1, <3>2
    <3> QED BY <1>6, <3>3
  <2> QED BY <1>5, <2>1, <2>2
<1>8. ASSUME NEW l \in Lits, NEW d \in Nat, d # new
      PROVE  /\ Once(f[l], d) => Once(g[l], d)
             /\ Never(f[l], d) => Never(g[l], d)
  <2>1. f[l] \in Seq(WatchersType)
    OBVIOUS
  <2>2. CASE g[l] = f[l]
    BY <2>2
  <2>3. CASE \E x \in {Watcher(new, c[1]), Watcher(new, c[2])} : g[l] = Append(f[l], x)
    <3>1. PICK x \in {Watcher(new, c[1]), Watcher(new, c[2])} : g[l] = Append(f[l], x)
      BY <2>3
    <3>2. x \in WatchersType /\ x.cref # d
      BY <1>6, <1>8
    <3>3. /\ Once(f[l], d) => Once(Append(f[l], x), d)
          /\ Never(f[l], d) => Never(Append(f[l], x), d)
      BY <2>1, <3>2, Appending
    <3> QED BY <3>1, <3>3
  <2> QED BY <1>5, <2>2, <2>3
<1>9. ASSUME NEW l \in Lits, Never(f[l], new)
      PROVE  /\ l \in {one, two} => Once(g[l], new)
             /\ l \notin {one, two} => Never(g[l], new)
  <2>1. CASE l \in {one, two}
    <3>1. PICK x \in {Watcher(new, c[1]), Watcher(new, c[2])} : g[l] = Append(f[l], x)
      BY <1>5, <2>1
    <3>2. x \in WatchersType /\ x.cref = new /\ f[l] \in Seq(WatchersType)
      BY <1>6
    <3>3. Once(Append(f[l], x), new)
      BY <1>9, <3>2, Appending
    <3> QED BY <2>1, <3>1, <3>3
  <2>2. CASE l \notin {one, two}
    BY <1>5, <1>9, <2>2
  <2> QED BY <2>1, <2>2
<1> QED BY <1>4, <1>7, <1>8, <1>9 DEF one, two, HasAttached

-----------------------------------------------------------------------------
(* The first state.                                                        *)

(* The lists that the constructor of the problem has built.                *)
LEMMA ListsInit ==
    ASSUME Init
    PROVE  /\ Live = DOMAIN ca
           /\ watches \in [Lits -> Seq(WatchersType)]
           /\ \A l \in Lits : \A k \in DOMAIN watches[l] :
                 /\ watches[l][k].cref \in DOMAIN ca
                 /\ watches[l][k].blocker \in ToSet(ca[watches[l][k].cref])
           /\ \A c \in DOMAIN ca, l \in Lits : /\ l \in Watched(c) => Once(watches[l], c)
                                               /\ l \notin Watched(c) => Never(watches[l], c)
<1> DEFINE n == Len(ca)
           L == [Lits -> Seq(WatchersType)]
           none == [l \in Lits |-> <<>>]
           Eq(f) == [k \in 0 .. n |-> IF k = 0 THEN none ELSE Attached(f[k-1], k, ca[k])]
           step == [y \in L \X (1 .. n) |-> Attached(y[1], y[2], ca[y[2]])]
           lists == CHOOSE h : h = Eq(h)
<1>1. /\ n \in Nat /\ DOMAIN ca = 1 .. n
      /\ \A k \in 1 .. n : ca[k] \in Seq(Lits) /\ Len(ca[k]) > 1 /\ ca[k][1] # ca[k][2]
  <2>1. ca \in Seq(Seq(Lits))
    BY WatchesAssumption DEF Init
  <2>2. ASSUME NEW k \in 1 .. n PROVE ca[k] \in Seq(Lits) /\ Len(ca[k]) > 1 /\ ca[k][1] # ca[k][2]
    <3>1. k \in DOMAIN ca /\ ca[k] \in Seq(Lits)
      BY <2>1
    <3>2. Len(ca[k]) > 1 /\ \A i, j \in DOMAIN ca[k] : i # j => Var(ca[k][i]) # Var(ca[k][j])
      BY <3>1, WatchesAssumption DEF Init
    <3>3. 1 \in DOMAIN ca[k] /\ 2 \in DOMAIN ca[k]
      BY <3>1, <3>2
    <3>4. Var(ca[k][1]) # Var(ca[k][2])
      BY <3>2, <3>3
    <3> QED BY <3>1, <3>2, <3>4
  <2> QED BY <2>1, <2>2
<1>2. none \in L
  OBVIOUS
<1>3. ASSUME NEW f \in L, NEW k \in 1 .. n PROVE Attached(f, k, ca[k]) \in L
  <2>1. k \in Nat
    BY <1>1
  <2> DEFINE g == Attached(f, k, ca[k])
  <2>2. HasAttached(g, f, k, ca[k])
    <3> HIDE DEF n
    <3> QED BY <1>1, <2>1, AttachedIs
  <2> HIDE DEF g
  <2>3. g \in L
    BY <2>2 DEF HasAttached
  <2> QED BY <2>3 DEF g
<1>4. step \in [L \X (1 .. n) -> L]
  <2> HIDE DEF L, n
  <2> QED BY <1>3
<1>5. lists = Eq(lists)
  <2>1. \E g : IsRecursive(g, L, none, n, step)
    <3> HIDE DEF L, n, none, step
    <3> QED BY <1>1, <1>2, <1>4, Recursion
  <2>2. PICK g \in [0 .. n -> L] : g[0] = none /\ \A k \in 1 .. n : g[k] = step[<<g[k-1], k>>]
    <3> HIDE DEF L, n, none, step
    <3> QED BY <2>1 DEF IsRecursive
  <2>3. ASSUME NEW k \in 1 .. n PROVE g[k] = Attached(g[k-1], k, ca[k])
    <3>1. g[k-1] \in L
      <4>1. k - 1 \in 0 .. n
        BY <1>1
      <4> HIDE DEF L
      <4> QED BY <2>2, <4>1
    <3> HIDE DEF L, n
    <3> QED BY <2>2, <3>1
  <2>4. g = Eq(g)
    <3>1. \A k \in 0 .. n : k = 0 \/ k \in 1 .. n
      BY <1>1
    <3> HIDE DEF n, L, none
    <3> QED BY <2>2, <2>3, <3>1
  <2> HIDE DEF Eq
  <2> QED BY <2>4
<1>6. watches = lists[n]
  BY DEF Init
<1>7. lists[0] = none /\ \A m \in 0 .. n - 1 : lists[m+1] = Attached(lists[m], m+1, ca[m+1])
  <2>1. 0 \in 0 .. n /\ \A m \in 0 .. n - 1 : m + 1 \in 0 .. n /\ m + 1 # 0 /\ m + 1 - 1 = m
    BY <1>1
  <2> HIDE DEF n, none
  <2>2. lists[0] = none
    BY <1>5, <2>1
  <2>3. ASSUME NEW m \in 0 .. n - 1 PROVE lists[m+1] = Attached(lists[m], m+1, ca[m+1])
    <3>1. lists[m+1] = Eq(lists)[m+1]
      BY <1>5
    <3> HIDE DEF lists
    <3> QED BY <2>1, <3>1
  <2> QED BY <2>2, <2>3
<1> DEFINE Good(m) ==
      /\ lists[m] \in L
      /\ \A l \in Lits : \A k \in DOMAIN lists[m][l] :
            /\ lists[m][l][k].cref \in 1 .. m
            /\ lists[m][l][k].blocker \in ToSet(ca[lists[m][l][k].cref])
      /\ \A c \in 1 .. n, l \in Lits :
            /\ c > m => Never(lists[m][l], c)
            /\ c <= m /\ l \in Watched(c) => Once(lists[m][l], c)
            /\ c <= m /\ l \notin Watched(c) => Never(lists[m][l], c)
<1> HIDE DEF lists, Eq, step
<1>8. Good(0)
  <2>1. \A l \in Lits : lists[0][l] = <<>>
    BY <1>7
  <2>2. \A l \in Lits : DOMAIN lists[0][l] = {}
    BY <2>1
  <2>3. lists[0] \in L
    <3> HIDE DEF L, none
    <3> QED BY <1>2, <1>7
  <2>4. \A c \in 1 .. n : c > 0
    BY <1>1
  <2>5. \A l \in Lits : \A c : Never(lists[0][l], c)
    BY <2>2 DEF Never
  <2>6. \A c \in 1 .. n : ~ (c <= 0)
    BY <1>1
  <2>7. \A l \in Lits : \A k \in DOMAIN lists[0][l] : FALSE
    BY <2>2
  <2> HIDE DEF L, n
  <2>8. \A l \in Lits : \A k \in DOMAIN lists[0][l] :
            /\ lists[0][l][k].cref \in 1 .. 0
            /\ lists[0][l][k].blocker \in ToSet(ca[lists[0][l][k].cref])
    BY <2>7
  <2>9. \A c \in 1 .. n, l \in Lits :
            /\ c > 0 => Never(lists[0][l], c)
            /\ c <= 0 /\ l \in Watched(c) => Once(lists[0][l], c)
            /\ c <= 0 /\ l \notin Watched(c) => Never(lists[0][l], c)
    <3> SUFFICES ASSUME NEW c \in 1 .. n, NEW l \in Lits
                 PROVE  Never(lists[0][l], c) /\ ~ (c <= 0)
      OBVIOUS
    <3> QED BY <2>5, <2>6
  <2> QED BY <2>3, <2>8, <2>9
<1>9. ASSUME NEW m \in 0 .. n - 1, Good(m) PROVE Good(m + 1)
  <2> DEFINE f == lists[m]
             g == lists[m+1]
             new == m + 1
  <2>1. new \in Nat /\ new \in 1 .. n /\ m \in Nat
    BY <1>1
  <2>2. g = Attached(f, new, ca[new])
    BY <1>7
  <2>3. \A l \in Lits : Never(f[l], new)
    <3>1. new > m
      BY <2>1
    <3> HIDE DEF new
    <3> QED BY <1>9, <2>1, <3>1
  <2>4. HasAttached(g, f, new, ca[new])
    <3>1. f \in L
      BY <1>9
    <3>2. ca[new] \in Seq(Lits) /\ Len(ca[new]) > 1 /\ ca[new][1] # ca[new][2]
      BY <1>1, <2>1
    <3> HIDE DEF f, g, new, n, Good
    <3> QED BY <2>1, <2>2, <3>1, <3>2, AttachedIs
  <2>5. ASSUME NEW l \in Lits, NEW k \in DOMAIN g[l]
        PROVE  g[l][k].cref \in 1 .. new /\ g[l][k].blocker \in ToSet(ca[g[l][k].cref])
    <3>1. CASE k \in DOMAIN f[l] /\ g[l][k] = f[l][k]
      <4>1. f[l][k].cref \in 1 .. m /\ f[l][k].blocker \in ToSet(ca[f[l][k].cref])
        BY <1>9, <3>1
      <4> QED BY <2>1, <3>1, <4>1
    <3>2. CASE g[l][k].cref = new /\ g[l][k].blocker \in ToSet(ca[new])
      <4>1. new \in 1 .. new
        BY <2>1
      <4> HIDE DEF new, g
      <4> QED BY <3>2, <4>1
    <3> HIDE DEF new, f, g
    <3> QED BY <2>4, <3>1, <3>2 DEF HasAttached
  <2>6. ASSUME NEW c \in 1 .. n, NEW l \in Lits
        PROVE  /\ c > new => Never(g[l], c)
               /\ c <= new /\ l \in Watched(c) => Once(g[l], c)
               /\ c <= new /\ l \notin Watched(c) => Never(g[l], c)
    <3>1. CASE c = new
      <4>1. ~ (c > new)
        BY <2>1, <3>1
      <4> HIDE DEF new, f, g
      <4> QED BY <2>3, <2>4, <3>1, <4>1 DEF Watched, HasAttached
    <3>2. CASE c # new
      <4>1. c \in Nat /\ (c > new => c > m) /\ (c <= new => c <= m)
        BY <1>1, <2>1, <3>2
      <4> HIDE DEF new, g
      <4> QED BY <1>9, <2>4, <3>2, <4>1 DEF HasAttached
    <3> QED BY <3>1, <3>2
  <2>7. g \in L
    <3> HIDE DEF f, g, new
    <3> QED BY <2>4 DEF HasAttached
  <2> HIDE DEF n, L
  <2> QED BY <2>5, <2>6, <2>7
<1>10. Good(n)
  <2> DEFINE T == {m \in 0 .. n : Good(m)}
  <2> HIDE DEF Good
  <2>1. 0 \in T /\ \A m \in 0 .. n - 1 : m \in T => m + 1 \in T
    BY <1>1, <1>8, <1>9
  <2>2. 0 .. n \subseteq T
    <3> HIDE DEF T, n
    <3> QED BY <1>1, <2>1, Climb
  <2>3. n \in 0 .. n
    BY <1>1
  <2> QED BY <2>2, <2>3
<1>11. Live = DOMAIN ca
  <2>1. \A k \in DOMAIN ca : ca[k] # <<>>
    <3>1. Len(<<>>) = 0
      OBVIOUS
    <3> QED BY <1>1, <3>1
  <2> QED BY <2>1 DEF Live
<1>12. \A c \in 1 .. n : c <= n
  BY <1>1
<1> HIDE DEF n
<1> QED BY <1>1, <1>6, <1>10, <1>11, <1>12

(* All of the invariant holds at first.                                    *)
LEMMA WatchInit == Init => WatchInv
<1> SUFFICES ASSUME Init PROVE WatchInv
  OBVIOUS
<1>1. /\ ca \in Seq(Seq(Lits))
      /\ \A c \in DOMAIN ca : /\ Len(ca[c]) > 1
                              /\ \A i, j \in DOMAIN ca[c] : i # j => Var(ca[c][i]) # Var(ca[c][j])
  BY WatchesAssumption DEF Init
<1>2. /\ dirty = {} /\ trail = <<>> /\ trail_lim = <<>> /\ qhead = 0
      /\ cur = 0 /\ todo = <<>> /\ confl = 0 /\ cancels = 0
  BY DEF Init
<1>3. TypeOK
  BY <1>1, <1>2, ListsInit DEF TypeOK, ClauseOK
<1>4. TrailOK
  BY <1>2 DEF TrailOK
<1>5. QueueOK
  BY <1>2 DEF QueueOK
<1>6. ListsOK
  <2>1. \A l \in Lits : List(l) = watches[l]
    BY <1>2, LitFacts DEF List
  <2>2. cur \notin dirty
    BY <1>2
  <2> QED BY <2>1, <2>2, ListsInit DEF ListsOK
<1>7. CoveredOK
  <2>1. \A p \in 1 .. qhead : FALSE
    BY <1>2
  <2> QED BY <2>1 DEF CoveredOK
<1> QED BY <1>3, <1>4, <1>5, <1>6, <1>7 DEF WatchInv

-----------------------------------------------------------------------------
(* A visit.                                                                *)

(* The literals of a clause that is there are of different variables.      *)
LEMMA ClauseFacts ==
    ASSUME TypeOK, NEW c \in Live
    PROVE  /\ c \in DOMAIN ca /\ c \in Nat /\ ca[c] \in Seq(Lits)
           /\ 1 \in DOMAIN ca[c] /\ 2 \in DOMAIN ca[c] /\ Len(ca[c]) \in Nat /\ Len(ca[c]) > 1
           /\ DOMAIN ca[c] = 1 .. Len(ca[c])
           /\ \A i \in DOMAIN ca[c] : ca[c][i] \in Lits /\ ca[c][i] \in ToSet(ca[c])
           /\ \A i, j \in DOMAIN ca[c] : i # j => ca[c][i] # ca[c][j] /\ ca[c][i] # -ca[c][j]
<1>1. c \in DOMAIN ca /\ c \in Nat /\ ca[c] \in Seq(Lits) /\ Len(ca[c]) > 1
  BY DEF TypeOK, ClauseOK, Live
<1>2. /\ 1 \in DOMAIN ca[c] /\ 2 \in DOMAIN ca[c] /\ Len(ca[c]) \in Nat
      /\ DOMAIN ca[c] = 1 .. Len(ca[c])
  BY <1>1
<1>3. \A i \in DOMAIN ca[c] : ca[c][i] \in Lits /\ ca[c][i] \in ToSet(ca[c])
  BY <1>1 DEF ToSet
<1>4. ASSUME NEW i \in DOMAIN ca[c], NEW j \in DOMAIN ca[c], i # j
      PROVE  ca[c][i] # ca[c][j] /\ ca[c][i] # -ca[c][j]
  <2>1. Var(ca[c][i]) # Var(ca[c][j])
    BY <1>4 DEF TypeOK, ClauseOK
  <2> QED BY <1>3, <2>1, LitFacts
<1> QED BY <1>1, <1>2, <1>3, <1>4

(* A literal on the trail has its level, and its negation is not there.    *)
LEMMA TrailFacts ==
    ASSUME TypeOK, TrailOK
    PROVE  /\ \A i \in DOMAIN trail : /\ trail[i].lit \in Lits
                                      /\ trail[i].level \in Nat
                                      /\ trail[i].level <= decisionLevel
           /\ \A i, j \in DOMAIN trail : /\ trail[i].lit = trail[j].lit => i = j
                                         /\ trail[i].lit # -trail[j].lit
           /\ \A i \in DOMAIN trail : level(trail[i].lit) = trail[i].level
                                      /\ level(-trail[i].lit) = trail[i].level
           /\ TrueLits \subseteq Lits
           /\ \A l \in TrueLits : -l \notin TrueLits
           /\ decisionLevel \in Nat
<1>1. \A i \in DOMAIN trail : /\ trail[i].lit \in Lits /\ trail[i].level \in Nat
                              /\ trail[i].level <= decisionLevel
  <2> SUFFICES ASSUME NEW i \in DOMAIN trail
               PROVE  /\ trail[i].lit \in Lits /\ trail[i].level \in Nat
                      /\ trail[i].level <= decisionLevel
    OBVIOUS
  <2>1. trail \in Seq(EntryType)
    BY DEF TypeOK
  <2>3. trail[i] \in EntryType
    BY <2>1
  <2>2. trail[i].level <= decisionLevel
    BY DEF TrailOK
  <2> QED BY <2>2, <2>3 DEF EntryType
<1>2. \A i, j \in DOMAIN trail : /\ trail[i].lit = trail[j].lit => i = j
                                 /\ trail[i].lit # -trail[j].lit
  <2>1. \A i, j \in DOMAIN trail : Var(trail[i].lit) = Var(trail[j].lit) => i = j
    BY DEF TrailOK
  <2> QED BY <1>1, <2>1, LitFacts
<1>3. ASSUME NEW i \in DOMAIN trail
      PROVE  level(trail[i].lit) = trail[i].level /\ level(-trail[i].lit) = trail[i].level
  <2>1. \A l : Var(trail[i].lit) = Var(l) =>
               (CHOOSE j \in DOMAIN trail : Var(trail[j].lit) = Var(l)) = i
    <3>1. \A j \in DOMAIN trail : Var(trail[i].lit) = Var(trail[j].lit) => i = j
      BY DEF TrailOK
    <3> QED BY <3>1
  <2>2. Var(trail[i].lit) = Var(-trail[i].lit)
    BY <1>1, LitFacts
  <2> QED BY <2>1, <2>2 DEF level
<1>4. TrueLits \subseteq Lits
  BY <1>1 DEF TrueLits
<1>5. \A l \in TrueLits : -l \notin TrueLits
  <2> SUFFICES ASSUME NEW i \in DOMAIN trail, -trail[i].lit \in TrueLits PROVE FALSE
    BY DEF TrueLits
  <2>1. PICK j \in DOMAIN trail : trail[j].lit = -trail[i].lit
    BY DEF TrueLits
  <2> QED BY <1>2, <2>1
<1>6. decisionLevel \in Nat
  BY DEF TypeOK, decisionLevel
<1> QED BY <1>1, <1>2, <1>3, <1>4, <1>5, <1>6

(* The watcher visited is of a clause that is there, watched where the     *)
(* visit is, and it is the only one of the clause in the list.             *)
LEMMA VisitFacts ==
    ASSUME WatchInv, Visiting
    PROVE  /\ confl = 0 /\ cur \in Lits /\ w \in WatchersType /\ w = Head(todo) /\ cr = w.cref
           /\ cr \in Live /\ w.blocker \in ToSet(ca[cr])
           /\ cur \in Watched(cr)
           /\ watches[cur] \in Seq(WatchersType) /\ todo \in Seq(WatchersType)
           /\ Tail(todo) \in Seq(WatchersType)
           /\ Never(Tail(todo), cr)
           /\ Never(watches[cur], cr)
<1>1. /\ TypeOK /\ TrailOK /\ QueueOK /\ ListsOK
      /\ cur # 0 /\ todo # <<>>
  BY DEF WatchInv, Visiting
<1>2. /\ confl = 0 /\ cur \in Lits
      /\ watches[cur] \in Seq(WatchersType) /\ todo \in Seq(WatchersType)
      /\ Tail(todo) \in Seq(WatchersType)
  BY <1>1 DEF TypeOK, QueueOK
<1> DEFINE kept == watches[cur]
           n    == Len(kept)
           list == kept \o todo
<1>3. w = Head(todo) /\ cr = w.cref /\ w \in WatchersType
  BY <1>1, <1>2 DEF w, cr
<1>4. n + 1 \in DOMAIN list /\ list[n + 1] = w
  BY <1>1, <1>2, <1>3
<1>5. List(cur) = list
  BY DEF List
<1>6. cr \in Live /\ w.blocker \in ToSet(ca[cr])
  <2> HIDE DEF list, n
  <2>1. cur \notin dirty
    BY <1>1 DEF ListsOK
  <2>2. \A k \in DOMAIN list : /\ list[k].cref \in Live
                               /\ list[k].blocker \in ToSet(ca[list[k].cref])
    BY <1>1, <1>2, <1>5, <2>1 DEF ListsOK
  <2> QED BY <1>3, <1>4, <2>2
<1>7. cur \in Watched(cr)
  <2> SUFFICES ASSUME cur \notin Watched(cr) PROVE FALSE
    OBVIOUS
  <2>1. Never(list, cr)
    <3> HIDE DEF list
    <3> QED BY <1>1, <1>2, <1>5, <1>6 DEF ListsOK
  <2> HIDE DEF list, n
  <2> QED BY <1>3, <1>4, <2>1 DEF Never
<1>8. Once(list, cr)
  <2> HIDE DEF list
  <2> QED BY <1>1, <1>2, <1>5, <1>6, <1>7 DEF ListsOK
<1>9. Never(kept \o Tail(todo), cr)
  <2>1. cr \in Nat
    BY <1>1, <1>6, ClauseFacts
  <2> HIDE DEF kept
  <2> QED BY <1>1, <1>2, <1>3, <1>8, <2>1, Removing DEF kept
<1>10. Never(kept, cr) /\ Never(Tail(todo), cr)
  <2> DEFINE rest == Tail(todo)
             both == kept \o rest
  <2>1. kept \in Seq(WatchersType) /\ rest \in Seq(WatchersType)
    BY <1>2
  <2> HIDE DEF kept, rest
  <2>2. \A k \in DOMAIN kept : k \in DOMAIN both /\ both[k] = kept[k]
    BY <2>1
  <2>3. \A k \in DOMAIN rest : Len(kept) + k \in DOMAIN both /\ both[Len(kept) + k] = rest[k]
    BY <2>1
  <2>4. Never(both, cr)
    BY <1>9 DEF rest
  <2> HIDE DEF both
  <2>5. Never(kept, cr)
    BY <2>2, <2>4 DEF Never
  <2>6. Never(rest, cr)
    BY <2>3, <2>4 DEF Never
  <2> QED BY <2>5, <2>6 DEF rest
<1> QED BY <1>2, <1>3, <1>6, <1>7, <1>10

(* The clause that is looked at has the false literal in second place.     *)
LEMMA TurnedFacts ==
    ASSUME WatchInv, Visiting
    PROVE  /\ Turned \in Seq(Lits) /\ Len(Turned) = Len(ca[cr]) /\ Len(Turned) \in Nat /\ Len(Turned) > 1
           /\ DOMAIN Turned = DOMAIN ca[cr] /\ DOMAIN Turned = 1 .. Len(Turned)
           /\ Turned[1] = first /\ Turned[2] = -cur /\ first \in Lits
           /\ {-first, cur} = Watched(cr) /\ -first # cur /\ first # cur
           /\ ToSet(Turned) = ToSet(ca[cr]) /\ first \in ToSet(ca[cr])
           /\ ClauseOK(Turned)
<1> DEFINE c == ca[cr]
<1>1. /\ c \in Seq(Lits) /\ Len(c) \in Nat /\ Len(c) > 1 /\ DOMAIN c = 1 .. Len(c)
      /\ 1 \in DOMAIN c /\ 2 \in DOMAIN c
      /\ \A i \in DOMAIN c : c[i] \in Lits /\ c[i] \in ToSet(c)
      /\ \A i, j \in DOMAIN c : i # j => c[i] # c[j] /\ c[i] # -c[j]
      /\ \A i, j \in DOMAIN c : i # j => Var(c[i]) # Var(c[j])
  <2>1. TypeOK /\ cr \in Live
    BY VisitFacts DEF WatchInv
  <2>2. \A i, j \in DOMAIN c : i # j => Var(c[i]) # Var(c[j])
    BY <2>1 DEF TypeOK, ClauseOK
  <2> QED BY <2>1, <2>2, ClauseFacts
<1>2. cur \in Lits /\ cur \in {-c[1], -c[2]} /\ Watched(cr) = {-c[1], -c[2]}
  BY VisitFacts DEF Watched
<1> DEFINE other == [c EXCEPT ![1] = c[2], ![2] = c[1]]
<1>3. Turned = (IF c[1] = -cur THEN other ELSE c) /\ first = Turned[1]
  BY DEF Turned, first
<1> HIDE DEF c
<1>4. CASE c[1] = -cur
  <2>1. /\ other \in Seq(Lits) /\ Len(other) = Len(c) /\ DOMAIN other = DOMAIN c
        /\ other[1] = c[2] /\ other[2] = c[1]
        /\ \A i \in DOMAIN c : i # 1 /\ i # 2 => other[i] = c[i]
    BY <1>1
  <2>2. Turned = other
    BY <1>3, <1>4
  <2> HIDE DEF other
  <2>3. ToSet(other) = ToSet(c)
    BY <1>1, <2>1 DEF ToSet
  <2>4. \A i, j \in DOMAIN other : i # j => Var(other[i]) # Var(other[j])
    BY <1>1, <2>1
  <2>5. first = c[2] /\ c[2] # c[1] /\ c[2] # -c[1] /\ cur = -c[1]
    BY <1>1, <1>2, <1>3, <1>4, <2>1, LitFacts
  <2>6. {-first, cur} = {-c[1], -c[2]} /\ -first # cur /\ first # cur
    BY <1>1, <2>5, LitFacts
  <2> QED BY <1>1, <1>2, <1>4, <2>1, <2>2, <2>3, <2>4, <2>5, <2>6 DEF c, ClauseOK
<1>5. CASE c[1] # -cur
  <2>1. Turned = c /\ first = c[1]
    BY <1>3, <1>5
  <2>2. cur = -c[2]
    BY <1>1, <1>2, <1>5, LitFacts
  <2>3. c[2] = -cur
    BY <1>1, <2>2, LitFacts
  <2>4. {-first, cur} = {-c[1], -c[2]} /\ -first # cur /\ first # cur
    BY <1>1, <2>1, <2>2, LitFacts
  <2> QED BY <1>1, <1>2, <2>1, <2>3, <2>4 DEF c, ClauseOK
<1> QED BY <1>4, <1>5

(* What a clause that is put in another order does not change.             *)
LEMMA ReplacedClause ==
    ASSUME TypeOK, NEW c \in Live, NEW T \in Seq(Lits), ClauseOK(T), ca' = [ca EXCEPT ![c] = T]
    PROVE  /\ ca' \in Seq(Seq(Lits)) /\ Live' = Live /\ DOMAIN ca' = DOMAIN ca
           /\ ca'[c] = T
           /\ \A d \in DOMAIN ca : d # c => ca'[d] = ca[d]
           /\ \A d \in Live' : ClauseOK(ca'[d])
<1>1. c \in DOMAIN ca /\ ca \in Seq(Seq(Lits))
  BY DEF TypeOK, Live
<1>2. T # <<>>
  <2>1. Len(T) > 1
    BY DEF ClauseOK
  <2> QED BY <2>1
<1>3. DOMAIN ca' = DOMAIN ca /\ ca'[c] = T /\ \A d \in DOMAIN ca : d # c => ca'[d] = ca[d]
  BY <1>1
<1>4. ca' \in Seq(Seq(Lits))
  <2> DEFINE S == Seq(Lits)
  <2>1. ca \in Seq(S) /\ T \in S
    BY <1>1
  <2> HIDE DEF S
  <2>2. ca' \in Seq(S)
    BY <1>1, <2>1
  <2> QED BY <2>2 DEF S
<1>5. Live' = Live
  BY <1>1, <1>2, <1>3 DEF Live
<1>6. \A d \in Live' : ClauseOK(ca'[d])
  <2> SUFFICES ASSUME NEW d \in Live PROVE ClauseOK(ca'[d])
    BY <1>5
  <2>1. d \in DOMAIN ca /\ ClauseOK(ca[d])
    BY DEF TypeOK, Live
  <2>2. ca'[d] = T \/ ca'[d] = ca[d]
    BY <1>3, <2>1
  <2> QED BY <2>1, <2>2
<1> QED BY <1>3, <1>4, <1>5, <1>6

(* The clause with another literal in place of the false one.              *)
Moved(k) == [Turned EXCEPT ![2] = Turned[k], ![k] = Turned[2]]

(* It is the same clause, and watched where no literal is true.            *)
LEMMA MovedFacts ==
    ASSUME WatchInv, Visiting, NEW k \in Free
    PROVE  /\ Moved(k) \in Seq(Lits) /\ ClauseOK(Moved(k)) /\ ToSet(Moved(k)) = ToSet(ca[cr])
           /\ Moved(k)[1] = first /\ Moved(k)[2] = Turned[k]
           /\ Turned[k] \in Lits /\ ~ IsFalse(Turned[k])
           /\ -Turned[k] # cur /\ -Turned[k] # -first /\ Turned[k] \in ToSet(ca[cr])
<1>1. /\ Turned \in Seq(Lits) /\ Len(Turned) \in Nat /\ Len(Turned) > 1
      /\ DOMAIN Turned = 1 .. Len(Turned)
      /\ Turned[1] = first /\ Turned[2] = -cur /\ first \in Lits
      /\ ToSet(Turned) = ToSet(ca[cr])
      /\ \A i, j \in DOMAIN Turned : i # j => Var(Turned[i]) # Var(Turned[j])
  BY TurnedFacts DEF ClauseOK
<1>2. k \in 3 .. Len(Turned) /\ ~ IsFalse(Turned[k])
  BY DEF Free
<1>3. /\ k \in DOMAIN Turned /\ k # 1 /\ k # 2 /\ 1 \in DOMAIN Turned /\ 2 \in DOMAIN Turned
      /\ Turned[k] \in Lits
  BY <1>1, <1>2
<1> DEFINE T == Turned
           M == Moved(k)
<1>4. /\ M \in Seq(Lits) /\ Len(M) = Len(T) /\ DOMAIN M = DOMAIN T
      /\ M[2] = T[k] /\ M[k] = T[2] /\ \A i \in DOMAIN T : i # 2 /\ i # k => M[i] = T[i]
  BY <1>1, <1>3 DEF Moved
<1> HIDE DEF T, M
<1>5. ToSet(M) = ToSet(T)
  BY <1>3, <1>4 DEF ToSet, T
<1>6. \A i, j \in DOMAIN M : i # j => Var(M[i]) # Var(M[j])
  BY <1>1, <1>3, <1>4 DEF T
<1>7. Var(T[k]) # Var(T[1]) /\ Var(T[k]) # Var(T[2])
  BY <1>1, <1>3 DEF T
<1>8. cur \in Lits
  BY VisitFacts
<1>9. -T[k] # cur /\ -T[k] # -first
  BY <1>1, <1>3, <1>7, <1>8, LitFacts DEF T
<1>10. T[k] \in ToSet(T)
  BY <1>3 DEF ToSet, T
<1> QED BY <1>1, <1>2, <1>3, <1>4, <1>5, <1>6, <1>9, <1>10 DEF T, M, ClauseOK

-----------------------------------------------------------------------------
(* Undoing decisions.                                                      *)

(* cancelUntil leaves the literals of the levels that stay, and no others. *)
LEMMA CancelFacts ==
    ASSUME TypeOK, TrailOK, NEW lev \in 0 .. decisionLevel - 1,
           NEW then \in Seq(EntryType), Len(then) <= 1,
           \A k \in DOMAIN then : /\ then[k].level = lev
                                  /\ level(then[k].lit) > lev
                                  /\ then[k].lit \in TrueLits \/ -then[k].lit \in TrueLits,
           Cancel(lev, then)
    PROVE  /\ trail' \in Seq(EntryType) /\ trail_lim' \in Seq(Nat) /\ cancels' \in Nat
           /\ qhead' \in 0 .. Len(trail) /\ qhead' \in 0 .. Len(trail')
           /\ decisionLevel' = lev
           /\ \A i \in 1 .. qhead' : /\ i \in DOMAIN trail /\ i \in DOMAIN trail'
                                     /\ trail'[i] = trail[i]
           /\ \A i \in DOMAIN trail : i <= qhead' <=> trail[i].level <= lev
           /\ \A i \in qhead' + 1 .. Len(trail') : trail'[i].level = lev
           /\ \A k \in DOMAIN then : qhead' + k \in DOMAIN trail' /\ trail'[qhead' + k] = then[k]
           /\ TrailOK'
<1> DEFINE cut == trail_lim[lev + 1]
           top == SubSeq(trail, 1, cut)
           lim == SubSeq(trail_lim, 1, lev)
           n   == Len(then)
<1>1. /\ trail \in Seq(EntryType) /\ trail_lim \in Seq(Nat)
      /\ decisionLevel = Len(trail_lim) /\ decisionLevel \in Nat
      /\ Len(trail) \in Nat /\ DOMAIN trail = 1 .. Len(trail)
      /\ DOMAIN trail_lim = 1 .. decisionLevel
  BY DEF TypeOK, decisionLevel
<1>2. lev \in Nat /\ lev + 1 \in DOMAIN trail_lim /\ lev < decisionLevel
  BY <1>1
<1>3. cut \in Nat /\ cut <= Len(trail)
  <2>1. \A m \in DOMAIN trail_lim : trail_lim[m] <= Len(trail)
    BY DEF TrailOK
  <2>2. \A m \in DOMAIN trail_lim : trail_lim[m] \in Nat
    BY <1>1
  <2> QED BY <1>2, <2>1, <2>2
<1>4. trail' = top \o then /\ trail_lim' = lim /\ qhead' = cut /\ cancels' \in Nat
  <2>1. trail' = top \o then /\ trail_lim' = lim /\ qhead' = cut /\ cancels' = cancels + 1
    BY DEF Cancel
  <2>2. cancels \in Nat
    BY DEF TypeOK
  <2> HIDE DEF cut, top, lim
  <2> QED BY <2>1, <2>2
<1>5. \A i \in DOMAIN trail : i <= cut <=> trail[i].level <= lev
  <2> SUFFICES ASSUME NEW i \in DOMAIN trail PROVE i <= cut <=> trail[i].level <= lev
    OBVIOUS
  <2>1. trail[i].level \in Nat /\ (trail[i].level >= lev + 1 <=> i > cut)
    BY <1>2, TrailFacts DEF TrailOK
  <2> QED BY <1>1, <1>2, <1>3, <2>1
<1>6. /\ lim \in Seq(Nat) /\ Len(lim) = lev /\ DOMAIN lim = 1 .. lev
      /\ \A m \in 1 .. lev : m \in DOMAIN trail_lim /\ lim[m] = trail_lim[m] /\ trail_lim[m] \in Nat
  <2> DEFINE N == Nat
  <2>1. trail_lim \in Seq(N) /\ lev \in Nat /\ lev <= Len(trail_lim) /\ Len(trail_lim) \in Nat
    BY <1>1, <1>2
  <2> HIDE DEF N
  <2>2. lim \in Seq(N) /\ Len(lim) = lev /\ \A m \in 1 .. lev : lim[m] = trail_lim[m]
    BY <2>1
  <2>3. \A m \in 1 .. lev : m \in DOMAIN trail_lim
    BY <1>1, <1>2
  <2>4. \A m \in DOMAIN trail_lim : trail_lim[m] \in N
    BY <2>1
  <2>5. DOMAIN lim = 1 .. lev
    BY <2>2
  <2> HIDE DEF lim
  <2> QED BY <2>2, <2>3, <2>4, <2>5 DEF N
<1>7. top \in Seq(EntryType) /\ Len(top) = cut /\ \A i \in 1 .. cut : top[i] = trail[i] /\ i \in DOMAIN trail
  BY <1>1, <1>3
<1> HIDE DEF cut, top, lim
<1>8. /\ trail' \in Seq(EntryType) /\ Len(trail') = cut + n /\ n \in {0, 1}
      /\ DOMAIN trail' = 1 .. cut + n /\ DOMAIN then = 1 .. n
      /\ \A i \in 1 .. cut : trail'[i] = top[i]
      /\ \A k \in 1 .. n : trail'[cut + k] = then[k]
  <2>1. top \in Seq(EntryType) /\ then \in Seq(EntryType) /\ Len(top) = cut /\ Len(then) = n
    BY <1>7
  <2>2. n \in Nat /\ n <= 1 /\ DOMAIN then = 1 .. n
    OBVIOUS
  <2> HIDE DEF n
  <2>3. n \in {0, 1}
    BY <2>2
  <2>4. Len(top \o then) = cut + n /\ top \o then \in Seq(EntryType)
    BY <2>1
  <2>5. \A i \in 1 .. cut : (top \o then)[i] = top[i]
    BY <1>3, <2>1, <2>2
  <2>6. \A k \in 1 .. n : (top \o then)[cut + k] = then[k]
    BY <1>3, <2>1, <2>2
  <2>7. DOMAIN trail' = 1 .. Len(trail')
    BY <1>4, <2>4
  <2> QED BY <1>4, <2>2, <2>3, <2>4, <2>5, <2>6, <2>7
<1> HIDE DEF n
<1>9. \A i \in DOMAIN trail' : \/ i \in 1 .. cut
                               \/ n = 1 /\ i = cut + 1 /\ trail'[i] = then[1] /\ 1 \in DOMAIN then
  <2> SUFFICES ASSUME NEW i \in 1 .. cut + n, i \notin 1 .. cut
               PROVE  n = 1 /\ i = cut + 1 /\ trail'[i] = then[1] /\ 1 \in DOMAIN then
    BY <1>8
  <2>1. n = 1 /\ i = cut + 1
    BY <1>3, <1>8
  <2>2. 1 \in 1 .. n
    BY <2>1
  <2> QED BY <1>8, <2>1, <2>2
<1>10. \A i \in 1 .. cut : trail'[i] = trail[i] /\ i \in DOMAIN trail /\ trail[i].level <= lev
  <2> SUFFICES ASSUME NEW i \in 1 .. cut
               PROVE  trail'[i] = trail[i] /\ i \in DOMAIN trail /\ trail[i].level <= lev
    OBVIOUS
  <2>1. i <= cut /\ i \in DOMAIN trail
    BY <1>3, <1>7
  <2> QED BY <1>5, <1>7, <1>8, <2>1
<1>11. decisionLevel' = lev
  BY <1>4, <1>6 DEF decisionLevel
<1>12. \A m \in 1 .. lev : trail_lim[m] <= cut
  <2> SUFFICES ASSUME NEW m \in 1 .. lev, ~ (trail_lim[m] <= cut) PROVE FALSE
    OBVIOUS
  <2> DEFINE i == trail_lim[m]
  <2>1. i \in Nat /\ i <= Len(trail) /\ i > cut /\ m \in DOMAIN trail_lim
    BY <1>3, <1>6 DEF TrailOK
  <2>2. i \in DOMAIN trail
    BY <1>1, <1>3, <2>1
  <2>3. trail[i].level \in Nat /\ ~ (trail[i].level <= lev)
    BY <1>3, <1>5, <2>1, <2>2, TrailFacts
  <2>4. trail[i].level >= m
    BY <1>2, <2>3
  <2>5. i > trail_lim[m]
    BY <2>1, <2>2, <2>4 DEF TrailOK
  <2> QED BY <2>1, <2>5
<1>13. TrailOK'
  <2>1. ASSUME NEW i \in DOMAIN trail', NEW j \in DOMAIN trail', i # j
        PROVE  Var(trail'[i].lit) # Var(trail'[j].lit)
    <3>1. ASSUME NEW a \in 1 .. cut, 1 \in DOMAIN then PROVE Var(trail[a].lit) # Var(then[1].lit)
      <4>1. then[1] \in EntryType
        BY <1>8, <3>1
      <4>2. then[1].lit \in Lits
        BY <4>1 DEF EntryType
      <4>3. \E b \in DOMAIN trail : trail[b].lit = then[1].lit \/ trail[b].lit = -then[1].lit
        BY <3>1 DEF TrueLits
      <4>4. PICK b \in DOMAIN trail : trail[b].lit = then[1].lit \/ trail[b].lit = -then[1].lit
        BY <4>3
      <4>5. trail[b].level \in Nat /\ trail[b].level > lev
        <5>1. then[1].lit = trail[b].lit \/ then[1].lit = -trail[b].lit
          BY <4>2, <4>4, LitFacts
        <5> QED BY <3>1, <5>1, TrailFacts
      <4>6. a # b
        BY <1>2, <1>10, <4>5
      <4>7. Var(trail[b].lit) = Var(then[1].lit)
        BY <4>2, <4>4, LitFacts
      <4> QED BY <1>10, <4>6, <4>7 DEF TrailOK
    <3>2. CASE i \in 1 .. cut /\ j \in 1 .. cut
      BY <1>10, <2>1, <3>2 DEF TrailOK
    <3>3. CASE i \in 1 .. cut /\ j \notin 1 .. cut
      BY <1>9, <1>10, <3>1, <3>3
    <3>4. CASE i \notin 1 .. cut /\ j \in 1 .. cut
      BY <1>9, <1>10, <3>1, <3>4
    <3>5. CASE i \notin 1 .. cut /\ j \notin 1 .. cut
      BY <1>9, <2>1, <3>5
    <3> QED BY <3>2, <3>3, <3>4, <3>5
  <2>2. \A m \in DOMAIN trail_lim' : trail_lim'[m] <= Len(trail') /\ trail_lim'[m] = trail_lim[m]
                                     /\ m \in 1 .. lev
    BY <1>3, <1>4, <1>6, <1>8, <1>12
  <2>3. ASSUME NEW i \in DOMAIN trail'
        PROVE  /\ trail'[i].level <= lev
               /\ \A m \in DOMAIN trail_lim' : trail'[i].level >= m <=> i > trail_lim'[m]
    <3>1. CASE i \in 1 .. cut
      <4>1. trail'[i] = trail[i] /\ i \in DOMAIN trail /\ trail[i].level <= lev
        BY <1>10, <3>1
      <4>2. \A m \in DOMAIN trail_lim' : trail[i].level >= m <=> i > trail_lim[m]
        BY <1>6, <2>2, <4>1 DEF TrailOK
      <4> QED BY <2>2, <4>1, <4>2
    <3>2. CASE i = cut + 1 /\ trail'[i] = then[1] /\ 1 \in DOMAIN then
      <4>1. trail'[i].level = lev
        BY <3>2
      <4>2. \A m \in 1 .. lev : lev >= m /\ cut + 1 > trail_lim[m]
        BY <1>2, <1>3, <1>6, <1>12
      <4> QED BY <1>2, <2>2, <3>2, <4>1, <4>2
    <3> QED BY <1>9, <3>1, <3>2
  <2> QED BY <1>11, <2>1, <2>2, <2>3 DEF TrailOK
<1>14. \A i \in qhead' + 1 .. Len(trail') : trail'[i].level = lev
  <2> SUFFICES ASSUME NEW i \in cut + 1 .. cut + n PROVE trail'[i].level = lev
    BY <1>4, <1>8
  <2>1. n = 1 /\ i = cut + 1
    BY <1>3, <1>8
  <2>2. 1 \in DOMAIN then /\ trail'[i] = then[1]
    BY <1>8, <2>1
  <2> QED BY <2>2
<1>15. \A k \in DOMAIN then : cut + k \in DOMAIN trail' /\ trail'[cut + k] = then[k]
  BY <1>3, <1>8
<1>16. cut \in 0 .. Len(trail) /\ cut \in 0 .. Len(trail') /\ \A i \in 1 .. cut : i \in DOMAIN trail'
  BY <1>1, <1>3, <1>8
<1> QED BY <1>4, <1>5, <1>6, <1>8, <1>10, <1>11, <1>13, <1>14, <1>15, <1>16

-----------------------------------------------------------------------------
(* What a step keeps.                                                      *)

(* A clause that is in a list once is in it.                               *)
LEMMA OnceIsThere == \A seq, c : Once(seq, c) => ~ Never(seq, c)
BY DEF Once, Never

(* A true literal that rescues a clause stays while the trail grows.       *)
LEMMA RescuedStays ==
    ASSUME NEW c, NEW p \in DOMAIN trail, Rescued(c, p), ToSet(ca'[c]) = ToSet(ca[c]),
           \A i \in DOMAIN trail : i \in DOMAIN trail' /\ trail'[i] = trail[i]
    PROVE  Rescued(c, p)'
BY DEF Rescued

(* A visit that puts its watcher back, or another of the clause, leaves    *)
(* every clause where it was.                                              *)
LEMMA KeptLists ==
    ASSUME WatchInv, Visiting,
           NEW x \in WatchersType, x.cref = cr, x.blocker \in ToSet(ca[cr]),
           Live' = Live, DOMAIN ca' = DOMAIN ca,
           \A c \in Live : ToSet(ca'[c]) = ToSet(ca[c]) /\ Watched(c)' = Watched(c),
           dirty' = dirty, cur' = cur,
           List(cur)' = Append(watches[cur], x) \o Tail(todo),
           \A l \in Lits : l # cur => List(l)' = watches[l]
    PROVE  ListsOK'
<1> DEFINE old == watches[cur] \o todo
           new == Append(watches[cur], x) \o Tail(todo)
           n   == Len(watches[cur])
<1>1. /\ TypeOK /\ ListsOK /\ cur \in Lits /\ cr \in Live
      /\ watches[cur] \in Seq(WatchersType) /\ todo \in Seq(WatchersType)
      /\ Tail(todo) \in Seq(WatchersType) /\ todo # <<>> /\ w = Head(todo) /\ cr = w.cref
  BY VisitFacts DEF WatchInv, Visiting
<1>2. List(cur) = old /\ \A l \in Lits : l # cur => List(l) = watches[l]
  BY DEF List
<1>3. /\ old \in Seq(WatchersType) /\ new \in Seq(WatchersType) /\ Len(old) = Len(new)
      /\ n + 1 \in DOMAIN old /\ old[n + 1] = w
      /\ \A k \in DOMAIN new : \/ k = n + 1 /\ new[k] = x
                               \/ k \in DOMAIN old /\ new[k] = old[k]
  BY <1>1, Replacing
<1> HIDE DEF old, new, n
<1>4. \A k \in 1 .. Len(old) : old[k].cref = new[k].cref
  <2> SUFFICES ASSUME NEW k \in DOMAIN new PROVE old[k].cref = new[k].cref
    BY <1>3
  <2> QED BY <1>1, <1>3
<1>5. ASSUME NEW l \in Lits, NEW k \in DOMAIN List(l)'
      PROVE  LET y == List(l)'[k]
             IN  /\ y.cref \in DOMAIN ca'
                 /\ l \notin dirty' => y.cref \in Live'
                 /\ y.cref \in Live' => y.blocker \in ToSet(ca'[y.cref])
  <2>1. ASSUME NEW j \in DOMAIN List(l)
        PROVE  LET y == List(l)[j]
               IN  /\ y.cref \in DOMAIN ca'
                   /\ l \notin dirty' => y.cref \in Live'
                   /\ y.cref \in Live' => y.blocker \in ToSet(ca'[y.cref])
    BY <1>1 DEF ListsOK
  <2>2. CASE l # cur
    BY <1>2, <2>1, <2>2
  <2>3. CASE l = cur
    <3>1. List(l)' = new /\ List(l) = old
      BY <1>2, <2>3 DEF new
    <3>2. CASE new[k] = x
      <4>1. cr \in DOMAIN ca'
        BY <1>1 DEF Live
      <4> QED BY <1>1, <3>1, <3>2, <4>1
    <3>3. CASE k \in DOMAIN old /\ new[k] = old[k]
      BY <2>1, <3>1, <3>3
    <3> QED BY <1>3, <3>1, <3>2, <3>3
  <2> QED BY <2>2, <2>3
<1>6. ASSUME NEW c \in Live, NEW l \in Lits
      PROVE  /\ l \in Watched(c)' => Once(List(l)', c)
             /\ l \notin Watched(c)' => Never(List(l)', c)
  <2>1. /\ l \in Watched(c)' => Once(List(l), c)
        /\ l \notin Watched(c)' => Never(List(l), c)
    BY <1>1 DEF ListsOK
  <2>2. CASE l # cur
    BY <1>2, <2>1, <2>2
  <2>3. CASE l = cur
    <3>1. c \in Nat
      BY <1>1, ClauseFacts
    <3>2. List(l)' = new /\ List(l) = old
      BY <1>2, <2>3 DEF new
    <3>3. (Once(old, c) => Once(new, c)) /\ (Never(old, c) => Never(new, c))
      BY <1>3, <1>4, <3>1, SameClauses
    <3> QED BY <2>1, <3>2, <3>3
  <2> QED BY <2>2, <2>3
<1>7. cur' \notin dirty'
  BY <1>1 DEF ListsOK
<1>8. \A c \in Live', l \in Lits : /\ l \in Watched(c)' => Once(List(l), c)'
                                   /\ l \notin Watched(c)' => Never(List(l), c)'
  BY <1>6 DEF Once, Never
<1> QED BY <1>5, <1>7, <1>8 DEF ListsOK

(* A visit after which the clause is rescued, or no longer watched there,  *)
(* leaves the others as they were.                                         *)
LEMMA VisitCovers ==
    ASSUME WatchInv, Visiting, TrailOK', TypeOK',
           cur' = cur, qhead' = qhead, confl' = confl, todo' = Tail(todo), trail_lim' = trail_lim,
           \A i \in DOMAIN trail : i \in DOMAIN trail' /\ trail'[i] = trail[i],
           Live' = Live,
           \A c \in Live : ToSet(ca'[c]) = ToSet(ca[c]) /\ (c # cr => Watched(c)' = Watched(c)),
           \A c \in Live, l \in TrueLits : c = cr /\ l \in Watched(c)' =>
              \/ l # cur /\ l \in Watched(c)
              \/ l = cur /\ \E k \in ToSet(ca[c]) : k \in TrueLits'
    PROVE  CoveredOK'
<1>1. /\ TypeOK /\ TrailOK /\ QueueOK /\ ListsOK /\ CoveredOK
      /\ confl = 0 /\ cur \in Lits /\ cr \in Live /\ todo # <<>> /\ w = Head(todo) /\ cr = w.cref
      /\ todo \in Seq(WatchersType)
  BY VisitFacts DEF WatchInv, Visiting
<1> SUFFICES ASSUME NEW c \in Live, NEW p \in 1 .. qhead, Due(c, p)'
             PROVE  Rescued(c, p)'
  BY DEF CoveredOK
<1>2. p \in DOMAIN trail /\ trail'[p] = trail[p] /\ trail[p].lit \in Lits /\ trail[p].lit \in TrueLits
  <2>1. p \in DOMAIN trail
    BY <1>1 DEF TypeOK
  <2> QED BY <1>1, <2>1, TrailFacts DEF TrueLits
<1>3. trail[p].lit \in Watched(c)' /\ (trail[p].lit = cur => Never(Tail(todo), c))
  BY <1>2 DEF Due, Pending, Never
<1>4. CASE c = cr /\ trail[p].lit = cur
  <2>1. trail[p].level = decisionLevel
    <3>1. PICK i \in 1 .. qhead : trail[i].lit = cur /\ trail[i].level = decisionLevel
      BY <1>1, LitFacts DEF QueueOK
    <3>2. i \in DOMAIN trail
      BY <1>1 DEF TypeOK
    <3> QED BY <1>1, <1>2, <1>4, <3>1, <3>2, TrailFacts
  <2>2. PICK r \in DOMAIN trail' : trail'[r].lit \in ToSet(ca[cr])
    <3>1. PICK l \in ToSet(ca[cr]) : l \in TrueLits'
      BY <1>2, <1>3, <1>4
    <3> QED BY <3>1 DEF TrueLits
  <2>3. trail'[r].level <= decisionLevel /\ decisionLevel' = decisionLevel
    BY DEF TrailOK, decisionLevel
  <2> QED BY <1>2, <1>4, <2>1, <2>2, <2>3 DEF Rescued
<1>5. CASE c = cr /\ trail[p].lit # cur
  <2>1. Due(c, p)
    <3>1. trail[p].lit \in Watched(cr)
      BY <1>2, <1>3, <1>5
    <3> QED BY <1>1, <1>5, <3>1 DEF Due, Pending
  <2>2. Rescued(c, p)
    BY <1>1, <2>1 DEF CoveredOK
  <2> QED BY <1>2, <2>2, RescuedStays
<1>6. CASE c # cr
  <2>1. trail[p].lit = cur => Never(todo, c)
    <3> SUFFICES ASSUME Never(Tail(todo), c) PROVE Never(todo, c)
      BY <1>3
    <3> DEFINE rest == Tail(todo)
    <3>1. \A k \in DOMAIN todo : \/ k = 1 /\ todo[k] = w
                                 \/ k - 1 \in DOMAIN rest /\ todo[k] = rest[k-1]
      BY <1>1
    <3>2. Never(rest, c)
      OBVIOUS
    <3> HIDE DEF rest
    <3> QED BY <1>1, <1>6, <3>1, <3>2 DEF Never
  <2>2. Due(c, p)
    BY <1>1, <1>3, <1>6, <2>1 DEF Due, Pending
  <2>3. Rescued(c, p)
    BY <1>1, <2>2 DEF CoveredOK
  <2> QED BY <1>2, <2>3, RescuedStays
<1> QED BY <1>4, <1>5, <1>6

(* What the order of the literals of the clause visited does not change.   *)
LEMMA TurnedKeeps ==
    ASSUME WatchInv, Visiting, ca' = [ca EXCEPT ![cr] = Turned]
    PROVE  /\ ca' \in Seq(Seq(Lits)) /\ Live' = Live /\ DOMAIN ca' = DOMAIN ca
           /\ \A c \in Live' : ClauseOK(ca'[c])
           /\ \A c \in Live : ToSet(ca'[c]) = ToSet(ca[c]) /\ Watched(c)' = Watched(c)
<1>1. TypeOK /\ cr \in Live
  BY VisitFacts DEF WatchInv
<1>2. /\ Turned \in Seq(Lits) /\ ClauseOK(Turned) /\ ToSet(Turned) = ToSet(ca[cr])
      /\ {-Turned[1], -Turned[2]} = Watched(cr)
  <2>1. -(-cur) = cur
    BY VisitFacts, LitFacts
  <2> QED BY <2>1, TurnedFacts
<1>3. /\ ca' \in Seq(Seq(Lits)) /\ Live' = Live /\ DOMAIN ca' = DOMAIN ca
      /\ ca'[cr] = Turned
      /\ \A c \in DOMAIN ca : c # cr => ca'[c] = ca[c]
      /\ \A c \in Live' : ClauseOK(ca'[c])
  BY <1>1, <1>2, ReplacedClause
<1>4. ASSUME NEW c \in Live PROVE ToSet(ca'[c]) = ToSet(ca[c]) /\ Watched(c)' = Watched(c)
  <2>1. CASE c = cr
    BY <1>2, <1>3, <2>1 DEF Watched
  <2>2. CASE c # cr
    BY <1>1, <1>3, <2>2, ClauseFacts DEF Watched
  <2> QED BY <2>1, <2>2
<1> QED BY <1>3, <1>4

(* The list of the literal visited, with a watcher put back.               *)
LEMMA KeepFacts ==
    ASSUME WatchInv, Visiting, NEW x \in WatchersType, Keep(x), cur' = cur, todo' = Tail(todo)
    PROVE  /\ watches' \in [Lits -> Seq(WatchersType)]
           /\ List(cur)' = Append(watches[cur], x) \o Tail(todo)
           /\ \A l \in Lits : l # cur => List(l)' = watches[l]
<1>1. /\ cur \in Lits /\ watches \in [Lits -> Seq(WatchersType)]
      /\ watches' = [watches EXCEPT ![cur] = Append(watches[cur], x)]
  BY VisitFacts DEF WatchInv, TypeOK, Keep
<1>2. watches'[cur] = Append(watches[cur], x) /\ \A l \in Lits : l # cur => watches'[l] = watches[l]
  BY <1>1
<1>3. watches' \in [Lits -> Seq(WatchersType)]
  <2> DEFINE S == Seq(WatchersType)
  <2>1. watches[cur] \in S /\ Append(watches[cur], x) \in S
    BY <1>1
  <2>2. watches \in [Lits -> S]
    BY <1>1
  <2> HIDE DEF S
  <2>3. watches' \in [Lits -> S]
    BY <1>1, <2>1, <2>2
  <2> QED BY <2>3 DEF S
<1> QED BY <1>2, <1>3 DEF List

(* The visits of a watcher.                                                *)
LEMMA BlockedStep == ASSUME WatchInv, VisitBlocked PROVE WatchInv'
<1>1. /\ TypeOK /\ TrailOK /\ QueueOK /\ Visiting
      /\ IsTrue(w.blocker) /\ Keep(w) /\ todo' = Tail(todo)
      /\ UNCHANGED <<ca, dirty, trail, trail_lim, qhead, cur, confl, cancels>>
  BY DEF WatchInv, VisitBlocked
<1>2. /\ confl = 0 /\ cur \in Lits /\ w \in WatchersType /\ cr = w.cref
      /\ cr \in Live /\ w.blocker \in ToSet(ca[cr]) /\ Tail(todo) \in Seq(WatchersType)
  BY <1>1, VisitFacts
<1>3. /\ watches' \in [Lits -> Seq(WatchersType)]
      /\ List(cur)' = Append(watches[cur], w) \o Tail(todo)
      /\ \A l \in Lits : l # cur => List(l)' = watches[l]
  BY <1>1, <1>2, KeepFacts
<1>4. Live' = Live /\ \A c \in Live : Watched(c)' = Watched(c)
  BY <1>1 DEF Live, Watched
<1>5. TypeOK'
  BY <1>1, <1>2, <1>3, <1>4 DEF TypeOK
<1>6. TrailOK'
  BY <1>1 DEF TrailOK, decisionLevel
<1>7. QueueOK'
  BY <1>1, <1>2, LitFacts DEF QueueOK, decisionLevel
<1>8. ListsOK'
  BY <1>1, <1>2, <1>3, <1>4, KeptLists
<1>9. CoveredOK'
  <2>1. TrueLits' = TrueLits
    BY <1>1 DEF TrueLits
  <2>2. \A c \in Live, l \in TrueLits : c = cr /\ l \in Watched(c)' =>
              \/ l # cur /\ l \in Watched(c)
              \/ l = cur /\ \E k \in ToSet(ca[c]) : k \in TrueLits'
    BY <1>1, <1>2, <1>4, <2>1 DEF IsTrue
  <2> QED BY <1>1, <1>4, <1>5, <1>6, <2>2, VisitCovers
<1> QED BY <1>5, <1>6, <1>7, <1>8, <1>9 DEF WatchInv

(* The watcher gets a true literal as its blocker.                         *)
LEMMA TrueStep == ASSUME WatchInv, VisitTrue PROVE WatchInv'
<1> DEFINE x == Watcher(cr, first)
<1>1. /\ TypeOK /\ TrailOK /\ QueueOK /\ Visiting
      /\ IsTrue(first) /\ ca' = [ca EXCEPT ![cr] = Turned] /\ Keep(x) /\ todo' = Tail(todo)
      /\ UNCHANGED <<dirty, trail, trail_lim, qhead, cur, confl, cancels>>
  BY DEF WatchInv, VisitTrue
<1>2. /\ confl = 0 /\ cur \in Lits /\ cr \in Live /\ Tail(todo) \in Seq(WatchersType)
  BY <1>1, VisitFacts
<1>3. x \in WatchersType /\ x.cref = cr /\ x.blocker \in ToSet(ca[cr]) /\ first \in ToSet(ca[cr])
  BY <1>1, <1>2, TurnedFacts, ClauseFacts DEF Watcher, WatchersType
<1> HIDE DEF x
<1>4. /\ watches' \in [Lits -> Seq(WatchersType)]
      /\ List(cur)' = Append(watches[cur], x) \o Tail(todo)
      /\ \A l \in Lits : l # cur => List(l)' = watches[l]
  BY <1>1, <1>3, KeepFacts
<1>5. /\ ca' \in Seq(Seq(Lits)) /\ Live' = Live /\ DOMAIN ca' = DOMAIN ca
      /\ \A c \in Live' : ClauseOK(ca'[c])
      /\ \A c \in Live : ToSet(ca'[c]) = ToSet(ca[c]) /\ Watched(c)' = Watched(c)
  BY <1>1, TurnedKeeps
<1>6. TypeOK'
  BY <1>1, <1>2, <1>4, <1>5 DEF TypeOK
<1>7. TrailOK'
  BY <1>1 DEF TrailOK, decisionLevel
<1>8. QueueOK'
  BY <1>1, <1>2, LitFacts DEF QueueOK, decisionLevel
<1>9. ListsOK'
  BY <1>1, <1>3, <1>4, <1>5, KeptLists
<1>10. CoveredOK'
  <2>1. TrueLits' = TrueLits
    BY <1>1 DEF TrueLits
  <2>2. \A c \in Live, l \in TrueLits : c = cr /\ l \in Watched(c)' =>
              \/ l # cur /\ l \in Watched(c)
              \/ l = cur /\ \E k \in ToSet(ca[c]) : k \in TrueLits'
    BY <1>1, <1>3, <1>5, <2>1 DEF IsTrue
  <2> QED BY <1>1, <1>5, <1>6, <1>7, <2>2, VisitCovers
<1> QED BY <1>6, <1>7, <1>8, <1>9, <1>10 DEF WatchInv

(* A literal that is neither true nor false becomes true, at the last      *)
(* level or at a new one.                                                  *)
LEMMA TrailGrows ==
    ASSUME TypeOK, TrailOK, NEW l \in Lits, ~ IsTrue(l), ~ IsFalse(l), NEW from \in Nat,
           NEW lim \in Seq(Nat), decisionLevel <= Len(lim),
           \A m \in 1 .. Len(lim) :
              \/ m \in 1 .. decisionLevel /\ lim[m] = trail_lim[m]
              \/ m = decisionLevel + 1 /\ lim[m] = Len(trail),
           trail' = Append(trail, Entry(l, Len(lim), from)), trail_lim' = lim
    PROVE  /\ trail' \in Seq(EntryType) /\ trail_lim' \in Seq(Nat)
           /\ Len(trail) \in Nat /\ Len(trail') = Len(trail) + 1
           /\ decisionLevel' = Len(lim)
           /\ \A i \in DOMAIN trail : i \in DOMAIN trail' /\ trail'[i] = trail[i]
           /\ Len(trail) + 1 \in DOMAIN trail'
           /\ trail'[Len(trail) + 1].lit = l /\ trail'[Len(trail) + 1].level = Len(lim)
           /\ \A i \in DOMAIN trail' : i \in DOMAIN trail \/ i = Len(trail) + 1
           /\ TrailOK'
<1> DEFINE n == Len(trail)
           d == Len(trail_lim)
           e == Entry(l, Len(lim), from)
<1>1. /\ trail \in Seq(EntryType) /\ trail_lim \in Seq(Nat) /\ n \in Nat /\ d \in Nat
      /\ DOMAIN trail = 1 .. n /\ DOMAIN trail_lim = 1 .. d /\ decisionLevel = d
      /\ \A m \in 1 .. d : trail_lim[m] \in Nat /\ trail_lim[m] <= n
  <2>1. /\ trail \in Seq(EntryType) /\ trail_lim \in Seq(Nat) /\ decisionLevel = d
        /\ \A m \in DOMAIN trail_lim : trail_lim[m] <= n
    BY DEF TypeOK, TrailOK, decisionLevel
  <2>2. DOMAIN trail_lim = 1 .. d /\ d \in Nat /\ \A m \in DOMAIN trail_lim : trail_lim[m] \in Nat
    BY <2>1
  <2>3. n \in Nat /\ DOMAIN trail = 1 .. n
    BY <2>1
  <2> HIDE DEF n, d
  <2> QED BY <2>1, <2>2, <2>3
<1>2. /\ Len(lim) \in Nat /\ d <= Len(lim) /\ DOMAIN lim = 1 .. Len(lim)
      /\ \A m \in 1 .. Len(lim) : lim[m] \in Nat /\ lim[m] <= n
      /\ \A m \in 1 .. Len(lim) : \/ m \in 1 .. d /\ lim[m] = trail_lim[m]
                                  \/ m = d + 1 /\ lim[m] = n
  <2>1. \A m \in 1 .. Len(lim) : \/ m \in 1 .. d /\ lim[m] = trail_lim[m]
                                 \/ m = d + 1 /\ lim[m] = n
    BY <1>1
  <2>2. Len(lim) \in Nat /\ d <= Len(lim) /\ DOMAIN lim = 1 .. Len(lim)
    BY <1>1
  <2> HIDE DEF n, d
  <2> QED BY <1>1, <2>1, <2>2
<1>3. e \in EntryType /\ e.lit = l /\ e.level = Len(lim)
  BY <1>2 DEF Entry, EntryType
<1> HIDE DEF n, d, e
<1>4. /\ trail' \in Seq(EntryType) /\ Len(trail') = n + 1 /\ DOMAIN trail' = 1 .. n + 1
      /\ trail'[n + 1] = e /\ \A i \in 1 .. n : trail'[i] = trail[i]
  <2>1. trail' = Append(trail, e)
    BY DEF e
  <2> QED BY <1>1, <1>3, <2>1 DEF n
<1>5. decisionLevel' = Len(lim)
  BY DEF decisionLevel
<1>6. \A i \in DOMAIN trail' : i \in DOMAIN trail \/ i = n + 1
  BY <1>1, <1>4
<1>7. \A i \in 1 .. n : Var(trail[i].lit) # Var(l)
  <2> SUFFICES ASSUME NEW i \in DOMAIN trail, Var(trail[i].lit) = Var(l) PROVE FALSE
    BY <1>1
  <2>1. trail[i].lit \in Lits /\ trail[i].lit \in TrueLits
    BY TrailFacts DEF TrueLits
  <2>2. l \in TrueLits \/ -l \in TrueLits
    <3>1. trail[i].lit = l \/ trail[i].lit = -l
      BY <2>1, LitFacts
    <3> QED BY <2>1, <3>1
  <2> QED BY <2>2 DEF IsTrue, IsFalse
<1>8. \A i, j \in 1 .. n : i # j => Var(trail[i].lit) # Var(trail[j].lit)
  BY <1>1 DEF TrailOK
<1>9. \A i, j \in DOMAIN trail' : i # j => Var(trail'[i].lit) # Var(trail'[j].lit)
  BY <1>1, <1>3, <1>4, <1>6, <1>7, <1>8
<1>10. ASSUME NEW i \in DOMAIN trail'
       PROVE  /\ trail'[i].level <= Len(lim)
              /\ \A m \in 1 .. Len(lim) : trail'[i].level >= m <=> i > lim[m]
  <2>1. CASE i \in 1 .. n
    <3>1. trail'[i] = trail[i] /\ trail[i].level \in Nat /\ trail[i].level <= d
      BY <1>1, <1>4, <2>1, TrailFacts
    <3>2. \A m \in 1 .. d : trail[i].level >= m <=> i > trail_lim[m]
      BY <1>1, <2>1 DEF TrailOK
    <3>3. ~ (trail[i].level >= d + 1) /\ ~ (i > n)
      BY <1>1, <2>1, <3>1
    <3> SUFFICES ASSUME NEW m \in 1 .. Len(lim)
                 PROVE  trail[i].level <= Len(lim) /\ (trail[i].level >= m <=> i > lim[m])
      BY <1>1, <1>2, <3>1
    <3>4. CASE m \in 1 .. d /\ lim[m] = trail_lim[m]
      BY <1>1, <1>2, <3>1, <3>2, <3>4
    <3>5. CASE m = d + 1 /\ lim[m] = n
      BY <1>1, <1>2, <3>1, <3>3, <3>5
    <3> QED BY <1>2, <3>4, <3>5
  <2>2. CASE i = n + 1
    <3>1. trail'[i].level = Len(lim)
      BY <1>3, <1>4, <2>2
    <3> SUFFICES ASSUME NEW m \in 1 .. Len(lim) PROVE Len(lim) >= m /\ n + 1 > lim[m]
      BY <1>2, <2>2, <3>1
    <3> QED BY <1>1, <1>2
  <2> QED BY <1>1, <1>6, <2>1, <2>2
<1>11. TrailOK'
  <2>1. \A m \in DOMAIN trail_lim' : trail_lim'[m] <= Len(trail')
    <3> SUFFICES ASSUME NEW m \in 1 .. Len(lim) PROVE lim[m] <= n + 1
      BY <1>2, <1>4
    <3> QED BY <1>1, <1>2
  <2> QED BY <1>2, <1>5, <1>9, <1>10, <2>1 DEF TrailOK
<1>12. n + 1 \in DOMAIN trail' /\ \A i \in DOMAIN trail : i \in DOMAIN trail' /\ trail'[i] = trail[i]
  BY <1>1, <1>4
<1> QED BY <1>1, <1>2, <1>3, <1>4, <1>5, <1>6, <1>11, <1>12 DEF n

(* A unit clause: the literal that is left rescues it.                     *)
LEMMA UnitStep == ASSUME WatchInv, VisitUnit PROVE WatchInv'
<1> DEFINE x == Watcher(cr, first)
<1>1. /\ TypeOK /\ TrailOK /\ QueueOK /\ Visiting
      /\ ~ IsTrue(first) /\ ~ IsFalse(first)
      /\ ca' = [ca EXCEPT ![cr] = Turned] /\ Keep(x) /\ todo' = Tail(todo)
      /\ trail' = Append(trail, Entry(first, decisionLevel, cr))
      /\ UNCHANGED <<dirty, trail_lim, qhead, cur, confl, cancels>>
  BY DEF WatchInv, VisitUnit
<1>2. /\ confl = 0 /\ cur \in Lits /\ cr \in Live /\ cr \in Nat /\ Tail(todo) \in Seq(WatchersType)
  BY <1>1, VisitFacts, ClauseFacts
<1>3. /\ x \in WatchersType /\ x.cref = cr /\ x.blocker \in ToSet(ca[cr])
      /\ first \in ToSet(ca[cr]) /\ first \in Lits
  BY <1>1, <1>2, TurnedFacts, ClauseFacts DEF Watcher, WatchersType
<1> HIDE DEF x
<1>4. /\ watches' \in [Lits -> Seq(WatchersType)]
      /\ List(cur)' = Append(watches[cur], x) \o Tail(todo)
      /\ \A l \in Lits : l # cur => List(l)' = watches[l]
  BY <1>1, <1>3, KeepFacts
<1>5. /\ ca' \in Seq(Seq(Lits)) /\ Live' = Live /\ DOMAIN ca' = DOMAIN ca
      /\ \A c \in Live' : ClauseOK(ca'[c])
      /\ \A c \in Live : ToSet(ca'[c]) = ToSet(ca[c]) /\ Watched(c)' = Watched(c)
  BY <1>1, TurnedKeeps
<1>6. /\ trail' \in Seq(EntryType) /\ trail_lim' \in Seq(Nat)
      /\ Len(trail) \in Nat /\ Len(trail') = Len(trail) + 1
      /\ decisionLevel' = decisionLevel
      /\ \A i \in DOMAIN trail : i \in DOMAIN trail' /\ trail'[i] = trail[i]
      /\ Len(trail) + 1 \in DOMAIN trail'
      /\ trail'[Len(trail) + 1].lit = first /\ trail'[Len(trail) + 1].level = decisionLevel
      /\ \A i \in DOMAIN trail' : i \in DOMAIN trail \/ i = Len(trail) + 1
      /\ TrailOK'
  <2>1. PICK lim : lim = trail_lim
    OBVIOUS
  <2>2. lim \in Seq(Nat) /\ decisionLevel = Len(lim) /\ Len(lim) \in Nat
    BY <1>1, <2>1 DEF TypeOK, decisionLevel
  <2>3. /\ decisionLevel <= Len(lim)
        /\ \A m \in 1 .. Len(lim) : m \in 1 .. decisionLevel /\ lim[m] = trail_lim[m]
        /\ trail' = Append(trail, Entry(first, Len(lim), cr)) /\ trail_lim' = lim
    BY <1>1, <2>1, <2>2
  <2>4. /\ trail' \in Seq(EntryType) /\ trail_lim' \in Seq(Nat)
        /\ Len(trail) \in Nat /\ Len(trail') = Len(trail) + 1
        /\ decisionLevel' = Len(lim)
        /\ \A i \in DOMAIN trail : i \in DOMAIN trail' /\ trail'[i] = trail[i]
        /\ Len(trail) + 1 \in DOMAIN trail'
        /\ trail'[Len(trail) + 1].lit = first /\ trail'[Len(trail) + 1].level = Len(lim)
        /\ \A i \in DOMAIN trail' : i \in DOMAIN trail \/ i = Len(trail) + 1
        /\ TrailOK'
    BY <1>1, <1>2, <1>3, <2>2, <2>3, TrailGrows
  <2> QED BY <2>2, <2>4
<1>7. qhead \in Nat /\ qhead <= Len(trail) /\ DOMAIN trail = 1 .. Len(trail)
  BY <1>1 DEF TypeOK
<1>8. TypeOK'
  <2>1. qhead' \in 0 .. Len(trail')
    BY <1>1, <1>6, <1>7
  <2> QED BY <1>1, <1>2, <1>4, <1>5, <1>6, <2>1 DEF TypeOK
<1>9. QueueOK'
  <2>1. ASSUME NEW i \in qhead + 1 .. Len(trail') PROVE trail'[i].level = decisionLevel
    <3>1. CASE i = Len(trail) + 1
      BY <1>6, <3>1
    <3>2. CASE i \in qhead + 1 .. Len(trail)
      <4>1. trail[i].level = decisionLevel
        BY <1>1, <1>2, <3>2 DEF QueueOK
      <4>2. i \in DOMAIN trail
        BY <1>7, <3>2
      <4> QED BY <1>6, <4>1, <4>2
    <3> QED BY <1>6, <1>7, <3>1, <3>2
  <2>2. \E i \in 1 .. qhead : trail'[i].lit = cur /\ trail'[i].level = decisionLevel
    <3>1. PICK i \in 1 .. qhead : trail[i].lit = cur /\ trail[i].level = decisionLevel
      BY <1>1, <1>2, LitFacts DEF QueueOK
    <3>2. trail'[i] = trail[i]
      BY <1>6, <1>7
    <3> QED BY <3>1, <3>2
  <2> QED BY <1>1, <1>2, <1>6, <2>1, <2>2, LitFacts DEF QueueOK
<1>10. ListsOK'
  BY <1>1, <1>3, <1>4, <1>5, KeptLists
<1>11. CoveredOK'
  <2>1. first \in TrueLits'
    BY <1>6 DEF TrueLits
  <2>2. \A c \in Live, l \in TrueLits : c = cr /\ l \in Watched(c)' =>
              \/ l # cur /\ l \in Watched(c)
              \/ l = cur /\ \E k \in ToSet(ca[c]) : k \in TrueLits'
    BY <1>3, <1>5, <2>1
  <2> QED BY <1>1, <1>5, <1>6, <1>8, <2>2, VisitCovers
<1> QED BY <1>6, <1>8, <1>9, <1>10, <1>11 DEF WatchInv

(* A false clause: the list is put back, and the last level is undone next. *)
LEMMA FalseStep == ASSUME WatchInv, VisitFalse PROVE WatchInv'
<1> DEFINE x == Watcher(cr, first)
           new == Append(watches[cur], x) \o Tail(todo)
<1>1. /\ TypeOK /\ TrailOK /\ QueueOK /\ CoveredOK /\ Visiting
      /\ ca' = [ca EXCEPT ![cr] = Turned]
      /\ watches' = [watches EXCEPT ![cur] = watches[cur] \o <<x>> \o Tail(todo)]
      /\ todo' = <<>> /\ confl' = cr /\ qhead' = Len(trail)
      /\ UNCHANGED <<dirty, trail, trail_lim, cur, cancels>>
  BY DEF WatchInv, VisitFalse
<1>2. /\ confl = 0 /\ cur \in Lits /\ cr \in Live /\ cr \in Nat /\ cr # 0
      /\ watches[cur] \in Seq(WatchersType) /\ Tail(todo) \in Seq(WatchersType)
  <2>1. cr \in Live /\ cr \in DOMAIN ca /\ ca \in Seq(Seq(Lits))
    BY <1>1, VisitFacts DEF Live, TypeOK
  <2> QED BY <1>1, <2>1, VisitFacts
<1>3. /\ x \in WatchersType /\ x.cref = cr /\ x.blocker \in ToSet(ca[cr])
  BY <1>1, <1>2, TurnedFacts, ClauseFacts DEF Watcher, WatchersType
<1> HIDE DEF x
<1>4. new \in Seq(WatchersType) /\ watches[cur] \o <<x>> \o Tail(todo) = new /\ new \o <<>> = new
  <2>1. watches[cur] \o <<x>> = Append(watches[cur], x)
    BY <1>2, <1>3
  <2>2. Append(watches[cur], x) \in Seq(WatchersType)
    BY <1>2, <1>3
  <2>3. new \in Seq(WatchersType)
    BY <1>2, <2>2
  <2>4. new \o <<>> = new
    <3> HIDE DEF new
    <3> QED BY <2>3
  <2> QED BY <2>1, <2>3, <2>4
<1> HIDE DEF new
<1>5. /\ watches' \in [Lits -> Seq(WatchersType)]
      /\ List(cur)' = new
      /\ \A l \in Lits : l # cur => List(l)' = watches[l]
  <2> DEFINE S == Seq(WatchersType)
  <2>1. watches' = [watches EXCEPT ![cur] = new]
    BY <1>1, <1>4
  <2>2. watches \in [Lits -> S] /\ new \in S
    BY <1>1, <1>4 DEF TypeOK
  <2> HIDE DEF S
  <2>3. watches' \in [Lits -> S]
    BY <1>2, <2>1, <2>2
  <2>4. watches'[cur] = new /\ \A l \in Lits : l # cur => watches'[l] = watches[l]
    BY <1>2, <2>1, <2>2
  <2> QED BY <1>1, <1>4, <2>3, <2>4 DEF List, S
<1>6. /\ ca' \in Seq(Seq(Lits)) /\ Live' = Live /\ DOMAIN ca' = DOMAIN ca
      /\ \A c \in Live' : ClauseOK(ca'[c])
      /\ \A c \in Live : ToSet(ca'[c]) = ToSet(ca[c]) /\ Watched(c)' = Watched(c)
  BY <1>1, TurnedKeeps
<1>7. /\ qhead \in Nat /\ Len(trail) \in Nat /\ qhead <= Len(trail) /\ DOMAIN trail = 1 .. Len(trail)
      /\ <<>> \in Seq(WatchersType)
  BY <1>1 DEF TypeOK
<1>8. PICK i \in 1 .. qhead : trail[i].lit = cur /\ trail[i].level = decisionLevel
  BY <1>1, <1>2, LitFacts DEF QueueOK
<1>9. TypeOK'
  <2>1. qhead' \in 0 .. Len(trail')
    BY <1>1, <1>7
  <2> QED BY <1>1, <1>2, <1>5, <1>6, <1>7, <2>1 DEF TypeOK
<1>10. TrailOK'
  BY <1>1 DEF TrailOK, decisionLevel
<1>11. QueueOK'
  <2>1. i \in 1 .. Len(trail)
    BY <1>7
  <2> QED BY <1>1, <1>2, <1>8, <2>1, LitFacts DEF QueueOK, decisionLevel
<1>12. ListsOK'
  BY <1>1, <1>3, <1>5, <1>6, KeptLists DEF new
<1>13. CoveredOK'
  <2> SUFFICES ASSUME NEW c \in Live, NEW p \in 1 .. Len(trail), Due(c, p)'
               PROVE  Rescued(c, p)'
    BY <1>1, <1>6 DEF CoveredOK
  <2>1. trail[p].lit \in Watched(c) /\ trail[p].level < decisionLevel /\ p \in DOMAIN trail
    BY <1>1, <1>2, <1>6, <1>7 DEF Due, decisionLevel
  <2>2. trail[p].level \in Nat /\ decisionLevel \in Nat
    BY <1>1, <2>1, TrailFacts
  <2>3. p \in 1 .. qhead
    <3> SUFFICES ASSUME p \in qhead + 1 .. Len(trail) PROVE FALSE
      BY <1>7
    <3>1. trail[p].level = decisionLevel
      BY <1>1, <1>2 DEF QueueOK
    <3> QED BY <2>1, <2>2, <3>1
  <2>4. trail[p].lit # cur
    <3>1. i \in DOMAIN trail /\ p # i
      BY <1>7, <1>8, <2>1, <2>2
    <3> QED BY <1>1, <1>8, <2>1, <3>1, TrailFacts
  <2>5. Rescued(c, p)
    BY <1>1, <1>2, <2>1, <2>3, <2>4 DEF CoveredOK, Due, Pending
  <2> QED BY <1>1, <1>6, <2>1, <2>5, RescuedStays
<1> QED BY <1>9, <1>10, <1>11, <1>12, <1>13 DEF WatchInv

(* The watcher goes to the list of a literal that is not false.            *)
LEMMA MoveStep == ASSUME WatchInv, VisitMove PROVE WatchInv'
<1> DEFINE x == Watcher(cr, first)
<1>1. /\ TypeOK /\ TrailOK /\ QueueOK /\ ListsOK /\ Visiting
      /\ todo' = Tail(todo)
      /\ UNCHANGED <<dirty, trail, trail_lim, qhead, cur, confl, cancels>>
  BY DEF WatchInv, VisitMove
<1>2. PICK k \in Free : /\ ca' = [ca EXCEPT ![cr] = Moved(k)]
                        /\ watches' = [watches EXCEPT ![-Turned[k]] = Append(@, x)]
  BY DEF VisitMove, Moved
<1>3. /\ confl = 0 /\ cur \in Lits /\ cr \in Live /\ cr \in Nat
      /\ watches[cur] \in Seq(WatchersType) /\ todo \in Seq(WatchersType) /\ todo # <<>>
      /\ Tail(todo) \in Seq(WatchersType) /\ Head(todo).cref = cr
  BY <1>1, VisitFacts, ClauseFacts DEF Visiting
<1>4. /\ x \in WatchersType /\ x.cref = cr /\ x.blocker = first /\ first \in ToSet(ca[cr])
      /\ first \in Lits /\ Watched(cr) = {-first, cur}
  BY <1>1, <1>3, TurnedFacts, ClauseFacts DEF Watcher, WatchersType
<1> HIDE DEF x
<1>17. PICK to : to = -Turned[k]
  OBVIOUS
<1>5. /\ Moved(k) \in Seq(Lits) /\ ClauseOK(Moved(k)) /\ ToSet(Moved(k)) = ToSet(ca[cr])
      /\ Moved(k)[1] = first /\ -Moved(k)[2] = to /\ to \in Lits /\ to \notin TrueLits
      /\ to # cur /\ to # -first /\ -first \in Lits /\ -first # cur
  BY <1>1, <1>4, <1>17, MovedFacts, TurnedFacts, LitFacts DEF IsFalse
<1>6. /\ ca' \in Seq(Seq(Lits)) /\ Live' = Live /\ DOMAIN ca' = DOMAIN ca
      /\ ca'[cr] = Moved(k)
      /\ \A c \in DOMAIN ca : c # cr => ca'[c] = ca[c]
      /\ \A c \in Live' : ClauseOK(ca'[c])
  <2> DEFINE T == Moved(k)
  <2>1. T \in Seq(Lits) /\ ClauseOK(T) /\ ca' = [ca EXCEPT ![cr] = T]
    BY <1>2, <1>5
  <2> HIDE DEF T
  <2> QED BY <1>1, <1>3, <2>1, ReplacedClause DEF T
<1>7. \A c \in Live : /\ c # cr => Watched(c)' = Watched(c)
                      /\ c = cr => Watched(c)' = {-first, to}
                      /\ ToSet(ca'[c]) = ToSet(ca[c])
  BY <1>1, <1>5, <1>6, ClauseFacts DEF Watched
<1>8. /\ watches' \in [Lits -> Seq(WatchersType)]
      /\ watches'[to] = Append(watches[to], x)
      /\ \A l \in Lits : l # to => watches'[l] = watches[l]
      /\ watches[to] \in Seq(WatchersType)
  <2> DEFINE S == Seq(WatchersType)
  <2>1. watches' = [watches EXCEPT ![to] = Append(watches[to], x)]
    BY <1>2, <1>17
  <2>2. watches \in [Lits -> S] /\ Append(watches[to], x) \in S
    BY <1>1, <1>4, <1>5 DEF TypeOK
  <2> HIDE DEF S
  <2>3. watches' \in [Lits -> S] /\ watches[to] \in S
    BY <1>5, <2>1, <2>2
  <2> QED BY <1>5, <2>1, <2>2, <2>3 DEF S
<1> DEFINE old == watches[cur] \o todo
           new == watches[cur] \o Tail(todo)
<1>9. /\ \A l \in Lits : l = cur => List(l) = old /\ List(l)' = new
      /\ \A l \in Lits : l = to => List(l) = watches[to] /\ List(l)' = Append(watches[to], x)
      /\ \A l \in Lits : l # cur /\ l # to => List(l) = watches[l] /\ List(l)' = watches[l]
  BY <1>1, <1>3, <1>5, <1>8 DEF List
<1>10. \A i \in DOMAIN new : \E j \in DOMAIN old : new[i] = old[j]
  <2> DEFINE kept == watches[cur]
             rest == Tail(todo)
  <2>1. /\ \A i \in DOMAIN kept : i \in DOMAIN old /\ old[i] = kept[i]
        /\ \A i \in DOMAIN todo : Len(kept) + i \in DOMAIN old /\ old[Len(kept) + i] = todo[i]
    BY <1>3
  <2>2. \A i \in DOMAIN rest : i + 1 \in DOMAIN todo /\ rest[i] = todo[i + 1]
    BY <1>3
  <2>3. \A i \in DOMAIN new : \/ i \in DOMAIN kept /\ new[i] = kept[i]
                              \/ i - Len(kept) \in DOMAIN rest /\ new[i] = rest[i - Len(kept)]
    BY <1>3
  <2> HIDE DEF old, new, kept, rest
  <2> SUFFICES ASSUME NEW i \in DOMAIN new PROVE \E j \in DOMAIN old : new[i] = old[j]
    OBVIOUS
  <2>4. CASE i \in DOMAIN kept /\ new[i] = kept[i]
    BY <2>1, <2>4
  <2>5. CASE i - Len(kept) \in DOMAIN rest /\ new[i] = rest[i - Len(kept)]
    <3>1. PICK j \in DOMAIN todo : new[i] = todo[j]
      BY <2>2, <2>5
    <3> QED BY <2>1, <3>1
  <2> QED BY <2>3, <2>4, <2>5
<1>11. \A c \in Nat : /\ c = cr /\ Once(old, c)  => Never(new, c)
                      /\ c # cr /\ Once(old, c)  => Once(new, c)
                      /\ Never(old, c) => Never(new, c)
  <2> DEFINE kept == watches[cur]
  <2> HIDE DEF kept
  <2> QED BY <1>3, Removing DEF kept
<1> HIDE DEF old, new
<1>12. TypeOK'
  BY <1>1, <1>3, <1>6, <1>8 DEF TypeOK
<1>13. TrailOK'
  BY <1>1 DEF TrailOK, decisionLevel
<1>14. QueueOK'
  BY <1>1, <1>3, LitFacts DEF QueueOK, decisionLevel
<1>15. ListsOK'
  <2> DEFINE Fine(l, y) == /\ y.cref \in DOMAIN ca'
                           /\ l \notin dirty' => y.cref \in Live'
                           /\ y.cref \in Live' => y.blocker \in ToSet(ca'[y.cref])
  <2>1. \A l \in Lits : \A j \in DOMAIN List(l) : Fine(l, List(l)[j])
    BY <1>1, <1>6, <1>7 DEF ListsOK
  <2>2. \A l : Fine(l, x)
    BY <1>3, <1>4, <1>6, <1>7 DEF Live
  <2> HIDE DEF Fine
  <2>3. ASSUME NEW l \in Lits, NEW j \in DOMAIN List(l)' PROVE Fine(l, List(l)'[j])
    <3>1. CASE l = cur
      BY <1>9, <1>10, <2>1, <3>1
    <3>2. CASE l = to
      <4>1. DOMAIN List(l)' = 1 .. Len(watches[to]) + 1 /\ DOMAIN List(l) = 1 .. Len(watches[to])
            /\ Len(watches[to]) \in Nat
        BY <1>4, <1>8, <1>9, <3>2
      <4>2. CASE j \in DOMAIN List(l)
        <5>1. List(l)'[j] = List(l)[j]
          <6>1. \A i \in 1 .. Len(watches[to]) : Append(watches[to], x)[i] = watches[to][i]
            BY <1>4, <1>8
          <6> QED BY <1>9, <3>2, <4>1, <4>2, <6>1
        <5> QED BY <2>1, <4>2, <5>1
      <4>3. CASE j = Len(watches[to]) + 1
        <5>1. List(l)'[j] = x
          BY <1>4, <1>8, <1>9, <3>2, <4>3
        <5> QED BY <2>2, <5>1
      <4> QED BY <4>1, <4>2, <4>3
    <3>3. CASE l # cur /\ l # to
      BY <1>9, <2>1, <3>3
    <3> QED BY <3>1, <3>2, <3>3
  <2>4. ASSUME NEW c \in Live, NEW l \in Lits
        PROVE  /\ l \in Watched(c)' => Once(List(l)', c)
               /\ l \notin Watched(c)' => Never(List(l)', c)
    <3>1. /\ l \in Watched(c) => Once(List(l), c)
          /\ l \notin Watched(c) => Never(List(l), c)
          /\ c \in Nat
      BY <1>1, ClauseFacts DEF ListsOK
    <3>2. CASE l = cur
      <4>1. c = cr => l \in Watched(c) /\ l \notin Watched(c)'
        BY <1>4, <1>5, <1>7, <3>2
      <4> QED BY <1>7, <1>9, <1>11, <3>1, <3>2, <4>1
    <3>3. CASE l = to
      <4>1. c = cr => l \notin Watched(c) /\ l \in Watched(c)'
        BY <1>4, <1>5, <1>7, <3>3
      <4>2. /\ c # cr /\ Once(watches[to], c)  => Once(Append(watches[to], x), c)
            /\ c # cr /\ Never(watches[to], c) => Never(Append(watches[to], x), c)
            /\ c = cr /\ Never(watches[to], c) => Once(Append(watches[to], x), c)
        BY <1>4, <1>8, <3>1, Appending
      <4> QED BY <1>7, <1>9, <3>1, <3>3, <4>1, <4>2
    <3>4. CASE l # cur /\ l # to
      <4>1. l \in Watched(c)' <=> l \in Watched(c)
        BY <1>4, <1>7, <3>4
      <4> QED BY <1>9, <3>1, <3>4, <4>1
    <3> QED BY <3>2, <3>3, <3>4
  <2>5. \A c \in Live', l \in Lits : /\ l \in Watched(c)' => Once(List(l), c)'
                                     /\ l \notin Watched(c)' => Never(List(l), c)'
    BY <1>6, <2>4 DEF Once, Never
  <2>6. cur' \notin dirty'
    BY <1>1 DEF ListsOK
  <2> QED BY <2>3, <2>5, <2>6 DEF ListsOK, Fine
<1>16. CoveredOK'
  <2>1. \A c \in Live, l \in TrueLits : c = cr /\ l \in Watched(c)' =>
              \/ l # cur /\ l \in Watched(c)
              \/ l = cur /\ \E j \in ToSet(ca[c]) : j \in TrueLits'
    BY <1>4, <1>5, <1>7
  <2> QED BY <1>1, <1>6, <1>7, <1>12, <1>13, <2>1, VisitCovers
<1> QED BY <1>12, <1>13, <1>14, <1>15, <1>16 DEF WatchInv

(* The next literal: what its list holds is all still to visit.            *)
LEMMA DequeueStep == ASSUME WatchInv, Dequeue PROVE WatchInv'
<1>0. PICK p : p = trail[qhead + 1].lit
  OBVIOUS
<1>1. /\ TypeOK /\ TrailOK /\ QueueOK /\ ListsOK /\ CoveredOK
      /\ cur = 0 /\ qhead < Len(trail) /\ cur' = p
      /\ todo' = (IF p \in dirty THEN Cleaned(watches[p]) ELSE watches[p])
      /\ watches' = [watches EXCEPT ![p] = <<>>]
      /\ dirty' = dirty \ {p} /\ qhead' = qhead + 1
      /\ UNCHANGED <<ca, trail, trail_lim, confl, cancels>>
  BY <1>0 DEF WatchInv, Dequeue
<1>2. /\ qhead \in Nat /\ Len(trail) \in Nat /\ DOMAIN trail = 1 .. Len(trail)
      /\ qhead + 1 \in DOMAIN trail /\ p \in Lits
      /\ watches \in [Lits -> Seq(WatchersType)] /\ watches[p] \in Seq(WatchersType)
  <2>1. /\ qhead \in Nat /\ Len(trail) \in Nat /\ DOMAIN trail = 1 .. Len(trail)
        /\ qhead + 1 \in DOMAIN trail
    BY <1>1 DEF TypeOK
  <2>2. p \in Lits
    BY <1>0, <1>1, <2>1, TrailFacts
  <2> QED BY <1>1, <2>1, <2>2 DEF TypeOK
<1>3. confl = 0 /\ trail[qhead + 1].level = decisionLevel
  <2>1. confl = 0
    <3>1. qhead < Len(trail)
      BY DEF Dequeue
    <3>2. qhead \in Nat /\ Len(trail) \in Nat
      BY <1>2
    <3>3. qhead # Len(trail)
      BY <3>1, <3>2
    <3>4. QueueOK
      BY <1>1
    <3> QED BY <3>3, <3>4 DEF QueueOK
  <2>2. qhead + 1 \in qhead + 1 .. Len(trail)
    BY <1>1, <1>2
  <2> QED BY <1>1, <2>1, <2>2 DEF QueueOK
<1>4. Live' = Live /\ Live \subseteq Nat /\ \A c : Watched(c)' = Watched(c)
  BY <1>1, ClauseFacts DEF Live, Watched
<1>5. \A l \in Lits : List(l) = watches[l]
  BY <1>1, LitFacts DEF List
<1>6. /\ todo' \in Seq(WatchersType)
      /\ \A k \in DOMAIN todo' : /\ todo'[k].cref \in Live
                                 /\ \E j \in DOMAIN watches[p] : todo'[k] = watches[p][j]
      /\ \A c \in Live : /\ Once(watches[p], c)  => Once(todo', c)
                         /\ Never(watches[p], c) => Never(todo', c)
  <2>1. CASE p \in dirty
    BY <1>1, <1>2, <1>4, <2>1, CleanedIs
  <2>2. CASE p \notin dirty
    BY <1>1, <1>2, <1>5, <2>2 DEF ListsOK
  <2> QED BY <2>1, <2>2
<1>7. /\ watches' \in [Lits -> Seq(WatchersType)]
      /\ \A l \in Lits : l = p => List(l)' = todo'
      /\ \A l \in Lits : l # p => List(l)' = watches[l]
  <2> DEFINE S == Seq(WatchersType)
             none == <<>>
  <2>1. none \in S /\ none \o todo' = todo'
    BY <1>6
  <2>2. watches \in [Lits -> S] /\ watches' = [watches EXCEPT ![p] = none]
    BY <1>1, <1>2
  <2> HIDE DEF S, none
  <2>3. /\ watches' \in [Lits -> S] /\ watches'[p] = none
        /\ \A l \in Lits : l # p => watches'[l] = watches[l]
    BY <1>2, <2>1, <2>2
  <2> QED BY <1>1, <2>1, <2>3 DEF List, S
<1>8. TypeOK'
  <2>1. qhead' \in 0 .. Len(trail')
    BY <1>1, <1>2
  <2>2. dirty' \subseteq Lits
    BY <1>1 DEF TypeOK
  <2> QED BY <1>1, <1>2, <1>4, <1>6, <1>7, <2>1, <2>2 DEF TypeOK
<1>9. TrailOK'
  BY <1>1 DEF TrailOK, decisionLevel
<1>10. QueueOK'
  <2>1. qhead + 1 \in 1 .. qhead + 1
    BY <1>2
  <2>2. \E i \in 1 .. qhead' : trail'[i].lit = cur' /\ trail'[i].level = decisionLevel'
    BY <1>0, <1>1, <1>3, <2>1 DEF decisionLevel
  <2>3. \A i \in qhead' + 1 .. Len(trail') : trail'[i].level = decisionLevel'
    <3>1. \A i \in qhead + 1 + 1 .. Len(trail) : i \in qhead + 1 .. Len(trail)
      BY <1>2
    <3> QED BY <1>1, <1>3, <3>1 DEF QueueOK, decisionLevel
  <2> QED BY <1>1, <1>2, <1>3, <2>2, <2>3, LitFacts DEF QueueOK
<1>11. ListsOK'
  <2> DEFINE Fine(l, y) == /\ y.cref \in DOMAIN ca
                           /\ l \notin dirty => y.cref \in Live
                           /\ y.cref \in Live => y.blocker \in ToSet(ca[y.cref])
             Fine1(l, y) == /\ y.cref \in DOMAIN ca'
                            /\ l \notin dirty' => y.cref \in Live'
                            /\ y.cref \in Live' => y.blocker \in ToSet(ca'[y.cref])
  <2>1. \A l \in Lits : \A j \in DOMAIN watches[l] : Fine(l, watches[l][j])
    BY <1>1, <1>5 DEF ListsOK
  <2>2. \A l, y : Fine(l, y) /\ (l # p \/ y.cref \in Live) => Fine1(l, y)
    BY <1>1, <1>4
  <2> HIDE DEF Fine, Fine1
  <2>3. ASSUME NEW l \in Lits, NEW j \in DOMAIN List(l)' PROVE Fine1(l, List(l)'[j])
    <3>1. CASE l = p
      <4>1. todo'[j].cref \in Live /\ \E k \in DOMAIN watches[p] : todo'[j] = watches[p][k]
        BY <1>6, <1>7, <3>1
      <4>2. Fine(p, todo'[j])
        BY <1>2, <2>1, <4>1
      <4> QED BY <1>7, <2>2, <3>1, <4>1, <4>2
    <3>2. CASE l # p
      BY <1>7, <2>1, <2>2, <3>2
    <3> QED BY <3>1, <3>2
  <2>4. ASSUME NEW c \in Live, NEW l \in Lits
        PROVE  /\ l \in Watched(c)' => Once(List(l)', c)
               /\ l \notin Watched(c)' => Never(List(l)', c)
    BY <1>1, <1>4, <1>5, <1>6, <1>7 DEF ListsOK
  <2>5. \A c \in Live', l \in Lits : /\ l \in Watched(c)' => Once(List(l), c)'
                                     /\ l \notin Watched(c)' => Never(List(l), c)'
    BY <1>4, <2>4 DEF Once, Never
  <2>6. cur' \notin dirty'
    BY <1>1
  <2> QED BY <2>3, <2>5, <2>6 DEF ListsOK, Fine1
<1>12. CoveredOK'
  <2> SUFFICES ASSUME NEW c \in Live, NEW q \in 1 .. qhead + 1, Due(c, q)'
               PROVE  Rescued(c, q)'
    BY <1>1, <1>4 DEF CoveredOK
  <2>1. trail[q].lit \in Watched(c) /\ (trail[q].lit = p => Never(todo', c))
    BY <1>1, <1>4 DEF Due, Pending, Never
  <2>2. q # qhead + 1
    <3> SUFFICES ASSUME q = qhead + 1 PROVE FALSE
      OBVIOUS
    <3>1. trail[q].lit = p
      BY <1>0
    <3>2. Once(todo', c)
      BY <1>1, <1>2, <1>5, <1>6, <2>1, <3>1 DEF ListsOK
    <3> QED BY <2>1, <3>1, <3>2, OnceIsThere
  <2>3. q \in 1 .. qhead /\ q \in DOMAIN trail
    BY <1>1, <1>2, <2>2
  <2>4. trail[q].lit # cur
    BY <1>1, <2>3, TrailFacts, LitFacts
  <2>5. Rescued(c, q)
    BY <1>1, <1>3, <2>1, <2>3, <2>4 DEF CoveredOK, Due, Pending
  <2> QED BY <1>1, <2>3, <2>5, RescuedStays
<1> QED BY <1>8, <1>9, <1>10, <1>11, <1>12 DEF WatchInv

(* The end of a list: it is whole again.                                   *)
LEMMA DequeuedStep == ASSUME WatchInv, Dequeued PROVE WatchInv'
<1>1. /\ TypeOK /\ TrailOK /\ QueueOK /\ ListsOK /\ CoveredOK
      /\ cur # 0 /\ todo = <<>> /\ cur' = 0
      /\ UNCHANGED <<ca, watches, dirty, trail, trail_lim, qhead, todo, confl, cancels>>
  BY DEF WatchInv, Dequeued
<1>2. Live' = Live /\ \A c : Watched(c)' = Watched(c)
  BY <1>1 DEF Live, Watched
<1>3. \A l \in Lits : List(l) = watches[l] /\ List(l)' = watches[l]
  <2>1. \A l \in Lits : watches[l] \in Seq(WatchersType)
    BY <1>1 DEF TypeOK
  <2>2. \A l \in Lits : watches[l] \o <<>> = watches[l]
    BY <2>1
  <2> QED BY <1>1, <2>2, LitFacts DEF List
<1>4. TypeOK'
  BY <1>1, <1>2 DEF TypeOK
<1>5. TrailOK'
  BY <1>1 DEF TrailOK, decisionLevel
<1>6. QueueOK'
  BY <1>1 DEF QueueOK, decisionLevel
<1>7. ListsOK'
  <2>1. cur' \notin dirty'
    BY <1>1, LitFacts DEF TypeOK
  <2>2. \A c \in Live', l \in Lits : /\ l \in Watched(c)' => Once(List(l), c)'
                                     /\ l \notin Watched(c)' => Never(List(l), c)'
    BY <1>1, <1>2, <1>3 DEF ListsOK, Once, Never
  <2>3. \A l \in Lits : \A k \in DOMAIN List(l)' :
            LET y == List(l)'[k]
            IN  /\ y.cref \in DOMAIN ca'
                /\ l \notin dirty' => y.cref \in Live'
                /\ y.cref \in Live' => y.blocker \in ToSet(ca'[y.cref])
    BY <1>1, <1>2, <1>3 DEF ListsOK
  <2> QED BY <2>1, <2>2, <2>3 DEF ListsOK
<1>8. CoveredOK'
  <2> SUFFICES ASSUME NEW c \in Live, NEW p \in 1 .. qhead, Due(c, p)' PROVE Rescued(c, p)'
    BY <1>1, <1>2 DEF CoveredOK
  <2>1. Never(todo, c)
    BY <1>1 DEF Never
  <2>2. Due(c, p)
    BY <1>1, <1>2, <2>1 DEF Due, Pending, decisionLevel
  <2>3. Rescued(c, p) /\ p \in DOMAIN trail
    BY <1>1, <2>2 DEF CoveredOK, TypeOK
  <2> QED BY <1>1, <2>3, RescuedStays
<1> QED BY <1>4, <1>5, <1>6, <1>7, <1>8 DEF WatchInv

-----------------------------------------------------------------------------
(* What search() does.                                                     *)

(* The lists do not see what happens to the trail.                         *)
LEMMA ListsStay ==
    ASSUME ListsOK, UNCHANGED <<ca, watches, dirty, cur, todo>>
    PROVE  ListsOK'
<1>1. Live' = Live /\ (\A c : Watched(c)' = Watched(c)) /\ (\A l : List(l)' = List(l))
  BY DEF Live, Watched, List
<1>2. \A c \in Live', l \in Lits : /\ l \in Watched(c)' => Once(List(l), c)'
                                   /\ l \notin Watched(c)' => Never(List(l), c)'
  BY <1>1 DEF ListsOK, Once, Never
<1>3. \A l \in Lits : \A k \in DOMAIN List(l)' :
          LET y == List(l)'[k]
          IN  /\ y.cref \in DOMAIN ca'
              /\ l \notin dirty' => y.cref \in Live'
              /\ y.cref \in Live' => y.blocker \in ToSet(ca'[y.cref])
  BY <1>1 DEF ListsOK
<1>4. cur' \notin dirty'
  BY DEF ListsOK
<1> QED BY <1>2, <1>3, <1>4 DEF ListsOK

(* A decision: every literal was propagated, and the new one is not yet.   *)
LEMMA DecideStep == ASSUME WatchInv, Decide PROVE WatchInv'
<1> DEFINE lim == Append(trail_lim, Len(trail))
<1>1. /\ TypeOK /\ TrailOK /\ QueueOK /\ ListsOK /\ CoveredOK
      /\ cur = 0 /\ qhead = Len(trail) /\ confl = 0 /\ trail_lim' = lim
      /\ UNCHANGED <<ca, watches, dirty, qhead, cur, todo, confl, cancels>>
  BY DEF WatchInv, Decide, Returned
<1>2. PICK l \in Lits : /\ ~ IsTrue(l) /\ ~ IsFalse(l)
                        /\ trail' = Append(trail, Entry(l, decisionLevel + 1, 0))
  BY DEF Decide
<1>3. /\ lim \in Seq(Nat) /\ Len(lim) = decisionLevel + 1 /\ decisionLevel \in Nat
      /\ \A m \in 1 .. Len(lim) : \/ m \in 1 .. decisionLevel /\ lim[m] = trail_lim[m]
                                  \/ m = decisionLevel + 1 /\ lim[m] = Len(trail)
  <2> DEFINE N == Nat
             n == Len(trail)
  <2>1. trail_lim \in Seq(N) /\ n \in N /\ decisionLevel = Len(trail_lim)
    BY <1>1 DEF TypeOK, decisionLevel
  <2> HIDE DEF N, n
  <2>2. lim = Append(trail_lim, n)
    BY DEF n
  <2> HIDE DEF lim
  <2>3. /\ lim \in Seq(N) /\ Len(lim) = decisionLevel + 1 /\ decisionLevel \in Nat
        /\ \A m \in 1 .. decisionLevel : lim[m] = trail_lim[m]
        /\ lim[decisionLevel + 1] = n
    BY <2>1, <2>2
  <2> QED BY <2>3 DEF N, n
<1> HIDE DEF lim
<1>4. decisionLevel <= Len(lim) /\ trail' = Append(trail, Entry(l, Len(lim), 0)) /\ 0 \in Nat
  BY <1>2, <1>3
<1>5. /\ trail' \in Seq(EntryType) /\ trail_lim' \in Seq(Nat)
      /\ Len(trail) \in Nat /\ Len(trail') = Len(trail) + 1
      /\ decisionLevel' = Len(lim)
      /\ \A i \in DOMAIN trail : i \in DOMAIN trail' /\ trail'[i] = trail[i]
      /\ trail'[Len(trail) + 1].level = Len(lim)
      /\ TrailOK'
  BY <1>1, <1>2, <1>3, <1>4, TrailGrows
<1>6. Live' = Live /\ \A c : Watched(c)' = Watched(c)
  BY <1>1 DEF Live, Watched
<1>7. TypeOK'
  <2>1. qhead' \in 0 .. Len(trail')
    BY <1>1, <1>5
  <2> QED BY <1>1, <1>5, <1>6, <2>1 DEF TypeOK
<1>8. QueueOK'
  <2>1. \A i \in qhead' + 1 .. Len(trail') : trail'[i].level = decisionLevel'
    <3>1. \A i \in Len(trail) + 1 .. Len(trail) + 1 : i = Len(trail) + 1
      BY <1>5
    <3> QED BY <1>1, <1>5, <3>1
  <2>2. cur' = 0 /\ todo' = <<>> /\ confl' = 0
    BY <1>1 DEF QueueOK
  <2> QED BY <2>1, <2>2 DEF QueueOK
<1>9. ListsOK'
  BY <1>1, ListsStay
<1>10. CoveredOK'
  <2> SUFFICES ASSUME NEW c \in Live, NEW p \in 1 .. qhead, Due(c, p)' PROVE Rescued(c, p)'
    BY <1>1, <1>6 DEF CoveredOK
  <2>1. p \in DOMAIN trail /\ trail'[p] = trail[p] /\ trail[p].lit # cur
    <3>1. p \in DOMAIN trail
      BY <1>1 DEF TypeOK
    <3> QED BY <1>1, <1>5, <3>1, TrailFacts, LitFacts
  <2>2. Due(c, p)
    BY <1>1, <1>6, <2>1 DEF Due, Pending
  <2>3. Rescued(c, p)
    BY <1>1, <2>2 DEF CoveredOK
  <2> QED BY <1>1, <1>5, <2>1, <2>3, RescuedStays
<1> QED BY <1>5, <1>7, <1>8, <1>9, <1>10 DEF WatchInv

(* What rescued a clause before a decision was undone is of no later a     *)
(* level, and still there.                                                 *)
LEMMA CancelCovers ==
    ASSUME WatchInv, Returned, NEW lev \in 0 .. decisionLevel - 1,
           \A i \in 1 .. qhead' : i \in DOMAIN trail /\ i \in DOMAIN trail' /\ trail'[i] = trail[i],
           \A i \in DOMAIN trail : i <= qhead' <=> trail[i].level <= lev,
           NEW c \in Live, ca'[c] = ca[c],
           NEW p \in 1 .. qhead', trail'[p].lit \in Watched(c)
    PROVE  Rescued(c, p)'
<1>1. /\ TypeOK /\ TrailOK /\ CoveredOK /\ cur = 0 /\ qhead = Len(trail)
      /\ decisionLevel \in Nat /\ DOMAIN trail = 1 .. Len(trail)
  <2>1. TypeOK /\ TrailOK /\ CoveredOK /\ cur = 0 /\ qhead = Len(trail)
    BY DEF WatchInv, Returned
  <2> QED BY <2>1 DEF TypeOK, decisionLevel
<1>2. p \in DOMAIN trail /\ p \in 1 .. qhead /\ trail'[p] = trail[p] /\ trail[p].lit \in Watched(c)
  BY <1>1
<1>3. trail[p].level \in Nat /\ trail[p].level <= lev /\ trail[p].lit \in Lits
  <2>1. p <= qhead'
    OBVIOUS
  <2> QED BY <1>1, <1>2, <2>1, TrailFacts
<1>4. Due(c, p)
  BY <1>1, <1>2, <1>3, LitFacts DEF Due, Pending
<1>5. PICK k \in DOMAIN trail : trail[k].lit \in ToSet(ca[c]) /\ trail[k].level <= trail[p].level
  BY <1>1, <1>2, <1>4 DEF CoveredOK, Rescued
<1>6. trail[k].level \in Nat /\ lev \in Nat
  BY <1>1, <1>5, TrailFacts
<1>7. k <= qhead'
  BY <1>3, <1>5, <1>6
<1>8. k \in 1 .. qhead'
  BY <1>1, <1>7
<1> QED BY <1>2, <1>5, <1>8 DEF Rescued

(* Decisions are undone, and the lists and the clauses are as they were.   *)
LEMMA CancelStep ==
    ASSUME WatchInv, Returned, NEW lev \in 0 .. decisionLevel - 1,
           NEW then \in Seq(EntryType), Len(then) <= 1,
           \A k \in DOMAIN then : /\ then[k].level = lev
                                  /\ level(then[k].lit) > lev
                                  /\ then[k].lit \in TrueLits \/ -then[k].lit \in TrueLits,
           Cancel(lev, then), confl' = 0,
           UNCHANGED <<ca, watches, dirty, cur, todo>>
    PROVE  WatchInv'
<1>1. TypeOK /\ TrailOK /\ QueueOK /\ ListsOK /\ cur = 0
  BY DEF WatchInv, Returned
<1>2. /\ trail' \in Seq(EntryType) /\ trail_lim' \in Seq(Nat) /\ cancels' \in Nat
      /\ qhead' \in 0 .. Len(trail')
      /\ decisionLevel' = lev
      /\ \A i \in 1 .. qhead' : i \in DOMAIN trail /\ i \in DOMAIN trail' /\ trail'[i] = trail[i]
      /\ \A i \in DOMAIN trail : i <= qhead' <=> trail[i].level <= lev
      /\ \A i \in qhead' + 1 .. Len(trail') : trail'[i].level = lev
      /\ TrailOK'
  BY <1>1, CancelFacts
<1>3. Live' = Live /\ \A c : Watched(c)' = Watched(c)
  BY DEF Live, Watched
<1>4. TypeOK'
  BY <1>1, <1>2, <1>3 DEF TypeOK
<1>5. QueueOK'
  BY <1>1, <1>2 DEF QueueOK
<1>6. ListsOK'
  BY <1>1, ListsStay
<1>7. CoveredOK'
  <2> SUFFICES ASSUME NEW c \in Live, NEW p \in 1 .. qhead', Due(c, p)' PROVE Rescued(c, p)'
    BY <1>3 DEF CoveredOK
  <2>1. trail'[p].lit \in Watched(c)
    BY <1>3 DEF Due
  <2> QED BY <1>2, <2>1, CancelCovers
<1> QED BY <1>2, <1>4, <1>5, <1>6, <1>7 DEF WatchInv

(* A restart undoes all decisions.                                         *)
LEMMA RestartStep == ASSUME WatchInv, Restart PROVE WatchInv'
<1>1. Returned /\ Cancel(0, <<>>) /\ confl' = 0 /\ UNCHANGED <<ca, watches, dirty, cur, todo>>
  BY DEF Restart
<1>2. 0 \in 0 .. decisionLevel - 1
  <2>1. decisionLevel > 0 /\ decisionLevel \in Nat
    BY TrailFacts DEF Restart, WatchInv
  <2> QED BY <2>1
<1>3. <<>> \in Seq(EntryType) /\ Len(<<>>) <= 1 /\ DOMAIN <<>> = {}
  OBVIOUS
<1>4. PICK then : then = <<>>
  OBVIOUS
<1>5. /\ then \in Seq(EntryType) /\ Len(then) <= 1 /\ Cancel(0, then)
      /\ \A k \in DOMAIN then : /\ then[k].level = 0
                                /\ level(then[k].lit) > 0
                                /\ then[k].lit \in TrueLits \/ -then[k].lit \in TrueLits
  BY <1>1, <1>3, <1>4
<1> QED BY <1>1, <1>2, <1>5, CancelStep

(* The literal of a clause that is not stored becomes true at level 0.     *)
LEMMA LearnUnitStep == ASSUME WatchInv, LearnUnit PROVE WatchInv'
<1>1. PICK l \in {-k : k \in TrueLits} : level(l) = decisionLevel /\ Cancel(0, <<Entry(l, 0, 0)>>)
  BY DEF LearnUnit
<1>2. /\ TypeOK /\ TrailOK /\ Returned /\ confl' = 0 /\ decisionLevel > 0
      /\ UNCHANGED <<ca, watches, dirty, cur, todo>>
  BY DEF LearnUnit, WatchInv
<1>3. l \in Lits /\ -l \in TrueLits /\ decisionLevel \in Nat
  BY <1>1, <1>2, TrailFacts, LitFacts
<1>4. PICK then : then = <<Entry(l, 0, 0)>>
  OBVIOUS
<1>5. /\ then \in Seq(EntryType) /\ Len(then) <= 1 /\ Cancel(0, then)
      /\ \A k \in DOMAIN then : k = 1
      /\ then[1].level = 0 /\ then[1].lit = l
  BY <1>1, <1>3, <1>4 DEF Entry, EntryType
<1>6. 0 \in 0 .. decisionLevel - 1
  BY <1>2, <1>3
<1>7. \A k \in DOMAIN then : /\ then[k].level = 0
                             /\ level(then[k].lit) > 0
                             /\ then[k].lit \in TrueLits \/ -then[k].lit \in TrueLits
  BY <1>1, <1>2, <1>3, <1>5
<1> QED BY <1>2, <1>5, <1>6, <1>7, CancelStep

(* A clause is removed: its watchers stay where the lists are dirty.       *)
LEMMA ForgetStep == ASSUME WatchInv, Forget PROVE WatchInv'
<1>1. PICK c \in Live : /\ dirty' = dirty \cup {-ca[c][1], -ca[c][2]}
                        /\ ca' = [ca EXCEPT ![c] = <<>>]
  BY DEF Forget
<1>2. /\ TypeOK /\ TrailOK /\ QueueOK /\ ListsOK /\ CoveredOK /\ cur = 0 /\ todo = <<>>
      /\ UNCHANGED <<watches, trail, trail_lim, qhead, cur, todo, confl, cancels>>
  BY DEF Forget, WatchInv, Returned, QueueOK
<1>3. /\ c \in DOMAIN ca /\ c \in Nat /\ Watched(c) \subseteq Lits /\ dirty' = dirty \cup Watched(c)
  BY <1>1, <1>2, ClauseFacts, LitFacts DEF Watched
<1>4. /\ DOMAIN ca' = DOMAIN ca /\ ca' \in Seq(Seq(Lits)) /\ ca'[c] = <<>>
      /\ \A d \in DOMAIN ca : d # c => ca'[d] = ca[d]
  <2> DEFINE S == Seq(Lits)
             none == <<>>
  <2>1. ca \in Seq(S) /\ none \in S /\ ca' = [ca EXCEPT ![c] = none]
    BY <1>1, <1>2 DEF TypeOK
  <2> HIDE DEF S, none
  <2>2. /\ DOMAIN ca' = DOMAIN ca /\ ca' \in Seq(S) /\ ca'[c] = none
        /\ \A d \in DOMAIN ca : d # c => ca'[d] = ca[d]
    BY <1>3, <2>1
  <2> QED BY <2>2 DEF S, none
<1>5. /\ Live' = Live \ {c}
      /\ \A d \in Live' : d \in Live /\ d # c /\ d \in Nat /\ ca'[d] = ca[d] /\ Watched(d)' = Watched(d)
  <2>1. Live' = Live \ {c}
    BY <1>3, <1>4 DEF Live
  <2> QED BY <1>2, <1>4, <2>1, ClauseFacts DEF Live, Watched
<1>6. \A l : List(l)' = List(l)
  BY <1>2 DEF List
<1>7. TypeOK'
  <2>1. \A d \in Live' : ClauseOK(ca'[d])
    BY <1>2, <1>5 DEF TypeOK
  <2>2. dirty' \subseteq Lits
    BY <1>2, <1>3 DEF TypeOK
  <2> QED BY <1>2, <1>4, <2>1, <2>2 DEF TypeOK
<1>8. TrailOK' /\ QueueOK'
  BY <1>2 DEF TrailOK, QueueOK, decisionLevel
<1>9. ListsOK'
  <2>1. ASSUME NEW l \in Lits, NEW k \in DOMAIN List(l)
        PROVE  LET x == List(l)[k]
               IN  /\ x.cref \in DOMAIN ca'
                   /\ l \notin dirty' => x.cref \in Live'
                   /\ x.cref \in Live' => x.blocker \in ToSet(ca'[x.cref])
    <3> DEFINE x == List(l)[k]
    <3>1. /\ x.cref \in DOMAIN ca
          /\ l \notin dirty => x.cref \in Live
          /\ x.cref \in Live => x.blocker \in ToSet(ca[x.cref])
      BY <1>2 DEF ListsOK
    <3>2. l \notin Watched(c) => x.cref # c
      BY <1>2 DEF ListsOK, Never
    <3> HIDE DEF x
    <3>3. l \notin dirty' => x.cref \in Live'
      BY <1>3, <1>5, <3>1, <3>2
    <3>4. x.cref \in Live' => x.blocker \in ToSet(ca'[x.cref])
      BY <1>5, <3>1
    <3> QED BY <1>4, <3>1, <3>3, <3>4 DEF x
  <2>2. \A l \in Lits : \A k \in DOMAIN List(l)' :
            LET x == List(l)'[k]
            IN  /\ x.cref \in DOMAIN ca'
                /\ l \notin dirty' => x.cref \in Live'
                /\ x.cref \in Live' => x.blocker \in ToSet(ca'[x.cref])
    BY <1>6, <2>1
  <2>3. \A d \in Live', l \in Lits : /\ l \in Watched(d)' => Once(List(l), d)'
                                     /\ l \notin Watched(d)' => Never(List(l), d)'
    <3> SUFFICES ASSUME NEW d \in Live', NEW l \in Lits
                 PROVE  /\ l \in Watched(d)' => Once(List(l), d)'
                        /\ l \notin Watched(d)' => Never(List(l), d)'
      OBVIOUS
    <3>1. /\ l \in Watched(d) => Once(List(l), d)
          /\ l \notin Watched(d) => Never(List(l), d)
      BY <1>2, <1>5 DEF ListsOK
    <3> QED BY <1>5, <1>6, <3>1 DEF Once, Never
  <2>4. cur' \notin dirty'
    BY <1>2, <1>3, LitFacts DEF TypeOK
  <2> QED BY <2>2, <2>3, <2>4 DEF ListsOK
<1>10. CoveredOK'
  <2> SUFFICES ASSUME NEW d \in Live', NEW p \in 1 .. qhead, Due(d, p)' PROVE Rescued(d, p)'
    BY <1>2 DEF CoveredOK
  <2>1. d \in Live /\ ca'[d] = ca[d] /\ Watched(d)' = Watched(d) /\ p \in DOMAIN trail
    BY <1>2, <1>5 DEF TypeOK
  <2>2. Due(d, p)
    BY <1>2, <2>1 DEF Due, Pending, Never, decisionLevel
  <2>3. Rescued(d, p)
    BY <1>2, <2>1, <2>2 DEF CoveredOK
  <2> QED BY <1>2, <2>1, <2>3, RescuedStays
<1> QED BY <1>7, <1>8, <1>9, <1>10 DEF WatchInv

(* The sequences that SetToSeqs gives for literals that are false.         *)
LEMMA OthersAre ==
    ASSUME TypeOK, TrailOK, NEW rest, rest \subseteq {-k : k \in TrueLits}, rest # {},
           NEW others \in SetToSeqs(rest)
    PROVE  /\ others \in Seq(Lits) /\ Len(others) \in Nat \ {0}
           /\ \A i \in DOMAIN others : others[i] \in rest
           /\ \A i, j \in DOMAIN others : i # j => others[i] # others[j]
<1> DEFINE n == Cardinality(rest)
<1>1. n \in Nat \ {0}
  <2>1. Len(trail) \in Nat /\ DOMAIN trail = 1 .. Len(trail)
    BY DEF TypeOK
  <2>2. IsFiniteSet(1 .. Len(trail))
    BY <2>1, FS_Interval
  <2>3. IsFiniteSet({-trail[i].lit : i \in 1 .. Len(trail)})
    <3> DEFINE D == 1 .. Len(trail)
               T == {-trail[i].lit : i \in D}
               f == [i \in D |-> -trail[i].lit]
    <3>1. f \in Surjection(D, T)
      BY DEF Surjection
    <3> HIDE DEF D, T, f
    <3>2. IsFiniteSet(D)
      BY <2>2 DEF D
    <3>3. IsFiniteSet(T)
      BY <3>1, <3>2, FS_Surjection
    <3> QED BY <3>3 DEF T, D
  <2>4. rest \subseteq {-trail[i].lit : i \in 1 .. Len(trail)}
    BY <2>1 DEF TrueLits
  <2>5. IsFiniteSet(rest)
    BY <2>3, <2>4, FS_Subset
  <2> QED BY <2>5, FS_CardinalityType, FS_EmptySet
<1>2. others \in [1 .. n -> rest] /\ \A i, j \in 1 .. n : i # j => others[i] # others[j]
  BY DEF SetToSeqs
<1> HIDE DEF n
<1>3. rest \subseteq Lits
  BY TrailFacts, LitFacts
<1>4. others \in [1 .. n -> Lits]
  BY <1>2, <1>3
<1>5. others \in Seq(Lits) /\ Len(others) = n /\ DOMAIN others = 1 .. n
  BY <1>1, <1>4
<1> QED BY <1>1, <1>2, <1>5

(* A literal in front of others.                                           *)
LEMMA Prefixed ==
    ASSUME NEW S, NEW e \in S, NEW others \in Seq(S), NEW c, c = <<e>> \o others
    PROVE  /\ c \in Seq(S) /\ Len(c) = Len(others) + 1 /\ DOMAIN c = 1 .. Len(c) /\ c[1] = e
           /\ \A i \in 2 .. Len(c) : i - 1 \in DOMAIN others /\ c[i] = others[i - 1]
<1> DEFINE one == <<e>>
<1>1. one \in Seq(S) /\ Len(one) = 1 /\ one[1] = e
  OBVIOUS
<1> HIDE DEF one
<1>2. c = one \o others
  BY DEF one
<1>3. c \in Seq(S) /\ Len(c) = Len(others) + 1 /\ Len(others) \in Nat
  BY <1>1, <1>2
<1>4. DOMAIN c = 1 .. Len(c) /\ DOMAIN others = 1 .. Len(others)
  BY <1>3
<1>5. c[1] = one[1]
  BY <1>1, <1>2
<1>6. \A i \in 2 .. Len(c) : c[i] = others[i - 1]
  BY <1>1, <1>2, <1>3
<1>7. \A i \in 2 .. Len(c) : i - 1 \in DOMAIN others
  BY <1>3, <1>4
<1> QED BY <1>1, <1>3, <1>4, <1>5, <1>6, <1>7

(* A clause is learnt: its first literal becomes true, and where its       *)
(* second one is watched, that literal is of the same level.               *)
LEMMA LearnStep == ASSUME WatchInv, Learn PROVE WatchInv'
<1>1. /\ TypeOK /\ TrailOK /\ QueueOK /\ ListsOK /\ Returned /\ cur = 0 /\ todo = <<>> /\ confl' = 0
      /\ UNCHANGED <<dirty, cur, todo>>
  BY DEF Learn, WatchInv, Returned, QueueOK
<1>2. PICK l \in {-k : k \in TrueLits} :
        /\ level(l) = decisionLevel
        /\ \E rest \in (SUBSET {-k : k \in TrueLits}) \ {{}} :
             /\ \A k \in rest : level(k) \in 1 .. decisionLevel - 1
             /\ \E others \in SetToSeqs(rest) :
                  LET c   == <<l>> \o others
                      new == Len(ca) + 1
                      lev == level(others[1])
                  IN  /\ \A k \in rest : level(k) <= lev
                      /\ ca' = Append(ca, c)
                      /\ watches' = Attached(watches, new, c)
                      /\ Cancel(lev, <<Entry(l, lev, new)>>)
  BY DEF Learn
<1>3. PICK rest \in (SUBSET {-k : k \in TrueLits}) \ {{}} :
        /\ \A k \in rest : level(k) \in 1 .. decisionLevel - 1
        /\ \E others \in SetToSeqs(rest) :
             LET c   == <<l>> \o others
                 new == Len(ca) + 1
                 lev == level(others[1])
             IN  /\ \A k \in rest : level(k) <= lev
                 /\ ca' = Append(ca, c)
                 /\ watches' = Attached(watches, new, c)
                 /\ Cancel(lev, <<Entry(l, lev, new)>>)
  BY <1>2
<1>4. PICK others \in SetToSeqs(rest) :
        LET c   == <<l>> \o others
            new == Len(ca) + 1
            lev == level(others[1])
        IN  /\ \A k \in rest : level(k) <= lev
            /\ ca' = Append(ca, c)
            /\ watches' = Attached(watches, new, c)
            /\ Cancel(lev, <<Entry(l, lev, new)>>)
  BY <1>3
<1>5. PICK c, new, lev, then : /\ c = <<l>> \o others /\ new = Len(ca) + 1 /\ lev = level(others[1])
                               /\ then = <<Entry(l, lev, new)>>
  OBVIOUS
<1>6. /\ \A k \in rest : level(k) <= lev
      /\ ca' = Append(ca, c) /\ watches' = Attached(watches, new, c) /\ Cancel(lev, then)
  BY <1>4, <1>5
<1>7. /\ l \in Lits /\ -l \in TrueLits /\ decisionLevel \in Nat
      /\ \A k \in rest : k \in Lits /\ -k \in TrueLits
  BY <1>1, TrailFacts, LitFacts
<1>8. /\ others \in Seq(Lits) /\ Len(others) \in Nat \ {0}
      /\ \A i \in DOMAIN others : others[i] \in rest
      /\ \A i, j \in DOMAIN others : i # j => others[i] # others[j]
  BY <1>1, OthersAre
<1>9. /\ c \in Seq(Lits) /\ Len(c) = Len(others) + 1 /\ Len(c) > 1 /\ DOMAIN c = 1 .. Len(c)
      /\ c[1] = l /\ c[2] = others[1] /\ 1 \in DOMAIN others /\ others[1] \in rest
      /\ \A i \in DOMAIN c : \/ i = 1
                             \/ i - 1 \in DOMAIN others /\ c[i] = others[i - 1]
  <2>1. /\ c \in Seq(Lits) /\ Len(c) = Len(others) + 1 /\ DOMAIN c = 1 .. Len(c) /\ c[1] = l
        /\ \A i \in 2 .. Len(c) : i - 1 \in DOMAIN others /\ c[i] = others[i - 1]
    BY <1>5, <1>7, <1>8, Prefixed
  <2>2. \A i \in DOMAIN c : i = 1 \/ i \in 2 .. Len(c)
    BY <1>8, <2>1
  <2>3. 1 \in DOMAIN others /\ 2 \in 2 .. Len(c) /\ 2 - 1 = 1
    BY <1>8, <2>1
  <2>4. c[2] = others[1] /\ others[1] \in rest
    BY <1>8, <2>1, <2>3
  <2> QED BY <1>8, <2>1, <2>2, <2>3, <2>4
<1>10. lev \in Nat /\ lev \in 0 .. decisionLevel - 1 /\ lev < decisionLevel
  BY <1>3, <1>5, <1>7, <1>9
<1>11. ClauseOK(c)
  <2>1. ASSUME NEW i \in DOMAIN c, NEW j \in DOMAIN c, i # j PROVE c[i] # c[j]
    <3>1. l \notin rest
      BY <1>2, <1>3, <1>7
    <3> QED BY <1>8, <1>9, <2>1, <3>1
  <2>2. \A i \in DOMAIN c : c[i] \in Lits /\ -c[i] \in TrueLits
    BY <1>7, <1>8, <1>9
  <2>3. ASSUME NEW i \in DOMAIN c, NEW j \in DOMAIN c, i # j PROVE Var(c[i]) # Var(c[j])
    <3>1. c[i] # -c[j]
      <4>1. -(-c[j]) \notin TrueLits
        BY <1>1, <2>2, TrailFacts
      <4> QED BY <2>2, <4>1, LitFacts
    <3> QED BY <2>1, <2>2, <2>3, <3>1, LitFacts
  <2> QED BY <1>9, <2>3 DEF ClauseOK
<1>12. /\ then \in Seq(EntryType) /\ Len(then) <= 1 /\ 1 \in DOMAIN then
       /\ then[1].level = lev /\ then[1].lit = l
       /\ \A k \in DOMAIN then : /\ then[k].level = lev
                                 /\ level(then[k].lit) > lev
                                 /\ then[k].lit \in TrueLits \/ -then[k].lit \in TrueLits
  <2>1. new \in Nat
    BY <1>1, <1>5 DEF TypeOK
  <2>2. Entry(l, lev, new) \in EntryType /\ Entry(l, lev, new).level = lev /\ Entry(l, lev, new).lit = l
    BY <1>7, <1>10, <2>1 DEF Entry, EntryType
  <2>3. then \in Seq(EntryType) /\ Len(then) = 1 /\ DOMAIN then = {1} /\ then[1] = Entry(l, lev, new)
    BY <1>5, <2>2
  <2>4. level(l) > lev
    BY <1>2, <1>7, <1>10
  <2> QED BY <1>7, <2>2, <2>3, <2>4
<1>13. /\ trail' \in Seq(EntryType) /\ trail_lim' \in Seq(Nat) /\ cancels' \in Nat
       /\ qhead' \in 0 .. Len(trail')
       /\ decisionLevel' = lev
       /\ \A i \in 1 .. qhead' : i \in DOMAIN trail /\ i \in DOMAIN trail' /\ trail'[i] = trail[i]
       /\ \A i \in DOMAIN trail : i <= qhead' <=> trail[i].level <= lev
       /\ \A i \in qhead' + 1 .. Len(trail') : trail'[i].level = lev
       /\ qhead' + 1 \in DOMAIN trail' /\ trail'[qhead' + 1] = then[1]
       /\ TrailOK'
  BY <1>1, <1>6, <1>10, <1>12, CancelFacts
<1>14. /\ ca' \in Seq(Seq(Lits)) /\ new \in Nat /\ new \notin DOMAIN ca
       /\ DOMAIN ca' = DOMAIN ca \cup {new} /\ ca'[new] = c
       /\ \A d \in DOMAIN ca : ca'[d] = ca[d]
  <2> DEFINE S == Seq(Lits)
  <2>1. ca \in Seq(S) /\ c \in S
    BY <1>1, <1>9 DEF TypeOK
  <2> HIDE DEF S
  <2>2. /\ ca' \in Seq(S) /\ new \in Nat /\ new \notin DOMAIN ca
        /\ DOMAIN ca' = 1 .. new /\ DOMAIN ca = 1 .. new - 1 /\ ca'[new] = c
        /\ \A d \in DOMAIN ca : ca'[d] = ca[d]
    BY <1>5, <1>6, <2>1
  <2>3. 1 .. new = (1 .. new - 1) \cup {new}
    <3>1. Len(ca) \in Nat /\ new = Len(ca) + 1
      BY <1>5, <2>1
    <3> QED BY <3>1
  <2> QED BY <2>2, <2>3 DEF S
<1>15. /\ Live' = Live \cup {new}
       /\ \A d \in Live : d # new /\ d \in Nat /\ d \in DOMAIN ca /\ Watched(d)' = Watched(d)
       /\ Watched(new)' = {-c[1], -c[2]}
  <2>1. c # <<>>
    BY <1>9
  <2>2. Live' = Live \cup {new}
    BY <1>14, <2>1 DEF Live
  <2> QED BY <1>1, <1>14, <2>2, ClauseFacts DEF Watched
<1>16. HasAttached(watches', watches, new, c)
  <2>1. watches \in [Lits -> Seq(WatchersType)] /\ c[1] # c[2]
    <3>1. Var(c[1]) # Var(c[2])
      BY <1>9, <1>11 DEF ClauseOK
    <3> QED BY <1>1, <3>1 DEF TypeOK
  <2> QED BY <1>6, <1>9, <1>14, <2>1, AttachedIs
<1>17. \A m \in Lits : List(m) = watches[m] /\ List(m)' = watches'[m]
  BY <1>1, LitFacts DEF List
<1>18. TypeOK'
  <2>1. \A d \in Live' : ClauseOK(ca'[d])
    BY <1>1, <1>11, <1>14, <1>15 DEF TypeOK
  <2>2. watches' \in [Lits -> Seq(WatchersType)]
    BY <1>16 DEF HasAttached
  <2> QED BY <1>1, <1>13, <1>14, <2>1, <2>2 DEF TypeOK
<1>19. QueueOK'
  BY <1>1, <1>13 DEF QueueOK
<1>20. ListsOK'
  <2> DEFINE Fine(m, x) == /\ x.cref \in DOMAIN ca
                           /\ m \notin dirty => x.cref \in Live
                           /\ x.cref \in Live => x.blocker \in ToSet(ca[x.cref])
             Fine1(m, x) == /\ x.cref \in DOMAIN ca'
                            /\ m \notin dirty' => x.cref \in Live'
                            /\ x.cref \in Live' => x.blocker \in ToSet(ca'[x.cref])
  <2>1. \A m \in Lits : \A k \in DOMAIN watches[m] : Fine(m, watches[m][k])
    BY <1>1, <1>17 DEF ListsOK
  <2>2. \A m, x : Fine(m, x) => Fine1(m, x)
    BY <1>1, <1>14, <1>15
  <2>3. \A m, x : x.cref = new /\ x.blocker \in ToSet(c) => Fine1(m, x)
    BY <1>14, <1>15
  <2>4. \A m \in Lits : Never(watches[m], new)
    BY <1>14, <2>1 DEF Never
  <2> HIDE DEF Fine, Fine1
  <2>5. \A m \in Lits : \A k \in DOMAIN watches'[m] : Fine1(m, watches'[m][k])
    BY <1>16, <2>1, <2>2, <2>3 DEF HasAttached
  <2>6. ASSUME NEW d \in Live', NEW m \in Lits
        PROVE  /\ m \in Watched(d)' => Once(List(m)', d)
               /\ m \notin Watched(d)' => Never(List(m)', d)
    <3>1. CASE d = new
      BY <1>15, <1>16, <1>17, <2>4, <3>1 DEF HasAttached
    <3>2. CASE d \in Live
      <4>1. /\ m \in Watched(d) => Once(watches[m], d)
            /\ m \notin Watched(d) => Never(watches[m], d)
        BY <1>1, <1>17, <3>2 DEF ListsOK
      <4> QED BY <1>15, <1>16, <1>17, <3>2, <4>1 DEF HasAttached
    <3> QED BY <1>15, <3>1, <3>2
  <2>7. \A d \in Live', m \in Lits : /\ m \in Watched(d)' => Once(List(m), d)'
                                     /\ m \notin Watched(d)' => Never(List(m), d)'
    BY <2>6 DEF Once, Never
  <2>8. cur' \notin dirty'
    BY <1>1 DEF ListsOK
  <2>9. \A m \in Lits : \A k \in DOMAIN List(m)' : Fine1(m, List(m)'[k])
    BY <1>17, <2>5
  <2> QED BY <2>7, <2>8, <2>9 DEF ListsOK, Fine1
<1>21. CoveredOK'
  <2> SUFFICES ASSUME NEW d \in Live', NEW p \in 1 .. qhead', Due(d, p)' PROVE Rescued(d, p)'
    BY DEF CoveredOK
  <2>1. trail'[p].lit \in Watched(d)'
    BY DEF Due
  <2>2. CASE d \in Live
    <3>1. ca'[d] = ca[d] /\ trail'[p].lit \in Watched(d)
      BY <1>14, <1>15, <2>1, <2>2
    <3> QED BY <1>1, <1>10, <1>13, <2>2, <3>1, CancelCovers
  <2>3. CASE d = new
    <3>1. /\ p \in DOMAIN trail /\ trail'[p] = trail[p] /\ trail[p].level <= lev
          /\ trail[p].lit \in Lits /\ trail[p].level \in Nat
          /\ level(-trail[p].lit) = trail[p].level
      <4>1. p \in DOMAIN trail /\ trail'[p] = trail[p] /\ p <= qhead'
        BY <1>13
      <4> QED BY <1>1, <1>13, <4>1, TrailFacts
    <3>2. trail[p].lit = -l \/ trail[p].lit = -others[1]
      BY <1>9, <1>15, <2>1, <2>3, <3>1
    <3>3. -trail[p].lit = l \/ -trail[p].lit = others[1]
      BY <1>7, <1>9, <3>2, LitFacts
    <3>4. -trail[p].lit = others[1]
      BY <1>2, <1>10, <3>1, <3>3
    <3>5. trail[p].level = lev
      BY <1>5, <3>1, <3>4
    <3>6. l \in ToSet(ca'[new])
      <4>1. 1 \in DOMAIN c
        BY <1>8, <1>9
      <4>2. c[1] \in ToSet(c)
        BY <4>1 DEF ToSet
      <4> QED BY <1>9, <1>14, <4>2
    <3>7. trail'[qhead' + 1].lit = l /\ trail'[qhead' + 1].level = lev
      BY <1>12, <1>13
    <3>8. lev <= trail'[p].level
      BY <1>10, <3>1, <3>5
    <3> QED BY <1>13, <2>3, <3>6, <3>7, <3>8 DEF Rescued
  <2> QED BY <1>15, <2>2, <2>3
<1> QED BY <1>13, <1>18, <1>19, <1>20, <1>21 DEF WatchInv

-----------------------------------------------------------------------------
(* The theorems.                                                           *)

(* Every step keeps the invariant.                                         *)
LEMMA WatchStep == WatchInv /\ [Next]_vars => WatchInv'
<1> SUFFICES ASSUME WatchInv, [Next]_vars PROVE WatchInv'
  OBVIOUS
<1>1. CASE Next
  BY <1>1, DequeueStep, BlockedStep, TrueStep, MoveStep, UnitStep, FalseStep, DequeuedStep,
     DecideStep, RestartStep, LearnStep, LearnUnitStep, ForgetStep DEF Next
<1>2. CASE UNCHANGED vars
  <2>1. UNCHANGED <<ca, watches, dirty, trail, trail_lim, qhead, cur, todo, confl, cancels>>
    BY <1>2 DEF vars
  <2>2. TypeOK'
    BY <2>1 DEF WatchInv, TypeOK, Live
  <2>3. TrailOK' /\ QueueOK'
    BY <2>1 DEF WatchInv, TrailOK, QueueOK, decisionLevel
  <2>4. ListsOK'
    BY <2>1, ListsStay DEF WatchInv
  <2>5. CoveredOK'
    BY <2>1 DEF WatchInv, CoveredOK, Due, Pending, Rescued, Never, Watched, Live, decisionLevel
  <2> QED BY <2>2, <2>3, <2>4, <2>5 DEF WatchInv
<1> QED BY <1>1, <1>2

(* The invariant, with the type of the variables, holds always.            *)
THEOREM WatchInvHolds == Spec => []WatchInv
<1>1. Init => WatchInv
  BY WatchInit
<1>2. WatchInv /\ [Next]_vars => WatchInv'
  BY WatchStep
<1> QED BY <1>1, <1>2, PTL DEF Spec

(* When propagate() returns without a conflict, no clause that is there is *)
(* false or unit (Solver.cc:506-564).                                      *)
THEOREM MissesNothing == Spec => []NothingMissed
<1>1. WatchInv => NothingMissed
  <2> SUFFICES ASSUME WatchInv, Returned, confl = 0, NEW c \in Live,
                      ~ \E k \in DOMAIN ca[c] : IsTrue(ca[c][k])
               PROVE  \E j, k \in DOMAIN ca[c] : j # k /\ ~ IsFalse(ca[c][j]) /\ ~ IsFalse(ca[c][k])
    BY DEF NothingMissed
  <2>1. TypeOK /\ TrailOK /\ CoveredOK /\ cur = 0 /\ qhead = Len(trail) /\ DOMAIN trail = 1 .. qhead
    BY DEF WatchInv, Returned, TypeOK
  <2>2. \A p : ~ Rescued(c, p)
    BY DEF Rescued, IsTrue, TrueLits, ToSet
  <2>3. \A p \in DOMAIN trail : trail[p].lit \notin Watched(c)
    <3> SUFFICES ASSUME NEW p \in DOMAIN trail, trail[p].lit \in Watched(c) PROVE FALSE
      OBVIOUS
    <3>1. trail[p].lit # cur
      BY <2>1, TrailFacts, LitFacts
    <3>2. Due(c, p)
      BY <3>1 DEF Due, Pending
    <3> QED BY <2>1, <2>2, <3>2 DEF CoveredOK
  <2>4. ~ IsFalse(ca[c][1]) /\ ~ IsFalse(ca[c][2])
    BY <2>3 DEF Watched, IsFalse, TrueLits
  <2>5. 1 \in DOMAIN ca[c] /\ 2 \in DOMAIN ca[c]
    BY <2>1, ClauseFacts
  <2> QED BY <2>4, <2>5
<1> QED BY <1>1, WatchInvHolds, PTL

(* Every clause is once in the lists of its first two literals and in no   *)
(* other, and no visit comes to a clause that was removed                  *)
(* (Solver.cc:194-219).                                                    *)
THEOREM AlwaysWatched == Spec => []WatchedTwice
<1>1. ASSUME WatchInv, cur = 0, NEW c \in Live, NEW l \in Lits
      PROVE  LET places == {k \in DOMAIN watches[l] : watches[l][k].cref = c}
             IN  /\ Cardinality(places) = IF l \in {-ca[c][1], -ca[c][2]} THEN 1 ELSE 0
                 /\ \A k \in places : watches[l][k].blocker \in ToSet(ca[c])
  <2> DEFINE places == {k \in DOMAIN watches[l] : watches[l][k].cref = c}
  <2>1. ListsOK /\ List(l) = watches[l]
    BY <1>1, LitFacts DEF WatchInv, List
  <2>2. \A k \in places : watches[l][k].blocker \in ToSet(ca[c])
    BY <2>1 DEF ListsOK
  <2>3. CASE l \in Watched(c)
    <3>1. Once(watches[l], c)
      BY <2>1, <2>3 DEF ListsOK
    <3>2. PICK k \in DOMAIN watches[l] : \A j \in DOMAIN watches[l] : watches[l][j].cref = c <=> j = k
      BY <3>1 DEF Once
    <3>3. places = {k}
      BY <3>2
    <3> HIDE DEF places
    <3>4. Cardinality(places) = 1
      BY <3>3, FS_Singleton
    <3> QED BY <2>2, <2>3, <3>4 DEF Watched, places
  <2>4. CASE l \notin Watched(c)
    <3>1. Never(watches[l], c)
      BY <2>1, <2>4 DEF ListsOK
    <3>2. places = {}
      BY <3>1 DEF Never
    <3> HIDE DEF places
    <3>3. Cardinality(places) = 0
      BY <3>2, FS_EmptySet
    <3> QED BY <2>2, <2>4, <3>3 DEF Watched, places
  <2> QED BY <2>3, <2>4
<1>2. ASSUME WatchInv, NEW k \in DOMAIN todo PROVE todo[k].cref \in Live
  <2>1. TypeOK /\ QueueOK /\ ListsOK
    BY <1>2 DEF WatchInv
  <2>2. cur \in Lits /\ cur # 0
    BY <2>1 DEF TypeOK, QueueOK
  <2> DEFINE kept == watches[cur]
  <2>3. kept \in Seq(WatchersType) /\ todo \in Seq(WatchersType)
    BY <2>1, <2>2 DEF TypeOK
  <2>4. List(cur) = kept \o todo
    BY DEF List
  <2> HIDE DEF kept
  <2>5. Len(kept) + k \in DOMAIN (kept \o todo) /\ (kept \o todo)[Len(kept) + k] = todo[k]
    BY <2>3
  <2>6. cur \notin dirty
    BY <2>1 DEF ListsOK
  <2>7. \A j \in DOMAIN List(cur) : List(cur)[j].cref \in Live
    BY <2>1, <2>2, <2>6 DEF ListsOK
  <2> QED BY <2>4, <2>5, <2>7
<1>3. WatchInv => WatchedTwice
  BY <1>1, <1>2 DEF WatchedTwice
<1> QED BY <1>3, WatchInvHolds, PTL

=============================================================================

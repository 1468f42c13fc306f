---------------------------- MODULE SolverProofs ----------------------------
(***************************************************************************)
(* Proofs about the core solver, for any number of variables, any user and *)
(* any sequence of calls: the implication graph is sound, a variable that  *)
(* is handed out again is constrained by nothing, and the oracle that the  *)
(* rest of the program expects is implemented.                             *)
(***************************************************************************)
EXTENDS Solver, NumberLemmas

-----------------------------------------------------------------------------
(* The inductive invariant.  Its parts about the trail are stated of any   *)
(* trail t, decisions lim and clauses C.                                   *)

EntryType == [lit : Lits, level : Nat, reason : SUBSET Lits]
DB == clauses \cup learnts

(* The variables stay in the domains that the declarations in Solver.h     *)
(* give them.                                                              *)
TypeOK ==
    /\ user \in Users
    /\ ok \in BOOLEAN
    /\ clauses \subseteq SUBSET Lits
    /\ learnts \subseteq SUBSET Lits
    /\ trail \in Seq(EntryType)
    /\ trail_lim \in Seq(Nat)
    /\ next_var \in 1 .. MaxVar + 1
    /\ released_vars \in Seq(Vars)
    /\ free_vars \in Seq(Vars)
    /\ simpDB_assigns \in Nat \cup {-1}
    /\ pc \in {"idle", "add", "search", "refuse"}
    /\ assumptions \in Seq(Lits)
    /\ conflictC \in Nat
    /\ curr_restarts \in Nat
    /\ status \in {"l_True", "l_False", "l_Undef"}
    /\ conflict \subseteq Lits

Unset(t, l) == \A i \in DOMAIN t : Var(t[i].lit) # Var(l)
FalseIn(t, c) == \A l \in c : \E i \in DOMAIN t : t[i].lit = -l

(* The trail has each variable once.                                       *)
Distinct(t) == \A i, j \in DOMAIN t : i # j => Var(t[i].lit) # Var(t[j].lit)

(* Its levels are the stretches between the decisions.                     *)
Ordered(t, lim) ==
    /\ \A m \in DOMAIN lim : lim[m] <= Len(t)
    /\ \A i \in DOMAIN t : /\ t[i].level <= Len(lim)
                           /\ \A m \in DOMAIN lim : t[i].level >= m <=> i > lim[m]

(* Reasons are clauses that the literals before made unit.                 *)
Reasoned(t, C) ==
    \A i \in DOMAIN t :
       t[i].reason # None =>
         /\ t[i].reason \in C
         /\ t[i].lit \in t[i].reason
         /\ \A k \in t[i].reason \ {t[i].lit} :
               \E j \in 1 .. i - 1 : t[j].lit = -k /\ t[j].level <= t[i].level

(* Only the first literal of a level has no reason.                        *)
DecisionsFirst(t, lim) ==
    \A i \in DOMAIN t : t[i].reason = None /\ t[i].level > 0 => i = lim[t[i].level] + 1

(* A clause is false only since the last decision.                         *)
FalseLate(t, lim, C) ==
    Len(lim) > 0 => \A c \in C : FalseIn(t, c) =>
                       \E i \in DOMAIN t : -t[i].lit \in c /\ t[i].level = Len(lim)

TrailInv(t, lim, C) ==
    /\ Distinct(t) /\ Ordered(t, lim)
    /\ Reasoned(t, C) /\ DecisionsFirst(t, lim) /\ FalseLate(t, lim, C)

(* Decisions are made in search, which does not begin on clauses that are  *)
(* known to be contradictory; and assumptions name variables in use.       *)
PhaseOK ==
    /\ pc \in {"add", "search"} => ok
    /\ pc # "search" => trail_lim = <<>>
    /\ pc = "search" => \A i \in DOMAIN assumptions : Var(assumptions[i]) \in Live

(* Names are given up once, and what is given up has a value that no       *)
(* backjump takes away, until it is cleaned up.                            *)
NamesOK ==
    /\ \A i, j \in DOMAIN released_vars : i # j => released_vars[i] # released_vars[j]
    /\ \A i \in DOMAIN released_vars, j \in DOMAIN free_vars : released_vars[i] # free_vars[j]
    /\ ok => \A i \in DOMAIN released_vars :
                \E j \in DOMAIN trail : /\ Var(trail[j].lit) = released_vars[i]
                                        /\ trail[j].level = 0

(* What FreeAreUnused says, of any clauses C, trail t and names free.      *)
Unused(C, t, free) ==
    \A i \in DOMAIN free :
       /\ \A c \in C : free[i] \notin VarsOf(c)
       /\ \A j \in DOMAIN t : Var(t[j].lit) # free[i] /\ free[i] \notin VarsOf(t[j].reason)
       /\ \A j \in DOMAIN free : free[j] = free[i] => j = i

SolverInv ==
    /\ TypeOK
    /\ TrailInv(trail, trail_lim, DB)
    /\ PhaseOK
    /\ NamesOK
    /\ Unused(DB, trail, free_vars)

-----------------------------------------------------------------------------
(* Literals, and what a property says of the two halves of DB.             *)

(* A literal and its negation are the two literals of a variable.          *)
LEMMA LitFacts ==
    /\ \A l \in Lits : l \in Int /\ l # 0 /\ -l \in Lits /\ -(-l) = l /\ -l # l /\ Var(l) \in Vars
    /\ \A k, l \in Lits : Var(k) = Var(l) <=> k = l \/ k = -l
    /\ Vars \subseteq Nat \ {0} /\ Vars \subseteq Lits
<1>1. Vars \subseteq Nat \ {0} /\ Vars \subseteq Lits
  BY SolverAssumption DEF Vars, Lits
<1>2. ASSUME NEW l \in Lits
      PROVE  l \in Int /\ l # 0 /\ -l \in Lits /\ -(-l) = l /\ -l # l /\ Var(l) \in Vars
  <2>1. CASE l \in Vars
    <3>1. l \in Nat \ {0} /\ -l \in Lits
      BY <1>1, <2>1 DEF Lits
    <3>2. Var(l) = l
      BY <3>1 DEF Var
    <3> QED BY <2>1, <3>1, <3>2
  <2>2. CASE l \in {-v : v \in Vars}
    <3>1. PICK v \in Vars : l = -v
      BY <2>2
    <3>2. v \in Nat \ {0} /\ -l = v
      BY <1>1, <3>1
    <3>3. Var(l) = v
      BY <3>1, <3>2 DEF Var
    <3> QED BY <1>1, <3>1, <3>2, <3>3
  <2> QED BY <2>1, <2>2 DEF Lits
<1>3. ASSUME NEW k \in Lits, NEW l \in Lits PROVE Var(k) = Var(l) <=> k = l \/ k = -l
  BY <1>2 DEF Var
<1> QED BY <1>1, <1>2, <1>3

(* The trail holds literals with levels and reasons.                       *)
LEMMA EntryFacts ==
    ASSUME NEW t \in Seq(EntryType)
    PROVE  /\ Len(t) \in Nat /\ DOMAIN t = 1 .. Len(t)
           /\ \A i \in DOMAIN t : /\ t[i] \in EntryType /\ t[i].lit \in Lits
                                  /\ t[i].level \in Nat /\ t[i].reason \subseteq Lits
<1>1. Len(t) \in Nat /\ DOMAIN t = 1 .. Len(t) /\ \A i \in DOMAIN t : t[i] \in EntryType
  OBVIOUS
<1>2. \A e \in EntryType : e.lit \in Lits /\ e.level \in Nat /\ e.reason \subseteq Lits
  BY DEF EntryType
<1> QED BY <1>1, <1>2

(* The invariant has the two properties.                                   *)
LEMMA SolverInvReasons == SolverInv => ReasonsHold /\ FreeAreUnused
<1> SUFFICES ASSUME SolverInv PROVE ReasonsHold /\ FreeAreUnused
  OBVIOUS
<1>1. ReasonsHold
  BY DEF SolverInv, TrailInv, Reasoned, ReasonsHold, DB
<1>2. FreeAreUnused
  BY DEF SolverInv, Unused, FreeAreUnused, DB
<1> QED BY <1>1, <1>2

-----------------------------------------------------------------------------
(* The trail.                                                              *)

(* A literal is appended: a decision at a level just opened, or one that   *)
(* its reason makes true.                                                  *)
LEMMA TrailGrows ==
    ASSUME NEW t \in Seq(EntryType), NEW lim \in Seq(Nat),
           NEW C \in SUBSET SUBSET Lits, TrailInv(t, lim, C),
           NEW e \in EntryType, Unset(t, e.lit), e.level = Len(lim),
           e.reason = None => Len(lim) = 0 \/ lim[Len(lim)] = Len(t),
           e.reason # None => /\ e.reason \in C /\ e.lit \in e.reason
                              /\ \A k \in e.reason \ {e.lit} : \E j \in DOMAIN t : t[j].lit = -k
    PROVE  TrailInv(Append(t, e), lim, C)
<1> DEFINE u == Append(t, e)
           n == Len(t)
<1>1. /\ n \in Nat /\ DOMAIN t = 1 .. n /\ DOMAIN u = 1 .. n + 1
      /\ \A i \in 1 .. n : u[i] = t[i] /\ t[i] \in EntryType
      /\ u[n+1] = e /\ Len(u) = n + 1
  OBVIOUS
<1>2. /\ Len(lim) \in Nat /\ DOMAIN lim = 1 .. Len(lim)
      /\ \A m \in DOMAIN lim : lim[m] \in Nat
  OBVIOUS
<1>3. \A i \in DOMAIN u : i = n + 1 \/ i \in 1 .. n
  BY <1>1
<1> HIDE DEF u, n
<1>4. Distinct(u)
  <2> SUFFICES ASSUME NEW i \in DOMAIN u, NEW j \in DOMAIN u, i # j
               PROVE  Var(u[i].lit) # Var(u[j].lit)
    BY DEF Distinct
  <2>1. CASE i \in 1 .. n /\ j \in 1 .. n
    BY <1>1, <2>1 DEF TrailInv, Distinct
  <2>2. CASE i = n + 1 /\ j \in 1 .. n
    BY <1>1, <2>2 DEF Unset
  <2>3. CASE j = n + 1 /\ i \in 1 .. n
    BY <1>1, <2>3 DEF Unset
  <2> QED BY <1>3, <2>1, <2>2, <2>3
<1>5. Ordered(u, lim)
  <2>1. \A m \in DOMAIN lim : lim[m] <= n
    BY DEF TrailInv, Ordered, n
  <2>2. \A m \in DOMAIN lim : lim[m] <= Len(u)
    BY <1>1, <1>2, <2>1
  <2>3. ASSUME NEW i \in DOMAIN u
        PROVE  u[i].level <= Len(lim) /\ \A m \in DOMAIN lim : u[i].level >= m <=> i > lim[m]
    <3>1. CASE i \in 1 .. n
      BY <1>1, <3>1 DEF TrailInv, Ordered
    <3>2. CASE i = n + 1
      BY <1>1, <1>2, <2>1, <3>2
    <3> QED BY <1>3, <3>1, <3>2
  <2> QED BY <2>2, <2>3 DEF Ordered
<1>6. \A i \in DOMAIN t : t[i].level \in Nat /\ t[i].level <= Len(lim)
  BY EntryFacts DEF TrailInv, Ordered
<1>7. Reasoned(u, C)
  <2> SUFFICES ASSUME NEW i \in DOMAIN u, u[i].reason # None
               PROVE  /\ u[i].reason \in C
                      /\ u[i].lit \in u[i].reason
                      /\ \A k \in u[i].reason \ {u[i].lit} :
                           \E j \in 1 .. i - 1 : u[j].lit = -k /\ u[j].level <= u[i].level
    BY DEF Reasoned
  <2>1. CASE i \in 1 .. n
    <3>1. /\ t[i].reason \in C /\ t[i].lit \in t[i].reason
          /\ \A k \in t[i].reason \ {t[i].lit} :
               \E j \in 1 .. i - 1 : t[j].lit = -k /\ t[j].level <= t[i].level
      BY <1>1, <2>1 DEF TrailInv, Reasoned
    <3>2. \A j \in 1 .. i - 1 : u[j] = t[j]
      BY <1>1, <2>1
    <3> QED BY <1>1, <2>1, <3>1, <3>2
  <2>2. CASE i = n + 1
    <3>1. \A j \in DOMAIN t : j \in 1 .. i - 1 /\ u[j] = t[j] /\ u[j].level <= e.level
      BY <1>1, <1>6, <2>2
    <3>2. u[i] = e
      BY <1>1, <2>2
    <3> QED BY <2>2, <3>1, <3>2
  <2> QED BY <1>3, <2>1, <2>2
<1>8. DecisionsFirst(u, lim)
  <2> SUFFICES ASSUME NEW i \in DOMAIN u, u[i].reason = None, u[i].level > 0
               PROVE  i = lim[u[i].level] + 1
    BY DEF DecisionsFirst
  <2>1. CASE i \in 1 .. n
    BY <1>1, <2>1 DEF TrailInv, DecisionsFirst
  <2>2. CASE i = n + 1
    BY <1>1, <1>2, <2>2 DEF n
  <2> QED BY <1>3, <2>1, <2>2
<1>9. FalseLate(u, lim, C)
  <2> SUFFICES ASSUME Len(lim) > 0, NEW c \in C, FalseIn(u, c)
               PROVE  \E i \in DOMAIN u : -u[i].lit \in c /\ u[i].level = Len(lim)
    BY DEF FalseLate
  <2>1. CASE FalseIn(t, c)
    <3>1. PICK i \in DOMAIN t : -t[i].lit \in c /\ t[i].level = Len(lim)
      BY <2>1 DEF TrailInv, FalseLate
    <3>2. i \in DOMAIN u /\ u[i] = t[i]
      BY <1>1
    <3> QED BY <3>1, <3>2
  <2>2. CASE ~ FalseIn(t, c)
    <3>1. PICK l \in c : \A i \in DOMAIN t : t[i].lit # -l
      BY <2>2 DEF FalseIn
    <3>2. PICK i \in DOMAIN u : u[i].lit = -l
      BY DEF FalseIn
    <3>3. i = n + 1
      BY <1>1, <1>3, <3>1, <3>2
    <3>4. e.lit = -l /\ -e.lit = l
      <4>1. e.lit = -l
        BY <1>1, <3>2, <3>3
      <4>2. l \in Lits
        OBVIOUS
      <4> QED BY <4>1, <4>2, LitFacts
    <3> QED BY <1>1, <3>3, <3>4
  <2> QED BY <2>1, <2>2
<1> QED BY <1>4, <1>5, <1>7, <1>8, <1>9 DEF TrailInv, u

(* A level is opened when no clause is false.                              *)
LEMMA LevelOpens ==
    ASSUME NEW t \in Seq(EntryType), NEW lim \in Seq(Nat), NEW C, TrailInv(t, lim, C),
           \A c \in C : ~ FalseIn(t, c)
    PROVE  TrailInv(t, Append(lim, Len(t)), C)
<1> DEFINE v == Append(lim, Len(t))
           d == Len(lim)
<1>1. /\ d \in Nat /\ DOMAIN lim = 1 .. d /\ DOMAIN v = 1 .. d + 1 /\ Len(v) = d + 1
      /\ \A m \in 1 .. d : v[m] = lim[m] /\ lim[m] \in Nat
      /\ v[d+1] = Len(t)
  OBVIOUS
<1>2. Len(t) \in Nat /\ DOMAIN t = 1 .. Len(t) /\ \A i \in DOMAIN t : t[i].level \in Nat
  BY EntryFacts
<1>3. \A m \in DOMAIN v : m = d + 1 \/ m \in 1 .. d
  BY <1>1
<1> HIDE DEF v, d
<1>4. \A i \in DOMAIN t : t[i].level <= d
  BY DEF TrailInv, Ordered, d
<1>5. Ordered(t, v)
  <2>1. \A m \in DOMAIN v : v[m] <= Len(t)
    BY <1>1, <1>2, <1>3 DEF TrailInv, Ordered
  <2>2. ASSUME NEW i \in DOMAIN t, NEW m \in DOMAIN v PROVE t[i].level >= m <=> i > v[m]
    <3>1. CASE m \in 1 .. d
      BY <1>1, <3>1 DEF TrailInv, Ordered
    <3>2. CASE m = d + 1
      BY <1>1, <1>2, <1>4, <3>2
    <3> QED BY <1>3, <3>1, <3>2
  <2>3. \A i \in DOMAIN t : t[i].level <= Len(v)
    BY <1>1, <1>2, <1>4
  <2> QED BY <2>1, <2>2, <2>3 DEF Ordered
<1>6. DecisionsFirst(t, v)
  <2> SUFFICES ASSUME NEW i \in DOMAIN t, t[i].reason = None, t[i].level > 0
               PROVE  i = v[t[i].level] + 1
    BY DEF DecisionsFirst
  <2>1. t[i].level \in 1 .. d
    BY <1>1, <1>2, <1>4
  <2> QED BY <1>1, <2>1 DEF TrailInv, DecisionsFirst
<1>7. FalseLate(t, v, C)
  BY DEF FalseLate
<1> QED BY <1>5, <1>6, <1>7 DEF TrailInv, v

(* Levels end in the order of their numbers.                               *)
LEMMA LimitsGrow ==
    ASSUME NEW t \in Seq(EntryType), NEW lim \in Seq(Nat), Ordered(t, lim),
           NEW k \in DOMAIN lim, NEW m \in DOMAIN lim, m <= k
    PROVE  lim[m] <= lim[k]
<1>1. /\ lim[k] \in Nat /\ lim[m] \in Nat /\ lim[m] <= Len(t) /\ k \in Nat /\ m \in Nat
      /\ DOMAIN t = 1 .. Len(t) /\ Len(t) \in Nat
  BY DEF Ordered
<1> SUFFICES ASSUME lim[m] > lim[k] PROVE FALSE
  BY <1>1
<1> DEFINE i == lim[m]
<1>2. i \in DOMAIN t
  BY <1>1
<1>3. t[i].level \in Nat
  BY <1>2, EntryFacts
<1>4. t[i].level >= k
  BY <1>2 DEF Ordered
<1>5. ~ (t[i].level >= m)
  <2>1. ~ (i > lim[m])
    BY <1>1
  <2> QED BY <1>2, <2>1 DEF Ordered
<1> QED BY <1>1, <1>3, <1>4, <1>5

(* Levels are undone: what is left is as it was, and no clause is false.   *)
LEMMA TrailCut ==
    ASSUME NEW t \in Seq(EntryType), NEW lim \in Seq(Nat), NEW C, TrailInv(t, lim, C),
           NEW lev \in Nat, lev < Len(lim)
    PROVE  LET u == SubSeq(t, 1, lim[lev + 1])
               v == SubSeq(lim, 1, lev)
           IN  /\ u \in Seq(EntryType) /\ v \in Seq(Nat) /\ Len(v) = lev
               /\ TrailInv(u, v, C)
               /\ \A i \in DOMAIN t : i \in DOMAIN u <=> t[i].level <= lev
               /\ \A i \in DOMAIN u : i \in DOMAIN t /\ u[i] = t[i]
               /\ \A c \in C : ~ FalseIn(u, c)
<1> DEFINE u == SubSeq(t, 1, lim[lev + 1])
           v == SubSeq(lim, 1, lev)
           n == lim[lev + 1]
<1>1. /\ Len(lim) \in Nat /\ DOMAIN lim = 1 .. Len(lim) /\ \A m \in DOMAIN lim : lim[m] \in Nat
      /\ lev + 1 \in DOMAIN lim
      /\ Len(t) \in Nat /\ DOMAIN t = 1 .. Len(t)
  OBVIOUS
<1>2. \A i \in DOMAIN t : t[i].level \in Nat /\ t[i].level <= Len(lim)
  BY EntryFacts DEF TrailInv, Ordered
<1>3. n \in Nat /\ n <= Len(t)
  BY <1>1 DEF TrailInv, Ordered
<1>4. /\ u \in Seq(EntryType) /\ Len(u) = n /\ DOMAIN u = 1 .. n
      /\ \A i \in 1 .. n : i \in DOMAIN t /\ u[i] = t[i]
  <2> HIDE DEF n
  <2> QED BY <1>1, <1>3 DEF n
<1>5. /\ v \in Seq(Nat) /\ Len(v) = lev /\ DOMAIN v = 1 .. lev
      /\ \A m \in 1 .. lev : m \in DOMAIN lim /\ v[m] = lim[m]
  BY <1>1
<1> HIDE DEF u, v, n
<1>6. \A i \in DOMAIN t : i \in DOMAIN u <=> t[i].level <= lev
  <2> SUFFICES ASSUME NEW i \in DOMAIN t PROVE i \in 1 .. n <=> t[i].level <= lev
    BY <1>4
  <2>1. t[i].level >= lev + 1 <=> i > n
    BY <1>1 DEF TrailInv, Ordered, n
  <2> QED BY <1>1, <1>2, <1>3, <2>1
<1>7. Distinct(u)
  BY <1>4 DEF TrailInv, Distinct
<1>8. Ordered(u, v)
  <2>1. ASSUME NEW m \in DOMAIN v PROVE v[m] <= Len(u)
    <3>1. m \in DOMAIN lim /\ m <= lev + 1
      BY <1>5
    <3>2. lim[m] <= lim[lev + 1]
      BY <1>1, <3>1, LimitsGrow DEF TrailInv
    <3> QED BY <1>4, <1>5, <3>2 DEF n
  <2>2. ASSUME NEW i \in DOMAIN u
        PROVE  u[i].level <= Len(v) /\ \A m \in DOMAIN v : u[i].level >= m <=> i > v[m]
    <3>1. i \in DOMAIN t /\ u[i] = t[i] /\ t[i].level <= lev
      BY <1>4, <1>6
    <3>2. \A m \in DOMAIN v : t[i].level >= m <=> i > lim[m]
      BY <1>5, <3>1 DEF TrailInv, Ordered
    <3> QED BY <1>5, <3>1, <3>2
  <2> QED BY <2>1, <2>2 DEF Ordered
<1>9. Reasoned(u, C)
  <2> SUFFICES ASSUME NEW i \in DOMAIN u, u[i].reason # None
               PROVE  /\ u[i].reason \in C
                      /\ u[i].lit \in u[i].reason
                      /\ \A k \in u[i].reason \ {u[i].lit} :
                           \E j \in 1 .. i - 1 : u[j].lit = -k /\ u[j].level <= u[i].level
    BY DEF Reasoned
  <2>1. i \in DOMAIN t /\ u[i] = t[i]
    BY <1>4
  <2>2. /\ t[i].reason \in C /\ t[i].lit \in t[i].reason
        /\ \A k \in t[i].reason \ {t[i].lit} :
             \E j \in 1 .. i - 1 : t[j].lit = -k /\ t[j].level <= t[i].level
    BY <2>1 DEF TrailInv, Reasoned
  <2>3. \A j \in 1 .. i - 1 : u[j] = t[j]
    BY <1>3, <1>4
  <2> QED BY <2>1, <2>2, <2>3
<1>10. DecisionsFirst(u, v)
  <2> SUFFICES ASSUME NEW i \in DOMAIN u, u[i].reason = None, u[i].level > 0
               PROVE  i = v[u[i].level] + 1
    BY DEF DecisionsFirst
  <2>1. i \in DOMAIN t /\ u[i] = t[i]
    BY <1>4
  <2>2. t[i].level \in 1 .. lev
    BY <1>2, <1>6, <2>1
  <2>3. i = lim[t[i].level] + 1
    BY <2>1 DEF TrailInv, DecisionsFirst
  <2> QED BY <1>5, <2>1, <2>2, <2>3
<1>11. ASSUME NEW c \in C, FalseIn(u, c) PROVE FALSE
  <2>1. FalseIn(t, c)
    BY <1>4, <1>11 DEF FalseIn
  <2>2. PICK i \in DOMAIN t : -t[i].lit \in c /\ t[i].level = Len(lim)
    BY <1>1, <2>1 DEF TrailInv, FalseLate
  <2>3. PICK j \in DOMAIN u : u[j].lit = -(-t[i].lit)
    BY <1>11, <2>2 DEF FalseIn
  <2>4. t[i].lit \in Lits
    BY <2>2, EntryFacts
  <2>5. j \in DOMAIN t /\ t[j].lit = t[i].lit
    BY <1>4, <2>3, <2>4, LitFacts
  <2>6. j = i
    BY <2>2, <2>5 DEF TrailInv, Distinct
  <2> QED BY <1>1, <1>6, <2>2, <2>3, <2>6
<1>12. FalseLate(u, v, C)
  BY <1>11 DEF FalseLate
<1> QED BY <1>4, <1>5, <1>6, <1>7, <1>8, <1>9, <1>10, <1>11, <1>12 DEF TrailInv, u, v, n

(* The clauses change, but not those that are reasons, and none that comes *)
(* is false.                                                               *)
LEMMA ClausesChange ==
    ASSUME NEW t, NEW lim, NEW C, NEW D, TrailInv(t, lim, C),
           \A i \in DOMAIN t : t[i].reason \in C /\ t[i].reason # None => t[i].reason \in D,
           Len(lim) = 0 \/ \A c \in D \ C : ~ FalseIn(t, c)
    PROVE  TrailInv(t, lim, D)
<1>1. Reasoned(t, D)
  BY DEF TrailInv, Reasoned
<1>2. FalseLate(t, lim, D)
  <2> SUFFICES ASSUME Len(lim) > 0, NEW c \in D, FalseIn(t, c)
               PROVE  \E i \in DOMAIN t : -t[i].lit \in c /\ t[i].level = Len(lim)
    BY DEF FalseLate
  <2>1. Len(lim) # 0
    OBVIOUS
  <2>2. c \in C
    BY <2>1
  <2> QED BY <2>2 DEF TrailInv, FalseLate
<1> QED BY <1>1, <1>2 DEF TrailInv

-----------------------------------------------------------------------------
(* The trail of a state.                                                   *)

(* Where a literal is on the trail, and what the literal's value is.       *)
LEMMA TrailFacts ==
    ASSUME TypeOK, TrailInv(trail, trail_lim, DB)
    PROVE  /\ \A l \in Lits, i \in DOMAIN trail :
                 trail[i].lit = l \/ trail[i].lit = -l =>
                    Pos(l) = i /\ level(l) = trail[i].level /\ reason(l) = trail[i].reason
           /\ \A l \in Lits : IsUndef(l) <=> Unset(trail, l)
           /\ \A l : IsFalse(l) <=> \E i \in DOMAIN trail : trail[i].lit = -l
           /\ decisionLevel \in Nat /\ decisionLevel = Len(trail_lim)
           /\ DB \subseteq SUBSET Lits
<1>1. \A i \in DOMAIN trail : trail[i].lit \in Lits
  BY EntryFacts DEF TypeOK
<1>2. ASSUME NEW l \in Lits, NEW i \in DOMAIN trail, trail[i].lit = l \/ trail[i].lit = -l
      PROVE  Pos(l) = i /\ level(l) = trail[i].level /\ reason(l) = trail[i].reason
  <2>1. Var(trail[i].lit) = Var(l)
    BY <1>1, <1>2, LitFacts
  <2>2. \A j \in DOMAIN trail : Var(trail[j].lit) = Var(l) => j = i
    BY <2>1 DEF TrailInv, Distinct
  <2>3. Pos(l) = i
    BY <2>1, <2>2 DEF Pos
  <2> QED BY <2>3 DEF level, reason
<1>3. ASSUME NEW l \in Lits PROVE IsUndef(l) <=> Unset(trail, l)
  <2>1. IsTrue(l) <=> \E i \in DOMAIN trail : trail[i].lit = l
    BY DEF IsTrue, TrueLits
  <2>2. IsFalse(l) <=> \E i \in DOMAIN trail : trail[i].lit = -l
    BY DEF IsFalse, TrueLits
  <2>3. \A i \in DOMAIN trail : Var(trail[i].lit) = Var(l) <=> trail[i].lit = l \/ trail[i].lit = -l
    BY <1>1, LitFacts
  <2> QED BY <2>1, <2>2, <2>3 DEF IsUndef, Unset
<1>4. \A l : IsFalse(l) <=> \E i \in DOMAIN trail : trail[i].lit = -l
  BY DEF IsFalse, TrueLits
<1>5. decisionLevel \in Nat /\ decisionLevel = Len(trail_lim)
  BY DEF decisionLevel, TypeOK
<1>6. DB \subseteq SUBSET Lits
  BY DEF DB, TypeOK
<1> QED BY <1>2, <1>3, <1>4, <1>5, <1>6

(* The literals of the database that are false, but not from the start.    *)
Refuted == {l \in UNION DB : (\E i \in DOMAIN trail : trail[i].lit = -l) /\ level(l) > 0}

(* What is left of the clause when the trail is walked back to place i.    *)
Cutting(c, i) ==
    /\ c \subseteq Refuted
    /\ Latest(c) # {}
    /\ Cardinality(Latest(c)) = 1 \/ \A l \in Latest(c) : Pos(l) <= i

\* One step of analyze, at place i of the trail.
Resolved(c, i) ==
    IF Cardinality(Latest(c)) = 1 \/ -trail[i].lit \notin c THEN c
    ELSE (c \ {-trail[i].lit}) \cup Above(trail[i].reason \ {trail[i].lit})

(* What is resolved is not the decision: another literal of the last level *)
(* comes before it.                                                        *)
LEMMA ResolvesReason ==
    ASSUME TypeOK, TrailInv(trail, trail_lim, DB), decisionLevel > 0,
           NEW i \in DOMAIN trail, NEW c, Cutting(c, i),
           Cardinality(Latest(c)) # 1, -trail[i].lit \in c
    PROVE  trail[i].reason # None
<1> DEFINE p == trail[i]
           dl == decisionLevel
<1>1. /\ Len(trail) \in Nat /\ DOMAIN trail = 1 .. Len(trail) /\ i \in Nat
      /\ p.lit \in Lits /\ p.level \in Nat /\ -(-p.lit) = p.lit
      /\ dl \in Nat
  <2>1. trail \in Seq(EntryType)
    BY DEF TypeOK
  <2>2. Len(trail) \in Nat /\ DOMAIN trail = 1 .. Len(trail) /\ i \in Nat
    BY <2>1
  <2>3. p.lit \in Lits /\ p.level \in Nat
    BY <2>1, EntryFacts
  <2>4. dl \in Nat
    BY TrailFacts
  <2> QED BY <2>2, <2>3, <2>4, LitFacts
<1>2. c \subseteq Lits
  BY TrailFacts DEF Cutting, Refuted
<1>3. \A l \in Latest(c) : Pos(l) <= i
  BY DEF Cutting
<1>4. PICK x \in Latest(c) : x # -p.lit
  <2>1. Latest(c) # {-p.lit}
    BY FS_Singleton
  <2> QED BY <2>1 DEF Cutting
<1>5. x \in c /\ x \in Lits /\ level(x) = dl /\ Pos(x) <= i
  BY <1>2, <1>3, <1>4 DEF Latest
<1>6. Pos(x) \in DOMAIN trail /\ trail[Pos(x)].lit = -x /\ Pos(x) < i
  <2>1. PICK j \in DOMAIN trail : trail[j].lit = -x
    BY <1>5 DEF Cutting, Refuted
  <2>2. Pos(x) = j
    BY <1>5, <2>1, TrailFacts
  <2>3. Pos(x) # i
    BY <1>4, <1>5, <2>1, <2>2, LitFacts
  <2> QED BY <1>1, <1>5, <2>1, <2>2, <2>3
<1>7. dl \in DOMAIN trail_lim /\ trail_lim[dl] \in Nat
  BY <1>1, TrailFacts DEF TypeOK
<1>8. trail[Pos(x)].level = dl /\ Pos(x) > trail_lim[dl]
  <2>1. trail[Pos(x)].level = dl
    BY <1>5 DEF level
  <2> QED BY <1>1, <1>6, <1>7, <2>1 DEF TrailInv, Ordered
<1>9. i > trail_lim[dl] + 1
  BY <1>1, <1>6, <1>7, <1>8
<1>10. p.level = dl
  <2>1. p.level >= dl
    BY <1>1, <1>7, <1>9 DEF TrailInv, Ordered
  <2>2. p.level <= dl
    BY TrailFacts DEF TrailInv, Ordered
  <2> QED BY <1>1, <2>1, <2>2
<1> SUFFICES ASSUME p.reason = None PROVE FALSE
  OBVIOUS
<1>11. i = trail_lim[dl] + 1
  BY <1>1, <1>10 DEF TrailInv, DecisionsFirst
<1> QED BY <1>1, <1>7, <1>9, <1>11

(* A step resolves with a reason, and one literal of the last level stays. *)
LEMMA ResolvedCuts ==
    ASSUME TypeOK, TrailInv(trail, trail_lim, DB), decisionLevel > 0,
           NEW i \in DOMAIN trail, NEW c, Cutting(c, i)
    PROVE  Cutting(Resolved(c, i), i - 1)
<1> DEFINE p == trail[i]
           dl == decisionLevel
<1>1. /\ Len(trail) \in Nat /\ DOMAIN trail = 1 .. Len(trail) /\ i \in Nat
      /\ p.lit \in Lits /\ p.level \in Nat /\ p.reason \subseteq Lits /\ -(-p.lit) = p.lit
      /\ dl \in Nat
  <2>1. trail \in Seq(EntryType)
    BY DEF TypeOK
  <2>2. Len(trail) \in Nat /\ DOMAIN trail = 1 .. Len(trail) /\ i \in Nat
    BY <2>1
  <2>3. p.lit \in Lits /\ p.level \in Nat /\ p.reason \subseteq Lits
    BY <2>1, EntryFacts
  <2>4. dl \in Nat
    BY TrailFacts
  <2> QED BY <2>2, <2>3, <2>4, LitFacts
<1>2. c \subseteq Lits
  BY TrailFacts DEF Cutting, Refuted
<1>3. CASE Cardinality(Latest(c)) = 1
  BY <1>3 DEF Cutting, Resolved
<1>4. ASSUME NEW l \in c PROVE Pos(l) \in DOMAIN trail /\ trail[Pos(l)].lit = -l
  <2>1. PICK j \in DOMAIN trail : trail[j].lit = -l
    BY DEF Cutting, Refuted
  <2> QED BY <1>2, <2>1, TrailFacts
<1>5. CASE Cardinality(Latest(c)) # 1 /\ -p.lit \notin c
  <2>1. ASSUME NEW l \in Latest(c) PROVE Pos(l) <= i - 1
    <3>1. l \in c /\ l \in Lits /\ Pos(l) <= i
      BY <1>2, <1>5 DEF Cutting, Latest
    <3>2. Pos(l) # i
      <4>1. ASSUME Pos(l) = i PROVE -p.lit = l
        BY <1>4, <3>1, <4>1, LitFacts
      <4> QED BY <1>5, <3>1, <4>1
    <3> QED BY <1>1, <1>4, <3>1, <3>2
  <2>2. Resolved(c, i) = c
    BY <1>5 DEF Resolved
  <2> QED BY <2>1, <2>2 DEF Cutting
<1>6. CASE Cardinality(Latest(c)) # 1 /\ -p.lit \in c
  <2> DEFINE d == Above(p.reason \ {p.lit})
             r == (c \ {-p.lit}) \cup d
  <2>1. Resolved(c, i) = r
    BY <1>6 DEF Resolved
  <2>2. \A l \in Latest(c) : Pos(l) <= i
    BY <1>6 DEF Cutting
  <2>3. PICK x \in Latest(c) : x # -p.lit
    <3>1. Latest(c) # {-p.lit}
      BY <1>6, FS_Singleton
    <3> QED BY <3>1 DEF Cutting
  <2>4. x \in c /\ x \in Lits /\ level(x) = dl /\ Pos(x) <= i
    BY <1>2, <2>2, <2>3 DEF Latest
  <2>5. p.reason # None
    BY <1>6, ResolvesReason
  <2>6. /\ p.reason \in DB
         /\ \A k \in p.reason \ {p.lit} : \E j \in 1 .. i - 1 : trail[j].lit = -k
    BY <2>5 DEF TrailInv, Reasoned
  <2>7. ASSUME NEW k \in d PROVE k \in Refuted /\ Pos(k) <= i - 1
    <3>1. k \in p.reason \ {p.lit} /\ level(k) > 0 /\ k \in Lits /\ k \in UNION DB
      BY <1>1, <2>6 DEF Above
    <3>2. PICK j \in 1 .. i - 1 : trail[j].lit = -k
      BY <2>6, <3>1
    <3>3. j \in DOMAIN trail
      BY <1>1
    <3>4. Pos(k) = j
      BY <3>1, <3>2, <3>3, TrailFacts
    <3> QED BY <1>1, <3>1, <3>2, <3>3, <3>4 DEF Refuted
  <2>8. r \subseteq Refuted
    BY <2>7 DEF Cutting
  <2>9. x \in Latest(r)
    BY <2>3, <2>4 DEF Latest
  <2>10. ASSUME NEW l \in Latest(r) PROVE Pos(l) <= i - 1
    <3>1. CASE l \in d
      BY <2>7, <3>1
    <3>2. CASE l \in c /\ l # -p.lit
      <4>1. l \in Latest(c)
        BY <3>2 DEF Latest
      <4>2. Pos(l) <= i /\ l \in Lits
        BY <1>2, <2>2, <3>2, <4>1
      <4>3. Pos(l) \in DOMAIN trail /\ trail[Pos(l)].lit = -l
        BY <1>4, <3>2
      <4>4. Pos(l) # i
        BY <3>2, <4>2, <4>3, LitFacts
      <4> QED BY <1>1, <4>2, <4>3, <4>4
    <3> QED BY <3>1, <3>2 DEF Latest
  <2> QED BY <2>1, <2>8, <2>9, <2>10 DEF Cutting
<1> QED BY <1>3, <1>5, <1>6

(* The clauses that analyze goes through, from the conflict to the end.    *)
LEMMA UIPSteps ==
    ASSUME TypeOK, TrailInv(trail, trail_lim, DB), decisionLevel > 0,
           NEW confl \in Conflicting
    PROVE  \E cut : /\ cut[Len(trail)] = Above(confl) /\ UIP(confl) = cut[0]
                    /\ \A i \in 0 .. Len(trail) - 1 : cut[i] = Resolved(cut[i+1], i + 1)
<1> DEFINE n == Len(trail)
           S == SUBSET Lits
           a == Above(confl)
           Eq(f) == [i \in 0 .. n |->
                       IF i = n THEN Above(confl)
                       ELSE LET c == f[i + 1]
                                p == trail[i + 1]
                            IN  IF Cardinality(Latest(c)) = 1 \/ -p.lit \notin c THEN c
                                ELSE (c \ {-p.lit}) \cup Above(p.reason \ {p.lit})]
           cut == CHOOSE f : f = Eq(f)
           step == [y \in S \X (1 .. n) |-> Resolved(y[1], n + 1 - y[2])]
<1>1. n \in Nat /\ DOMAIN trail = 1 .. n /\ \A i \in 1 .. n : trail[i].reason \in S
  BY EntryFacts DEF TypeOK
<1>2. confl \in DB /\ confl \in S /\ a \in S
  BY TrailFacts DEF Conflicting, DB, Above
<1>3. ASSUME NEW c \in S, NEW i \in 1 .. n PROVE Resolved(c, i) \in S
  <2>1. trail[i].reason \in S
    BY <1>1
  <2> QED BY <2>1 DEF Resolved, Above
<1>4. cut = Eq(cut)
  <2>1. step \in [S \X (1 .. n) -> S]
    <3>1. ASSUME NEW y \in S \X (1 .. n) PROVE Resolved(y[1], n + 1 - y[2]) \in S
      <4>1. y[1] \in S /\ y[2] \in 1 .. n
        OBVIOUS
      <4>2. n + 1 - y[2] \in 1 .. n
        BY <1>1, <4>1
      <4> HIDE DEF S, n
      <4> QED BY <1>3, <4>1, <4>2
    <3> HIDE DEF S, n
    <3> QED BY <3>1
  <2>2. \E g : IsRecursive(g, S, a, n, step)
    <3> HIDE DEF step, n, S, a
    <3> QED BY <1>1, <1>2, <2>1, Recursion
  <2>3. PICK g : g \in [0 .. n -> S] /\ g[0] = a /\ \A k \in 1 .. n : g[k] = step[<<g[k-1], k>>]
    <3> HIDE DEF step, n, S, a
    <3> QED BY <2>2 DEF IsRecursive
  <2>4. ASSUME NEW k \in 1 .. n PROVE g[k] = Resolved(g[k-1], n + 1 - k)
    <3>1. g[k-1] \in S
      <4>1. k - 1 \in 0 .. n
        BY <1>1
      <4> HIDE DEF S, n
      <4> QED BY <2>3, <4>1
    <3>2. <<g[k-1], k>> \in S \X (1 .. n)
      BY <3>1
    <3>3. step[<<g[k-1], k>>] = Resolved(g[k-1], n + 1 - k)
      BY <3>2
    <3> HIDE DEF step
    <3> QED BY <2>3, <3>3
  <2> DEFINE f == [i \in 0 .. n |-> g[n - i]]
  <2>5. ASSUME NEW i \in 0 .. n, i # n PROVE f[i] = Resolved(f[i+1], i + 1)
    <3>1. n - i \in 1 .. n /\ n - i - 1 = n - (i + 1) /\ n + 1 - (n - i) = i + 1 /\ i + 1 \in 0 .. n
      <4> HIDE DEF n
      <4> QED BY <1>1, <2>5
    <3>2. f[i] = g[n - i] /\ f[i + 1] = g[n - (i + 1)]
      BY <3>1
    <3> HIDE DEF f, n
    <3> QED BY <2>4, <3>1, <3>2
  <2>6. f[n] = a
    <3>1. n \in 0 .. n /\ n - n = 0
      BY <1>1
    <3>2. f[n] = g[n - n]
      BY <3>1
    <3> HIDE DEF f, n
    <3> QED BY <2>3, <3>1, <3>2
  <2>7. f = Eq(f)
    <3>1. \A i \in 0 .. n : f[i] = IF i = n THEN a ELSE Resolved(f[i+1], i + 1)
      <4> HIDE DEF f, a
      <4> QED BY <2>5, <2>6
    <3>2. f = [i \in 0 .. n |-> IF i = n THEN a ELSE Resolved(f[i+1], i + 1)]
      <4>1. f = [i \in 0 .. n |-> f[i]]
        OBVIOUS
      <4> HIDE DEF f, a
      <4> QED BY <3>1, <4>1
    <3>3. Eq(f) = [i \in 0 .. n |-> IF i = n THEN a ELSE Resolved(f[i+1], i + 1)]
      <4> HIDE DEF f
      <4> QED BY DEF Resolved
    <3> QED BY <3>2, <3>3
  <2> HIDE DEF Eq, f
  <2> QED BY <2>7
<1>5. UIP(confl) = cut[0]
  BY DEF UIP
<1>6. /\ cut[n] = a
      /\ \A i \in 0 .. n - 1 : cut[i] = Resolved(cut[i+1], i + 1)
  <2>1. n \in 0 .. n /\ \A i \in 0 .. n - 1 : i \in 0 .. n /\ i # n
    BY <1>1
  <2>2. \A i \in 0 .. n : cut[i] = Eq(cut)[i]
    <3> HIDE DEF Eq, cut
    <3> QED BY <1>4
  <2>3. \A i \in 0 .. n : cut[i] = IF i = n THEN a ELSE Resolved(cut[i+1], i + 1)
    <3> HIDE DEF cut
    <3> QED BY <2>2 DEF Resolved
  <2> HIDE DEF cut, a, n
  <2> QED BY <2>1, <2>3
<1> HIDE DEF cut
<1> QED BY <1>5, <1>6

(* What holds of the conflict clause, and is kept by each step back, holds  *)
(* of the clause that analyze ends with.                                   *)
LEMMA UIPWalk ==
    ASSUME TypeOK, TrailInv(trail, trail_lim, DB), decisionLevel > 0,
           NEW confl \in Conflicting,
           NEW G, Above(confl) \in G[Len(trail)],
           \A i \in DOMAIN trail : \A c \in G[i] : Resolved(c, i) \in G[i - 1]
    PROVE  UIP(confl) \in G[0]
<1> DEFINE n == Len(trail)
<1>1. n \in Nat /\ DOMAIN trail = 1 .. n
  BY EntryFacts DEF TypeOK
<1>2. PICK cut : /\ cut[n] = Above(confl) /\ UIP(confl) = cut[0]
                 /\ \A i \in 0 .. n - 1 : cut[i] = Resolved(cut[i+1], i + 1)
  BY UIPSteps
<1> DEFINE T == {k \in 0 .. n : cut[n - k] \in G[n - k]}
<1>3. 0 \in T
  <2>1. 0 \in 0 .. n /\ n - 0 = n
    BY <1>1
  <2>2. cut[n] \in G[n]
    BY <1>2
  <2> HIDE DEF n
  <2> QED BY <2>1, <2>2
<1>4. ASSUME NEW k \in 0 .. n - 1, k \in T PROVE k + 1 \in T
  <2>1. /\ n - (k + 1) \in 0 .. n - 1 /\ n - (k + 1) + 1 = n - k /\ n - k \in DOMAIN trail
        /\ n - k - 1 = n - (k + 1) /\ k + 1 \in 0 .. n
    BY <1>1
  <2>2. cut[n - k] \in G[n - k]
    BY <1>4
  <2>3. Resolved(cut[n - k], n - k) \in G[n - (k + 1)]
    <3> HIDE DEF n
    <3> QED BY <2>1, <2>2
  <2>4. cut[n - (k + 1)] = Resolved(cut[n - k], n - k)
    <3> HIDE DEF n
    <3> QED BY <1>2, <2>1
  <2> QED BY <2>1, <2>3, <2>4
<1>5. n \in T
  <2> HIDE DEF T, n
  <2>1. 0 .. n \subseteq T
    BY <1>1, <1>3, <1>4, Climb
  <2> QED BY <1>1, <2>1
<1> QED
  <2>1. n - n = 0
    BY <1>1
  <2> HIDE DEF n
  <2> QED BY <1>2, <1>5, <2>1

(* The walk begins with the literals of the conflict that were not known   *)
(* to be false.                                                            *)
LEMMA ConflictCuts ==
    ASSUME TypeOK, TrailInv(trail, trail_lim, DB), decisionLevel > 0,
           NEW confl \in Conflicting
    PROVE  Cutting(Above(confl), Len(trail))
<1> DEFINE n == Len(trail)
           a == Above(confl)
<1>1. n \in Nat /\ DOMAIN trail = 1 .. n
  BY EntryFacts DEF TypeOK
<1>2. confl \in SUBSET Lits /\ confl \in DB
  BY TrailFacts DEF Conflicting, DB
<1>3. \A l \in confl : \E i \in DOMAIN trail : trail[i].lit = -l
  BY TrailFacts DEF Conflicting
<1>4. FalseIn(trail, confl)
  BY <1>3 DEF FalseIn
<1>5. PICK i \in DOMAIN trail : -trail[i].lit \in confl /\ trail[i].level = decisionLevel
  BY <1>2, <1>4, TrailFacts DEF TrailInv, FalseLate
<1>6. level(-trail[i].lit) = decisionLevel
  <2>1. -trail[i].lit \in Lits /\ -(-trail[i].lit) = trail[i].lit
    BY EntryFacts, LitFacts DEF TypeOK
  <2> QED BY <1>5, <2>1, TrailFacts
<1>7. -trail[i].lit \in Latest(a)
  BY <1>5, <1>6 DEF Latest, Above
<1>8. a \subseteq Refuted
  BY <1>2, <1>3 DEF Above, Refuted
<1>9. ASSUME NEW l \in Latest(a) PROVE Pos(l) <= n
  <2>1. l \in confl /\ l \in Lits
    BY <1>2 DEF Latest, Above
  <2>2. PICK j \in DOMAIN trail : trail[j].lit = -l
    BY <1>3, <2>1
  <2>3. Pos(l) = j
    BY <2>1, <2>2, TrailFacts
  <2> QED BY <1>1, <2>2, <2>3
<1> QED BY <1>7, <1>8, <1>9 DEF Cutting

(* The conflict clause, walked back to the beginning.                      *)
LEMMA UIPCuts ==
    ASSUME TypeOK, TrailInv(trail, trail_lim, DB), decisionLevel > 0,
           NEW confl \in Conflicting
    PROVE  Cutting(UIP(confl), 0)
<1> DEFINE n == Len(trail)
           a == Above(confl)
           G == [i \in 0 .. n |-> {c \in SUBSET Lits : Cutting(c, i)}]
<1>1. n \in Nat /\ DOMAIN trail = 1 .. n
  BY EntryFacts DEF TypeOK
<1>2. confl \in SUBSET Lits /\ confl \in DB
  BY TrailFacts DEF Conflicting, DB
<1>3. Cutting(a, n)
  BY ConflictCuts
<1>4. a \in G[n]
  <2>1. a \in SUBSET Lits /\ n \in 0 .. n
    BY <1>1, <1>2 DEF Above
  <2> QED BY <1>3, <2>1
<1>5. ASSUME NEW i \in DOMAIN trail, NEW c \in G[i] PROVE Resolved(c, i) \in G[i - 1]
  <2>1. i \in 0 .. n /\ i - 1 \in 0 .. n
    BY <1>1
  <2>2. Cutting(c, i)
    BY <2>1
  <2>3. Cutting(Resolved(c, i), i - 1)
    BY <2>2, ResolvedCuts
  <2>4. Resolved(c, i) \in SUBSET Lits
    BY <2>3, TrailFacts DEF Cutting, Refuted
  <2> QED BY <2>1, <2>3, <2>4
<1>6. UIP(confl) \in G[0]
  <2> HIDE DEF G
  <2> QED BY <1>4, <1>5, UIPWalk
<1>7. 0 \in 0 .. n
  BY <1>1
<1> QED BY <1>6, <1>7

-----------------------------------------------------------------------------
(* What is learnt.                                                         *)

(* The largest of some numbers that are bounded.                           *)
LEMMA MaxIs ==
    ASSUME NEW n \in Nat, NEW S, S \subseteq 0 .. n, S # {}
    PROVE  Max(S) \in S /\ \A x \in S : x <= Max(S)
<1> DEFINE T == {n - x : x \in S}
<1>1. T \subseteq Nat /\ T # {}
  <2>1. ASSUME NEW x \in S PROVE n - x \in Nat
    <3>1. x \in 0 .. n
      OBVIOUS
    <3> QED BY <3>1
  <2> QED BY <2>1
<1>2. PICK y \in T : \A z \in T : y <= z
  <2> HIDE DEF T
  <2> QED BY <1>1, LeastNat
<1>3. PICK x \in S : y = n - x
  BY <1>2
<1>4. ASSUME NEW z \in S PROVE z <= x
  <2>1. n - z \in T
    OBVIOUS
  <2>2. n - x <= n - z
    BY <1>2, <1>3, <2>1
  <2> QED BY <2>2
<1>5. \A z \in S : x >= z
  BY <1>4
<1>6. Max(S) \in S /\ \A z \in S : Max(S) >= z
  BY <1>5 DEF Max
<1> QED BY <1>6

(* There are finitely many literals.                                       *)
LEMMA LitsFinite == \A c : c \subseteq Lits => IsFiniteSet(c)
<1>1. IsFiniteSet(Vars)
  BY SolverAssumption, FS_Interval DEF Vars
<1>2. IsFiniteSet({-v : v \in Vars})
  <2> DEFINE f == [v \in Vars |-> -v]
  <2>1. f \in [Vars -> {-v : v \in Vars}]
    OBVIOUS
  <2>2. \A l \in {-v : v \in Vars} : \E v \in Vars : f[v] = l
    OBVIOUS
  <2>3. f \in Surjection(Vars, {-v : v \in Vars})
    <3> HIDE DEF f
    <3> QED BY <2>1, <2>2 DEF Surjection
  <2> HIDE DEF f
  <2> QED BY <1>1, <2>3, FS_Surjection
<1>3. IsFiniteSet(Lits)
  BY <1>1, <1>2, FS_Union DEF Lits
<1> QED BY <1>3, FS_Subset

(* The clause learnt has one literal of the last level, and the others are *)
(* false up to the level that is gone back to.                             *)
LEMMA LearntIs ==
    ASSUME TypeOK, TrailInv(trail, trail_lim, DB), decisionLevel > 0,
           NEW confl \in Conflicting
    PROVE  LET c   == Minimised(UIP(confl))
               lev == BacktrackLevel(c)
               l   == CHOOSE k \in Latest(c) : TRUE
           IN  /\ c \subseteq Refuted
               /\ l \in c /\ level(l) = decisionLevel
               /\ lev \in Nat /\ lev < decisionLevel
               /\ \A k \in c : k = l \/ level(k) <= lev
               /\ Cardinality(c) = 1 => lev = 0
<1> DEFINE u   == UIP(confl)
           c   == Minimised(u)
           lev == BacktrackLevel(c)
           l   == CHOOSE k \in Latest(c) : TRUE
           dl  == decisionLevel
<1>1. Cutting(u, 0)
  BY UIPCuts
<1> HIDE DEF u
<1>2. /\ u \subseteq Refuted /\ u \subseteq Lits
      /\ \A k \in u : level(k) \in Nat /\ level(k) <= dl /\ level(k) > 0
  <2>1. u \subseteq Refuted
    BY <1>1 DEF Cutting
  <2>2. u \subseteq Lits
    BY <2>1, TrailFacts DEF Refuted
  <2>3. ASSUME NEW k \in u PROVE level(k) \in Nat /\ level(k) <= dl /\ level(k) > 0
    <3>1. PICK i \in DOMAIN trail : trail[i].lit = -k
      BY <2>1 DEF Refuted
    <3>2. level(k) = trail[i].level
      BY <2>2, <3>1, TrailFacts
    <3>3. trail[i].level \in Nat
      BY EntryFacts DEF TypeOK
    <3>4. trail[i].level <= dl
      BY TrailFacts DEF TrailInv, Ordered
    <3> QED BY <2>1, <3>2, <3>3, <3>4 DEF Refuted
  <2> QED BY <2>1, <2>2, <2>3
<1>3. Cardinality(Latest(u)) = 1
  <2> SUFFICES ASSUME Cardinality(Latest(u)) # 1 PROVE FALSE
    OBVIOUS
  <2>1. PICK k \in Latest(u) : Pos(k) <= 0
    BY <1>1 DEF Cutting
  <2>2. k \in u
    BY DEF Latest
  <2>3. PICK i \in DOMAIN trail : trail[i].lit = -k
    BY <1>2, <2>2 DEF Refuted
  <2>4. Pos(k) = i
    BY <1>2, <2>2, <2>3, TrailFacts
  <2> QED BY <2>1, <2>3, <2>4, EntryFacts DEF TypeOK
<1>4. PICK x : Latest(u) = {x}
  <2>1. IsFiniteSet(Latest(u))
    BY <1>2, LitsFinite DEF Latest
  <2> QED BY <1>3, <2>1, FS_Singleton
<1>5. c \subseteq u /\ Latest(u) \subseteq c
  <2>1. Latest(u) \subseteq u
    BY DEF Latest
  <2> QED BY <2>1 DEF Minimised
<1>6. Latest(c) = {x}
  <2> HIDE DEF c
  <2> QED BY <1>4, <1>5 DEF Latest
<1>7. l = x
  <2> HIDE DEF c
  <2> QED BY <1>6
<1> HIDE DEF c, l
<1>8. l \in c /\ level(l) = dl
  BY <1>6, <1>7 DEF Latest
<1>9. \A k \in c : k = l \/ level(k) < dl
  <2>1. ASSUME NEW k \in c, k # l PROVE level(k) < dl
    <3>1. level(k) # dl
      BY <1>6, <1>7, <2>1 DEF Latest
    <3> QED BY <1>2, <1>5, <3>1, TrailFacts
  <2> QED BY <2>1
<1> DEFINE levels == {0} \cup {level(k) : k \in c \ Latest(c)}
<1>10. lev = Max(levels)
  BY DEF BacktrackLevel
<1>11. levels \subseteq 0 .. dl - 1 /\ levels # {} /\ dl - 1 \in Nat
  <2>1. dl \in Nat /\ dl > 0
    BY TrailFacts
  <2>2. \A k \in c \ Latest(c) : level(k) \in 0 .. dl - 1
    BY <1>2, <1>5, <1>6, <1>7, <1>9, <2>1
  <2> QED BY <2>1, <2>2
<1>12. Max(levels) \in levels /\ \A y \in levels : y <= Max(levels)
  <2> HIDE DEF levels
  <2> QED BY <1>11, MaxIs
<1>13. lev \in 0 .. dl - 1 /\ \A y \in levels : y <= lev
  <2> HIDE DEF levels
  <2> QED BY <1>10, <1>11, <1>12
<1>14. lev \in Nat /\ lev < dl
  <2>1. dl \in Nat
    BY TrailFacts
  <2>2. lev \in 0 .. dl - 1
    BY <1>13
  <2> HIDE DEF lev, dl
  <2> QED BY <2>1, <2>2
<1>15. ASSUME NEW k \in c PROVE k = l \/ level(k) <= lev
  <2>1. CASE k \in Latest(c)
    BY <1>6, <1>7, <2>1
  <2>2. CASE k \notin Latest(c)
    <3>1. level(k) \in levels
      BY <2>2
    <3> HIDE DEF levels, lev
    <3> QED BY <1>13, <3>1
  <2> QED BY <2>1, <2>2
<1>16. ASSUME Cardinality(c) = 1 PROVE lev = 0
  <2>1. IsFiniteSet(c)
    BY <1>2, <1>5, LitsFinite
  <2>2. PICK y : c = {y}
    BY <1>16, <2>1, FS_Singleton
  <2>3. c \ Latest(c) = {}
    BY <1>6, <1>7, <1>8, <2>2
  <2>4. levels = {0}
    BY <2>3
  <2> HIDE DEF levels
  <2> QED BY <1>10, <1>12, <2>4
<1> QED BY <1>2, <1>5, <1>8, <1>14, <1>15, <1>16 DEF u, c, l

-----------------------------------------------------------------------------
(* Steps.                                                                  *)

(* The invariant of the next state, with its parts about the trail.        *)
LEMMA NextInv ==
    SolverInv' <=> /\ TypeOK'
                   /\ TrailInv(trail', trail_lim', clauses' \cup learnts')
                   /\ PhaseOK' /\ NamesOK'
                   /\ Unused(clauses' \cup learnts', trail', free_vars')
BY DEF SolverInv, DB

(* Nobody else has the variables that are in use.                          *)
LEMMA LiveFacts ==
    ASSUME TypeOK, NEW v \in Live
    PROVE  /\ v \in Vars
           /\ \A i \in DOMAIN free_vars : free_vars[i] # v
           /\ \A i \in DOMAIN released_vars : released_vars[i] # v
<1>1. v \in 1 .. next_var - 1
  BY DEF Live
<1>2. next_var \in 1 .. MaxVar + 1 /\ MaxVar \in Nat
  BY SolverAssumption DEF TypeOK
<1>3. v \in Vars
  BY <1>1, <1>2 DEF Vars
<1> QED BY <1>3 DEF Live

(* A literal of another variable is appended.                              *)
LEMMA UnusedGrows ==
    ASSUME NEW C, NEW t \in Seq(EntryType), NEW free, Unused(C, t, free),
           NEW e \in EntryType, \A i \in DOMAIN free : free[i] # Var(e.lit),
           e.reason = None \/ e.reason \in C
    PROVE  Unused(C, Append(t, e), free)
<1> SUFFICES ASSUME NEW i \in DOMAIN free, NEW j \in DOMAIN Append(t, e)
             PROVE  /\ Var(Append(t, e)[j].lit) # free[i]
                    /\ free[i] \notin VarsOf(Append(t, e)[j].reason)
  BY DEF Unused
<1>1. \/ j \in DOMAIN t /\ Append(t, e)[j] = t[j]
      \/ Append(t, e)[j] = e
  OBVIOUS
<1>2. free[i] \notin VarsOf(e.reason)
  <2>1. VarsOf(None) = {}
    BY DEF VarsOf, None
  <2> QED BY <2>1 DEF Unused
<1> QED BY <1>1, <1>2 DEF Unused

(* The trail is cut, or clauses go.                                        *)
LEMMA UnusedCut ==
    ASSUME NEW C, NEW D, NEW t, NEW u, NEW free, Unused(C, t, free), D \subseteq C,
           \A i \in DOMAIN u : i \in DOMAIN t /\ u[i] = t[i]
    PROVE  Unused(D, u, free)
BY DEF Unused

(* Level 0 stays, and so do the names.                                     *)
LEMMA NamesStay ==
    ASSUME NamesOK, UNCHANGED <<released_vars, free_vars>>, ok' => ok,
           \A i \in DOMAIN trail : trail[i].level = 0 => i \in DOMAIN trail' /\ trail'[i] = trail[i]
    PROVE  NamesOK'
<1>1. ASSUME ok', NEW i \in DOMAIN released_vars
      PROVE  \E j \in DOMAIN trail' : Var(trail'[j].lit) = released_vars[i] /\ trail'[j].level = 0
  <2>1. PICK j \in DOMAIN trail : Var(trail[j].lit) = released_vars[i] /\ trail[j].level = 0
    BY <1>1 DEF NamesOK
  <2> QED BY <2>1
<1> QED BY <1>1 DEF NamesOK

(* Nothing happens to the clauses, the trail and the names.                *)
LEMMA QuietStep ==
    ASSUME SolverInv, TypeOK', PhaseOK', ok' => ok,
           UNCHANGED <<clauses, learnts, trail, trail_lim, released_vars, free_vars>>
    PROVE  SolverInv'
<1>1. TrailInv(trail', trail_lim', clauses' \cup learnts') /\ Unused(clauses' \cup learnts', trail', free_vars')
  BY DEF SolverInv, DB
<1>2. NamesOK'
  BY NamesStay DEF SolverInv
<1> QED BY <1>1, <1>2, NextInv

(* The clauses the user begins with, on an empty trail.                    *)
LEMMA SolverInvInit == Init => SolverInv
<1> SUFFICES ASSUME Init PROVE SolverInv
  OBVIOUS
<1>1. user \in Users /\ clauses = user.clauses /\ MaxVar \in Nat
      /\ \A c \in clauses : c \subseteq Lits
  BY SolverAssumption DEF Init
<1> DEFINE used == {0} \cup UNION {VarsOf(c) : c \in clauses}
<1>2. next_var \in 1 .. MaxVar + 1
  <2>1. used \subseteq 0 .. MaxVar /\ used # {}
    <3>1. ASSUME NEW c \in clauses, NEW v \in VarsOf(c) PROVE v \in 0 .. MaxVar
      <4>1. PICK l \in c : v = Var(l)
        BY <3>1 DEF VarsOf
      <4>2. v \in Vars
        BY <1>1, <4>1, LitFacts
      <4> QED BY <1>1, <4>2 DEF Vars
    <3> QED BY <1>1, <3>1
  <2>2. Max(used) \in used
    <3> HIDE DEF used
    <3> QED BY <1>1, <2>1, MaxIs
  <2>3. Max(used) \in 0 .. MaxVar
    <3> HIDE DEF used
    <3> QED BY <2>1, <2>2
  <2>4. next_var = 1 + Max(used)
    BY DEF Init
  <2> HIDE DEF used
  <2> QED BY <1>1, <2>3, <2>4
<1>3. TypeOK
  <2>1. /\ trail = <<>> /\ trail_lim = <<>> /\ released_vars = <<>> /\ free_vars = <<>>
        /\ assumptions = <<>> /\ learnts = {} /\ conflict = {} /\ ok = TRUE /\ simpDB_assigns = -1
        /\ pc = "idle" /\ conflictC = 0 /\ curr_restarts = 0 /\ status = "l_Undef"
    BY DEF Init
  <2>2. \A S : <<>> \in Seq(S)
    OBVIOUS
  <2> QED BY <1>1, <1>2, <2>1, <2>2 DEF TypeOK
<1>4. TrailInv(trail, trail_lim, DB)
  <2>1. trail = <<>> /\ trail_lim = <<>> /\ DOMAIN trail = {} /\ DOMAIN trail_lim = {} /\ Len(trail_lim) = 0
    BY DEF Init
  <2>2. Distinct(trail) /\ Ordered(trail, trail_lim)
    BY <2>1 DEF Distinct, Ordered
  <2>3. Reasoned(trail, DB) /\ DecisionsFirst(trail, trail_lim) /\ FalseLate(trail, trail_lim, DB)
    BY <2>1 DEF Reasoned, DecisionsFirst, FalseLate
  <2> QED BY <2>2, <2>3 DEF TrailInv
<1>5. PhaseOK
  BY DEF Init, PhaseOK
<1>6. NamesOK
  BY DEF Init, NamesOK
<1>7. Unused(DB, trail, free_vars)
  BY DEF Init, Unused
<1> QED BY <1>3, <1>4, <1>5, <1>6, <1>7 DEF SolverInv

(* A free variable is taken, or a new one: clauses and trail do not change. *)
LEMMA newVarStep == ASSUME SolverInv, newVar PROVE SolverInv'
<1>1. /\ pc = "idle" /\ pc' = pc
      /\ UNCHANGED <<user, ok, clauses, learnts, simpDB_assigns, trail, trail_lim, released_vars>>
      /\ UNCHANGED <<assumptions, conflictC, curr_restarts, status, conflict>>
  BY DEF newVar, database, task, answer
<1>2. TypeOK /\ MaxVar \in Nat /\ user.nVars \in 0 .. MaxVar
  BY SolverAssumption DEF SolverInv, TypeOK
<1> DEFINE n == Len(free_vars)
<1>3. /\ n \in Nat /\ DOMAIN free_vars = 1 .. n
  BY <1>2 DEF TypeOK
<1>4. \/ free_vars' = free_vars /\ next_var' = next_var + 1 /\ next_var <= user.nVars
      \/ n > 0 /\ free_vars' = SubSeq(free_vars, 1, n - 1) /\ next_var' = next_var
  <2>1. free_vars # <<>> => n > 0
    BY <1>2 DEF TypeOK
  <2> QED BY <2>1 DEF newVar
<1>5. free_vars' \in Seq(Vars) /\ \A i \in DOMAIN free_vars' : i \in DOMAIN free_vars /\ free_vars'[i] = free_vars[i]
  <2>1. CASE free_vars' = free_vars
    BY <1>2, <2>1 DEF TypeOK
  <2>2. CASE n > 0 /\ free_vars' = SubSeq(free_vars, 1, n - 1)
    <3>1. free_vars \in Seq(Vars) /\ n - 1 \in Nat
      BY <1>2, <1>3, <2>2 DEF TypeOK
    <3>2. \A i \in 1 .. n - 1 : i \in 1 .. n
      BY <1>3
    <3> QED BY <1>3, <2>2, <3>1, <3>2
  <2> QED BY <1>4, <2>1, <2>2
<1>6. next_var' \in 1 .. MaxVar + 1
  BY <1>2, <1>4 DEF TypeOK
<1>7. TypeOK'
  BY <1>1, <1>2, <1>5, <1>6 DEF TypeOK
<1>8. PhaseOK'
  BY <1>1 DEF SolverInv, PhaseOK
<1>9. NamesOK'
  BY <1>1, <1>5 DEF SolverInv, NamesOK
<1>10. Unused(clauses' \cup learnts', trail', free_vars')
  BY <1>1, <1>5 DEF SolverInv, Unused, DB
<1>11. TrailInv(trail', trail_lim', clauses' \cup learnts')
  BY <1>1 DEF SolverInv, DB
<1> QED BY <1>7, <1>8, <1>9, <1>10, <1>11, NextInv

(* addClause_ keeps the trail, and an unknown literal that is all of a     *)
(* clause becomes true.                                                    *)
LEMMA InsertKeeps ==
    ASSUME SolverInv, pc = "idle", NEW c \in SUBSET Lits, VarsOf(c) \subseteq Live, Insert(c),
           UNCHANGED <<user, learnts, trail_lim, free_vars>>
    PROVE  /\ user' = user /\ ok' \in BOOLEAN /\ (ok' => ok)
           /\ clauses' \subseteq SUBSET Lits /\ trail' \in Seq(EntryType)
           /\ pc' \in {"idle", "add"} /\ (pc' = "add" => ok')
           /\ TrailInv(trail', trail_lim', clauses' \cup learnts')
           /\ Unused(clauses' \cup learnts', trail', free_vars')
           /\ \A i \in DOMAIN trail : i \in DOMAIN trail' /\ trail'[i] = trail[i]
           /\ \A l \in Lits : c = {l} /\ IsUndef(l) /\ ok =>
                 \E j \in DOMAIN trail' : trail'[j].lit = l /\ trail'[j].level = 0
<1> DEFINE rest == {l \in c : ~ IsFalse(l)}
<1>1. /\ TypeOK /\ TrailInv(trail, trail_lim, DB) /\ Unused(DB, trail, free_vars)
      /\ trail_lim = <<>> /\ Len(trail_lim) = 0
      /\ trail \in Seq(EntryType) /\ trail_lim \in Seq(Nat)
      /\ ok \in BOOLEAN /\ clauses \subseteq SUBSET Lits
  <2>1. TypeOK /\ TrailInv(trail, trail_lim, DB) /\ Unused(DB, trail, free_vars) /\ trail_lim = <<>>
    BY DEF SolverInv, PhaseOK
  <2> QED BY <2>1 DEF TypeOK
<1>2. \A l \in c : IsFalse(l) => -l \in {trail[i].lit : i \in DOMAIN trail}
  BY DEF IsFalse, TrueLits
<1>3. CASE ~ ok \/ Satisfied(c) \/ \E l \in c : -l \in c
  <2>1. UNCHANGED <<ok, clauses, trail, pc>>
    BY <1>3 DEF Insert
  <2>2. ASSUME NEW l \in Lits, c = {l}, IsUndef(l), ok PROVE FALSE
    <3>1. ~ Satisfied(c)
      BY <2>2 DEF Satisfied, IsUndef
    <3>2. -l # l
      BY LitFacts
    <3> QED BY <1>3, <2>2, <3>1, <3>2
  <2> QED BY <1>1, <2>1, <2>2 DEF DB
<1>4. CASE ok /\ ~ Satisfied(c) /\ (\A l \in c : -l \notin c) /\ rest = {}
  <2>1. ok' = FALSE /\ UNCHANGED <<clauses, trail, pc>>
    BY <1>4 DEF Insert
  <2>2. ASSUME NEW l \in Lits, c = {l}, IsUndef(l), ok PROVE FALSE
    BY <1>4, <2>2 DEF IsUndef
  <2> QED BY <1>1, <2>1, <2>2 DEF DB
<1>5. CASE /\ ok /\ ~ Satisfied(c) /\ (\A l \in c : -l \notin c)
           /\ rest # {} /\ Cardinality(rest) = 1
  <2> DEFINE x == CHOOSE l \in rest : TRUE
             e == Entry(x, 0, None)
  <2>1. /\ trail' = Append(trail, e) /\ pc' = "add"
        /\ UNCHANGED <<ok, clauses>>
    BY <1>5 DEF Insert
  <2>2. x \in rest
    BY <1>5
  <2>3. x \in c /\ x \in Lits /\ ~ IsFalse(x) /\ ~ IsTrue(x)
    BY <1>5, <2>2 DEF Satisfied
  <2>4. Unset(trail, x)
    BY <1>1, <2>3, TrailFacts DEF IsUndef
  <2>5. e \in EntryType /\ e.lit = x /\ e.level = 0 /\ e.reason = None
    BY <2>3 DEF Entry, EntryType, None
  <2>6. \A i \in DOMAIN free_vars : free_vars[i] # Var(x)
    <3>1. Var(x) \in Live
      BY <2>3 DEF VarsOf
    <3> QED BY <1>1, <3>1, LiveFacts
  <2> HIDE DEF e, x
  <2>7. TrailInv(Append(trail, e), trail_lim, DB)
    BY <1>1, <2>4, <2>5, TrailFacts, TrailGrows
  <2>8. Unused(DB, Append(trail, e), free_vars)
    BY <1>1, <2>5, <2>6, UnusedGrows
  <2>9. /\ trail' \in Seq(EntryType)
        /\ \A i \in DOMAIN trail : i \in DOMAIN trail' /\ trail'[i] = trail[i]
        /\ \E j \in DOMAIN trail' : trail'[j] = e
    <3>1. Len(trail) + 1 \in DOMAIN Append(trail, e) /\ Append(trail, e)[Len(trail) + 1] = e
      BY <1>1
    <3> QED BY <1>1, <2>1, <2>5, <3>1
  <2>10. ASSUME NEW l \in Lits, c = {l} PROVE x = l
    BY <2>3, <2>10
  <2> QED BY <1>1, <1>5, <2>1, <2>5, <2>7, <2>8, <2>9, <2>10 DEF DB
<1>6. CASE /\ ok /\ ~ Satisfied(c) /\ (\A l \in c : -l \notin c)
           /\ rest # {} /\ Cardinality(rest) # 1
  <2>1. clauses' = clauses \cup {rest} /\ UNCHANGED <<ok, trail, pc>>
    BY <1>6 DEF Insert
  <2>2. DB \subseteq clauses' \cup learnts' /\ \A d \in clauses' \cup learnts' : d \in DB \/ d = rest
    BY <2>1 DEF DB
  <2>3. TrailInv(trail, trail_lim, clauses' \cup learnts')
    BY <1>1, <2>2, ClausesChange
  <2>4. \A i \in DOMAIN free_vars : free_vars[i] \notin VarsOf(rest)
    <3>1. VarsOf(rest) \subseteq Live
      BY DEF VarsOf
    <3> QED BY <1>1, <3>1, LiveFacts
  <2>5. Unused(clauses' \cup learnts', trail, free_vars)
    BY <1>1, <2>2, <2>4 DEF Unused
  <2>6. ASSUME NEW l \in Lits, c = {l}, IsUndef(l) PROVE FALSE
    <3>1. rest = {l}
      BY <2>6 DEF IsUndef
    <3> QED BY <1>6, <3>1, FS_Singleton
  <2> QED BY <1>1, <1>6, <2>1, <2>3, <2>5, <2>6
<1> QED BY <1>3, <1>4, <1>5, <1>6

(* A clause over variables in use is added.                                *)
LEMMA addClauseStep == ASSUME SolverInv, addClause PROVE SolverInv'
<1>1. PICK c \in user.added : VarsOf(c) \subseteq Live /\ Insert(c)
  BY DEF addClause
<1>2. /\ pc = "idle" /\ UNCHANGED <<user, learnts, trail_lim, next_var, released_vars, free_vars>>
      /\ UNCHANGED <<simpDB_assigns, assumptions, conflictC, curr_restarts, status, conflict>>
  BY DEF addClause, names, task, answer
<1>3. c \in SUBSET Lits
  BY SolverAssumption DEF SolverInv, TypeOK
<1>4. /\ user' = user /\ ok' \in BOOLEAN /\ (ok' => ok)
      /\ clauses' \subseteq SUBSET Lits /\ trail' \in Seq(EntryType)
      /\ pc' \in {"idle", "add"} /\ (pc' = "add" => ok')
      /\ TrailInv(trail', trail_lim', clauses' \cup learnts')
      /\ Unused(clauses' \cup learnts', trail', free_vars')
      /\ \A i \in DOMAIN trail : i \in DOMAIN trail' /\ trail'[i] = trail[i]
  BY <1>1, <1>2, <1>3, InsertKeeps
<1>5. TypeOK'
  BY <1>2, <1>4 DEF SolverInv, TypeOK
<1>6. PhaseOK'
  BY <1>2, <1>4 DEF SolverInv, PhaseOK
<1>7. NamesOK'
  BY <1>2, <1>4, NamesStay DEF SolverInv
<1> QED BY <1>4, <1>5, <1>6, <1>7, NextInv

(* The variable released was in use, and has a value from now on.          *)
LEMMA releaseVarStep == ASSUME SolverInv, releaseVar PROVE SolverInv'
<1>1. PICK l \in user.releasable :
         /\ Var(l) \in Live /\ IsUndef(l) /\ Insert({l})
         /\ released_vars' = Append(released_vars, Var(l))
  BY DEF releaseVar
<1>2. /\ pc = "idle" /\ UNCHANGED <<user, learnts, trail_lim, next_var, free_vars>>
      /\ UNCHANGED <<simpDB_assigns, assumptions, conflictC, curr_restarts, status, conflict>>
  BY DEF releaseVar, task, answer
<1>3. l \in Lits /\ {l} \in SUBSET Lits /\ VarsOf({l}) \subseteq Live
  <2>1. l \in Lits
    BY SolverAssumption DEF SolverInv, TypeOK
  <2> QED BY <1>1, <2>1 DEF VarsOf
<1>4. /\ user' = user /\ ok' \in BOOLEAN /\ (ok' => ok)
      /\ clauses' \subseteq SUBSET Lits /\ trail' \in Seq(EntryType)
      /\ pc' \in {"idle", "add"} /\ (pc' = "add" => ok')
      /\ TrailInv(trail', trail_lim', clauses' \cup learnts')
      /\ Unused(clauses' \cup learnts', trail', free_vars')
      /\ \A i \in DOMAIN trail : i \in DOMAIN trail' /\ trail'[i] = trail[i]
      /\ ok => \E j \in DOMAIN trail' : trail'[j].lit = l /\ trail'[j].level = 0
  BY <1>1, <1>2, <1>3, InsertKeeps
<1> DEFINE n == Len(released_vars)
<1>5. /\ n \in Nat /\ DOMAIN released_vars = 1 .. n /\ DOMAIN released_vars' = 1 .. n + 1
      /\ \A i \in 1 .. n : released_vars'[i] = released_vars[i]
      /\ released_vars'[n + 1] = Var(l) /\ released_vars' \in Seq(Vars)
      /\ Var(l) \in Vars
  <2>1. Var(l) \in Vars /\ released_vars \in Seq(Vars)
    BY <1>3, LitFacts DEF SolverInv, TypeOK
  <2> QED BY <1>1, <2>1
<1>6. TypeOK'
  BY <1>2, <1>4, <1>5 DEF SolverInv, TypeOK
<1>7. PhaseOK'
  BY <1>2, <1>4 DEF SolverInv, PhaseOK
<1> HIDE DEF n
<1>8. \A i \in 1 .. n + 1 : i = n + 1 \/ i \in 1 .. n
  BY <1>5
<1>9. /\ \A i \in DOMAIN free_vars : free_vars[i] # Var(l)
      /\ \A i \in 1 .. n : released_vars[i] # Var(l)
  BY <1>1, <1>5, LiveFacts DEF SolverInv
<1>10. NamesOK'
  <2>1. \A i, j \in DOMAIN released_vars' : i # j => released_vars'[i] # released_vars'[j]
    BY <1>5, <1>8, <1>9 DEF SolverInv, NamesOK
  <2>2. \A i \in DOMAIN released_vars', j \in DOMAIN free_vars' : released_vars'[i] # free_vars'[j]
    BY <1>2, <1>5, <1>8, <1>9 DEF SolverInv, NamesOK
  <2>3. ASSUME ok', NEW i \in DOMAIN released_vars'
        PROVE  \E j \in DOMAIN trail' : Var(trail'[j].lit) = released_vars'[i] /\ trail'[j].level = 0
    <3>1. CASE i = n + 1
      BY <1>4, <1>5, <2>3, <3>1
    <3>2. CASE i \in 1 .. n
      <4>1. PICK j \in DOMAIN trail : Var(trail[j].lit) = released_vars[i] /\ trail[j].level = 0
        BY <1>4, <1>5, <2>3, <3>2 DEF SolverInv, NamesOK
      <4> QED BY <1>4, <1>5, <3>2, <4>1
    <3> QED BY <1>5, <1>8, <2>3, <3>1, <3>2
  <2> QED BY <2>1, <2>2, <2>3 DEF NamesOK
<1> QED BY <1>4, <1>6, <1>7, <1>10, NextInv

(* A question about variables in use.                                      *)
LEMMA solveStep == ASSUME SolverInv, solve PROVE SolverInv'
<1>1. /\ assumptions' \in user.queries
      /\ \A i \in DOMAIN assumptions' : Var(assumptions'[i]) \in Live
      /\ conflictC' = 0 /\ curr_restarts' = 0 /\ status' = "l_Undef" /\ conflict' = {}
      /\ pc = "idle" /\ pc' = IF ok THEN "search" ELSE "refuse"
      /\ UNCHANGED <<user, ok, clauses, learnts, simpDB_assigns, trail, trail_lim>>
      /\ UNCHANGED <<next_var, released_vars, free_vars>>
  BY DEF solve, database, names
<1>2. assumptions' \in Seq(Lits)
  BY <1>1, SolverAssumption DEF SolverInv, TypeOK
<1>3. TypeOK'
  BY <1>1, <1>2 DEF SolverInv, TypeOK
<1>4. PhaseOK'
  <2>1. Live' = Live
    BY <1>1 DEF Live
  <2> QED BY <1>1, <2>1 DEF SolverInv, PhaseOK
<1> QED BY <1>1, <1>3, <1>4, QuietStep

(* A call returns at level 0.                                              *)
LEMMA ReturnStep ==
    ASSUME SolverInv, Refuse \/ addClauseDone \/ Contradiction PROVE SolverInv'
<1>1. /\ ok' \in BOOLEAN /\ (ok' => ok) /\ pc' = "idle"
      /\ status' \in {"l_True", "l_False", "l_Undef"}
      /\ pc # "search" \/ decisionLevel = 0
      /\ UNCHANGED <<user, clauses, learnts, simpDB_assigns, trail, trail_lim>>
      /\ UNCHANGED <<next_var, released_vars, free_vars, assumptions, conflictC, curr_restarts, conflict>>
  <2>1. CASE Refuse
    BY <2>1 DEF Refuse, database, names, task, SolverInv, TypeOK
  <2>2. CASE addClauseDone
    BY <2>2 DEF addClauseDone, names, task, answer, SolverInv, TypeOK, PhaseOK
  <2>3. CASE Contradiction
    BY <2>3 DEF Contradiction, names, task, SolverInv, TypeOK
  <2> QED BY <2>1, <2>2, <2>3
<1>2. TypeOK'
  BY <1>1 DEF SolverInv, TypeOK
<1>3. trail_lim = <<>>
  <2>1. trail_lim \in Seq(Nat)
    BY DEF SolverInv, TypeOK
  <2>2. Len(trail_lim) = 0 => trail_lim = <<>>
    BY <2>1
  <2> QED BY <1>1, <2>2 DEF SolverInv, PhaseOK, decisionLevel
<1>4. PhaseOK'
  BY <1>1, <1>3 DEF PhaseOK
<1> QED BY <1>1, <1>2, <1>4, QuietStep

(* Nothing changes.                                                        *)
LEMMA StutterStep == ASSUME SolverInv, UNCHANGED vars PROVE SolverInv'
<1>1. /\ UNCHANGED <<user, ok, clauses, learnts, trail, trail_lim, next_var, released_vars, free_vars>>
      /\ UNCHANGED <<simpDB_assigns, pc, assumptions, conflictC, curr_restarts, status, model, conflict>>
  BY DEF vars
<1>2. TypeOK'
  BY <1>1 DEF SolverInv, TypeOK
<1>3. PhaseOK'
  BY <1>1 DEF SolverInv, PhaseOK, Live
<1> QED BY <1>1, <1>2, <1>3, QuietStep

(* A clause makes a literal true.                                          *)
LEMMA PropagateStep == ASSUME SolverInv, Propagate PROVE SolverInv'
<1>1. PICK u \in Units : trail' = Append(trail, Entry(u[2], decisionLevel, u[1]))
  BY DEF Propagate
<1>2. /\ UNCHANGED <<user, ok, clauses, learnts, simpDB_assigns, trail_lim, next_var, released_vars, free_vars>>
      /\ UNCHANGED <<pc, assumptions, conflictC, curr_restarts, status, conflict>>
  BY DEF Propagate, database, names, task, answer
<1>3. /\ TypeOK /\ TrailInv(trail, trail_lim, DB) /\ PhaseOK /\ NamesOK /\ Unused(DB, trail, free_vars)
      /\ trail \in Seq(EntryType) /\ trail_lim \in Seq(Nat)
  BY DEF SolverInv, TypeOK
<1>4. PICK c \in DB : \E l \in c : u = <<c, l>>
  BY DEF Units, DB
<1>4a. PICK l \in c : u = <<c, l>>
  BY <1>4
<1>5. u[1] = c /\ u[2] = l
  BY <1>4a
<1>6. IsUndef(l) /\ \A k \in c \ {l} : IsFalse(k)
  BY <1>5 DEF Units
<1> DEFINE e == Entry(l, decisionLevel, c)
<1>7. c \subseteq Lits /\ l \in Lits /\ c # None
  BY <1>3, <1>4, TrailFacts DEF None
<1>8. e \in EntryType /\ e.lit = l /\ e.level = Len(trail_lim) /\ e.reason = c
  <2>1. decisionLevel \in Nat /\ decisionLevel = Len(trail_lim)
    BY <1>3, TrailFacts
  <2> QED BY <1>7, <2>1 DEF Entry, EntryType
<1>9. trail' = Append(trail, e)
  BY <1>1, <1>5
<1> HIDE DEF e
<1>10. TrailInv(Append(trail, e), trail_lim, DB)
  <2>1. Unset(trail, l)
    BY <1>3, <1>6, <1>7, TrailFacts
  <2>2. \A k \in c \ {l} : \E j \in DOMAIN trail : trail[j].lit = -k
    BY <1>3, <1>6, TrailFacts
  <2> QED BY <1>3, <1>4, <1>7, <1>8, <2>1, <2>2, TrailFacts, TrailGrows
<1>11. Unused(DB, Append(trail, e), free_vars)
  <2>1. \A i \in DOMAIN free_vars : free_vars[i] # Var(l)
    BY <1>3, <1>4 DEF Unused, VarsOf
  <2> QED BY <1>3, <1>4, <1>8, <2>1, UnusedGrows
<1>12. trail' \in Seq(EntryType) /\ \A i \in DOMAIN trail : i \in DOMAIN trail' /\ trail'[i] = trail[i]
  BY <1>3, <1>8, <1>9
<1>13. TypeOK'
  BY <1>2, <1>3, <1>12 DEF TypeOK
<1>14. PhaseOK'
  BY <1>2, <1>3 DEF PhaseOK, Live
<1>15. NamesOK'
  BY <1>2, <1>3, <1>12, NamesStay
<1> QED BY <1>2, <1>9, <1>10, <1>11, <1>13, <1>14, <1>15, NextInv DEF DB

(* When propagation is done a level may be opened: no clause is false.     *)
LEMMA NothingFalse ==
    ASSUME SolverInv, Propagated
    PROVE  TrailInv(trail, Append(trail_lim, Len(trail)), DB)
<1>1. /\ TypeOK /\ TrailInv(trail, trail_lim, DB)
      /\ trail \in Seq(EntryType) /\ trail_lim \in Seq(Nat)
  BY DEF SolverInv, TypeOK
<1>2. ASSUME NEW c \in DB, FalseIn(trail, c) PROVE FALSE
  <2>1. \A l \in c : IsFalse(l)
    BY <1>1, <1>2, TrailFacts DEF FalseIn
  <2>2. c \in Conflicting
    BY <2>1 DEF Conflicting, DB
  <2> QED BY <2>2 DEF Propagated
<1> QED BY <1>1, <1>2, LevelOpens

(* An assumption that is true opens a level without a decision.            *)
LEMMA DummyStep == ASSUME SolverInv, Dummy PROVE SolverInv'
<1>1. /\ Propagated /\ pc = "search" /\ trail_lim' = Append(trail_lim, Len(trail))
      /\ UNCHANGED <<user, ok, clauses, learnts, simpDB_assigns, trail, next_var, released_vars, free_vars>>
      /\ UNCHANGED <<pc, assumptions, conflictC, curr_restarts, status, conflict>>
  BY DEF Dummy, Ready, database, names, task, answer
<1>2. TrailInv(trail', trail_lim', clauses' \cup learnts')
  BY <1>1, NothingFalse DEF DB
<1>3. TypeOK'
  <2>1. trail_lim' \in Seq(Nat)
    <3>1. trail_lim \in Seq(Nat) /\ Len(trail) \in Nat
      BY DEF SolverInv, TypeOK
    <3> QED BY <1>1, <3>1
  <2> QED BY <1>1, <2>1 DEF SolverInv, TypeOK
<1>4. PhaseOK'
  BY <1>1 DEF SolverInv, PhaseOK, Live
<1>5. NamesOK'
  BY <1>1, NamesStay DEF SolverInv
<1> QED BY <1>1, <1>2, <1>3, <1>4, <1>5, NextInv DEF SolverInv, DB

(* A decision is a variable in use, and the first literal of its level.     *)
LEMMA DecideStep == ASSUME SolverInv, Decide PROVE SolverInv'
<1>1. PICK l \in IF Assumed THEN Undecided \cup {-v : v \in Undecided} ELSE {Assumption} :
         IsUndef(l) /\ trail' = Append(trail, Entry(l, decisionLevel + 1, None))
  BY DEF Decide
<1>2. /\ Propagated /\ pc = "search" /\ trail_lim' = Append(trail_lim, Len(trail))
      /\ UNCHANGED <<user, ok, clauses, learnts, simpDB_assigns, next_var, released_vars, free_vars>>
      /\ UNCHANGED <<pc, assumptions, conflictC, curr_restarts, status, conflict>>
  BY DEF Decide, Ready, database, names, task, answer
<1>3. /\ TypeOK /\ TrailInv(trail, trail_lim, DB) /\ PhaseOK /\ NamesOK /\ Unused(DB, trail, free_vars)
      /\ trail \in Seq(EntryType) /\ trail_lim \in Seq(Nat) /\ next_var \in 1 .. MaxVar + 1
      /\ assumptions \in Seq(Lits) /\ MaxVar \in Nat
  BY SolverAssumption DEF SolverInv, TypeOK
<1>4. decisionLevel \in Nat /\ decisionLevel = Len(trail_lim)
  BY <1>3, TrailFacts
<1>5. l \in Lits /\ \A i \in DOMAIN free_vars : free_vars[i] # Var(l)
  <2>1. CASE Assumed
    <3>1. PICK v \in Undecided : l = v \/ l = -v
      BY <1>1, <2>1
    <3>2. v \in 1 .. next_var - 1 /\ \A i \in DOMAIN free_vars : free_vars[i] # v
      BY <3>1 DEF Undecided
    <3>3. v \in Vars
      BY <1>3, <3>2 DEF Vars
    <3>4. v \in Lits /\ -v \in Lits /\ Var(v) = v /\ Var(-v) = v
      <4>1. v \in Lits /\ v \in Nat \ {0} /\ -v \in Lits
        BY <3>3, LitFacts
      <4>2. Var(v) = v
        BY <4>1 DEF Var
      <4> QED BY <4>1, <4>2, LitFacts
    <3> QED BY <3>1, <3>2, <3>4
  <2>2. CASE ~ Assumed
    <3>1. l = assumptions[decisionLevel + 1]
      BY <1>1, <2>2 DEF Assumption
    <3>2. decisionLevel + 1 \in DOMAIN assumptions
      BY <1>3, <1>4, <2>2 DEF Assumed
    <3>3. l \in Lits /\ Var(l) \in Live
      BY <1>2, <1>3, <3>1, <3>2 DEF PhaseOK
    <3> QED BY <1>3, <3>3, LiveFacts
  <2> QED BY <2>1, <2>2
<1> DEFINE e == Entry(l, decisionLevel + 1, None)
           lim == Append(trail_lim, Len(trail))
<1>6. e \in EntryType /\ e.lit = l /\ e.level = Len(trail_lim) + 1 /\ e.reason = None
  BY <1>4, <1>5 DEF Entry, EntryType, None
<1>7. lim \in Seq(Nat) /\ Len(lim) = Len(trail_lim) + 1 /\ lim[Len(lim)] = Len(trail)
  BY <1>3
<1>8. trail' = Append(trail, e) /\ trail_lim' = lim
  BY <1>1, <1>2
<1> HIDE DEF e
<1>9. TrailInv(Append(trail, e), lim, DB)
  <2>1. TrailInv(trail, lim, DB)
    BY <1>2, NothingFalse
  <2>2. Unset(trail, l)
    BY <1>1, <1>3, <1>5, TrailFacts
  <2>3. DB \in SUBSET SUBSET Lits
    BY <1>3, TrailFacts
  <2> HIDE DEF lim
  <2> QED BY <1>3, <1>6, <1>7, <2>1, <2>2, <2>3, TrailGrows
<1>10. Unused(DB, Append(trail, e), free_vars)
  BY <1>3, <1>5, <1>6, UnusedGrows
<1>11. trail' \in Seq(EntryType) /\ \A i \in DOMAIN trail : i \in DOMAIN trail' /\ trail'[i] = trail[i]
  BY <1>3, <1>6, <1>8
<1> HIDE DEF lim
<1>12. TypeOK'
  BY <1>2, <1>3, <1>7, <1>8, <1>11 DEF TypeOK
<1>13. PhaseOK'
  BY <1>2, <1>3 DEF PhaseOK, Live
<1>14. NamesOK'
  BY <1>2, <1>3, <1>11, NamesStay
<1> QED BY <1>2, <1>8, <1>9, <1>10, <1>12, <1>13, <1>14, NextInv DEF DB

(* All levels are undone.                                                  *)
LEMMA CancelAll ==
    ASSUME SolverInv, trail' = Below(0), trail_lim' = <<>>,
           UNCHANGED <<ok, clauses, learnts, released_vars, free_vars>>
    PROVE  /\ trail' \in Seq(EntryType) /\ trail_lim' \in Seq(Nat)
           /\ TrailInv(trail', trail_lim', clauses' \cup learnts')
           /\ Unused(clauses' \cup learnts', trail', free_vars')
           /\ NamesOK'
<1>1. /\ TypeOK /\ TrailInv(trail, trail_lim, DB) /\ NamesOK /\ Unused(DB, trail, free_vars)
      /\ trail \in Seq(EntryType) /\ trail_lim \in Seq(Nat)
  BY DEF SolverInv, TypeOK
<1>2. decisionLevel \in Nat /\ decisionLevel = Len(trail_lim)
  BY <1>1, TrailFacts
<1>3. <<>> \in Seq(Nat)
  OBVIOUS
<1>4. CASE decisionLevel > 0
  <2> DEFINE u == SubSeq(trail, 1, trail_lim[0 + 1])
             v == SubSeq(trail_lim, 1, 0)
  <2>1. /\ u \in Seq(EntryType) /\ v \in Seq(Nat) /\ Len(v) = 0
        /\ TrailInv(u, v, DB)
        /\ \A i \in DOMAIN trail : i \in DOMAIN u <=> trail[i].level <= 0
        /\ \A i \in DOMAIN u : i \in DOMAIN trail /\ u[i] = trail[i]
    <3>1. 0 \in Nat /\ 0 < Len(trail_lim)
      BY <1>2, <1>4
    <3> QED BY <1>1, <3>1, TrailCut
  <2>2. trail' = u
    BY <1>4 DEF Below
  <2> HIDE DEF u, v
  <2>3. v = <<>>
    BY <2>1
  <2>4. Unused(DB, u, free_vars)
    BY <1>1, <2>1, UnusedCut
  <2>5. \A i \in DOMAIN trail : trail[i].level = 0 => i \in DOMAIN trail' /\ trail'[i] = trail[i]
    BY <2>1, <2>2
  <2>6. NamesOK'
    BY <1>1, <2>5, NamesStay
  <2> QED BY <1>3, <2>1, <2>2, <2>3, <2>4, <2>6 DEF DB
<1>5. CASE ~ (decisionLevel > 0)
  <2>1. trail' = trail
    BY <1>5 DEF Below
  <2>2. trail_lim = <<>>
    BY <1>1, <1>2, <1>5
  <2>3. NamesOK'
    BY <1>1, <2>1, NamesStay
  <2> QED BY <1>1, <2>1, <2>2, <2>3 DEF DB
<1> QED BY <1>4, <1>5

(* Only level 0 is left.                                                   *)
LEMMA RestartStep == ASSUME SolverInv, Restart PROVE SolverInv'
<1>1. /\ trail' = Below(0) /\ trail_lim' = <<>> /\ pc = "search"
      /\ UNCHANGED <<user, ok, clauses, learnts, simpDB_assigns, next_var, released_vars, free_vars>>
      /\ UNCHANGED <<pc, assumptions, status, conflict>>
      /\ conflictC' = 0 /\ curr_restarts' = curr_restarts + 1
  BY DEF Restart, Ready, database, names, answer
<1>2. /\ trail' \in Seq(EntryType) /\ trail_lim' \in Seq(Nat)
      /\ TrailInv(trail', trail_lim', clauses' \cup learnts')
      /\ Unused(clauses' \cup learnts', trail', free_vars')
      /\ NamesOK'
  BY <1>1, CancelAll
<1>3. TypeOK'
  BY <1>1, <1>2 DEF SolverInv, TypeOK
<1>4. PhaseOK'
  BY <1>1 DEF SolverInv, PhaseOK, Live
<1> QED BY <1>2, <1>3, <1>4, NextInv

(* The answer is given at level 0.                                         *)
LEMMA AnswerStep == ASSUME SolverInv, AssumptionFails \/ ModelFound PROVE SolverInv'
<1>1. /\ trail' = Below(0) /\ trail_lim' = <<>> /\ pc' = "idle"
      /\ UNCHANGED <<user, ok, clauses, learnts, simpDB_assigns, next_var, released_vars, free_vars>>
      /\ UNCHANGED <<assumptions, conflictC, curr_restarts>>
      /\ status' \in {"l_True", "l_False", "l_Undef"}
  BY DEF AssumptionFails, ModelFound, database, names, task
<1>2. /\ trail' \in Seq(EntryType) /\ trail_lim' \in Seq(Nat)
      /\ TrailInv(trail', trail_lim', clauses' \cup learnts')
      /\ Unused(clauses' \cup learnts', trail', free_vars')
      /\ NamesOK'
  BY <1>1, CancelAll
<1>3. conflict' \subseteq Lits
  <2>1. CASE ModelFound
    BY <2>1 DEF ModelFound, SolverInv, TypeOK
  <2>2. CASE AssumptionFails
    <3>1. /\ conflict' = analyzeFinal(-Assumption) /\ ~ Assumed
      BY <2>2 DEF AssumptionFails
    <3>2. decisionLevel \in Nat /\ assumptions \in Seq(Lits)
      BY TrailFacts DEF SolverInv, TypeOK
    <3>3. decisionLevel + 1 \in DOMAIN assumptions
      BY <3>1, <3>2 DEF Assumed
    <3>4. -Assumption \in Lits
      <4>1. assumptions[decisionLevel + 1] \in Lits
        BY <3>2, <3>3
      <4> QED BY <4>1, LitFacts DEF Assumption
    <3>5. /\ DOMAIN trail = 1 .. Len(trail) /\ Len(trail) \in Nat
          /\ \A i \in DOMAIN trail : -trail[i].lit \in Lits
      BY EntryFacts, LitFacts DEF SolverInv, TypeOK
    <3>6. ASSUME decisionLevel # 0, NEW i \in trail_lim[1] + 1 .. Len(trail) PROVE -trail[i].lit \in Lits
      <4>1. trail_lim[1] \in Nat
        BY <3>2, <3>6 DEF decisionLevel, SolverInv, TypeOK
      <4>2. i \in 1 .. Len(trail)
        BY <3>5, <4>1
      <4> QED BY <3>5, <4>2
    <3> QED BY <3>1, <3>4, <3>6 DEF analyzeFinal
  <2> QED BY <2>1, <2>2
<1>4. TypeOK'
  BY <1>1, <1>2, <1>3 DEF SolverInv, TypeOK
<1>5. PhaseOK'
  BY <1>1 DEF PhaseOK
<1> QED BY <1>2, <1>4, <1>5, NextInv

(* Clauses that are forgotten are no reasons.                              *)
LEMMA reduceDBStep == ASSUME SolverInv, reduceDB PROVE SolverInv'
<1>1. PICK forget : forget \subseteq {c \in learnts : Cardinality(c) > 2 /\ ~ Locked(c)} /\ learnts' = learnts \ forget
  BY DEF reduceDB
<1>2. /\ UNCHANGED <<user, ok, clauses, simpDB_assigns, trail, trail_lim, next_var, released_vars, free_vars>>
      /\ UNCHANGED <<pc, assumptions, conflictC, curr_restarts, status, conflict>>
  BY DEF reduceDB, names, task, answer
<1> DEFINE D == clauses' \cup learnts'
<1>3. D \subseteq DB
  BY <1>1, <1>2 DEF DB
<1>4. TrailInv(trail, trail_lim, D)
  <2>1. \A i \in DOMAIN trail : trail[i].reason \in DB => trail[i].reason \in D
    BY <1>1, <1>2 DEF DB, Locked
  <2>2. TrailInv(trail, trail_lim, DB)
    BY DEF SolverInv
  <2> HIDE DEF D
  <2> QED BY <1>3, <2>1, <2>2, ClausesChange
<1>5. Unused(D, trail, free_vars)
  <2> HIDE DEF D
  <2> QED BY <1>3 DEF Unused, SolverInv
<1>6. TypeOK'
  BY <1>1, <1>2 DEF SolverInv, TypeOK
<1>7. PhaseOK'
  BY <1>2 DEF SolverInv, PhaseOK, Live
<1>8. NamesOK'
  BY <1>2, NamesStay DEF SolverInv
<1> QED BY <1>2, <1>4, <1>5, <1>6, <1>7, <1>8, NextInv

(* The trail without some variables keeps the others, once each.           *)
LEMMA KeptIs ==
    ASSUME trail \in Seq(EntryType), Distinct(trail)
    PROVE  /\ Kept \in Seq(EntryType)
           /\ Distinct(Kept)
           /\ \A k \in DOMAIN Kept : /\ Var(Kept[k].lit) \notin Released
                                     /\ \E j \in DOMAIN trail : Kept[k] = trail[j]
           /\ \A j \in DOMAIN trail : \/ Var(trail[j].lit) \in Released
                                     \/ \E k \in DOMAIN Kept : Kept[k] = trail[j]
<1> DEFINE n == Len(trail)
           S == Seq(EntryType)
           Gone(i) == Var(trail[i].lit) \in Released
           Eq(f) == [i \in 0 .. n |-> IF i = 0 THEN <<>>
                                      ELSE IF Gone(i) THEN f[i - 1] ELSE Append(f[i - 1], trail[i])]
           step == [y \in S \X (1 .. n) |-> IF Gone(y[2]) THEN y[1] ELSE Append(y[1], trail[y[2]])]
           kept == CHOOSE f : f = Eq(f)
<1>1. n \in Nat /\ DOMAIN trail = 1 .. n /\ \A i \in 1 .. n : trail[i] \in EntryType
  OBVIOUS
<1>2. kept = Eq(kept)
  <2>1. step \in [S \X (1 .. n) -> S]
    <3>1. ASSUME NEW y \in S \X (1 .. n)
          PROVE  (IF Gone(y[2]) THEN y[1] ELSE Append(y[1], trail[y[2]])) \in S
      <4>1. y[1] \in S /\ trail[y[2]] \in EntryType
        BY <1>1
      <4> HIDE DEF Gone
      <4> QED BY <4>1
    <3> QED BY <3>1
  <2>2. PICK g \in [0 .. n -> S] : g[0] = <<>> /\ \A k \in 1 .. n : g[k] = step[<<g[k-1], k>>]
    <3>1. <<>> \in S /\ n \in Nat
      OBVIOUS
    <3>2. \E g : IsRecursive(g, S, <<>>, n, step)
      <4> HIDE DEF step, n, S
      <4> QED BY <2>1, <3>1, Recursion
    <3> HIDE DEF step, n, S
    <3> QED BY <3>2 DEF IsRecursive
  <2>3. ASSUME NEW k \in 1 .. n
        PROVE  g[k] = IF Gone(k) THEN g[k-1] ELSE Append(g[k-1], trail[k])
    <3>1. g[k-1] \in S
      BY <1>1, <2>2
    <3>2. step[<<g[k-1], k>>] = IF Gone(k) THEN g[k-1] ELSE Append(g[k-1], trail[k])
      <4> HIDE DEF Gone
      <4> QED BY <3>1
    <3> HIDE DEF step, Gone
    <3> QED BY <2>2, <3>2
  <2>4. g = Eq(g)
    <3>1. \A k \in 0 .. n : k = 0 \/ k \in 1 .. n
      BY <1>1
    <3> HIDE DEF n, Gone
    <3> QED BY <2>2, <2>3, <3>1
  <2> HIDE DEF Eq
  <2> QED BY <2>4
<1>3. Kept = kept[n]
  BY DEF Kept
<1>4. /\ kept[0] = <<>>
      /\ \A m \in 0 .. n - 1 :
            kept[m+1] = IF Gone(m + 1) THEN kept[m] ELSE Append(kept[m], trail[m+1])
  <2>1. 0 \in 0 .. n /\ \A m \in 0 .. n - 1 : m + 1 \in 0 .. n /\ m + 1 # 0 /\ m + 1 - 1 = m
    BY <1>1
  <2>2. kept[0] = <<>>
    BY <1>2, <2>1
  <2>3. ASSUME NEW m \in 0 .. n - 1
        PROVE  kept[m+1] = IF Gone(m + 1) THEN kept[m] ELSE Append(kept[m], trail[m+1])
    <3>1. kept[m+1] = Eq(kept)[m+1]
      BY <1>2
    <3> HIDE DEF kept, Gone
    <3> QED BY <2>1, <3>1
  <2> QED BY <2>2, <2>3
<1> HIDE DEF kept, Eq, step
<1> DEFINE Good(m) == /\ kept[m] \in S
                      /\ Distinct(kept[m])
                      /\ \A k \in DOMAIN kept[m] : /\ Var(kept[m][k].lit) \notin Released
                                                   /\ \E j \in 1 .. m : kept[m][k] = trail[j]
                      /\ \A j \in 1 .. m : Gone(j) \/ \E k \in DOMAIN kept[m] : kept[m][k] = trail[j]
           T == {m \in 0 .. n : Good(m)}
<1>5. 0 \in T
  <2>1. 0 \in 0 .. n
    BY <1>1
  <2>2. Good(0)
    BY <1>4 DEF Distinct
  <2> QED BY <2>1, <2>2
<1>6. ASSUME NEW m \in 0 .. n - 1, m \in T PROVE m + 1 \in T
  <2> DEFINE old == kept[m]
             x == trail[m+1]
             new == Append(old, x)
  <2>1. /\ m \in Nat /\ m + 1 \in 0 .. n /\ m + 1 \in 1 .. n /\ x \in EntryType
        /\ \A j \in 1 .. m : j \in 1 .. m + 1 /\ j \in DOMAIN trail /\ j # m + 1
        /\ m + 1 \in DOMAIN trail /\ m + 1 \in 1 .. m + 1
    BY <1>1
  <2>2. /\ old \in S /\ Distinct(old)
        /\ \A k \in DOMAIN old : Var(old[k].lit) \notin Released /\ \E j \in 1 .. m : old[k] = trail[j]
        /\ \A j \in 1 .. m : Gone(j) \/ \E k \in DOMAIN old : old[k] = trail[j]
    BY <1>6
  <2>0. \A j \in 1 .. m + 1 : j = m + 1 \/ j \in 1 .. m
    BY <1>1
  <2>3. CASE Gone(m + 1)
    <3>1. kept[m+1] = old
      BY <1>4, <2>3
    <3>2. Good(m + 1)
      <4> HIDE DEF old, Gone
      <4> QED BY <2>0, <2>1, <2>2, <2>3, <3>1
    <3> QED BY <2>1, <3>2
  <2>4. CASE ~ Gone(m + 1)
    <3>1. kept[m+1] = new
      BY <1>4, <2>4
    <3> HIDE DEF old, x
    <3>2. /\ new \in S /\ DOMAIN new = 1 .. Len(old) + 1 /\ DOMAIN old = 1 .. Len(old) /\ Len(old) \in Nat
          /\ new[Len(old) + 1] = x /\ \A k \in 1 .. Len(old) : new[k] = old[k]
      BY <2>1, <2>2
    <3>3. \A k \in DOMAIN new : k = Len(old) + 1 \/ k \in DOMAIN old
      BY <3>2
    <3> HIDE DEF new
    <3>4. \A k \in DOMAIN old : Var(old[k].lit) # Var(x.lit)
      <4>1. ASSUME NEW k \in DOMAIN old PROVE Var(old[k].lit) # Var(x.lit)
        <5>1. PICK j \in 1 .. m : old[k] = trail[j]
          BY <2>2
        <5> QED BY <2>1, <5>1 DEF Distinct, x
      <4> QED BY <4>1
    <3>5. Distinct(new)
      <4> SUFFICES ASSUME NEW i \in DOMAIN new, NEW j \in DOMAIN new, i # j
                   PROVE  Var(new[i].lit) # Var(new[j].lit)
        BY DEF Distinct
      <4>1. CASE i = Len(old) + 1 /\ j \in DOMAIN old
        BY <3>2, <3>4, <4>1
      <4>2. CASE j = Len(old) + 1 /\ i \in DOMAIN old
        BY <3>2, <3>4, <4>2
      <4>3. CASE i \in DOMAIN old /\ j \in DOMAIN old
        BY <2>2, <3>2, <4>3 DEF Distinct
      <4> QED BY <3>3, <4>1, <4>2, <4>3
    <3>6. ASSUME NEW k \in DOMAIN new
          PROVE  Var(new[k].lit) \notin Released /\ \E j \in 1 .. m + 1 : new[k] = trail[j]
      <4>1. CASE k = Len(old) + 1
        BY <2>1, <2>4, <3>2, <4>1 DEF x
      <4>2. CASE k \in DOMAIN old
        BY <2>1, <2>2, <3>2, <4>2
      <4> QED BY <3>3, <4>1, <4>2
    <3>7. ASSUME NEW j \in 1 .. m + 1, ~ Gone(j) PROVE \E k \in DOMAIN new : new[k] = trail[j]
      <4>1. CASE j = m + 1
        <5>1. Len(old) + 1 \in DOMAIN new
          BY <3>2
        <5> QED BY <3>2, <4>1, <5>1 DEF x
      <4>2. CASE j \in 1 .. m
        <5>1. PICK k \in DOMAIN old : old[k] = trail[j]
          BY <2>2, <3>7, <4>2
        <5>2. k \in DOMAIN new /\ new[k] = old[k]
          BY <3>2
        <5> QED BY <5>1, <5>2
      <4> QED BY <2>0, <4>1, <4>2
    <3>8. Good(m + 1)
      <4> HIDE DEF Gone
      <4> QED BY <3>1, <3>2, <3>5, <3>6, <3>7
    <3> QED BY <2>1, <3>8
  <2> QED BY <2>3, <2>4
<1>7. n \in T
  <2> HIDE DEF T, n
  <2>1. 0 .. n \subseteq T
    BY <1>1, <1>5, <1>6, Climb
  <2> QED BY <1>1, <2>1
<1>8. Good(n)
  BY <1>7
<1> HIDE DEF n
<1> QED BY <1>1, <1>3, <1>8

(* At level 0, what is true goes and what is false is taken out, so that a *)
(* variable with a value is in no clause any more.                         *)
LEMMA simplifyStep == ASSUME SolverInv, simplify PROVE SolverInv'
<1> DEFINE new == [i \in DOMAIN Kept |-> [Kept[i] EXCEPT !.reason = None]]
<1>1. /\ pc = "search" /\ decisionLevel = 0 /\ Propagated
      /\ clauses' = Trimmed(clauses) /\ learnts' = Trimmed(learnts)
      /\ trail' = new
      /\ free_vars' = free_vars \o released_vars /\ released_vars' = <<>>
      /\ simpDB_assigns' = Len(trail')
      /\ UNCHANGED <<user, ok, trail_lim, next_var, pc, assumptions, conflictC, curr_restarts, status, conflict>>
  BY DEF simplify, Ready, task, answer
<1>2. /\ TypeOK /\ TrailInv(trail, trail_lim, DB) /\ PhaseOK /\ NamesOK /\ Unused(DB, trail, free_vars)
      /\ trail \in Seq(EntryType) /\ trail_lim = <<>> /\ ok
      /\ released_vars \in Seq(Vars) /\ free_vars \in Seq(Vars)
  <2>1. trail_lim \in Seq(Nat)
    BY DEF SolverInv, TypeOK
  <2>2. Len(trail_lim) = 0 => trail_lim = <<>>
    BY <2>1
  <2> QED BY <1>1, <2>2 DEF SolverInv, TypeOK, PhaseOK, decisionLevel
<1>3. /\ Kept \in Seq(EntryType) /\ Distinct(Kept)
      /\ \A k \in DOMAIN Kept : Var(Kept[k].lit) \notin Released /\ \E j \in DOMAIN trail : Kept[k] = trail[j]
  BY <1>2, KeptIs DEF TrailInv
<1>4. /\ DOMAIN new = DOMAIN Kept /\ DOMAIN Kept = 1 .. Len(Kept) /\ Len(Kept) \in Nat
      /\ \A i \in DOMAIN new : /\ new[i] \in EntryType /\ new[i].lit = Kept[i].lit
                               /\ new[i].level = 0 /\ new[i].reason = None
  <2>1. DOMAIN Kept = 1 .. Len(Kept) /\ Len(Kept) \in Nat /\ \A i \in DOMAIN Kept : Kept[i] \in EntryType
    BY <1>3
  <2>2. ASSUME NEW i \in DOMAIN Kept
        PROVE  /\ [Kept[i] EXCEPT !.reason = None] \in EntryType
               /\ [Kept[i] EXCEPT !.reason = None].lit = Kept[i].lit
               /\ [Kept[i] EXCEPT !.reason = None].level = 0
               /\ [Kept[i] EXCEPT !.reason = None].reason = None
    <3>1. Kept[i] \in EntryType /\ None \subseteq Lits
      BY <2>1 DEF None
    <3>2. Kept[i].level = 0
      <4>1. PICK j \in DOMAIN trail : Kept[i] = trail[j]
        BY <1>3
      <4>2. trail[j].level \in Nat /\ trail[j].level <= Len(trail_lim) /\ Len(trail_lim) = 0
        BY <1>2, EntryFacts DEF TrailInv, Ordered
      <4> QED BY <4>1, <4>2
    <3> HIDE DEF new
    <3> QED BY <3>1, <3>2 DEF EntryType
  <2> QED BY <2>1, <2>2
<1> HIDE DEF new
<1>5. new \in Seq(EntryType) /\ Len(new) \in Nat
  <2>1. DOMAIN new = 1 .. Len(Kept) /\ Len(Kept) \in Nat /\ \A i \in 1 .. Len(Kept) : new[i] \in EntryType
    BY <1>4
  <2>2. new = [i \in 1 .. Len(Kept) |-> new[i]]
    BY <1>4 DEF new
  <2> QED BY <2>1, <2>2
<1> DEFINE D == clauses' \cup learnts'
<1>6. TrailInv(trail', trail_lim', D)
  <2>1. trail' = new /\ trail_lim' = <<>> /\ DOMAIN trail_lim' = {} /\ Len(trail_lim') = 0
    BY <1>1, <1>2
  <2> HIDE DEF D
  <2>2. Distinct(new)
    BY <1>3, <1>4 DEF Distinct
  <2>3. Ordered(new, trail_lim')
    BY <1>4, <2>1 DEF Ordered
  <2>4. Reasoned(new, D) /\ DecisionsFirst(new, trail_lim') /\ FalseLate(new, trail_lim', D)
    BY <1>4, <2>1 DEF Reasoned, DecisionsFirst, FalseLate
  <2> QED BY <2>1, <2>2, <2>3, <2>4 DEF TrailInv
<1> DEFINE n == Len(free_vars)
           m == Len(released_vars)
<1>7. /\ n \in Nat /\ m \in Nat /\ DOMAIN free_vars = 1 .. n /\ DOMAIN released_vars = 1 .. m
      /\ DOMAIN free_vars' = 1 .. n + m /\ free_vars' \in Seq(Vars)
      /\ \A i \in 1 .. n : free_vars'[i] = free_vars[i]
      /\ \A i \in n + 1 .. n + m : free_vars'[i] = released_vars[i - n] /\ i - n \in 1 .. m
      /\ \A i \in 1 .. n + m : i \in 1 .. n \/ i \in n + 1 .. n + m
  BY <1>1, <1>2
<1> HIDE DEF n, m
<1>8. ASSUME NEW d \in D, NEW l \in d
      PROVE  l \in Lits /\ IsUndef(l) /\ \E c \in DB : l \in c
  <2>1. PICK c \in DB : ~ Satisfied(c) /\ d = {k \in c : ~ IsFalse(k)}
    BY <1>1 DEF Trimmed, DB
  <2>2. l \in c /\ c \subseteq Lits
    BY <1>2, <2>1, <1>8, TrailFacts
  <2> QED BY <1>8, <2>1, <2>2 DEF IsUndef, Satisfied
<1>9. \A i \in 1 .. m : \E j \in DOMAIN trail : Var(trail[j].lit) = released_vars[i]
  BY <1>2, <1>7 DEF NamesOK
<1>10. Unused(D, trail', free_vars')
  <2> HIDE DEF D
  <2> SUFFICES ASSUME NEW i \in 1 .. n + m
               PROVE  /\ \A d \in D : free_vars'[i] \notin VarsOf(d)
                      /\ \A j \in DOMAIN new : Var(new[j].lit) # free_vars'[i] /\ free_vars'[i] \notin VarsOf(new[j].reason)
                      /\ \A j \in 1 .. n + m : free_vars'[j] = free_vars'[i] => j = i
    BY <1>1, <1>7 DEF Unused
  <2> DEFINE v == free_vars'[i]
  <2>0. \A j \in DOMAIN new : v \notin VarsOf(new[j].reason)
    BY <1>4 DEF VarsOf, None
  <2>1. \A d \in D : \A l \in d : Var(l) # v
    <3> SUFFICES ASSUME NEW d \in D, NEW l \in d PROVE Var(l) # v
      OBVIOUS
    <3>1. CASE i \in 1 .. n
      <4>1. PICK c \in DB : l \in c
        BY <1>8
      <4>2. v = free_vars[i] /\ v \notin VarsOf(c)
        BY <1>2, <1>7, <3>1 DEF Unused
      <4> QED BY <4>1, <4>2 DEF VarsOf
    <3>2. CASE i \in n + 1 .. n + m
      <4>1. PICK j \in DOMAIN trail : Var(trail[j].lit) = v
        BY <1>7, <1>9, <3>2
      <4>2. Unset(trail, l)
        BY <1>2, <1>8, TrailFacts
      <4> QED BY <4>1, <4>2 DEF Unset
    <3> QED BY <1>7, <3>1, <3>2
  <2>2. \A j \in DOMAIN new : Var(new[j].lit) # v
    <3> SUFFICES ASSUME NEW j \in DOMAIN new PROVE Var(new[j].lit) # v
      OBVIOUS
    <3>1. CASE i \in 1 .. n
      <4>1. PICK k \in DOMAIN trail : Kept[j] = trail[k]
        BY <1>3, <1>4
      <4> QED BY <1>2, <1>4, <1>7, <3>1, <4>1 DEF Unused
    <3>2. CASE i \in n + 1 .. n + m
      <4>1. v \in Released
        BY <1>7, <3>2 DEF Released
      <4> QED BY <1>3, <1>4, <4>1
    <3> QED BY <1>7, <3>1, <3>2
  <2>3. ASSUME NEW j \in 1 .. n + m, free_vars'[j] = v PROVE j = i
    <3>1. CASE i \in 1 .. n /\ j \in 1 .. n
      BY <1>2, <1>7, <2>3, <3>1 DEF Unused
    <3>0. \A k \in 1 .. n, o \in 1 .. m : free_vars[k] # released_vars[o]
      BY <1>2, <1>7 DEF NamesOK
    <3>2. CASE i \in 1 .. n /\ j \in n + 1 .. n + m
      <4>1. free_vars[i] = released_vars[j - n] /\ j - n \in 1 .. m
        BY <1>7, <2>3, <3>2
      <4> QED BY <3>0, <3>2, <4>1
    <3>3. CASE i \in n + 1 .. n + m /\ j \in 1 .. n
      <4>1. free_vars[j] = released_vars[i - n] /\ i - n \in 1 .. m
        BY <1>7, <2>3, <3>3
      <4> QED BY <3>0, <3>3, <4>1
    <3>4. CASE i \in n + 1 .. n + m /\ j \in n + 1 .. n + m
      <4>1. released_vars[i - n] = released_vars[j - n] /\ i - n \in 1 .. m /\ j - n \in 1 .. m
        BY <1>7, <2>3, <3>4
      <4>2. i - n = j - n
        BY <1>2, <1>7, <4>1 DEF NamesOK
      <4> QED BY <1>7, <3>4, <4>2
    <3> QED BY <1>7, <3>1, <3>2, <3>3, <3>4
  <2> QED BY <2>0, <2>1, <2>2, <2>3 DEF VarsOf
<1>11. TypeOK'
  <2>1. Trimmed(clauses) \subseteq SUBSET Lits /\ Trimmed(learnts) \subseteq SUBSET Lits
    BY <1>2 DEF Trimmed, TypeOK
  <2>2. <<>> \in Seq(Vars)
    OBVIOUS
  <2> QED BY <1>1, <1>2, <1>5, <1>7, <2>1, <2>2 DEF TypeOK
<1>12. PhaseOK'
  <2>1. {released_vars'[i] : i \in DOMAIN released_vars'} \cup {free_vars'[i] : i \in DOMAIN free_vars'}
          = {released_vars[i] : i \in DOMAIN released_vars} \cup {free_vars[i] : i \in DOMAIN free_vars}
    <3>1. {released_vars'[i] : i \in DOMAIN released_vars'} = {}
      BY <1>1
    <3>2. ASSUME NEW i \in DOMAIN free_vars'
          PROVE  free_vars'[i] \in {released_vars[j] : j \in DOMAIN released_vars} \cup {free_vars[j] : j \in DOMAIN free_vars}
      BY <1>7
    <3>3. ASSUME NEW i \in DOMAIN free_vars PROVE free_vars[i] \in {free_vars'[j] : j \in DOMAIN free_vars'}
      BY <1>7
    <3>4. ASSUME NEW i \in DOMAIN released_vars
          PROVE  released_vars[i] \in {free_vars'[j] : j \in DOMAIN free_vars'}
      <4>1. n + i \in n + 1 .. n + m /\ n + i \in 1 .. n + m /\ n + i - n = i
        BY <1>7
      <4> QED BY <1>7, <4>1
    <3> QED BY <3>1, <3>2, <3>3, <3>4
  <2>2. Live' = Live
    BY <1>1, <2>1 DEF Live
  <2> QED BY <1>1, <1>2, <2>2 DEF PhaseOK
<1>13. NamesOK'
  BY <1>1 DEF NamesOK
<1> QED BY <1>6, <1>10, <1>11, <1>12, <1>13, NextInv

(* A conflict: what is learnt has one literal that was falsified after the *)
(* level gone back to, and is unit there.                                  *)
LEMMA LearnStep == ASSUME SolverInv, Learn PROVE SolverInv'
<1>1. PICK confl \in Conflicting :
         LET c   == Minimised(UIP(confl))
             lev == BacktrackLevel(c)
             l   == CHOOSE k \in Latest(c) : TRUE
             unit == Cardinality(c) = 1
         IN  /\ trail' = Append(Below(lev), Entry(l, lev, IF unit THEN None ELSE c))
             /\ trail_lim' = SubSeq(trail_lim, 1, lev)
             /\ learnts' = IF unit THEN learnts ELSE learnts \cup {c}
  BY DEF Learn
<1>2. /\ pc = "search" /\ decisionLevel > 0 /\ conflictC' = conflictC + 1
      /\ UNCHANGED <<user, ok, clauses, simpDB_assigns, next_var, released_vars, free_vars>>
      /\ UNCHANGED <<pc, assumptions, curr_restarts, status, conflict>>
  BY DEF Learn, names, answer
<1>3. /\ TypeOK /\ TrailInv(trail, trail_lim, DB) /\ PhaseOK /\ NamesOK /\ Unused(DB, trail, free_vars)
      /\ trail \in Seq(EntryType) /\ trail_lim \in Seq(Nat)
  BY DEF SolverInv, TypeOK
<1> DEFINE c   == Minimised(UIP(confl))
           lev == BacktrackLevel(c)
           l   == CHOOSE k \in Latest(c) : TRUE
           unit == Cardinality(c) = 1
           r   == IF unit THEN None ELSE c
           e   == Entry(l, lev, r)
           u   == SubSeq(trail, 1, trail_lim[lev + 1])
           v   == SubSeq(trail_lim, 1, lev)
<1>4. /\ trail' = Append(Below(lev), e) /\ trail_lim' = v
      /\ learnts' = IF unit THEN learnts ELSE learnts \cup {c}
  BY <1>1
<1>5. /\ c \subseteq Refuted
      /\ l \in c /\ level(l) = decisionLevel
      /\ lev \in Nat /\ lev < decisionLevel
      /\ \A k \in c : k = l \/ level(k) <= lev
      /\ unit => lev = 0
  BY <1>2, <1>3, LearntIs
<1> HIDE DEF c, lev, l, unit
<1>6. /\ c \subseteq UNION DB /\ c \subseteq Lits /\ l \in Lits
      /\ \A k \in c : \E i \in DOMAIN trail : trail[i].lit = -k /\ trail[i].level = level(k)
  <2>1. c \subseteq UNION DB /\ c \subseteq Lits
    BY <1>3, <1>5, TrailFacts DEF Refuted
  <2>2. ASSUME NEW k \in c PROVE \E i \in DOMAIN trail : trail[i].lit = -k /\ trail[i].level = level(k)
    <3>1. PICK i \in DOMAIN trail : trail[i].lit = -k
      BY <1>5 DEF Refuted
    <3>2. trail[i].level = level(k)
      BY <1>3, <2>1, <3>1, TrailFacts
    <3> QED BY <3>1, <3>2
  <2> QED BY <1>5, <2>1, <2>2
<1>7. /\ u \in Seq(EntryType) /\ v \in Seq(Nat) /\ Len(v) = lev
      /\ TrailInv(u, v, DB)
      /\ \A i \in DOMAIN trail : i \in DOMAIN u <=> trail[i].level <= lev
      /\ \A i \in DOMAIN u : i \in DOMAIN trail /\ u[i] = trail[i]
      /\ \A d \in DB : ~ FalseIn(u, d)
  <2>1. lev < Len(trail_lim)
    BY <1>3, <1>5, TrailFacts
  <2> QED BY <1>3, <1>5, <2>1, TrailCut
<1>8. Below(lev) = u
  BY <1>5, TrailFacts DEF Below
<1>9. e \in EntryType /\ e.lit = l /\ e.level = lev /\ e.reason = r /\ r \subseteq c
  BY <1>5, <1>6 DEF Entry, EntryType, None
<1> HIDE DEF u, v, e
<1>10. Unset(u, l)
  <2>1. PICK i \in DOMAIN trail : trail[i].lit = -l /\ trail[i].level = decisionLevel
    BY <1>5, <1>6
  <2>2. i \notin DOMAIN u
    BY <1>3, <1>5, <1>7, <2>1, TrailFacts
  <2>3. Var(trail[i].lit) = Var(l)
    BY <1>6, <2>1, LitFacts
  <2>4. \A j \in DOMAIN u : j \in DOMAIN trail /\ j # i /\ u[j] = trail[j]
    BY <1>7, <2>2
  <2> QED BY <1>3, <2>1, <2>3, <2>4 DEF Unset, TrailInv, Distinct
<1> DEFINE D == clauses' \cup learnts'
<1>11. DB \subseteq D /\ \A d \in D : d \in DB \/ d = c
  BY <1>2, <1>4 DEF DB
<1>12. r # None => r \in D /\ l \in r /\ r = c
  BY <1>4, <1>5
<1> HIDE DEF D, r
<1>13. ~ FalseIn(u, c)
  <2>1. ~ \E i \in DOMAIN u : u[i].lit = -l
    <3>1. Var(-l) = Var(l)
      BY <1>6, LitFacts
    <3> QED BY <1>10, <3>1 DEF Unset
  <2> QED BY <1>5, <2>1 DEF FalseIn
<1>14. TrailInv(u, v, D)
  <2>1. \A d \in D \ DB : ~ FalseIn(u, d)
    BY <1>11, <1>13
  <2> QED BY <1>7, <1>11, <2>1, ClausesChange
<1>15. TrailInv(Append(u, e), v, D)
  <2>1. r = None => Len(v) = 0
    <3>1. None # c
      BY <1>5 DEF None
    <3> QED BY <1>5, <1>7, <3>1 DEF r
  <2>2. ASSUME r # None, NEW k \in r \ {l} PROVE \E j \in DOMAIN u : u[j].lit = -k
    <3>1. k \in c /\ k # l /\ level(k) <= lev
      BY <1>5, <1>12, <2>2
    <3>2. PICK i \in DOMAIN trail : trail[i].lit = -k /\ trail[i].level = level(k)
      BY <1>6, <3>1
    <3>3. i \in DOMAIN u /\ u[i] = trail[i]
      BY <1>7, <3>1, <3>2
    <3> QED BY <3>2, <3>3
  <2>3. D \in SUBSET SUBSET Lits
    BY <1>3, <1>6, <1>11, TrailFacts
  <2> QED BY <1>7, <1>9, <1>10, <1>12, <1>14, <2>1, <2>2, <2>3, TrailGrows
<1>16. \A i \in DOMAIN free_vars, k \in c : free_vars[i] # Var(k)
  BY <1>3, <1>6 DEF Unused, VarsOf
<1>17. Unused(D, Append(u, e), free_vars)
  <2>1. Unused(DB, u, free_vars)
    BY <1>3, <1>7, UnusedCut
  <2>2. \A i \in DOMAIN free_vars : free_vars[i] \notin VarsOf(c)
    BY <1>16 DEF VarsOf
  <2>3. Unused(D, u, free_vars)
    BY <1>11, <2>1, <2>2 DEF Unused
  <2> QED BY <1>5, <1>7, <1>9, <1>12, <1>16, <2>3, UnusedGrows
<1>18. /\ trail' \in Seq(EntryType) /\ trail_lim' \in Seq(Nat)
       /\ \A i \in DOMAIN u : i \in DOMAIN trail' /\ trail'[i] = u[i]
  BY <1>4, <1>7, <1>8, <1>9
<1>19. TypeOK'
  <2>1. learnts' \subseteq SUBSET Lits
    BY <1>3, <1>4, <1>6 DEF TypeOK
  <2> QED BY <1>2, <1>3, <1>18, <2>1 DEF TypeOK
<1>20. PhaseOK'
  BY <1>2, <1>3 DEF PhaseOK, Live
<1>21. NamesOK'
  <2>1. \A i \in DOMAIN trail : trail[i].level = 0 => i \in DOMAIN trail' /\ trail'[i] = trail[i]
    BY <1>5, <1>7, <1>18
  <2> QED BY <1>2, <1>3, <2>1, NamesStay
<1> QED BY <1>2, <1>4, <1>8, <1>15, <1>17, <1>19, <1>20, <1>21, NextInv DEF D

-----------------------------------------------------------------------------

(* Every step keeps the invariant.                                         *)
LEMMA SolverInvNext == SolverInv /\ [Next]_vars => SolverInv'
<1> SUFFICES ASSUME SolverInv, [Next]_vars PROVE SolverInv'
  OBVIOUS
<1>1. CASE newVar \/ addClause \/ releaseVar \/ solve
  BY <1>1, newVarStep, addClauseStep, releaseVarStep, solveStep
<1>2. CASE Refuse \/ addClauseDone \/ Contradiction
  BY <1>2, ReturnStep
<1>3. CASE Propagate \/ Learn \/ Restart \/ simplify \/ reduceDB
  BY <1>3, PropagateStep, LearnStep, RestartStep, simplifyStep, reduceDBStep
<1>4. CASE Dummy \/ AssumptionFails \/ Decide \/ ModelFound
  BY <1>4, DummyStep, AnswerStep, DecideStep
<1>5. CASE UNCHANGED vars
  BY <1>5, StutterStep
<1> QED BY <1>1, <1>2, <1>3, <1>4, <1>5 DEF Next, Search

(* The invariant of the core solver, with the types of its variables.      *)
THEOREM SolverInvHolds == Spec => []SolverInv
BY SolverInvInit, SolverInvNext, PTL DEF Spec

(* Reasons are clauses of the database that the literals before made unit, *)
(* for any formula, user and sequence of calls.                            *)
THEOREM ReasonsAreHeld == Spec => []ReasonsHold
BY SolverInvHolds, SolverInvReasons, PTL

(* A variable that newVar may hand out again occurs in no clause and on no *)
(* trail.                                                                  *)
THEOREM FreeStayUnused == Spec => []FreeAreUnused
BY SolverInvHolds, SolverInvReasons, PTL

-----------------------------------------------------------------------------
(***************************************************************************)
(* The core solver implements the oracle that the rest of the program      *)
(* expects, for any formulas, users and sequences of calls: what it learns,*)
(* forgets, simplifies and gives back never changes the models, a model is *)
(* one, and a conflict is a contradiction.                                 *)
(***************************************************************************)
(* The inductive invariant.                                                *)

(* Assignments to all variables that there may ever be.  Restricted to     *)
(* those in use, they are the models that the refinement speaks of.        *)
Valuations == [Vars -> BOOLEAN]
HoldsOne(m, c) == \E l \in c : Holds(m, l)
HoldsAll(m, K) == \A l \in K : Holds(m, l)
Sat(m, C) == \A c \in C : HoldsOne(m, c)

(* The literals that a trail has at level 0.                               *)
Known(t) == {t[i].lit : i \in {j \in DOMAIN t : t[j].level = 0}}

Solutions(consistent, C, K) == {m \in Valuations : consistent /\ Sat(m, C) /\ HoldsAll(m, K)}
Restricted(S, L) == {[v \in L |-> m[v]] : m \in S}

(* Clauses, the trail and the lists of names are about variables created.  *)
Created == 1 .. next_var - 1
CreatedOK ==
    /\ \A c \in DB : VarsOf(c) \subseteq Created
    /\ \A i \in DOMAIN trail : Var(trail[i].lit) \in Created
    /\ \A i \in DOMAIN released_vars : released_vars[i] \in Created
    /\ \A i \in DOMAIN free_vars : free_vars[i] \in Created

(* The first levels are those of the assumptions, which are true there, and*)
(* the decisions of these levels are the assumptions.                      *)
AssumptionsOK ==
    pc = "search" =>
      /\ \A k \in DOMAIN assumptions : k <= Len(trail_lim) =>
            \E i \in DOMAIN trail : trail[i].lit = assumptions[k] /\ trail[i].level <= k
      /\ \A i \in DOMAIN trail :
            trail[i].reason = None /\ trail[i].level \in DOMAIN assumptions =>
               trail[i].lit = assumptions[trail[i].level]

(* While a question is open there is no answer.                            *)
AskedOK ==
    /\ pc \in {"search", "refuse"} => model = <<>> /\ conflict = {} /\ status = "l_Undef"
    /\ pc = "refuse" => ~ ok

(* Clauses learnt may be forgotten: they follow from the others.           *)
LearntsFollow ==
    \A m \in Valuations : Sat(m, clauses) /\ HoldsAll(m, Known(trail)) => Sat(m, learnts)

OracleParts == CreatedOK /\ AssumptionsOK /\ AskedOK /\ LearntsFollow
OracleInv   == SolverInv /\ OracleParts

-----------------------------------------------------------------------------
(* What holds in an assignment.                                            *)

(* Of a literal and its negation, one holds.                               *)
LEMMA HoldsNot ==
    ASSUME NEW m, NEW l \in Lits
    PROVE  Holds(m, -l) <=> ~ Holds(m, l)
<1>1. l \in Int /\ l # 0 /\ -(-l) = l
  BY LitFacts
<1>2. CASE l > 0
  <2>1. ~ (-l > 0)
    BY <1>1, <1>2
  <2> QED BY <1>1, <1>2, <2>1 DEF Holds
<1>3. CASE ~ (l > 0)
  <2>1. -l > 0
    BY <1>1, <1>3
  <2> QED BY <1>3, <2>1 DEF Holds
<1> QED BY <1>2, <1>3

(* Whether a literal holds hangs on its variable alone.                    *)
LEMMA HoldsSame ==
    ASSUME NEW m, NEW n, NEW l \in Lits, m[Var(l)] = n[Var(l)]
    PROVE  Holds(m, l) <=> Holds(n, l)
<1>1. l \in Int /\ l # 0
  BY LitFacts
<1>2. CASE l > 0
  <2>1. Var(l) = l
    BY <1>1, <1>2 DEF Var
  <2> QED BY <1>2, <2>1 DEF Holds
<1>3. CASE ~ (l > 0)
  <2>1. Var(l) = -l
    BY <1>1, <1>3 DEF Var
  <2> QED BY <1>3, <2>1 DEF Holds
<1> QED BY <1>2, <1>3

(* A literal that holds where all that is known does is not known to be    *)
(* false.                                                                  *)
LEMMA HoldsAbove ==
    ASSUME TypeOK, TrailInv(trail, trail_lim, DB),
           NEW m, HoldsAll(m, Known(trail)),
           NEW l \in Lits, NEW i \in DOMAIN trail, trail[i].lit = -l, Holds(m, l)
    PROVE  level(l) > 0 /\ Pos(l) = i /\ level(l) = trail[i].level
<1>1. level(l) = trail[i].level /\ Pos(l) = i
  BY TrailFacts
<1>2. trail[i].level \in Nat
  BY EntryFacts DEF TypeOK
<1>3. trail[i].level # 0
  <2> SUFFICES ASSUME trail[i].level = 0 PROVE FALSE
    OBVIOUS
  <2>1. -l \in Known(trail)
    BY DEF Known
  <2> QED BY <2>1, HoldsNot DEF HoldsAll
<1> QED BY <1>1, <1>2, <1>3

-----------------------------------------------------------------------------
(* What is learnt follows.                                                 *)

(* Resolution keeps what follows: so does leaving out what is known.       *)
LEMMA ResolvedHolds ==
    ASSUME TypeOK, TrailInv(trail, trail_lim, DB), decisionLevel > 0,
           NEW m, Sat(m, DB), HoldsAll(m, Known(trail)),
           NEW i \in DOMAIN trail, NEW c, Cutting(c, i), HoldsOne(m, c)
    PROVE  HoldsOne(m, Resolved(c, i))
<1> DEFINE p == trail[i]
<1>1. /\ Len(trail) \in Nat /\ DOMAIN trail = 1 .. Len(trail) /\ i \in Nat
      /\ p.lit \in Lits /\ p.reason \subseteq Lits
  BY EntryFacts DEF TypeOK
<1>2. CASE Cardinality(Latest(c)) = 1 \/ -p.lit \notin c
  BY <1>2 DEF Resolved
<1>3. CASE Cardinality(Latest(c)) # 1 /\ -p.lit \in c
  <2> DEFINE d == Above(p.reason \ {p.lit})
  <2>1. Resolved(c, i) = (c \ {-p.lit}) \cup d
    BY <1>3 DEF Resolved
  <2>2. CASE ~ Holds(m, -p.lit)
    BY <2>1, <2>2 DEF HoldsOne
  <2>3. CASE Holds(m, -p.lit)
    <3>1. p.reason # None
      BY <1>3, ResolvesReason
    <3>2. /\ p.reason \in DB
          /\ \A k \in p.reason \ {p.lit} : \E j \in 1 .. i - 1 : trail[j].lit = -k
      BY <3>1 DEF TrailInv, Reasoned
    <3>3. PICK k \in p.reason : Holds(m, k)
      BY <3>2 DEF Sat, HoldsOne
    <3>4. k # p.lit /\ k \in Lits
      BY <1>1, <2>3, <3>3, HoldsNot
    <3>5. PICK j \in 1 .. i - 1 : trail[j].lit = -k
      BY <3>2, <3>4
    <3>6. j \in DOMAIN trail
      BY <1>1
    <3>7. level(k) > 0
      BY <3>3, <3>4, <3>5, <3>6, HoldsAbove
    <3>8. k \in d
      BY <3>4, <3>7 DEF Above
    <3> QED BY <2>1, <3>3, <3>8 DEF HoldsOne
  <2> QED BY <2>2, <2>3
<1> QED BY <1>2, <1>3

(* The clause that analyze ends with follows.                              *)
LEMMA UIPHolds ==
    ASSUME TypeOK, TrailInv(trail, trail_lim, DB), decisionLevel > 0,
           NEW m, Sat(m, DB), HoldsAll(m, Known(trail)),
           NEW confl \in Conflicting
    PROVE  HoldsOne(m, UIP(confl))
<1> DEFINE n == Len(trail)
           a == Above(confl)
           G == [i \in 0 .. n |-> {c \in SUBSET Lits : Cutting(c, i) /\ HoldsOne(m, c)}]
<1>1. n \in Nat /\ DOMAIN trail = 1 .. n
  BY EntryFacts DEF TypeOK
<1>2. confl \in SUBSET Lits /\ confl \in DB
  BY TrailFacts DEF Conflicting, DB
<1>3. Cutting(a, n)
  BY ConflictCuts
<1>4. HoldsOne(m, a)
  <2>1. PICK l \in confl : Holds(m, l)
    BY <1>2 DEF Sat, HoldsOne
  <2>2. PICK i \in DOMAIN trail : trail[i].lit = -l
    BY <2>1, TrailFacts DEF Conflicting
  <2>3. level(l) > 0
    BY <1>2, <2>1, <2>2, HoldsAbove
  <2> QED BY <2>1, <2>3 DEF HoldsOne, Above
<1>5. a \in G[n]
  <2>1. a \in SUBSET Lits /\ n \in 0 .. n
    BY <1>1, <1>2 DEF Above
  <2> HIDE DEF a
  <2> QED BY <1>3, <1>4, <2>1
<1>6. ASSUME NEW i \in DOMAIN trail, NEW c \in G[i] PROVE Resolved(c, i) \in G[i - 1]
  <2>1. i \in 0 .. n /\ i - 1 \in 0 .. n
    BY <1>1
  <2>2. Cutting(c, i) /\ HoldsOne(m, c)
    BY <2>1
  <2>3. Cutting(Resolved(c, i), i - 1)
    BY <2>2, ResolvedCuts
  <2>4. Resolved(c, i) \in SUBSET Lits
    BY <2>3, TrailFacts DEF Cutting, Refuted
  <2>5. HoldsOne(m, Resolved(c, i))
    BY <2>2, ResolvedHolds
  <2> QED BY <2>1, <2>3, <2>4, <2>5
<1>7. UIP(confl) \in G[0]
  <2> HIDE DEF G
  <2> QED BY <1>5, <1>6, UIPWalk
<1>8. 0 \in 0 .. n
  BY <1>1
<1> QED BY <1>7, <1>8

(* What Redundant looks for at place i of the trail, where it has found the*)
(* places X before.                                                        *)
Removable(c, X, i) ==
    /\ trail[i].reason # None
    /\ \A k \in Above(trail[i].reason \ {trail[i].lit}) : k \in c \/ Pos(k) \in X

(* The places that Redundant finds: what it defines by recursion exists.   *)
LEMMA RemovableIs ==
    ASSUME TypeOK, TrailInv(trail, trail_lim, DB), NEW c
    PROVE  \E X \in SUBSET DOMAIN trail : \A i \in DOMAIN trail : i \in X <=> Removable(c, X, i)
<1> DEFINE n == Len(trail)
           S == SUBSET (1 .. n)
           Found(X, i) == IF Removable(c, X, i) THEN X \cup {i} ELSE X
           step == [y \in S \X (1 .. n) |-> Found(y[1], y[2])]
<1>1. n \in Nat /\ DOMAIN trail = 1 .. n
  BY EntryFacts DEF TypeOK
<1>2. step \in [S \X (1 .. n) -> S]
  <2>1. ASSUME NEW y \in S \X (1 .. n) PROVE Found(y[1], y[2]) \in S
    OBVIOUS
  <2> HIDE DEF S, Found
  <2> QED BY <2>1
<1>3. {} \in S
  OBVIOUS
<1>4. PICK g : g \in [0 .. n -> S] /\ g[0] = {} /\ \A k \in 1 .. n : g[k] = step[<<g[k-1], k>>]
  <2> HIDE DEF step, n, S
  <2>1. \E g : IsRecursive(g, S, {}, n, step)
    BY <1>1, <1>2, <1>3, Recursion
  <2> QED BY <2>1 DEF IsRecursive
<1>5. ASSUME NEW k \in 1 .. n PROVE g[k] = Found(g[k-1], k)
  <2>1. g[k-1] \in S
    <3>1. k - 1 \in 0 .. n
      BY <1>1
    <3> HIDE DEF S, n
    <3> QED BY <1>4, <3>1
  <2>2. <<g[k-1], k>> \in S \X (1 .. n)
    BY <2>1
  <2>3. step[<<g[k-1], k>>] = Found(g[k-1], k)
    <3> HIDE DEF Found, S, n
    <3> QED BY <2>2
  <2> HIDE DEF step, Found
  <2> QED BY <1>4, <2>3
<1> HIDE DEF step, S
<1> DEFINE D(i) == Removable(c, g[i-1], i)
           T == {k \in 0 .. n : \A i \in 1 .. n : i \in g[k] <=> i <= k /\ D(i)}
<1>6. 0 \in T
  <2> HIDE DEF D
  <2> QED BY <1>1, <1>4
<1>7. ASSUME NEW k \in 0 .. n - 1, k \in T PROVE k + 1 \in T
  <2>1. k + 1 \in 1 .. n /\ k + 1 - 1 = k /\ k + 1 \in 0 .. n
    BY <1>1
  <2>2. g[k + 1] = IF D(k + 1) THEN g[k] \cup {k + 1} ELSE g[k]
    <3> HIDE DEF n
    <3> QED BY <1>5, <2>1
  <2>3. ASSUME NEW i \in 1 .. n PROVE i \in g[k + 1] <=> i <= k + 1 /\ D(i)
    <3>1. i \in g[k] <=> i <= k /\ D(i)
      BY <1>7
    <3> HIDE DEF D, T
    <3>2. CASE i = k + 1
      <4>1. ~ (i <= k) /\ i <= k + 1
        BY <1>1, <3>2
      <4> QED BY <2>2, <3>1, <3>2, <4>1
    <3>3. CASE i # k + 1
      <4>1. i <= k + 1 <=> i <= k
        BY <1>1, <3>3
      <4>2. i \in g[k + 1] <=> i \in g[k]
        BY <2>2, <3>3
      <4> QED BY <3>1, <4>1, <4>2
    <3> QED BY <3>2, <3>3
  <2> HIDE DEF D
  <2> QED BY <2>1, <2>3
<1>8. \A k \in 0 .. n : k \in T
  <2> HIDE DEF T, n
  <2>1. 0 .. n \subseteq T
    BY <1>1, <1>6, <1>7, Climb
  <2> QED BY <2>1
<1> DEFINE X == g[n]
<1>9. n \in T /\ \A i \in 1 .. n : i - 1 \in T /\ i - 1 \in 0 .. n
  <2> HIDE DEF T
  <2> QED BY <1>1, <1>8
<1>10. \A i \in 1 .. n : i \in X <=> D(i)
  <2> HIDE DEF D
  <2> QED BY <1>1, <1>9
<1>11. ASSUME NEW i \in 1 .. n PROVE D(i) <=> Removable(c, X, i)
  <2> SUFFICES ASSUME trail[i].reason # None,
                      NEW k \in Above(trail[i].reason \ {trail[i].lit})
               PROVE  Pos(k) \in g[i-1] <=> Pos(k) \in X
    BY DEF Removable
  <2>1. k \in trail[i].reason \ {trail[i].lit} /\ k \in Lits
    BY <1>1, EntryFacts DEF Above, TypeOK
  <2>2. PICK j \in 1 .. i - 1 : trail[j].lit = -k
    BY <1>1, <2>1 DEF TrailInv, Reasoned
  <2>3. j \in 1 .. n /\ j <= i - 1
    BY <1>1
  <2>4. Pos(k) = j
    BY <1>1, <2>1, <2>2, <2>3, TrailFacts
  <2>5. j \in g[i-1] <=> D(j)
    <3> HIDE DEF D
    <3> QED BY <1>9, <2>3
  <2> HIDE DEF D, X
  <2> QED BY <1>10, <2>3, <2>4, <2>5
<1>12. X \in SUBSET DOMAIN trail
  <2>1. n \in 0 .. n
    BY <1>1
  <2> QED BY <1>1, <1>4, <2>1 DEF S
<1> HIDE DEF D, X
<1> QED BY <1>1, <1>10, <1>11, <1>12

(* Each literal that litRedundant lets go is at such a place.              *)
LEMMA RedundantIs ==
    ASSUME TypeOK, TrailInv(trail, trail_lim, DB), NEW c
    PROVE  \E X \in SUBSET DOMAIN trail :
              /\ \A i \in X : Removable(c, X, i)
              /\ \A l : Pos(l) \in DOMAIN trail /\ Redundant(c, l) => Pos(l) \in X
<1> DEFINE n == Len(trail)
           Eq(f) == [i \in 1 .. n |->
                       /\ trail[i].reason # None
                       /\ \A k \in Above(trail[i].reason \ {trail[i].lit}) : k \in c \/ f[Pos(k)]]
           go == CHOOSE f : f = Eq(f)
<1>1. n \in Nat /\ DOMAIN trail = 1 .. n
  BY EntryFacts DEF TypeOK
<1>2. PICK Y \in SUBSET DOMAIN trail : \A i \in DOMAIN trail : i \in Y <=> Removable(c, Y, i)
  BY RemovableIs
<1> DEFINE h == [i \in 1 .. n |-> i \in Y]
<1>3. ASSUME NEW i \in 1 .. n, NEW k \in Above(trail[i].reason \ {trail[i].lit}),
             trail[i].reason # None
      PROVE  Pos(k) \in 1 .. n
  <2>1. k \in trail[i].reason \ {trail[i].lit} /\ k \in Lits
    BY <1>1, EntryFacts DEF Above, TypeOK
  <2>2. PICK j \in 1 .. i - 1 : trail[j].lit = -k
    BY <1>1, <1>3, <2>1 DEF TrailInv, Reasoned
  <2>3. j \in 1 .. n
    BY <1>1
  <2> QED BY <1>1, <2>1, <2>2, <2>3, TrailFacts
<1>4. ASSUME NEW i \in 1 .. n PROVE Removable(c, Y, i) <=> Eq(h)[i]
  <2>1. CASE trail[i].reason = None
    BY <2>1 DEF Removable
  <2>2. CASE trail[i].reason # None
    <3>1. \A k \in Above(trail[i].reason \ {trail[i].lit}) : Pos(k) \in Y <=> h[Pos(k)]
      BY <1>3, <2>2
    <3> HIDE DEF h
    <3> QED BY <3>1 DEF Removable
  <2> QED BY <2>1, <2>2
<1>5. h = Eq(h)
  <2>1. \A i \in 1 .. n : h[i] = (i \in Y)
    OBVIOUS
  <2>2. \A i \in 1 .. n : Eq(h)[i] \in BOOLEAN
    OBVIOUS
  <2>3. \A i \in 1 .. n : h[i] = Eq(h)[i]
    <3> HIDE DEF Eq, h
    <3> QED BY <1>1, <1>2, <1>4, <2>1, <2>2
  <2>4. h = [i \in 1 .. n |-> h[i]] /\ Eq(h) = [i \in 1 .. n |-> Eq(h)[i]]
    OBVIOUS
  <2> HIDE DEF Eq, h
  <2> QED BY <2>3, <2>4
<1>6. go = Eq(go)
  <2> HIDE DEF Eq, h
  <2> QED BY <1>5
<1> DEFINE X == {i \in 1 .. n : go[i]}
<1>7. \A i \in X : i \in 1 .. n /\ Eq(go)[i]
  <2>1. \A i \in 1 .. n : go[i] => Eq(go)[i]
    <3> HIDE DEF go, Eq
    <3> QED BY <1>6
  <2> HIDE DEF go, Eq
  <2> QED BY <2>1
<1> HIDE DEF go
<1>8. ASSUME NEW i \in X PROVE Removable(c, X, i)
  <2>1. /\ i \in 1 .. n /\ trail[i].reason # None
        /\ \A k \in Above(trail[i].reason \ {trail[i].lit}) : k \in c \/ go[Pos(k)]
    BY <1>7
  <2>2. \A k \in Above(trail[i].reason \ {trail[i].lit}) : Pos(k) \in 1 .. n
    BY <1>3, <2>1
  <2> QED BY <2>1, <2>2 DEF Removable
<1>9. ASSUME NEW l, Pos(l) \in DOMAIN trail, Redundant(c, l) PROVE Pos(l) \in X
  <2>1. go[Pos(l)]
    BY <1>9 DEF Redundant, go
  <2> QED BY <1>1, <1>9, <2>1
<1>10. X \in SUBSET DOMAIN trail
  BY <1>1
<1> HIDE DEF X
<1> QED BY <1>8, <1>9, <1>10

(* However clauses are minimised, the literals that go are at such places. *)
LEMMA RemovedIs ==
    ASSUME TypeOK, TrailInv(trail, trail_lim, DB), NEW u, u \subseteq Refuted
    PROVE  \E X \in SUBSET DOMAIN trail :
              /\ \A i \in X : Removable(u \ Latest(u), X, i)
              /\ \A l \in u \ Minimised(u) : l \in u \ Latest(u) /\ Pos(l) \in X
<1> DEFINE source == u \ Latest(u)
           Goes(l) == CASE user.ccmin_mode = 2 -> Redundant(source, l)
                        [] user.ccmin_mode = 1 -> RedundantAtOnce(source, l)
                        [] OTHER -> FALSE
<1>1. ASSUME NEW l \in u
      PROVE  l \in Lits /\ Pos(l) \in DOMAIN trail /\ trail[Pos(l)].lit = -l
             /\ trail[Pos(l)].reason = reason(l)
  <2>1. l \in Lits
    BY TrailFacts DEF Refuted
  <2>2. PICK i \in DOMAIN trail : trail[i].lit = -l
    BY DEF Refuted
  <2> QED BY <2>1, <2>2, TrailFacts
<1>2. \A l \in u \ Minimised(u) : l \in source /\ Goes(l)
  <2>1. Minimised(u) = {l \in u : l \in Latest(u) \/ ~ Goes(l)}
    BY DEF Minimised
  <2> HIDE DEF Goes
  <2> QED BY <2>1
<1>3. CASE user.ccmin_mode = 2
  <2>1. PICK X \in SUBSET DOMAIN trail :
                /\ \A i \in X : Removable(source, X, i)
                /\ \A l : Pos(l) \in DOMAIN trail /\ Redundant(source, l) => Pos(l) \in X
    <3> HIDE DEF source
    <3> QED BY RedundantIs
  <2>2. \A l \in u \ Minimised(u) : l \in source /\ Redundant(source, l)
    <3> HIDE DEF source
    <3> QED BY <1>2, <1>3
  <2>3. \A l \in u \ Minimised(u) : Pos(l) \in X
    BY <1>1, <2>1, <2>2
  <2> QED BY <2>1, <2>2, <2>3
<1>4. CASE user.ccmin_mode = 1
  <2>1. \A l \in u \ Minimised(u) : l \in source /\ RedundantAtOnce(source, l)
    <3> HIDE DEF source
    <3> QED BY <1>2, <1>4
  <2> DEFINE X == {Pos(l) : l \in u \ Minimised(u)}
  <2>2. X \in SUBSET DOMAIN trail
    BY <1>1
  <2>3. ASSUME NEW i \in X PROVE Removable(source, X, i)
    <3>1. PICK l \in u \ Minimised(u) : i = Pos(l)
      OBVIOUS
    <3>2. trail[i].lit = -l /\ trail[i].reason = reason(l)
      BY <1>1, <3>1
    <3>3. reason(l) # None /\ Above(reason(l) \ {-l}) \subseteq source
      BY <2>1 DEF RedundantAtOnce
    <3> HIDE DEF source, X
    <3> QED BY <3>2, <3>3 DEF Removable
  <2> QED BY <2>1, <2>2, <2>3
<1>5. CASE user.ccmin_mode = 0
  <2>1. u \ Minimised(u) = {}
    <3>1. \A l : ~ Goes(l)
      BY <1>5
    <3> HIDE DEF Goes
    <3> QED BY <1>2, <3>1
  <2> QED BY <2>1
<1>6. user.ccmin_mode \in 0 .. 2
  BY SolverAssumption DEF TypeOK
<1> QED BY <1>3, <1>4, <1>5, <1>6

(* The clause that is learnt follows from the clauses and what is known.   *)
LEMMA LearntHolds ==
    ASSUME TypeOK, TrailInv(trail, trail_lim, DB), decisionLevel > 0,
           NEW m, Sat(m, DB), HoldsAll(m, Known(trail)),
           NEW confl \in Conflicting
    PROVE  HoldsOne(m, Minimised(UIP(confl)))
<1> DEFINE n == Len(trail)
           u == UIP(confl)
           source == u \ Latest(u)
<1>1. n \in Nat /\ DOMAIN trail = 1 .. n
  BY EntryFacts DEF TypeOK
<1>2. u \subseteq Refuted
  BY UIPCuts DEF Cutting
<1>3. HoldsOne(m, u)
  BY UIPHolds
<1> HIDE DEF u
<1>4. PICK X \in SUBSET DOMAIN trail :
                /\ \A i \in X : Removable(source, X, i)
                /\ \A l \in u \ Minimised(u) : l \in source /\ Pos(l) \in X
  BY <1>2, RemovedIs
<1>5. ASSUME NEW l \in u PROVE l \in Lits /\ \E i \in DOMAIN trail : trail[i].lit = -l /\ Pos(l) = i
  <2>1. l \in Lits
    BY <1>2, TrailFacts DEF Refuted
  <2>2. PICK i \in DOMAIN trail : trail[i].lit = -l
    BY <1>2 DEF Refuted
  <2> QED BY <2>1, <2>2, TrailFacts
<1> SUFFICES ASSUME ~ HoldsOne(m, Minimised(u)) PROVE FALSE
  BY DEF u
<1>6. \A l \in u : Holds(m, l) => l \in source /\ Pos(l) \in X
  BY <1>4 DEF HoldsOne
<1> DEFINE Wrong == {i \in 1 .. n : i \in X /\ ~ Holds(m, trail[i].lit)}
<1>7. Wrong # {}
  <2>1. PICK l \in u : Holds(m, l)
    BY <1>3 DEF HoldsOne
  <2>2. PICK i \in DOMAIN trail : trail[i].lit = -l /\ Pos(l) = i
    BY <1>5, <2>1
  <2>3. i \in X
    BY <1>6, <2>1, <2>2
  <2>4. ~ Holds(m, trail[i].lit)
    BY <1>5, <2>1, <2>2, HoldsNot
  <2> QED BY <1>1, <2>3, <2>4
<1>8. PICK i \in Wrong : \A j \in Wrong : i <= j
  <2>1. Wrong \subseteq Nat
    OBVIOUS
  <2> HIDE DEF Wrong
  <2> QED BY <1>7, <2>1, LeastNat
<1>9. i \in 1 .. n /\ i \in X /\ ~ Holds(m, trail[i].lit)
  OBVIOUS
<1>10. /\ trail[i].reason # None
       /\ \A k \in Above(trail[i].reason \ {trail[i].lit}) : k \in source \/ Pos(k) \in X
  BY <1>4, <1>9 DEF Removable
<1>11. /\ trail[i].reason \in DB
       /\ \A k \in trail[i].reason \ {trail[i].lit} : \E j \in 1 .. i - 1 : trail[j].lit = -k
  BY <1>1, <1>9, <1>10 DEF TrailInv, Reasoned
<1>12. PICK k \in trail[i].reason : Holds(m, k)
  BY <1>11 DEF Sat, HoldsOne
<1>13. k # trail[i].lit /\ k \in Lits
  BY <1>9, <1>11, <1>12, TrailFacts
<1>14. PICK j \in 1 .. i - 1 : trail[j].lit = -k
  BY <1>11, <1>13
<1>15. j \in 1 .. n /\ j < i
  BY <1>1, <1>9
<1>16. level(k) > 0 /\ Pos(k) = j
  BY <1>1, <1>12, <1>13, <1>14, <1>15, HoldsAbove
<1>17. k \in source \/ j \in X
  BY <1>10, <1>13, <1>16 DEF Above
<1>18. j \in X
  BY <1>6, <1>12, <1>16, <1>17
<1>19. ~ Holds(m, trail[j].lit)
  BY <1>12, <1>13, <1>14, HoldsNot
<1>20. j \in Wrong
  BY <1>15, <1>18, <1>19
<1>21. i <= j
  <2> HIDE DEF Wrong
  <2> QED BY <1>8, <1>20
<1> QED BY <1>9, <1>15, <1>21

-----------------------------------------------------------------------------
(* A conflict with the assumptions.                                        *)

(* The variables of literals.                                              *)
LEMMA LitVars == \A d : d \subseteq Lits => VarsOf(d) \subseteq Vars
BY LitFacts DEF VarsOf

(* What analyzeFinal has seen after place i of the trail.                  *)
SeenMore(V, i) ==
    V \cup IF Var(trail[i].lit) \in V /\ trail[i].reason # None
           THEN VarsOf(Above(trail[i].reason \ {trail[i].lit}))
           ELSE {}

(* The sets of variables that analyzeFinal goes through.                   *)
LEMMA SeenIs ==
    ASSUME TypeOK, TrailInv(trail, trail_lim, DB), decisionLevel > 0, NEW p \in Lits
    PROVE  LET first == trail_lim[1] + 1
               n == Len(trail)
           IN  \E seen : /\ seen[n + 1] = {Var(p)}
                         /\ \A i \in first .. n : seen[i] = SeenMore(seen[i + 1], i)
                         /\ analyzeFinal(p) = {p} \cup
                              {-trail[i].lit : i \in {j \in first .. n :
                                 Var(trail[j].lit) \in seen[first] /\ trail[j].reason = None}}
<1> DEFINE n == Len(trail)
           first == trail_lim[1] + 1
           b == n + 1
           N == b - first
           S == SUBSET Vars
           Eq(f) == [i \in first .. n + 1 |->
                       IF i > n THEN {Var(p)}
                       ELSE f[i + 1] \cup
                            IF Var(trail[i].lit) \in f[i + 1] /\ trail[i].reason # None
                            THEN VarsOf(Above(trail[i].reason \ {trail[i].lit}))
                            ELSE {}]
           seen == CHOOSE f : f = Eq(f)
           step == [y \in S \X (1 .. N) |-> SeenMore(y[1], b - y[2])]
<1>1. n \in Nat /\ DOMAIN trail = 1 .. n /\ \A i \in 1 .. n : trail[i].reason \in SUBSET Lits
  BY EntryFacts DEF TypeOK
<1>2. first \in Nat /\ 1 <= first /\ first <= n + 1 /\ N \in Nat
  <2>1. 1 \in DOMAIN trail_lim
    BY TrailFacts DEF TypeOK
  <2>2. trail_lim[1] \in Nat /\ trail_lim[1] <= n
    BY <2>1 DEF TypeOK, TrailInv, Ordered
  <2> HIDE DEF n
  <2> QED BY <1>1, <2>2
<1>3. {Var(p)} \in S
  BY LitFacts
<1>4. ASSUME NEW V \in S, NEW i \in 1 .. n PROVE SeenMore(V, i) \in S
  <2>1. Above(trail[i].reason \ {trail[i].lit}) \subseteq Lits
    BY <1>1 DEF Above
  <2>2. VarsOf(Above(trail[i].reason \ {trail[i].lit})) \subseteq Vars
    BY <2>1, LitVars
  <2> QED BY <2>2 DEF SeenMore
<1>5. \A k \in 1 .. N : b - k \in 1 .. n /\ b - k \in first .. n
  <2> HIDE DEF n, first
  <2> QED BY <1>1, <1>2
<1>6. step \in [S \X (1 .. N) -> S]
  <2>1. ASSUME NEW y \in S \X (1 .. N) PROVE SeenMore(y[1], b - y[2]) \in S
    <3>1. y[1] \in S /\ y[2] \in 1 .. N
      OBVIOUS
    <3> HIDE DEF S, n, N, b
    <3> QED BY <1>4, <1>5, <3>1
  <2> HIDE DEF S, N, b
  <2> QED BY <2>1
<1>7. PICK g : g \in [0 .. N -> S] /\ g[0] = {Var(p)} /\ \A k \in 1 .. N : g[k] = step[<<g[k-1], k>>]
  <2> HIDE DEF step, N, S
  <2>1. \E g : IsRecursive(g, S, {Var(p)}, N, step)
    BY <1>2, <1>3, <1>6, Recursion
  <2> QED BY <2>1 DEF IsRecursive
<1>8. ASSUME NEW k \in 1 .. N PROVE g[k] = SeenMore(g[k-1], b - k)
  <2>1. g[k-1] \in S
    <3>1. k - 1 \in 0 .. N
      BY <1>2
    <3> HIDE DEF S, N
    <3> QED BY <1>7, <3>1
  <2>2. <<g[k-1], k>> \in S \X (1 .. N)
    BY <2>1
  <2>3. step[<<g[k-1], k>>] = SeenMore(g[k-1], b - k)
    <3> HIDE DEF S, N, b
    <3> QED BY <2>2
  <2> HIDE DEF step, b
  <2> QED BY <1>7, <2>3
<1> DEFINE h == [i \in first .. n + 1 |-> g[b - i]]
           Value(f, i) == IF i > n THEN {Var(p)} ELSE SeenMore(f[i + 1], i)
<1>9. \A i \in first .. n + 1 : h[i] = Value(h, i)
  <2> SUFFICES ASSUME NEW i \in first .. n + 1 PROVE h[i] = Value(h, i)
    OBVIOUS
  <2>1. h[i] = g[b - i]
    OBVIOUS
  <2>2. CASE i > n
    <3>1. b - i = 0
      <4> HIDE DEF n, first
      <4> QED BY <1>1, <1>2, <2>2
    <3> HIDE DEF h, b, n
    <3> QED BY <1>7, <2>1, <2>2, <3>1
  <2>3. CASE ~ (i > n)
    <3>1. b - i \in 1 .. N /\ b - i - 1 = b - (i + 1) /\ b - (b - i) = i /\ i + 1 \in first .. n + 1
      <4> HIDE DEF n, first
      <4> QED BY <1>1, <1>2, <2>3
    <3>2. h[i + 1] = g[b - (i + 1)]
      BY <3>1
    <3> HIDE DEF h, b, n, N
    <3> QED BY <1>8, <2>1, <2>3, <3>1, <3>2
  <2> QED BY <2>2, <2>3
<1>10. h = Eq(h)
  <2>1. \A f : Eq(f) = [i \in first .. n + 1 |-> Value(f, i)]
    BY DEF SeenMore
  <2>2. h = [i \in first .. n + 1 |-> h[i]]
    OBVIOUS
  <2> HIDE DEF h, Eq, Value
  <2> QED BY <1>9, <2>1, <2>2
<1>11. seen = Eq(seen)
  <2> HIDE DEF h, Eq
  <2> QED BY <1>10
<1>12. \A i \in first .. n + 1 : seen[i] = Value(seen, i)
  <2>1. \A f : Eq(f) = [i \in first .. n + 1 |-> Value(f, i)]
    BY DEF SeenMore
  <2>2. \A f : \A i \in first .. n + 1 : Eq(f)[i] = Value(f, i)
    <3> HIDE DEF Value, Eq
    <3> QED BY <2>1
  <2> HIDE DEF seen, Eq, Value
  <2> QED BY <1>11, <2>2
<1>13. analyzeFinal(p) = {p} \cup
          {-trail[i].lit : i \in {j \in first .. n :
             Var(trail[j].lit) \in seen[first] /\ trail[j].reason = None}}
  <2>1. decisionLevel # 0
    BY TrailFacts
  <2> QED BY <2>1, Zenon DEF analyzeFinal
<1> HIDE DEF seen
<1>14. seen[n + 1] = {Var(p)} /\ \A i \in first .. n : seen[i] = SeenMore(seen[i + 1], i)
  <2>1. n + 1 \in first .. n + 1 /\ n + 1 > n /\ \A i \in first .. n : i \in first .. n + 1 /\ ~ (i > n)
    <3> HIDE DEF n, first
    <3> QED BY <1>1, <1>2
  <2> HIDE DEF n, first
  <2> QED BY <1>12, <2>1
<1> QED BY <1>13, <1>14

(* The places above level 0 are those after the first decision.            *)
LEMMA AfterFirst ==
    ASSUME TypeOK, TrailInv(trail, trail_lim, DB), decisionLevel > 0
    PROVE  /\ trail_lim[1] \in Nat /\ trail_lim[1] <= Len(trail)
           /\ \A i \in DOMAIN trail : trail[i].level > 0 <=> i >= trail_lim[1] + 1
<1>1. 1 \in DOMAIN trail_lim
  BY TrailFacts DEF TypeOK
<1>2. trail_lim[1] \in Nat /\ trail_lim[1] <= Len(trail)
  BY <1>1 DEF TypeOK, TrailInv, Ordered
<1>3. ASSUME NEW i \in DOMAIN trail
      PROVE  trail[i].level > 0 <=> i >= trail_lim[1] + 1
  <2>1. trail[i].level >= 1 <=> i > trail_lim[1]
    BY <1>1 DEF TrailInv, Ordered
  <2>2. trail[i].level \in Nat /\ i \in Nat
    BY EntryFacts DEF TypeOK
  <2> QED BY <1>2, <2>1, <2>2
<1> QED BY <1>2, <1>3

(* Where the clauses and what is known hold, so does one of the literals   *)
(* that analyzeFinal returns.                                              *)
LEMMA FinalHolds ==
    ASSUME TypeOK, TrailInv(trail, trail_lim, DB),
           NEW m, Sat(m, DB), HoldsAll(m, Known(trail)),
           NEW p \in Lits, IsTrue(p)
    PROVE  HoldsOne(m, analyzeFinal(p))
<1> DEFINE n == Len(trail)
           first == trail_lim[1] + 1
<1>1. n \in Nat /\ DOMAIN trail = 1 .. n
  BY EntryFacts DEF TypeOK
<1>2. PICK q \in DOMAIN trail : trail[q].lit = p
  BY DEF IsTrue, TrueLits
<1>3. p \in analyzeFinal(p)
  BY DEF analyzeFinal
<1>4. trail[q].level \in Nat /\ trail[q].level <= decisionLevel /\ decisionLevel \in Nat
  <2>1. trail[q].level \in Nat
    BY EntryFacts DEF TypeOK
  <2> QED BY <2>1, TrailFacts DEF TrailInv, Ordered
<1> SUFFICES ASSUME ~ HoldsOne(m, analyzeFinal(p)) PROVE FALSE
  OBVIOUS
<1>5. ~ Holds(m, p)
  BY <1>3 DEF HoldsOne
<1>6. trail[q].level # 0
  <2> SUFFICES ASSUME trail[q].level = 0 PROVE FALSE
    OBVIOUS
  <2>1. p \in Known(trail)
    BY <1>2 DEF Known
  <2> QED BY <1>5, <2>1 DEF HoldsAll
<1>7. decisionLevel > 0 /\ trail[q].level > 0
  BY <1>4, <1>6
<1>8. PICK seen : /\ seen[n + 1] = {Var(p)}
                  /\ \A i \in first .. n : seen[i] = SeenMore(seen[i + 1], i)
                  /\ analyzeFinal(p) = {p} \cup
                       {-trail[i].lit : i \in {j \in first .. n :
                          Var(trail[j].lit) \in seen[first] /\ trail[j].reason = None}}
  BY <1>7, SeenIs
<1>9. /\ first \in Nat /\ 1 <= first /\ first <= n + 1
      /\ \A i \in DOMAIN trail : trail[i].level > 0 => i >= first
  BY <1>1, <1>7, AfterFirst
<1> DEFINE V == seen[first]
<1>10. \A i \in first .. n + 1 : seen[i] \subseteq V
  <2> DEFINE last == n + 1
             T == {i \in first .. last : seen[i] \subseteq V}
  <2>1. first \in T
    <3> HIDE DEF first, n
    <3> QED BY <1>1, <1>9
  <2>2. ASSUME NEW i \in first .. last - 1, i \in T PROVE i + 1 \in T
    <3>1. i \in first .. n /\ i + 1 \in first .. n + 1
      <4> HIDE DEF first, n, T
      <4> QED BY <1>1, <1>9
    <3>2. seen[i + 1] \subseteq seen[i]
      BY <1>8, <3>1 DEF SeenMore
    <3>3. seen[i] \subseteq V
      BY <2>2
    <3> HIDE DEF V, first, n
    <3> QED BY <3>1, <3>2, <3>3
  <2>3. last \in Nat
    BY <1>1
  <2>4. first .. last \subseteq T
    <3> HIDE DEF T, first, last
    <3> QED BY <1>9, <2>1, <2>2, <2>3, Climb
  <2> QED BY <2>4
<1>11. ASSUME NEW i \in first .. n, Var(trail[i].lit) \in V PROVE Var(trail[i].lit) \in seen[i + 1]
  <2> DEFINE last == i + 1
             T == {k \in first .. last : Var(trail[i].lit) \in seen[k]}
  <2>1. i \in DOMAIN trail /\ i \in Nat /\ first <= i + 1
    <3> HIDE DEF first, n
    <3> QED BY <1>1, <1>9
  <2>2. first \in T
    <3> HIDE DEF first, n
    <3> QED BY <1>9, <1>11, <2>1
  <2>3. ASSUME NEW k \in first .. last - 1, k \in T PROVE k + 1 \in T
    <3>1. /\ k \in first .. n /\ k + 1 \in first .. i + 1 /\ k \in DOMAIN trail /\ k <= i
          /\ Var(trail[i].lit) \in seen[k]
      <4>1. k \in Nat /\ k >= first /\ k <= i /\ i <= n
        <5> HIDE DEF first, n, T
        <5> QED BY <1>1, <1>9, <2>1
      <4>2. Var(trail[i].lit) \in seen[k]
        BY <2>3
      <4> HIDE DEF first, n, T
      <4> QED BY <1>1, <1>9, <2>1, <4>1, <4>2
    <3>2. Var(trail[i].lit) \in seen[k + 1]
      <4> SUFFICES ASSUME Var(trail[i].lit) \notin seen[k + 1] PROVE FALSE
        OBVIOUS
      <4>1. /\ trail[k].reason # None
            /\ Var(trail[i].lit) \in VarsOf(Above(trail[k].reason \ {trail[k].lit}))
        <5> HIDE DEF first, n
        <5> QED BY <1>8, <3>1 DEF SeenMore
      <4>2. PICK x \in trail[k].reason \ {trail[k].lit} : Var(x) = Var(trail[i].lit)
        BY <4>1 DEF VarsOf, Above
      <4>3. PICK j \in 1 .. k - 1 : trail[j].lit = -x
        BY <3>1, <4>1, <4>2 DEF TrailInv, Reasoned
      <4>4. j \in DOMAIN trail /\ j # i
        BY <1>1, <2>1, <3>1
      <4>5. x \in Lits
        BY <3>1, <4>2, EntryFacts DEF TypeOK
      <4>6. Var(trail[j].lit) = Var(trail[i].lit)
        BY <4>2, <4>3, <4>5, LitFacts
      <4> QED BY <2>1, <4>4, <4>6 DEF TrailInv, Distinct
    <3> QED BY <3>1, <3>2
  <2>4. first .. last \subseteq T
    <3>1. last \in Nat
      BY <2>1
    <3> HIDE DEF T, first, last
    <3> QED BY <1>9, <2>2, <2>3, <3>1, Climb
  <2>5. i + 1 \in first .. i + 1
    <3> HIDE DEF first, n
    <3> QED BY <1>9, <2>1
  <2> QED BY <2>4, <2>5
<1> HIDE DEF V
<1> DEFINE Wrong == {i \in first .. n : Var(trail[i].lit) \in V /\ ~ Holds(m, trail[i].lit)}
<1>12. q \in Wrong
  <2>1. q \in first .. n /\ n + 1 \in first .. n + 1
    <3> HIDE DEF first, n
    <3> QED BY <1>1, <1>2, <1>7, <1>9
  <2>2. Var(p) \in V
    <3> HIDE DEF n, first
    <3> QED BY <1>8, <1>10, <2>1
  <2> QED BY <1>2, <1>5, <2>1, <2>2
<1>13. PICK i \in Wrong : \A j \in Wrong : i <= j
  <2>1. Wrong \subseteq Nat
    <3>1. first .. n \subseteq Nat
      <4> HIDE DEF first, n
      <4> QED BY <1>1, <1>9
    <3> QED BY <3>1
  <2> HIDE DEF Wrong
  <2> QED BY <1>12, <2>1, LeastNat
<1>14. i \in first .. n /\ Var(trail[i].lit) \in V /\ ~ Holds(m, trail[i].lit)
  OBVIOUS
<1>15. i \in DOMAIN trail /\ i \in Nat /\ trail[i].lit \in Lits
  <2>1. i \in DOMAIN trail /\ i \in Nat
    <3> HIDE DEF first, n, Wrong
    <3> QED BY <1>1, <1>9, <1>14
  <2> QED BY <2>1, EntryFacts DEF TypeOK
<1>16. trail[i].reason # None
  <2> SUFFICES ASSUME trail[i].reason = None PROVE FALSE
    OBVIOUS
  <2>1. -trail[i].lit \in analyzeFinal(p)
    <3> HIDE DEF first, n, Wrong
    <3> QED BY <1>8, <1>14 DEF V
  <2> QED BY <1>14, <1>15, <2>1, HoldsNot DEF HoldsOne
<1>17. /\ trail[i].reason \in DB
       /\ \A k \in trail[i].reason \ {trail[i].lit} : \E j \in 1 .. i - 1 : trail[j].lit = -k
  BY <1>15, <1>16 DEF TrailInv, Reasoned
<1>18. PICK k \in trail[i].reason : Holds(m, k)
  BY <1>17 DEF Sat, HoldsOne
<1>19. k # trail[i].lit /\ k \in Lits
  BY <1>14, <1>17, <1>18, TrailFacts
<1>20. PICK j \in 1 .. i - 1 : trail[j].lit = -k
  BY <1>17, <1>19
<1>21. j \in DOMAIN trail /\ j < i
  BY <1>1, <1>15
<1>22. level(k) > 0 /\ trail[j].level > 0
  BY <1>18, <1>19, <1>20, <1>21, HoldsAbove
<1>23. j \in first .. n
  <2> HIDE DEF first, n, Wrong
  <2> QED BY <1>1, <1>9, <1>21, <1>22
<1>24. Var(trail[j].lit) \in V
  <2>1. Var(trail[j].lit) = Var(k)
    BY <1>19, <1>20, LitFacts
  <2>2. Var(k) \in VarsOf(Above(trail[i].reason \ {trail[i].lit}))
    BY <1>18, <1>19, <1>22 DEF VarsOf, Above
  <2>3. Var(trail[i].lit) \in seen[i + 1]
    <3> HIDE DEF first, n, Wrong
    <3> QED BY <1>11, <1>14
  <2>4. Var(k) \in seen[i]
    <3> HIDE DEF first, n, Wrong
    <3> QED BY <1>8, <1>14, <1>16, <2>2, <2>3 DEF SeenMore
  <2>5. i \in first .. n + 1
    <3> HIDE DEF first, n, Wrong
    <3> QED BY <1>1, <1>9, <1>14
  <2> HIDE DEF first, n, Wrong
  <2> QED BY <1>10, <2>1, <2>4, <2>5
<1>25. ~ Holds(m, trail[j].lit)
  BY <1>18, <1>19, <1>20, HoldsNot
<1>26. j \in Wrong
  <2> HIDE DEF first, n
  <2> QED BY <1>23, <1>24, <1>25
<1>27. i <= j
  <2> HIDE DEF Wrong
  <2> QED BY <1>13, <1>26
<1> QED BY <1>1, <1>15, <1>21, <1>27

-----------------------------------------------------------------------------
(* The models.                                                             *)

(* What the refinement takes as the models, of variables below n of which  *)
(* those in L are in use.                                                  *)
ModelsOf(n, o, C, t, L) ==
    LET M == {m \in [1 .. n - 1 -> BOOLEAN] :
                /\ o
                /\ \A c \in C : \E l \in c : Holds(m, l)
                /\ \A i \in DOMAIN t : t[i].level = 0 => Holds(m, t[i].lit)}
    IN  {[v \in L |-> m[v]] : m \in M}

(* Assignments to the variables created, and to all that there may be, have*)
(* the same restrictions to some of the former, if what is said of them is *)
(* about the variables created.                                            *)
LEMMA RestrictedIs ==
    ASSUME NEW n \in Nat, n <= MaxVar + 1, NEW o, NEW C, NEW t, NEW L,
           \A c \in C : c \subseteq Lits /\ VarsOf(c) \subseteq 1 .. n - 1,
           \A i \in DOMAIN t : t[i].lit \in Lits /\ Var(t[i].lit) \in 1 .. n - 1,
           \A v \in L : v \in 1 .. n - 1
    PROVE  ModelsOf(n, o, C, t, L) = Restricted(Solutions(o, C, Known(t)), L)
<1> DEFINE A == 1 .. n - 1
           Good(m) == /\ o
                      /\ \A c \in C : \E l \in c : Holds(m, l)
                      /\ \A i \in DOMAIN t : t[i].level = 0 => Holds(m, t[i].lit)
           M == {m \in [A -> BOOLEAN] : Good(m)}
<1>1. A \subseteq Vars
  BY SolverAssumption DEF Vars
<1>2. ASSUME NEW m, NEW k, \A v \in A : m[v] = k[v] PROVE Good(m) <=> Good(k)
  <2>1. ASSUME NEW c \in C, NEW l \in c PROVE Holds(m, l) <=> Holds(k, l)
    <3>1. l \in Lits /\ Var(l) \in A
      BY DEF VarsOf
    <3> QED BY <1>2, <3>1, HoldsSame
  <2>2. ASSUME NEW i \in DOMAIN t PROVE Holds(m, t[i].lit) <=> Holds(k, t[i].lit)
    <3>1. t[i].lit \in Lits /\ Var(t[i].lit) \in A
      OBVIOUS
    <3> HIDE DEF A
    <3> QED BY <1>2, <3>1, HoldsSame
  <2> QED BY <2>1, <2>2
<1>3. \A m : Good(m) <=> o /\ Sat(m, C) /\ HoldsAll(m, Known(t))
  <2>1. ASSUME NEW m
        PROVE  HoldsAll(m, Known(t)) <=> \A i \in DOMAIN t : t[i].level = 0 => Holds(m, t[i].lit)
    BY DEF HoldsAll, Known
  <2> QED BY <2>1 DEF Sat, HoldsOne
<1>4. Solutions(o, C, Known(t)) = {m \in Valuations : Good(m)}
  <2> HIDE DEF Good
  <2> QED BY <1>3 DEF Solutions
<1> DEFINE G == {m \in Valuations : Good(m)}
<1> HIDE DEF Good
<1>5. ASSUME NEW m \in M PROVE \E k \in G : [v \in L |-> m[v]] = [v \in L |-> k[v]]
  <2> DEFINE k == [v \in Vars |-> IF v \in A THEN m[v] ELSE FALSE]
  <2>1. k \in Valuations
    <3> HIDE DEF A
    <3> QED BY DEF Valuations
  <2>2. \A v \in A : m[v] = k[v]
    <3> HIDE DEF A
    <3> QED BY <1>1
  <2> HIDE DEF k
  <2>3. k \in G
    <3> HIDE DEF A
    <3> QED BY <1>2, <2>1, <2>2
  <2>4. [v \in L |-> m[v]] = [v \in L |-> k[v]]
    <3> HIDE DEF A
    <3> QED BY <2>2 DEF A
  <2> QED BY <2>3, <2>4
<1>6. ASSUME NEW k \in G PROVE \E m \in M : [v \in L |-> k[v]] = [v \in L |-> m[v]]
  <2> DEFINE m == [v \in A |-> k[v]]
  <2>1. m \in [A -> BOOLEAN]
    <3> HIDE DEF A
    <3> QED BY <1>1 DEF Valuations
  <2>2. \A v \in A : m[v] = k[v]
    <3> HIDE DEF A
    <3> QED OBVIOUS
  <2> HIDE DEF m
  <2>3. m \in M
    <3> HIDE DEF A
    <3> QED BY <1>2, <2>1, <2>2
  <2>4. [v \in L |-> k[v]] = [v \in L |-> m[v]]
    <3> HIDE DEF A
    <3> QED BY <2>2 DEF A
  <2> QED BY <2>3, <2>4
<1> DEFINE R(m) == [v \in L |-> m[v]]
<1>7. {R(m) : m \in M} = {R(m) : m \in G}
  <2>1. \A m \in M : \E k \in G : R(m) = R(k)
    BY <1>5
  <2>2. \A k \in G : \E m \in M : R(k) = R(m)
    BY <1>6
  <2> HIDE DEF M, G, R
  <2> QED BY <2>1, <2>2
<1>8. ModelsOf(n, o, C, t, L) = {R(m) : m \in M}
  BY Zenon DEF ModelsOf, Good
<1>9. Restricted(G, L) = {R(m) : m \in G}
  BY DEF Restricted
<1> HIDE DEF M, R
<1> QED BY <1>4, <1>7, <1>8, <1>9

(* Variables in use are created, and the lists of clauses are about them.  *)
LEMMA LiveCreated == Live \subseteq Created
BY DEF Live, Created

(* The models of the refinement, as restrictions.                          *)
Meant == Solutions(ok, clauses, Known(trail))

(* Clauses learnt do not matter.                                           *)
LEMMA MeantIs ==
    ASSUME LearntsFollow
    PROVE  Solutions(ok, DB, Known(trail)) = Meant
<1>1. ASSUME NEW m \in Valuations, HoldsAll(m, Known(trail))
      PROVE  Sat(m, DB) <=> Sat(m, clauses)
  <2>1. Sat(m, clauses) => Sat(m, learnts)
    BY <1>1 DEF LearntsFollow
  <2> QED BY <2>1 DEF Sat, DB
<1> QED BY <1>1 DEF Solutions, Meant

(* The models of the refinement are restrictions of what is meant.         *)
LEMMA ModelsAre == OracleInv => Models = Restricted(Meant, Live)
<1> SUFFICES ASSUME OracleInv PROVE Models = Restricted(Meant, Live)
  OBVIOUS
<1>1. TypeOK /\ CreatedOK /\ LearntsFollow
  BY DEF OracleInv, OracleParts, SolverInv
<1>2. next_var \in Nat /\ next_var <= MaxVar + 1
  BY <1>1, SolverAssumption DEF TypeOK
<1>3. /\ \A c \in DB : c \subseteq Lits /\ VarsOf(c) \subseteq 1 .. next_var - 1
      /\ \A v \in Live : v \in 1 .. next_var - 1
  BY <1>1, LiveCreated DEF CreatedOK, Created, TypeOK, DB
<1>4. \A i \in DOMAIN trail : trail[i].lit \in Lits /\ Var(trail[i].lit) \in 1 .. next_var - 1
  BY <1>1, EntryFacts DEF CreatedOK, Created, TypeOK
<1>5. ModelsOf(next_var, ok, DB, trail, Live) = Restricted(Solutions(ok, DB, Known(trail)), Live)
  BY <1>2, <1>3, <1>4, RestrictedIs
<1>6. Models = ModelsOf(next_var, ok, DB, trail, Live)
  BY Zenon DEF Models, Assignments, ModelsOf, DB
<1> QED BY <1>1, <1>5, <1>6, MeantIs

-----------------------------------------------------------------------------
(* What is known, and what hangs on it.                                    *)

(* An entry appended is known at level 0.                                  *)
LEMMA KnownGrows ==
    ASSUME NEW t \in Seq(EntryType), NEW e \in EntryType
    PROVE  Known(Append(t, e)) = Known(t) \cup (IF e.level = 0 THEN {e.lit} ELSE {})
<1> DEFINE u == Append(t, e)
           n == Len(t)
<1>1. /\ n \in Nat /\ DOMAIN t = 1 .. n /\ DOMAIN u = 1 .. n + 1
      /\ \A i \in 1 .. n : u[i] = t[i]
      /\ u[n+1] = e
  OBVIOUS
<1>2. \A l : l \in Known(u) <=> \E i \in DOMAIN u : u[i].level = 0 /\ u[i].lit = l
  BY DEF Known
<1>3. \A l : l \in Known(t) <=> \E i \in DOMAIN t : t[i].level = 0 /\ t[i].lit = l
  BY DEF Known
<1>4. \A i \in DOMAIN u : i = n + 1 \/ i \in DOMAIN t
  BY <1>1
<1>5. n + 1 \in DOMAIN u /\ \A i \in DOMAIN t : i \in DOMAIN u
  BY <1>1
<1> HIDE DEF u, n
<1>6. \A l : l \in Known(u) <=> l \in Known(t) \/ (e.level = 0 /\ e.lit = l)
  BY <1>1, <1>2, <1>3, <1>4, <1>5
<1> QED BY <1>6 DEF u

(* A backjump keeps what is known.                                         *)
LEMMA KnownStays ==
    ASSUME TypeOK, TrailInv(trail, trail_lim, DB), NEW lev \in Nat
    PROVE  /\ Known(Below(lev)) = Known(trail)
           /\ Below(lev) \in Seq(EntryType)
           /\ DOMAIN Below(lev) \subseteq DOMAIN trail
           /\ \A i \in DOMAIN Below(lev) : Below(lev)[i] = trail[i]
           /\ \A i \in DOMAIN trail : trail[i].level <= lev => i \in DOMAIN Below(lev)
<1>1. CASE decisionLevel > lev
  <2> DEFINE u == SubSeq(trail, 1, trail_lim[lev + 1])
  <2>1. Below(lev) = u
    BY <1>1 DEF Below
  <2>2. trail \in Seq(EntryType) /\ trail_lim \in Seq(Nat) /\ lev < Len(trail_lim)
    BY <1>1, TrailFacts DEF TypeOK
  <2>3. /\ u \in Seq(EntryType)
        /\ \A i \in DOMAIN trail : i \in DOMAIN u <=> trail[i].level <= lev
        /\ \A i \in DOMAIN u : i \in DOMAIN trail /\ u[i] = trail[i]
    BY <2>2, TrailCut
  <2>4. \A i \in DOMAIN trail : trail[i].level = 0 => i \in DOMAIN u
    BY <2>3
  <2> HIDE DEF u
  <2>5. Known(u) = Known(trail)
    <3>1. \A l : l \in Known(u) <=> \E i \in DOMAIN u : u[i].level = 0 /\ u[i].lit = l
      BY DEF Known
    <3>2. \A l : l \in Known(trail) <=> \E i \in DOMAIN trail : trail[i].level = 0 /\ trail[i].lit = l
      BY DEF Known
    <3>3. \A l : l \in Known(u) <=> l \in Known(trail)
      BY <2>3, <2>4, <3>1, <3>2
    <3> QED BY <3>3
  <2> QED BY <2>1, <2>3, <2>5
<1>2. CASE ~ (decisionLevel > lev)
  BY <1>2 DEF Below, TypeOK
<1> QED BY <1>1, <1>2

(* Clauses learnt follow when there are fewer of them, and more to follow  *)
(* from.                                                                   *)
LEMMA LearntsStay ==
    ASSUME LearntsFollow, clauses \subseteq clauses', learnts' \subseteq learnts,
           Known(trail) \subseteq Known(trail')
    PROVE  LearntsFollow'
<1> SUFFICES ASSUME NEW m \in Valuations, Sat(m, clauses'), HoldsAll(m, Known(trail'))
             PROVE  Sat(m, learnts')
  BY DEF LearntsFollow
<1>1. Sat(m, clauses) /\ HoldsAll(m, Known(trail))
  BY DEF Sat, HoldsAll
<1>2. Sat(m, learnts)
  BY <1>1 DEF LearntsFollow
<1> QED BY <1>2 DEF Sat

(* Variables are created, and clauses are not, except about them.          *)
LEMMA CreatedStays ==
    ASSUME CreatedOK, UNCHANGED <<next_var, released_vars, free_vars>>,
           \A c \in clauses' \cup learnts' : c \in DB \/ VarsOf(c) \subseteq Created,
           \A i \in DOMAIN trail' : \/ \E j \in DOMAIN trail : trail'[i].lit = trail[j].lit
                                    \/ Var(trail'[i].lit) \in Created
    PROVE  CreatedOK'
BY DEF CreatedOK, Created, DB

(* What is meant hangs on the clauses that were not learnt.                *)
LEMMA MeantStays ==
    ASSUME UNCHANGED <<ok, clauses>>, Known(trail') = Known(trail)
    PROVE  Meant' = Meant
BY DEF Meant

-----------------------------------------------------------------------------
(* Steps.  Each keeps the invariant; most keep what is meant.              *)

(* There are no assumptions to speak of at level 0.                        *)
LEMMA NoneAssumed ==
    ASSUME SolverInv', trail_lim' = <<>>
    PROVE  AssumptionsOK'
<1>1. /\ trail' \in Seq(EntryType) /\ assumptions' \in Seq(Lits)
      /\ Ordered(trail', trail_lim')
  BY DEF SolverInv, TypeOK, TrailInv
<1>2. \A i \in DOMAIN trail' : trail'[i].level \in Nat /\ trail'[i].level <= 0
  BY <1>1, EntryFacts DEF Ordered
<1>3. \A k \in DOMAIN assumptions' : k \in Nat /\ ~ (k <= Len(trail_lim')) /\ ~ (k <= 0)
  BY <1>1
<1>4. \A i \in DOMAIN trail' : trail'[i].level \notin DOMAIN assumptions'
  BY <1>2, <1>3
<1> QED BY <1>3, <1>4 DEF AssumptionsOK

(* What the parts of the invariant are.                                    *)
LEMMA PartsAre ==
    OracleInv => /\ TypeOK /\ TrailInv(trail, trail_lim, DB) /\ PhaseOK /\ NamesOK
                 /\ Unused(DB, trail, free_vars)
                 /\ CreatedOK /\ AssumptionsOK /\ AskedOK /\ LearntsFollow
                 /\ trail \in Seq(EntryType) /\ trail_lim \in Seq(Nat)
                 /\ clauses \subseteq DB /\ learnts \subseteq DB
BY DEF OracleInv, OracleParts, SolverInv, TypeOK, DB

(* Steps that leave clauses, trail and names as they are.                  *)
LEMMA QuietKeeps ==
    ASSUME OracleInv,
           UNCHANGED <<clauses, learnts, trail, next_var, released_vars, free_vars>>
    PROVE  CreatedOK' /\ LearntsFollow'
<1>1. CreatedOK /\ LearntsFollow
  BY PartsAre
<1>2. CreatedOK'
  BY <1>1, CreatedStays DEF DB
<1>3. LearntsFollow'
  BY <1>1, LearntsStay
<1> QED BY <1>2, <1>3

(* Nothing happens.                                                        *)
LEMMA StutterKeeps == ASSUME OracleInv, UNCHANGED vars PROVE OracleParts' /\ Meant' = Meant
<1>1. /\ UNCHANGED <<ok, clauses, learnts, trail, trail_lim, next_var, released_vars, free_vars>>
      /\ UNCHANGED <<pc, assumptions, status, model, conflict>>
  BY DEF vars
<1>2. AssumptionsOK /\ AskedOK
  BY PartsAre
<1>3. AssumptionsOK' /\ AskedOK'
  BY <1>1, <1>2 DEF AssumptionsOK, AskedOK
<1>4. CreatedOK' /\ LearntsFollow'
  BY <1>1, QuietKeeps
<1> QED BY <1>1, <1>3, <1>4, MeantStays DEF OracleParts

(* A question is asked.                                                    *)
LEMMA solveKeeps == ASSUME OracleInv, solve, SolverInv' PROVE OracleParts' /\ Meant' = Meant
<1>1. /\ UNCHANGED <<ok, clauses, learnts, trail, trail_lim, next_var, released_vars, free_vars>>
      /\ pc = "idle" /\ model' = <<>> /\ conflict' = {} /\ status' = "l_Undef"
      /\ pc' = IF ok THEN "search" ELSE "refuse"
  BY DEF solve, database, names
<1>2. trail_lim' = <<>>
  BY <1>1, PartsAre DEF PhaseOK
<1>3. AssumptionsOK' /\ AskedOK'
  BY <1>1, <1>2, NoneAssumed DEF AskedOK
<1>4. CreatedOK' /\ LearntsFollow'
  BY <1>1, QuietKeeps
<1> QED BY <1>1, <1>3, <1>4, MeantStays DEF OracleParts

(* A call that says that the clauses are contradictory is right.           *)
LEMMA ReturnKeeps ==
    ASSUME OracleInv, Refuse \/ Contradiction \/ addClauseDone, SolverInv'
    PROVE  /\ OracleParts' /\ Meant' = Meant
           /\ Refuse \/ Contradiction => Meant = {}
<1>1. /\ UNCHANGED <<clauses, learnts, trail, trail_lim, next_var, released_vars, free_vars>>
      /\ UNCHANGED <<model, conflict>> /\ pc' = "idle"
  BY DEF Refuse, Contradiction, addClauseDone, database, names, answer
<1>2. AssumptionsOK' /\ AskedOK'
  BY <1>1 DEF AssumptionsOK, AskedOK
<1>3. CreatedOK' /\ LearntsFollow'
  BY <1>1, QuietKeeps
<1>4. ASSUME trail_lim = <<>>, Conflicting # {} PROVE Solutions(ok, DB, Known(trail)) = {}
  <2> SUFFICES ASSUME NEW m, Sat(m, DB), HoldsAll(m, Known(trail)) PROVE FALSE
    BY DEF Solutions
  <2>1. PICK c \in Conflicting : TRUE
    BY <1>4
  <2>2. c \in DB /\ c \subseteq Lits
    BY PartsAre, TrailFacts DEF Conflicting, DB
  <2>3. PICK l \in c : Holds(m, l)
    BY <2>2 DEF Sat, HoldsOne
  <2>4. PICK i \in DOMAIN trail : trail[i].lit = -l
    BY <2>1, <2>3, PartsAre, TrailFacts DEF Conflicting
  <2>5. level(l) > 0 /\ level(l) = trail[i].level
    BY <2>2, <2>3, <2>4, PartsAre, HoldsAbove
  <2>6. trail[i].level <= 0
    BY <1>4, PartsAre DEF TrailInv, Ordered
  <2>7. trail[i].level \in Nat
    BY PartsAre, EntryFacts
  <2> QED BY <2>5, <2>6, <2>7
<1>5. Solutions(ok, DB, Known(trail)) = Meant
  BY PartsAre, MeantIs
<1>6. CASE Refuse
  <2>1. ~ ok /\ ok' = ok
    BY <1>6, PartsAre DEF Refuse, AskedOK, database
  <2>2. Meant = {} /\ Meant' = {}
    BY <2>1 DEF Meant, Solutions
  <2> QED BY <1>2, <1>3, <2>2 DEF OracleParts
<1>7. CASE Contradiction
  <2>1. trail_lim = <<>> /\ Conflicting # {} /\ ~ ok'
    BY <1>7, PartsAre DEF Contradiction, decisionLevel
  <2>2. Meant = {}
    BY <1>4, <1>5, <2>1
  <2>3. Meant' = {}
    BY <2>1 DEF Meant, Solutions
  <2> QED BY <1>2, <1>3, <2>2, <2>3 DEF OracleParts
<1>8. CASE addClauseDone
  <2>1. trail_lim = <<>> /\ ok /\ (ok' <=> Conflicting = {})
    BY <1>8, PartsAre DEF addClauseDone, PhaseOK
  <2>2. CASE Conflicting = {}
    <3>1. ok' = ok
      BY <2>1, <2>2, <1>8, PartsAre DEF addClauseDone, TypeOK
    <3>2. Meant' = Meant
      BY <1>1, <3>1, MeantStays
    <3> QED BY <1>2, <1>3, <1>8, <3>2 DEF OracleParts, addClauseDone, Refuse, Contradiction
  <2>3. CASE Conflicting # {}
    <3>1. Meant = {}
      BY <1>4, <1>5, <2>1, <2>3
    <3>2. Meant' = {}
      BY <2>1, <2>3 DEF Meant, Solutions
    <3> QED BY <1>2, <1>3, <3>1, <3>2 DEF OracleParts
  <2> QED BY <2>2, <2>3
<1> QED BY <1>6, <1>7, <1>8

(* An assumption that is true opens a level.                               *)
LEMMA DummyKeeps == ASSUME OracleInv, Dummy, SolverInv' PROVE OracleParts' /\ Meant' = Meant
<1>1. /\ UNCHANGED <<ok, clauses, learnts, trail, next_var, released_vars, free_vars>>
      /\ UNCHANGED <<pc, assumptions, status, model, conflict>>
      /\ trail_lim' = Append(trail_lim, Len(trail))
      /\ IsTrue(Assumption) /\ ~ Assumed
  BY DEF Dummy, database, names, task, answer
<1>2. TypeOK /\ TrailInv(trail, trail_lim, DB) /\ AssumptionsOK /\ AskedOK
  BY PartsAre
<1> DEFINE d == Len(trail_lim)
<1>3. d \in Nat /\ Len(trail_lim') = d + 1 /\ decisionLevel = d /\ Assumption = assumptions[d + 1]
  BY <1>1, <1>2 DEF TypeOK, decisionLevel, Assumption
<1>4. PICK i \in DOMAIN trail : trail[i].lit = assumptions[d + 1]
  BY <1>1, <1>3 DEF IsTrue, TrueLits
<1>5. trail[i].level <= d /\ trail[i].level \in Nat
  BY <1>2, PartsAre, EntryFacts DEF TrailInv, Ordered
<1>6. AssumptionsOK'
  <2> SUFFICES ASSUME pc = "search"
               PROVE  /\ \A k \in DOMAIN assumptions : k <= d + 1 =>
                            \E j \in DOMAIN trail : trail[j].lit = assumptions[k] /\ trail[j].level <= k
                      /\ \A j \in DOMAIN trail :
                            trail[j].reason = None /\ trail[j].level \in DOMAIN assumptions =>
                               trail[j].lit = assumptions[trail[j].level]
    BY <1>1, <1>3 DEF AssumptionsOK
  <2>1. ASSUME NEW k \in DOMAIN assumptions, k <= d + 1
        PROVE  \E j \in DOMAIN trail : trail[j].lit = assumptions[k] /\ trail[j].level <= k
    <3>1. k \in Nat
      BY <1>2 DEF TypeOK
    <3>2. CASE k = d + 1
      <4>1. trail[i].level <= k
        BY <1>3, <1>5, <3>2
      <4> QED BY <1>4, <3>2, <4>1
    <3>3. CASE k <= d
      BY <1>2, <3>3 DEF AssumptionsOK
    <3> HIDE DEF d
    <3> QED BY <1>3, <2>1, <3>1, <3>2, <3>3
  <2> QED BY <1>2, <2>1 DEF AssumptionsOK
<1>7. AskedOK'
  BY <1>1, <1>2 DEF AskedOK
<1>8. CreatedOK' /\ LearntsFollow'
  BY <1>1, QuietKeeps
<1> QED BY <1>1, <1>6, <1>7, <1>8, MeantStays DEF OracleParts

(* The assumptions are where they were, when levels are undone or entries  *)
(* with reasons are added.                                                 *)
LEMMA AssumptionsStay ==
    ASSUME OracleInv, SolverInv', UNCHANGED assumptions, pc' = "search" => pc = "search",
           Len(trail_lim') <= Len(trail_lim),
           \A i \in DOMAIN trail : trail[i].level <= Len(trail_lim') =>
              \E j \in DOMAIN trail' : trail'[j].lit = trail[i].lit /\ trail'[j].level = trail[i].level,
           \A j \in DOMAIN trail' : trail'[j].reason = None /\ trail'[j].level > 0 =>
              \E i \in DOMAIN trail : /\ trail[i].reason = None
                                      /\ trail'[j].lit = trail[i].lit /\ trail'[j].level = trail[i].level
    PROVE  AssumptionsOK'
<1>1. /\ assumptions \in Seq(Lits) /\ AssumptionsOK
      /\ \A i \in DOMAIN trail : trail[i].level \in Nat
      /\ Len(trail_lim) \in Nat
  BY PartsAre, EntryFacts DEF TypeOK
<1>2. Len(trail_lim') \in Nat
  BY DEF SolverInv, TypeOK
<1>3. ASSUME pc' = "search", NEW k \in DOMAIN assumptions, k <= Len(trail_lim')
      PROVE  \E j \in DOMAIN trail' : trail'[j].lit = assumptions[k] /\ trail'[j].level <= k
  <2>1. k \in Nat /\ k <= Len(trail_lim)
    BY <1>1, <1>2, <1>3
  <2>2. PICK i \in DOMAIN trail : trail[i].lit = assumptions[k] /\ trail[i].level <= k
    BY <1>1, <1>3, <2>1 DEF AssumptionsOK
  <2>3. trail[i].level <= Len(trail_lim')
    BY <1>1, <1>2, <1>3, <2>1, <2>2
  <2>4. PICK j \in DOMAIN trail' : trail'[j].lit = trail[i].lit /\ trail'[j].level = trail[i].level
    BY <2>3
  <2> QED BY <2>2, <2>4
<1>4. ASSUME pc' = "search", NEW j \in DOMAIN trail', trail'[j].reason = None,
             trail'[j].level \in DOMAIN assumptions
      PROVE  trail'[j].lit = assumptions[trail'[j].level]
  <2>1. trail'[j].level > 0
    BY <1>1, <1>4
  <2> QED BY <1>1, <1>4, <2>1 DEF AssumptionsOK
<1> QED BY <1>3, <1>4 DEF AssumptionsOK

(* A literal that a clause makes true follows from what is known, when no  *)
(* decision was made.                                                      *)
LEMMA PropagateKeeps ==
    ASSUME OracleInv, Propagate, SolverInv' PROVE OracleParts' /\ Meant' = Meant
<1>1. PICK u \in Units : trail' = Append(trail, Entry(u[2], decisionLevel, u[1]))
  BY DEF Propagate
<1>2. /\ UNCHANGED <<ok, clauses, learnts, trail_lim, next_var, released_vars, free_vars>>
      /\ UNCHANGED <<pc, assumptions, status, model, conflict>>
  BY DEF Propagate, database, names, task, answer
<1>3. PICK c \in DB : \E l \in c : u = <<c, l>>
  BY DEF Units, DB
<1>4. PICK l \in c : u = <<c, l>>
  BY <1>3
<1>5. \A k \in c \ {l} : IsFalse(k)
  BY <1>4 DEF Units
<1> DEFINE e == Entry(l, decisionLevel, c)
<1>6. /\ c \subseteq Lits /\ l \in Lits /\ decisionLevel \in Nat /\ decisionLevel = Len(trail_lim)
      /\ TypeOK /\ TrailInv(trail, trail_lim, DB) /\ trail \in Seq(EntryType)
      /\ CreatedOK /\ AskedOK /\ LearntsFollow
  BY PartsAre, TrailFacts
<1>7. e \in EntryType /\ e.lit = l /\ e.level = decisionLevel /\ e.reason = c /\ c # None
  BY <1>6 DEF Entry, EntryType, None
<1>8. trail' = Append(trail, e)
  BY <1>1, <1>4
<1> HIDE DEF e
<1> DEFINE n == Len(trail)
<1>9. /\ n \in Nat /\ DOMAIN trail = 1 .. n /\ DOMAIN trail' = 1 .. n + 1
      /\ \A i \in 1 .. n : trail'[i] = trail[i]
      /\ trail'[n + 1] = e
  BY <1>6, <1>7, <1>8
<1>10. (\A i \in DOMAIN trail : i \in DOMAIN trail' /\ trail'[i] = trail[i])
       /\ \A i \in DOMAIN trail' : i \in DOMAIN trail \/ trail'[i] = e
  <2> HIDE DEF n
  <2> QED BY <1>9
<1>11. AssumptionsOK'
  <2>1. Len(trail_lim') <= Len(trail_lim)
    BY <1>2, <1>6
  <2>2. \A j \in DOMAIN trail' : trail'[j].reason = None => j \in DOMAIN trail
    BY <1>7, <1>10
  <2> QED BY <1>2, <1>10, <2>1, <2>2, AssumptionsStay
<1>12. AskedOK'
  BY <1>2, <1>6 DEF AskedOK
<1>13. CreatedOK'
  <2>1. Var(e.lit) \in Created
    BY <1>3, <1>4, <1>6, <1>7 DEF CreatedOK, VarsOf
  <2>2. \A i \in DOMAIN trail' : i \in DOMAIN trail \/ Var(trail'[i].lit) \in Created
    BY <1>10, <2>1
  <2>3. \A c_1 \in clauses' \cup learnts' : c_1 \in DB
    BY <1>2 DEF DB
  <2> QED BY <1>2, <1>6, <1>10, <2>2, <2>3, CreatedStays
<1>14. Known(trail') = Known(trail) \cup (IF e.level = 0 THEN {e.lit} ELSE {})
  BY <1>6, <1>7, <1>8, KnownGrows
<1>15. LearntsFollow'
  BY <1>2, <1>6, <1>14, LearntsStay
<1>16. Meant' = Meant
  <2>1. CASE decisionLevel # 0
    BY <1>2, <1>7, <1>14, <2>1, MeantStays
  <2>2. CASE decisionLevel = 0
    <3>1. ASSUME NEW m \in Valuations, Sat(m, DB), HoldsAll(m, Known(trail)) PROVE Holds(m, l)
      <4>1. PICK k \in c : Holds(m, k)
        BY <3>1 DEF Sat, HoldsOne
      <4>2. CASE k = l
        BY <4>1, <4>2
      <4>3. CASE k # l
        <5>1. PICK i \in DOMAIN trail : trail[i].lit = -k
          BY <1>5, <1>6, <4>3, TrailFacts
        <5>2. level(k) > 0 /\ level(k) = trail[i].level
          BY <1>6, <3>1, <4>1, <5>1, HoldsAbove
        <5>3. trail[i].level <= 0 /\ trail[i].level \in Nat
          BY <1>6, <2>2, EntryFacts DEF TrailInv, Ordered
        <5> QED BY <5>2, <5>3
      <4> QED BY <4>2, <4>3
    <3>2. ASSUME NEW m \in Valuations, Sat(m, clauses), HoldsAll(m, Known(trail))
          PROVE  HoldsAll(m, Known(trail'))
      <4>1. Sat(m, DB)
        BY <1>6, <3>2 DEF LearntsFollow, Sat, DB
      <4>2. Holds(m, l)
        BY <3>1, <3>2, <4>1
      <4> QED BY <1>7, <1>14, <3>2, <4>2 DEF HoldsAll
    <3>3. ASSUME NEW m, HoldsAll(m, Known(trail')) PROVE HoldsAll(m, Known(trail))
      BY <1>14, <3>3 DEF HoldsAll
    <3> QED BY <1>2, <3>2, <3>3 DEF Meant, Solutions
  <2> QED BY <2>1, <2>2
<1> QED BY <1>11, <1>12, <1>13, <1>15, <1>16 DEF OracleParts

(* A decision: that of one of the first levels is an assumption.           *)
LEMMA DecideKeeps == ASSUME OracleInv, Decide, SolverInv' PROVE OracleParts' /\ Meant' = Meant
<1>1. PICK l \in IF Assumed THEN Undecided \cup {-v : v \in Undecided} ELSE {Assumption} :
              IsUndef(l) /\ trail' = Append(trail, Entry(l, decisionLevel + 1, None))
  BY DEF Decide
<1>2. /\ UNCHANGED <<ok, clauses, learnts, next_var, released_vars, free_vars>>
      /\ UNCHANGED <<pc, assumptions, status, model, conflict>>
      /\ trail_lim' = Append(trail_lim, Len(trail)) /\ pc = "search"
  BY DEF Decide, database, names, task, answer, Ready
<1>3. /\ TypeOK /\ TrailInv(trail, trail_lim, DB) /\ PhaseOK /\ trail \in Seq(EntryType)
      /\ CreatedOK /\ AssumptionsOK /\ AskedOK /\ LearntsFollow
  BY PartsAre
<1> DEFINE d == Len(trail_lim)
           e == Entry(l, d + 1, None)
<1>4. /\ d \in Nat /\ decisionLevel = d /\ Len(trail_lim') = d + 1
      /\ assumptions \in Seq(Lits) /\ Len(assumptions) \in Nat
  BY <1>2, <1>3, TrailFacts DEF TypeOK
<1>5. ~ Assumed => d + 1 \in DOMAIN assumptions /\ l = assumptions[d + 1]
  <2>1. ~ Assumed => ~ (d >= Len(assumptions)) /\ l = assumptions[d + 1]
    BY <1>1, <1>4 DEF Assumed, Assumption
  <2> HIDE DEF d
  <2> QED BY <1>4, <2>1
<1>6. Assumed => d >= Len(assumptions)
  BY <1>4 DEF Assumed
<1>7. l \in Lits /\ Var(l) \in Created
  <2>1. CASE Assumed
    <3>1. PICK v \in Undecided : l = v \/ l = -v
      BY <1>1, <2>1
    <3>2. v \in Created
      BY DEF Undecided, Created
    <3>3. v \in Vars
      BY <1>3, <3>2, SolverAssumption DEF Created, TypeOK, Vars
    <3>4. v \in Lits /\ Var(v) = v /\ Var(-v) = v /\ -v \in Lits
      BY <3>3, LitFacts DEF Var
    <3> QED BY <3>1, <3>2, <3>4
  <2>2. CASE ~ Assumed
    <3>1. d + 1 \in DOMAIN assumptions /\ l = assumptions[d + 1]
      BY <1>5, <2>2
    <3>2. Var(l) \in Live
      BY <1>2, <1>3, <3>1 DEF PhaseOK
    <3>3. l \in Lits
      BY <1>4, <3>1
    <3> QED BY <3>2, <3>3, LiveCreated
  <2> QED BY <2>1, <2>2
<1>8. e \in EntryType /\ e.lit = l /\ e.level = d + 1 /\ e.reason = None
  BY <1>4, <1>7 DEF Entry, EntryType, None
<1>9. trail' = Append(trail, e)
  BY <1>1, <1>4
<1> HIDE DEF e
<1> DEFINE n == Len(trail)
<1>10. /\ n \in Nat /\ DOMAIN trail = 1 .. n /\ DOMAIN trail' = 1 .. n + 1
       /\ \A i \in 1 .. n : trail'[i] = trail[i]
       /\ trail'[n + 1] = e
  BY <1>3, <1>8, <1>9
<1>11. /\ \A i \in DOMAIN trail : i \in DOMAIN trail' /\ trail'[i] = trail[i]
       /\ \A i \in DOMAIN trail' : i \in DOMAIN trail \/ trail'[i] = e
       /\ \E i \in DOMAIN trail' : trail'[i] = e
  <2> HIDE DEF n
  <2>1. n + 1 \in DOMAIN trail'
    BY <1>10
  <2> QED BY <1>10, <2>1
<1>12. AssumptionsOK'
  <2>1. ASSUME NEW k \in DOMAIN assumptions, k <= d + 1
        PROVE  \E j \in DOMAIN trail' : trail'[j].lit = assumptions[k] /\ trail'[j].level <= k
    <3>1. k \in Nat /\ k <= Len(assumptions)
      BY <1>4
    <3>2. CASE k <= d
      BY <1>2, <1>3, <1>11, <3>2 DEF AssumptionsOK
    <3>3. CASE k = d + 1
      <4>1. ~ Assumed
        BY <1>4, <1>6, <3>1, <3>3
      <4>2. e.lit = assumptions[k] /\ e.level <= k
        BY <1>4, <1>5, <1>8, <3>3, <4>1
      <4> QED BY <1>11, <4>2
    <3> HIDE DEF d
    <3> QED BY <1>4, <2>1, <3>1, <3>2, <3>3
  <2>2. ASSUME NEW j \in DOMAIN trail', trail'[j].reason = None, trail'[j].level \in DOMAIN assumptions
        PROVE  trail'[j].lit = assumptions[trail'[j].level]
    <3>1. CASE j \in DOMAIN trail
      BY <1>2, <1>3, <1>11, <2>2, <3>1 DEF AssumptionsOK
    <3>2. CASE trail'[j] = e
      <4>1. d + 1 \in DOMAIN assumptions
        BY <1>8, <2>2, <3>2
      <4>2. ~ Assumed
        BY <1>4, <1>6, <4>1
      <4> QED BY <1>5, <1>8, <3>2, <4>2
    <3> QED BY <1>11, <3>1, <3>2
  <2> QED BY <1>2, <1>4, <2>1, <2>2 DEF AssumptionsOK
<1>13. AskedOK'
  BY <1>2, <1>3 DEF AskedOK
<1>14. CreatedOK'
  <2>1. \A i \in DOMAIN trail' : i \in DOMAIN trail \/ Var(trail'[i].lit) \in Created
    BY <1>7, <1>8, <1>11
  <2>2. \A c \in clauses' \cup learnts' : c \in DB
    BY <1>2 DEF DB
  <2> QED BY <1>2, <1>3, <1>11, <2>1, <2>2, CreatedStays
<1>15. Known(trail') = Known(trail)
  <2>1. Known(trail') = Known(trail) \cup (IF e.level = 0 THEN {e.lit} ELSE {})
    BY <1>3, <1>8, <1>9, KnownGrows
  <2>2. e.level # 0
    BY <1>4, <1>8
  <2> QED BY <2>1, <2>2
<1>16. LearntsFollow'
  BY <1>2, <1>3, <1>15, LearntsStay
<1> QED BY <1>2, <1>12, <1>13, <1>14, <1>15, <1>16, MeantStays DEF OracleParts

(* All levels are undone: what is known stays.                             *)
LEMMA CancelKeeps ==
    ASSUME OracleInv, SolverInv', trail' = Below(0), trail_lim' = <<>>,
           UNCHANGED <<ok, clauses, next_var, released_vars, free_vars>>, learnts' \subseteq learnts
    PROVE  CreatedOK' /\ AssumptionsOK' /\ LearntsFollow' /\ Meant' = Meant
<1>1. 0 \in Nat
  OBVIOUS
<1>2. /\ Known(trail') = Known(trail)
      /\ \A i \in DOMAIN trail' : i \in DOMAIN trail /\ trail'[i] = trail[i]
  BY <1>1, PartsAre, KnownStays
<1>3. CreatedOK'
  <2>1. \A c \in clauses' \cup learnts' : c \in DB
    BY DEF DB
  <2> QED BY <1>2, <2>1, PartsAre, CreatedStays
<1>4. LearntsFollow'
  BY <1>2, PartsAre, LearntsStay
<1> QED BY <1>2, <1>3, <1>4, NoneAssumed, MeantStays

(* A restart.                                                              *)
LEMMA RestartKeeps ==
    ASSUME OracleInv, Restart, SolverInv' PROVE OracleParts' /\ Meant' = Meant
<1>1. /\ trail' = Below(0) /\ trail_lim' = <<>>
      /\ UNCHANGED <<ok, clauses, learnts, next_var, released_vars, free_vars>>
      /\ UNCHANGED <<pc, status, model, conflict>>
  BY DEF Restart, database, names, answer
<1>2. AskedOK'
  BY <1>1, PartsAre DEF AskedOK
<1> QED BY <1>1, <1>2, CancelKeeps DEF OracleParts

(* An answer.                                                              *)
LEMMA AnswerKeeps ==
    ASSUME OracleInv, AssumptionFails \/ ModelFound, SolverInv' PROVE OracleParts' /\ Meant' = Meant
<1>1. /\ trail' = Below(0) /\ trail_lim' = <<>> /\ pc' = "idle"
      /\ UNCHANGED <<ok, clauses, learnts, next_var, released_vars, free_vars>>
  BY DEF AssumptionFails, ModelFound, database, names
<1>2. AskedOK'
  BY <1>1 DEF AskedOK
<1> QED BY <1>1, <1>2, CancelKeeps DEF OracleParts

(* Clauses learnt are forgotten.                                           *)
LEMMA reduceDBKeeps ==
    ASSUME OracleInv, reduceDB, SolverInv' PROVE OracleParts' /\ Meant' = Meant
<1>1. /\ learnts' \subseteq learnts
      /\ UNCHANGED <<ok, clauses, trail, trail_lim, next_var, released_vars, free_vars>>
      /\ UNCHANGED <<pc, assumptions, status, model, conflict>>
  BY DEF reduceDB, names, task, answer
<1>2. AskedOK' /\ AssumptionsOK'
  BY <1>1, PartsAre DEF AskedOK, AssumptionsOK
<1>3. CreatedOK'
  <2>1. \A c \in clauses' \cup learnts' : c \in DB
    BY <1>1 DEF DB
  <2> QED BY <1>1, <2>1, PartsAre, CreatedStays
<1>4. LearntsFollow'
  BY <1>1, PartsAre, LearntsStay
<1> QED BY <1>1, <1>2, <1>3, <1>4, MeantStays DEF OracleParts

(* What is learnt follows, so that what is meant stays.                    *)
LEMMA LearnKeeps ==
    ASSUME OracleInv, Learn, SolverInv' PROVE OracleParts' /\ Meant' = Meant
<1>1. PICK confl \in Conflicting :
         LET c   == Minimised(UIP(confl))
             lev == BacktrackLevel(c)
             l   == CHOOSE k \in Latest(c) : TRUE
             unit == Cardinality(c) = 1
         IN  /\ trail' = Append(Below(lev), Entry(l, lev, IF unit THEN None ELSE c))
             /\ trail_lim' = SubSeq(trail_lim, 1, lev)
             /\ learnts' = IF unit THEN learnts ELSE learnts \cup {c}
  BY DEF Learn
<1>2. /\ pc = "search" /\ decisionLevel > 0
      /\ UNCHANGED <<ok, clauses, next_var, released_vars, free_vars>>
      /\ UNCHANGED <<pc, assumptions, status, model, conflict>>
  BY DEF Learn, names, answer
<1>3. /\ TypeOK /\ TrailInv(trail, trail_lim, DB) /\ trail \in Seq(EntryType) /\ trail_lim \in Seq(Nat)
      /\ CreatedOK /\ AskedOK /\ LearntsFollow
  BY PartsAre
<1> DEFINE c   == Minimised(UIP(confl))
           lev == BacktrackLevel(c)
           l   == CHOOSE k \in Latest(c) : TRUE
           unit == Cardinality(c) = 1
           r   == IF unit THEN None ELSE c
           e   == Entry(l, lev, r)
           u   == Below(lev)
<1>4. /\ trail' = Append(u, e) /\ trail_lim' = SubSeq(trail_lim, 1, lev)
      /\ learnts' = IF unit THEN learnts ELSE learnts \cup {c}
  BY <1>1
<1>5. /\ c \subseteq Refuted
      /\ l \in c /\ level(l) = decisionLevel
      /\ lev \in Nat /\ lev < decisionLevel
      /\ \A k \in c : k = l \/ level(k) <= lev
      /\ unit => lev = 0
  BY <1>2, <1>3, LearntIs
<1>6. ASSUME NEW m, Sat(m, DB), HoldsAll(m, Known(trail)) PROVE HoldsOne(m, c)
  BY <1>2, <1>3, <1>6, LearntHolds
<1> HIDE DEF c, lev, l, unit
<1>7. c \subseteq UNION DB /\ c \subseteq Lits /\ l \in Lits /\ VarsOf(c) \subseteq Created
  <2>1. c \subseteq UNION DB /\ c \subseteq Lits
    BY <1>3, <1>5, TrailFacts DEF Refuted
  <2> QED BY <1>3, <1>5, <2>1 DEF CreatedOK, VarsOf
<1>8. /\ Known(u) = Known(trail) /\ u \in Seq(EntryType)
      /\ \A i \in DOMAIN u : i \in DOMAIN trail /\ u[i] = trail[i]
      /\ \A i \in DOMAIN trail : trail[i].level <= lev => i \in DOMAIN u
  BY <1>3, <1>5, KnownStays
<1>9. e \in EntryType /\ e.lit = l /\ e.level = lev /\ e.reason = r
  BY <1>5, <1>7 DEF Entry, EntryType, None
<1>10. r = None => lev = 0
  <2>1. None # c
    BY <1>5 DEF None
  <2> QED BY <1>5, <2>1
<1> HIDE DEF u, e, r
<1>11. /\ \A i \in DOMAIN u : i \in DOMAIN trail' /\ trail'[i] = u[i]
       /\ \A i \in DOMAIN trail' : i \in DOMAIN u \/ trail'[i] = e
  BY <1>4, <1>8, <1>9
<1>12. AssumptionsOK'
  <2>1. Len(trail_lim') = lev /\ lev <= Len(trail_lim)
    BY <1>3, <1>4, <1>5, TrailFacts
  <2>2. ASSUME NEW j \in DOMAIN trail', trail'[j].reason = None, trail'[j].level > 0
        PROVE  j \in DOMAIN trail /\ trail'[j] = trail[j]
    <3>1. trail'[j] # e
      BY <1>9, <1>10, <2>2
    <3> QED BY <1>8, <1>11, <3>1
  <2>3. \A i \in DOMAIN trail : trail[i].level <= lev => i \in DOMAIN trail' /\ trail'[i] = trail[i]
    BY <1>8, <1>11
  <2> QED BY <1>2, <2>1, <2>2, <2>3, AssumptionsStay
<1>13. AskedOK'
  BY <1>2, <1>3 DEF AskedOK
<1>14. CreatedOK'
  <2>1. Var(e.lit) \in Created
    BY <1>5, <1>7, <1>9 DEF VarsOf
  <2>2. \A i \in DOMAIN trail' : (\E j \in DOMAIN trail : trail'[i].lit = trail[j].lit) \/ Var(trail'[i].lit) \in Created
    BY <1>8, <1>11, <2>1
  <2>3. \A d \in clauses' \cup learnts' : d \in DB \/ VarsOf(d) \subseteq Created
    BY <1>2, <1>4, <1>7 DEF DB
  <2> QED BY <1>2, <1>3, <2>2, <2>3, CreatedStays
<1>15. Known(trail') = Known(trail) \cup (IF lev = 0 THEN {l} ELSE {})
  BY <1>4, <1>8, <1>9, KnownGrows
<1>16. ASSUME NEW m \in Valuations, Sat(m, clauses), HoldsAll(m, Known(trail))
       PROVE  Sat(m, learnts') /\ HoldsAll(m, Known(trail'))
  <2>1. Sat(m, DB) /\ Sat(m, learnts)
    BY <1>3, <1>16 DEF LearntsFollow, Sat, DB
  <2>2. HoldsOne(m, c)
    BY <1>6, <1>16, <2>1
  <2>3. Sat(m, learnts')
    BY <1>4, <2>1, <2>2 DEF Sat
  <2>4. ASSUME lev = 0 PROVE Holds(m, l)
    <3>1. PICK k \in c : Holds(m, k)
      BY <2>2 DEF HoldsOne
    <3>2. level(k) > 0 /\ level(k) \in Nat
      <4>1. k \in Refuted /\ k \in Lits
        BY <1>5, <1>7
      <4>2. PICK i \in DOMAIN trail : trail[i].lit = -k
        BY <4>1 DEF Refuted
      <4>3. level(k) = trail[i].level /\ trail[i].level \in Nat
        BY <1>3, <4>1, <4>2, TrailFacts, EntryFacts
      <4> QED BY <4>1, <4>3 DEF Refuted
    <3>3. k = l
      BY <1>5, <2>4, <3>2
    <3> QED BY <3>1, <3>3
  <2>5. HoldsAll(m, Known(trail'))
    BY <1>15, <1>16, <2>4 DEF HoldsAll
  <2> QED BY <2>3, <2>5
<1>17. \A m : HoldsAll(m, Known(trail')) => HoldsAll(m, Known(trail))
  BY <1>15 DEF HoldsAll
<1>18. LearntsFollow'
  BY <1>2, <1>16, <1>17 DEF LearntsFollow
<1>19. Meant' = Meant
  BY <1>2, <1>16, <1>17 DEF Meant, Solutions
<1> QED BY <1>12, <1>13, <1>14, <1>18, <1>19 DEF OracleParts

(* At level 0 all that is true is known.                                   *)
LEMMA KnownIs ==
    ASSUME TypeOK, TrailInv(trail, trail_lim, DB), trail_lim = <<>>
    PROVE  Known(trail) = TrueLits /\ \A i \in DOMAIN trail : trail[i].level = 0
<1>1. \A i \in DOMAIN trail : trail[i].level = 0
  <2>1. \A i \in DOMAIN trail : trail[i].level \in Nat /\ trail[i].level <= 0
    BY EntryFacts DEF TypeOK, TrailInv, Ordered
  <2> QED BY <2>1
<1> QED BY <1>1 DEF Known, TrueLits

(* A literal and its negation are not both true.                           *)
LEMMA NotBoth ==
    ASSUME TypeOK, TrailInv(trail, trail_lim, DB), NEW l \in Lits, IsTrue(l)
    PROVE  ~ IsTrue(-l)
<1> SUFFICES ASSUME IsTrue(-l) PROVE FALSE
  OBVIOUS
<1>1. PICK i \in DOMAIN trail : trail[i].lit = l
  BY DEF IsTrue, TrueLits
<1>2. PICK j \in DOMAIN trail : trail[j].lit = -l
  BY DEF IsTrue, TrueLits
<1>3. i # j /\ Var(trail[i].lit) = Var(trail[j].lit)
  BY <1>1, <1>2, LitFacts
<1> QED BY <1>3 DEF TrailInv, Distinct

(* addClause_ leaves the models in which the clause holds.                 *)
LEMMA InsertMeans ==
    ASSUME OracleInv, pc = "idle", NEW c \in SUBSET Lits, VarsOf(c) \subseteq Live,
           Insert(c), learnts' = learnts
    PROVE  /\ Meant' = {m \in Meant : HoldsOne(m, c)}
           /\ LearntsFollow'
           /\ pc' \in {"idle", "add"}
           /\ \A d \in clauses' \cup learnts' : d \in DB \/ VarsOf(d) \subseteq Created
           /\ \A i \in DOMAIN trail' : \/ \E j \in DOMAIN trail : trail'[i].lit = trail[j].lit
                                       \/ Var(trail'[i].lit) \in Created
<1> DEFINE rest == {l \in c : ~ IsFalse(l)}
<1>1. /\ TypeOK /\ TrailInv(trail, trail_lim, DB) /\ LearntsFollow
      /\ trail_lim = <<>> /\ trail \in Seq(EntryType)
  BY PartsAre DEF PhaseOK
<1>2. Known(trail) = TrueLits
  BY <1>1, KnownIs
<1>3. ASSUME NEW m, HoldsAll(m, Known(trail)), NEW l \in c, IsFalse(l) PROVE ~ Holds(m, l)
  <2>1. -l \in Known(trail)
    BY <1>2, <1>3 DEF IsFalse
  <2>2. l \in Lits
    OBVIOUS
  <2> QED BY <1>3, <2>1, <2>2, HoldsNot DEF HoldsAll
<1>4. ASSUME NEW m, HoldsAll(m, Known(trail)) PROVE HoldsOne(m, c) <=> HoldsOne(m, rest)
  <2>1. \A l \in c : Holds(m, l) => l \in rest
    BY <1>3, <1>4
  <2> QED BY <2>1 DEF HoldsOne
<1>5. \A m \in Meant : HoldsAll(m, Known(trail))
  BY DEF Meant, Solutions
<1>6. VarsOf(c) \subseteq Created /\ VarsOf(rest) \subseteq Created
  BY LiveCreated DEF VarsOf
<1> HIDE DEF rest
<1>7. CASE ~ ok \/ Satisfied(c) \/ \E l \in c : -l \in c
  <2>1. UNCHANGED <<ok, clauses, trail, pc>>
    BY <1>7 DEF Insert
  <2>2. LearntsFollow'
    BY <1>1, <2>1, LearntsStay
  <2>3. Meant' = Meant
    BY <2>1 DEF Meant
  <2>4. ASSUME NEW m \in Meant PROVE HoldsOne(m, c)
    <3>1. ok
      BY DEF Meant, Solutions
    <3>2. CASE Satisfied(c)
      BY <1>2, <1>5, <3>2 DEF Satisfied, IsTrue, HoldsAll, HoldsOne
    <3>3. CASE \E l \in c : -l \in c
      BY <3>3, HoldsNot DEF HoldsOne
    <3> QED BY <1>7, <3>1, <3>2, <3>3
  <2> QED BY <2>1, <2>2, <2>3, <2>4 DEF DB
<1>8. CASE ok /\ ~ Satisfied(c) /\ (\A l \in c : -l \notin c) /\ rest = {}
  <2>1. ok' = FALSE /\ UNCHANGED <<clauses, trail, pc>>
    BY <1>8 DEF Insert, rest
  <2>2. LearntsFollow'
    BY <1>1, <2>1, LearntsStay
  <2>3. Meant' = {}
    BY <2>1 DEF Meant, Solutions
  <2>4. \A m \in Meant : ~ HoldsOne(m, c)
    BY <1>4, <1>5, <1>8 DEF HoldsOne
  <2> QED BY <2>1, <2>2, <2>3, <2>4 DEF DB
<1>9. CASE /\ ok /\ ~ Satisfied(c) /\ (\A l \in c : -l \notin c)
           /\ rest # {} /\ Cardinality(rest) = 1
  <2> DEFINE x == CHOOSE l \in rest : TRUE
             e == Entry(x, 0, None)
  <2>1. /\ trail' = Append(trail, e) /\ pc' = "add"
        /\ UNCHANGED <<ok, clauses>>
    BY <1>9 DEF Insert, rest
  <2>2. x \in rest /\ x \in c /\ x \in Lits /\ Var(x) \in Created
    BY <1>6, <1>9 DEF rest, VarsOf
  <2>3. rest = {x}
    <3>1. IsFiniteSet(rest)
      BY LitsFinite DEF rest
    <3>2. \E y : rest = {y}
      BY <1>9, <3>1, FS_Singleton
    <3> HIDE DEF x
    <3> QED BY <2>2, <3>2
  <2>4. e \in EntryType /\ e.lit = x /\ e.level = 0
    BY <2>2 DEF Entry, EntryType, None
  <2> HIDE DEF e, x
  <2>5. Known(trail') = Known(trail) \cup {x}
    BY <1>1, <2>1, <2>4, KnownGrows
  <2>6. LearntsFollow'
    BY <1>1, <2>1, <2>5, LearntsStay
  <2>7. \A i \in DOMAIN trail' : (i \in DOMAIN trail /\ trail'[i] = trail[i]) \/ trail'[i] = e
    BY <1>1, <2>1, <2>4
  <2>8. \A m \in Meant : HoldsOne(m, c) <=> Holds(m, x)
    BY <1>4, <1>5, <2>3 DEF HoldsOne
  <2>9. \A m : m \in Meant' <=> m \in Meant /\ Holds(m, x)
    BY <2>1, <2>5 DEF Meant, Solutions, HoldsAll
  <2>10. Meant' = {m \in Meant : HoldsOne(m, c)}
    BY <2>8, <2>9
  <2> QED BY <2>1, <2>2, <2>4, <2>6, <2>7, <2>10 DEF DB
<1>10. CASE /\ ok /\ ~ Satisfied(c) /\ (\A l \in c : -l \notin c)
            /\ rest # {} /\ Cardinality(rest) # 1
  <2>1. clauses' = clauses \cup {rest} /\ UNCHANGED <<ok, trail, pc>>
    BY <1>10 DEF Insert, rest
  <2>2. LearntsFollow'
    BY <1>1, <2>1, LearntsStay
  <2>3. \A m : m \in Meant' <=> m \in Meant /\ HoldsOne(m, rest)
    BY <2>1 DEF Meant, Solutions, Sat
  <2>4. Meant' = {m \in Meant : HoldsOne(m, c)}
    BY <1>4, <1>5, <2>3
  <2> QED BY <1>6, <2>1, <2>2, <2>4 DEF DB
<1> QED BY <1>7, <1>8, <1>9, <1>10

(* A clause is added: the models that satisfy it stay.                     *)
LEMMA addClauseKeeps ==
    ASSUME OracleInv, addClause, SolverInv'
    PROVE  /\ OracleParts' /\ Live' = Live
           /\ \E c \in SUBSET Lits : VarsOf(c) \subseteq Live /\ Meant' = {m \in Meant : HoldsOne(m, c)}
<1>1. PICK c \in user.added : VarsOf(c) \subseteq Live /\ Insert(c)
  BY DEF addClause
<1>2. /\ pc = "idle" /\ UNCHANGED <<learnts, trail_lim, next_var, released_vars, free_vars>>
      /\ UNCHANGED <<assumptions, model, conflict>>
  BY DEF addClause, names, task, answer
<1>3. c \in SUBSET Lits
  BY PartsAre, SolverAssumption DEF TypeOK
<1>4. /\ Meant' = {m \in Meant : HoldsOne(m, c)}
      /\ LearntsFollow'
      /\ pc' \in {"idle", "add"}
      /\ \A d \in clauses' \cup learnts' : d \in DB \/ VarsOf(d) \subseteq Created
      /\ \A i \in DOMAIN trail' : \/ \E j \in DOMAIN trail : trail'[i].lit = trail[j].lit
                                  \/ Var(trail'[i].lit) \in Created
  BY <1>1, <1>2, <1>3, InsertMeans
<1>5. CreatedOK'
  BY <1>2, <1>4, PartsAre, CreatedStays
<1>6. AssumptionsOK' /\ AskedOK'
  BY <1>4 DEF AssumptionsOK, AskedOK
<1>7. Live' = Live
  BY <1>2 DEF Live
<1> QED BY <1>1, <1>3, <1>4, <1>5, <1>6, <1>7 DEF OracleParts

(* A variable is released: the models in which the literal holds stay, and *)
(* nobody looks at it in them any more.                                    *)
LEMMA releaseVarKeeps ==
    ASSUME OracleInv, releaseVar, SolverInv'
    PROVE  /\ OracleParts'
           /\ \E l \in Lits : /\ Var(l) \in Live /\ Live' = Live \ {Var(l)}
                              /\ Meant' = {m \in Meant : Holds(m, l)}
<1>1. PICK l \in user.releasable :
         /\ Var(l) \in Live /\ Insert({l})
         /\ released_vars' = Append(released_vars, Var(l))
  BY DEF releaseVar
<1>2. /\ pc = "idle" /\ UNCHANGED <<learnts, trail_lim, next_var, free_vars>>
      /\ UNCHANGED <<assumptions, model, conflict>>
  BY DEF releaseVar, task, answer
<1>3. l \in Lits /\ {l} \in SUBSET Lits /\ VarsOf({l}) \subseteq Live
  <2>1. l \in Lits
    BY PartsAre, SolverAssumption DEF TypeOK
  <2> QED BY <1>1, <2>1 DEF VarsOf
<1>4. /\ Meant' = {m \in Meant : HoldsOne(m, {l})}
      /\ LearntsFollow'
      /\ pc' \in {"idle", "add"}
      /\ \A d \in clauses' \cup learnts' : d \in DB \/ VarsOf(d) \subseteq Created
      /\ \A i \in DOMAIN trail' : \/ \E j \in DOMAIN trail : trail'[i].lit = trail[j].lit
                                  \/ Var(trail'[i].lit) \in Created
  BY <1>1, <1>2, <1>3, InsertMeans
<1> DEFINE n == Len(released_vars)
<1>5. /\ n \in Nat /\ DOMAIN released_vars = 1 .. n /\ DOMAIN released_vars' = 1 .. n + 1
      /\ \A i \in 1 .. n : released_vars'[i] = released_vars[i]
      /\ released_vars'[n + 1] = Var(l)
  <2>1. Var(l) \in Vars /\ released_vars \in Seq(Vars)
    BY <1>3, LitFacts, PartsAre DEF TypeOK
  <2> QED BY <1>1, <2>1
<1>6. /\ \A i \in DOMAIN released_vars : i \in DOMAIN released_vars' /\ released_vars'[i] = released_vars[i]
      /\ \A i \in DOMAIN released_vars' : i \in DOMAIN released_vars \/ released_vars'[i] = Var(l)
      /\ \E i \in DOMAIN released_vars' : released_vars'[i] = Var(l)
  <2> HIDE DEF n
  <2>1. n + 1 \in DOMAIN released_vars'
    BY <1>5
  <2> QED BY <1>5, <2>1
<1>7. CreatedOK'
  <2>1. CreatedOK /\ Var(l) \in Created /\ Created' = Created
    BY <1>1, <1>2, PartsAre, LiveCreated DEF Created
  <2>2. \A d \in clauses' \cup learnts' : VarsOf(d) \subseteq Created
    BY <1>4, <2>1 DEF CreatedOK
  <2>3. \A i \in DOMAIN trail' : Var(trail'[i].lit) \in Created
    BY <1>4, <2>1 DEF CreatedOK
  <2>4. \A i \in DOMAIN released_vars' : released_vars'[i] \in Created
    BY <1>6, <2>1 DEF CreatedOK
  <2> QED BY <1>2, <2>1, <2>2, <2>3, <2>4 DEF CreatedOK, DB
<1>8. AssumptionsOK' /\ AskedOK'
  BY <1>4 DEF AssumptionsOK, AskedOK
<1>9. Live' = Live \ {Var(l)}
  <2>1. \A v : v \in {released_vars'[i] : i \in DOMAIN released_vars'}
               <=> v \in {released_vars[i] : i \in DOMAIN released_vars} \/ v = Var(l)
    BY <1>6
  <2>2. \A v : v \in Live' <=> v \in Live \ {Var(l)}
    BY <1>2, <2>1 DEF Live
  <2> QED BY <2>2
<1>10. Meant' = {m \in Meant : Holds(m, l)}
  BY <1>4 DEF HoldsOne
<1> QED BY <1>1, <1>3, <1>4, <1>7, <1>8, <1>9, <1>10 DEF OracleParts

(* A variable is created: nothing is known of it.                          *)
LEMMA newVarKeeps ==
    ASSUME OracleInv, newVar, SolverInv'
    PROVE  /\ OracleParts' /\ Meant' = Meant
           /\ \E v \in Vars \ Live : /\ Live' = Live \cup {v}
                                     /\ \A c \in clauses : v \notin VarsOf(c)
                                     /\ \A i \in DOMAIN trail : Var(trail[i].lit) # v
<1>1. /\ UNCHANGED <<user, ok, clauses, learnts, trail, trail_lim, released_vars>>
      /\ UNCHANGED <<pc, assumptions, status, model, conflict>> /\ pc = "idle"
  BY DEF newVar, database, task, answer
<1>2. TypeOK /\ CreatedOK /\ LearntsFollow /\ Unused(DB, trail, free_vars) /\ NamesOK
  BY PartsAre
<1>3. next_var \in Nat \ {0} /\ next_var <= MaxVar + 1 /\ MaxVar \in Nat /\ user.nVars \in Nat /\ user.nVars <= MaxVar
  BY <1>2, SolverAssumption DEF TypeOK
<1>4. LearntsFollow' /\ Meant' = Meant
  BY <1>1, <1>2, LearntsStay, MeantStays
<1>5. AssumptionsOK' /\ AskedOK'
  BY <1>1 DEF AssumptionsOK, AskedOK
<1>6. CASE free_vars # <<>>
  <2> DEFINE n == Len(free_vars)
             v == free_vars[n]
  <2>1. /\ n \in Nat \ {0} /\ DOMAIN free_vars = 1 .. n
        /\ free_vars \in Seq(Vars) /\ next_var' = next_var
        /\ free_vars' = SubSeq(free_vars, 1, n - 1)
    BY <1>2, <1>6 DEF newVar, TypeOK
  <2>2. /\ DOMAIN free_vars' = 1 .. n - 1
        /\ \A i \in 1 .. n - 1 : i \in 1 .. n /\ i # n /\ free_vars'[i] = free_vars[i]
        /\ \A i \in 1 .. n : i = n \/ i \in 1 .. n - 1
        /\ n \in 1 .. n
    <3>1. n - 1 \in 0 .. n
      BY <2>1
    <3>2. DOMAIN free_vars' = 1 .. n - 1 /\ \A i \in 1 .. n - 1 : free_vars'[i] = free_vars[i]
      BY <2>1, <3>1
    <3> HIDE DEF n
    <3> QED BY <2>1, <3>2
  <2> HIDE DEF n
  <2>3. v \in Vars /\ v \in Created
    BY <1>2, <2>1, <2>2 DEF CreatedOK
  <2>4. v \notin Live
    BY <2>1, <2>2 DEF Live
  <2>5. \A u : u \in {free_vars[i] : i \in DOMAIN free_vars}
                <=> u \in {free_vars'[i] : i \in DOMAIN free_vars'} \/ u = v
    BY <2>1, <2>2
  <2>6. /\ v \notin {free_vars'[i] : i \in DOMAIN free_vars'}
        /\ v \notin {released_vars[i] : i \in DOMAIN released_vars}
    BY <1>2, <2>1, <2>2 DEF Unused, NamesOK
  <2>7. Live' = Live \cup {v}
    <3>1. \A u : u \in Live' <=> u \in Live \cup {v}
      BY <1>1, <2>1, <2>3, <2>5, <2>6 DEF Live, Created
    <3> QED BY <3>1
  <2>8. CreatedOK'
    BY <1>1, <1>2, <2>1, <2>2 DEF CreatedOK, Created, DB
  <2>9. /\ \A c \in clauses : v \notin VarsOf(c)
        /\ \A i \in DOMAIN trail : Var(trail[i].lit) # v
    BY <1>2, <2>1, <2>2 DEF Unused, DB
  <2> QED BY <1>4, <1>5, <2>3, <2>4, <2>7, <2>8, <2>9 DEF OracleParts
<1>7. CASE free_vars = <<>>
  <2>1. next_var' = next_var + 1 /\ free_vars' = free_vars /\ next_var <= user.nVars
    BY <1>7 DEF newVar
  <2>2. next_var \in Vars /\ next_var \notin Created
    BY <1>3, <2>1 DEF Vars, Created
  <2>3. Created' = Created \cup {next_var}
    BY <1>3, <2>1 DEF Created
  <2>4. Live' = Live \cup {next_var}
    <3>1. /\ next_var \notin {released_vars[i] : i \in DOMAIN released_vars}
          /\ next_var \notin {free_vars[i] : i \in DOMAIN free_vars}
      BY <1>2, <2>2 DEF CreatedOK
    <3>2. \A u : u \in Live' <=> u \in Live \cup {next_var}
      BY <1>1, <2>1, <2>3, <3>1 DEF Live, Created
    <3> QED BY <3>2
  <2>5. CreatedOK'
    <3>1. Created \subseteq Created'
      BY <2>3
    <3> QED BY <1>1, <1>2, <2>1, <3>1 DEF CreatedOK, DB
  <2>6. /\ \A c \in clauses : next_var \notin VarsOf(c)
        /\ \A i \in DOMAIN trail : Var(trail[i].lit) # next_var
    BY <1>2, <2>2 DEF CreatedOK, DB
  <2>7. next_var \notin Live
    BY <2>2, LiveCreated
  <2> QED BY <1>4, <1>5, <2>2, <2>4, <2>5, <2>6, <2>7 DEF OracleParts
<1> QED BY <1>6, <1>7

(* Clauses are trimmed, and released variables leave the trail.  An        *)
(* assignment that suits what is left suits what there was, when it is     *)
(* changed to what the trail said of the variables released.               *)
LEMMA simplifyKeeps ==
    ASSUME OracleInv, simplify, SolverInv'
    PROVE  OracleParts' /\ Live' = Live /\ Restricted(Meant', Live) = Restricted(Meant, Live)
<1>1. /\ decisionLevel = 0
      /\ clauses' = Trimmed(clauses) /\ learnts' = Trimmed(learnts)
      /\ trail' = [i \in DOMAIN Kept |-> [Kept[i] EXCEPT !.reason = None]]
      /\ free_vars' = free_vars \o released_vars /\ released_vars' = <<>>
      /\ UNCHANGED <<ok, trail_lim, next_var, pc, assumptions, status, model, conflict>>
  BY DEF simplify, task, answer
<1>2. /\ TypeOK /\ TrailInv(trail, trail_lim, DB) /\ trail \in Seq(EntryType)
      /\ CreatedOK /\ AskedOK /\ LearntsFollow
      /\ released_vars \in Seq(Vars) /\ free_vars \in Seq(Vars)
  BY PartsAre DEF TypeOK
<1>3. trail_lim = <<>>
  BY <1>1, <1>2 DEF TypeOK, decisionLevel
<1>4. Known(trail) = TrueLits /\ \A i \in DOMAIN trail : trail[i].level = 0
  BY <1>2, <1>3, KnownIs
<1>5. /\ Kept \in Seq(EntryType)
      /\ \A k \in DOMAIN Kept : Var(Kept[k].lit) \notin Released /\ \E j \in DOMAIN trail : Kept[k] = trail[j]
      /\ \A j \in DOMAIN trail : Var(trail[j].lit) \in Released \/ \E k \in DOMAIN Kept : Kept[k] = trail[j]
  BY <1>2, KeptIs DEF TrailInv
<1>6. /\ DOMAIN trail' = DOMAIN Kept
      /\ \A i \in DOMAIN Kept : trail'[i].lit = Kept[i].lit /\ trail'[i].level = Kept[i].level
  <2>1. \A i \in DOMAIN Kept : Kept[i] \in EntryType
    BY <1>5
  <2> QED BY <1>1, <2>1 DEF EntryType
<1>7. \A l : l \in Known(trail') <=> l \in Known(trail) /\ Var(l) \notin Released
  <2>1. \A l : l \in Known(trail') <=> \E i \in DOMAIN Kept : Kept[i].level = 0 /\ Kept[i].lit = l
    BY <1>6 DEF Known
  <2>2. \A l : l \in Known(trail) <=> \E i \in DOMAIN trail : trail[i].lit = l
    BY <1>4 DEF Known
  <2> QED BY <1>4, <1>5, <2>1, <2>2
<1>8. ASSUME NEW l \in Lits
      PROVE  /\ IsFalse(l) <=> -l \in Known(trail)
             /\ IsUndef(l) <=> \A k \in Known(trail) : Var(k) # Var(l)
  <2>1. IsFalse(l) <=> -l \in Known(trail)
    BY <1>4 DEF IsFalse
  <2>2. IsUndef(l) <=> Unset(trail, l)
    BY <1>2, TrailFacts
  <2> QED BY <1>4, <2>1, <2>2 DEF TrueLits, Unset
<1>9. Known(trail) \subseteq Lits /\ clauses \subseteq SUBSET Lits /\ learnts \subseteq SUBSET Lits
  <2>1. \A i \in DOMAIN trail : trail[i].lit \in Lits
    BY <1>2, EntryFacts
  <2> QED BY <1>2, <2>1 DEF Known, TypeOK
<1> DEFINE Old(m) == HoldsAll(m, Known(trail))
           New(m) == HoldsAll(m, Known(trail'))
<1>10. ASSUME NEW C, C \subseteq SUBSET Lits, NEW m, Old(m), Sat(m, C) PROVE Sat(m, Trimmed(C))
  <2> SUFFICES ASSUME NEW c \in C PROVE HoldsOne(m, {l \in c : ~ IsFalse(l)})
    BY DEF Sat, Trimmed
  <2>1. PICK l \in c : Holds(m, l)
    BY <1>10 DEF Sat, HoldsOne
  <2>2. l \in Lits
    BY <1>10
  <2>3. ~ IsFalse(l)
    BY <1>8, <1>10, <2>1, <2>2, HoldsNot DEF HoldsAll
  <2> QED BY <2>1, <2>3 DEF HoldsOne
\* What is not trimmed away is about variables without a value.
<1>11. ASSUME NEW C, C \subseteq SUBSET Lits, NEW m, NEW k,
              \A l \in Lits : IsUndef(l) => m[Var(l)] = k[Var(l)], Sat(m, Trimmed(C))
       PROVE  Sat(k, Trimmed(C))
  <2> SUFFICES ASSUME NEW c \in C, ~ Satisfied(c) PROVE HoldsOne(k, {l \in c : ~ IsFalse(l)})
    BY DEF Sat, Trimmed
  <2>1. HoldsOne(m, {l \in c : ~ IsFalse(l)})
    BY <1>11 DEF Sat, Trimmed
  <2>2. PICK l \in c : ~ IsFalse(l) /\ Holds(m, l)
    BY <2>1 DEF HoldsOne
  <2>3. l \in Lits /\ IsUndef(l)
    BY <1>11, <2>2 DEF IsUndef, Satisfied
  <2>4. Holds(k, l)
    BY <1>11, <2>2, <2>3, HoldsSame
  <2> QED BY <2>2, <2>4 DEF HoldsOne
<1>12. ASSUME NEW m, Old(m), Sat(m, Trimmed(clauses)) PROVE Sat(m, clauses)
  <2> SUFFICES ASSUME NEW c \in clauses PROVE HoldsOne(m, c)
    BY DEF Sat
  <2>1. CASE Satisfied(c)
    BY <1>4, <1>12, <2>1 DEF Satisfied, IsTrue, HoldsAll, HoldsOne
  <2>2. CASE ~ Satisfied(c)
    <3>1. HoldsOne(m, {l \in c : ~ IsFalse(l)})
      BY <1>12, <2>2 DEF Sat, Trimmed
    <3> QED BY <3>1 DEF HoldsOne
  <2> QED BY <2>1, <2>2
\* The values of the trail, and those of k elsewhere.
<1>13. ASSUME NEW k \in Valuations, New(k), Sat(k, clauses')
       PROVE  \E m \in Valuations : /\ Old(m) /\ Sat(m, clauses)
                                    /\ \A l \in Lits : IsUndef(l) => m[Var(l)] = k[Var(l)]
                                    /\ \A v \in Live : m[v] = k[v]
  <2> DEFINE m == [v \in Vars |-> IF v \in Released THEN v \in Known(trail) ELSE k[v]]
  <2>1. m \in Valuations
    <3>1. \A v \in Vars : k[v] \in BOOLEAN
      BY DEF Valuations
    <3>2. \A v \in Vars : (v \in Known(trail)) \in BOOLEAN
      OBVIOUS
    <3>3. \A v \in Vars : (IF v \in Released THEN v \in Known(trail) ELSE k[v]) \in BOOLEAN
      BY <3>1, <3>2
    <3> QED BY <3>3, Zenon DEF Valuations
  <2>2. \A v \in Vars : m[v] = IF v \in Released THEN v \in Known(trail) ELSE k[v]
    OBVIOUS
  <2> HIDE DEF m
  <2>3. ASSUME NEW l \in Known(trail) PROVE Holds(m, l)
    <3>1. l \in Lits /\ l \in Int /\ l # 0 /\ Var(l) \in Vars
      BY <1>9, LitFacts
    <3>2. CASE Var(l) \in Released
      <4>1. CASE l > 0
        <5>1. Var(l) = l
          BY <3>1, <4>1 DEF Var
        <5> QED BY <2>2, <3>1, <3>2, <4>1, <5>1 DEF Holds
      <4>2. CASE ~ (l > 0)
        <5>1. Var(l) = -l
          BY <3>1, <4>2 DEF Var
        <5>2. -l \notin Known(trail)
          BY <1>2, <1>4, <3>1, NotBoth DEF IsTrue
        <5> QED BY <2>2, <3>1, <3>2, <4>2, <5>1, <5>2 DEF Holds
      <4> QED BY <4>1, <4>2
    <3>3. CASE Var(l) \notin Released
      <4>1. Holds(k, l)
        BY <1>7, <1>13, <3>3 DEF HoldsAll
      <4>2. m[Var(l)] = k[Var(l)]
        BY <2>2, <3>1, <3>3
      <4> QED BY <3>1, <4>1, <4>2, HoldsSame
    <3> QED BY <3>2, <3>3
  <2>4. ASSUME NEW l \in Lits, IsUndef(l) PROVE m[Var(l)] = k[Var(l)]
    <3>1. Var(l) \in Vars
      BY LitFacts
    <3>2. Var(l) \notin Released
      <4>1. ok
        BY <1>1, PartsAre DEF PhaseOK, simplify, Ready
      <4>2. \A i \in DOMAIN released_vars : \E j \in DOMAIN trail : Var(trail[j].lit) = released_vars[i]
        BY <4>1, PartsAre DEF NamesOK
      <4>3. \A i \in DOMAIN trail : Var(trail[i].lit) # Var(l)
        BY <1>2, <2>4, TrailFacts DEF Unset
      <4> QED BY <4>2, <4>3 DEF Released
    <3> QED BY <2>2, <3>1, <3>2
  <2>5. \A v \in Live : m[v] = k[v]
    <3>1. \A v \in Live : v \in Vars /\ v \notin Released
      BY <1>2, LiveFacts DEF Released
    <3> QED BY <2>2, <3>1
  <2>6. Sat(m, Trimmed(clauses))
    <3>1. \A l \in Lits : IsUndef(l) => k[Var(l)] = m[Var(l)]
      BY <2>4
    <3> QED BY <1>1, <1>9, <1>11, <1>13, <3>1
  <2>7. Old(m)
    BY <2>3 DEF HoldsAll
  <2> QED BY <1>12, <2>1, <2>4, <2>5, <2>6, <2>7
<1>14. \A m : Old(m) => New(m)
  BY <1>7 DEF HoldsAll
<1>15. \A m : m \in Meant <=> m \in Valuations /\ ok /\ Sat(m, clauses) /\ Old(m)
  BY DEF Meant, Solutions
<1>16. \A m : m \in Meant' <=> m \in Valuations /\ ok /\ Sat(m, clauses') /\ New(m)
  BY <1>1 DEF Meant, Solutions
<1> HIDE DEF Old, New
<1>17. Restricted(Meant', Live) = Restricted(Meant, Live)
  <2>1. ASSUME NEW k \in Meant' PROVE \E m \in Meant : [v \in Live |-> k[v]] = [v \in Live |-> m[v]]
    <3>1. PICK m \in Valuations : Old(m) /\ Sat(m, clauses) /\ \A v \in Live : m[v] = k[v]
      BY <1>13, <1>16
    <3>2. [v \in Live |-> k[v]] = [v \in Live |-> m[v]]
      BY <3>1
    <3> QED BY <1>15, <1>16, <3>1, <3>2
  <2>2. \A m \in Meant : m \in Meant'
    BY <1>1, <1>9, <1>10, <1>14, <1>15, <1>16
  <2> DEFINE R(m) == [v \in Live |-> m[v]]
             S == Meant'
  <2>3. \A k \in S : \E m \in Meant : R(k) = R(m)
    BY <2>1
  <2>4. \A m \in Meant : m \in S
    BY <2>2
  <2>5. Restricted(Meant', Live) = {R(m) : m \in S} /\ Restricted(Meant, Live) = {R(m) : m \in Meant}
    BY DEF Restricted
  <2> HIDE DEF R, S
  <2> QED BY <2>3, <2>4, <2>5
<1>18. LearntsFollow'
  <2> SUFFICES ASSUME NEW k \in Valuations, Sat(k, clauses'), New(k) PROVE Sat(k, learnts')
    BY DEF LearntsFollow, New
  <2>1. PICK m \in Valuations : /\ Old(m) /\ Sat(m, clauses)
                                /\ \A l \in Lits : IsUndef(l) => m[Var(l)] = k[Var(l)]
    BY <1>13
  <2>2. Sat(m, learnts)
    BY <1>2, <2>1 DEF LearntsFollow, Old
  <2>3. Sat(m, Trimmed(learnts))
    BY <1>9, <1>10, <2>1, <2>2
  <2> QED BY <1>1, <1>9, <1>11, <2>1, <2>3
<1>19. AskedOK' /\ AssumptionsOK'
  BY <1>1, <1>2, <1>3, NoneAssumed DEF AskedOK
<1> DEFINE n == Len(free_vars)
           r == Len(released_vars)
<1>20. /\ n \in Nat /\ r \in Nat /\ DOMAIN free_vars = 1 .. n /\ DOMAIN released_vars = 1 .. r
       /\ DOMAIN free_vars' = 1 .. n + r
       /\ \A i \in 1 .. n : free_vars'[i] = free_vars[i]
       /\ \A i \in n + 1 .. n + r : free_vars'[i] = released_vars[i - n] /\ i - n \in 1 .. r
       /\ \A i \in 1 .. n + r : i \in 1 .. n \/ i \in n + 1 .. n + r
  BY <1>1, <1>2
<1> HIDE DEF n, r
<1>21. \A v : v \in {free_vars'[i] : i \in DOMAIN free_vars'}
              <=> \/ v \in {free_vars[i] : i \in DOMAIN free_vars}
                  \/ v \in {released_vars[i] : i \in DOMAIN released_vars}
  <2>1. \A i \in 1 .. n : i \in 1 .. n + r
    BY <1>20
  <2>2. \A i \in 1 .. r : n + i \in n + 1 .. n + r /\ n + i \in 1 .. n + r /\ n + i - n = i
    BY <1>20
  <2>3. \A i \in 1 .. r : n + i \in 1 .. n + r /\ free_vars'[n + i] = released_vars[i]
    BY <1>20, <2>2
  <2> QED BY <1>20, <2>1, <2>3
<1>22. Live' = Live
  <2>1. {released_vars'[i] : i \in DOMAIN released_vars'} = {}
    BY <1>1
  <2>2. \A v : v \in Live' <=> v \in Live
    BY <1>1, <1>21, <2>1 DEF Live
  <2> QED BY <2>2
<1>23. CreatedOK'
  <2>1. Created' = Created /\ \A i \in DOMAIN released_vars' : FALSE
    BY <1>1 DEF Created
  <2>2. \A i \in DOMAIN free_vars' : free_vars'[i] \in Created
    BY <1>2, <1>21 DEF CreatedOK
  <2>3. \A d \in clauses' \cup learnts' : VarsOf(d) \subseteq Created
    <3>1. \A d \in clauses' \cup learnts' : \E c \in DB : d \subseteq c
      BY <1>1 DEF Trimmed, DB
    <3> QED BY <1>2, <3>1 DEF CreatedOK, VarsOf
  <2>4. \A i \in DOMAIN trail' : Var(trail'[i].lit) \in Created
    BY <1>2, <1>5, <1>6 DEF CreatedOK
  <2> QED BY <2>1, <2>2, <2>3, <2>4 DEF CreatedOK, DB
<1> QED BY <1>17, <1>18, <1>19, <1>22, <1>23 DEF OracleParts

-----------------------------------------------------------------------------
(* The answers.                                                            *)

(* When nothing is left to decide, what is true is a model in which the    *)
(* assumptions hold.                                                       *)
LEMMA ModelIs ==
    ASSUME OracleInv, ModelFound
    PROVE  \E m \in Meant : /\ model' = [v \in Live |-> m[v]]
                            /\ \A i \in DOMAIN assumptions : Holds(m, assumptions[i])
<1> DEFINE m == [v \in Vars |-> IsTrue(v)]
<1>1. /\ pc = "search" /\ Propagated /\ Assumed /\ Undecided = {}
      /\ model' = [v \in Live |-> IsTrue(v)]
  BY DEF ModelFound, Ready
<1>2. /\ TypeOK /\ TrailInv(trail, trail_lim, DB) /\ PhaseOK /\ Unused(DB, trail, free_vars)
      /\ CreatedOK /\ AssumptionsOK /\ trail \in Seq(EntryType)
  BY PartsAre
<1>3. m \in Valuations /\ \A v \in Vars : m[v] = IsTrue(v)
  <2>1. \A v \in Vars : IsTrue(v) \in BOOLEAN
    BY DEF IsTrue
  <2> QED BY <2>1, Zenon DEF Valuations
<1> HIDE DEF m
<1>4. ASSUME NEW l \in Lits, IsTrue(l) PROVE Holds(m, l)
  <2>1. l \in Int /\ l # 0 /\ Var(l) \in Vars
    BY LitFacts
  <2>2. CASE l > 0
    <3>1. Var(l) = l
      BY <2>1, <2>2 DEF Var
    <3> QED BY <1>3, <1>4, <2>1, <2>2, <3>1 DEF Holds
  <2>3. CASE ~ (l > 0)
    <3>1. Var(l) = -l
      BY <2>1, <2>3 DEF Var
    <3>2. ~ IsTrue(-l)
      BY <1>2, <1>4, NotBoth
    <3> QED BY <1>3, <2>1, <2>3, <3>1, <3>2 DEF Holds
  <2> QED BY <2>2, <2>3
<1>5. \A i \in DOMAIN trail : trail[i].lit \in Lits /\ IsTrue(trail[i].lit)
  BY <1>2, EntryFacts DEF IsTrue, TrueLits
<1>6. HoldsAll(m, Known(trail))
  BY <1>4, <1>5 DEF HoldsAll, Known
<1>7. Sat(m, clauses)
  <2> SUFFICES ASSUME NEW c \in clauses PROVE HoldsOne(m, c)
    BY DEF Sat
  <2>1. c \in DB /\ c \subseteq Lits
    BY <1>2 DEF DB, TypeOK
  <2>2. PICK l \in c : ~ IsFalse(l)
    <3>1. c \notin Conflicting
      BY <1>1 DEF Propagated
    <3> QED BY <2>1, <3>1 DEF Conflicting, DB
  <2>3. l \in Lits /\ Var(l) \in VarsOf(c) /\ Var(l) \in Vars
    BY <2>1, LitFacts DEF VarsOf
  <2>4. Var(l) \in Created /\ Var(l) \in Lits /\ Var(Var(l)) = Var(l)
    <3>1. Var(l) \in Nat \ {0} /\ Var(l) \in Lits
      BY <2>3, LitFacts
    <3>2. ~ (Var(l) < 0)
      BY <3>1
    <3>3. \A v : ~ (v < 0) => Var(v) = v
      BY DEF Var
    <3>4. Var(Var(l)) = Var(l)
      BY <3>2, <3>3
    <3> QED BY <1>2, <2>1, <2>3, <3>1, <3>4 DEF CreatedOK
  <2>5. ~ IsUndef(Var(l))
    <3>1. \A i \in DOMAIN free_vars : free_vars[i] # Var(l)
      BY <1>2, <2>1, <2>3 DEF Unused
    <3> QED BY <1>1, <2>4, <3>1 DEF Undecided, Created
  <2>6. PICK i \in DOMAIN trail : Var(trail[i].lit) = Var(Var(l))
    BY <1>2, <2>4, <2>5, TrailFacts DEF Unset
  <2>7. trail[i].lit = l \/ trail[i].lit = -l
    BY <1>5, <2>3, <2>4, <2>6, LitFacts
  <2>8. trail[i].lit = l
    BY <2>2, <2>7 DEF IsFalse, TrueLits
  <2>9. Holds(m, l)
    BY <1>4, <1>5, <2>8
  <2> QED BY <2>9 DEF HoldsOne
<1>8. ok
  BY <1>1, <1>2 DEF PhaseOK
<1>9. m \in Meant
  BY <1>3, <1>6, <1>7, <1>8 DEF Meant, Solutions
<1>10. model' = [v \in Live |-> m[v]]
  <2>1. \A v \in Live : m[v] = IsTrue(v)
    BY <1>2, <1>3, LiveFacts
  <2> QED BY <1>1, <2>1
<1>11. ASSUME NEW k \in DOMAIN assumptions PROVE Holds(m, assumptions[k])
  <2>1. k \in Nat /\ k <= Len(assumptions) /\ Len(assumptions) \in Nat /\ Len(trail_lim) \in Nat
    BY <1>2 DEF TypeOK
  <2>2. k <= Len(trail_lim)
    BY <1>1, <2>1 DEF Assumed, decisionLevel
  <2>3. PICK i \in DOMAIN trail : trail[i].lit = assumptions[k]
    BY <1>1, <1>2, <2>2 DEF AssumptionsOK
  <2> QED BY <1>4, <1>5, <2>3
<1> QED BY <1>9, <1>10, <1>11

(* When an assumption is false, what analyzeFinal names are negations of   *)
(* assumptions, and one of them holds in every model.                      *)
LEMMA ConflictIs ==
    ASSUME OracleInv, AssumptionFails
    PROVE  /\ \A l \in conflict' : \E i \in DOMAIN assumptions : l = -assumptions[i]
           /\ \A m \in Meant : HoldsOne(m, conflict')
<1> DEFINE p == -Assumption
           d == decisionLevel
<1>1. /\ pc = "search" /\ ~ Assumed /\ IsFalse(Assumption)
      /\ conflict' = analyzeFinal(p)
  BY DEF AssumptionFails, Ready
<1>2. /\ TypeOK /\ TrailInv(trail, trail_lim, DB) /\ LearntsFollow
      /\ AssumptionsOK /\ trail \in Seq(EntryType)
  BY PartsAre
<1>3. d \in Nat /\ d = Len(trail_lim) /\ d < Len(assumptions) /\ Len(assumptions) \in Nat
      /\ assumptions \in Seq(Lits)
  BY <1>1, <1>2, TrailFacts DEF Assumed, TypeOK
<1>4. d + 1 \in DOMAIN assumptions /\ p = -assumptions[d + 1] /\ p \in Lits /\ IsTrue(p)
  <2>1. d + 1 \in DOMAIN assumptions
    BY <1>3
  <2>2. Assumption = assumptions[d + 1] /\ assumptions[d + 1] \in Lits
    BY <1>3, <2>1 DEF Assumption
  <2>3. IsTrue(p)
    BY <1>1 DEF IsTrue, IsFalse
  <2> QED BY <2>1, <2>2, <2>3, LitFacts
<1>5. ASSUME NEW l \in analyzeFinal(p) PROVE \E i \in DOMAIN assumptions : l = -assumptions[i]
  <2>1. CASE l = p
    BY <1>4, <2>1
  <2>2. CASE l # p
    <3>1. d # 0 /\ \E i \in trail_lim[1] + 1 .. Len(trail) : trail[i].reason = None /\ l = -trail[i].lit
      BY <1>5, <2>2 DEF analyzeFinal
    <3>2. PICK i \in trail_lim[1] + 1 .. Len(trail) : trail[i].reason = None /\ l = -trail[i].lit
      BY <3>1
    <3>3. 1 \in DOMAIN trail_lim /\ trail_lim[1] \in Nat
      BY <1>2, <1>3, <3>1 DEF TypeOK
    <3>4. i \in DOMAIN trail /\ i > trail_lim[1]
      BY <1>2, <3>3
    <3>5. trail[i].level >= 1 /\ trail[i].level <= d /\ trail[i].level \in Nat
      BY <1>2, <1>3, <3>3, <3>4, EntryFacts DEF TrailInv, Ordered
    <3>6. trail[i].level \in DOMAIN assumptions
      BY <1>3, <3>5
    <3>7. trail[i].lit = assumptions[trail[i].level]
      BY <1>1, <1>2, <3>2, <3>4, <3>6 DEF AssumptionsOK
    <3> QED BY <3>2, <3>6, <3>7
  <2> QED BY <2>1, <2>2
<1>6. ASSUME NEW m \in Meant PROVE HoldsOne(m, analyzeFinal(p))
  <2>1. Sat(m, DB) /\ HoldsAll(m, Known(trail))
    BY <1>2, MeantIs DEF Solutions
  <2> QED BY <1>2, <1>4, <2>1, FinalHolds
<1> QED BY <1>1, <1>5, <1>6

-----------------------------------------------------------------------------
(* The invariant holds.                                                    *)

(* At the start nothing is learnt or known.                                *)
LEMMA OracleInvInit == Init => OracleInv
<1> SUFFICES ASSUME Init PROVE OracleInv
  OBVIOUS
<1>1. SolverInv
  BY SolverInvInit
<1>2. /\ clauses = user.clauses /\ learnts = {} /\ trail = <<>> /\ pc = "idle"
      /\ released_vars = <<>> /\ free_vars = <<>>
      /\ next_var = 1 + Max({0} \cup UNION {VarsOf(c) : c \in clauses})
  BY DEF Init
<1>3. CreatedOK
  <2>1. ASSUME NEW c \in clauses, NEW v \in VarsOf(c) PROVE v \in Created
    <3> DEFINE S == {0} \cup UNION {VarsOf(k) : k \in clauses}
    <3>1. S \subseteq 0 .. MaxVar /\ MaxVar \in Nat
      <4>1. clauses \subseteq SUBSET Lits
        BY <1>1 DEF SolverInv, TypeOK
      <4>2. \A k \in clauses : VarsOf(k) \subseteq Vars
        BY <4>1, LitVars
      <4>3. Vars \subseteq 0 .. MaxVar /\ 0 \in 0 .. MaxVar /\ MaxVar \in Nat
        BY SolverAssumption DEF Vars
      <4> QED BY <4>2, <4>3
    <3>2. v \in S /\ S # {}
      OBVIOUS
    <3>3. Max(S) \in S /\ \A x \in S : x <= Max(S)
      <4> HIDE DEF S
      <4> QED BY <3>1, <3>2, MaxIs
    <3>4. next_var = 1 + Max(S)
      BY <1>2
    <3>5. v \in Vars
      BY <1>1, LitVars DEF SolverInv, TypeOK
    <3> HIDE DEF S
    <3>6. v \in Nat \ {0}
      BY <3>5, LitFacts
    <3>7. v <= Max(S) /\ Max(S) \in 0 .. MaxVar
      BY <3>1, <3>2, <3>3
    <3>8. Max(S) \in Nat
      BY <3>1, <3>7
    <3> QED BY <3>4, <3>6, <3>7, <3>8 DEF Created
  <2> QED BY <1>2, <2>1 DEF CreatedOK, DB
<1>4. AssumptionsOK /\ AskedOK
  BY <1>2 DEF AssumptionsOK, AskedOK
<1>5. LearntsFollow
  BY <1>2 DEF LearntsFollow, Sat
<1> QED BY <1>1, <1>3, <1>4, <1>5 DEF OracleInv, OracleParts

(* Steps that the user does not see keep the invariant and the models.     *)
LEMMA HiddenKeeps ==
    ASSUME OracleInv,
           Propagate \/ addClauseDone \/ Learn \/ Restart \/ simplify \/ reduceDB \/ Dummy \/ Decide
    PROVE  /\ OracleInv' /\ Live' = Live /\ Restricted(Meant', Live) = Restricted(Meant, Live)
           /\ UNCHANGED <<assumptions, status, model, conflict>>
           /\ pc' \in {"search", "refuse"} <=> pc \in {"search", "refuse"}
           /\ pc = "search" <=> pc' = "search"
<1>1. SolverInv'
  BY SolverInvNext DEF OracleInv, Next, Search
<1>2. UNCHANGED <<assumptions, status, model, conflict>>
  BY DEF Propagate, addClauseDone, Learn, Restart, simplify, reduceDB, Dummy, Decide, task, answer
<1>3. /\ pc' \in {"search", "refuse"} <=> pc \in {"search", "refuse"}
      /\ pc = "search" <=> pc' = "search"
  BY DEF Propagate, addClauseDone, Learn, Restart, simplify, reduceDB, Dummy, Decide, task, Ready
<1>4. CASE simplify
  BY <1>1, <1>2, <1>3, <1>4, simplifyKeeps DEF OracleInv
<1>5. CASE Propagate \/ addClauseDone \/ Learn \/ Restart \/ reduceDB \/ Dummy \/ Decide
  <2>1. UNCHANGED <<next_var, released_vars, free_vars>>
    BY <1>5 DEF Propagate, addClauseDone, Learn, Restart, reduceDB, Dummy, Decide, names
  <2>2. Live' = Live
    BY <2>1 DEF Live
  <2>3. OracleParts' /\ Meant' = Meant
    BY <1>1, <1>5, PropagateKeeps, ReturnKeeps, LearnKeeps, RestartKeeps, reduceDBKeeps, DummyKeeps, DecideKeeps
  <2> QED BY <1>1, <1>2, <1>3, <2>2, <2>3 DEF OracleInv
<1> QED BY <1>4, <1>5

(* Every step keeps the invariant.                                         *)
LEMMA OracleInvNext == OracleInv /\ [Next]_vars => OracleInv'
<1> SUFFICES ASSUME OracleInv, [Next]_vars PROVE OracleInv'
  OBVIOUS
<1>1. SolverInv'
  BY SolverInvNext DEF OracleInv
<1>2. CASE newVar \/ addClause \/ releaseVar \/ solve
  BY <1>1, <1>2, newVarKeeps, addClauseKeeps, releaseVarKeeps, solveKeeps DEF OracleInv
<1>3. CASE Refuse \/ Contradiction \/ AssumptionFails \/ ModelFound
  BY <1>1, <1>3, ReturnKeeps, AnswerKeeps DEF OracleInv
<1>4. CASE Propagate \/ addClauseDone \/ Learn \/ Restart \/ simplify \/ reduceDB \/ Dummy \/ Decide
  BY <1>4, HiddenKeeps
<1>5. CASE UNCHANGED vars
  BY <1>1, <1>5, StutterKeeps DEF OracleInv
<1> QED BY <1>2, <1>3, <1>4, <1>5 DEF Next, Search

(* What is learnt always follows from the clauses and what is known, and   *)
(* the first levels are those of the assumptions.                          *)
THEOREM OracleInvHolds == Spec => []OracleInv
BY OracleInvInit, OracleInvNext, PTL DEF Spec

-----------------------------------------------------------------------------
(* The refinement.                                                         *)

(* A clause over the variables in use is about their values alone.         *)
LEMMA RestrictedClause ==
    ASSUME NEW M, NEW L, NEW c \in SUBSET Lits, VarsOf(c) \subseteq L
    PROVE  Restricted({m \in M : HoldsOne(m, c)}, L) = {m \in Restricted(M, L) : HoldsOne(m, c)}
<1> DEFINE R(m) == [v \in L |-> m[v]]
<1>1. ASSUME NEW m PROVE HoldsOne(R(m), c) <=> HoldsOne(m, c)
  <2>1. ASSUME NEW l \in c PROVE Holds(R(m), l) <=> Holds(m, l)
    <3>1. l \in Lits /\ Var(l) \in L
      BY DEF VarsOf
    <3>2. R(m)[Var(l)] = m[Var(l)]
      BY <3>1
    <3> HIDE DEF R
    <3> QED BY <3>1, <3>2, HoldsSame
  <2> HIDE DEF R
  <2> QED BY <2>1 DEF HoldsOne
<1>2. \A S : Restricted(S, L) = {R(m) : m \in S}
  BY DEF Restricted
<1> HIDE DEF R
<1> QED BY <1>1, <1>2

(* When a variable is released, its value is forgotten.                    *)
LEMMA RestrictedRelease ==
    ASSUME NEW M, NEW L, NEW l \in Lits, Var(l) \in L
    PROVE  Restricted({m \in M : Holds(m, l)}, L \ {Var(l)})
             = {[v \in L \ {Var(l)} |-> m[v]] : m \in {n \in Restricted(M, L) : Holds(n, l)}}
<1> DEFINE R(m) == [v \in L |-> m[v]]
           Q(m) == [v \in L \ {Var(l)} |-> m[v]]
<1>1. \A m : R(m)[Var(l)] = m[Var(l)]
  OBVIOUS
<1>2. \A m : Q(R(m)) = Q(m)
  OBVIOUS
<1>3. Restricted(M, L) = {R(m) : m \in M}
  BY DEF Restricted
<1>4. Restricted({m \in M : Holds(m, l)}, L \ {Var(l)}) = {Q(m) : m \in {n \in M : Holds(n, l)}}
  BY DEF Restricted
<1> HIDE DEF R, Q
<1>5. \A m : Holds(R(m), l) <=> Holds(m, l)
  BY <1>1, HoldsSame
<1>6. {Q(m) : m \in {n \in M : Holds(n, l)}} = {Q(m) : m \in {n \in {R(k) : k \in M} : Holds(n, l)}}
  BY <1>2, <1>5
<1> QED BY <1>3, <1>4, <1>6 DEF Q

(* A variable that no clause has and the trail neither may have any value. *)
LEMMA RestrictedNew ==
    ASSUME TypeOK, NEW x \in Vars \ Live,
           \A c \in clauses : x \notin VarsOf(c), \A i \in DOMAIN trail : Var(trail[i].lit) # x
    PROVE  Restricted(Meant, Live \cup {x})
             = {m \in [Live \cup {x} -> BOOLEAN] : [v \in Live |-> m[v]] \in Restricted(Meant, Live)}
<1> DEFINE L == Live \cup {x}
           P(m) == [v \in Live |-> m[v]]
           R(m) == [v \in L |-> m[v]]
<1>1. Live \subseteq Vars /\ L \subseteq Vars
  BY LiveFacts
<1>2. /\ \A m : m \in Meant => m \in Valuations
      /\ \A m \in Meant : \A v \in Vars : m[v] \in BOOLEAN
  BY DEF Meant, Solutions, Valuations
<1>3. /\ Restricted(Meant, L) = {R(m) : m \in Meant}
      /\ Restricted(Meant, Live) = {P(m) : m \in Meant}
  BY DEF Restricted
<1>4. ASSUME NEW m \in Meant PROVE R(m) \in [L -> BOOLEAN] /\ P(R(m)) = P(m)
  <2>1. \A v \in L : m[v] \in BOOLEAN
    BY <1>1, <1>2
  <2> QED BY <2>1
<1>5. ASSUME NEW f \in [L -> BOOLEAN], NEW k \in Meant, P(f) = P(k)
      PROVE  \E m \in Meant : f = R(m)
  <2> DEFINE m == [v \in Vars |-> IF v = x THEN f[x] ELSE k[v]]
  <2>1. f[x] \in BOOLEAN /\ \A v \in Vars : k[v] \in BOOLEAN
    BY <1>2
  <2>2. m \in Valuations
    BY <2>1 DEF Valuations
  <2>3. m[x] = f[x] /\ \A v \in Vars : v # x => m[v] = k[v]
    OBVIOUS
  <2> HIDE DEF m
  <2>4. ASSUME NEW l \in Lits, Var(l) # x PROVE Holds(m, l) <=> Holds(k, l)
    <3>1. m[Var(l)] = k[Var(l)]
      BY <2>3, <2>4, LitFacts
    <3> QED BY <3>1, HoldsSame
  <2>5. Sat(m, clauses)
    <3> SUFFICES ASSUME NEW c \in clauses PROVE HoldsOne(m, c)
      BY DEF Sat
    <3>1. PICK l \in c : Holds(k, l)
      BY DEF Meant, Solutions, Sat, HoldsOne
    <3>2. l \in Lits /\ Var(l) # x
      BY DEF TypeOK, VarsOf
    <3> QED BY <2>4, <3>1, <3>2 DEF HoldsOne
  <2>6. HoldsAll(m, Known(trail))
    <3> SUFFICES ASSUME NEW l \in Known(trail) PROVE Holds(m, l)
      BY DEF HoldsAll
    <3>1. Holds(k, l)
      BY DEF Meant, Solutions, HoldsAll
    <3>2. PICK i \in DOMAIN trail : trail[i].lit = l
      BY DEF Known
    <3>3. l \in Lits /\ Var(l) # x
      BY <3>2, EntryFacts DEF TypeOK
    <3> QED BY <2>4, <3>1, <3>3
  <2>7. m \in Meant
    BY <2>2, <2>5, <2>6 DEF Meant, Solutions
  <2>8. \A v \in L : f[v] = m[v]
    <3>1. ASSUME NEW v \in Live PROVE f[v] = k[v] /\ v # x /\ v \in Vars
      <4>1. P(f)[v] = f[v] /\ P(k)[v] = k[v]
        OBVIOUS
      <4> QED BY <1>1, <1>5, <4>1
    <3> QED BY <2>3, <3>1
  <2>9. f = [v \in L |-> f[v]]
    OBVIOUS
  <2>10. f = R(m)
    BY <2>8, <2>9
  <2> QED BY <2>7, <2>10
<1> HIDE DEF L, P, R
<1>6. {R(m) : m \in Meant} = {f \in [L -> BOOLEAN] : P(f) \in {P(m) : m \in Meant}}
  BY <1>4, <1>5
<1> QED BY <1>3, <1>6 DEF L, P

(* The parts of the mapping.                                               *)
Query == {assumptions[i] : i \in DOMAIN assumptions}
Sign  == CASE pc \in {"search", "refuse"} -> "asked"
           [] status = "l_True"  -> "yes"
           [] status = "l_False" -> "no"
           [] OTHER -> "unknown"

(* What the user sees of the state of a question.                          *)
LEMMA SignIs ==
    AskedOK =>
    /\ pc \in {"search", "refuse"} => Sign = "asked"
    /\ pc \notin {"search", "refuse"} /\ status = "l_True" => Sign = "yes"
    /\ pc \notin {"search", "refuse"} /\ status = "l_False" => Sign = "no"
    /\ pc \notin {"search", "refuse"} => Sign # "asked"
    /\ pc \notin {"search", "refuse"} /\ status = "l_Undef" => Sign = "unknown"
BY DEF Sign, AskedOK


(* What is said of the mapping in a state, to be said of the next one too. *)
Signs ==
    /\ pc \in {"search", "refuse"} => Sign = "asked"
    /\ pc \notin {"search", "refuse"} => Sign # "asked"
    /\ pc = "idle" /\ status = "l_True"  => Sign = "yes"
    /\ pc = "idle" /\ status = "l_False" => Sign = "no"
Mapped == OracleInv /\ Models = Restricted(Meant, Live) /\ Signs

(* The actions of the oracle, as they read under the mapping.              *)
LEMMA OracleIs ==
    /\ Oracle!vars = <<Live, Models, Query, [sat |-> Sign, model |-> model, conflict |-> conflict]>>
    /\ Oracle!Idle <=> Sign # "asked"
    /\ Oracle!NewVar <=>
          /\ \E v \in Vars \ Live : Live' = Live \cup {v}
          /\ Models' = {m \in [Live' -> BOOLEAN] : [v \in Live |-> m[v]] \in Models}
    /\ Oracle!AddClause <=>
          /\ Live' = Live
          /\ \E c \in SUBSET Oracle!Literals : Models' = {m \in Models : HoldsOne(m, c)}
    /\ Oracle!Release <=>
          \E l \in Oracle!Literals :
             /\ Live' = Live \ {Var(l)}
             /\ Models' = {[v \in Live' |-> m[v]] : m \in {n \in Models : Holds(n, l)}}
    /\ Oracle!Literals = Live \cup {-v : v \in Live}
<1>1. Oracle!vars = <<Live, Models, Query, [sat |-> Sign, model |-> model, conflict |-> conflict]>>
  BY DEF Oracle!vars, Query, Sign
<1>2. Oracle!Idle <=> Sign # "asked"
  BY DEF Oracle!Idle, Sign
<1>3. Oracle!NewVar <=>
          /\ \E v \in Vars \ Live : Live' = Live \cup {v}
          /\ Models' = {m \in [Live' -> BOOLEAN] : [v \in Live |-> m[v]] \in Models}
  BY DEF Oracle!NewVar, Oracle!Vars, Vars
<1>4. Oracle!AddClause <=>
          /\ Live' = Live
          /\ \E c \in SUBSET Oracle!Literals : Models' = {m \in Models : HoldsOne(m, c)}
  BY DEF Oracle!AddClause, Oracle!HoldsOne, Oracle!Holds, HoldsOne, Holds
<1>5. Oracle!Release <=>
          \E l \in Oracle!Literals :
             /\ Live' = Live \ {Var(l)}
             /\ Models' = {[v \in Live' |-> m[v]] : m \in {n \in Models : Holds(n, l)}}
  BY DEF Oracle!Release, Oracle!Var, Oracle!Holds, Holds, Var
<1>6. Oracle!Literals = Live \cup {-v : v \in Live}
  BY DEF Oracle!Literals
<1> QED BY <1>1, <1>2, <1>3, <1>4, <1>5, <1>6

(* The same of the answers.                                                *)
LEMMA AnswersAre ==
    /\ Oracle!NoAnswer("unknown") = [sat |-> "unknown", model |-> <<>>, conflict |-> {}]
    /\ Oracle!Ask <=>
          /\ [sat |-> Sign, model |-> model, conflict |-> conflict]'
                = [sat |-> "asked", model |-> <<>>, conflict |-> {}]
          /\ Query' \subseteq Oracle!Literals
          /\ UNCHANGED <<Live, Models>>
    /\ Oracle!AnswerSat <=>
          /\ Sign' = "yes" /\ conflict' = {}
          /\ model' \in Models
          /\ \A l \in Query : Holds(model', l)
    /\ Oracle!AnswerUnsat <=>
          /\ Sign' = "no" /\ model' = <<>>
          /\ conflict' \subseteq {-l : l \in Query}
          /\ \A m \in Models : HoldsOne(m, conflict')
<1>1. Oracle!NoAnswer("unknown") = [sat |-> "unknown", model |-> <<>>, conflict |-> {}]
  BY DEF Oracle!NoAnswer
<1>2. Oracle!Ask <=>
          /\ [sat |-> Sign, model |-> model, conflict |-> conflict]'
                = [sat |-> "asked", model |-> <<>>, conflict |-> {}]
          /\ Query' \subseteq Oracle!Literals
          /\ UNCHANGED <<Live, Models>>
  <2>1. Oracle!NoAnswer("asked") = [sat |-> "asked", model |-> <<>>, conflict |-> {}]
    BY DEF Oracle!NoAnswer
  <2> QED BY <2>1, Zenon DEF Oracle!Ask, Query, Sign
<1>3. Oracle!AnswerSat <=>
          /\ Sign' = "yes" /\ conflict' = {}
          /\ model' \in Models
          /\ \A l \in Query : Holds(model', l)
  BY DEF Oracle!AnswerSat, Oracle!Holds, Holds, Query, Sign
<1>4. Oracle!AnswerUnsat <=>
          /\ Sign' = "no" /\ model' = <<>>
          /\ conflict' \subseteq {-l : l \in Query}
          /\ \A m \in Models : HoldsOne(m, conflict')
  BY DEF Oracle!AnswerUnsat, Oracle!HoldsOne, Oracle!Holds, HoldsOne, Holds, Query, Sign
<1> QED BY <1>1, <1>2, <1>3, <1>4

(* Its steps.                                                              *)
LEMMA OracleNextIs ==
    /\ \/ Oracle!Idle /\ (Oracle!NewVar \/ Oracle!AddClause \/ Oracle!Release)
             /\ UNCHANGED <<Query, Sign, model, conflict>>
       \/ Oracle!Idle /\ Oracle!Ask
       \/ ~ Oracle!Idle /\ (Oracle!AnswerSat \/ Oracle!AnswerUnsat) /\ UNCHANGED <<Live, Models, Query>>
       => Oracle!Next
    /\ UNCHANGED <<Live, Models, Query, Sign, model, conflict>> => UNCHANGED Oracle!vars
<1>1. ASSUME UNCHANGED <<Sign, model, conflict>>
      PROVE  [sat |-> Sign, model |-> model, conflict |-> conflict]'
               = [sat |-> Sign, model |-> model, conflict |-> conflict]
  BY <1>1
<1>2. UNCHANGED <<Live, Models, Query, Sign, model, conflict>> => UNCHANGED Oracle!vars
  <2>1. Oracle!vars = <<Live, Models, Query, [sat |-> Sign, model |-> model, conflict |-> conflict]>>
    BY OracleIs
  <2> QED BY <1>1 DEF Oracle!vars, Query, Sign
<1>3. ASSUME Oracle!Idle /\ (Oracle!NewVar \/ Oracle!AddClause \/ Oracle!Release),
             UNCHANGED <<Query, Sign, model, conflict>>
      PROVE  Oracle!Next
  <2>1. UNCHANGED <<Query, [sat |-> Sign, model |-> model, conflict |-> conflict]>>
    BY <1>1, <1>3
  <2> QED BY <1>3, <2>1, Zenon DEF Oracle!Next, Query, Sign
<1>4. Oracle!Idle /\ Oracle!Ask => Oracle!Next
  BY DEF Oracle!Next
<1>5. ~ Oracle!Idle /\ (Oracle!AnswerSat \/ Oracle!AnswerUnsat) /\ UNCHANGED <<Live, Models, Query>>
      => Oracle!Next
  BY Zenon DEF Oracle!Next, Query
<1> QED BY <1>2, <1>3, <1>4, <1>5

(* At the start no question was asked.                                     *)
LEMMA OracleInit == Mapped /\ Init => Oracle!Init
<1> SUFFICES ASSUME Mapped, Init PROVE Oracle!Init
  OBVIOUS
<1>1. /\ OracleInv /\ Models = Restricted(Meant, Live)
      /\ TypeOK
  BY PartsAre DEF Mapped
<1>2. /\ pc = "idle" /\ status = "l_Undef" /\ model = <<>> /\ conflict = {} /\ assumptions = <<>>
  BY DEF Init
<1>3. Sign = "unknown" /\ Query = {}
  BY <1>2, SignIs, PartsAre DEF Query, Mapped
<1>4. Live \subseteq Vars
  BY <1>1, LiveFacts
<1>5. Models \subseteq [Live -> BOOLEAN]
  <2>1. ASSUME NEW m \in Meant PROVE [v \in Live |-> m[v]] \in [Live -> BOOLEAN]
    <3>1. \A v \in Live : m[v] \in BOOLEAN
      BY <1>4 DEF Meant, Solutions, Valuations
    <3> QED BY <3>1
  <2> QED BY <1>1, <2>1 DEF Restricted
<1>6. [sat |-> Sign, model |-> model, conflict |-> conflict] = Oracle!NoAnswer("unknown")
  BY <1>2, <1>3, AnswersAre
<1> QED BY <1>3, <1>4, <1>5, <1>6, Zenon DEF Oracle!Init, Oracle!Vars, Vars, Query, Sign

(* Every step is one that the oracle may take, or hidden from its user.    *)
LEMMA OracleStep ==
    ASSUME Mapped, Mapped', [Next]_vars
    PROVE  [Oracle!Next]_Oracle!vars
<1>1. /\ OracleInv /\ OracleInv' /\ SolverInv'
      /\ Models = Restricted(Meant, Live)
      /\ Models' = Restricted(Meant', Live')
  BY DEF Mapped, OracleInv, Restricted
<1>2. /\ pc \in {"search", "refuse"} => Sign = "asked"
      /\ pc \notin {"search", "refuse"} => Sign # "asked"
      /\ pc' \in {"search", "refuse"} => Sign' = "asked"
      /\ pc' = "idle" /\ status' = "l_True"  => Sign' = "yes"
      /\ pc' = "idle" /\ status' = "l_False" => Sign' = "no"
  BY DEF Mapped, Signs
<1>3. TypeOK /\ PhaseOK /\ AskedOK /\ Live \subseteq Vars
  BY <1>1, PartsAre, LiveFacts
<1>4. Oracle!Idle <=> Sign # "asked"
  BY OracleIs
<1>5. ASSUME pc \notin {"search", "refuse"}, pc' \notin {"search", "refuse"}, status' = status
      PROVE  Sign' = Sign
  BY <1>5 DEF Sign
<1>6. ASSUME NEW l \in Lits, Var(l) \in Live PROVE l \in Oracle!Literals
  <2>1. l = Var(l) \/ l = -Var(l)
    BY LitFacts DEF Var
  <2> QED BY <1>6, <2>1, OracleIs
<1>7. CASE newVar
  <2>1. Meant' = Meant
    BY <1>1, <1>7, newVarKeeps
  <2>2. PICK v \in Vars \ Live : /\ Live' = Live \cup {v}
                                 /\ \A c \in clauses : v \notin VarsOf(c)
                                 /\ \A i \in DOMAIN trail : Var(trail[i].lit) # v
    BY <1>1, <1>7, newVarKeeps
  <2>3. Models' = {m \in [Live' -> BOOLEAN] : [u \in Live |-> m[u]] \in Models}
    BY <1>1, <1>3, <2>1, <2>2, RestrictedNew
  <2>4. Oracle!NewVar
    BY <2>2, <2>3, OracleIs
  <2>5. pc = "idle" /\ UNCHANGED <<pc, assumptions, status, model, conflict>>
    BY <1>7 DEF newVar, task, answer
  <2>6. UNCHANGED <<Query, Sign, model, conflict>>
    BY <1>5, <2>5 DEF Query
  <2> QED BY <1>2, <1>4, <2>4, <2>5, <2>6, OracleNextIs
<1>8. CASE addClause
  <2>1. PICK c \in SUBSET Lits : VarsOf(c) \subseteq Live /\ Meant' = {m \in Meant : HoldsOne(m, c)}
    BY <1>1, <1>8, addClauseKeeps
  <2>2. Live' = Live
    BY <1>1, <1>8, addClauseKeeps
  <2>3. Models' = {m \in Models : HoldsOne(m, c)}
    BY <1>1, <2>1, <2>2, RestrictedClause
  <2>4. c \in SUBSET Oracle!Literals
    BY <1>6, <2>1 DEF VarsOf
  <2>5. Oracle!AddClause
    BY <2>2, <2>3, <2>4, OracleIs
  <2>6. pc = "idle" /\ pc' \in {"idle", "add"} /\ UNCHANGED <<assumptions, status, model, conflict>>
    BY <1>8 DEF addClause, Insert, task, answer
  <2>7. UNCHANGED <<Query, Sign, model, conflict>>
    BY <1>5, <2>6 DEF Query
  <2> QED BY <1>2, <1>4, <2>5, <2>6, <2>7, OracleNextIs
<1>9. CASE releaseVar
  <2>1. PICK l \in Lits : /\ Var(l) \in Live /\ Live' = Live \ {Var(l)}
                          /\ Meant' = {m \in Meant : Holds(m, l)}
    BY <1>1, <1>9, releaseVarKeeps
  <2>2. Models' = {[v \in Live' |-> m[v]] : m \in {n \in Models : Holds(n, l)}}
    BY <1>1, <2>1, RestrictedRelease
  <2>3. l \in Oracle!Literals
    BY <1>6, <2>1
  <2>4. Oracle!Release
    BY <2>1, <2>2, <2>3, OracleIs
  <2>5. pc = "idle" /\ pc' \in {"idle", "add"} /\ UNCHANGED <<assumptions, status, model, conflict>>
    BY <1>9 DEF releaseVar, Insert, task, answer
  <2>6. UNCHANGED <<Query, Sign, model, conflict>>
    BY <1>5, <2>5 DEF Query
  <2> QED BY <1>2, <1>4, <2>4, <2>5, <2>6, OracleNextIs
<1>10. CASE solve
  <2>1. Meant' = Meant
    BY <1>1, <1>10, solveKeeps
  <2>2. /\ UNCHANGED <<next_var, released_vars, free_vars>>
        /\ pc = "idle" /\ pc' \in {"search", "refuse"} /\ model' = <<>> /\ conflict' = {}
    BY <1>10 DEF solve, names
  <2>3. Live' = Live
    BY <2>2 DEF Live
  <2>4. Models' = Models
    BY <1>1, <2>1, <2>3
  <2>5. Query' \subseteq Oracle!Literals
    <3>1. assumptions' \in Seq(Lits) /\ \A i \in DOMAIN assumptions' : Var(assumptions'[i]) \in Live
      BY <1>1, <1>10 DEF solve, SolverInv, TypeOK
    <3>2. \A i \in DOMAIN assumptions' : assumptions'[i] \in Oracle!Literals
      BY <1>6, <3>1
    <3> QED BY <3>2 DEF Query
  <2>6. [sat |-> Sign, model |-> model, conflict |-> conflict]'
          = [sat |-> "asked", model |-> <<>>, conflict |-> {}]
    BY <1>2, <2>2
  <2>7. Oracle!Ask
    BY <2>3, <2>4, <2>5, <2>6, AnswersAre
  <2> QED BY <1>2, <1>4, <2>2, <2>7, OracleNextIs
<1>11. CASE Refuse \/ Contradiction
  <2>1. Meant' = Meant /\ Meant = {}
    BY <1>1, <1>11, ReturnKeeps
  <2>2. /\ UNCHANGED <<next_var, released_vars, free_vars, assumptions, model, conflict>>
        /\ pc \in {"search", "refuse"} /\ pc' = "idle" /\ status' = "l_False"
    BY <1>11 DEF Refuse, Contradiction, names, task
  <2>3. Live' = Live /\ Query' = Query
    BY <2>2 DEF Live, Query
  <2>4. Models = {} /\ Models' = Models
    BY <1>1, <2>1, <2>3 DEF Restricted
  <2>5. model' = <<>> /\ conflict' = {}
    BY <1>3, <2>2 DEF AskedOK
  <2>6. Oracle!AnswerUnsat
    BY <1>2, <2>2, <2>4, <2>5, AnswersAre
  <2> QED BY <1>2, <1>4, <2>2, <2>3, <2>4, <2>6, OracleNextIs
<1>12. ASSUME AssumptionFails \/ ModelFound
       PROVE  /\ UNCHANGED <<Live, Models, Query>>
              /\ pc = "search" /\ pc' = "idle"
              /\ model = <<>> /\ conflict = {}
              /\ \A i \in DOMAIN assumptions : assumptions[i] \in Lits /\ Var(assumptions[i]) \in Live
  <2>1. Meant' = Meant
    BY <1>1, <1>12, AnswerKeeps
  <2>2. /\ UNCHANGED <<next_var, released_vars, free_vars, assumptions>>
        /\ pc = "search" /\ pc' = "idle"
    BY <1>12 DEF AssumptionFails, ModelFound, Ready, names, task
  <2>3. Live' = Live /\ Query' = Query
    BY <2>2 DEF Live, Query
  <2>4. Models' = Models
    BY <1>1, <2>1, <2>3
  <2>5. model = <<>> /\ conflict = {}
    BY <1>3, <2>2 DEF AskedOK
  <2>6. \A i \in DOMAIN assumptions : assumptions[i] \in Lits /\ Var(assumptions[i]) \in Live
    BY <1>3, <2>2 DEF PhaseOK, TypeOK
  <2> QED BY <2>2, <2>3, <2>4, <2>5, <2>6
<1>13. CASE ModelFound
  <2>1. PICK m \in Meant : /\ model' = [v \in Live |-> m[v]]
                           /\ \A i \in DOMAIN assumptions : Holds(m, assumptions[i])
    BY <1>1, <1>13, ModelIs
  <2>2. model' \in Models
    BY <1>1, <2>1 DEF Restricted
  <2>3. ASSUME NEW l \in Query PROVE Holds(model', l)
    <3>1. PICK i \in DOMAIN assumptions : l = assumptions[i]
      BY DEF Query
    <3>2. l \in Lits /\ Var(l) \in Live /\ Holds(m, l)
      BY <1>12, <1>13, <2>1, <3>1
    <3>3. model'[Var(l)] = m[Var(l)]
      BY <2>1, <3>2
    <3> QED BY <3>2, <3>3, HoldsSame
  <2>4. status' = "l_True" /\ conflict' = conflict
    BY <1>13 DEF ModelFound
  <2>5. Oracle!AnswerSat
    BY <1>2, <1>12, <1>13, <2>2, <2>3, <2>4, AnswersAre
  <2> QED BY <1>2, <1>4, <1>12, <1>13, <2>5, OracleNextIs
<1>14. CASE AssumptionFails
  <2>1. /\ \A l \in conflict' : \E i \in DOMAIN assumptions : l = -assumptions[i]
        /\ \A m \in Meant : HoldsOne(m, conflict')
    BY <1>1, <1>14, ConflictIs
  <2>2. conflict' \subseteq {-l : l \in Query}
    BY <2>1 DEF Query
  <2>3. conflict' \in SUBSET Lits /\ VarsOf(conflict') \subseteq Live
    <3>1. ASSUME NEW l \in conflict' PROVE l \in Lits /\ Var(l) \in Live
      <4>1. PICK i \in DOMAIN assumptions : l = -assumptions[i]
        BY <2>1
      <4>2. assumptions[i] \in Lits /\ Var(assumptions[i]) \in Live
        BY <1>12, <1>14
      <4>3. l \in Lits /\ Var(l) = Var(assumptions[i])
        BY <4>1, <4>2, LitFacts
      <4> QED BY <4>2, <4>3
    <3> QED BY <3>1 DEF VarsOf
  <2>4. \A m \in Models : HoldsOne(m, conflict')
    <3>1. PICK c \in SUBSET Lits : c = conflict' /\ VarsOf(c) \subseteq Live
      BY <2>3
    <3>2. Restricted({m \in Meant : HoldsOne(m, c)}, Live) = {m \in Restricted(Meant, Live) : HoldsOne(m, c)}
      BY <3>1, RestrictedClause
    <3>3. {m \in Meant : HoldsOne(m, c)} = Meant
      BY <2>1, <3>1
    <3> QED BY <1>1, <3>1, <3>2, <3>3
  <2>5. status' = "l_False" /\ model' = model
    BY <1>14 DEF AssumptionFails
  <2>6. Oracle!AnswerUnsat
    BY <1>2, <1>12, <1>14, <2>2, <2>4, <2>5, AnswersAre
  <2> QED BY <1>2, <1>4, <1>12, <1>14, <2>6, OracleNextIs
<1>15. CASE Propagate \/ addClauseDone \/ Learn \/ Restart \/ simplify \/ reduceDB \/ Dummy \/ Decide
  <2>1. /\ Live' = Live /\ Restricted(Meant', Live) = Restricted(Meant, Live)
        /\ UNCHANGED <<assumptions, status, model, conflict>>
        /\ pc' \in {"search", "refuse"} <=> pc \in {"search", "refuse"}
    BY <1>1, <1>15, HiddenKeeps
  <2>2. UNCHANGED <<Live, Models, Query>>
    BY <1>1, <2>1 DEF Query
  <2>3. Sign' = Sign
    BY <1>2, <1>5, <2>1
  <2> QED BY <2>1, <2>2, <2>3, OracleNextIs
<1>16. CASE UNCHANGED vars
  <2>1. UNCHANGED <<Live, Models, Query, Sign, model, conflict>>
    <3>1. UNCHANGED <<ok, clauses, learnts, trail, next_var, released_vars, free_vars>>
          /\ UNCHANGED <<pc, assumptions, status, model, conflict>>
      BY <1>16 DEF vars
    <3>2. Live' = Live /\ Query' = Query /\ Sign' = Sign
      BY <3>1 DEF Live, Query, Sign
    <3>3. Meant' = Meant
      BY <3>1, MeantStays
    <3> QED BY <1>1, <3>1, <3>2, <3>3
  <2> QED BY <2>1, OracleNextIs
<1> QED BY <1>7, <1>8, <1>9, <1>10, <1>11, <1>13, <1>14, <1>15, <1>16 DEF Next, Search

(* The mapping is what the invariant says that it is.                      *)
LEMMA MappedIs == OracleInv => Mapped
<1> SUFFICES ASSUME OracleInv PROVE Mapped
  OBVIOUS
<1>1. Signs
  BY SignIs, PartsAre DEF Signs
<1> QED BY <1>1, ModelsAre DEF Mapped

(* The solver implements the oracle: a model that it returns satisfies the *)
(* clauses and the assumptions, a conflict names assumptions that          *)
(* contradict them, and nothing that it does on its own changes the models.*)
THEOREM SolverImplements == Spec => ImplementsOracle
<1>1. Mapped /\ Mapped' /\ [Next]_vars => [Oracle!Next]_Oracle!vars
  BY OracleStep
<1> QED BY <1>1, MappedIs, OracleInit, OracleInvHolds, PTL DEF Spec, ImplementsOracle, Oracle!Spec

=============================================================================

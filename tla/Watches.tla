------------------------------ MODULE Watches ------------------------------
(***************************************************************************)
(* How propagate() finds the clauses that are unit or false                *)
(* (minisat/core/Solver.cc:506-564): every clause is in the watch lists of *)
(* two of its literals only, and moves between lists while the lists are   *)
(* visited.  Clauses are learnt and forgotten, and decisions undone, while *)
(* the lists stay as they are.                                             *)
(*                                                                         *)
(* One action is one visit of a watcher.  What search() does between the   *)
(* calls of propagate() is left open as far as the lists do not see it:    *)
(* any literal may be decided, and any clause learnt that meets the        *)
(* postconditions of analyze().                                            *)
(***************************************************************************)
EXTENDS Integers, Sequences, FiniteSets, SequencesExt

CONSTANTS
    MaxVar,         \* the variables are 1 .. MaxVar
    Problems,       \* the sequences of clauses that may be there at first
    MaxClauses,     \* bound: the clauses allocated
    MaxForgotten,   \* bound: the clauses removed
    MaxCancels      \* bound: the calls of cancelUntil

Vars == 1 .. MaxVar
Lits == Vars \cup {-v : v \in Vars}
Var(l) == IF l < 0 THEN -l ELSE l

ASSUME WatchesAssumption ==
    /\ MaxVar \in Nat /\ MaxClauses \in Nat /\ MaxForgotten \in Nat /\ MaxCancels \in Nat
    /\ Problems \subseteq Seq(Seq(Lits))
    /\ \A P \in Problems : \A c \in DOMAIN P :
          /\ Len(P[c]) > 1
          /\ \A i, j \in DOMAIN P[c] : i # j => Var(P[c][i]) # Var(P[c][j])

VARIABLES
    ca,         \* the clauses by reference, <<>> for a removed one
    watches,    \* for each literal, the watchers of clauses with its negation
    dirty,      \* literals whose lists may have watchers of removed clauses
    trail,      \* the literals that are true, with level and reason (0: none)
    trail_lim,  \* the length of the trail below each decision
    qhead,      \* the literals of the trail that were propagated
    cur,        \* the literal being propagated, or 0
    todo,       \* its watchers still to visit; watches[cur] are those kept
    confl,      \* the clause found false, or 0
    cancels     \* the calls of cancelUntil so far

vars == <<ca, watches, dirty, trail, trail_lim, qhead, cur, todo, confl, cancels>>

Watcher(cr, l) == [cref |-> cr, blocker |-> l]
Entry(l, lev, from) == [lit |-> l, level |-> lev, reason |-> from]

TrueLits  == {trail[i].lit : i \in DOMAIN trail}
IsTrue(l)  == l \in TrueLits
IsFalse(l) == -l \in TrueLits
level(l)   == trail[CHOOSE i \in DOMAIN trail : Var(trail[i].lit) = Var(l)].level
decisionLevel == Len(trail_lim)

Live == {cr \in DOMAIN ca : ca[cr] # <<>>}

\* Seeded fault: a clause is put in the list of one literal only.
AttachedOnce(w, cr, c) == [w EXCEPT ![-c[1]] = Append(@, Watcher(cr, c[2]))]

\* attachClause
Attached(w, cr, c) ==
    [w EXCEPT ![-c[1]] = Append(@, Watcher(cr, c[2])),
              ![-c[2]] = Append(@, Watcher(cr, c[1]))]

Init ==
    /\ ca \in Problems
    /\ LET lists[k \in 0 .. Len(ca)] ==
             IF k = 0 THEN [l \in Lits |-> <<>>] ELSE Attached(lists[k - 1], k, ca[k])
       IN  watches = lists[Len(ca)]
    /\ dirty = {}
    /\ trail = <<>> /\ trail_lim = <<>> /\ qhead = 0
    /\ cur = 0 /\ todo = <<>> /\ confl = 0 /\ cancels = 0

-----------------------------------------------------------------------------
(* propagate()                                                             *)

\* OccLists::clean: the watchers of clauses that are still there, in order.
Cleaned(seq) ==
    LET kept[k \in 0 .. Len(seq)] ==
          IF k = 0 THEN <<>>
          ELSE IF seq[k].cref \in Live THEN Append(kept[k-1], seq[k]) ELSE kept[k-1]
    IN  kept[Len(seq)]

\* The next literal: its list is cleaned of removed clauses, and visited.
Dequeue ==
    /\ cur = 0 /\ qhead < Len(trail)
    /\ LET p == trail[qhead + 1].lit
       IN  /\ cur' = p
           /\ todo' = IF p \in dirty THEN Cleaned(watches[p]) ELSE watches[p]
           /\ watches' = [watches EXCEPT ![p] = <<>>]
           /\ dirty' = dirty \ {p}
    /\ qhead' = qhead + 1
    /\ UNCHANGED <<ca, trail, trail_lim, confl, cancels>>

Visiting == cur # 0 /\ todo # <<>>
w  == Head(todo)
cr == w.cref

\* The clause with the false literal, which is the negation of cur, in second place.
Turned == IF ca[cr][1] = -cur THEN [ca[cr] EXCEPT ![1] = ca[cr][2], ![2] = ca[cr][1]] ELSE ca[cr]
first  == Turned[1]
Free   == {k \in 3 .. Len(Turned) : ~ IsFalse(Turned[k])}

Keep(x) == watches' = [watches EXCEPT ![cur] = Append(@, x)]

\* The blocker is true: the clause is not looked at.
VisitBlocked ==
    /\ Visiting
    /\ IsTrue(w.blocker)
    /\ Keep(w)
    /\ todo' = Tail(todo)
    /\ UNCHANGED <<ca, dirty, trail, trail_lim, qhead, cur, confl, cancels>>

\* The other literal watched is true.
VisitTrue ==
    /\ Visiting
    /\ ~ IsTrue(w.blocker) /\ IsTrue(first)
    /\ ca' = [ca EXCEPT ![cr] = Turned]
    /\ Keep(Watcher(cr, first))
    /\ todo' = Tail(todo)
    /\ UNCHANGED <<dirty, trail, trail_lim, qhead, cur, confl, cancels>>

\* Another literal, not false, is watched in place of the false one.
VisitMove ==
    /\ Visiting
    /\ ~ IsTrue(w.blocker) /\ ~ IsTrue(first)
    /\ \E k \in Free :
         /\ \A j \in Free : k <= j
         /\ ca' = [ca EXCEPT ![cr] = [Turned EXCEPT ![2] = Turned[k], ![k] = Turned[2]]]
         /\ watches' = [watches EXCEPT ![-Turned[k]] = Append(@, Watcher(cr, first))]
    /\ todo' = Tail(todo)
    /\ UNCHANGED <<dirty, trail, trail_lim, qhead, cur, confl, cancels>>

\* There is none, and the clause is unit.
VisitUnit ==
    /\ Visiting
    /\ ~ IsTrue(w.blocker) /\ ~ IsTrue(first) /\ Free = {} /\ ~ IsFalse(first)
    /\ ca' = [ca EXCEPT ![cr] = Turned]
    /\ Keep(Watcher(cr, first))
    /\ trail' = Append(trail, Entry(first, decisionLevel, cr))
    /\ todo' = Tail(todo)
    /\ UNCHANGED <<dirty, trail_lim, qhead, cur, confl, cancels>>

\* Seeded fault: the watchers not visited yet are lost.
VisitFalseDrops ==
    /\ Visiting
    /\ ~ IsTrue(w.blocker) /\ Free = {} /\ IsFalse(first)
    /\ ca' = [ca EXCEPT ![cr] = Turned]
    /\ Keep(Watcher(cr, first))
    /\ todo' = <<>>
    /\ confl' = cr
    /\ qhead' = Len(trail)
    /\ UNCHANGED <<dirty, trail, trail_lim, cur, cancels>>

\* It is false: the rest of the list is kept, and the rest of the trail left.
VisitFalse ==
    /\ Visiting
    /\ ~ IsTrue(w.blocker) /\ Free = {} /\ IsFalse(first)
    /\ ca' = [ca EXCEPT ![cr] = Turned]
    /\ watches' = [watches EXCEPT ![cur] = @ \o <<Watcher(cr, first)>> \o Tail(todo)]
    /\ todo' = <<>>
    /\ confl' = cr
    /\ qhead' = Len(trail)
    /\ UNCHANGED <<dirty, trail, trail_lim, cur, cancels>>

Dequeued ==
    /\ cur # 0 /\ todo = <<>>
    /\ cur' = 0
    /\ UNCHANGED <<ca, watches, dirty, trail, trail_lim, qhead, todo, confl, cancels>>

-----------------------------------------------------------------------------
(* What search() does when propagate() has returned.                       *)

Returned == cur = 0 /\ qhead = Len(trail)

Decide ==
    /\ Returned /\ confl = 0
    /\ \E l \in Lits :
         /\ ~ IsTrue(l) /\ ~ IsFalse(l)
         /\ trail' = Append(trail, Entry(l, decisionLevel + 1, 0))
    /\ trail_lim' = Append(trail_lim, Len(trail))
    /\ UNCHANGED <<ca, watches, dirty, qhead, cur, todo, confl, cancels>>

\* cancelUntil(lev), followed by the literals of 'then'.
Cancel(lev, then) ==
    /\ cancels < MaxCancels
    /\ cancels' = cancels + 1
    /\ trail' = SubSeq(trail, 1, trail_lim[lev + 1]) \o then
    /\ trail_lim' = SubSeq(trail_lim, 1, lev)
    /\ qhead' = trail_lim[lev + 1]

Restart ==
    /\ Returned /\ confl = 0
    /\ decisionLevel > 0
    /\ Cancel(0, <<>>)
    /\ UNCHANGED <<ca, watches, dirty, cur, todo, confl>>

\* After a conflict: all literals of the clause learnt are false, one is of the
\* last level, and becomes true at the level of the next one.  It is the first of
\* the clause, and one of the next highest level is the second.
Learn ==
    /\ Returned /\ confl # 0
    /\ decisionLevel > 0
    /\ Len(ca) < MaxClauses
    /\ \E l \in {-k : k \in TrueLits} :
         /\ level(l) = decisionLevel
         /\ \E rest \in (SUBSET {-k : k \in TrueLits}) \ {{}} :
              /\ \A k \in rest : level(k) \in 1 .. decisionLevel - 1
              /\ \E others \in SetToSeqs(rest) :
                   LET c   == <<l>> \o others
                       new == Len(ca) + 1
                       lev == level(others[1])
                   IN  /\ \A k \in rest : level(k) <= lev
                       /\ ca' = Append(ca, c)
                       /\ watches' = Attached(watches, new, c)
                       /\ Cancel(lev, <<Entry(l, lev, new)>>)
    /\ confl' = 0
    /\ UNCHANGED <<dirty, cur, todo>>

\* A clause of one literal is not stored.
LearnUnit ==
    /\ Returned /\ confl # 0
    /\ decisionLevel > 0
    /\ \E l \in {-k : k \in TrueLits} :
         /\ level(l) = decisionLevel
         /\ Cancel(0, <<Entry(l, 0, 0)>>)
    /\ confl' = 0
    /\ UNCHANGED <<ca, watches, dirty, cur, todo>>

locked(c) == \E i \in DOMAIN trail : trail[i].reason = c /\ trail[i].lit = ca[c][1]

\* removeClause: its watchers stay, in lists marked as dirty.
Forget ==
    /\ Returned /\ confl = 0
    /\ Cardinality(DOMAIN ca \ Live) < MaxForgotten
    /\ \E c \in Live :
         /\ ~ locked(c)
         /\ dirty' = dirty \cup {-ca[c][1], -ca[c][2]}
         /\ ca' = [ca EXCEPT ![c] = <<>>]
    /\ UNCHANGED <<watches, trail, trail_lim, qhead, cur, todo, confl, cancels>>

-----------------------------------------------------------------------------

Next ==
    \/ Dequeue \/ VisitBlocked \/ VisitTrue \/ VisitMove \/ VisitUnit \/ VisitFalse \/ Dequeued
    \/ Decide \/ Restart \/ Learn \/ LearnUnit \/ Forget

Spec == Init /\ [][Next]_vars

-----------------------------------------------------------------------------

(* Propagation misses nothing: when it returns without a conflict, no      *)
(* clause is false or unit, although only two literals of each are watched,*)
(* the lists were not touched when decisions were undone, and some visits  *)
(* ended at the blocker (Solver.cc:506-564).                               *)
NothingMissed ==
    Returned /\ confl = 0 =>
       \A c \in Live :
          \/ \E k \in DOMAIN ca[c] : IsTrue(ca[c][k])
          \/ \E j, k \in DOMAIN ca[c] : j # k /\ ~ IsFalse(ca[c][j]) /\ ~ IsFalse(ca[c][k])

(* Each clause is in the lists of its first two literals and no others,    *)
(* once in each, and its blockers are literals of it: detachClause marks   *)
(* only these two lists.  No visit comes to a clause that was removed      *)
(* (Solver.cc:194-219).                                                    *)
WatchedTwice ==
    /\ cur = 0 =>
         \A c \in Live, l \in Lits :
            LET places == {k \in DOMAIN watches[l] : watches[l][k].cref = c}
            IN  /\ Cardinality(places) = IF l \in {-ca[c][1], -ca[c][2]} THEN 1 ELSE 0
                /\ \A k \in places : watches[l][k].blocker \in ToSet(ca[c])
    /\ \A k \in DOMAIN todo : todo[k].cref \in Live

=============================================================================

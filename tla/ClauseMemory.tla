---------------------------- MODULE ClauseMemory ----------------------------
(***************************************************************************)
(* Where the solvers keep their clauses: a region of 32-bit words that only*)
(* grows (mtl/Alloc.h, ClauseAllocator of core/SolverTypes.h), and that is *)
(* copied to a new one, without the clauses removed, when too much of it is*)
(* wasted (relocAll of core/Solver.cc and simp/SimpSolver.cc).  A reference*)
(* is an offset: the same number is another clause after the copy.         *)
(*                                                                         *)
(* The rest of the solver is left open: any clause may be added, learnt    *)
(* when it is unit, removed, or shortened, and the decision levels are not *)
(* here.  Every clause has a number that its copies keep, which the code   *)
(* does not have.                                                          *)
(***************************************************************************)
EXTENDS Integers, Sequences, FiniteSets, SequencesExt, FiniteSetsExt

CONSTANTS
    Width,          \* the bits of a reference (32 in the program)
    MaxVar,         \* the variables are 1 .. MaxVar
    Added,          \* the clauses that may be added or learnt
    Decided,        \* the literals that may become true without a reason
    MaxClauses,     \* bound: the clauses made
    MaxQueue        \* bound: the length of the queue

Vars == 1 .. MaxVar
Lits == Vars \cup {-v : v \in Vars}
Var(l) == IF l < 0 THEN -l ELSE l

Words == 2 ^ Width

\* A clause is shorter than a region may be (the code has 27 bits for its size).
ASSUME ClauseMemoryAssumption ==
    /\ Width \in Nat /\ Words \in Nat /\ Words > 3
    /\ MaxVar \in Nat /\ MaxClauses \in Nat /\ MaxQueue \in Nat
    /\ Decided \subseteq Lits
    /\ Added \subseteq Seq(Lits)
    /\ \A c \in Added : /\ Len(c) > 1 /\ Len(c) + 2 < Words
                        /\ \A i, j \in DOMAIN c : i # j => Var(c[i]) # Var(c[j])

VARIABLES
    ca,                 \* the region
    clauses, learnts,   \* references of clauses
    watches,            \* for each literal, those of clauses that watch its negation
    dirty,              \* literals whose lists may have removed clauses
    occurs,             \* for each variable, those of clauses with it
    subsumption_queue,  \* clauses to check others against
    bwdsub_tmpunit,     \* the clause of one literal that is used for facts
    trail,              \* the literals that are true, and their reasons
    use_simplification, \* preprocessing has not ended
    made                \* the clauses made so far

vars == <<ca, clauses, learnts, watches, dirty, occurs, subsumption_queue,
          bwdsub_tmpunit, trail, use_simplification, made>>

\* The whole state as a record, for what is done to it clause after clause.
State == [ca |-> ca, clauses |-> clauses, learnts |-> learnts, watches |-> watches,
          dirty |-> dirty, occurs |-> occurs, queue |-> subsumption_queue,
          tmpunit |-> bwdsub_tmpunit, trail |-> trail, simp |-> use_simplification]
Becomes(s) ==
    /\ ca' = s.ca /\ clauses' = s.clauses /\ learnts' = s.learnts
    /\ watches' = s.watches /\ dirty' = s.dirty /\ occurs' = s.occurs
    /\ subsumption_queue' = s.queue /\ bwdsub_tmpunit' = s.tmpunit
    /\ trail' = s.trail /\ use_simplification' = s.simp

Undef == -1                 \* CRef_Undef
IsTrue(l)  == \E i \in DOMAIN trail : trail[i].lit = l
IsFalse(l) == IsTrue(-l)

-----------------------------------------------------------------------------
(* RegionAllocator and ClauseAllocator                                     *)

\* capacity(min_cap): grow by 13/8, until it is enough or the number overflows;
\* then OutOfMemoryException is thrown.
None == -1
Grown(cap) == (cap + ((cap \div 2 + cap \div 8 + 2) \div 2) * 2) % Words
Capacity(from, min) ==
    LET enough[cap \in 0 .. Words] ==
            IF cap >= min THEN cap
            ELSE IF Grown(cap) <= cap THEN None ELSE enough[Grown(cap)]
    IN  enough[from]

\* A region: what is at each offset, the words used, those there are, and those
\* of clauses removed.
Region(cap, extra) == [mem |-> << >>, sz |-> 0, cap |-> Capacity(0, cap), wasted |-> 0,
                       extra_clause_field |-> extra]
OutOfMemory(g) == g.cap = None

clauseWord32Size(c) == 1 + Len(c.lits) + (IF c.has_extra THEN 1 ELSE 0)

\* alloc, of a clause or a copy of one, at the end of the region.
Alloc(g, c) ==
    LET new == [c EXCEPT !.has_extra = c.learnt \/ g.extra_clause_field, !.reloced = FALSE]
        sz  == (g.sz + clauseWord32Size(new)) % Words
        cap == Capacity(g.cap, sz)
    IN  IF OutOfMemory(g) \/ cap = None \/ sz < g.sz THEN [g EXCEPT !.cap = None]
        ELSE [g EXCEPT !.mem = [r \in DOMAIN g.mem \cup {g.sz} |-> IF r = g.sz THEN new ELSE g.mem[r]],
                       !.sz = sz, !.cap = cap]

Clause(id, lits, learnt) ==
    [id |-> id, lits |-> lits, learnt |-> learnt, has_extra |-> FALSE, removed |-> FALSE,
     reloced |-> FALSE, relocation |-> Undef]

\* What is done to s for the elements of a list, in turn.
Each(Do(_, _), s, list) ==
    LET after[n \in 0 .. Len(list)] == IF n = 0 THEN s ELSE Do(after[n - 1], list[n])
    IN  after[Len(list)]

\* A list without some of its elements, and without the clauses removed.
Without(list, gone) == Each(LAMBDA rest, x : IF x \in gone THEN rest ELSE Append(rest, x), <<>>, list)
Clean(g, list)      == Without(list, {r \in DOMAIN g.mem : g.mem[r].removed})

Locked(s, r)   == \E i \in DOMAIN s.trail : s.trail[i].reason = r /\ s.trail[i].lit = s.ca.mem[r].lits[1]
LiveRefs       == {r \in DOMAIN ca.mem : ~ ca.mem[r].removed /\ ca.mem[r].id > 0}
Running        == ~ OutOfMemory(ca)

\* SimpSolver(): the unit clause, which has no literal yet, is the first.
Init ==
    /\ ca = Alloc(Region(2, TRUE), Clause(0, <<0>>, FALSE))
    /\ bwdsub_tmpunit = 0
    /\ clauses = <<>> /\ learnts = <<>>
    /\ watches = [l \in Lits |-> <<>>] /\ dirty = {}
    /\ occurs = [v \in Vars |-> <<>>] /\ subsumption_queue = <<>>
    /\ trail = <<>>
    /\ use_simplification = TRUE
    /\ made = 0

-----------------------------------------------------------------------------
(* garbageCollect.  A move is the old region and the new one.              *)

\* The clause is copied, and remembers where to.
Copy(m, r) == [ca |-> [m.ca EXCEPT !.mem[r].reloced = TRUE, !.mem[r].relocation = m.to.sz],
               to |-> Alloc(m.to, m.ca.mem[r])]

\* ca.reloc(cr, to): the first reference to a clause copies it.
Reloc(m, r)   == IF m.ca.mem[r].reloced THEN m ELSE Copy(m, r)

\* All references of a list, and of all lists, in turn; what they become.
Move(m, list)     == Each(Reloc, m, list)
MoveAll(m, lists) == Each(Move, m, lists)
Moved(m, list)    == [i \in DOMAIN list |-> m.ca.mem[list[i]].relocation]

\* 1, -1, 2, -2 ...
LitSeq == [i \in 1 .. 2 * MaxVar |-> IF i % 2 = 1 THEN (i + 1) \div 2 ELSE -(i \div 2)]

\* The lists as they are when they are moved.
CleanOccurs(s)  == [v \in Vars |-> Clean(s.ca, s.occurs[v])]
CleanWatches(s) == [l \in Lits |-> IF l \in s.dirty THEN Clean(s.ca, s.watches[l]) ELSE s.watches[l]]

\* SimpSolver::relocAll: occurrences, queue and unit clause.
MoveSimp(m, s) ==
    IF s.simp THEN Move(MoveAll(m, CleanOccurs(s)), Append(Clean(s.ca, s.queue), s.tmpunit)) ELSE m

\* Seeded fault: a reason that was moved already stays what it was.
MovesReasonOnce(m, s, r) == r # Undef /\ ~ m.ca.mem[r].reloced /\ Locked(s, r)

\* The reasons to move: locked() cannot be asked of a clause that was moved.
MovesReason(m, s, r) == r # Undef /\ (m.ca.mem[r].reloced \/ Locked(s, r))

MoveReasons(m, s) ==
    Each(LAMBDA n, e : IF MovesReason(n, s, e.reason) THEN Reloc(n, e.reason) ELSE n, m, s.trail)

\* What preprocessing has, watch lists, reasons, learnt clauses, the others.
garbageCollect(s) ==
    LET start   == [ca |-> s.ca, to |-> Region(s.ca.sz - s.ca.wasted, s.ca.extra_clause_field)]
        watched == MoveAll(MoveSimp(start, s), [i \in DOMAIN LitSeq |-> CleanWatches(s)[LitSeq[i]]])
        kept    == <<Clean(s.ca, s.learnts), Clean(s.ca, s.clauses)>>
        m       == MoveAll(MoveReasons(watched, s), kept)
        new(r)  == m.ca.mem[r].relocation
        because(e) == IF MovesReason(watched, s, e.reason) THEN [e EXCEPT !.reason = new(e.reason)] ELSE e
    IN  [s EXCEPT !.ca = m.to, !.learnts = Moved(m, kept[1]), !.clauses = Moved(m, kept[2]),
                  !.watches = [l \in Lits |-> Moved(m, CleanWatches(s)[l])], !.dirty = {},
                  !.trail = [i \in DOMAIN @ |-> because(@[i])],
                  !.occurs = IF s.simp THEN [v \in Vars |-> Moved(m, CleanOccurs(s)[v])] ELSE @,
                  !.queue = IF s.simp THEN Moved(m, Clean(s.ca, @)) ELSE @,
                  !.tmpunit = IF s.simp THEN new(@) ELSE @]

\* checkGarbage: one part in n of the region is wasted.
checkGarbage(s, n) == IF n * s.ca.wasted > s.ca.sz THEN garbageCollect(s) ELSE s

-----------------------------------------------------------------------------
(* What the solvers do with clauses.                                       *)

Attach(w, r, c) == [w EXCEPT ![-c[1]] = Append(@, r), ![-c[2]] = Append(@, r)]
Detach(w, r, c) == [w EXCEPT ![-c[1]] = Without(@, {r}), ![-c[2]] = Without(@, {r})]
New             == Running /\ made < MaxClauses /\ made' = made + 1
Because(l, r)   == Append(trail, [lit |-> l, reason |-> r])

\* addClause, of a clause no literal of which has a value.
addClause ==
    /\ New
    /\ Len(subsumption_queue) < MaxQueue
    /\ \E c \in Added :
         /\ \A k \in DOMAIN c : ~ IsTrue(c[k]) /\ ~ IsFalse(c[k])
         /\ ca' = Alloc(ca, Clause(made', c, FALSE))
         /\ clauses' = Append(clauses, ca.sz)
         /\ watches' = Attach(watches, ca.sz, c)
         /\ IF use_simplification
            THEN /\ subsumption_queue' = Append(subsumption_queue, ca.sz)
                 /\ occurs' = [v \in Vars |-> IF v \in {Var(l) : l \in ToSet(c)}
                                              THEN Append(occurs[v], ca.sz) ELSE occurs[v]]
            ELSE UNCHANGED <<subsumption_queue, occurs>>
    /\ UNCHANGED <<learnts, dirty, bwdsub_tmpunit, trail, use_simplification>>

\* search() learns a clause that is unit, and makes it the reason of its literal.
learn ==
    /\ New /\ ~ use_simplification
    /\ \E c \in Added :
         /\ ~ IsTrue(c[1]) /\ \A k \in DOMAIN c : IsFalse(c[k]) <=> k > 1
         /\ ca' = Alloc(ca, Clause(made', c, TRUE))
         /\ learnts' = Append(learnts, ca.sz)
         /\ watches' = Attach(watches, ca.sz, c)
         /\ trail' = Because(c[1], ca.sz)
    /\ UNCHANGED <<clauses, dirty, occurs, subsumption_queue, bwdsub_tmpunit, use_simplification>>

\* A literal becomes true by itself.
enqueue ==
    /\ Running
    /\ \E l \in Decided : ~ IsTrue(l) /\ ~ IsFalse(l) /\ trail' = Because(l, Undef)
    /\ UNCHANGED <<ca, clauses, learnts, watches, dirty, occurs, subsumption_queue,
                   bwdsub_tmpunit, use_simplification, made>>

\* propagate() visits a clause one of whose two watched literals is false, and
\* puts it second: if the other is not true, a literal that is not false takes
\* its place, or the other becomes true because of the clause.
propagate ==
    /\ Running
    /\ \E r \in LiveRefs : \E i \in {1, 2} :
         LET c     == ca.mem[r].lits
             other == c[3 - i]
             here  == [c EXCEPT ![1] = other, ![2] = c[i]]
             free  == {k \in 3 .. Len(c) : ~ IsFalse(c[k])}
         IN  /\ IsFalse(c[i]) /\ ~ IsTrue(other)
             /\ IF free # {}
                THEN LET k == Min(free)
                     IN  /\ ca' = [ca EXCEPT !.mem[r].lits = [here EXCEPT ![2] = c[k], ![k] = c[i]]]
                         /\ watches' = [watches EXCEPT ![-c[i]] = Without(@, {r}), ![-c[k]] = Append(@, r)]
                         /\ UNCHANGED trail
                ELSE /\ ca' = [ca EXCEPT !.mem[r].lits = here]
                     /\ trail' = IF IsFalse(other) THEN trail ELSE Because(other, r)
                     /\ UNCHANGED watches
    /\ UNCHANGED <<clauses, learnts, dirty, occurs, subsumption_queue, bwdsub_tmpunit,
                   use_simplification, made>>

\* cancelUntil; while there is preprocessing, nothing is undone.
cancelUntil ==
    /\ Running /\ ~ use_simplification
    /\ \E n \in 0 .. Len(trail) - 1 : trail' = SubSeq(trail, 1, n)
    /\ UNCHANGED <<ca, clauses, learnts, watches, dirty, occurs, subsumption_queue,
                   bwdsub_tmpunit, use_simplification, made>>

\* Seeded fault: the clause remains the reason of its literal.
RemoveClauseReason(s, r) ==
    [s EXCEPT !.dirty = @ \cup {-s.ca.mem[r].lits[1], -s.ca.mem[r].lits[2]},
              !.ca.mem[r].removed = TRUE,
              !.ca.wasted = @ + clauseWord32Size(s.ca.mem[r])]

\* removeClause: the clause is detached when its lists are looked up next, and
\* is the reason of its literal no more.
RemoveClause(s, r) ==
    [s EXCEPT !.dirty = @ \cup {-s.ca.mem[r].lits[1], -s.ca.mem[r].lits[2]},
              !.trail = [i \in DOMAIN @ |-> IF Locked(s, r) /\ @[i].reason = r
                                            THEN [@[i] EXCEPT !.reason = Undef] ELSE @[i]],
              !.ca.mem[r].removed = TRUE,
              !.ca.wasted = @ + clauseWord32Size(s.ca.mem[r])]

\* Clauses of a list go: the state, and what is left of the list.
RemoveAll(s, list, gone) ==
    [state |-> Each(LAMBDA t, r : IF r \in gone THEN RemoveClause(t, r) ELSE t, s, list),
     rest  |-> Without(list, gone)]

\* reduceDB: learnt clauses are forgotten.
reduceDB ==
    /\ Running
    /\ \E gone \in SUBSET {r \in ToSet(learnts) : Len(ca.mem[r].lits) > 2 /\ ~ Locked(State, r)} :
         LET x == RemoveAll(State, learnts, gone)
         IN  Becomes(checkGarbage([x.state EXCEPT !.learnts = x.rest], 5))
    /\ UNCHANGED made

\* removeSatisfied: clauses that are true go, and others lose the false literals
\* after the second (the order of those left does not matter).
Satisfied(r) == \E k \in DOMAIN ca.mem[r].lits : IsTrue(ca.mem[r].lits[k])
Unassigned(l) == ~ IsTrue(l) /\ ~ IsFalse(l)
Trim(g, r) ==
    LET c == g.mem[r].lits
    IN  IF Unassigned(c[1]) /\ Unassigned(c[2])
        THEN [g EXCEPT !.mem[r].lits = Without(c, {l \in ToSet(c) : IsFalse(l)})]
        ELSE g

\* simplify(): of both lists (of preprocessing there are no learnt clauses, and
\* the others are not removed).
simplify ==
    /\ Running
    /\ LET lea == RemoveAll(State, learnts, {r \in ToSet(learnts) : Satisfied(r)})
           cls == IF use_simplification THEN [state |-> lea.state, rest |-> clauses]
                  ELSE RemoveAll(lea.state, clauses, {r \in ToSet(clauses) : Satisfied(r)})
           own == IF use_simplification THEN <<>> ELSE lea.rest \o cls.rest
       IN  Becomes(checkGarbage([cls.state EXCEPT !.ca = Each(Trim, @, own),
                                                  !.learnts = lea.rest, !.clauses = cls.rest], 5))
    /\ UNCHANGED made

\* Seeded fault: a clause that was removed is found again.
Found(v) == ToSet(occurs[v])

\* The clauses with a variable, looked up: those removed are not among them.
Lookup(v) == ToSet(Clean(ca, occurs[v]))

\* Preprocessing removes a clause, which stays in the lists.
subsume ==
    /\ Running /\ use_simplification
    /\ \E v \in Vars : \E r \in Lookup(v) : Becomes(RemoveClause(State, r))
    /\ UNCHANGED made

\* strengthenClause: a literal that is not true is taken out of a clause.  One of
\* two literals is removed, before it is made shorter.
strengthenClause ==
    /\ Running /\ use_simplification
    /\ Len(subsumption_queue) < MaxQueue
    /\ \E v \in Vars : \E r \in Lookup(v) : \E k \in DOMAIN ca.mem[r].lits :
         LET c    == ca.mem[r].lits
             rest == RemoveAt(c, k)
             todo == [State EXCEPT !.queue = Append(@, r)]
             gone == [RemoveClause(todo, r) EXCEPT !.ca.mem[r].lits = rest]
         IN  /\ Var(c[k]) = v /\ ~ IsTrue(c[k])
             /\ IF Len(c) = 2
                THEN Becomes([gone EXCEPT !.trail = IF Unassigned(rest[1])
                                                    THEN Append(@, [lit |-> rest[1], reason |-> Undef])
                                                    ELSE @])
                ELSE Becomes([todo EXCEPT !.ca.mem[r].lits = rest,
                                          !.watches = Attach(Detach(@, r, c), r, rest),
                                          !.occurs[v] = Without(@, {r})])
    /\ UNCHANGED made

\* backwardSubsumptionCheck takes the next clause off the queue.
dequeue ==
    /\ Running /\ subsumption_queue # <<>>
    /\ subsumption_queue' = Tail(subsumption_queue)
    /\ UNCHANGED <<ca, clauses, learnts, watches, dirty, occurs, bwdsub_tmpunit, trail,
                   use_simplification, made>>

\* propagate() looks up the list of a true literal, which is cleaned if it has to be.
lookup ==
    /\ Running
    /\ \E l \in {d \in dirty : IsTrue(d)} :
         /\ watches' = [watches EXCEPT ![l] = Clean(ca, @)]
         /\ dirty' = dirty \ {l}
    /\ UNCHANGED <<ca, clauses, learnts, occurs, subsumption_queue, bwdsub_tmpunit, trail,
                   use_simplification, made>>

\* eliminate() has treated a variable.
eliminated ==
    /\ Running /\ use_simplification
    /\ Becomes(checkGarbage(State, 2))
    /\ UNCHANGED made

\* The end of eliminate(true): what only preprocessing needs is let go, and the
\* region is copied in any case.
eliminate ==
    /\ Running /\ use_simplification
    /\ Becomes(garbageCollect([State EXCEPT !.occurs = [v \in Vars |-> <<>>], !.queue = <<>>,
                                            !.simp = FALSE, !.ca.extra_clause_field = FALSE]))
    /\ UNCHANGED made

Next ==
    \/ addClause \/ learn \/ enqueue \/ propagate \/ cancelUntil
    \/ reduceDB \/ simplify
    \/ subsume \/ strengthenClause \/ dequeue \/ eliminated \/ eliminate
    \/ lookup

Spec == Init /\ [][Next]_vars

-----------------------------------------------------------------------------
(* Properties                                                              *)

\* Every reference the solver may still follow is the offset of a clause of the
\* region (RegionAllocator::operator[] asserts no more than r < sz).  A clause
\* not removed is in the watch lists of its first two literals and in no other,
\* and in the occurrences of its variables while there is preprocessing; removed
\* ones are only in lists that will be cleaned; a reason is not removed, and
\* begins with its literal.
RefsValid ==
    Running =>
        LET mem   == ca.mem
            lists == {clauses, learnts} \cup {watches[l] : l \in Lits}
            simp  == {occurs[v] : v \in Vars} \cup {subsumption_queue, <<bwdsub_tmpunit>>}
        IN  /\ \A list \in lists \cup (IF use_simplification THEN simp ELSE {}) :
                 ToSet(list) \subseteq DOMAIN mem
            /\ \A r \in DOMAIN mem : ~ mem[r].reloced
            /\ \A l \in Lits : LET live == Clean(ca, watches[l])
                               IN  /\ ToSet(live) = {r \in LiveRefs : -l \in {mem[r].lits[1], mem[r].lits[2]}}
                                   /\ Len(live) = Cardinality(ToSet(live))
                                   /\ live = watches[l] \/ l \in dirty
            /\ use_simplification =>
                 \A v \in Vars : Lookup(v) = {r \in LiveRefs : v \in {Var(l) : l \in ToSet(mem[r].lits)}}
            /\ \A i \in DOMAIN trail :
                 trail[i].reason # Undef => /\ trail[i].reason \in LiveRefs
                                            /\ mem[trail[i].reason].lits[1] = trail[i].lit

\* The words of the clauses that are not removed, by offset, and their number.
LiveWords(g) == [r \in 0 .. g.sz - 1 |->
                   IF r \in DOMAIN g.mem /\ ~ g.mem[r].removed THEN clauseWord32Size(g.mem[r]) ELSE 0]
Total(f, n)  == LET sum[k \in 0 .. n] == IF k = 0 THEN 0 ELSE sum[k - 1] + f[k - 1] IN sum[n]

\* The words that are used and not counted as wasted are enough for the clauses
\* not removed (each is freed once): a collection asks for a region of that size.
MemoryAccounted ==
    Running => /\ ca.sz <= ca.cap
               /\ Total(LiveWords(ca), ca.sz) <= ca.sz - ca.wasted

\* The copy of a region has every clause once and none that was removed, fits in
\* what was not wasted, and never runs out of memory.
Copied    == ca'.sz < ca.sz
Collected ==
    [][Copied =>
        /\ ~ OutOfMemory(ca') /\ ca'.cap <= ca.cap
        /\ ca'.wasted = 0 /\ ca'.sz <= ca.sz - ca.wasted
        /\ \A r \in DOMAIN ca'.mem : ~ ca'.mem[r].removed
        /\ \A r, q \in DOMAIN ca'.mem : ca'.mem[r].id = ca'.mem[q].id => r = q]_vars

\* What the solver has, without offsets: the numbers of the clauses in each list,
\* those with numbers in "kept" only, and of the reasons.
Number(r) == IF r \in DOMAIN ca.mem THEN ca.mem[r].id ELSE Undef
Numbers(list, kept) == Without([i \in DOMAIN list |-> Number(list[i])], Int \ kept)
View(kept) ==
    [clauses |-> Numbers(clauses, kept), learnts |-> Numbers(learnts, kept),
     watches |-> [l \in Lits |-> Numbers(watches[l], kept)],
     reasons |-> [i \in DOMAIN trail |-> Numbers(<<trail[i].reason>>, kept)]]
SimpView(kept) ==
    [occurs  |-> [v \in Vars |-> Numbers(occurs[v], kept)],
     queue   |-> Numbers(subsumption_queue, kept),
     tmpunit |-> Number(bwdsub_tmpunit)]

\* The numbers of the clauses that are not removed, and the clause of each.
Kept         == {ca.mem[r].id : r \in LiveRefs}
Numbered(id) == ca.mem[CHOOSE r \in LiveRefs : ca.mem[r].id = id]

\* A step that copies the region changes offsets and nothing else: every list is
\* in the order it was in, without the clauses that are gone, every reason is the
\* same clause, and so is all that preprocessing has as long as it is used.  A
\* clause that is gone though it was not removed before is true, or was learnt,
\* of more than two literals, and no reason; one that stays loses false literals
\* only.
ViewKept ==
    [][Copied =>
        /\ View(Kept)' = View(Kept')
        /\ use_simplification' => SimpView(Kept)' = SimpView(Kept')
        /\ \A id \in Kept \cap Kept' :
             /\ Numbered(id)'.learnt = Numbered(id).learnt
             /\ Numbered(id)'.lits \in {Numbered(id).lits,
                                        Without(Numbered(id).lits, {l \in Lits : IsFalse(l)})}
        /\ \A r \in LiveRefs :
             \/ ca.mem[r].id \in Kept'
             \/ Satisfied(r)
             \/ ca.mem[r].learnt /\ Len(ca.mem[r].lits) > 2 /\ ~ Locked(State, r)]_vars
=============================================================================

------------------------------- MODULE MCIC3 -------------------------------
(* The IC3 class on the circuits of TestCircuits.                          *)
EXTENDS IC3Props, TestCircuits, TLC

\* The defaults of ic3config.cpp.
Defaults == [coi |-> TRUE, ternary |-> TRUE, check_blocked |-> TRUE,
             queue_forward |-> TRUE, keep_all |-> FALSE,
             early_clause_prop |-> TRUE, early_subsumption |-> TRUE,
             subsume_during |-> FALSE, subsume_last |-> TRUE,
             subsume |-> TRUE, verify |-> TRUE, generalize |-> 1]

DefaultOptions == {Defaults}

\* The defaults with any two of them changed, or all of them switched off.
Switches == {"coi", "ternary", "check_blocked", "queue_forward", "early_clause_prop",
             "early_subsumption", "subsume_during", "subsume_last", "subsume"}
Flip(o, S) == [k \in DOMAIN o |-> IF k \in S THEN ~ o[k] ELSE o[k]]
OneChange  == {Flip(Defaults, {k}) : k \in Switches}
              \cup {[Defaults EXCEPT !.generalize = n] : n \in 0 .. 2}
TwoChanges == {Flip(o, {k}) : o \in OneChange, k \in Switches}
AllOff     == [k \in DOMAIN Defaults |-> IF k = "generalize" THEN 0 ELSE k = "verify"]
PairsOfOptions == TwoChanges \cup OneChange \cup {AllOff}

\* Settings under which clauses subsume others: without generalization.
SubsumptionOptions ==
    {Defaults, [Defaults EXCEPT !.generalize = 0],
     [Defaults EXCEPT !.generalize = 0, !.subsume_during = TRUE],
     [Defaults EXCEPT !.generalize = 0, !.early_subsumption = FALSE, !.subsume_last = FALSE]}
\* Cones and ternary simulation see the property and the next-state functions
\* only; without them a cube keeps the latches of the constraints too.
FullCubeOptions ==
    {[o EXCEPT !.coi = FALSE, !.ternary = FALSE, !.verify = v] : o \in OneChange, v \in BOOLEAN}
ConstrainedCircuits == {CircuitOf(constrained)}

SmallCircuits ==
    {CircuitOf(A) : A \in {test_80, test_33, test_40_reduced, counter, counter_x, counter_xx, hidden}}

\* Every circuit of two latches without inputs and constraints: all next-state
\* functions, all properties, and the first latch or both initialised.  The
\* cones of influence are the latches that the functions really depend on.
TwoStates == [1 .. 2 -> BOOLEAN]
NoInput == <<>>
DependsOn(f, x) == \E q \in TwoStates : f[q] # f[[q EXCEPT ![x] = ~ @]]
TwoLatch(next, bad, resets) ==
    LET pairs == TwoStates \X {NoInput}
    IN  [latches      |-> 1 .. 2,
         inputs       |-> {NoInput},
         resets       |-> resets,
         next         |-> [p \in pairs |-> next[p[1]]],
         constr       |-> pairs,
         bad          |-> bad \X {NoInput},
         latch_coi    |-> [x \in 1 .. 2 |->
                             {y \in 1 .. 2 : DependsOn([q \in TwoStates |-> next[q][x]], y)}],
         property_coi |-> {y \in 1 .. 2 : DependsOn([q \in TwoStates |-> q \in bad], y)}]

TwoLatchResets == {<<{FALSE}, {FALSE}>>, <<{FALSE}, BOOLEAN>>}
TwoLatchCircuits ==
    {TwoLatch(next, bad, resets) : next \in [TwoStates -> TwoStates],
                                   bad \in SUBSET TwoStates, resets \in TwoLatchResets}

\* Circuits of three latches whose next-state functions are picked from a list
\* of gates, started at 000 and with one bad state.
ThreeStates == [1 .. 3 -> BOOLEAN]
Gates == {[q \in ThreeStates |-> ~ q[1]], [q \in ThreeStates |-> q[1] \/ q[2]],
          [q \in ThreeStates |-> q[1] # q[2]], [q \in ThreeStates |-> q[2] /\ ~ q[3]],
          [q \in ThreeStates |-> q[1] # (q[2] /\ q[3])], [q \in ThreeStates |-> q[3]]}
ThreeLatch(g1, g2, g3, bad) ==
    LET pairs == ThreeStates \X {NoInput}
        gate  == <<g1, g2, g3>>
        Depends(f, x) == \E q \in ThreeStates : f[q] # f[[q EXCEPT ![x] = ~ @]]
    IN  [latches      |-> 1 .. 3,
         inputs       |-> {NoInput},
         resets       |-> [x \in 1 .. 3 |-> {FALSE}],
         next         |-> [p \in pairs |-> [x \in 1 .. 3 |-> gate[x][p[1]]]],
         constr       |-> pairs,
         bad          |-> {<<bad, NoInput>>},
         latch_coi    |-> [x \in 1 .. 3 |-> {y \in 1 .. 3 : Depends(gate[x], y)}],
         property_coi |-> 1 .. 3]
ThreeLatchCircuits ==
    {ThreeLatch(g1, g2, g3, bad) : g1 \in Gates, g2 \in Gates, g3 \in Gates,
        bad \in {<<TRUE, TRUE, TRUE>>, <<TRUE, FALSE, TRUE>>}}

\* Five latches, of which the last two are never both true: they start false,
\* the second latch says which one comes first, and then they take turns; if
\* both were true they would stay so.  The second and the third start with any
\* value, and the first follows the turns.  The bad state has all of them true.
FiveStates == [1 .. 5 -> BOOLEAN]
FiveLatch ==
    LET pairs == FiveStates \X {NoInput}
        next(q) == <<q[4] /\ ~ q[5], q[2], q[2] /\ q[3],
                     q[5] \/ (q[2] /\ ~ q[4]), q[4] \/ (~ q[2] /\ ~ q[5])>>
    IN  [latches      |-> 1 .. 5,
         inputs       |-> {NoInput},
         resets       |-> [x \in 1 .. 5 |-> IF x \in {2, 3} THEN BOOLEAN ELSE {FALSE}],
         next         |-> [p \in pairs |-> next(p[1])],
         constr       |-> pairs,
         bad          |-> {<<[x \in 1 .. 5 |-> TRUE], NoInput>>},
         latch_coi    |-> <<{4, 5}, {2}, {2, 3}, {2, 4, 5}, {2, 4, 5}>>,
         property_coi |-> 1 .. 5]
FiveLatchCircuits == {FiveLatch}

\* Run ic3_circuits: each family of circuits with the options it is meant for.
AllCircuits == TwoLatchCircuits \cup ThreeLatchCircuits \cup ConstrainedCircuits
AllOptions  == DefaultOptions \cup SubsumptionOptions \cup FullCubeOptions
Fits == CASE mgr \in ConstrainedCircuits -> opt \in FullCubeOptions
          [] mgr.latches = 1 .. 3 -> opt \in SubsumptionOptions
          [] OTHER -> opt \in DefaultOptions
CasesInit == Init /\ Fits
CasesSpec == CasesInit /\ [][Next]_vars

=============================================================================

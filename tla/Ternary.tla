------------------------------ MODULE Ternary ------------------------------
(***************************************************************************)
(* Ternary simulation (ic3/Ternary.cpp): reduce() is given the latches and *)
(* inputs of a step and the variables whose values the step must keep, and *)
(* tries to make one latch after the other undefined.  An attempt is       *)
(* simulated event by event through the netlist and, when it reaches a     *)
(* variable to preserve, undone by simulating the old value of the latch.  *)
(*                                                                         *)
(* One action is one visit of a gate, or the choice of the next variable   *)
(* or latch.  Values are "0", "1" and "X".                                 *)
(***************************************************************************)
EXTENDS Aig

CONSTANT Netlists

\* The variables that something gives a value.
DefinedVars(A) == {0} \cup {lit2var(l) : l \in RangeOf(A.inputs)} \cup
                  {lit2var(x[1]) : x \in RangeOf(A.latches) \cup RangeOf(A.ands)}

\* Netlists have one latch or gate for a variable, and their gates come after
\* what they read, as in binary files.
ASSUME NetlistAssumption ==
    \A A \in Netlists :
       /\ A.inputs \in Seq(Nat) /\ A.property \in Nat
       /\ A.latches \in Seq(Nat \X Nat \X Nat) /\ A.ands \in Seq(Nat \X Nat \X Nat)
       /\ \A j, k \in Latches(A) : LatchVar(A, j) = LatchVar(A, k) => j = k
       /\ \A j, k \in DOMAIN A.ands : lit2var(A.ands[j][1]) = lit2var(A.ands[k][1]) => j = k
       /\ \A a \in RangeOf(A.ands) :
             /\ \A n \in Latches(A) : LatchVar(A, n) # lit2var(a[1])
             /\ {lit2var(a[2]), lit2var(a[3])} \subseteq DefinedVars(A)
             /\ lit2var(a[2]) < lit2var(a[1]) /\ lit2var(a[3]) < lit2var(a[1])
       /\ \A n \in Latches(A) : LatchVar(A, n) # 0 /\ lit2var(A.latches[n][2]) \in DefinedVars(A)
       /\ \A l \in RangeOf(A.inputs) : lit2var(l) # 0 /\ \A n \in Latches(A) : LatchVar(A, n) # lit2var(l)
       /\ lit2var(A.property) \in DefinedVars(A)

VARIABLES
    aig,        \* the netlist
    preserve,   \* the variables to preserve
    given,      \* the latches and inputs reduce is called with
    assigns,    \* the value of every variable
    todo,       \* the latches still to try
    cur,        \* the variable of the latch being tried, or 0
    undo,       \* whether the attempt is being undone
    to_update,  \* the variables whose gates are to be visited
    fan,        \* the gates still to visit for the last of these
    seen,       \* the variables in to_update
    start       \* assigns before the attempt

vars == <<aig, preserve, given, assigns, todo, cur, undo, to_update, fan, seen, start>>

Values  == {"0", "1", "X"}
Not(x)  == CASE x = "0" -> "1" [] x = "1" -> "0" [] OTHER -> "X"
And(x, y) == IF "0" \in {x, y} THEN "0" ELSE IF "X" \in {x, y} THEN "X" ELSE "1"
OfBool(b) == IF b THEN "1" ELSE "0"

\* The value of literal l when the variables have the values val.
Read(val, l) == IF sign(l) THEN Not(val[lit2var(l)]) ELSE val[lit2var(l)]

\* The gates that read variable v, one entry for each input of theirs.
Fanouts(A, v) ==
    LET entry(a, k) == IF lit2var(a[k]) = v THEN <<lit2var(a[1])>> ELSE <<>>
        upto[k \in 0 .. Len(A.ands)] ==
          IF k = 0 THEN <<>> ELSE upto[k-1] \o entry(A.ands[k], 2) \o entry(A.ands[k], 3)
    IN  upto[Len(A.ands)]

Var(n) == LatchVar(aig, n)

\* The values that reduce starts with, before the gates are visited: those of
\* the latches (q) and inputs (i), false, and undefined for all other gates.
Sources(A, q, i) ==
    [v \in 0 .. LastVar(A) |->
       IF v = 0 THEN "0"
       ELSE IF \E n \in Latches(A) : LatchVar(A, n) = v
       THEN q[CHOOSE n \in Latches(A) : LatchVar(A, n) = v]
       ELSE IF \E n \in 1 .. Len(A.inputs) : lit2var(A.inputs[n]) = v
       THEN OfBool(i[CHOOSE n \in 1 .. Len(A.inputs) : lit2var(A.inputs[n]) = v])
       ELSE "X"]

\* All gates, visited once in the order of their variables: a gate that comes
\* before one of its inputs reads that input as undefined.
Simulated(A, q, i) ==
    LET gate == Gate(A)
        src  == Sources(A, q, i)
        val[v \in 0 .. LastVar(A)] ==
          LET soFar(l) == LET x == IF lit2var(l) < v THEN val[lit2var(l)] ELSE src[lit2var(l)]
                          IN  IF sign(l) THEN Not(x) ELSE x
          IN  IF v \in DOMAIN gate THEN And(soFar(gate[v][2]), soFar(gate[v][3])) ELSE src[v]
    IN  val

\* The latches of S, in their order.
InOrder(A, S) ==
    LET upto[n \in 0 .. Len(A.latches)] ==
          IF n = 0 THEN <<>> ELSE IF n \in S THEN Append(upto[n-1], n) ELSE upto[n-1]
    IN  upto[Len(A.latches)]

\* Seeded fault: latches without priority are not tried.
OrderedHigh(A, high, defined) == InOrder(A, high \cap defined)

\* The latches in the order they are tried: those of high priority first.
Ordered(A, high, defined) == InOrder(A, high \cap defined) \o InOrder(A, defined \ high)

\* reduce() is called for the property, or for the next values of the latches
\* of a cube.
Calls(A) == {{A.property}} \cup {{A.latches[n][2] : n \in S} : S \in SUBSET Latches(A) \ {{}}}

\* It is given the latches in the cone of influence of these, or all of them
\* when the cones are switched off.
Init ==
    /\ aig \in Netlists
    /\ \E kept \in Calls(aig) :
         \E defined \in {UNION {collectCOI(aig, l) : l \in kept}, Latches(aig)},
            high \in SUBSET Latches(aig), i \in [1 .. Len(aig.inputs) -> BOOLEAN] :
           \E q \in [defined -> BOOLEAN] :
              /\ preserve = {lit2var(l) : l \in kept}
              /\ given = [latch |-> [n \in Latches(aig) |-> IF n \in defined THEN OfBool(q[n]) ELSE "X"],
                          input |-> i]
              /\ assigns = Simulated(aig, given.latch, i)
              /\ todo = Ordered(aig, high, defined)
    /\ cur = 0 /\ undo = FALSE
    /\ to_update = <<>> /\ fan = <<>> /\ seen = {}
    /\ start = assigns

Idle == cur = 0

\* Try the next latch.
Attempt ==
    /\ Idle
    /\ todo # <<>>
    /\ todo' = Tail(todo)
    /\ LET v == Var(Head(todo))
       IN  IF v \in preserve
           THEN UNCHANGED <<assigns, cur, to_update, seen, start>>
           ELSE /\ cur' = v
                /\ assigns' = [assigns EXCEPT ![v] = "X"]
                /\ to_update' = <<v>> /\ seen' = {v}
                /\ start' = assigns
    /\ UNCHANGED <<aig, preserve, given, undo, fan>>

\* The next variable whose gates are to be visited.
NextUpdate ==
    /\ fan = <<>>
    /\ to_update # <<>>
    /\ fan' = Fanouts(aig, Head(to_update))
    /\ to_update' = Tail(to_update)
    /\ seen' = seen \ {Head(to_update)}
    /\ UNCHANGED <<aig, preserve, given, assigns, todo, cur, undo, start>>

Output(o) == And(Read(assigns, Gate(aig)[o][2]), Read(assigns, Gate(aig)[o][3]))
Changes(o) == o \notin seen /\ Output(o) # assigns[o]

\* A gate that is waiting for its own fanout, or keeps its value.
VisitSame ==
    /\ fan # <<>>
    /\ ~ Changes(Head(fan))
    /\ fan' = Tail(fan)
    /\ UNCHANGED <<aig, preserve, given, assigns, todo, cur, undo, to_update, seen, start>>

\* Seeded fault: what reads the gate is not visited.
VisitChangedStops ==
    /\ fan # <<>>
    /\ LET o == Head(fan)
       IN  /\ Changes(o)
           /\ undo \/ o \notin preserve
           /\ assigns' = [assigns EXCEPT ![o] = Output(o)]
    /\ fan' = Tail(fan)
    /\ UNCHANGED <<aig, preserve, given, todo, cur, undo, to_update, seen, start>>

\* Seeded fault: a gate to preserve may change.
VisitChangedAny ==
    /\ fan # <<>>
    /\ LET o == Head(fan)
       IN  /\ Changes(o)
           /\ assigns' = [assigns EXCEPT ![o] = Output(o)]
           /\ to_update' = Append(to_update, o)
           /\ seen' = seen \cup {o}
    /\ fan' = Tail(fan)
    /\ UNCHANGED <<aig, preserve, given, todo, cur, undo, start>>

\* A gate that changes, and may change.
VisitChanged ==
    /\ fan # <<>>
    /\ LET o == Head(fan)
       IN  /\ Changes(o)
           /\ undo \/ o \notin preserve
           /\ assigns' = [assigns EXCEPT ![o] = Output(o)]
           /\ to_update' = Append(to_update, o)
           /\ seen' = seen \cup {o}
    /\ fan' = Tail(fan)
    /\ UNCHANGED <<aig, preserve, given, todo, cur, undo, start>>

\* Seeded fault: preserved gates stop the undoing too, and have it undone.
VisitPreservedUndo ==
    /\ fan # <<>>
    /\ LET o == Head(fan)
       IN  /\ Changes(o)
           /\ o \in preserve
           /\ assigns' = [assigns EXCEPT ![o] = Output(o),
                                         ![cur] = IF undo THEN "X" ELSE start[cur]]
    /\ undo' = ~ undo
    /\ to_update' = <<cur>> /\ seen' = {cur} /\ fan' = <<>>
    /\ UNCHANGED <<aig, preserve, given, todo, cur, start>>

\* A gate that must not change: the latch gets its old value back, and that is
\* simulated through the netlist as it is now.
VisitPreserved ==
    /\ fan # <<>>
    /\ LET o == Head(fan)
       IN  /\ Changes(o)
           /\ ~ undo /\ o \in preserve
           /\ assigns' = [assigns EXCEPT ![o] = Output(o), ![cur] = start[cur]]
    /\ undo' = TRUE
    /\ to_update' = <<cur>> /\ seen' = {cur} /\ fan' = <<>>
    /\ UNCHANGED <<aig, preserve, given, todo, cur, start>>

\* Nothing is left to visit: the attempt, or its undoing, is over.
Settle ==
    /\ ~ Idle
    /\ fan = <<>> /\ to_update = <<>>
    /\ cur' = 0 /\ undo' = FALSE
    /\ UNCHANGED <<aig, preserve, given, assigns, todo, to_update, fan, seen, start>>

Next == Attempt \/ NextUpdate \/ VisitSame \/ VisitChanged \/ VisitPreserved \/ Settle

Spec == Init /\ [][Next]_vars

\* reduce() runs to its end.
FairSpec == Spec /\ WF_vars(Next)

Done == Idle /\ todo = <<>>

-----------------------------------------------------------------------------

Latch(val) == [n \in Latches(aig) |-> val[Var(n)]]

(* Between attempts, simulating event by event has given every variable    *)
(* the value that simulating everything from the latches would give it: no *)
(* gate was skipped because it was already waiting (Ternary.cpp:107-130).  *)
(* An attempt that was undone leaves no trace (the assertion at            *)
(* Ternary.cpp:121), although the undoing visits gates from a state in     *)
(* which the attempt had reached only some of them.                        *)
Consistent ==
    /\ Idle => assigns = Simulated(aig, Latch(assigns), given.input)
    /\ undo /\ fan = <<>> /\ to_update = <<>> => assigns = start

(* What reduce returns forces the step: whatever the latches left undefined*)
(* are, the preserved variables have the values they had.  This is what    *)
(* pre_image and block_cube rely on (module IC3, Reductions).              *)
StepForced ==
    Done => \A q \in [Latches(aig) -> BOOLEAN] :
              (\A n \in Latches(aig) : Latch(assigns)[n] \in {"X", OfBool(q[n])}) =>
                 \A v \in preserve :
                    OfBool(Eval(aig, q, given.input)[v]) = Simulated(aig, given.latch, given.input)[v]

(* One pass is enough: no latch that was kept could be dropped now, after  *)
(* the ones tried later than it (Ternary.cpp:199-208).                     *)
NoneLeft ==
    Done => \A n \in Latches(aig) :
              Latch(assigns)[n] # "X" =>
                 \E v \in preserve :
                    Simulated(aig, [Latch(assigns) EXCEPT ![n] = "X"], given.input)[v] # assigns[v]

(* reduce() returns.                                                       *)
Terminates == <>Done

=============================================================================

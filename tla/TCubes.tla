------------------------------- MODULE TCubes -------------------------------
(***************************************************************************)
(* The proof obligations of block_cube as objects (ic3/ic3Types.h) in the  *)
(* queue of util/VHeap.h.  A TCube is shared: the queue, the TCubes whose  *)
(* parent it is and, for the first one, solve() each hold a reference, and *)
(* it is deleted with the last one.  Which branch block_cube takes is up   *)
(* to the solver and is left open here.                                    *)
(***************************************************************************)
EXTENDS VHeap, FiniteSets

CONSTANTS
    Cubes,          \* the cubes there are
    MaxDepth,       \* bound: the last frame
    MaxTCubes       \* bound: the TCubes alive at one time

ASSUME TCubesAssumption == MaxDepth \in Nat \ {0} /\ MaxTCubes \in Nat \ {0}

VARIABLES
    pc,         \* "solve", "block" or "cex"
    depth,      \* frames.size()-1
    tcubes,     \* the TCubes alive: frame, refs, parent (0 for nullptr), cube
    B,          \* solve's local B, 0 outside block_cube
    Q,          \* the queue
    cex         \* the TCube that block_cube returned, or 0

vars == <<pc, depth, tcubes, B, Q, cex>>

Addresses == 1 .. MaxTCubes
Alive     == DOMAIN tcubes
New       == CHOOSE a \in Addresses \ Alive : \A b \in Addresses \ Alive : a <= b
With(store, a, x) == [b \in DOMAIN store \cup {a} |-> IF b = a THEN x ELSE store[b]]

\* 'if(!a->deref()) delete(a)': the last reference takes the TCube with it, and
\* with that the reference to its parent.
deref(store, a) ==
    LET release[n \in 0 .. Cardinality(DOMAIN store)] ==
          \* after n of the deletions: what is left, and whose count goes down
          IF n = 0 THEN <<store, a>>
          ELSE LET st == release[n-1][1]
                   x  == release[n-1][2]
               IN  IF x = 0 THEN release[n-1]
                   ELSE IF st[x].refs > 1 THEN <<[st EXCEPT ![x].refs = @ - 1], 0>>
                   ELSE <<[b \in DOMAIN st \ {x} |-> st[b]], st[x].parent>>
    IN  release[Cardinality(DOMAIN store)][1]

Init ==
    /\ pc = "solve"
    /\ depth = 1
    /\ tcubes = [a \in {} |-> <<>>]
    /\ B = 0
    /\ Q = EmptyVHeap
    /\ cex = 0

\* solve finds a bad state, in the last frame or after opening new ones, and
\* block_cube queues it.
NewBad ==
    /\ pc = "solve"
    /\ depth' \in depth .. MaxDepth
    /\ \E c \in Cubes :
         tcubes' = With(tcubes, New, [frame |-> depth', refs |-> 2, parent |-> 0, cube |-> c])
    /\ B' = New
    /\ Q' = insert(Q, depth', New)
    /\ pc' = "block"
    /\ UNCHANGED cex

s == peekMin(Q)

\* s is a counterexample: it is at frame 0, or meets the reset states before.
ReturnCex ==
    /\ pc = "block"
    /\ Q.sz > 0
    /\ Q' = removeMin(Q)
    /\ cex' = s
    /\ pc' = "cex"
    /\ UNCHANGED <<depth, tcubes, B>>

\* Seeded fault: the constructor does not take a reference to the parent.
PredecessorUncounted ==
    /\ pc = "block"
    /\ Q.sz > 0 /\ tcubes[s].frame > 0
    /\ Addresses # Alive
    /\ \E c \in Cubes :
         LET f == tcubes[s].frame - 1
         IN  /\ tcubes' = With(tcubes, New, [frame |-> f, refs |-> 1, parent |-> s, cube |-> c])
             /\ Q' = insert(insert(removeMin(Q), tcubes[s].frame, s), f, New)
    /\ UNCHANGED <<pc, depth, B, cex>>

\* Seeded fault: the queue is left to the predecessor alone.
PredecessorAlone ==
    /\ pc = "block"
    /\ Q.sz > 0 /\ tcubes[s].frame > 0
    /\ Addresses # Alive
    /\ \E c \in Cubes :
         LET f == tcubes[s].frame - 1
         IN  /\ tcubes' = With(tcubes, New, [frame |-> f, refs |-> 1, parent |-> s, cube |-> c])
             /\ Q' = insert(removeMin(Q), f, New)
    /\ UNCHANGED <<pc, depth, B, cex>>

\* A predecessor of s is found: s goes back to the queue, and waits.
Predecessor ==
    /\ pc = "block"
    /\ Q.sz > 0 /\ tcubes[s].frame > 0
    /\ Addresses # Alive
    /\ \E c \in Cubes :
         LET f == tcubes[s].frame - 1
         IN  /\ tcubes' = With([tcubes EXCEPT ![s].refs = @ + 1], New,
                               [frame |-> f, refs |-> 1, parent |-> s, cube |-> c])
             /\ Q' = insert(insert(removeMin(Q), tcubes[s].frame, s), f, New)
    /\ UNCHANGED <<pc, depth, B, cex>>

\* s is blocked, and to be looked at again at a later frame.
QueueForward ==
    /\ pc = "block"
    /\ Q.sz > 0 /\ tcubes[s].frame > 0
    /\ \E f \in tcubes[s].frame + 1 .. depth :
         /\ tcubes' = [tcubes EXCEPT ![s].frame = f]
         /\ Q' = insert(removeMin(Q), f, s)
    /\ UNCHANGED <<pc, depth, B, cex>>

\* s is blocked, and not looked at again.
Drop ==
    /\ pc = "block"
    /\ Q.sz > 0 /\ tcubes[s].frame > 0
    /\ Q' = removeMin(Q)
    /\ tcubes' = deref(tcubes, s)
    /\ UNCHANGED <<pc, depth, B, cex>>

\* block_cube has blocked everything: solve gives up its reference.
Return ==
    /\ pc = "block"
    /\ Q.sz = 0
    /\ tcubes' = deref(tcubes, B)
    /\ B' = 0
    /\ pc' = "solve"
    /\ UNCHANGED <<depth, Q, cex>>

Next == NewBad \/ ReturnCex \/ Predecessor \/ QueueForward \/ Drop \/ Return

Spec == Init /\ [][Next]_vars

-----------------------------------------------------------------------------

Queued(a) == {p \in (0 .. MaxDepth) \X (1 .. MaxTCubes) :
                /\ p[1] \in DOMAIN Q.elements
                /\ p[2] \in DOMAIN Q.elements[p[1]]
                /\ Q.elements[p[1]][p[2]] = a}

(* The count of a TCube is the number of references to it, so that none    *)
(* points to one that was deleted: not the queue, not the chain of parents *)
(* that a counterexample is read from, not solve.  When block_cube has     *)
(* returned nothing is left (the assertions remainingTCubes()==0,          *)
(* ic3.h:621, 623).                                                        *)
Counted ==
    /\ \A a \in Addresses \ Alive :
          Queued(a) = {} /\ B # a /\ cex # a /\ \A b \in Alive : tcubes[b].parent # a
    /\ \A a \in Alive :
          tcubes[a].refs = Cardinality(Queued(a))
                           + Cardinality({b \in Alive : tcubes[b].parent = a})
                           + (IF B = a THEN 1 ELSE 0) + (IF cex = a THEN 1 ELSE 0)
    /\ pc = "solve" => Alive = {}

(* The queue of TCubes is the queue that module IC3 is written over.       *)
PathOf(a) ==
    LET path[n \in 0 .. MaxTCubes] ==
          [b \in Alive \cup {0} |->
             IF n = 0 \/ b = 0 THEN <<>>
             ELSE <<tcubes[b].cube>> \o path[n-1][tcubes[b].parent]]
    IN  path[MaxTCubes][a]

Obligations == [k \in DOMAIN Stacks(Q) |-> [j \in DOMAIN Stacks(Q)[k] |-> PathOf(Stacks(Q)[k][j])]]
Answer      == IF cex = 0 THEN <<>> ELSE PathOf(cex)

Abstract == INSTANCE ObligationQueue WITH Q <- Obligations, answer <- Answer

ImplementsQueue == Abstract!Spec

=============================================================================

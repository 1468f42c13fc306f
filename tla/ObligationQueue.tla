-------------------------- MODULE ObligationQueue --------------------------
(***************************************************************************)
(* What block_cube wants of its queue of proof obligations: for each frame *)
(* a stack of obligations, of which the last one of the lowest frame is    *)
(* next.  An obligation is a frame and the path of cubes that leads from   *)
(* its own to the bad one; it is never changed but for its frame, and      *)
(* never lost.  Module IC3 is written over this queue.                     *)
(***************************************************************************)
EXTENDS Naturals, Sequences

CONSTANT Cubes
VARIABLES Q,        \* from the frames that have obligations to their stacks
          depth,    \* the last frame
          answer    \* the path of the counterexample, once there is one

vars == <<Q, depth, answer>>

Push(q, x) == [f \in DOMAIN q \cup {x.frame} |->
                 (IF f \in DOMAIN q THEN q[f] ELSE <<>>)
                 \o (IF f = x.frame THEN <<x.path>> ELSE <<>>)]
Empty   == DOMAIN Q = {}
Lowest  == CHOOSE f \in DOMAIN Q : \A g \in DOMAIN Q : f <= g
Path    == Q[Lowest][Len(Q[Lowest])]
Removed == [f \in {g \in DOMAIN Q : g # Lowest \/ Len(Q[g]) > 1} |->
              IF f = Lowest THEN SubSeq(Q[f], 1, Len(Q[f]) - 1) ELSE Q[f]]

Init == DOMAIN Q = {} /\ depth = 1 /\ answer = <<>>

Start ==
    /\ Empty /\ answer = <<>>
    /\ depth' \in Nat /\ depth' >= depth
    /\ \E c \in Cubes : Q' = Push(Q, [frame |-> depth', path |-> <<c>>])
    /\ UNCHANGED answer

\* The obligation waits for one of the frame before.
Wait ==
    /\ ~ Empty /\ Lowest > 0
    /\ \E c \in Cubes : Q' = Push(Q, [frame |-> Lowest - 1, path |-> <<c>> \o Path])
    /\ UNCHANGED <<depth, answer>>

Postpone ==
    /\ ~ Empty
    /\ \E f \in Lowest + 1 .. depth : Q' = Push(Removed, [frame |-> f, path |-> Path])
    /\ UNCHANGED <<depth, answer>>

Discard ==
    /\ ~ Empty
    /\ Q' = Removed
    /\ UNCHANGED <<depth, answer>>

Report ==
    /\ ~ Empty /\ answer = <<>>
    /\ answer' = Path
    /\ Q' = Removed
    /\ UNCHANGED depth

Next == Start \/ Wait \/ Postpone \/ Discard \/ Report
Spec == Init /\ [][Next]_vars

=============================================================================

---------------------------- MODULE ModelChecking ----------------------------
(***************************************************************************)
(* What a model checker for a sequential circuit promises, whatever its    *)
(* algorithm.  It may learn, one bound after the other, that no execution  *)
(* has a bad step among its first 'bound' steps; it answers "SAT" only     *)
(* when some execution has a bad step, and "UNSAT" only when none has.     *)
(***************************************************************************)
EXTENDS TransitionSystem

CONSTANT Circuits
VARIABLES mgr,          \* the circuit that is checked
          bound,        \* the number of steps known to be good
          verdict       \* "none", "SAT" or "UNSAT"

vars == <<mgr, bound, verdict>>

\* The states after at most k steps that satisfy the constraints.
Within(k) ==
    LET reach[n \in 0 .. k] ==
          IF n = 0 THEN Initial(mgr)
          ELSE reach[n-1] \cup {mgr.next[p] : p \in {r \in mgr.constr : r[1] \in reach[n-1]}}
    IN  reach[k]

GoodFor(k) == \A p \in mgr.bad \cap mgr.constr : p[1] \notin Within(k - 1)

Init ==
    /\ mgr \in Circuits
    /\ bound = 0
    /\ verdict = "none"

Deepen ==
    /\ verdict = "none"
    /\ bound' \in {bound + 1, bound + 2}
    /\ GoodFor(bound')
    /\ UNCHANGED <<mgr, verdict>>

\* An execution with a bad step is longer than the bound.
AnswerSat ==
    /\ verdict = "none"
    /\ verdict' = "SAT"
    /\ ~ Safe(mgr)
    /\ bound > 0 => GoodFor(bound)
    /\ UNCHANGED <<mgr, bound>>

AnswerUnsat ==
    /\ verdict = "none"
    /\ verdict' = "UNSAT"
    /\ Safe(mgr)
    /\ UNCHANGED <<mgr, bound>>

Next == Deepen \/ AnswerSat \/ AnswerUnsat

Spec == Init /\ [][Next]_vars

=============================================================================

----------------------------- MODULE SatOracle -----------------------------
(***************************************************************************)
(* What the rest of the program expects of the solver: it holds a set of   *)
(* assignments, the models of what it was told, and answers questions about*)
(* them.  A variable that was released is forgotten: it is constrained no  *)
(* more, and may come back as a new one.                                   *)
(***************************************************************************)
EXTENDS Integers, Sequences, FiniteSets

CONSTANTS MaxVar        \* the variables are 1 .. MaxVar

VARIABLES
    used,       \* the variables handed out
    models,     \* the assignments of these that satisfy the clauses
    query,      \* the assumptions of the question asked, or of the last one
    answer      \* its answer: sat, whether there is a model, and why

vars == <<used, models, query, answer>>

Vars        == 1 .. MaxVar
Var(l)      == IF l < 0 THEN -l ELSE l
Literals    == used \cup {-v : v \in used}
Holds(m, l) == IF l > 0 THEN m[l] ELSE ~ m[-l]
HoldsOne(m, c) == \E l \in c : Holds(m, l)

NoAnswer(state) == [sat |-> state, model |-> <<>>, conflict |-> {}]

Init ==
    /\ used \in SUBSET Vars
    /\ models \in SUBSET [used -> BOOLEAN]
    /\ query = {}
    /\ answer = NoAnswer("unknown")

Idle == answer.sat # "asked"

\* The user, when no question is open.
NewVar ==
    /\ \E v \in Vars \ used : used' = used \cup {v}
    /\ models' = {m \in [used' -> BOOLEAN] : [v \in used |-> m[v]] \in models}

AddClause ==
    /\ used' = used
    /\ \E c \in SUBSET Literals : models' = {m \in models : HoldsOne(m, c)}

\* The clauses with l go, those with -l are left without it.
Release ==
    \E l \in Literals :
       /\ used' = used \ {Var(l)}
       /\ models' = {[v \in used' |-> m[v]] : m \in {n \in models : Holds(n, l)}}

Ask ==
    /\ answer' = NoAnswer("asked")
    /\ query' \subseteq Literals
    /\ UNCHANGED <<used, models>>

\* The answer to an open question.
AnswerSat ==
    /\ answer'.sat = "yes" /\ answer'.conflict = {}
    /\ answer'.model \in models
    /\ \A l \in query : Holds(answer'.model, l)

\* Some of the assumptions are contradictory, and the answer names their negations.
AnswerUnsat ==
    /\ answer'.sat = "no" /\ answer'.model = <<>>
    /\ answer'.conflict \subseteq {-l : l \in query}
    /\ \A m \in models : HoldsOne(m, answer'.conflict)

Next ==
    \/ Idle /\ (NewVar \/ AddClause \/ Release) /\ UNCHANGED <<query, answer>>
    \/ Idle /\ Ask
    \/ ~ Idle /\ (AnswerSat \/ AnswerUnsat) /\ UNCHANGED <<used, models, query>>

Spec == Init /\ [][Next]_vars

=============================================================================

-------------------------------- MODULE Aig --------------------------------
(***************************************************************************)
(* The AIGER netlist (struct aiger of aiger/aiger.h) that the checker      *)
(* reads, and what the rest of the program takes from it:                  *)
(*   - aigtocnf and main.cpp: the next-state functions, the reset values,  *)
(*     the constraints and the property that the SAT solver is given;      *)
(*   - ConeOfInfluence: the latches each of these depends on.              *)
(*                                                                         *)
(* A literal is 2*v or 2*v+1, the negation of variable v; variable 0 is    *)
(* false.  A netlist is a record:                                          *)
(*   inputs       the literals of the primary inputs                       *)
(*   latches      <<lit, next, reset>> for each latch                      *)
(*   ands         <<lhs, rhs0, rhs1>> for each and-gate; in binary files   *)
(*                in the order of their variables, which is topological    *)
(*   property     the literal to check: bad[pi], or outputs[pi]            *)
(*   constraints  the literals of the invariant constraints                *)
(***************************************************************************)
EXTENDS TransitionSystem, Sequences

lit2var(l) == l \div 2
sign(l)    == l % 2 = 1
RangeOf(f) == {f[x] : x \in DOMAIN f}

Latches(A)    == 1 .. Len(A.latches)
LatchVar(A, n) == lit2var(A.latches[n][1])
\* The largest variable that is defined.
LastVar(A)    == LET defined == {0} \cup {lit2var(l) : l \in RangeOf(A.inputs)} \cup
                                {lit2var(x[1]) : x \in RangeOf(A.latches) \cup RangeOf(A.ands)}
                 IN  CHOOSE v \in defined : \A w \in defined : w <= v
\* The and-gates by the variable they define.
Gate(A)       == [v \in {lit2var(a[1]) : a \in RangeOf(A.ands)} |->
                    CHOOSE a \in RangeOf(A.ands) : lit2var(a[1]) = v]

\* The value of every variable in state q under input i: what the clauses of
\* aigtocnf force on the variables of the solver.
Eval(A, q, i) ==
    LET gate == Gate(A)
        val[v \in 0 .. LastVar(A)] ==
          LET Val(l) == val[lit2var(l)] # sign(l)
          IN  IF v \in DOMAIN gate THEN Val(gate[v][2]) /\ Val(gate[v][3])
              ELSE IF \E n \in Latches(A) : LatchVar(A, n) = v
              THEN q[CHOOSE n \in Latches(A) : LatchVar(A, n) = v]
              ELSE IF \E n \in 1 .. Len(A.inputs) : lit2var(A.inputs[n]) = v
              THEN i[CHOOSE n \in 1 .. Len(A.inputs) : lit2var(A.inputs[n]) = v]
              ELSE FALSE
    IN  val

ValueOf(val, l) == val[lit2var(l)] # sign(l)

\* markCone(l): the variables seen by the traversal of the gates below l.
markCone(A, l) ==
    LET gate == Gate(A)
        below[v \in 0 .. LastVar(A)] ==
          IF v \in DOMAIN gate
          THEN {v} \cup below[lit2var(gate[v][2])] \cup below[lit2var(gate[v][3])]
          ELSE {v}
    IN  below[lit2var(l)]

\* collectCOI(l): the latches whose variable was seen.
collectCOI(A, l) == {n \in Latches(A) : LatchVar(A, n) \in markCone(A, l)}

\* The circuit that the IC3 object is built with.
CircuitOf(A) ==
    LET L     == Latches(A)
        I     == [1 .. Len(A.inputs) -> BOOLEAN]
        steps == [L -> BOOLEAN] \X I
        value == [p \in steps |-> Eval(A, p[1], p[2])]
        reset(n) == LET r == A.latches[n][3]
                    IN  IF r = 0 THEN {FALSE} ELSE IF r = 1 THEN {TRUE} ELSE BOOLEAN
    IN  [latches      |-> L,
         inputs       |-> I,
         resets       |-> [n \in L |-> reset(n)],
         next         |-> [p \in steps |-> [n \in L |-> ValueOf(value[p], A.latches[n][2])]],
         constr       |-> {p \in steps : \A c \in RangeOf(A.constraints) : ValueOf(value[p], c)},
         bad          |-> {p \in steps : ValueOf(value[p], A.property)},
         latch_coi    |-> [n \in L |-> collectCOI(A, A.latches[n][2])],
         property_coi |-> collectCOI(A, A.property)]

=============================================================================

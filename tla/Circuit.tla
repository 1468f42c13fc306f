------------------------------ MODULE Circuit ------------------------------
(***************************************************************************)
(* The library that builds netlists gate by gate (class Circuit of         *)
(* aiglib/aiglib.h).  Conjunctions with a constant add no gate, the other  *)
(* operators are built from conjunctions, and lists are combined in pairs. *)
(* A netlist under construction is the record of maxvar and the gates, and *)
(* the operators return it with the literal of the result.  Inputs and     *)
(* latches are leaves: no gate depends on the next state or the reset that *)
(* a latch is given.                                                       *)
(***************************************************************************)
EXTENDS Integers, Sequences, FiniteSets, TLC

CONSTANTS
    MaxLeaves,      \* bound: the inputs and latches
    MaxOperands     \* bound: the operands of all calls for gates

ASSUME CircuitAssumption == MaxLeaves \in Nat /\ MaxOperands \in Nat

VARIABLES
    aig,        \* maxvar, and the gates as <<lhs, rhs0, rhs1>>
    leaves,     \* the variables of inputs and latches, as they were made
    known,      \* the literals handed out, and when each has to be true
    operands    \* the operands of the calls that asked for them

vars == <<aig, leaves, known, operands>>

not(l)     == IF l % 2 = 1 THEN l - 1 ELSE l + 1
lit2var(l) == l \div 2
isConst(l) == l < 2
False      == 0
True       == 1

\* When a literal is true: the assignments of values to the leaves.
Assignments == [1 .. MaxLeaves -> BOOLEAN]

Init ==
    /\ aig = [maxvar |-> 0, ands |-> <<>>]
    /\ leaves = <<>> /\ operands = 0
    /\ known = [l \in {False, True} |-> IF l = True THEN Assignments ELSE {}]

-----------------------------------------------------------------------------

Result(g, l) == [aig |-> g, lit |-> l]
Negated(r)   == [r EXCEPT !.lit = not(r.lit)]

newFreeLit(g) == Result([g EXCEPT !.maxvar = @ + 1], 2 * (g.maxvar + 1))

\* A conjunction with a constant is the constant, or the other literal.
And(g, a, b) ==
    IF isConst(a) THEN Result(g, IF a = True THEN b ELSE a)
    ELSE IF isConst(b) THEN Result(g, IF b = True THEN a ELSE b)
    ELSE LET r == newFreeLit(g)
         IN  [r EXCEPT !.aig.ands = Append(@, <<r.lit, a, b>>)]

Or(g, a, b) == Negated(And(g, not(a), not(b)))

\* Seeded fault: a true operand is passed over like a false one.
XorTrue(g, a, b) ==
    IF isConst(a) THEN Result(g, b)
    ELSE IF isConst(b) THEN Result(g, a)
    ELSE LET l == And(g, a, not(b))
             r == And(l.aig, not(a), b)
         IN  Or(r.aig, l.lit, r.lit)

Xor(g, a, b) ==
    IF isConst(a) THEN Result(g, IF a = True THEN not(b) ELSE b)
    ELSE IF isConst(b) THEN Result(g, IF b = True THEN not(a) ELSE a)
    ELSE LET l == And(g, a, not(b))
             r == And(l.aig, not(a), b)
         IN  Or(r.aig, l.lit, r.lit)

Nor(g, a, b)  == Negated(Or(g, a, b))
Nand(g, a, b) == Negated(And(g, a, b))
Xnor(g, a, b) == Negated(Xor(g, a, b))

Ite(g, cond, thn, els) ==
    LET l == Negated(And(g, cond, not(thn)))
        r == Negated(And(l.aig, not(cond), not(els)))
    IN  And(r.aig, l.lit, r.lit)

\* One pass of bin_op: neighbours are combined, a last one without a partner
\* is kept.
bin_op(f(_, _, _), g, list) ==
    LET pass[k \in 0 .. Len(list) \div 2] ==
          IF k = 0 THEN [aig |-> g, store |-> <<>>]
          ELSE LET before == pass[k - 1]
                   r == f(before.aig, list[2 * k - 1], list[2 * k])
               IN  [aig |-> r.aig, store |-> Append(before.store, r.lit)]
        last == pass[Len(list) \div 2]
    IN  IF Len(list) % 2 = 1 THEN [last EXCEPT !.store = Append(@, list[Len(list)])] ELSE last

\* The passes, until one literal is left.  Of no literals the result is true,
\* whatever the operator is.
Combined(f(_, _, _), g, list) ==
    LET pass[k \in 0 .. Len(list)] ==
          IF k = 0 THEN [aig |-> g, store |-> list]
          ELSE LET before == pass[k - 1]
               IN  IF Len(before.store) < 2 THEN before ELSE bin_op(f, before.aig, before.store)
        last == pass[Len(list)]
    IN  Result(last.aig, IF list = <<>> THEN True ELSE last.store[1])

-----------------------------------------------------------------------------

\* The literal r.lit was asked for, to be true at 'when'.
HandOut(r, when) ==
    /\ aig' = r.aig
    /\ known' = (r.lit :> when) @@ (not(r.lit) :> (Assignments \ when)) @@ known

\* newInput, or newLatch.
newLeaf ==
    /\ Len(leaves) < MaxLeaves
    /\ HandOut(newFreeLit(aig), {s \in Assignments : s[Len(leaves) + 1]})
    /\ leaves' = Append(leaves, aig.maxvar + 1)
    /\ UNCHANGED operands

\* A call with n operands.
Call(n) ==
    /\ operands + n <= MaxOperands
    /\ operands' = operands + n
    /\ UNCHANGED leaves

\* When all, some, or an odd number of the literals of a list are true.
Every(list) == {s \in Assignments : \A k \in DOMAIN list : s \in known[list[k]]}
Some(list)  == {s \in Assignments : \E k \in DOMAIN list : s \in known[list[k]]}
Odd(list)   == {s \in Assignments :
                  Cardinality({k \in DOMAIN list : s \in known[list[k]]}) % 2 = 1}
Otherwise(when) == Assignments \ when

\* An operator is called with one literal.  Xor negates it and Xnor returns it,
\* where the same operators of a list of one literal do the opposite.
GateOfOne ==
    /\ Call(1)
    /\ \E a \in DOMAIN known :
         \* And, Or, Xnor
         \/ HandOut(Result(aig, a), known[a])
         \* Nor, Nand, Xor
         \/ HandOut(Result(aig, not(a)), Otherwise(known[a]))

\* With two literals, or three for a choice.
Gate ==
    \/ /\ Call(2)
       /\ \E a, b \in DOMAIN known :
            \/ HandOut(And(aig, a, b),  Every(<<a, b>>))
            \/ HandOut(Nand(aig, a, b), Otherwise(Every(<<a, b>>)))
            \/ HandOut(Or(aig, a, b),   Some(<<a, b>>))
            \/ HandOut(Nor(aig, a, b),  Otherwise(Some(<<a, b>>)))
            \/ HandOut(Xor(aig, a, b),  Odd(<<a, b>>))
            \/ HandOut(Xnor(aig, a, b), Otherwise(Odd(<<a, b>>)))
    \/ /\ Call(3)
       /\ \E c, a, b \in DOMAIN known :
            HandOut(Ite(aig, c, a, b), (known[c] \cap known[a]) \cup (known[b] \ known[c]))

\* What a list has to mean, if it is not empty; an empty one is always true.
IfAny(list, when) == IF list = <<>> THEN Assignments ELSE when

\* With a list of literals, or with more than two.
GateOfList ==
    \E n \in 0 .. MaxOperands : /\ Call(n)
      /\ \E list \in [1 .. n -> DOMAIN known] :
           LET conjunction == Combined(And, aig, list)
               disjunction == Combined(Or, aig, list)
               parity      == Combined(Xor, aig, list)
           IN  \/ HandOut(conjunction, Every(list))
               \/ HandOut(disjunction, IfAny(list, Some(list)))
               \/ HandOut(parity, IfAny(list, Odd(list)))
               \* Nand, Nor and Xnor negate the others
               \/ HandOut(Negated(conjunction), Otherwise(Every(list)))
               \/ HandOut(Negated(disjunction), Otherwise(IfAny(list, Some(list))))
               \/ HandOut(Negated(parity), Otherwise(IfAny(list, Odd(list))))

Next == newLeaf \/ GateOfOne \/ Gate \/ GateOfList

Spec == Init /\ [][Next]_vars

-----------------------------------------------------------------------------

\* The value of each variable under assignment s, the gates taken in order.
Values(s) ==
    LET upto[k \in 0 .. Len(aig.ands)] ==
          IF k = 0
          THEN [v \in 0 .. aig.maxvar |-> \E n \in DOMAIN leaves : leaves[n] = v /\ s[n]]
          ELSE LET before == upto[k - 1]
                   a == aig.ands[k]
                   Value(l) == before[lit2var(l)] # (l % 2 = 1)
               IN  [before EXCEPT ![lit2var(a[1])] = Value(a[2]) /\ Value(a[3])]
    IN  upto[Len(aig.ands)]

(* The gates are in the order that ternary simulation visits them in: each *)
(* is defined once, after the variables it reads, and reads no constant.   *)
InOrder ==
    \A k \in DOMAIN aig.ands :
       LET a == aig.ands[k]
       IN  /\ a[1] % 2 = 0 /\ \A n \in DOMAIN leaves : leaves[n] # lit2var(a[1])
           /\ \A j \in {2, 3} : ~ isConst(a[j]) /\ a[j] < a[1]
           /\ \A m \in 1 .. k - 1 : aig.ands[m][1] < a[1]

(* Every literal that the library hands out is true exactly when it should *)
(* be, whatever it was built from: constants, literals and their negations,*)
(* the same literal twice, or results of earlier calls, one by one or in   *)
(* lists.  What it should be is what the operator is named for, with two   *)
(* exceptions that the code makes: Xor of one literal is its negation, and *)
(* Xnor the literal (aiglib.h:284, 328), although of a list of one literal *)
(* they are the literal and its negation; and of an empty list Or and Xor  *)
(* are true, as And is, and Nor and Xnor false (aiglib.h:126).  (The gates *)
(* are read in the order they were made, which is right only if InOrder.)  *)
Meaning ==
    /\ InOrder
    /\ \A s \in Assignments :
         LET value == Values(s)
         IN  \A l \in DOMAIN known : (value[lit2var(l)] # (l % 2 = 1)) <=> s \in known[l]

=============================================================================

--------------------------- MODULE TernaryProofs ---------------------------
(***************************************************************************)
(* Ternary simulation, for any netlist whose gates come after what they    *)
(* read: simulating event by event gives what simulating everything would, *)
(* undoing leaves no trace, what reduce returns forces the step, and no    *)
(* latch that is left could be dropped.                                    *)
(***************************************************************************)
EXTENDS Ternary, NumberLemmas, SequenceTheorems

-----------------------------------------------------------------------------
(* Netlists.                                                               *)

Gates(A)   == DOMAIN Gate(A)
AllVars(A) == 0 .. LastVar(A)
In(A, v, k) == lit2var(Gate(A)[v][k])

(* The numbers in a list are bounded.                                      *)
LEMMA ListBounded ==
    ASSUME NEW n \in Nat, NEW f, \A k \in 1 .. n : f[k] \in Nat
    PROVE  \E b \in Nat : \A k \in 1 .. n : f[k] <= b
<1> DEFINE T == {m \in 0 .. n : \E b \in Nat : \A k \in 1 .. m : f[k] <= b}
<1>1. 0 \in T
  <2>1. \A k \in 1 .. 0 : f[k] <= 0
    OBVIOUS
  <2> QED BY <2>1
<1>2. ASSUME NEW m \in 0 .. n - 1, m \in T PROVE m + 1 \in T
  <2>1. PICK b \in Nat : \A k \in 1 .. m : f[k] <= b
    BY <1>2
  <2>2. m + 1 \in 1 .. n /\ f[m + 1] \in Nat
    BY <1>2
  <2> DEFINE c == b + f[m + 1]
  <2>3. c \in Nat /\ b <= c /\ f[m + 1] <= c
    BY <2>2
  <2> HIDE DEF c
  <2>4. \A k \in 1 .. m + 1 : f[k] <= c
    <3>1. ASSUME NEW k \in 1 .. m + 1, k # m + 1 PROVE f[k] <= c
      <4>1. k \in 1 .. m /\ f[k] \in Nat
        BY <2>2, <3>1
      <4> QED BY <2>1, <2>3, <4>1
    <3> QED BY <2>3, <3>1
  <2> QED BY <2>2, <2>3, <2>4
<1>3. 0 .. n \subseteq T
  <2> HIDE DEF T
  <2> QED BY <1>1, <1>2, Climb
<1>4. n \in T
  <2> HIDE DEF T
  <2> QED BY <1>3
<1> QED BY <1>4

(* A bounded set of numbers has a greatest one.                            *)
LEMMA GreatestNat ==
    ASSUME NEW S, S \subseteq Nat, S # {}, NEW b \in Nat, \A x \in S : x <= b
    PROVE  \E x \in S : \A y \in S : y <= x
<1> DEFINE T == {b - x : x \in S}
<1>1. T \subseteq Nat /\ T # {}
  <2>1. \A x \in S : x \in Nat /\ x <= b
    OBVIOUS
  <2>2. \A x \in S : b - x \in Nat
    BY <2>1
  <2> QED BY <2>2
<1>2. PICK t \in T : \A u \in T : t <= u
  <2> HIDE DEF T
  <2> QED BY <1>1, LeastNat
<1>3. PICK x \in S : t = b - x
  OBVIOUS
<1>4. ASSUME NEW y \in S PROVE y <= x
  <2>1. b - x <= b - y
    BY <1>2, <1>3
  <2> QED BY <2>1
<1> QED BY <1>4

(* The variable of a literal.                                              *)
LEMMA VarOfLit == \A l \in Nat : lit2var(l) \in Nat /\ sign(l) \in BOOLEAN
BY DEF lit2var, sign

(* The lists of a netlist.                                                 *)
LEMMA ListsAre ==
    ASSUME NEW A \in Netlists
    PROVE  /\ Len(A.inputs) \in Nat /\ DOMAIN A.inputs = 1 .. Len(A.inputs)
           /\ Len(A.latches) \in Nat /\ DOMAIN A.latches = 1 .. Len(A.latches)
           /\ Len(A.ands) \in Nat /\ DOMAIN A.ands = 1 .. Len(A.ands)
           /\ \A k \in DOMAIN A.inputs : A.inputs[k] \in Nat
           /\ \A k \in DOMAIN A.latches : A.latches[k][1] \in Nat /\ A.latches[k][2] \in Nat
           /\ \A k \in DOMAIN A.ands : /\ A.ands[k][1] \in Nat
                                       /\ A.ands[k][2] \in Nat /\ A.ands[k][3] \in Nat
<1> DEFINE Triple == Nat \X Nat \X Nat
<1>1. A.inputs \in Seq(Nat) /\ A.latches \in Seq(Triple) /\ A.ands \in Seq(Triple)
  BY NetlistAssumption
<1>2. \A x \in Triple : x[1] \in Nat /\ x[2] \in Nat /\ x[3] \in Nat
  OBVIOUS
<1> HIDE DEF Triple
<1>3. ASSUME NEW S, NEW s \in Seq(S)
      PROVE  Len(s) \in Nat /\ DOMAIN s = 1 .. Len(s) /\ \A k \in DOMAIN s : s[k] \in S
  OBVIOUS
<1> QED BY <1>1, <1>2, <1>3

(* Variables are numbered up to LastVar.                                   *)
LEMMA LastVarIs ==
    ASSUME NEW A \in Netlists
    PROVE  LastVar(A) \in Nat /\ DefinedVars(A) \subseteq AllVars(A)
<1>1. /\ Len(A.inputs) \in Nat /\ DOMAIN A.inputs = 1 .. Len(A.inputs)
      /\ Len(A.latches) \in Nat /\ DOMAIN A.latches = 1 .. Len(A.latches)
      /\ Len(A.ands) \in Nat /\ DOMAIN A.ands = 1 .. Len(A.ands)
  BY ListsAre
<1>2. \A k \in DOMAIN A.inputs : lit2var(A.inputs[k]) \in Nat
  BY ListsAre, VarOfLit
<1>3. \A k \in DOMAIN A.latches : lit2var(A.latches[k][1]) \in Nat
  BY ListsAre, VarOfLit
<1>4. \A k \in DOMAIN A.ands : lit2var(A.ands[k][1]) \in Nat
  BY ListsAre, VarOfLit
<1>5. DefinedVars(A) \subseteq Nat /\ DefinedVars(A) # {}
  BY <1>2, <1>3, <1>4 DEF DefinedVars, RangeOf
<1>6. PICK b1 \in Nat : \A k \in 1 .. Len(A.inputs) : lit2var(A.inputs[k]) <= b1
  <2> DEFINE f == [k \in 1 .. Len(A.inputs) |-> lit2var(A.inputs[k])]
  <2>1. PICK b \in Nat : \A k \in 1 .. Len(A.inputs) : f[k] <= b
    <3>1. \A k \in 1 .. Len(A.inputs) : f[k] \in Nat
      BY <1>1, <1>2
    <3>2. Len(A.inputs) \in Nat
      BY <1>1
    <3> HIDE DEF f
    <3> QED BY <3>1, <3>2, ListBounded
  <2> QED BY <2>1
<1>7. PICK b2 \in Nat : \A k \in 1 .. Len(A.latches) : lit2var(A.latches[k][1]) <= b2
  <2> DEFINE f == [k \in 1 .. Len(A.latches) |-> lit2var(A.latches[k][1])]
  <2>1. PICK b \in Nat : \A k \in 1 .. Len(A.latches) : f[k] <= b
    <3>1. \A k \in 1 .. Len(A.latches) : f[k] \in Nat
      BY <1>1, <1>3
    <3>2. Len(A.latches) \in Nat
      BY <1>1
    <3> HIDE DEF f
    <3> QED BY <3>1, <3>2, ListBounded
  <2> QED BY <2>1
<1>8. PICK b3 \in Nat : \A k \in 1 .. Len(A.ands) : lit2var(A.ands[k][1]) <= b3
  <2> DEFINE f == [k \in 1 .. Len(A.ands) |-> lit2var(A.ands[k][1])]
  <2>1. PICK b \in Nat : \A k \in 1 .. Len(A.ands) : f[k] <= b
    <3>1. \A k \in 1 .. Len(A.ands) : f[k] \in Nat
      BY <1>1, <1>4
    <3>2. Len(A.ands) \in Nat
      BY <1>1
    <3> HIDE DEF f
    <3> QED BY <3>1, <3>2, ListBounded
  <2> QED BY <2>1
<1> DEFINE b == b1 + b2 + b3
<1>9. b \in Nat /\ b1 <= b /\ b2 <= b /\ b3 <= b
  OBVIOUS
<1> HIDE DEF b
<1>10. \A v \in DefinedVars(A) : v <= b
  <2>1. \A k \in DOMAIN A.inputs : lit2var(A.inputs[k]) <= b
    BY <1>1, <1>2, <1>6, <1>9
  <2>2. \A k \in DOMAIN A.latches : lit2var(A.latches[k][1]) <= b
    BY <1>1, <1>3, <1>7, <1>9
  <2>3. \A k \in DOMAIN A.ands : lit2var(A.ands[k][1]) <= b
    BY <1>1, <1>4, <1>8, <1>9
  <2> QED BY <1>9, <2>1, <2>2, <2>3 DEF DefinedVars, RangeOf
<1>11. \E v \in DefinedVars(A) : \A w \in DefinedVars(A) : w <= v
  BY <1>5, <1>9, <1>10, GreatestNat
<1>12. LastVar(A) = CHOOSE v \in DefinedVars(A) : \A w \in DefinedVars(A) : w <= v
  BY DEF LastVar, DefinedVars
<1>13. LastVar(A) \in DefinedVars(A) /\ \A w \in DefinedVars(A) : w <= LastVar(A)
  BY <1>11, <1>12
<1> QED BY <1>5, <1>13 DEF AllVars

(* Gates, and what they read.                                              *)
LEMMA GateFacts ==
    ASSUME NEW A \in Netlists
    PROVE  /\ Gates(A) \subseteq AllVars(A) \ {0}
           /\ \A v \in Gates(A) : /\ Gate(A)[v] \in RangeOf(A.ands)
                                  /\ lit2var(Gate(A)[v][1]) = v
                                  /\ Gate(A)[v][2] \in Nat /\ Gate(A)[v][3] \in Nat
                                  /\ In(A, v, 2) \in DefinedVars(A) /\ In(A, v, 2) \in 0 .. v - 1
                                  /\ In(A, v, 3) \in DefinedVars(A) /\ In(A, v, 3) \in 0 .. v - 1
           /\ \A k \in DOMAIN A.ands : /\ lit2var(A.ands[k][1]) \in Gates(A)
                                       /\ Gate(A)[lit2var(A.ands[k][1])] = A.ands[k]
<1>1. A.ands \in Seq(Nat \X Nat \X Nat) /\ RangeOf(A.ands) \subseteq Nat \X Nat \X Nat
  BY NetlistAssumption DEF RangeOf
<1>2. Gates(A) = {lit2var(a[1]) : a \in RangeOf(A.ands)}
  BY DEF Gates, Gate
<1>3. \A v \in Gates(A) : Gate(A)[v] = CHOOSE a \in RangeOf(A.ands) : lit2var(a[1]) = v
  BY DEF Gates, Gate
<1>4. ASSUME NEW v \in Gates(A)
      PROVE  Gate(A)[v] \in RangeOf(A.ands) /\ lit2var(Gate(A)[v][1]) = v
  <2>1. \E a \in RangeOf(A.ands) : lit2var(a[1]) = v
    BY <1>2
  <2> QED BY <1>3, <2>1
<1>5. \A v \in Gates(A) : v \in DefinedVars(A)
  BY <1>2 DEF DefinedVars
<1>6. \A v \in Gates(A) : /\ Gate(A)[v][2] \in Nat /\ Gate(A)[v][3] \in Nat
                          /\ In(A, v, 2) \in DefinedVars(A) /\ In(A, v, 2) < v
                          /\ In(A, v, 3) \in DefinedVars(A) /\ In(A, v, 3) < v
  BY <1>1, <1>4, NetlistAssumption DEF In
<1>7. \A v \in DefinedVars(A) : v \in Nat /\ v \in AllVars(A)
  BY LastVarIs DEF AllVars
<1>8. ASSUME NEW k \in DOMAIN A.ands
      PROVE  /\ lit2var(A.ands[k][1]) \in Gates(A)
             /\ Gate(A)[lit2var(A.ands[k][1])] = A.ands[k]
  <2>1. A.ands[k] \in RangeOf(A.ands)
    BY DEF RangeOf
  <2>2. lit2var(A.ands[k][1]) \in Gates(A)
    BY <1>2, <2>1
  <2>3. PICK j \in DOMAIN A.ands : Gate(A)[lit2var(A.ands[k][1])] = A.ands[j]
    BY <1>4, <2>2 DEF RangeOf
  <2>4. j = k
    BY <1>4, <2>2, <2>3, NetlistAssumption
  <2> QED BY <2>2, <2>3, <2>4
<1>9. ASSUME NEW v \in Gates(A)
      PROVE  v \in AllVars(A) \ {0} /\ In(A, v, 2) \in 0 .. v - 1 /\ In(A, v, 3) \in 0 .. v - 1
  <2>1. v \in Nat /\ In(A, v, 2) \in Nat /\ v \in AllVars(A) /\ In(A, v, 3) \in Nat
    BY <1>5, <1>6, <1>7
  <2>2. In(A, v, 2) < v /\ In(A, v, 3) < v
    BY <1>6
  <2> QED BY <2>1, <2>2
<1> QED BY <1>4, <1>6, <1>8, <1>9

(* Latches are apart from gates, inputs and each other.                    *)
LEMMA LatchFacts ==
    ASSUME NEW A \in Netlists
    PROVE  /\ Latches(A) = DOMAIN A.latches
           /\ \A n \in Latches(A) : LatchVar(A, n) \in (AllVars(A) \ Gates(A)) \ {0}
           /\ \A j, k \in Latches(A) : LatchVar(A, j) = LatchVar(A, k) => j = k
           /\ \A n \in Latches(A), k \in DOMAIN A.inputs : lit2var(A.inputs[k]) # LatchVar(A, n)
           /\ \A k \in DOMAIN A.inputs : lit2var(A.inputs[k]) # 0
           /\ DOMAIN A.inputs = 1 .. Len(A.inputs)
<1>1. /\ A.inputs \in Seq(Nat)
      /\ A.latches \in Seq(Nat \X Nat \X Nat) /\ A.ands \in Seq(Nat \X Nat \X Nat)
  BY NetlistAssumption
<1>2. Latches(A) = DOMAIN A.latches /\ DOMAIN A.inputs = 1 .. Len(A.inputs)
  BY <1>1 DEF Latches
<1>3. \A n \in Latches(A) : LatchVar(A, n) \in DefinedVars(A)
  BY <1>2 DEF LatchVar, DefinedVars, RangeOf
<1>4. \A n \in Latches(A) : LatchVar(A, n) \notin Gates(A) /\ LatchVar(A, n) # 0
  BY NetlistAssumption DEF Gates, Gate
<1>5. \A n \in Latches(A), k \in DOMAIN A.inputs : lit2var(A.inputs[k]) # LatchVar(A, n)
  BY NetlistAssumption DEF RangeOf
<1>6. \A k \in DOMAIN A.inputs : lit2var(A.inputs[k]) # 0
  BY NetlistAssumption DEF RangeOf
<1> QED BY <1>2, <1>3, <1>4, <1>5, <1>6, LastVarIs, NetlistAssumption

-----------------------------------------------------------------------------
(* Simulating everything.                                                  *)

\* Every gate has the value of its inputs, every other variable its source.
IsSim(A, src, val) ==
    /\ val \in [AllVars(A) -> Values]
    /\ \A v \in AllVars(A) :
          val[v] = IF v \in Gates(A) THEN And(Read(val, Gate(A)[v][2]), Read(val, Gate(A)[v][3]))
                                     ELSE src[v]

(* Values are those of ternary logic.                                      *)
LEMMA AndIsValue == \A x, y : And(x, y) \in Values
BY DEF And, Values

(* Two simulations of the same sources agree.                              *)
LEMMA SimUnique ==
    ASSUME NEW A \in Netlists, NEW src, NEW a, NEW b, IsSim(A, src, a), IsSim(A, src, b)
    PROVE  a = b
<1> DEFINE D == {v \in AllVars(A) : a[v] # b[v]}
<1>1. a \in [AllVars(A) -> Values] /\ b \in [AllVars(A) -> Values]
  BY DEF IsSim
<1>2. SUFFICES ASSUME D # {} PROVE FALSE
  BY <1>1
<1>3. D \subseteq Nat
  BY LastVarIs DEF AllVars
<1>4. PICK v \in D : \A w \in D : v <= w
  <2> HIDE DEF D
  <2> QED BY <1>2, <1>3, LeastNat
<1>5. \A w \in 0 .. v - 1 : a[w] = b[w]
  <2> SUFFICES ASSUME NEW w \in 0 .. v - 1 PROVE w \notin D
    BY <1>4, LastVarIs DEF AllVars
  <2> QED BY <1>3, <1>4
<1>6. CASE v \in Gates(A)
  <2>1. /\ Read(a, Gate(A)[v][2]) = Read(b, Gate(A)[v][2])
        /\ Read(a, Gate(A)[v][3]) = Read(b, Gate(A)[v][3])
    BY <1>5, <1>6, GateFacts DEF Read, In
  <2> QED BY <1>4, <1>6, <2>1 DEF IsSim
<1>7. CASE v \notin Gates(A)
  BY <1>4, <1>7 DEF IsSim
<1> QED BY <1>6, <1>7

(* There is one.                                                           *)
LEMMA SimExists ==
    ASSUME NEW A \in Netlists, NEW src \in [AllVars(A) -> Values]
    PROVE  \E val : IsSim(A, src, val)
<1> DEFINE F == [AllVars(A) -> Values]
           out(f, v) == IF v \in Gates(A)
                        THEN And(Read(f, Gate(A)[v][2]), Read(f, Gate(A)[v][3])) ELSE src[v]
           step == [p \in F \X AllVars(A) |-> out(p[1], p[2])]
<1>1. LastVar(A) \in Nat /\ AllVars(A) = 0 .. LastVar(A)
  BY LastVarIs DEF AllVars
<1>2. \A f \in F, v \in AllVars(A) : out(f, v) \in Values
  BY AndIsValue
<1>3. ASSUME NEW f \in F, NEW h \in F, NEW v \in AllVars(A), \A w \in 0 .. v - 1 : f[w] = h[w]
      PROVE  out(f, v) = out(h, v)
  <2>1. CASE v \in Gates(A)
    <3>1. /\ Read(f, Gate(A)[v][2]) = Read(h, Gate(A)[v][2])
          /\ Read(f, Gate(A)[v][3]) = Read(h, Gate(A)[v][3])
      BY <1>3, <2>1, GateFacts DEF Read, In
    <3> QED BY <3>1
  <2>2. CASE v \notin Gates(A)
    BY <2>2
  <2> QED BY <2>1, <2>2
<1> HIDE DEF out
<1>4. step \in [F \X AllVars(A) -> Values]
  BY <1>2
<1>5. \A f \in F, v \in AllVars(A) : step[<<f, v>>] = out(f, v)
  OBVIOUS
<1> HIDE DEF step
<1>6. ReadsBelow(step, LastVar(A), Values)
  <2>1. \A f, h \in F : \A v \in AllVars(A) :
           (\A w \in 0 .. v - 1 : f[w] = h[w]) => step[<<f, v>>] = step[<<h, v>>]
    BY <1>3, <1>5
  <2> QED BY <1>4, <2>1 DEF ReadsBelow, AllVars
<1>7. Values # {}
  BY DEF Values
<1>8. PICK val \in F : \A v \in AllVars(A) : val[v] = step[<<val, v>>]
  <2>1. \E f : IsDetermined(f, step, LastVar(A), Values)
    BY <1>1, <1>6, <1>7, CourseOfValues
  <2> QED BY <2>1 DEF IsDetermined, AllVars
<1> QED BY <1>5, <1>8 DEF IsSim, out

(* What the first propagation computes is the simulation of its sources.   *)
LEMMA SimulatedIs ==
    ASSUME NEW A \in Netlists, NEW q, NEW i, Sources(A, q, i) \in [AllVars(A) -> Values]
    PROVE  IsSim(A, Sources(A, q, i), Simulated(A, q, i))
<1> DEFINE gate == Gate(A)
           src  == Sources(A, q, i)
           soFar(f, v, l) == LET x == IF lit2var(l) < v THEN f[lit2var(l)] ELSE src[lit2var(l)]
                             IN  IF sign(l) THEN Not(x) ELSE x
           Eq(f) == [v \in 0 .. LastVar(A) |->
                       IF v \in DOMAIN gate THEN And(soFar(f, v, gate[v][2]), soFar(f, v, gate[v][3]))
                                            ELSE src[v]]
           val == CHOOSE f : f = Eq(f)
<1>1. ASSUME NEW f, NEW v \in Gates(A)
      PROVE  /\ soFar(f, v, gate[v][2]) = Read(f, Gate(A)[v][2])
             /\ soFar(f, v, gate[v][3]) = Read(f, Gate(A)[v][3])
  <2>1. lit2var(Gate(A)[v][2]) < v /\ lit2var(Gate(A)[v][3]) < v
    <3>1. In(A, v, 2) \in 0 .. v - 1 /\ In(A, v, 3) \in 0 .. v - 1 /\ v \in Nat
      BY GateFacts, LastVarIs DEF AllVars
    <3>2. In(A, v, 2) < v /\ In(A, v, 3) < v
      BY <3>1
    <3> QED BY <3>2 DEF In
  <2> QED BY <2>1 DEF Read
<1>2. Simulated(A, q, i) = val
  BY DEF Simulated
<1> HIDE DEF soFar
<1>3. ASSUME NEW f, NEW v \in AllVars(A)
      PROVE  Eq(f)[v] = IF v \in Gates(A) THEN And(Read(f, Gate(A)[v][2]), Read(f, Gate(A)[v][3]))
                                          ELSE src[v]
  BY <1>1 DEF AllVars, Gates
<1>4. \A f : Eq(f) = [v \in AllVars(A) |-> Eq(f)[v]]
  BY DEF AllVars
<1> HIDE DEF Eq
<1>5. PICK h : IsSim(A, src, h)
  BY SimExists
<1>6. h = Eq(h)
  BY <1>3, <1>4, <1>5 DEF IsSim
<1>7. val = Eq(val)
  BY <1>6
<1> HIDE DEF val
<1>8. val = [v \in AllVars(A) |-> Eq(val)[v]]
  BY <1>4, <1>7
<1>9. \A v \in AllVars(A) :
         val[v] = IF v \in Gates(A) THEN And(Read(val, Gate(A)[v][2]), Read(val, Gate(A)[v][3]))
                                    ELSE src[v]
  BY <1>3, <1>8
<1>10. \A v \in AllVars(A) : val[v] \in Values
  BY <1>9, AndIsValue
<1>11. val \in [AllVars(A) -> Values]
  BY <1>8, <1>10
<1> QED BY <1>2, <1>9, <1>11 DEF IsSim

(* Negation and conjunction of ternary values.                             *)
LEMMA NotIsValue == \A x \in Values : Not(x) \in Values
BY DEF Not, Values

\* x is y, or says nothing.
Below(x, y) == x \in {"X", y}

(* What reads less says less.                                              *)
LEMMA OpsMono ==
    /\ \A x, y \in Values : Below(x, y) => Below(Not(x), Not(y))
    /\ \A x1, x2, y1, y2 \in Values :
          Below(x1, y1) /\ Below(x2, y2) => Below(And(x1, x2), And(y1, y2))
BY DEF Below, Values, Not, And

(* The value of a literal.                                                 *)
LEMMA ReadIs ==
    ASSUME NEW A \in Netlists, NEW a \in [AllVars(A) -> Values], NEW l, lit2var(l) \in AllVars(A)
    PROVE  Read(a, l) \in Values
BY NotIsValue DEF Read

LEMMA ReadMono ==
    ASSUME NEW A \in Netlists, NEW a \in [AllVars(A) -> Values], NEW b \in [AllVars(A) -> Values],
           NEW l, lit2var(l) \in AllVars(A), Below(a[lit2var(l)], b[lit2var(l)])
    PROVE  Below(Read(a, l), Read(b, l))
BY OpsMono DEF Read

\* What a gate computes.
Out(A, a, v) == And(Read(a, Gate(A)[v][2]), Read(a, Gate(A)[v][3]))

(* A gate that reads less says less.                                       *)
LEMMA OutMono ==
    ASSUME NEW A \in Netlists, NEW a \in [AllVars(A) -> Values], NEW b \in [AllVars(A) -> Values],
           NEW v \in Gates(A), Below(a[In(A, v, 2)], b[In(A, v, 2)]), Below(a[In(A, v, 3)], b[In(A, v, 3)])
    PROVE  Below(Out(A, a, v), Out(A, b, v))
<1>1. /\ lit2var(Gate(A)[v][2]) \in AllVars(A) /\ lit2var(Gate(A)[v][3]) \in AllVars(A)
  BY GateFacts, LastVarIs DEF In
<1>2. /\ Read(a, Gate(A)[v][2]) \in Values /\ Read(a, Gate(A)[v][3]) \in Values
      /\ Read(b, Gate(A)[v][2]) \in Values /\ Read(b, Gate(A)[v][3]) \in Values
  BY <1>1, ReadIs
<1>3. /\ Below(Read(a, Gate(A)[v][2]), Read(b, Gate(A)[v][2]))
      /\ Below(Read(a, Gate(A)[v][3]), Read(b, Gate(A)[v][3]))
  BY <1>1, ReadMono DEF In
<1> QED BY <1>2, <1>3, OpsMono DEF Out

(* Two assignments that agree on what a gate reads.                        *)
LEMMA OutSame ==
    ASSUME NEW A, NEW a, NEW b, NEW v, a[In(A, v, 2)] = b[In(A, v, 2)], a[In(A, v, 3)] = b[In(A, v, 3)]
    PROVE  Out(A, a, v) = Out(A, b, v)
BY DEF Out, Read, In

(* A simulation of sources that say less says less.                        *)
LEMMA SimMono ==
    ASSUME NEW A \in Netlists, NEW s, NEW t, NEW a, NEW b, IsSim(A, s, a), IsSim(A, t, b),
           \A v \in AllVars(A) \ Gates(A) : Below(s[v], t[v])
    PROVE  \A v \in AllVars(A) : Below(a[v], b[v])
<1> DEFINE D == {v \in AllVars(A) : ~ Below(a[v], b[v])}
<1>1. SUFFICES ASSUME D # {} PROVE FALSE
  OBVIOUS
<1>2. D \subseteq Nat
  BY LastVarIs DEF AllVars
<1>3. PICK v \in D : \A w \in D : v <= w
  <2> HIDE DEF D
  <2> QED BY <1>1, <1>2, LeastNat
<1>4. \A w \in 0 .. v - 1 : Below(a[w], b[w])
  <2> SUFFICES ASSUME NEW w \in 0 .. v - 1 PROVE w \notin D
    BY <1>3, LastVarIs DEF AllVars
  <2> QED BY <1>2, <1>3
<1>5. a \in [AllVars(A) -> Values] /\ b \in [AllVars(A) -> Values]
  BY DEF IsSim
<1>6. CASE v \in Gates(A)
  <2>1. Below(Out(A, a, v), Out(A, b, v))
    BY <1>4, <1>5, <1>6, GateFacts, OutMono
  <2>2. a[v] = Out(A, a, v) /\ b[v] = Out(A, b, v)
    BY <1>3, <1>6 DEF IsSim, Out
  <2> QED BY <1>3, <2>1, <2>2
<1>7. CASE v \notin Gates(A)
  BY <1>3, <1>7 DEF IsSim
<1> QED BY <1>6, <1>7

-----------------------------------------------------------------------------
(* Sources: what latches, inputs and the constant give.                    *)

IsInput(A, v) == \E n \in 1 .. Len(A.inputs) : lit2var(A.inputs[n]) = v
InputOf(A, v) == CHOOSE n \in 1 .. Len(A.inputs) : lit2var(A.inputs[n]) = v
LatchVars(A)  == {LatchVar(A, n) : n \in Latches(A)}

(* Latches give their values; the other sources do not depend on them.     *)
LEMMA SourcesAre ==
    ASSUME NEW A \in Netlists, NEW q \in [Latches(A) -> Values],
           NEW i \in [1 .. Len(A.inputs) -> BOOLEAN]
    PROVE  /\ Sources(A, q, i) \in [AllVars(A) -> Values]
           /\ \A n \in Latches(A) : Sources(A, q, i)[LatchVar(A, n)] = q[n]
           /\ \A v \in AllVars(A) \ LatchVars(A) :
                 Sources(A, q, i)[v] = IF v = 0 THEN "0"
                                       ELSE IF IsInput(A, v) THEN OfBool(i[InputOf(A, v)]) ELSE "X"
<1> DEFINE src == Sources(A, q, i)
<1>1. src = [v \in AllVars(A) |-> src[v]]
  BY DEF Sources, AllVars
<1>2. ASSUME NEW v \in AllVars(A)
      PROVE  src[v] = IF v = 0 THEN "0"
                      ELSE IF v \in LatchVars(A) THEN q[CHOOSE n \in Latches(A) : LatchVar(A, n) = v]
                      ELSE IF IsInput(A, v) THEN OfBool(i[InputOf(A, v)]) ELSE "X"
  BY DEF Sources, AllVars, IsInput, InputOf, LatchVars
<1> HIDE DEF src
<1>3. ASSUME NEW n \in Latches(A) PROVE src[LatchVar(A, n)] = q[n]
  <2>1. LatchVar(A, n) \in AllVars(A) /\ LatchVar(A, n) # 0 /\ LatchVar(A, n) \in LatchVars(A)
    BY LatchFacts DEF LatchVars
  <2>2. (CHOOSE m \in Latches(A) : LatchVar(A, m) = LatchVar(A, n)) = n
    BY LatchFacts
  <2> QED BY <1>2, <2>1, <2>2
<1>4. ASSUME NEW v \in AllVars(A), v \notin LatchVars(A)
      PROVE  src[v] = IF v = 0 THEN "0"
                      ELSE IF IsInput(A, v) THEN OfBool(i[InputOf(A, v)]) ELSE "X"
  BY <1>2, <1>4
<1>5. \A b : OfBool(b) \in Values /\ OfBool(b) # "X"
  BY DEF OfBool, Values
<1>6. ASSUME NEW v \in AllVars(A) PROVE src[v] \in Values
  <2>1. CASE v \in LatchVars(A)
    BY <1>3, <2>1 DEF LatchVars
  <2>2. CASE v \notin LatchVars(A)
    BY <1>4, <1>5, <2>2 DEF Values
  <2> QED BY <2>1, <2>2
<1>7. src \in [AllVars(A) -> Values]
  BY <1>1, <1>6
<1> QED BY <1>3, <1>4, <1>7 DEF src

(* Each defined variable is the constant, an input, a latch or a gate.     *)
LEMMA DefinedBy ==
    ASSUME NEW A \in Netlists, NEW v \in DefinedVars(A), v # 0, v \notin Gates(A), v \notin LatchVars(A)
    PROVE  IsInput(A, v) /\ InputOf(A, v) \in 1 .. Len(A.inputs)
<1>1. v \notin {lit2var(x[1]) : x \in RangeOf(A.latches) \cup RangeOf(A.ands)}
  BY LatchFacts DEF Gates, Gate, LatchVars, LatchVar, RangeOf
<1>2. v \in {lit2var(l) : l \in RangeOf(A.inputs)}
  BY <1>1 DEF DefinedVars
<1>3. IsInput(A, v)
  BY <1>2, LatchFacts DEF IsInput, RangeOf
<1> QED BY <1>3 DEF IsInput, InputOf

-----------------------------------------------------------------------------
(* Two-valued evaluation, which is simulation without undefined values.    *)

EvalSource(A, q, i, v) ==
    IF \E n \in Latches(A) : LatchVar(A, n) = v THEN q[CHOOSE n \in Latches(A) : LatchVar(A, n) = v]
    ELSE IF IsInput(A, v) THEN i[InputOf(A, v)] ELSE FALSE

(* Eval is what its equations say.                                         *)
LEMMA EvalIs ==
    ASSUME NEW A \in Netlists, NEW q \in [Latches(A) -> BOOLEAN],
           NEW i \in [1 .. Len(A.inputs) -> BOOLEAN]
    PROVE  /\ Eval(A, q, i) \in [AllVars(A) -> BOOLEAN]
           /\ \A v \in Gates(A) : Eval(A, q, i)[v] = ( /\ ValueOf(Eval(A, q, i), Gate(A)[v][2])
                                                       /\ ValueOf(Eval(A, q, i), Gate(A)[v][3]))
           /\ \A v \in AllVars(A) \ Gates(A) : Eval(A, q, i)[v] = EvalSource(A, q, i, v)
<1> DEFINE F == [AllVars(A) -> BOOLEAN]
           out(f, v) == IF v \in Gates(A)
                        THEN ValueOf(f, Gate(A)[v][2]) /\ ValueOf(f, Gate(A)[v][3])
                        ELSE EvalSource(A, q, i, v)
           step == [p \in F \X AllVars(A) |-> out(p[1], p[2])]
           Eq(f) == [v \in 0 .. LastVar(A) |->
                       IF v \in Gates(A)
                       THEN (f[lit2var(Gate(A)[v][2])] # sign(Gate(A)[v][2])) /\
                            (f[lit2var(Gate(A)[v][3])] # sign(Gate(A)[v][3]))
                       ELSE IF \E n \in Latches(A) : LatchVar(A, n) = v
                       THEN q[CHOOSE n \in Latches(A) : LatchVar(A, n) = v]
                       ELSE IF \E n \in 1 .. Len(A.inputs) : lit2var(A.inputs[n]) = v
                       THEN i[CHOOSE n \in 1 .. Len(A.inputs) : lit2var(A.inputs[n]) = v]
                       ELSE FALSE]
           val == CHOOSE f : f = Eq(f)
<1>1. LastVar(A) \in Nat /\ AllVars(A) = 0 .. LastVar(A)
  BY LastVarIs DEF AllVars
<1>2. \A v : EvalSource(A, q, i, v) \in BOOLEAN
  BY DEF EvalSource, IsInput, InputOf
<1>3. ASSUME NEW f, NEW v \in AllVars(A) PROVE out(f, v) \in BOOLEAN
  BY <1>2 DEF ValueOf
<1>4. ASSUME NEW f \in F, NEW h \in F, NEW v \in AllVars(A), \A w \in 0 .. v - 1 : f[w] = h[w]
      PROVE  out(f, v) = out(h, v)
  <2>1. CASE v \in Gates(A)
    <3>1. f[In(A, v, 2)] = h[In(A, v, 2)] /\ f[In(A, v, 3)] = h[In(A, v, 3)]
      BY <1>4, <2>1, GateFacts
    <3> QED BY <3>1 DEF ValueOf, In
  <2>2. CASE v \notin Gates(A)
    BY <2>2
  <2> QED BY <2>1, <2>2
<1>5. Eval(A, q, i) = val
  BY DEF Eval, Gates
<1>6. \A f : \A v \in AllVars(A) : Eq(f)[v] = out(f, v)
  BY DEF AllVars, ValueOf, EvalSource, IsInput, InputOf
<1>7. \A f : Eq(f) = [v \in AllVars(A) |-> Eq(f)[v]]
  BY DEF AllVars
<1> HIDE DEF Eq, out
<1>8. step \in [F \X AllVars(A) -> BOOLEAN] /\ \A f \in F, v \in AllVars(A) : step[<<f, v>>] = out(f, v)
  BY <1>3
<1> HIDE DEF step
<1>9. ReadsBelow(step, LastVar(A), BOOLEAN)
  <2>1. \A f, h \in F : \A v \in AllVars(A) :
           (\A w \in 0 .. v - 1 : f[w] = h[w]) => step[<<f, v>>] = step[<<h, v>>]
    <3> SUFFICES ASSUME NEW f \in F, NEW h \in F, NEW v \in AllVars(A), \A w \in 0 .. v - 1 : f[w] = h[w]
                 PROVE  step[<<f, v>>] = step[<<h, v>>]
      OBVIOUS
    <3>1. out(f, v) = out(h, v)
      BY <1>4
    <3>2. step[<<f, v>>] = out(f, v) /\ step[<<h, v>>] = out(h, v)
      BY <1>8
    <3> QED BY <3>1, <3>2, Zenon
  <2> QED BY <1>8, <2>1 DEF ReadsBelow, AllVars
<1>10. PICK h \in F : \A v \in AllVars(A) : h[v] = out(h, v)
  <2>1. \E f : IsDetermined(f, step, LastVar(A), BOOLEAN)
    BY <1>1, <1>9, CourseOfValues
  <2> QED BY <1>8, <2>1 DEF IsDetermined, AllVars
<1>11. h = Eq(h)
  BY <1>6, <1>7, <1>10
<1>12. val = Eq(val)
  BY <1>11
<1> HIDE DEF val
<1>13. val = [v \in AllVars(A) |-> Eq(val)[v]]
  BY <1>7, <1>12
<1>14. \A v \in AllVars(A) : val[v] = out(val, v)
  BY <1>6, <1>13
<1>15. val \in [AllVars(A) -> BOOLEAN]
  BY <1>3, <1>13, <1>14
<1>16. \A v \in Gates(A) : v \in AllVars(A)
  BY GateFacts
<1> QED BY <1>5, <1>14, <1>15, <1>16 DEF out

(* Negation and conjunction of values that are defined.                    *)
LEMMA BoolOps ==
    /\ \A x \in BOOLEAN : OfBool(x) \in Values /\ OfBool(x) # "X" /\ Not(OfBool(x)) = OfBool(~x)
    /\ \A x, y \in BOOLEAN : And(OfBool(x), OfBool(y)) = OfBool(x /\ y)
BY DEF OfBool, Values, Not, And

(* Evaluation is a simulation.                                             *)
LEMMA EvalSimulates ==
    ASSUME NEW A \in Netlists, NEW q \in [Latches(A) -> BOOLEAN],
           NEW i \in [1 .. Len(A.inputs) -> BOOLEAN]
    PROVE  IsSim(A, [v \in AllVars(A) |-> OfBool(EvalSource(A, q, i, v))],
                    [v \in AllVars(A) |-> OfBool(Eval(A, q, i)[v])])
<1> DEFINE e == Eval(A, q, i)
           val == [v \in AllVars(A) |-> OfBool(e[v])]
           src == [v \in AllVars(A) |-> OfBool(EvalSource(A, q, i, v))]
<1>1. e \in [AllVars(A) -> BOOLEAN]
  BY EvalIs
<1>2. \A v \in AllVars(A) : val[v] = OfBool(e[v]) /\ src[v] = OfBool(EvalSource(A, q, i, v))
  OBVIOUS
<1>3. val \in [AllVars(A) -> Values]
  BY <1>1, BoolOps
<1>4. \A v \in Gates(A) : e[v] = (ValueOf(e, Gate(A)[v][2]) /\ ValueOf(e, Gate(A)[v][3]))
  BY EvalIs
<1>5. \A v \in AllVars(A) \ Gates(A) : e[v] = EvalSource(A, q, i, v)
  BY EvalIs
<1> HIDE DEF e, val, src
<1>6. ASSUME NEW l \in Nat, lit2var(l) \in AllVars(A)
      PROVE  Read(val, l) = OfBool(ValueOf(e, l)) /\ ValueOf(e, l) \in BOOLEAN
  <2>1. e[lit2var(l)] \in BOOLEAN /\ val[lit2var(l)] = OfBool(e[lit2var(l)])
    BY <1>1, <1>2, <1>6
  <2>2. CASE sign(l)
    <3>1. ValueOf(e, l) = ~ e[lit2var(l)]
      BY <2>1, <2>2, VarOfLit DEF ValueOf
    <3>2. Read(val, l) = Not(OfBool(e[lit2var(l)]))
      BY <2>1, <2>2 DEF Read
    <3> QED BY <2>1, <3>1, <3>2, BoolOps
  <2>3. CASE ~ sign(l)
    <3>1. ValueOf(e, l) = e[lit2var(l)]
      BY <2>1, <2>3, VarOfLit DEF ValueOf
    <3>2. Read(val, l) = OfBool(e[lit2var(l)])
      BY <2>1, <2>3 DEF Read
    <3> QED BY <2>1, <3>1, <3>2
  <2> QED BY <2>2, <2>3
<1>7. ASSUME NEW v \in Gates(A)
      PROVE  val[v] = And(Read(val, Gate(A)[v][2]), Read(val, Gate(A)[v][3]))
  <2>1. /\ Gate(A)[v][2] \in Nat /\ lit2var(Gate(A)[v][2]) \in AllVars(A)
        /\ Gate(A)[v][3] \in Nat /\ lit2var(Gate(A)[v][3]) \in AllVars(A) /\ v \in AllVars(A)
    BY GateFacts, LastVarIs DEF In
  <2>2. And(OfBool(ValueOf(e, Gate(A)[v][2])), OfBool(ValueOf(e, Gate(A)[v][3]))) = OfBool(e[v])
    BY <1>4, <1>6, <2>1, BoolOps
  <2> QED BY <1>2, <1>6, <2>1, <2>2
<1>8. \A v \in AllVars(A) \ Gates(A) : val[v] = src[v]
  BY <1>2, <1>5
<1>9. IsSim(A, src, val)
  BY <1>3, <1>7, <1>8 DEF IsSim
<1> QED BY <1>9 DEF e, val, src

(* Ternary simulation says nothing that a state it covers contradicts.     *)
LEMMA SimCovers ==
    ASSUME NEW A \in Netlists, NEW q \in [Latches(A) -> BOOLEAN], NEW p \in [Latches(A) -> Values],
           NEW i \in [1 .. Len(A.inputs) -> BOOLEAN], \A n \in Latches(A) : Below(p[n], OfBool(q[n]))
    PROVE  \A v \in AllVars(A) : Below(Simulated(A, p, i)[v], OfBool(Eval(A, q, i)[v]))
<1> DEFINE src == [v \in AllVars(A) |-> OfBool(EvalSource(A, q, i, v))]
           val == [v \in AllVars(A) |-> OfBool(Eval(A, q, i)[v])]
<1>1. IsSim(A, src, val)
  BY EvalSimulates
<1>2. IsSim(A, Sources(A, p, i), Simulated(A, p, i))
  BY SourcesAre, SimulatedIs
<1>3. ASSUME NEW v \in AllVars(A) \ Gates(A) PROVE Below(Sources(A, p, i)[v], src[v])
  <2>1. src[v] = OfBool(EvalSource(A, q, i, v))
    OBVIOUS
  <2>2. CASE v \in LatchVars(A)
    <3>1. PICK n \in Latches(A) : v = LatchVar(A, n)
      BY <2>2 DEF LatchVars
    <3>2. (CHOOSE m \in Latches(A) : LatchVar(A, m) = v) = n
      BY <3>1, LatchFacts
    <3>3. EvalSource(A, q, i, v) = q[n]
      BY <3>1, <3>2 DEF EvalSource
    <3> QED BY <2>1, <3>1, <3>3, SourcesAre
  <2>3. CASE v \notin LatchVars(A)
    <3>1. EvalSource(A, q, i, v) = IF IsInput(A, v) THEN i[InputOf(A, v)] ELSE FALSE
      BY <2>3 DEF EvalSource, LatchVars
    <3>2. v = 0 => ~ IsInput(A, v)
      BY LatchFacts DEF IsInput
    <3>3. Sources(A, p, i)[v] = IF v = 0 THEN "0"
                                ELSE IF IsInput(A, v) THEN OfBool(i[InputOf(A, v)]) ELSE "X"
      BY <2>3, SourcesAre
    <3>4. OfBool(FALSE) = "0"
      BY DEF OfBool
    <3> QED BY <2>1, <3>1, <3>2, <3>3, <3>4 DEF Below
  <2> QED BY <2>2, <2>3
<1>4. \A v \in AllVars(A) : val[v] = OfBool(Eval(A, q, i)[v])
  OBVIOUS
<1> HIDE DEF src, val
<1>5. \A v \in AllVars(A) : Below(Simulated(A, p, i)[v], val[v])
  BY <1>1, <1>2, <1>3, SimMono
<1> QED BY <1>4, <1>5

-----------------------------------------------------------------------------
(* Cones.                                                                  *)

(* A cone contains its root and, with a gate, what the gate reads.         *)
LEMMA ConeIs ==
    ASSUME NEW A \in Netlists, NEW l, lit2var(l) \in AllVars(A)
    PROVE  /\ lit2var(l) \in markCone(A, l) /\ markCone(A, l) \subseteq AllVars(A)
           /\ \A v \in markCone(A, l) \cap Gates(A) : In(A, v, 2) \in markCone(A, l) /\ In(A, v, 3) \in markCone(A, l)
<1> DEFINE S == SUBSET AllVars(A)
           F == [AllVars(A) -> S]
           out(f, v) == IF v \in Gates(A) THEN {v} \cup f[In(A, v, 2)] \cup f[In(A, v, 3)] ELSE {v}
           step == [p \in F \X AllVars(A) |-> out(p[1], p[2])]
           Eq(f) == [v \in 0 .. LastVar(A) |->
                       IF v \in DOMAIN Gate(A)
                       THEN {v} \cup f[lit2var(Gate(A)[v][2])] \cup f[lit2var(Gate(A)[v][3])]
                       ELSE {v}]
           below == CHOOSE f : f = Eq(f)
<1>1. LastVar(A) \in Nat /\ AllVars(A) = 0 .. LastVar(A)
  BY LastVarIs DEF AllVars
<1>2. \A v \in Gates(A) : /\ v \in AllVars(A) /\ In(A, v, 2) \in AllVars(A) /\ In(A, v, 3) \in AllVars(A)
                          /\ In(A, v, 2) \in 0 .. v - 1 /\ In(A, v, 3) \in 0 .. v - 1
  BY GateFacts, LastVarIs
<1>3. ASSUME NEW f \in F, NEW v \in AllVars(A) PROVE out(f, v) \in S
  BY <1>2
<1>4. ASSUME NEW f \in F, NEW h \in F, NEW v \in AllVars(A), \A w \in 0 .. v - 1 : f[w] = h[w]
      PROVE  out(f, v) = out(h, v)
  BY <1>2, <1>4
<1>5. markCone(A, l) = below[lit2var(l)]
  BY DEF markCone
<1>6. \A f : \A v \in AllVars(A) : Eq(f)[v] = out(f, v)
  BY DEF AllVars, In, Gates
<1>7. \A f : Eq(f) = [v \in AllVars(A) |-> Eq(f)[v]]
  BY DEF AllVars
<1> HIDE DEF Eq
<1>8. step \in [F \X AllVars(A) -> S] /\ \A f \in F, v \in AllVars(A) : step[<<f, v>>] = out(f, v)
  BY <1>3
<1>9. S # {}
  OBVIOUS
<1>10. ReadsBelow(step, LastVar(A), S)
  <2> HIDE DEF out, step, S
  <2>1. \A f, h \in F : \A v \in AllVars(A) :
           (\A w \in 0 .. v - 1 : f[w] = h[w]) => step[<<f, v>>] = step[<<h, v>>]
    <3> SUFFICES ASSUME NEW f \in F, NEW h \in F, NEW v \in AllVars(A), \A w \in 0 .. v - 1 : f[w] = h[w]
                 PROVE  step[<<f, v>>] = step[<<h, v>>]
      OBVIOUS
    <3>1. out(f, v) = out(h, v)
      BY <1>4
    <3>2. step[<<f, v>>] = out(f, v) /\ step[<<h, v>>] = out(h, v)
      BY <1>8
    <3> QED BY <3>1, <3>2, Zenon
  <2> QED BY <1>8, <2>1 DEF ReadsBelow, AllVars
<1>11. PICK h \in F : \A v \in AllVars(A) : h[v] = out(h, v)
  <2> HIDE DEF step, S
  <2>1. \E f : IsDetermined(f, step, LastVar(A), S)
    BY <1>1, <1>9, <1>10, CourseOfValues
  <2> HIDE DEF out
  <2> QED BY <1>8, <2>1 DEF IsDetermined, AllVars
<1>12. h = Eq(h)
  <2> HIDE DEF out
  <2> QED BY <1>6, <1>7, <1>11
<1>13. below = Eq(below)
  BY <1>12
<1> HIDE DEF below
<1>14. \A v \in AllVars(A) : below[v] = out(below, v)
  <2>1. below = [v \in AllVars(A) |-> Eq(below)[v]]
    BY <1>7, <1>13
  <2> HIDE DEF out
  <2> QED BY <1>6, <2>1
\* The variables below v are a cone.
<1> DEFINE IsCone(C) == /\ C \subseteq AllVars(A)
                        /\ \A w \in C \cap Gates(A) : In(A, w, 2) \in C /\ In(A, w, 3) \in C
           D == {v \in AllVars(A) : ~ IsCone(below[v])}
<1>15. \A v \in AllVars(A) : v \in below[v]
  BY <1>14
<1>16. D = {}
  <2> SUFFICES ASSUME D # {} PROVE FALSE
    OBVIOUS
  <2>1. D \subseteq Nat
    BY <1>1
  <2>2. PICK v \in D : \A w \in D : v <= w
    <3> HIDE DEF D
    <3> QED BY <2>1, LeastNat
  <2>3. ASSUME NEW w \in 0 .. v - 1 PROVE w \in AllVars(A) /\ IsCone(below[w])
    <3>1. w \in AllVars(A) /\ ~ (v <= w)
      BY <1>1, <2>2
    <3> QED BY <2>2, <3>1
  <2>4. v \in AllVars(A)
    BY <2>2
  <2>5. CASE v \notin Gates(A)
    <3>1. below[v] = {v}
      BY <1>14, <2>4, <2>5
    <3> QED BY <2>2, <2>5, <3>1
  <2>6. CASE v \in Gates(A)
    <3> DEFINE C2 == below[In(A, v, 2)]
               C3 == below[In(A, v, 3)]
    <3>1. below[v] = {v} \cup C2 \cup C3
      BY <1>14, <2>4, <2>6
    <3>2. In(A, v, 2) \in C2 /\ In(A, v, 3) \in C3
      BY <1>2, <1>15, <2>6
    <3>3. IsCone(C2) /\ IsCone(C3)
      BY <1>2, <2>3, <2>6
    <3> HIDE DEF C2, C3
    <3>4. IsCone(below[v])
      BY <2>4, <3>1, <3>2, <3>3
    <3> QED BY <2>2, <3>4
  <2> QED BY <2>5, <2>6
<1>17. IsCone(below[lit2var(l)])
  BY <1>16
<1> QED BY <1>5, <1>15, <1>17

(* Latches that cover a cone give every variable of it a value.            *)
LEMMA ConeHasValues ==
    ASSUME NEW A \in Netlists, NEW l, lit2var(l) \in DefinedVars(A),
           NEW p \in [Latches(A) -> Values], NEW i \in [1 .. Len(A.inputs) -> BOOLEAN],
           \A n \in collectCOI(A, l) : p[n] # "X"
    PROVE  Simulated(A, p, i)[lit2var(l)] # "X"
<1> DEFINE sim == Simulated(A, p, i)
           src == Sources(A, p, i)
           C   == markCone(A, l)
           D   == {v \in C \cap DefinedVars(A) : sim[v] = "X"}
<1>1. IsSim(A, src, sim) /\ src \in [AllVars(A) -> Values]
  BY SourcesAre, SimulatedIs
<1>2. lit2var(l) \in C /\ C \subseteq AllVars(A)
      /\ \A v \in C \cap Gates(A) : In(A, v, 2) \in C /\ In(A, v, 3) \in C
  BY ConeIs, LastVarIs
<1>3. \A n \in Latches(A) : src[LatchVar(A, n)] = p[n]
  BY SourcesAre
<1>4. \A v \in AllVars(A) \ LatchVars(A) :
         src[v] = IF v = 0 THEN "0" ELSE IF IsInput(A, v) THEN OfBool(i[InputOf(A, v)]) ELSE "X"
  BY SourcesAre
<1> HIDE DEF sim, src, C
<1>5. D = {}
  <2> SUFFICES ASSUME D # {} PROVE FALSE
    OBVIOUS
  <2>1. D \subseteq Nat
    BY <1>2, LastVarIs DEF AllVars
  <2>2. PICK v \in D : \A w \in D : v <= w
    <3> HIDE DEF D
    <3> QED BY <2>1, LeastNat
  <2>3. v \in AllVars(A) /\ v \in C /\ v \in DefinedVars(A) /\ sim[v] = "X"
    BY <1>2, <2>2
  <2>4. CASE v \in Gates(A)
    <3>1. ASSUME NEW k \in {2, 3} PROVE Read(sim, Gate(A)[v][k]) \in Values \ {"X"}
      <4>1. In(A, v, k) \in C /\ In(A, v, k) \in DefinedVars(A) /\ In(A, v, k) \in 0 .. v - 1
        BY <1>2, <2>3, <2>4, GateFacts
      <4>2. In(A, v, k) \notin D
        <5>1. ~ (v <= In(A, v, k))
          BY <2>1, <2>2, <4>1
        <5> QED BY <2>2, <5>1
      <4>3. sim[In(A, v, k)] \in Values \ {"X"}
        BY <1>1, <1>2, <4>1, <4>2 DEF IsSim
      <4>4. \A x \in Values \ {"X"} : Not(x) \in Values \ {"X"}
        BY DEF Values, Not
      <4> QED BY <4>3, <4>4 DEF Read, In
    <3>2. \A x, y \in Values \ {"X"} : And(x, y) # "X"
      BY DEF Values, And
    <3>3. sim[v] = And(Read(sim, Gate(A)[v][2]), Read(sim, Gate(A)[v][3]))
      BY <1>1, <2>3, <2>4 DEF IsSim
    <3> QED BY <2>3, <3>1, <3>2, <3>3
  <2>5. CASE v \notin Gates(A)
    <3>1. sim[v] = src[v]
      BY <1>1, <2>3, <2>5 DEF IsSim
    <3>2. CASE v \in LatchVars(A)
      <4>1. PICK n \in Latches(A) : v = LatchVar(A, n)
        BY <3>2 DEF LatchVars
      <4>2. n \in collectCOI(A, l)
        BY <2>3, <4>1 DEF collectCOI, C
      <4> QED BY <1>3, <2>3, <3>1, <4>1, <4>2
    <3>3. CASE v \notin LatchVars(A)
      <4>1. v = 0 \/ IsInput(A, v)
        BY <2>3, <2>5, <3>3, DefinedBy
      <4>2. \A b : OfBool(b) # "X"
        BY DEF OfBool
      <4> QED BY <1>4, <2>3, <3>1, <3>3, <4>1, <4>2
    <3> QED BY <3>2, <3>3
  <2> QED BY <2>4, <2>5
<1> QED BY <1>2, <1>5 DEF sim

-----------------------------------------------------------------------------
(* Lists.                                                                  *)

(* The fanouts of a variable are gates, and all gates that read it.        *)
LEMMA FanoutsAre ==
    ASSUME NEW A \in Netlists, NEW v
    PROVE  /\ Fanouts(A, v) \in Seq(Gates(A))
           /\ \A o \in Gates(A) : v \in {In(A, o, 2), In(A, o, 3)} =>
                 \E j \in DOMAIN Fanouts(A, v) : Fanouts(A, v)[j] = o
<1> DEFINE S == Seq(Gates(A))
           n == Len(A.ands)
           entry(a, k) == IF lit2var(a[k]) = v THEN <<lit2var(a[1])>> ELSE <<>>
           both(k) == entry(A.ands[k], 2) \o entry(A.ands[k], 3)
           step == [y \in S \X (1 .. n) |-> y[1] \o both(y[2])]
           Eq(f) == [k \in 0 .. n |->
                       IF k = 0 THEN <<>> ELSE f[k-1] \o entry(A.ands[k], 2) \o entry(A.ands[k], 3)]
           upto == CHOOSE f : f = Eq(f)
<1>1. n \in Nat /\ DOMAIN A.ands = 1 .. n
  BY ListsAre
<1>2. ASSUME NEW k \in 1 .. n
      PROVE  /\ entry(A.ands[k], 2) \in S /\ entry(A.ands[k], 3) \in S /\ both(k) \in S
             /\ v \in {lit2var(A.ands[k][2]), lit2var(A.ands[k][3])} =>
                  \E j \in DOMAIN both(k) : both(k)[j] = lit2var(A.ands[k][1])
  <2> DEFINE o == lit2var(A.ands[k][1])
             e2 == entry(A.ands[k], 2)
             e3 == entry(A.ands[k], 3)
  <2>1. o \in Gates(A)
    BY <1>1, GateFacts
  <2>2. (e2 = <<o>> \/ e2 = <<>>) /\ (e3 = <<o>> \/ e3 = <<>>)
        /\ (lit2var(A.ands[k][2]) = v => e2 = <<o>>) /\ (lit2var(A.ands[k][3]) = v => e3 = <<o>>)
    OBVIOUS
  <2>3. both(k) = e2 \o e3
    OBVIOUS
  <2> HIDE DEF o, e2, e3, both
  <2>4. e2 \in S /\ e3 \in S
    <3>1. <<o>> \in S /\ <<>> \in S
      BY <2>1
    <3> HIDE DEF S
    <3> QED BY <2>2, <3>1
  <2>5. e2 = <<o>> \/ e3 = <<o>> => \E j \in DOMAIN (e2 \o e3) : (e2 \o e3)[j] = o
    <3>1. CASE e2 = <<o>>
      <4>1. (e2 \o e3)[1] = o /\ 1 \in DOMAIN (e2 \o e3)
        BY <2>4, <3>1
      <4> QED BY <4>1
    <3>2. CASE e2 = <<>> /\ e3 = <<o>>
      <4>1. e2 \o e3 = <<o>>
        BY <3>2
      <4> QED BY <4>1
    <3> QED BY <2>2, <3>1, <3>2
  <2> QED BY <2>2, <2>3, <2>4, <2>5 DEF o, e2, e3
<1>3. Fanouts(A, v) = upto[n]
  BY DEF Fanouts
<1>4. /\ \A f : Eq(f) = [k \in 0 .. n |-> Eq(f)[k]]
      /\ \A f : Eq(f)[0] = <<>>
  <2> HIDE DEF entry
  <2>1. 0 \in 0 .. n
    BY <1>1
  <2> HIDE DEF n
  <2>2. ASSUME NEW f PROVE Eq(f) = [k \in 0 .. n |-> Eq(f)[k]]
    OBVIOUS
  <2>3. ASSUME NEW f PROVE Eq(f)[0] = <<>>
    BY <2>1
  <2> HIDE DEF Eq
  <2> QED BY <2>2, <2>3
<1>5. \A f : \A k \in 1 .. n : f[k-1] \in S => Eq(f)[k] = f[k-1] \o both(k)
  <2> SUFFICES ASSUME NEW f, NEW k \in 1 .. n, f[k-1] \in S PROVE Eq(f)[k] = f[k-1] \o both(k)
    OBVIOUS
  <2>1. Eq(f)[k] = f[k-1] \o entry(A.ands[k], 2) \o entry(A.ands[k], 3)
    <3>1. k \in 0 .. n /\ k # 0
      BY <1>1
    <3> HIDE DEF entry
    <3> QED BY <3>1
  <2> DEFINE a == f[k-1]
             e2 == entry(A.ands[k], 2)
             e3 == entry(A.ands[k], 3)
  <2>2. a \in S /\ e2 \in S /\ e3 \in S
    BY <1>2
  <2> HIDE DEF a, e2, e3
  <2>3. (a \o e2) \o e3 = a \o (e2 \o e3)
    BY <2>2
  <2> QED BY <2>1, <2>3 DEF a, e2, e3
<1> HIDE DEF Eq, both
<1>6. step \in [S \X (1 .. n) -> S] /\ \A s \in S, k \in 1 .. n : step[<<s, k>>] = s \o both(k)
  <2>1. \A s \in S, k \in 1 .. n : s \o both(k) \in S
    BY <1>2
  <2> HIDE DEF S
  <2> QED BY <2>1
<1>7. <<>> \in S
  OBVIOUS
<1> HIDE DEF step, n
<1>8. PICK g : IsRecursive(g, S, <<>>, n, step)
  <2> HIDE DEF S
  <2> QED BY <1>1, <1>6, <1>7, Recursion
<1>9. g \in [0 .. n -> S] /\ g[0] = <<>> /\ \A k \in 1 .. n : k - 1 \in 0 .. n /\ g[k] = g[k-1] \o both(k)
  <2>1. \A k \in 1 .. n : k - 1 \in 0 .. n
    BY <1>1
  <2> HIDE DEF S
  <2> QED BY <1>6, <1>8, <2>1 DEF IsRecursive
<1>10. g = Eq(g)
  <2>1. \A k \in 0 .. n : k = 0 \/ k \in 1 .. n
    BY <1>1
  <2>2. \A k \in 0 .. n : g[k] = Eq(g)[k]
    <3> HIDE DEF S
    <3> QED BY <1>4, <1>5, <1>9, <2>1
  <2> QED BY <1>4, <1>9, <2>2
<1>11. upto = Eq(upto)
  BY <1>10
<1> HIDE DEF upto, S
<1> DEFINE Good(k) == /\ upto[k] \in S
                      /\ \A m \in 1 .. k : v \in {lit2var(A.ands[m][2]), lit2var(A.ands[m][3])} =>
                           \E j \in DOMAIN upto[k] : upto[k][j] = lit2var(A.ands[m][1])
           T == {k \in 0 .. n : Good(k)}
<1>12. upto[0] = <<>>
  BY <1>1, <1>4, <1>11
<1>13. 0 \in T
  <2>1. \A m \in 1 .. 0 : FALSE
    OBVIOUS
  <2>2. Good(0)
    BY <1>7, <1>12, <2>1
  <2> QED BY <1>1, <2>2
<1>14. ASSUME NEW k \in 0 .. n - 1, k \in T PROVE k + 1 \in T
  <2>1. upto[k] \in S /\ k + 1 \in 1 .. n /\ k + 1 \in 0 .. n /\ k + 1 - 1 = k
    BY <1>1, <1>14
  <2>2. upto[k+1] = upto[k] \o both(k + 1)
    <3>1. upto[k+1] = Eq(upto)[k+1]
      BY <1>11
    <3>2. upto[(k+1)-1] = upto[k]
      BY <2>1
    <3>3. Eq(upto)[k+1] = upto[(k+1)-1] \o both(k + 1)
      BY <1>5, <2>1, <3>2
    <3> QED BY <3>1, <3>2, <3>3
  <2> DEFINE a == upto[k]
             b == both(k + 1)
             c == upto[k+1]
  <2>3. a \in S /\ b \in S /\ c = a \o b
    BY <1>2, <2>1, <2>2
  <2>4. c \in S /\ (\A j \in DOMAIN a : j \in DOMAIN c /\ c[j] = a[j])
                /\ (\A j \in DOMAIN b : Len(a) + j \in DOMAIN c /\ c[Len(a) + j] = b[j])
    <3> HIDE DEF a, b, c
    <3> QED BY <2>3 DEF S
  <2>5. ASSUME NEW m \in 1 .. k + 1, v \in {lit2var(A.ands[m][2]), lit2var(A.ands[m][3])}
        PROVE  \E j \in DOMAIN c : c[j] = lit2var(A.ands[m][1])
    <3>1. CASE m = k + 1
      <4>1. PICK j \in DOMAIN b : b[j] = lit2var(A.ands[m][1])
        BY <1>2, <2>1, <2>5, <3>1
      <4> QED BY <2>4, <4>1
    <3>2. CASE m # k + 1
      <4>1. m \in 1 .. k
        BY <1>1, <3>2
      <4>2. PICK j \in DOMAIN a : a[j] = lit2var(A.ands[m][1])
        BY <1>14, <2>5, <4>1
      <4> QED BY <2>4, <4>2
    <3> QED BY <3>1, <3>2
  <2> QED BY <2>1, <2>4, <2>5
<1>15. n \in T
  <2> HIDE DEF T
  <2>1. 0 .. n \subseteq T
    BY <1>1, <1>13, <1>14, Climb
  <2> QED BY <1>1, <2>1
<1>16. ASSUME NEW o \in Gates(A), v \in {In(A, o, 2), In(A, o, 3)}
       PROVE  \E j \in DOMAIN upto[n] : upto[n][j] = o
  <2>1. PICK m \in DOMAIN A.ands : Gate(A)[o] = A.ands[m]
    BY GateFacts DEF RangeOf
  <2>2. lit2var(A.ands[m][1]) = o /\ v \in {lit2var(A.ands[m][2]), lit2var(A.ands[m][3])}
    BY <1>16, <2>1, GateFacts DEF In
  <2> QED BY <1>1, <1>15, <2>1, <2>2
<1> QED BY <1>3, <1>15, <1>16 DEF S

(* The latches of a set, each of them.                                     *)
LEMMA InOrderIs ==
    ASSUME NEW A \in Netlists, NEW L, L \subseteq Latches(A)
    PROVE  /\ InOrder(A, L) \in Seq(L)
           /\ \A m \in L : \E j \in DOMAIN InOrder(A, L) : InOrder(A, L)[j] = m
<1> DEFINE S == Seq(L)
           n == Len(A.latches)
           add(s, k) == IF k \in L THEN Append(s, k) ELSE s
           step == [y \in S \X (1 .. n) |-> add(y[1], y[2])]
           Eq(f) == [k \in 0 .. n |->
                       IF k = 0 THEN <<>> ELSE IF k \in L THEN Append(f[k-1], k) ELSE f[k-1]]
           upto == CHOOSE f : f = Eq(f)
<1>1. n \in Nat /\ Latches(A) = 1 .. n
  BY ListsAre DEF Latches
<1>2. InOrder(A, L) = upto[n]
  BY DEF InOrder
<1>3. /\ \A f : Eq(f) = [k \in 0 .. n |-> Eq(f)[k]]
      /\ \A f : Eq(f)[0] = <<>>
      /\ \A f : \A k \in 1 .. n : Eq(f)[k] = add(f[k-1], k)
  BY <1>1
<1> HIDE DEF Eq
<1>4. \A s \in S, k \in 1 .. n : add(s, k) \in S
  OBVIOUS
<1> HIDE DEF add
<1>5. step \in [S \X (1 .. n) -> S] /\ \A s \in S, k \in 1 .. n : step[<<s, k>>] = add(s, k)
  BY <1>4
<1>6. <<>> \in S
  OBVIOUS
<1> HIDE DEF step, n, S
<1>7. PICK g : IsRecursive(g, S, <<>>, n, step)
  BY <1>1, <1>5, <1>6, Recursion
<1>8. g \in [0 .. n -> S] /\ g[0] = <<>> /\ \A k \in 1 .. n : k - 1 \in 0 .. n /\ g[k] = add(g[k-1], k)
  <2>1. \A k \in 1 .. n : k - 1 \in 0 .. n
    BY <1>1
  <2> QED BY <1>5, <1>7, <2>1 DEF IsRecursive
<1>9. g = Eq(g)
  <2>1. \A k \in 0 .. n : k = 0 \/ k \in 1 .. n
    BY <1>1
  <2>2. \A k \in 0 .. n : g[k] = Eq(g)[k]
    BY <1>3, <1>8, <2>1
  <2> QED BY <1>3, <1>8, <2>2
<1>10. upto = Eq(upto)
  BY <1>9
<1> HIDE DEF upto
<1> DEFINE Good(k) == /\ upto[k] \in S
                      /\ \A m \in L : m <= k => \E j \in DOMAIN upto[k] : upto[k][j] = m
           T == {k \in 0 .. n : Good(k)}
<1>11. 0 \in T
  <2>1. \A m \in L : ~ (m <= 0)
    BY <1>1
  <2>2. upto[0] = <<>>
    BY <1>3, <1>10
  <2>3. Good(0)
    BY <1>6, <2>1, <2>2
  <2> QED BY <1>1, <2>3
<1>12. ASSUME NEW k \in 0 .. n - 1, k \in T PROVE k + 1 \in T
  <2>1. upto[k] \in S /\ k + 1 \in 1 .. n /\ k + 1 \in 0 .. n /\ k + 1 - 1 = k
    BY <1>1, <1>12
  <2> DEFINE a == upto[k]
             c == upto[k+1]
  <2>2. c = add(a, k + 1)
    <3>1. c = Eq(upto)[k+1]
      BY <1>10
    <3> QED BY <1>3, <2>1, <3>1
  <2>3. a \in S
    BY <2>1
  <2> HIDE DEF a, c
  <2>4. c \in S /\ (\A j \in DOMAIN a : j \in DOMAIN c /\ c[j] = a[j])
                /\ (k + 1 \in L => \E j \in DOMAIN c : c[j] = k + 1)
    <3>1. CASE k + 1 \in L
      <4>1. c = Append(a, k + 1)
        BY <2>2, <3>1 DEF add
      <4>2. Len(a) + 1 \in DOMAIN c /\ c[Len(a) + 1] = k + 1
        BY <2>3, <4>1 DEF S
      <4> QED BY <2>3, <3>1, <4>1, <4>2 DEF S
    <3>2. CASE k + 1 \notin L
      BY <2>2, <2>3, <3>2 DEF add
    <3> QED BY <3>1, <3>2
  <2>5. ASSUME NEW m \in L, m <= k + 1 PROVE \E j \in DOMAIN c : c[j] = m
    <3>1. CASE m = k + 1
      BY <2>4, <3>1
    <3>2. CASE m # k + 1
      <4>1. m <= k
        BY <1>1, <2>5, <3>2
      <4>2. PICK j \in DOMAIN a : a[j] = m
        BY <1>12, <4>1 DEF a
      <4> QED BY <2>4, <4>2
    <3> QED BY <3>1, <3>2
  <2>6. Good(k + 1)
    BY <2>4, <2>5 DEF c
  <2> QED BY <2>1, <2>6
<1>13. n \in T
  <2> HIDE DEF T
  <2>1. 0 .. n \subseteq T
    BY <1>1, <1>11, <1>12, Climb
  <2> QED BY <1>1, <2>1
<1>14. \A m \in L : m <= n
  BY <1>1
<1> QED BY <1>2, <1>13, <1>14 DEF S

-----------------------------------------------------------------------------
(* What is still to be visited.                                            *)

\* Gate o of A will be visited: it is among the fanouts f, and not waiting for
\* its own, or it reads a variable of the list u that stands after it.
Pend(A, o, f, u, s) ==
    \/ o \notin s /\ \E j \in DOMAIN f : f[j] = o
    \/ \E i \in DOMAIN u : /\ u[i] \in {In(A, o, 2), In(A, o, 3)}
                           /\ \A j \in DOMAIN u : u[j] = o => j < i

(* A visit leaves all other gates to be visited.                           *)
LEMMA PendTail ==
    ASSUME NEW A \in Netlists, NEW f \in Seq(Gates(A)), f # <<>>, NEW u, NEW s, NEW o,
           o # Head(f), Pend(A, o, f, u, s)
    PROVE  Pend(A, o, Tail(f), u, s)
<1>1. CASE o \notin s /\ \E j \in DOMAIN f : f[j] = o
  <2>1. PICK j \in DOMAIN f : f[j] = o
    BY <1>1
  <2>2. j # 1
    BY <2>1
  <2>3. j - 1 \in DOMAIN Tail(f) /\ Tail(f)[j-1] = o
    BY <2>1, <2>2
  <2> QED BY <1>1, <2>3 DEF Pend
<1>2. CASE ~ (o \notin s /\ \E j \in DOMAIN f : f[j] = o)
  BY <1>2 DEF Pend
<1> QED BY <1>1, <1>2

(* So it does when the gate that was visited is put at the end of u, and   *)
(* gates that read it are to be visited then.                              *)
LEMMA PendAppend ==
    ASSUME NEW A \in Netlists, NEW f, NEW u \in Seq(AllVars(A)), NEW s, NEW w \in AllVars(A), NEW o, o # w,
           Pend(A, o, f, u, s) \/ w \in {In(A, o, 2), In(A, o, 3)}
    PROVE  Pend(A, o, f, Append(u, w), s \cup {w})
<1> DEFINE t == Append(u, w)
<1>1. /\ DOMAIN t = 1 .. Len(u) + 1 /\ DOMAIN u = 1 .. Len(u) /\ Len(u) \in Nat
      /\ t[Len(u) + 1] = w /\ \A j \in 1 .. Len(u) : t[j] = u[j]
  OBVIOUS
<1> HIDE DEF t
<1>2. \A j \in DOMAIN t : t[j] = o => j \in DOMAIN u /\ u[j] = o
  BY <1>1
<1>3. CASE o \notin s /\ \E j \in DOMAIN f : f[j] = o
  BY <1>3 DEF Pend, t
<1>4. CASE w \in {In(A, o, 2), In(A, o, 3)}
  <2>1. Len(u) + 1 \in DOMAIN t /\ \A j \in DOMAIN t : t[j] = o => j < Len(u) + 1
    BY <1>1, <1>2
  <2> QED BY <1>1, <1>4, <2>1 DEF Pend, t
<1>5. ASSUME NEW i \in DOMAIN u, u[i] \in {In(A, o, 2), In(A, o, 3)}, \A j \in DOMAIN u : u[j] = o => j < i
      PROVE  Pend(A, o, f, t, s \cup {w})
  <2>1. i \in DOMAIN t /\ t[i] = u[i]
    BY <1>1
  <2> QED BY <1>2, <1>5, <2>1 DEF Pend
<1> QED BY <1>3, <1>4, <1>5 DEF Pend, t

(* A gate that is passed over because it waits is visited later.           *)
LEMMA PendSkip ==
    ASSUME NEW A, NEW f, NEW g, NEW u, NEW s, NEW o \in s, Pend(A, o, f, u, s)
    PROVE  Pend(A, o, g, u, s)
BY DEF Pend

(* When a variable is taken from u, its fanouts are to be visited.         *)
LEMMA PendPop ==
    ASSUME NEW A \in Netlists, NEW u \in Seq(AllVars(A)), u # <<>>, NEW s, s \subseteq RangeOf(u),
           NEW o \in Gates(A), Pend(A, o, <<>>, u, s)
    PROVE  Pend(A, o, Fanouts(A, Head(u)), Tail(u), s \ {Head(u)})
<1> DEFINE t == Tail(u)
<1>1. /\ DOMAIN u = 1 .. Len(u) /\ Len(u) \in Nat \ {0} /\ DOMAIN t = 1 .. Len(u) - 1
      /\ u[1] = Head(u) /\ \A j \in DOMAIN t : t[j] = u[j+1]
  OBVIOUS
<1> HIDE DEF t
<1>2. PICK i \in DOMAIN u : /\ u[i] \in {In(A, o, 2), In(A, o, 3)}
                            /\ \A j \in DOMAIN u : u[j] = o => j < i
  BY DEF Pend
<1>3. CASE i = 1
  <2>1. \A j \in DOMAIN u : u[j] # o
    BY <1>1, <1>2, <1>3
  <2>2. o \notin s
    BY <2>1 DEF RangeOf
  <2>3. \E j \in DOMAIN Fanouts(A, Head(u)) : Fanouts(A, Head(u))[j] = o
    BY <1>1, <1>2, <1>3, FanoutsAre
  <2> QED BY <2>2, <2>3 DEF Pend
<1>4. CASE i # 1
  <2>1. i - 1 \in DOMAIN t /\ t[i-1] = u[i]
    BY <1>1, <1>2, <1>4
  <2>2. ASSUME NEW j \in DOMAIN t, t[j] = o PROVE j < i - 1
    <3>1. j + 1 \in DOMAIN u /\ u[j+1] = o
      BY <1>1, <2>2
    <3>2. j + 1 < i
      BY <1>2, <3>1
    <3> QED BY <1>1, <3>2
  <2> QED BY <1>2, <2>1, <2>2 DEF Pend, t
<1> QED BY <1>3, <1>4

-----------------------------------------------------------------------------
(* Assignments that are settled.                                           *)

LatchVals(A, a) == [n \in Latches(A) |-> a[LatchVar(A, n)]]

\* a is the simulation of its latches, with the inputs i.
Settled(A, i, a) == IsSim(A, Sources(A, LatchVals(A, a), i), a)

\* The latch n of a is needed for P: without it, a variable of P changes.
Without(A, i, a, n)   == Simulated(A, [LatchVals(A, a) EXCEPT ![n] = "X"], i)
Needed(A, i, P, a, n) == \E v \in P : Without(A, i, a, n)[v] # a[v]

(* What the latches of an assignment give.                                 *)
LEMMA LatchesOf ==
    ASSUME NEW A \in Netlists, NEW a \in [AllVars(A) -> Values]
    PROVE  /\ LatchVals(A, a) \in [Latches(A) -> Values]
           /\ \A n \in Latches(A) : LatchVar(A, n) \in AllVars(A) \ Gates(A)
BY LatchFacts DEF LatchVals

(* An assignment that agrees with its gates, and with one that is settled  *)
(* where there is no gate or latch, is settled.                            *)
LEMMA SettledByParts ==
    ASSUME NEW A \in Netlists, NEW i \in [1 .. Len(A.inputs) -> BOOLEAN],
           NEW a \in [AllVars(A) -> Values], NEW b, Settled(A, i, b),
           \A o \in Gates(A) : Out(A, a, o) = a[o],
           \A v \in (AllVars(A) \ Gates(A)) \ LatchVars(A) : a[v] = b[v]
    PROVE  Settled(A, i, a)
<1>2. b \in [AllVars(A) -> Values]
  BY DEF Settled, IsSim
<1>3. LatchVals(A, a) \in [Latches(A) -> Values] /\ LatchVals(A, b) \in [Latches(A) -> Values]
  BY <1>2, LatchesOf DEF LatchVals
<1> DEFINE s == Sources(A, LatchVals(A, a), i)
           t == Sources(A, LatchVals(A, b), i)
<1>4. /\ \A n \in Latches(A) : s[LatchVar(A, n)] = a[LatchVar(A, n)]
      /\ \A v \in AllVars(A) \ LatchVars(A) : s[v] = t[v]
  <2>1. \A n \in Latches(A) : s[LatchVar(A, n)] = LatchVals(A, a)[n]
    BY <1>3, SourcesAre
  <2>2. \A v \in AllVars(A) \ LatchVars(A) : s[v] = t[v]
    BY <1>3, SourcesAre
  <2> QED BY <2>1, <2>2 DEF LatchVals
<1>5. \A v \in AllVars(A) \ Gates(A) : b[v] = t[v]
  BY DEF Settled, IsSim
<1> HIDE DEF s, t
<1>6. ASSUME NEW v \in AllVars(A) \ Gates(A) PROVE a[v] = s[v]
  <2>1. CASE v \in LatchVars(A)
    BY <1>4, <2>1 DEF LatchVars
  <2>2. CASE v \notin LatchVars(A)
    BY <1>4, <1>5, <2>2
  <2> QED BY <2>1, <2>2
<1> QED BY <1>6 DEF Settled, IsSim, Out, s

(* The value of a gate is that of its inputs where all is settled.         *)
LEMMA SettledOut ==
    ASSUME NEW A \in Netlists, NEW i \in [1 .. Len(A.inputs) -> BOOLEAN],
           NEW a, Settled(A, i, a)
    PROVE  a \in [AllVars(A) -> Values] /\ \A o \in Gates(A) : o \in AllVars(A) /\ a[o] = Out(A, a, o)
BY GateFacts DEF Settled, IsSim, Out

(* Without a latch, every variable says less; and still less if others say *)
(* less before.                                                            *)
LEMMA WithoutIs ==
    ASSUME NEW A \in Netlists, NEW i \in [1 .. Len(A.inputs) -> BOOLEAN],
           NEW a, Settled(A, i, a), NEW n \in Latches(A)
    PROVE  /\ Without(A, i, a, n) \in [AllVars(A) -> Values]
           /\ \A o \in Gates(A) : Without(A, i, a, n)[o] = Out(A, Without(A, i, a, n), o)
           /\ Without(A, i, a, n)[LatchVar(A, n)] = "X"
           /\ \A v \in AllVars(A) : Below(Without(A, i, a, n)[v], a[v])
           /\ \A b : Settled(A, i, b) /\ (\A v \in AllVars(A) : Below(b[v], a[v])) =>
                 \A v \in AllVars(A) : Below(Without(A, i, b, n)[v], Without(A, i, a, n)[v])
<1> DEFINE p(b) == [LatchVals(A, b) EXCEPT ![n] = "X"]
           src(b) == Sources(A, LatchVals(A, b), i)
           wsrc(b) == Sources(A, p(b), i)
<1>2. ASSUME NEW b, Settled(A, i, b)
      PROVE  /\ b \in [AllVars(A) -> Values]
             /\ LatchVals(A, b) \in [Latches(A) -> Values] /\ p(b) \in [Latches(A) -> Values]
             /\ p(b)[n] = "X" /\ \A m \in Latches(A) : m # n => p(b)[m] = b[LatchVar(A, m)]
             /\ IsSim(A, src(b), b) /\ IsSim(A, wsrc(b), Without(A, i, b, n))
  <2>1. b \in [AllVars(A) -> Values]
    BY <1>2, SettledOut
  <2>2. LatchVals(A, b) \in [Latches(A) -> Values] /\ \A m \in Latches(A) : LatchVals(A, b)[m] = b[LatchVar(A, m)]
    BY <2>1, LatchesOf DEF LatchVals
  <2>3. p(b) \in [Latches(A) -> Values] /\ p(b)[n] = "X" /\ \A m \in Latches(A) : m # n => p(b)[m] = b[LatchVar(A, m)]
    BY <2>2 DEF Values
  <2>4. IsSim(A, wsrc(b), Without(A, i, b, n))
    <3>1. wsrc(b) \in [AllVars(A) -> Values]
      BY <2>3, SourcesAre
    <3> QED BY <3>1, SimulatedIs DEF Without
  <2> QED BY <1>2, <2>1, <2>2, <2>3, <2>4 DEF Settled
<1>3. ASSUME NEW b, Settled(A, i, b), NEW v \in AllVars(A)
      PROVE  /\ v \notin LatchVars(A) => wsrc(b)[v] = src(a)[v] /\ src(b)[v] = src(a)[v]
             /\ \A m \in Latches(A) : v = LatchVar(A, m) => wsrc(b)[v] = p(b)[m] /\ src(b)[v] = b[v]
  <2>1. /\ p(b) \in [Latches(A) -> Values] /\ LatchVals(A, a) \in [Latches(A) -> Values]
        /\ LatchVals(A, b) \in [Latches(A) -> Values]
    BY <1>2, <1>3
  <2> HIDE DEF p
  <2>4. ASSUME NEW x \in [Latches(A) -> Values], NEW y \in [Latches(A) -> Values]
        PROVE  /\ v \notin LatchVars(A) =>
                     Sources(A, x, i)[v] = Sources(A, y, i)[v]
               /\ \A m \in Latches(A) : Sources(A, x, i)[LatchVar(A, m)] = x[m]
    BY SourcesAre
  <2>2. v \notin LatchVars(A) => wsrc(b)[v] = src(a)[v] /\ src(b)[v] = src(a)[v]
    BY <2>1, <2>4
  <2>3. ASSUME NEW m \in Latches(A), v = LatchVar(A, m) PROVE wsrc(b)[v] = p(b)[m] /\ src(b)[v] = b[v]
    <3>1. wsrc(b)[v] = p(b)[m] /\ src(b)[v] = LatchVals(A, b)[m]
      BY <2>1, <2>3, <2>4
    <3> QED BY <2>3, <3>1 DEF LatchVals
  <2> QED BY <2>2, <2>3
<1> HIDE DEF p, src, wsrc
<1>4. \A x : Below(x, x) /\ Below("X", x)
  BY DEF Below
<1>5. ASSUME NEW v \in AllVars(A) \ Gates(A) PROVE Below(wsrc(a)[v], src(a)[v])
  <2>1. CASE v \in LatchVars(A)
    <3>1. PICK m \in Latches(A) : v = LatchVar(A, m)
      BY <2>1 DEF LatchVars
    <3>2. wsrc(a)[v] = p(a)[m] /\ src(a)[v] = a[v]
      BY <1>3, <3>1
    <3> QED BY <1>2, <1>4, <3>1, <3>2
  <2>2. CASE v \notin LatchVars(A)
    BY <1>3, <1>4, <2>2
  <2> QED BY <2>1, <2>2
<1>6. \A v \in AllVars(A) : Below(Without(A, i, a, n)[v], a[v])
  BY <1>2, <1>5, SimMono
<1>7. ASSUME NEW b, Settled(A, i, b), \A v \in AllVars(A) : Below(b[v], a[v])
      PROVE  \A v \in AllVars(A) : Below(Without(A, i, b, n)[v], Without(A, i, a, n)[v])
  <2>1. ASSUME NEW v \in AllVars(A) \ Gates(A) PROVE Below(wsrc(b)[v], wsrc(a)[v])
    <3>1. CASE v \in LatchVars(A)
      <4>1. PICK m \in Latches(A) : v = LatchVar(A, m)
        BY <3>1 DEF LatchVars
      <4>2. wsrc(a)[v] = p(a)[m] /\ wsrc(b)[v] = p(b)[m]
        BY <1>3, <1>7, <4>1
      <4>3. m # n => p(a)[m] = a[v] /\ p(b)[m] = b[v]
        BY <1>2, <1>7, <4>1
      <4> QED BY <1>2, <1>4, <1>7, <4>2, <4>3
    <3>2. CASE v \notin LatchVars(A)
      BY <1>3, <1>4, <1>7, <3>2
    <3> QED BY <3>1, <3>2
  <2> QED BY <1>2, <1>7, <2>1, SimMono
<1>8. Without(A, i, a, n)[LatchVar(A, n)] = "X"
  <2>1. LatchVar(A, n) \in AllVars(A) \ Gates(A)
    BY LatchFacts
  <2>2. Without(A, i, a, n)[LatchVar(A, n)] = wsrc(a)[LatchVar(A, n)]
    BY <1>2, <2>1 DEF IsSim
  <2>3. wsrc(a)[LatchVar(A, n)] = p(a)[n]
    BY <1>3, <2>1
  <2> QED BY <1>2, <2>2, <2>3
<1>9. Without(A, i, a, n) \in [AllVars(A) -> Values]
      /\ \A o \in Gates(A) : Without(A, i, a, n)[o] = Out(A, Without(A, i, a, n), o)
  BY <1>2, GateFacts DEF IsSim, Out
<1> QED BY <1>6, <1>7, <1>8, <1>9

-----------------------------------------------------------------------------
(* The inductive invariant.                                                *)

Inputs == [1 .. Len(aig.inputs) -> BOOLEAN]

TypeOK ==
    /\ aig \in Netlists /\ preserve \subseteq AllVars(aig)
    /\ given.latch \in [Latches(aig) -> Values] /\ given.input \in Inputs
    /\ assigns \in [AllVars(aig) -> Values] /\ start \in [AllVars(aig) -> Values]
    /\ todo \in Seq(Latches(aig)) /\ undo \in BOOLEAN
    /\ to_update \in Seq(AllVars(aig)) /\ fan \in Seq(Gates(aig)) /\ seen \subseteq RangeOf(to_update)

\* What the attempt started from; between attempts, what there is.
Base == IF Idle THEN assigns ELSE start

BaseOK ==
    /\ Settled(aig, given.input, Base)
    /\ \A v \in preserve : /\ Base[v] = Simulated(aig, given.latch, given.input)[v]
                           /\ Base[v] # "X"

QuietOK == Idle => fan = <<>> /\ to_update = <<>> /\ ~ undo

\* A latch that has a value will be tried, is being tried, or is needed.
TriedOK ==
    \A n \in Latches(aig) :
       LatchVar(aig, n) # cur /\ Base[LatchVar(aig, n)] # "X" =>
          (\E j \in DOMAIN todo : todo[j] = n) \/ Needed(aig, given.input, preserve, Base, n)

\* During an attempt values are those before it or undefined.
WaveOK ==
    ~ Idle => /\ cur \in LatchVars(aig) \ preserve
              /\ \A v \in AllVars(aig) : Below(assigns[v], start[v])
              /\ \A v \in AllVars(aig) \ Gates(aig) : v # cur => assigns[v] = start[v]
              /\ assigns[cur] = IF undo THEN start[cur] ELSE "X"

\* A gate that does not have the value of its inputs will be visited, and one
\* that became undefined has an undefined input; no attempt goes too far.
AttemptOK ==
    ~ Idle /\ ~ undo =>
       /\ \A v \in preserve : assigns[v] = start[v]
       /\ \A o \in Gates(aig) :
             /\ Out(aig, assigns, o) = assigns[o] \/ Pend(aig, o, fan, to_update, seen)
             /\ assigns[o] # start[o] => Out(aig, assigns, o) = "X"
       /\ \A n \in Latches(aig) : LatchVar(aig, n) = cur =>
             \A v \in AllVars(aig) : Below(Without(aig, given.input, start, n)[v], assigns[v])

\* While it is undone, a gate that has not got its value back has an undefined
\* input, or will be visited.
UndoOK ==
    ~ Idle /\ undo =>
       /\ \A o \in Gates(aig) : assigns[o] # start[o] =>
             Out(aig, assigns, o) = "X" \/ Pend(aig, o, fan, to_update, seen)
       /\ \A n \in Latches(aig) : LatchVar(aig, n) = cur => Needed(aig, given.input, preserve, start, n)

TernaryInv == TypeOK /\ BaseOK /\ QuietOK /\ TriedOK /\ WaveOK /\ AttemptOK /\ UndoOK

(* What an action computes for a gate.                                     *)
LEMMA OutputIs == \A o : Output(o) = Out(aig, assigns, o)
BY DEF Output, Out

(* Facts about the state that all actions need.                            *)
LEMMA StateFacts ==
    ASSUME TypeOK
    PROVE  /\ aig \in Netlists /\ given.input \in [1 .. Len(aig.inputs) -> BOOLEAN]
           /\ assigns \in [AllVars(aig) -> Values] /\ start \in [AllVars(aig) -> Values]
           /\ \A o \in Gates(aig) : /\ o \in AllVars(aig) /\ o \in Nat
                                    /\ In(aig, o, 2) \in AllVars(aig) /\ In(aig, o, 3) \in AllVars(aig)
                                    /\ In(aig, o, 2) # o /\ In(aig, o, 3) # o
                                    /\ In(aig, o, 2) < o /\ In(aig, o, 3) < o
           /\ \A v \in LatchVars(aig) : v \in AllVars(aig) /\ v \notin Gates(aig) /\ v # 0
<1>1. aig \in Netlists
  BY DEF TypeOK
<1>2. \A o \in Gates(aig) : /\ o \in AllVars(aig) /\ o \in Nat
                            /\ In(aig, o, 2) \in AllVars(aig) /\ In(aig, o, 3) \in AllVars(aig)
                            /\ In(aig, o, 2) # o /\ In(aig, o, 3) # o
                            /\ In(aig, o, 2) < o /\ In(aig, o, 3) < o
  BY <1>1, GateFacts, LastVarIs DEF AllVars
<1>3. \A v \in LatchVars(aig) : v \in AllVars(aig) /\ v \notin Gates(aig) /\ v # 0
  BY <1>1, LatchFacts DEF LatchVars
<1> QED BY <1>1, <1>2, <1>3 DEF TypeOK, Inputs

(* When nothing is left to visit after undoing an attempt, no trace of it  *)
(* is left: the first gate that differed would have the inputs it had.     *)
LEMMA UndoDone ==
    ASSUME TypeOK, BaseOK, WaveOK, UndoOK, ~ Idle, undo, fan = <<>>, to_update = <<>>
    PROVE  assigns = start
<1> DEFINE D == {o \in Gates(aig) : assigns[o] # start[o]}
<1>1. \A o : ~ Pend(aig, o, fan, to_update, seen)
  BY DEF Pend
<1>2. \A o \in D : Out(aig, assigns, o) = "X"
  BY <1>1 DEF UndoOK
<1>3. \A v \in AllVars(aig) : assigns[v] # start[v] => v \in D
  <2>1. assigns[cur] = start[cur]
    BY DEF WaveOK
  <2> QED BY <2>1 DEF WaveOK
<1>4. Settled(aig, given.input, start)
  BY DEF BaseOK, Base
<1>5. \A o \in Gates(aig) : start[o] = Out(aig, start, o)
  BY <1>4, StateFacts, SettledOut
<1>6. ASSUME D # {} PROVE FALSE
  <2>1. D \subseteq Nat
    BY StateFacts
  <2>2. PICK o \in D : \A x \in D : o <= x
    BY <1>6, <2>1, LeastNat
  <2>3. /\ In(aig, o, 2) \in AllVars(aig) /\ In(aig, o, 2) \notin D
        /\ In(aig, o, 3) \in AllVars(aig) /\ In(aig, o, 3) \notin D
    BY <2>1, <2>2, StateFacts
  <2>4. assigns[In(aig, o, 2)] = start[In(aig, o, 2)] /\ assigns[In(aig, o, 3)] = start[In(aig, o, 3)]
    BY <1>3, <2>3
  <2>5. Out(aig, assigns, o) = Out(aig, start, o)
    BY <2>4, OutSame
  <2>6. start[o] = "X"
    BY <1>2, <1>5, <2>5
  <2>7. Below(assigns[o], start[o])
    BY StateFacts DEF WaveOK
  <2> QED BY <2>6, <2>7 DEF Below
<1> QED BY <1>3, <1>6, StateFacts

-----------------------------------------------------------------------------
(* The actions.                                                            *)

(* Visiting the fanouts of the next variable.                              *)
LEMMA NextUpdateKeeps == ASSUME TernaryInv, NextUpdate PROVE TernaryInv'
<1>1. /\ aig' = aig /\ preserve' = preserve /\ given' = given /\ assigns' = assigns /\ todo' = todo
      /\ cur' = cur /\ undo' = undo /\ start' = start
      /\ fan = <<>> /\ to_update # <<>>
      /\ fan' = Fanouts(aig, Head(to_update)) /\ to_update' = Tail(to_update)
      /\ seen' = seen \ {Head(to_update)}
  BY DEF NextUpdate
<1>2. TypeOK /\ aig \in Netlists
  BY DEF TernaryInv, TypeOK
<1>3. ~ Idle
  BY <1>1 DEF TernaryInv, QuietOK
<1>4. Base' = Base /\ (Idle' <=> Idle)
  BY <1>1 DEF Base, Idle
<1>5. TypeOK'
  <2>1. fan' \in Seq(Gates(aig))
    BY <1>1, <1>2, FanoutsAre
  <2>2. to_update \in Seq(AllVars(aig)) /\ seen \subseteq RangeOf(to_update)
    BY <1>2 DEF TypeOK
  <2>3. to_update' \in Seq(AllVars(aig)) /\ seen' \subseteq RangeOf(to_update')
    <3>1. /\ DOMAIN to_update = 1 .. Len(to_update) /\ Len(to_update) \in Nat \ {0}
          /\ DOMAIN to_update' = 1 .. Len(to_update) - 1 /\ to_update' \in Seq(AllVars(aig))
          /\ \A j \in DOMAIN to_update' : to_update'[j] = to_update[j+1]
          /\ Head(to_update) = to_update[1]
      BY <1>1, <2>2
    <3>2. ASSUME NEW v \in seen, v # Head(to_update) PROVE v \in RangeOf(to_update')
      <4>1. PICK j \in DOMAIN to_update : to_update[j] = v
        BY <2>2 DEF RangeOf
      <4>2. j - 1 \in DOMAIN to_update' /\ to_update'[j-1] = v
        BY <3>1, <3>2, <4>1
      <4> QED BY <4>2 DEF RangeOf
    <3> QED BY <1>1, <3>1, <3>2
  <2> QED BY <1>1, <1>2, <2>1, <2>3 DEF TypeOK, Inputs
<1>6. BaseOK' /\ QuietOK' /\ TriedOK' /\ WaveOK'
  BY <1>1, <1>3, <1>4 DEF TernaryInv, BaseOK, QuietOK, TriedOK, WaveOK
<1>7. ASSUME NEW o \in Gates(aig), Pend(aig, o, fan, to_update, seen)
      PROVE  Pend(aig, o, fan', to_update', seen')
  BY <1>1, <1>2, <1>7, PendPop DEF TypeOK
<1>8. AttemptOK' /\ UndoOK'
  BY <1>1, <1>4, <1>7 DEF TernaryInv, AttemptOK, UndoOK
<1> QED BY <1>5, <1>6, <1>8 DEF TernaryInv

(* A visit is part of an attempt or of its undoing; the tail of the list   *)
(* of visits is a list of visits.                                          *)
LEMMA VisitFacts ==
    ASSUME TernaryInv, fan # <<>>
    PROVE  /\ ~ Idle /\ TypeOK /\ fan \in Seq(Gates(aig)) /\ Head(fan) \in Gates(aig)
           /\ Tail(fan) \in Seq(Gates(aig))
           /\ Base = start /\ Settled(aig, given.input, start)
           /\ \A o \in Gates(aig) : start[o] = Out(aig, start, o)
           /\ \A v \in AllVars(aig) : Below(assigns[v], start[v])
           /\ \A o \in Gates(aig) : Below(Out(aig, assigns, o), start[o])
<1>1. ~ Idle /\ TypeOK
  BY DEF TernaryInv, QuietOK
<1>2. Base = start /\ Settled(aig, given.input, start)
  BY <1>1 DEF TernaryInv, BaseOK, Base
<1>3. \A o \in Gates(aig) : start[o] = Out(aig, start, o)
  BY <1>1, <1>2, StateFacts, SettledOut
<1>4. \A v \in AllVars(aig) : Below(assigns[v], start[v])
  BY <1>1 DEF TernaryInv, WaveOK
<1>5. \A o \in Gates(aig) : Below(Out(aig, assigns, o), Out(aig, start, o))
  BY <1>1, <1>4, StateFacts, OutMono
<1>6. fan \in Seq(Gates(aig))
  BY <1>1 DEF TypeOK
<1>7. Head(fan) \in Gates(aig) /\ Tail(fan) \in Seq(Gates(aig))
  BY <1>6
<1> QED BY <1>1, <1>2, <1>3, <1>4, <1>5, <1>6, <1>7

(* Passing over a gate: it has its value, or is visited once more later.   *)
LEMMA VisitSameKeeps == ASSUME TernaryInv, VisitSame PROVE TernaryInv'
<1>1. /\ aig' = aig /\ preserve' = preserve /\ given' = given /\ assigns' = assigns /\ todo' = todo
      /\ cur' = cur /\ undo' = undo /\ start' = start /\ to_update' = to_update /\ seen' = seen
      /\ fan # <<>> /\ fan' = Tail(fan) /\ ~ Changes(Head(fan))
  BY DEF VisitSame
<1>2. /\ ~ Idle /\ TypeOK /\ fan \in Seq(Gates(aig)) /\ Head(fan) \in Gates(aig)
      /\ Tail(fan) \in Seq(Gates(aig))
      /\ \A v \in AllVars(aig) : Below(assigns[v], start[v])
  BY <1>1, VisitFacts
<1>3. Base' = Base /\ (Idle' <=> Idle)
  BY <1>1 DEF Base, Idle
<1>4. TypeOK'
  BY <1>1, <1>2 DEF TypeOK, Inputs
<1>5. BaseOK' /\ QuietOK' /\ TriedOK' /\ WaveOK'
  BY <1>1, <1>2, <1>3 DEF TernaryInv, BaseOK, QuietOK, TriedOK, WaveOK
<1>6. ASSUME NEW o \in Gates(aig), Pend(aig, o, fan, to_update, seen)
      PROVE  \/ Pend(aig, o, fan', to_update', seen')
             \/ Out(aig, assigns, o) = assigns[o]
  <2>1. CASE o # Head(fan)
    BY <1>1, <1>2, <1>6, <2>1, PendTail DEF TypeOK
  <2>2. CASE o = Head(fan) /\ o \in seen
    BY <1>1, <1>6, <2>2, PendSkip
  <2>3. CASE o = Head(fan) /\ o \notin seen
    BY <1>1, <2>3, OutputIs DEF Changes
  <2> QED BY <2>1, <2>2, <2>3
<1>7. AttemptOK'
  BY <1>1, <1>3, <1>6 DEF TernaryInv, AttemptOK
<1>8. UndoOK'
  <2>1. \A o \in Gates(aig) : assigns[o] # start[o] /\ Out(aig, assigns, o) = assigns[o]
                                 => Out(aig, assigns, o) = "X"
    BY <1>2, StateFacts DEF Below
  <2> QED BY <1>1, <1>3, <1>6, <2>1 DEF TernaryInv, UndoOK
<1> QED BY <1>4, <1>5, <1>7, <1>8 DEF TernaryInv

(* A gate that changes: what reads it will be visited.                     *)
LEMMA VisitChangedKeeps == ASSUME TernaryInv, VisitChanged PROVE TernaryInv'
<1>1. PICK o : o = Head(fan)
  OBVIOUS
<1>2. PICK x : x = Out(aig, assigns, o)
  OBVIOUS
<1>3. /\ aig' = aig /\ preserve' = preserve /\ given' = given /\ todo' = todo
      /\ cur' = cur /\ undo' = undo /\ start' = start
      /\ fan # <<>> /\ fan' = Tail(fan) /\ to_update' = Append(to_update, o) /\ seen' = seen \cup {o}
      /\ o \notin seen /\ x # assigns[o] /\ (undo \/ o \notin preserve)
      /\ assigns' = [assigns EXCEPT ![o] = x]
  BY <1>1, <1>2, OutputIs DEF VisitChanged, Changes
<1>4. /\ ~ Idle /\ TypeOK /\ fan \in Seq(Gates(aig)) /\ o \in Gates(aig) /\ Tail(fan) \in Seq(Gates(aig))
      /\ Base = start /\ Settled(aig, given.input, start)
      /\ \A v \in AllVars(aig) : Below(assigns[v], start[v])
      /\ Below(x, start[o])
  BY <1>1, <1>2, <1>3, VisitFacts
<1>5. Base' = Base /\ (Idle' <=> Idle)
  BY <1>3, <1>4 DEF Base, Idle
<1>6. x \in Values /\ o \in AllVars(aig)
  BY <1>2, <1>4, AndIsValue, StateFacts DEF Out
<1>7. TypeOK'
  <2>1. assigns' \in [AllVars(aig) -> Values]
    BY <1>3, <1>6, <1>4, StateFacts
  <2>2. to_update' \in Seq(AllVars(aig)) /\ seen' \subseteq RangeOf(to_update')
    <3>1. to_update \in Seq(AllVars(aig)) /\ seen \subseteq RangeOf(to_update)
      BY <1>4 DEF TypeOK
    <3>2. /\ to_update' \in Seq(AllVars(aig)) /\ Len(to_update) \in Nat
          /\ DOMAIN to_update = 1 .. Len(to_update) /\ DOMAIN to_update' = 1 .. Len(to_update) + 1
          /\ to_update'[Len(to_update) + 1] = o
          /\ \A j \in DOMAIN to_update : to_update'[j] = to_update[j]
      BY <1>3, <1>6, <3>1
    <3>3. ASSUME NEW v \in seen PROVE v \in RangeOf(to_update')
      <4>1. PICK j \in DOMAIN to_update : to_update[j] = v
        BY <3>1, <3>3 DEF RangeOf
      <4> QED BY <3>2, <4>1 DEF RangeOf
    <3>4. o \in RangeOf(to_update')
      BY <3>2 DEF RangeOf
    <3> QED BY <1>3, <3>2, <3>3, <3>4
  <2> QED BY <1>3, <1>4, <2>1, <2>2 DEF TypeOK, Inputs
<1>8. /\ assigns'[o] = x
      /\ \A v \in AllVars(aig) : v # o => assigns'[v] = assigns[v]
      /\ \A v \in LatchVars(aig) : v # o
  BY <1>3, <1>4, <1>6, StateFacts
<1>9. BaseOK' /\ QuietOK' /\ TriedOK'
  BY <1>3, <1>4, <1>5 DEF TernaryInv, BaseOK, QuietOK, TriedOK
<1>10. WaveOK'
  <2>1. cur \in LatchVars(aig) \ preserve /\ cur \in AllVars(aig)
    BY <1>4, StateFacts DEF TernaryInv, WaveOK
  <2>2. \A v \in AllVars(aig) : Below(assigns'[v], start[v])
    BY <1>4, <1>8
  <2>3. \A v \in AllVars(aig) \ Gates(aig) : assigns'[v] = assigns[v]
    BY <1>4, <1>8
  <2>4. assigns'[cur] = assigns[cur]
    BY <1>8, <2>1
  <2> QED BY <1>3, <1>5, <2>1, <2>2, <2>3, <2>4 DEF TernaryInv, WaveOK
<1>11. ASSUME NEW g \in Gates(aig)
       PROVE  /\ g # o /\ Pend(aig, g, fan, to_update, seen) => Pend(aig, g, fan', to_update', seen')
              /\ \/ Out(aig, assigns', g) = Out(aig, assigns, g)
                 \/ g # o /\ Pend(aig, g, fan', to_update', seen')
  <2>1. aig \in Netlists /\ to_update \in Seq(AllVars(aig)) /\ fan \in Seq(Gates(aig))
    BY <1>4 DEF TypeOK
  <2>2. ASSUME g # o, Pend(aig, g, fan', to_update, seen) \/ o \in {In(aig, g, 2), In(aig, g, 3)}
        PROVE  Pend(aig, g, fan', to_update', seen')
    BY <1>3, <1>6, <2>1, <2>2, PendAppend
  <2>3. g # o /\ Pend(aig, g, fan, to_update, seen) => Pend(aig, g, fan', to_update, seen)
    BY <1>1, <1>3, <2>1, PendTail
  <2>4. o \notin {In(aig, g, 2), In(aig, g, 3)} => Out(aig, assigns', g) = Out(aig, assigns, g)
    BY <1>4, <1>8, StateFacts, OutSame
  <2>5. o \in {In(aig, g, 2), In(aig, g, 3)} => g # o
    BY <1>4, StateFacts
  <2> QED BY <2>2, <2>3, <2>4, <2>5
<1>12. Out(aig, assigns', o) = x
  BY <1>2, <1>4, <1>11
<1>13. AttemptOK'
  <2> SUFFICES ASSUME ~ undo PROVE AttemptOK'
    BY <1>3 DEF AttemptOK
  <2>1. /\ \A v \in preserve : assigns[v] = start[v]
        /\ \A g \in Gates(aig) :
             /\ Out(aig, assigns, g) = assigns[g] \/ Pend(aig, g, fan, to_update, seen)
             /\ assigns[g] # start[g] => Out(aig, assigns, g) = "X"
        /\ \A n \in Latches(aig) : LatchVar(aig, n) = cur =>
             \A v \in AllVars(aig) : Below(Without(aig, given.input, start, n)[v], assigns[v])
    BY <1>4 DEF TernaryInv, AttemptOK
  <2>2. assigns[o] = start[o] /\ x = "X"
    BY <1>2, <1>3, <1>4, <1>6, <2>1 DEF Below
  <2>3. \A v \in preserve : assigns'[v] = start[v]
    BY <1>3, <1>4, <1>8, <2>1 DEF TypeOK
  <2>4. ASSUME NEW g \in Gates(aig)
        PROVE  /\ Out(aig, assigns', g) = assigns'[g] \/ Pend(aig, g, fan', to_update', seen')
               /\ assigns'[g] # start[g] => Out(aig, assigns', g) = "X"
    <3>1. CASE g = o
      BY <1>8, <1>12, <2>2, <3>1
    <3>2. CASE g # o
      <4>1. assigns'[g] = assigns[g]
        BY <1>4, <1>8, <3>2, StateFacts
      <4>2. Out(aig, assigns', g) = assigns'[g] \/ Pend(aig, g, fan', to_update', seen')
        BY <1>11, <2>1, <3>2, <4>1
      <4>3. Below(Out(aig, assigns', g), Out(aig, assigns, g))
        <5>1. \A v \in AllVars(aig) : Below(assigns'[v], assigns[v])
          BY <1>8, <2>2 DEF Below
        <5>2. assigns' \in [AllVars(aig) -> Values]
          BY <1>3, <1>7 DEF TypeOK
        <5> QED BY <1>4, <5>1, <5>2, StateFacts, OutMono
      <4> QED BY <2>1, <4>1, <4>2, <4>3 DEF Below
    <3> QED BY <3>1, <3>2
  <2>5. ASSUME NEW n \in Latches(aig), LatchVar(aig, n) = cur, NEW v \in AllVars(aig)
        PROVE  Below(Without(aig, given.input, start, n)[v], assigns'[v])
    <3> DEFINE w == Without(aig, given.input, start, n)
    <3>1. /\ w \in [AllVars(aig) -> Values] /\ \A g \in Gates(aig) : w[g] = Out(aig, w, g)
      BY <1>4, StateFacts, WithoutIs
    <3>2. \A u \in AllVars(aig) : Below(w[u], assigns[u])
      BY <2>1, <2>5
    <3> HIDE DEF w
    <3>3. Below(Out(aig, w, o), Out(aig, assigns, o))
      BY <1>4, <3>1, <3>2, StateFacts, OutMono
    <3>4. Below(w[o], x)
      BY <1>2, <1>4, <3>1, <3>3
    <3>5. Below(w[v], assigns'[v])
      BY <1>8, <3>2, <3>4
    <3> QED BY <3>5 DEF w
  <2> QED BY <1>3, <2>3, <2>4, <2>5 DEF AttemptOK
<1>14. UndoOK'
  <2> SUFFICES ASSUME undo PROVE UndoOK'
    BY <1>3 DEF UndoOK
  <2>1. /\ \A g \in Gates(aig) : assigns[g] # start[g] =>
             Out(aig, assigns, g) = "X" \/ Pend(aig, g, fan, to_update, seen)
        /\ \A n \in Latches(aig) : LatchVar(aig, n) = cur => Needed(aig, given.input, preserve, start, n)
    BY <1>4 DEF TernaryInv, UndoOK
  <2>2. ASSUME NEW g \in Gates(aig), assigns'[g] # start[g]
        PROVE  Out(aig, assigns', g) = "X" \/ Pend(aig, g, fan', to_update', seen')
    <3>1. CASE g = o
      BY <1>4, <1>8, <1>12, <2>2, <3>1 DEF Below
    <3>2. CASE g # o
      <4>1. assigns'[g] = assigns[g]
        BY <1>4, <1>8, <3>2, StateFacts
      <4> QED BY <1>11, <2>1, <2>2, <3>2, <4>1
    <3> QED BY <3>1, <3>2
  <2> QED BY <1>3, <2>1, <2>2 DEF UndoOK
<1> QED BY <1>7, <1>9, <1>10, <1>13, <1>14 DEF TernaryInv

(* A gate to preserve would change: it has become undefined, so the latch  *)
(* is needed.                                                              *)
LEMMA VisitPreservedKeeps == ASSUME TernaryInv, VisitPreserved PROVE TernaryInv'
<1>1. PICK o : o = Head(fan)
  OBVIOUS
<1>2. PICK x : x = Out(aig, assigns, o)
  OBVIOUS
<1>3. /\ aig' = aig /\ preserve' = preserve /\ given' = given /\ todo' = todo
      /\ cur' = cur /\ start' = start /\ ~ undo /\ undo' = TRUE
      /\ fan # <<>> /\ fan' = <<>> /\ to_update' = <<cur>> /\ seen' = {cur}
      /\ o \notin seen /\ x # assigns[o] /\ o \in preserve
      /\ assigns' = [assigns EXCEPT ![o] = x, ![cur] = start[cur]]
  BY <1>1, <1>2, OutputIs DEF VisitPreserved, Changes
<1>4. /\ ~ Idle /\ TypeOK /\ o \in Gates(aig) /\ o \in AllVars(aig)
      /\ Base = start /\ Settled(aig, given.input, start)
      /\ \A v \in AllVars(aig) : Below(assigns[v], start[v])
      /\ Below(x, start[o])
      /\ assigns \in [AllVars(aig) -> Values] /\ start \in [AllVars(aig) -> Values]
  BY <1>1, <1>2, <1>3, VisitFacts, StateFacts
<1>5. Base' = Base /\ (Idle' <=> Idle)
  BY <1>3, <1>4 DEF Base, Idle
<1>6. /\ \A v \in preserve : assigns[v] = start[v]
      /\ \A g \in Gates(aig) : assigns[g] # start[g] => Out(aig, assigns, g) = "X"
      /\ \A n \in Latches(aig) : LatchVar(aig, n) = cur =>
           \A v \in AllVars(aig) : Below(Without(aig, given.input, start, n)[v], assigns[v])
  BY <1>3, <1>4 DEF TernaryInv, AttemptOK
<1>7. x = "X" /\ assigns[o] = start[o] /\ start[o] # "X"
  BY <1>3, <1>4, <1>6 DEF Below
<1>8. /\ cur \in LatchVars(aig) \ preserve /\ cur \in AllVars(aig) /\ cur \notin Gates(aig) /\ cur # o
      /\ \A v \in AllVars(aig) \ Gates(aig) : v # cur => assigns[v] = start[v]
  BY <1>4, StateFacts DEF TernaryInv, WaveOK
<1>9. /\ assigns' \in [AllVars(aig) -> Values]
      /\ assigns'[o] = "X" /\ assigns'[cur] = start[cur]
      /\ \A v \in AllVars(aig) : v # o /\ v # cur => assigns'[v] = assigns[v]
  BY <1>3, <1>4, <1>7, <1>8 DEF Values
<1>10. TypeOK'
  <2>1. to_update' \in Seq(AllVars(aig)) /\ seen' \subseteq RangeOf(to_update') /\ fan' \in Seq(Gates(aig))
    BY <1>3, <1>8 DEF RangeOf
  <2> QED BY <1>3, <1>4, <1>9, <2>1 DEF TypeOK, Inputs
<1>11. BaseOK' /\ QuietOK' /\ TriedOK' /\ AttemptOK'
  BY <1>3, <1>4, <1>5 DEF TernaryInv, BaseOK, QuietOK, TriedOK, AttemptOK
<1>12. WaveOK'
  <2>1. \A v \in AllVars(aig) : Below(assigns'[v], start[v])
    BY <1>4, <1>9 DEF Below
  <2>2. \A v \in AllVars(aig) \ Gates(aig) : v # cur => assigns'[v] = start[v]
    BY <1>4, <1>8, <1>9
  <2> QED BY <1>3, <1>5, <1>8, <1>9, <2>1, <2>2 DEF WaveOK
<1>13. ASSUME NEW g \in Gates(aig), assigns'[g] # start[g]
       PROVE  Out(aig, assigns', g) = "X" \/ Pend(aig, g, fan', to_update', seen')
  <2>1. Out(aig, assigns, g) = "X"
    <3>1. CASE g = o
      BY <1>2, <1>7, <3>1
    <3>2. CASE g # o
      BY <1>4, <1>6, <1>8, <1>9, <1>13, <3>2, StateFacts
    <3> QED BY <3>1, <3>2
  <2>2. CASE cur \in {In(aig, g, 2), In(aig, g, 3)}
    BY <1>3, <1>8, <2>2 DEF Pend
  <2>3. CASE cur \notin {In(aig, g, 2), In(aig, g, 3)}
    <3>1. \A v \in AllVars(aig) : v # cur => Below(assigns'[v], assigns[v])
      BY <1>9 DEF Below
    <3>2. Below(Out(aig, assigns', g), Out(aig, assigns, g))
      BY <1>4, <1>9, <2>3, <3>1, StateFacts, OutMono
    <3> QED BY <2>1, <3>2 DEF Below
  <2> QED BY <2>2, <2>3
<1>14. ASSUME NEW n \in Latches(aig), LatchVar(aig, n) = cur
       PROVE  Needed(aig, given.input, preserve, start, n)
  <2> DEFINE w == Without(aig, given.input, start, n)
  <2>1. /\ w \in [AllVars(aig) -> Values] /\ \A g \in Gates(aig) : w[g] = Out(aig, w, g)
    BY <1>4, StateFacts, WithoutIs
  <2>2. \A v \in AllVars(aig) : Below(w[v], assigns[v])
    BY <1>6, <1>14
  <2> HIDE DEF w
  <2>3. Below(Out(aig, w, o), Out(aig, assigns, o))
    BY <1>4, <2>1, <2>2, StateFacts, OutMono
  <2>4. w[o] = "X"
    BY <1>2, <1>4, <1>7, <2>1, <2>3 DEF Below
  <2> QED BY <1>3, <1>7, <2>4 DEF Needed, w
<1>15. UndoOK'
  BY <1>3, <1>13, <1>14 DEF UndoOK
<1> QED BY <1>10, <1>11, <1>12, <1>15 DEF TernaryInv

(* The end of an attempt that went through, or was undone.                 *)
LEMMA SettleKeeps == ASSUME TernaryInv, Settle PROVE TernaryInv'
<1>1. /\ aig' = aig /\ preserve' = preserve /\ given' = given /\ assigns' = assigns /\ todo' = todo
      /\ cur' = 0 /\ undo' = FALSE /\ start' = start
      /\ fan = <<>> /\ fan' = fan /\ to_update = <<>> /\ to_update' = to_update /\ seen' = seen
      /\ ~ Idle
  BY DEF Settle
<1>2. /\ TypeOK /\ Base = start /\ Settled(aig, given.input, start)
      /\ \A v \in preserve : start[v] = Simulated(aig, given.latch, given.input)[v] /\ start[v] # "X"
      /\ \A n \in Latches(aig) : LatchVar(aig, n) # cur /\ start[LatchVar(aig, n)] # "X" =>
            (\E j \in DOMAIN todo : todo[j] = n) \/ Needed(aig, given.input, preserve, start, n)
  BY <1>1 DEF TernaryInv, BaseOK, TriedOK, Base
<1>3. Idle' /\ Base' = assigns
  BY <1>1 DEF Idle, Base
<1>4. TypeOK'
  BY <1>1, <1>2 DEF TypeOK, Inputs
<1>5. QuietOK' /\ WaveOK' /\ AttemptOK' /\ UndoOK'
  BY <1>1, <1>3 DEF QuietOK, WaveOK, AttemptOK, UndoOK
<1>6. SUFFICES /\ Settled(aig, given.input, assigns)
               /\ \A v \in preserve : assigns[v] = start[v]
               /\ \A n \in Latches(aig) : assigns[LatchVar(aig, n)] # "X" =>
                     (\E j \in DOMAIN todo : todo[j] = n) \/ Needed(aig, given.input, preserve, assigns, n)
  BY <1>1, <1>2, <1>3, <1>4, <1>5 DEF TernaryInv, BaseOK, TriedOK
<1>7. CASE undo
  <2>1. assigns = start
    BY <1>1, <1>7, UndoDone DEF TernaryInv
  <2>2. \A n \in Latches(aig) : LatchVar(aig, n) = cur => Needed(aig, given.input, preserve, start, n)
    BY <1>1, <1>7 DEF TernaryInv, UndoOK
  <2> QED BY <1>2, <2>1, <2>2
<1>8. CASE ~ undo
  <2>1. \A g : ~ Pend(aig, g, fan, to_update, seen)
    BY <1>1 DEF Pend
  <2>2. /\ \A v \in preserve : assigns[v] = start[v]
        /\ \A g \in Gates(aig) : Out(aig, assigns, g) = assigns[g]
    BY <1>1, <1>8, <2>1 DEF TernaryInv, AttemptOK
  <2>3. /\ cur \in LatchVars(aig) /\ assigns[cur] = "X"
        /\ \A v \in AllVars(aig) : Below(assigns[v], start[v])
        /\ \A v \in AllVars(aig) \ Gates(aig) : v # cur => assigns[v] = start[v]
    BY <1>1, <1>8 DEF TernaryInv, WaveOK
  <2>4. Settled(aig, given.input, assigns)
    BY <1>2, <2>2, <2>3, StateFacts, SettledByParts
  <2>5. ASSUME NEW n \in Latches(aig), assigns[LatchVar(aig, n)] # "X",
               ~ \E j \in DOMAIN todo : todo[j] = n
        PROVE  Needed(aig, given.input, preserve, assigns, n)
    <3>1. LatchVar(aig, n) \in AllVars(aig) /\ LatchVar(aig, n) # cur
      BY <1>2, <2>3, <2>5, StateFacts DEF LatchVars
    <3>2. Needed(aig, given.input, preserve, start, n)
      BY <1>2, <2>3, <2>5, <3>1 DEF Below
    <3>3. PICK v \in preserve : Without(aig, given.input, start, n)[v] # start[v]
      BY <3>2 DEF Needed
    <3>4. v \in AllVars(aig)
      BY <1>2 DEF TypeOK
    <3>5. /\ Below(Without(aig, given.input, start, n)[v], start[v])
          /\ Below(Without(aig, given.input, assigns, n)[v], Without(aig, given.input, start, n)[v])
      BY <1>2, <2>3, <2>4, <3>4, StateFacts, WithoutIs
    <3>6. Without(aig, given.input, assigns, n)[v] = "X"
      BY <3>3, <3>5 DEF Below
    <3> QED BY <1>2, <2>2, <3>6 DEF Needed
  <2> QED BY <2>2, <2>4, <2>5
<1> QED BY <1>7, <1>8

(* Trying a latch, or keeping it because it is itself to be preserved.     *)
LEMMA AttemptKeeps == ASSUME TernaryInv, Attempt PROVE TernaryInv'
<1>1. PICK n : n = Head(todo)
  OBVIOUS
<1>2. PICK v : v = LatchVar(aig, n)
  OBVIOUS
<1>3. /\ aig' = aig /\ preserve' = preserve /\ given' = given
      /\ undo' = undo /\ fan' = fan /\ todo # <<>> /\ todo' = Tail(todo) /\ Idle
  BY DEF Attempt
<1>4. /\ TypeOK /\ Base = assigns /\ Settled(aig, given.input, assigns)
      /\ fan = <<>> /\ to_update = <<>> /\ ~ undo
      /\ \A w \in preserve : assigns[w] = Simulated(aig, given.latch, given.input)[w] /\ assigns[w] # "X"
      /\ \A m \in Latches(aig) : LatchVar(aig, m) # cur /\ assigns[LatchVar(aig, m)] # "X" =>
            (\E j \in DOMAIN todo : todo[j] = m) \/ Needed(aig, given.input, preserve, assigns, m)
  BY <1>3 DEF TernaryInv, BaseOK, TriedOK, Base, QuietOK
<1>5. n \in Latches(aig) /\ todo' \in Seq(Latches(aig))
  BY <1>1, <1>3, <1>4 DEF TypeOK
<1>6. /\ v \in LatchVars(aig) /\ v \in AllVars(aig) /\ v \notin Gates(aig) /\ v # 0
      /\ \A m \in Latches(aig) : LatchVar(aig, m) = v => m = n
      /\ \A m \in Latches(aig) : LatchVar(aig, m) # 0 /\ LatchVar(aig, m) \in AllVars(aig)
  BY <1>2, <1>4, <1>5, StateFacts, LatchFacts DEF LatchVars
<1>7. \A m : (\E j \in DOMAIN todo : todo[j] = m) /\ m # n => \E j \in DOMAIN todo' : todo'[j] = m
  <2>1. todo \in Seq(Latches(aig))
    BY <1>4 DEF TypeOK
  <2>2. /\ DOMAIN todo = 1 .. Len(todo) /\ Len(todo) \in Nat \ {0} /\ todo[1] = n
        /\ DOMAIN todo' = 1 .. Len(todo) - 1 /\ \A j \in DOMAIN todo' : todo'[j] = todo[j+1]
    BY <1>1, <1>3, <2>1
  <2>3. ASSUME NEW m, m # n, NEW j \in DOMAIN todo, todo[j] = m
        PROVE  \E k \in DOMAIN todo' : todo'[k] = m
    <3>1. j - 1 \in DOMAIN todo' /\ todo'[j-1] = m
      BY <2>2, <2>3
    <3> QED BY <3>1
  <2> QED BY <2>3
<1>8. CASE v \in preserve
  <2>1. assigns' = assigns /\ cur' = cur /\ to_update' = to_update /\ seen' = seen /\ start' = start
    BY <1>1, <1>2, <1>8 DEF Attempt, Var
  <2>2. Base' = Base /\ Idle'
    BY <1>3, <2>1 DEF Base, Idle
  <2>3. TypeOK'
    BY <1>3, <1>4, <1>5, <2>1 DEF TypeOK, Inputs
  <2>4. BaseOK' /\ QuietOK' /\ WaveOK' /\ AttemptOK' /\ UndoOK'
    BY <1>3, <2>1, <2>2 DEF TernaryInv, BaseOK, QuietOK, WaveOK, AttemptOK, UndoOK
  <2>5. Needed(aig, given.input, preserve, assigns, n)
    <3>1. Without(aig, given.input, assigns, n)[v] = "X"
      BY <1>2, <1>4, <1>5, StateFacts, WithoutIs
    <3> QED BY <1>4, <1>8, <3>1 DEF Needed
  <2>6. TriedOK'
    BY <1>3, <1>4, <1>7, <2>1, <2>2, <2>5 DEF TriedOK
  <2> QED BY <2>3, <2>4, <2>6 DEF TernaryInv
<1>9. CASE v \notin preserve
  <2>1. /\ cur' = v /\ assigns' = [assigns EXCEPT ![v] = "X"] /\ to_update' = <<v>> /\ seen' = {v}
        /\ start' = assigns
    BY <1>1, <1>2, <1>9 DEF Attempt, Var
  <2>2. Base' = assigns /\ ~ Idle'
    BY <1>6, <2>1 DEF Base, Idle
  <2>3. /\ assigns \in [AllVars(aig) -> Values] /\ assigns' \in [AllVars(aig) -> Values]
        /\ assigns'[v] = "X" /\ \A w \in AllVars(aig) : w # v => assigns'[w] = assigns[w]
    BY <1>4, <1>6, <2>1, StateFacts DEF Values
  <2>4. TypeOK'
    BY <1>3, <1>4, <1>5, <1>6, <2>1, <2>3 DEF TypeOK, Inputs, RangeOf
  <2>5. BaseOK' /\ QuietOK' /\ UndoOK'
    BY <1>3, <1>4, <2>2 DEF BaseOK, QuietOK, UndoOK
  <2>6. TriedOK'
    BY <1>2, <1>3, <1>4, <1>6, <1>7, <2>1, <2>2 DEF TriedOK, Idle
  <2>7. \A w \in AllVars(aig) : Below(assigns'[w], assigns[w])
    BY <2>3 DEF Below
  <2>8. WaveOK'
    BY <1>3, <1>4, <1>6, <1>9, <2>1, <2>3, <2>7 DEF WaveOK
  <2>9. ASSUME NEW o \in Gates(aig)
        PROVE  /\ Out(aig, assigns', o) = assigns'[o] \/ Pend(aig, o, fan', to_update', seen')
               /\ assigns'[o] = assigns[o]
    <3>1. assigns'[o] = assigns[o] /\ assigns[o] = Out(aig, assigns, o)
      BY <1>4, <1>6, <2>3, StateFacts, SettledOut
    <3>2. CASE v \in {In(aig, o, 2), In(aig, o, 3)}
      BY <1>6, <2>1, <3>1, <3>2 DEF Pend
    <3>3. CASE v \notin {In(aig, o, 2), In(aig, o, 3)}
      BY <1>4, <2>3, <3>1, <3>3, StateFacts, OutSame
    <3> QED BY <3>1, <3>2, <3>3
  <2>10. \A w \in AllVars(aig) : Below(Without(aig, given.input, assigns, n)[w], assigns'[w])
    <3>1. /\ Without(aig, given.input, assigns, n)[v] = "X"
          /\ \A w \in AllVars(aig) : Below(Without(aig, given.input, assigns, n)[w], assigns[w])
      BY <1>2, <1>4, <1>5, StateFacts, WithoutIs
    <3> QED BY <2>3, <3>1 DEF Below
  <2>11. AttemptOK'
    <3>1. \A w \in preserve : assigns'[w] = assigns[w]
      BY <1>4, <1>9, <2>3 DEF TypeOK
    <3> QED BY <1>3, <1>6, <2>1, <2>9, <2>10, <3>1 DEF AttemptOK
  <2> QED BY <2>4, <2>5, <2>6, <2>8, <2>11 DEF TernaryInv
<1> QED BY <1>8, <1>9

-----------------------------------------------------------------------------
(* The initial states.                                                     *)

(* The variables of literals that a call of reduce preserves are defined.  *)
LEMMA CallsAre ==
    ASSUME NEW A \in Netlists, NEW kept \in Calls(A), NEW l \in kept
    PROVE  lit2var(l) \in DefinedVars(A)
<1>1. /\ lit2var(A.property) \in DefinedVars(A)
      /\ \A n \in Latches(A) : lit2var(A.latches[n][2]) \in DefinedVars(A)
  BY NetlistAssumption
<1>2. CASE kept = {A.property}
  BY <1>1, <1>2
<1>3. ASSUME NEW S \in SUBSET Latches(A) \ {{}}, kept = {A.latches[n][2] : n \in S}
      PROVE  lit2var(l) \in DefinedVars(A)
  BY <1>1, <1>3
<1> QED BY <1>2, <1>3 DEF Calls

(* Every latch of a set is in the order it is tried in.                    *)
LEMMA OrderedIs ==
    ASSUME NEW A \in Netlists, NEW high, NEW L, L \subseteq Latches(A)
    PROVE  /\ Ordered(A, high, L) \in Seq(Latches(A))
           /\ \A m \in L : \E j \in DOMAIN Ordered(A, high, L) : Ordered(A, high, L)[j] = m
<1>1. PICK s : s = InOrder(A, high \cap L)
  OBVIOUS
<1>2. PICK t : t = InOrder(A, L \ high)
  OBVIOUS
<1>3. /\ s \in Seq(high \cap L) /\ \A m \in high \cap L : \E j \in DOMAIN s : s[j] = m
      /\ t \in Seq(L \ high) /\ \A m \in L \ high : \E j \in DOMAIN t : t[j] = m
  <2>1. ASSUME NEW S, S \subseteq Latches(A)
        PROVE  InOrder(A, S) \in Seq(S) /\ \A m \in S : \E j \in DOMAIN InOrder(A, S) : InOrder(A, S)[j] = m
    BY <2>1, InOrderIs
  <2>2. PICK S : S = high \cap L
    OBVIOUS
  <2>3. PICK T : T = L \ high
    OBVIOUS
  <2>4. s \in Seq(S) /\ \A m \in S : \E j \in DOMAIN s : s[j] = m
    <3>1. S \subseteq Latches(A)
      BY <2>2
    <3> QED BY <1>1, <2>1, <2>2, <3>1
  <2>5. t \in Seq(T) /\ \A m \in T : \E j \in DOMAIN t : t[j] = m
    <3>1. T \subseteq Latches(A)
      BY <2>3
    <3> QED BY <1>2, <2>1, <2>3, <3>1
  <2> QED BY <2>2, <2>3, <2>4, <2>5
<1>4. s \in Seq(Latches(A)) /\ t \in Seq(Latches(A))
  BY <1>3
<1>5. PICK u : u = s \o t
  OBVIOUS
<1>6. /\ u \in Seq(Latches(A))
      /\ DOMAIN s = 1 .. Len(s) /\ DOMAIN t = 1 .. Len(t) /\ Len(s) \in Nat /\ Len(t) \in Nat
      /\ DOMAIN u = 1 .. Len(s) + Len(t)
      /\ \A j \in DOMAIN s : u[j] = s[j]
      /\ \A j \in DOMAIN t : u[Len(s) + j] = t[j]
  BY <1>4, <1>5
<1>7. ASSUME NEW m \in L PROVE \E j \in DOMAIN u : u[j] = m
  <2>1. CASE m \in high
    <3>1. PICK j \in DOMAIN s : s[j] = m
      BY <1>3, <1>7, <2>1
    <3> QED BY <1>6, <3>1
  <2>2. CASE m \notin high
    <3>1. PICK j \in DOMAIN t : t[j] = m
      BY <1>3, <1>7, <2>2
    <3>2. Len(s) + j \in DOMAIN u /\ u[Len(s) + j] = m
      BY <1>6, <3>1
    <3> QED BY <3>2
  <2> QED BY <2>1, <2>2
<1> QED BY <1>1, <1>2, <1>5, <1>6, <1>7 DEF Ordered

(* What the simulation of the latches and inputs of a call is like.        *)
LEMMA SimulatedSettled ==
    ASSUME NEW A \in Netlists, NEW i \in [1 .. Len(A.inputs) -> BOOLEAN], NEW p \in [Latches(A) -> Values]
    PROVE  /\ Simulated(A, p, i) \in [AllVars(A) -> Values]
           /\ LatchVals(A, Simulated(A, p, i)) = p
           /\ Settled(A, i, Simulated(A, p, i))
<1> DEFINE a == Simulated(A, p, i)
           src == Sources(A, p, i)
<1>1. /\ src \in [AllVars(A) -> Values] /\ \A n \in Latches(A) : src[LatchVar(A, n)] = p[n]
  BY SourcesAre
<1>2. IsSim(A, src, a)
  BY <1>1, SimulatedIs
<1> HIDE DEF src, a
<1>3. a \in [AllVars(A) -> Values]
  BY <1>2 DEF IsSim
<1>4. \A n \in Latches(A) : a[LatchVar(A, n)] = p[n]
  BY <1>1, <1>2, LatchFacts DEF IsSim
<1>5. LatchVals(A, a) = p
  BY <1>4 DEF LatchVals
<1> QED BY <1>2, <1>3, <1>5 DEF Settled, src, a

(* What reduce is called with satisfies the invariant.                     *)
LEMMA InitInv == Init => TernaryInv
<1> SUFFICES ASSUME Init PROVE TernaryInv
  OBVIOUS
<1>1. PICK kept \in Calls(aig), high \in SUBSET Latches(aig), i \in [1 .. Len(aig.inputs) -> BOOLEAN] :
         \E defined \in {UNION {collectCOI(aig, l) : l \in kept}, Latches(aig)} :
           \E q \in [defined -> BOOLEAN] :
              /\ preserve = {lit2var(l) : l \in kept}
              /\ given = [latch |-> [n \in Latches(aig) |-> IF n \in defined THEN OfBool(q[n]) ELSE "X"],
                          input |-> i]
              /\ assigns = Simulated(aig, given.latch, i)
              /\ todo = Ordered(aig, high, defined)
  BY DEF Init
<1>2. PICK defined \in {UNION {collectCOI(aig, l) : l \in kept}, Latches(aig)} :
           \E q \in [defined -> BOOLEAN] :
              /\ preserve = {lit2var(l) : l \in kept}
              /\ given = [latch |-> [n \in Latches(aig) |-> IF n \in defined THEN OfBool(q[n]) ELSE "X"],
                          input |-> i]
              /\ assigns = Simulated(aig, given.latch, i)
              /\ todo = Ordered(aig, high, defined)
  BY <1>1
<1>3. PICK q \in [defined -> BOOLEAN] :
              /\ preserve = {lit2var(l) : l \in kept}
              /\ given = [latch |-> [n \in Latches(aig) |-> IF n \in defined THEN OfBool(q[n]) ELSE "X"],
                          input |-> i]
              /\ assigns = Simulated(aig, given.latch, i)
              /\ todo = Ordered(aig, high, defined)
  BY <1>2
<1>4. /\ aig \in Netlists /\ cur = 0 /\ undo = FALSE /\ to_update = <<>> /\ fan = <<>> /\ seen = {}
      /\ start = assigns
  BY DEF Init
<1>5. defined \subseteq Latches(aig) /\ \A l \in kept : collectCOI(aig, l) \subseteq defined
  BY DEF collectCOI
<1>6. PICK p : p = given.latch
  OBVIOUS
<1>7. /\ p \in [Latches(aig) -> Values] /\ given.input = i
      /\ \A n \in Latches(aig) : n \in defined => p[n] # "X"
      /\ \A n \in Latches(aig) : n \notin defined => p[n] = "X"
  <2>1. \A n \in defined : OfBool(q[n]) \in Values /\ OfBool(q[n]) # "X"
    BY <1>3, BoolOps
  <2> QED BY <1>3, <1>6, <2>1 DEF Values
<1>8. /\ assigns = Simulated(aig, p, i) /\ assigns \in [AllVars(aig) -> Values]
      /\ LatchVals(aig, assigns) = p /\ Settled(aig, i, assigns)
  BY <1>3, <1>4, <1>6, <1>7, SimulatedSettled
<1>9. todo \in Seq(Latches(aig)) /\ \A m \in defined : \E j \in DOMAIN todo : todo[j] = m
  BY <1>3, <1>4, <1>5, OrderedIs
<1>10. preserve \subseteq AllVars(aig)
  BY <1>3, <1>4, CallsAre, LastVarIs
<1>11. Idle /\ Base = assigns
  BY <1>4 DEF Idle, Base
<1>12. TypeOK
  <2>1. to_update \in Seq(AllVars(aig)) /\ fan \in Seq(Gates(aig)) /\ seen \subseteq RangeOf(to_update)
    BY <1>4
  <2> QED BY <1>4, <1>6, <1>7, <1>8, <1>9, <1>10, <2>1 DEF TypeOK, Inputs
<1>13. BaseOK
  <2>1. ASSUME NEW v \in preserve PROVE assigns[v] # "X"
    <3>1. PICK l \in kept : v = lit2var(l)
      BY <1>3, <2>1
    <3>2. \A n \in collectCOI(aig, l) : p[n] # "X"
      BY <1>5, <1>7
    <3> QED BY <1>4, <1>7, <1>8, <3>1, <3>2, CallsAre, ConeHasValues
  <2> QED BY <1>6, <1>7, <1>8, <1>11, <2>1 DEF BaseOK
<1>14. TriedOK
  <2>1. \A n \in Latches(aig) : assigns[LatchVar(aig, n)] = p[n]
    BY <1>8 DEF LatchVals
  <2> QED BY <1>7, <1>9, <1>11, <2>1 DEF TriedOK
<1> QED BY <1>4, <1>11, <1>12, <1>13, <1>14 DEF TernaryInv, QuietOK, WaveOK, AttemptOK, UndoOK

-----------------------------------------------------------------------------
(* Theorems.                                                               *)

(* Each step keeps the invariant.                                          *)
LEMMA StepInv == TernaryInv /\ [Next]_vars => TernaryInv'
<1> SUFFICES ASSUME TernaryInv, [Next]_vars PROVE TernaryInv'
  OBVIOUS
<1>1. CASE Attempt
  BY <1>1, AttemptKeeps
<1>2. CASE NextUpdate
  BY <1>2, NextUpdateKeeps
<1>3. CASE VisitSame
  BY <1>3, VisitSameKeeps
<1>4. CASE VisitChanged
  BY <1>4, VisitChangedKeeps
<1>5. CASE VisitPreserved
  BY <1>5, VisitPreservedKeeps
<1>6. CASE Settle
  BY <1>6, SettleKeeps
<1>7. CASE UNCHANGED vars
  <2>1. /\ aig' = aig /\ preserve' = preserve /\ given' = given /\ assigns' = assigns /\ todo' = todo
        /\ cur' = cur /\ undo' = undo /\ to_update' = to_update /\ fan' = fan /\ seen' = seen
        /\ start' = start
    BY <1>7 DEF vars
  <2>2. Base' = Base /\ (Idle' <=> Idle)
    BY <2>1 DEF Base, Idle
  <2> QED BY <2>1, <2>2 DEF TernaryInv, TypeOK, Inputs, BaseOK, QuietOK, TriedOK, WaveOK, AttemptOK, UndoOK
<1> QED BY <1>1, <1>2, <1>3, <1>4, <1>5, <1>6, <1>7 DEF Next

(* The inductive invariant of ternary simulation.                          *)
THEOREM TernaryInvHolds == Spec => []TernaryInv
<1> QED BY InitInv, StepInv, PTL DEF Spec

(* Between attempts every variable has the value that simulating all gates *)
(* from the latches would give it, and an undone attempt leaves no trace:  *)
(* Ternary::reduce visits enough gates, in an order that suffices, and its *)
(* assertion at Ternary.cpp:121 never fails.                               *)
THEOREM AlwaysConsistent == Spec => []Consistent
<1>1. ASSUME TernaryInv PROVE Consistent
  <2>1. TypeOK /\ BaseOK
    BY <1>1 DEF TernaryInv
  <2>2. undo /\ fan = <<>> /\ to_update = <<>> => assigns = start
    BY <1>1, UndoDone DEF TernaryInv, QuietOK
  <2>3. ASSUME Idle PROVE assigns = Simulated(aig, Latch(assigns), given.input)
    <3>1. Settled(aig, given.input, assigns)
      BY <2>1, <2>3 DEF BaseOK, Base
    <3>2. LatchVals(aig, assigns) \in [Latches(aig) -> Values]
      BY <2>1, StateFacts, LatchesOf
    <3>3. Settled(aig, given.input, assigns) /\ LatchVals(aig, assigns) = Latch(assigns)
      BY <3>1 DEF LatchVals, Latch, Var
    <3>4. PICK src : src = Sources(aig, Latch(assigns), given.input)
      OBVIOUS
    <3>5. src \in [AllVars(aig) -> Values]
      BY <2>1, <3>2, <3>3, <3>4, StateFacts, SourcesAre
    <3>6. IsSim(aig, src, assigns)
      BY <3>3, <3>4 DEF Settled
    <3>7. IsSim(aig, src, Simulated(aig, Latch(assigns), given.input))
      BY <2>1, <3>4, <3>5, StateFacts, SimulatedIs
    <3> QED BY <2>1, <3>6, <3>7, StateFacts, SimUnique
  <2> QED BY <2>2, <2>3 DEF Consistent
<1> QED BY <1>1, TernaryInvHolds, PTL

(* Whatever the latches that reduce leaves undefined are, the variables to *)
(* preserve have the values they had: the cube that pre_image and          *)
(* block_cube build from what is left is as good as the state.             *)
THEOREM ForcesStep == Spec => []StepForced
<1>1. ASSUME TernaryInv, Consistent PROVE StepForced
  <2> SUFFICES ASSUME Done, NEW q \in [Latches(aig) -> BOOLEAN],
                      \A n \in Latches(aig) : Latch(assigns)[n] \in {"X", OfBool(q[n])},
                      NEW v \in preserve
               PROVE  OfBool(Eval(aig, q, given.input)[v]) = Simulated(aig, given.latch, given.input)[v]
    BY DEF StepForced
  <2>1. TypeOK /\ BaseOK /\ Idle
    BY <1>1 DEF TernaryInv, Done
  <2>2. assigns = Simulated(aig, Latch(assigns), given.input)
    BY <1>1, <2>1 DEF Consistent
  <2>3. PICK p : p = Latch(assigns)
    OBVIOUS
  <2>4. p \in [Latches(aig) -> Values]
    <3>1. LatchVals(aig, assigns) \in [Latches(aig) -> Values]
      BY <2>1, StateFacts, LatchesOf
    <3>2. LatchVals(aig, assigns) = Latch(assigns)
      BY DEF LatchVals, Latch, Var
    <3> QED BY <2>3, <3>1, <3>2
  <2>5. v \in AllVars(aig)
    BY <2>1 DEF TypeOK
  <2>6. Below(Simulated(aig, p, given.input)[v], OfBool(Eval(aig, q, given.input)[v]))
    BY <2>1, <2>3, <2>4, <2>5, StateFacts, SimCovers DEF Below
  <2>7. assigns[v] = Simulated(aig, given.latch, given.input)[v] /\ assigns[v] # "X"
    BY <2>1 DEF BaseOK, Base
  <2> QED BY <2>2, <2>3, <2>6, <2>7 DEF Below
<1> QED BY <1>1, TernaryInvHolds, AlwaysConsistent, PTL

(* One pass of reduce is enough: without any of the latches that are left, *)
(* a variable to preserve would change, although latches tried later have  *)
(* been dropped since it was kept (Ternary.cpp:199-208).                   *)
THEOREM LeavesNone == Spec => []NoneLeft
<1>1. ASSUME TernaryInv PROVE NoneLeft
  <2> SUFFICES ASSUME Done, NEW n \in Latches(aig), Latch(assigns)[n] # "X"
               PROVE  \E v \in preserve :
                         Simulated(aig, [Latch(assigns) EXCEPT ![n] = "X"], given.input)[v] # assigns[v]
    BY DEF NoneLeft
  <2>1. TypeOK /\ TriedOK /\ cur = 0 /\ todo = <<>>
    BY <1>1 DEF TernaryInv, Done, Idle
  <2>2. Base = assigns
    BY <2>1 DEF Base, Idle
  <2>3. LatchVals(aig, assigns) = Latch(assigns) /\ assigns[LatchVar(aig, n)] # "X"
    BY DEF LatchVals, Latch, Var
  <2>4. LatchVar(aig, n) # 0
    BY <2>1, StateFacts DEF LatchVars
  <2>5. Needed(aig, given.input, preserve, assigns, n)
    BY <2>1, <2>2, <2>3, <2>4 DEF TriedOK
  <2> QED BY <2>3, <2>5 DEF Needed, Without
<1> QED BY <1>1, TernaryInvHolds, PTL

=============================================================================

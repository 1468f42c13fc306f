-------------------------------- MODULE Word --------------------------------
(***************************************************************************)
(* Words of literals, and arithmetic on them (aiglib/Word.h).  A word is   *)
(* the sequence of its literals, the lowest first; of a literal this module*)
(* keeps its value and whether it is one of the constants.  The gates that *)
(* compute it are the subject of module Circuit.                           *)
(***************************************************************************)
EXTENDS Integers, Sequences, FiniteSets

CONSTANTS
    Sizes       \* the sizes of the words

VARIABLES
    a, b,       \* two words of the same size
    arg,        \* another argument of the operation, or 0
    result      \* what it returned, or <<>>

vars == <<a, b, arg, result>>

Literals  == [value : BOOLEAN, const : BOOLEAN]
Const(v)  == [value |-> v, const |-> TRUE]
False     == Const(FALSE)
True      == Const(TRUE)

-----------------------------------------------------------------------------
(* Circuit                                                                 *)

Not(x) == [x EXCEPT !.value = ~ @]

And(x, y) == IF x.const THEN (IF x.value THEN y ELSE x)
             ELSE IF y.const THEN (IF y.value THEN x ELSE y)
             ELSE [value |-> x.value /\ y.value, const |-> FALSE]
Or(x, y)  == Not(And(Not(x), Not(y)))
Xor(x, y) == IF x.const THEN (IF x.value THEN Not(y) ELSE y)
             ELSE IF y.const THEN (IF y.value THEN Not(x) ELSE x)
             ELSE [value |-> x.value # y.value, const |-> FALSE]
IteLit(c, x, y) == And(Not(And(c, Not(x))), Not(And(Not(c), Not(y))))

-----------------------------------------------------------------------------
(* Word                                                                    *)

size(w)  == Len(w)
Smaller(x, y) == IF x < y THEN x ELSE y

\* The value v has place k (from 1) set.
Bit(v, k) == (v \div 2 ^ (k - 1)) % 2 = 1

makeConstant(n, v) == [i \in 1 .. n |-> Const(Bit(v, i))]
isConst(w)  == \A i \in DOMAIN w : w[i].const
invert(w)   == [i \in DOMAIN w |-> Not(w[i])]
Ite(c, v, w) == [i \in DOMAIN v |-> IteLit(c, v[i], w[i])]
BitwiseXor(v, w) == [i \in DOMAIN v |-> Xor(v[i], w[i])]
BitwiseOr(v, w)  == [i \in DOMAIN v |-> Or(v[i], w[i])]
BitwiseAnd(v, w) == [i \in DOMAIN v |-> And(v[i], w[i])]

\* The literals from lower on, but not upper, of places counted from 0.
slice(w, lower, upper) == SubSeq(w, lower + 1, upper)
resize(w, newsize, defaultVal) ==
    [i \in 1 .. newsize |-> IF i <= size(w) THEN w[i] ELSE defaultVal]

\* Shifts: what is shifted in is false or, to the right, the sign.
lshift(w, k) ==
    LET n == Smaller(k, size(w))
    IN  [i \in DOMAIN w |-> IF i <= n THEN False ELSE w[i - n]]

rshift(w, k) ==
    LET n == Smaller(k, size(w))
    IN  [i \in DOMAIN w |-> IF i > size(w) - n THEN w[size(w)] ELSE w[i + n]]
logical_rshift(w, k) ==
    LET n == Smaller(k, size(w))
    IN  [i \in DOMAIN w |-> IF i > size(w) - n THEN False ELSE w[i + n]]

\* Seeded fault: a carry comes out of both literals only.
carriesHalf(v, w) ==
    LET carry[i \in 1 .. size(v)] == And(v[i], w[i])
    IN  carry

\* The carry out of each place.
carries(v, w) ==
    LET carry[i \in 1 .. size(v)] ==
          IF i = 1 THEN And(v[1], w[1])
          ELSE Or(And(v[i], w[i]), And(Xor(v[i], w[i]), carry[i - 1]))
    IN  carry

\* The word, and the carry out of it.
add(v, w) ==
    LET c == carries(v, w)
    IN  [word |-> [i \in DOMAIN v |-> IF i = 1 THEN Xor(v[1], w[1])
                                      ELSE Xor(Xor(v[i], w[i]), c[i - 1])],
         carry_out |-> c[size(v)]]

\* The carry of inc goes on as long as the places are true.
inc(w) ==
    LET carry[i \in 1 .. size(w)] == IF i = 1 THEN And(w[1], True) ELSE And(w[i], carry[i - 1])
    IN  [i \in DOMAIN w |-> IF i = 1 THEN Xor(w[1], True) ELSE Xor(w[i], carry[i - 1])]

dec(w)    == add(w, makeConstant(size(w), 2 ^ size(w) - 1)).word
negate(w) == inc(invert(w))

Conjunction(f) == LET upto[i \in 0 .. Len(f)] == IF i = 0 THEN True ELSE And(upto[i - 1], f[i])
                  IN  upto[Len(f)]

isEqual(v, w) == Conjunction([i \in DOMAIN v |-> Not(Xor(w[i], v[i]))])
isZero(w)     == Conjunction([i \in DOMAIN w |-> Not(w[i])])
isNegative(w) == w[size(w)]

isPositive(w) == And(Not(isNegative(w)), Not(isZero(w)))

\* getConstantValue
getConstantValue(w) ==
    LET sum[i \in 0 .. Len(w)] == IF i = 0 THEN 0
                                  ELSE sum[i - 1] + (IF w[i].value THEN 2 ^ (i - 1) ELSE 0)
    IN  sum[Len(w)]

\* demux_2to4 and demux_3to8: the literals that are true for the values in turn.
Decoded(w) == [k \in 1 .. 2 ^ size(w) |->
                 Conjunction([i \in DOMAIN w |-> IF Bit(k - 1, i) THEN w[i] ELSE Not(w[i])])]

\* demux_4to16 and demux_8to256: of both halves, each with each.
Product(low, high) == [k \in 1 .. Len(low) * Len(high) |->
                         And(low[((k - 1) % Len(low)) + 1], high[((k - 1) \div Len(low)) + 1])]
Decoded4(w) == Product(Decoded(SubSeq(w, 1, 2)), Decoded(SubSeq(w, 3, 4)))
Decoded8(w) == Product(Decoded4(SubSeq(w, 1, 4)), Decoded4(SubSeq(w, 5, 8)))

\* A constant is decoded at once, and a word of one literal returned as it is.
demux(w) ==
    IF isConst(w) THEN [k \in 1 .. 2 ^ size(w) |-> Const(k - 1 = getConstantValue(w))]
    ELSE CASE size(w) = 1 -> w
           [] size(w) \in {2, 3} -> Decoded(w)
           [] size(w) = 4 -> Decoded4(w)
           [] size(w) = 8 -> Decoded8(w)

-----------------------------------------------------------------------------

Init ==
    /\ \E n \in Sizes : a \in [1 .. n -> Literals] /\ b \in [1 .. n -> Literals]
    /\ arg = 0
    /\ result = <<>>

\* One operation is called.
Returns(x, r) == result = <<>> /\ arg' = x /\ result' = r /\ UNCHANGED <<a, b>>

Bitwise == Returns(0, [invert |-> invert(a), xor |-> BitwiseXor(a, b),
                       or |-> BitwiseOr(a, b), and |-> BitwiseAnd(a, b)])
Choose  == \E c \in Literals : Returns(c, [ite |-> Ite(c, a, b)])
Shift   == \E k \in 0 .. size(a) + 1 :
              Returns(k, [left |-> lshift(a, k), right |-> rshift(a, k),
                          logical |-> logical_rshift(a, k)])
Add     == Returns(0, [sum |-> add(a, b).word, carry_out |-> add(a, b).carry_out])
Count   == Returns(0, [inc |-> inc(a), dec |-> dec(a), negate |-> negate(a)])
Compare == Returns(0, [equal |-> isEqual(a, b), zero |-> isZero(a),
                       negative |-> isNegative(a), positive |-> isPositive(a)])
Cut     == \E lower, upper \in 0 .. size(a) :
              Returns(<<lower, upper>>, [slice |-> slice(a, lower, upper)])
Resize  == \E n \in 0 .. size(a) + 1, l \in Literals :
              Returns(<<n, l>>, [resize |-> resize(a, n, l)])
\* Of a, or of a longer word made of a and b, of a size that the code handles.
Demux   == \E w \in {a, a \o b, a \o b \o a \o b, a \o a \o b \o b} :
              size(w) \in {1, 2, 3, 4, 8} /\ Returns(w, [demux |-> demux(w)])

Next == Bitwise \/ Choose \/ Cut \/ Resize \/ Shift \/ Add \/ Count \/ Compare \/ Demux

Spec == Init /\ [][Next]_vars

-----------------------------------------------------------------------------

Has(field) == result # <<>> /\ field \in DOMAIN result

Values  == 2 ^ size(a)
U(w)    == getConstantValue(w)                                  \* unsigned
S(w)    == IF w[size(w)].value THEN U(w) - Values ELSE U(w)     \* two's complement

(* Words compute arithmetic modulo their size, on two's complement as on   *)
(* unsigned numbers: addition with its carry, inc, dec and negate ("Returns*)
(* this word, interpreted as a (signed) integer, plus 1", Word.h:255).     *)
Arithmetic ==
    /\ Has("sum") => /\ U(result.sum) = (U(a) + U(b)) % Values
                     /\ result.carry_out.value <=> U(a) + U(b) >= Values
    /\ Has("inc") => /\ U(result.inc) = (U(a) + 1) % Values
                     /\ U(result.dec) = (U(a) - 1) % Values
                     /\ U(result.negate) = (-U(a)) % Values

(* Shifting multiplies and divides, whatever the amount: to the right the  *)
(* signed number, rounding down, or the unsigned one.                      *)
ShiftsMultiply ==
    Has("left") =>
       /\ U(result.left)    = (U(a) * 2 ^ arg) % Values
       /\ S(result.right)   = S(a) \div 2 ^ arg
       /\ U(result.logical) = U(a) \div 2 ^ arg

(* Comparisons are those of signed numbers, and choosing and the bitwise   *)
(* operators act place by place.                                           *)
Compares ==
    /\ Has("equal") => /\ result.equal.value    <=> U(a) = U(b)
                       /\ result.zero.value     <=> U(a) = 0
                       /\ result.negative.value <=> S(a) < 0
                       /\ result.positive.value <=> S(a) > 0
    /\ Has("ite")   => U(result.ite) = (IF arg.value THEN U(a) ELSE U(b))
    /\ Has("xor")   => /\ U(result.invert) = Values - 1 - U(a)
                       /\ U(result.xor) = U(result.or) - U(result.and)
                       /\ U(result.or) + U(result.and) = U(a) + U(b)

(* A slice is the number without its places below lower, modulo what fits; *)
(* resizing keeps the number modulo what fits, and sets all places added or*)
(* none.                                                                   *)
Resizes ==
    /\ Has("slice") => LET n == arg[2] - arg[1]
                       IN  /\ size(result.slice) = IF n < 0 THEN 0 ELSE n
                           /\ n > 0 => U(result.slice) = (U(a) \div 2 ^ arg[1]) % (2 ^ n)
    /\ Has("resize") => LET n == arg[1]
                            extra == IF arg[2].value /\ n > size(a) THEN 2 ^ n - Values ELSE 0
                        IN  /\ size(result.resize) = n
                            /\ U(result.resize) = (U(a) % (2 ^ n)) + extra

(* The word is decoded into one literal for each of its values, of which   *)
(* the one for its value is true.  (A word of one literal that is no       *)
(* constant is returned as it is.)                                         *)
OneHot ==
    Has("demux") /\ (isConst(arg) \/ size(arg) > 1) =>
       /\ Len(result.demux) = 2 ^ size(arg)
       /\ \A k \in DOMAIN result.demux : result.demux[k].value <=> k - 1 = U(arg)

(* What is computed from constants is constant, so that it costs no gate   *)
(* and its value can be asked for.                                         *)
ConstantsStay ==
    isConst(a) /\ isConst(b) =>
       /\ Has("sum")   => isConst(result.sum) /\ result.carry_out.const
       /\ Has("inc")   => isConst(result.inc) /\ isConst(result.dec) /\ isConst(result.negate)
       /\ Has("equal") => \A f \in DOMAIN result : result[f].const
       /\ Has("demux") => isConst(result.demux)
       /\ Has("ite") /\ arg.const => isConst(result.ite)

(* A word computed by any operation is the number, or has the bits, that   *)
(* the operation is named for (Word.h:137-455).                            *)
WordsCompute == Arithmetic /\ ShiftsMultiply /\ Resizes /\ Compares /\ OneHot /\ ConstantsStay

=============================================================================

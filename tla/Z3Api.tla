------------------------------- MODULE Z3Api --------------------------------
(***************************************************************************)
(* z3_api.h: the functions of the C API that make expressions, those that  *)
(* z3++.h wraps for Booleans, integers, bit vectors and arrays.            *)
(*                                                                         *)
(* An expression is a sort and the value it has under a valuation: w is    *)
(* the width of a bit vector, or one of the sorts below.  A function given *)
(* operands of the wrong sorts sets the error code of its context and      *)
(* returns no expression: one of no sort.  The header leaves a division of *)
(* bit vectors by zero undefined; it is some value of the right sort.      *)
(***************************************************************************)
EXTENDS Integers, Sequences, Bits

Boolean == 0                \* v is TRUE or FALSE
CppInt  == -1               \* a C++ integer among the expressions
NoSort  == -2
Integer == -3
ArraySort == -4             \* v is a function on 0 .. 2^domain - 1

IllSorted == [w |-> NoSort, v |-> 0]

Truth(b)    == [w |-> Boolean, v |-> b]
Number(n)   == [w |-> Integer, v |-> n]
Vector(n, w) == [w |-> w, v |-> n % 2^w]

SameSort(a, b) ==
    /\ a.w = b.w
    /\ a.w = ArraySort => a.domain = b.domain /\ a.range = b.range

\* Results for operands of the sorts that a group of functions asks for.
OnTruth(a, b, c)     == IF a.w = Boolean /\ b.w = Boolean THEN Truth(c) ELSE IllSorted
OnNumbers(a, b, n)   == IF a.w = Integer /\ b.w = Integer THEN Number(n) ELSE IllSorted
CompareInt(a, b, c)  == IF a.w = Integer /\ b.w = Integer THEN Truth(c) ELSE IllSorted
OnBits(a, b, n)      == IF a.w = b.w /\ a.w > 0 THEN Vector(n, a.w) ELSE IllSorted
CompareBits(a, b, c) == IF a.w = b.w /\ a.w > 0 THEN Truth(c) ELSE IllSorted

-----------------------------------------------------------------------------
\* Propositional logic and equality.
Z3_mk_true            == Truth(TRUE)
Z3_mk_false           == Truth(FALSE)
Z3_mk_eq(a, b)        == IF SameSort(a, b) /\ a.w \notin {NoSort, CppInt}
                         THEN Truth(a.v = b.v) ELSE IllSorted
Z3_mk_distinct(a, b)  == IF SameSort(a, b) /\ a.w \notin {NoSort, CppInt}
                         THEN Truth(a.v # b.v) ELSE IllSorted
Z3_mk_not(a)          == OnTruth(a, a, ~a.v)
Z3_mk_ite(c, t, e)    == IF c.w = Boolean /\ SameSort(t, e)
                         THEN IF c.v THEN t ELSE e ELSE IllSorted
Z3_mk_iff(a, b)       == OnTruth(a, b, a.v = b.v)
Z3_mk_xor(a, b)       == OnTruth(a, b, a.v # b.v)
Z3_mk_implies(a, b)   == OnTruth(a, b, a.v => b.v)
Z3_mk_and(a, b)       == OnTruth(a, b, a.v /\ b.v)
Z3_mk_or(a, b)        == OnTruth(a, b, a.v \/ b.v)

-----------------------------------------------------------------------------
\* Integers.  The remainder of SMT-LIB is never negative; rem has the sign of
\* the divisor.
Euclid(m, n) == IF n > 0 THEN m \div n ELSE -(m \div (-n))

Z3_mk_add(a, b)       == OnNumbers(a, b, a.v + b.v)
Z3_mk_mul(a, b)       == OnNumbers(a, b, a.v * b.v)
Z3_mk_sub(a, b)       == OnNumbers(a, b, a.v - b.v)
Z3_mk_unary_minus(a)  == OnNumbers(a, a, -a.v)
Z3_mk_div(a, b)       == OnNumbers(a, b, IF b.v = 0 THEN 0 ELSE Euclid(a.v, b.v))
Z3_mk_mod(a, b)       == OnNumbers(a, b, IF b.v = 0 THEN 0 ELSE a.v - b.v * Euclid(a.v, b.v))
Z3_mk_rem(a, b)       == IF b.v < 0 THEN Z3_mk_unary_minus(Z3_mk_mod(a, b)) ELSE Z3_mk_mod(a, b)
Z3_mk_lt(a, b)        == CompareInt(a, b, a.v < b.v)
Z3_mk_le(a, b)        == CompareInt(a, b, a.v <= b.v)
Z3_mk_gt(a, b)        == CompareInt(a, b, a.v > b.v)
Z3_mk_ge(a, b)        == CompareInt(a, b, a.v >= b.v)

-----------------------------------------------------------------------------
\* Bit vectors.
SignBit(a) == a.v \div 2^(a.w - 1)
Signed(a)  == a.v - SignBit(a) * 2^a.w

\* The quotient that is rounded towards zero.
Truncated(m, n) == IF m * n >= 0 THEN m \div n ELSE -((-m) \div n)

Undefined(w) == CHOOSE n \in 0 .. 2^w - 1 : TRUE

Divided(a, b, n) == OnBits(a, b, IF b.v = 0 THEN Undefined(b.w) ELSE n)

Z3_mk_bvnot(a)        == OnBits(a, a, -1 - a.v)
Z3_mk_bvand(a, b)     == OnBits(a, b, BitAnd(a.v, b.v))
Z3_mk_bvor(a, b)      == OnBits(a, b, BitOr(a.v, b.v))
Z3_mk_bvxor(a, b)     == OnBits(a, b, BitXor(a.v, b.v))
Z3_mk_bvnand(a, b)    == Z3_mk_bvnot(Z3_mk_bvand(a, b))
Z3_mk_bvnor(a, b)     == Z3_mk_bvnot(Z3_mk_bvor(a, b))
Z3_mk_bvxnor(a, b)    == Z3_mk_bvnot(Z3_mk_bvxor(a, b))
Z3_mk_bvneg(a)        == OnBits(a, a, -a.v)
Z3_mk_bvadd(a, b)     == OnBits(a, b, a.v + b.v)
Z3_mk_bvsub(a, b)     == OnBits(a, b, a.v - b.v)
Z3_mk_bvmul(a, b)     == OnBits(a, b, a.v * b.v)
Z3_mk_bvudiv(a, b)    == Divided(a, b, a.v \div b.v)
Z3_mk_bvsdiv(a, b)    == Divided(a, b, Truncated(Signed(a), Signed(b)))
Z3_mk_bvurem(a, b)    == Divided(a, b, a.v % b.v)
Z3_mk_bvsrem(a, b)    == Divided(a, b, Signed(a) - Truncated(Signed(a), Signed(b)) * Signed(b))
Z3_mk_bvsmod(a, b)    == Divided(a, b, LET m == Signed(a) n == Signed(b)
                                       IN  IF n > 0 THEN m % n ELSE -((-m) % (-n)))
Z3_mk_bvult(a, b)     == CompareBits(a, b, a.v < b.v)
Z3_mk_bvule(a, b)     == CompareBits(a, b, a.v <= b.v)
Z3_mk_bvuge(a, b)     == CompareBits(a, b, a.v >= b.v)
Z3_mk_bvugt(a, b)     == CompareBits(a, b, a.v > b.v)
Z3_mk_bvslt(a, b)     == CompareBits(a, b, Signed(a) < Signed(b))
Z3_mk_bvsle(a, b)     == CompareBits(a, b, Signed(a) <= Signed(b))
Z3_mk_bvsge(a, b)     == CompareBits(a, b, Signed(a) >= Signed(b))
Z3_mk_bvsgt(a, b)     == CompareBits(a, b, Signed(a) > Signed(b))

Z3_mk_concat(a, b)    == IF a.w > 0 /\ b.w > 0
                         THEN Vector(a.v * 2^b.w + b.v, a.w + b.w) ELSE IllSorted
Z3_mk_extract(hi, lo, a) == IF a.w > hi /\ hi >= lo
                         THEN Vector(a.v \div 2^lo, hi - lo + 1) ELSE IllSorted
Z3_mk_sign_ext(i, a)  == IF a.w > 0 THEN Vector(Signed(a), a.w + i) ELSE IllSorted
Z3_mk_zero_ext(i, a)  == IF a.w > 0 THEN [a EXCEPT !.w = @ + i] ELSE IllSorted
Z3_mk_rotate_left(i, a) == IF a.w > 0
                         THEN LET k == i % a.w IN Vector(a.v * 2^k + a.v \div 2^(a.w - k), a.w)
                         ELSE IllSorted
Z3_mk_rotate_right(i, a) == Z3_mk_rotate_left(a.w - (i % a.w), a)
Z3_mk_repeat(i, a)    == LET r[k \in 1 .. i] == IF k = 1 THEN a ELSE Z3_mk_concat(a, r[k - 1])
                         IN  r[i]

\* A bit vector is shifted by another, at most to nothing but copies of a bit.
Z3_mk_bvshl(a, b)     == OnBits(a, b, IF b.v >= b.w THEN 0 ELSE a.v * 2^b.v)
Z3_mk_bvlshr(a, b)    == OnBits(a, b, IF b.v >= b.w THEN 0 ELSE a.v \div 2^b.v)
Z3_mk_bvashr(a, b)    == OnBits(a, b, IF b.v >= b.w THEN -SignBit(a)
                                      ELSE Signed(a) \div 2^b.v)

\* To integers and back, and whether a sum or a difference of such integers,
\* signed or not, is that of the bit vectors.
Z3_mk_int2bv(w, a)    == IF a.w = Integer THEN Vector(a.v, w) ELSE IllSorted
Z3_mk_bv2int(a, is_signed) == IF a.w > 0 THEN Number(IF is_signed THEN Signed(a) ELSE a.v) ELSE IllSorted

LOCAL Top(a, is_signed) == IF is_signed THEN 2^(a.w - 1) ELSE 2^a.w

Z3_mk_bvadd_no_overflow(a, b, is_signed) ==
    LET n(e) == Z3_mk_bv2int(e, is_signed).v
    IN  CompareBits(a, b, n(a) + n(b) < Top(a, is_signed))
Z3_mk_bvadd_no_underflow(a, b) ==
    CompareBits(a, b, Signed(a) + Signed(b) >= -Top(a, TRUE))
Z3_mk_bvsub_no_overflow(a, b)  ==
    CompareBits(a, b, Signed(a) - Signed(b) < Top(a, TRUE))
Z3_mk_bvsub_no_underflow(a, b, is_signed) ==
    LET n(e) == Z3_mk_bv2int(e, is_signed).v
    IN  CompareBits(a, b, n(a) - n(b) >= (IF is_signed THEN -Top(a, TRUE) ELSE 0))

-----------------------------------------------------------------------------
\* Arrays and numerals.
ArrayOf(domain, range, f) == [w |-> ArraySort, v |-> f, domain |-> domain, range |-> range]

Z3_mk_select(a, i)    == IF a.w = ArraySort /\ a.domain = i.w THEN Vector(a.v[i.v], a.range) ELSE IllSorted
Z3_mk_store(a, i, e)  == IF a.w = ArraySort /\ a.domain = i.w /\ a.range = e.w
                         THEN [a EXCEPT !.v[i.v] = e.v] ELSE IllSorted
Z3_mk_const_array(domain, e) ==
    IF e.w > 0 THEN ArrayOf(domain, e.w, [i \in 0 .. 2^domain - 1 |-> e.v]) ELSE IllSorted

Z3_mk_int(n, w) ==
    IF w = Integer THEN Number(n) ELSE IF w > 0 THEN Vector(n, w) ELSE IllSorted

\* bits[1] is the lowest.
Z3_mk_bv_numeral(bits) ==
    LET value[k \in 0 .. Len(bits)] ==
            IF k = 0 THEN 0 ELSE value[k - 1] + (IF bits[k] THEN 2^(k - 1) ELSE 0)
    IN  Vector(value[Len(bits)], Len(bits))
=============================================================================

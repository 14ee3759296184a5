------------------------------- MODULE Z3Expr -------------------------------
(***************************************************************************)
(* The operators of z3++.h on expressions: which function of the C API     *)
(* each overload calls.  Where that gives no expression the operator       *)
(* throws, or the next one does that checks for errors (context::          *)
(* check_error); here the result is of no sort, and so is all that is made *)
(* of it.                                                                  *)
(***************************************************************************)
EXTENDS Z3Api

bool_val(b)   == IF b THEN Z3_mk_true ELSE Z3_mk_false
num_val(n, w) == Z3_mk_int(n, w)
int_val(n)    == num_val(n, Integer)
bv_val(n, w)  == num_val(n, w)

is_bool(a)  == a.w = Boolean
is_arith(a) == a.w = Integer
is_bv(a)    == a.w > 0

\* Binary operators are overloaded for a C++ integer on either side, which
\* gets the sort of the other operand.
Sorted(a, b) == IF a.w = CppInt THEN num_val(a.v, b.w) ELSE a

\* A function of the API on both operands.
Call(f(_, _), a, b) == f(Sorted(a, b), Sorted(b, a))

\* One function for integers, another for bit vectors, none for the rest.
ByKind(number(_, _), vector(_, _), a, b) ==
    LET p == Sorted(a, b)
        q == Sorted(b, a)
    IN  IF is_bv(p) /\ is_bv(q) THEN vector(p, q)
        ELSE IF is_arith(p) /\ is_arith(q) THEN number(p, q)
        ELSE IllSorted

Implies(a, b)  == Z3_mk_implies(a, b)
Negation(a)    == Z3_mk_not(a)
And(a, b)      == Z3_mk_and(a, b)
Or(a, b)       == Z3_mk_or(a, b)
Ite(c, t, e)   == Z3_mk_ite(c, t, e)
Eq(a, b)       == Call(Z3_mk_eq, a, b)
Neq(a, b)      == Call(Z3_mk_distinct, a, b)

Add(a, b)      == ByKind(Z3_mk_add, Z3_mk_bvadd, a, b)
Sub(a, b)      == ByKind(Z3_mk_sub, Z3_mk_bvsub, a, b)
Mul(a, b)      == ByKind(Z3_mk_mul, Z3_mk_bvmul, a, b)
Neg(a)         == IF is_arith(a) THEN Z3_mk_unary_minus(a) ELSE Z3_mk_bvneg(a)
Mod(a, b)      == Call(Z3_mk_mod, a, b)
Rem(a, b)      == Call(Z3_mk_rem, a, b)

\* Division and order are those of signed bit vectors.
Div(a, b)      == ByKind(Z3_mk_div, Z3_mk_bvsdiv, a, b)
Le(a, b)       == ByKind(Z3_mk_le, Z3_mk_bvsle, a, b)
Lt(a, b)       == ByKind(Z3_mk_lt, Z3_mk_bvslt, a, b)
Ge(a, b)       == ByKind(Z3_mk_ge, Z3_mk_bvsge, a, b)
Gt(a, b)       == ByKind(Z3_mk_gt, Z3_mk_bvsgt, a, b)

BvAnd(a, b)    == Call(Z3_mk_bvand, a, b)
BvOr(a, b)     == Call(Z3_mk_bvor, a, b)
BvXor(a, b)    == Call(Z3_mk_bvxor, a, b)
BvNot(a)       == Z3_mk_bvnot(a)
Nand(a, b)     == Z3_mk_bvnand(a, b)
Nor(a, b)      == Z3_mk_bvnor(a, b)
Xnor(a, b)     == Z3_mk_bvxnor(a, b)

\* Those of unsigned bit vectors have names.
Ule(a, b)      == Call(Z3_mk_bvule, a, b)
Ult(a, b)      == Call(Z3_mk_bvult, a, b)
Uge(a, b)      == Call(Z3_mk_bvuge, a, b)
Ugt(a, b)      == Call(Z3_mk_bvugt, a, b)
Udiv(a, b)     == Call(Z3_mk_bvudiv, a, b)
Urem(a, b)     == Call(Z3_mk_bvurem, a, b)
Srem(a, b)     == Call(Z3_mk_bvsrem, a, b)
Smod(a, b)     == Call(Z3_mk_bvsmod, a, b)
Shl(a, b)      == Call(Z3_mk_bvshl, a, b)
Lshr(a, b)     == Call(Z3_mk_bvlshr, a, b)
Ashr(a, b)     == Call(Z3_mk_bvashr, a, b)

zext(a, i)          == Z3_mk_zero_ext(i, a)
sext(a, i)          == Z3_mk_sign_ext(i, a)
extract(hi, lo, a)  == Z3_mk_extract(hi, lo, a)
rotate_left(a, i)   == Z3_mk_rotate_left(i, a)
rotate_right(a, i)  == Z3_mk_rotate_right(i, a)
repeat(a, i)        == Z3_mk_repeat(i, a)
concat(a, b)        == Z3_mk_concat(a, b)

select(a, i)        == Z3_mk_select(a, IF i.w = CppInt THEN num_val(i.v, a.domain) ELSE i)
store(a, i, e)      == Z3_mk_store(a, IF i.w = CppInt THEN num_val(i.v, a.domain) ELSE i,
                                      IF e.w = CppInt THEN num_val(e.v, a.range) ELSE e)
const_array(d, e)   == Z3_mk_const_array(d, e)

\* There is no << for expressions.  What is shifted is the answer of operator
\* bool, whether there is an expression at all, and that is a C++ integer.
ShiftLeft(a, n) == [w |-> CppInt, v |-> 2^n]
=============================================================================

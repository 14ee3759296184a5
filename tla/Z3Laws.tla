------------------------------- MODULE Z3Laws -------------------------------
(***************************************************************************)
(* What the program takes for granted of expressions, and where they are   *)
(* not the C++ integers they are written like: emulator2.h is one text for *)
(* both machines.  TLC evaluates the assumptions.                          *)
(***************************************************************************)
EXTENDS Z3Expr

Vectors(w) == {bv_val(n, w) : n \in 0 .. 2^w - 1}
Pairs(w)   == Vectors(w) \X Vectors(w)

\* The answer of a comparison.
Says(e, b) == e = bool_val(b)

\* Sums, differences, products and equality are those of unsigned integers
\* of the same width.
ASSUME RingIsUnsigned ==
    \A w \in 1 .. 4 : \A p \in Pairs(w) :
        LET a == p[1] b == p[2]
        IN  /\ Add(a, b).v = (a.v + b.v) % 2^w
            /\ Sub(a, b).v = (a.v - b.v) % 2^w
            /\ Mul(a, b).v = (a.v * b.v) % 2^w
            /\ Neg(a) = Sub([w |-> CppInt, v |-> 0], a)
            /\ Says(Eq(a, b), a.v = b.v)
            /\ Neq(a, b) = Negation(Eq(a, b))

\* Order and division are not: the overloads are the signed ones, and agree
\* with the unsigned functions exactly when the highest bits do.
ASSUME OrderIsSigned ==
    \A w \in 1 .. 4 : \A p \in Pairs(w) :
        LET a == p[1] b == p[2]
        IN  /\ (Lt(a, b) = Ult(a, b)) <=> (SignBit(a) = SignBit(b))
            /\ Lt(a, b) = Gt(b, a) /\ Le(a, b) = Ge(b, a)
            /\ Ult(a, b) = Ugt(b, a) /\ Ule(a, b) = Uge(b, a)
            /\ Le(a, b) = Negation(Gt(a, b)) /\ Ule(a, b) = Negation(Ugt(a, b))
            /\ SignBit(a) = 0 /\ SignBit(b) = 0 /\ b.v # 0 => Div(a, b) = Udiv(a, b)

\* uge(val, 128), as setSZ asks, is the highest bit of a byte; >= is not.
ASSUME HighestBit ==
    LET int128 == [w |-> CppInt, v |-> 128]
    IN  \A a \in Vectors(8) : /\ Says(Uge(a, int128), SignBit(a) = 1)
                              /\ Says(Ge(a, int128), TRUE)

\* A quotient and its remainder give the dividend; the signed remainder has the
\* sign of the dividend, the modulus that of the divisor.
ASSUME DivisionWithRemainder ==
    \A w \in 2 .. 4 : \A p \in Pairs(w) :
        LET a == p[1] b == p[2]
        IN  b.v # 0 =>
            /\ Add(Mul(Udiv(a, b), b), Urem(a, b)) = a
            /\ Add(Mul(Div(a, b), b), Srem(a, b)) = a
            /\ Srem(a, b).v # 0 => SignBit(Srem(a, b)) = SignBit(a)
            /\ Smod(a, b).v # 0 => SignBit(Smod(a, b)) = SignBit(b)
            /\ Eq(Urem(Sub(a, Urem(a, b)), b), [w |-> CppInt, v |-> 0]) = bool_val(TRUE)
ASSUME IntegerDivision ==
    \A m \in -6 .. 6, n \in (-3 .. 3) \ {0} :
        LET a == int_val(m) b == int_val(n)
        IN  /\ Add(Mul(Div(a, b), b), Mod(a, b)) = a
            /\ Says(Le(int_val(0), Mod(a, b)), TRUE)
            /\ Rem(a, b).v \in {Mod(a, b).v, -Mod(a, b).v}

\* A word is its bytes, as lobyte, hibyte and the read of an address put it;
\* on bits, the Boolean operators are those of the digits.
ASSUME BytesOfWord ==
    \A w \in 2 .. 4, lo \in 1 .. 3 : lo < w =>
        \A p \in Pairs(w) :
            LET a == p[1] b == p[2]
                Part(f(_, _)) == concat(f(extract(w - 1, lo, a), extract(w - 1, lo, b)),
                                        f(extract(lo - 1, 0, a), extract(lo - 1, 0, b)))
            IN  /\ concat(extract(w - 1, lo, a), extract(lo - 1, 0, a)) = a
                /\ BvAnd(a, b) = Part(BvAnd) /\ BvOr(a, b) = Part(BvOr)
                /\ BvXor(a, b) = Part(BvXor)
                /\ Nand(a, b) = Part(Nand) /\ Nor(a, b) = Part(Nor) /\ Xnor(a, b) = Part(Xnor)
ASSUME BitsAreBooleans ==
    \A p \in Pairs(1) :
        LET a == p[1] b == p[2]
            one == bv_val(1, 1)
        IN  /\ Eq(BvAnd(a, b), one) = And(Eq(a, one), Eq(b, one))
            /\ Eq(BvOr(a, b), one) = Or(Eq(a, one), Eq(b, one))
            /\ Eq(BvOr(BvNot(a), b), one) = Implies(Eq(a, one), Eq(b, one))

\* Shifts by the width or more leave no bit; a shift is a product or a
\* quotient; a rotation is a shift each way and undone by its opposite.
ASSUME Shifts ==
    \A w \in 1 .. 4 : \A p \in Pairs(w) :
        LET a == p[1] b == p[2]
            back == bv_val(w - b.v, w)
        IN  /\ b.v >= w => /\ Shl(a, b).v = 0 /\ Lshr(a, b).v = 0
                           /\ Signed(Ashr(a, b)) = -SignBit(a)
            /\ b.v < w => /\ Shl(a, b) = Mul(a, bv_val(2^b.v, w))
                          /\ Lshr(a, b).v = a.v \div 2^b.v
                          /\ Signed(Ashr(a, b)) = Signed(a) \div 2^b.v
                          /\ rotate_left(a, b.v) = BvOr(Shl(a, b), Lshr(a, back))
            /\ rotate_right(rotate_left(a, b.v), b.v) = a

\* The flags as emulator2.h:221-245 computes them, of extended operands and by
\* exclusive or, are the solver's own predicates.  Of a sum, carry is overflow of
\* unsigned numbers and V overflow or underflow of signed ones; of a difference,
\* which SBC makes by adding the complement and a carry, C is no borrow, as in a
\* comparison, and V as of a sum.
ASSUME FlagsAreOverflow ==
    \A w \in 2 .. 4 : \A p \in Pairs(w) :
        LET a == p[1] b == p[2]
            Sum(x, c)   == Add(Add(zext(x, 1), zext(a, 1)), bv_val(c, w + 1))
            Low(x, c)   == extract(w - 1, 0, Sum(x, c))
            Carry(x, c) == Eq(extract(w, w, Sum(x, c)), bv_val(1, 1))
            V(x, c)     == LET differs == BvAnd(BvXor(Low(x, c), a), BvXor(Low(x, c), x))
                           IN  Eq(extract(w - 1, w - 1, differs), bv_val(1, 1))
        IN  /\ Carry(b, 0) = Negation(Z3_mk_bvadd_no_overflow(a, b, FALSE))
            /\ V(b, 0) = Negation(And(Z3_mk_bvadd_no_overflow(a, b, TRUE),
                                      Z3_mk_bvadd_no_underflow(a, b)))
            /\ Low(BvNot(b), 1) = Sub(a, b)
            /\ Z3_mk_iff(Carry(BvNot(b), 1), Uge(a, b)) = bool_val(TRUE)
            /\ Carry(BvNot(b), 1) = Z3_mk_bvsub_no_underflow(a, b, FALSE)
            /\ Z3_mk_xor(V(BvNot(b), 1), And(Z3_mk_bvsub_no_overflow(a, b),
                                             Z3_mk_bvsub_no_underflow(a, b, TRUE))) = bool_val(TRUE)

\* A vector is what is left of its integer, signed or not.
ASSUME IntegersOfVectors ==
    \A w \in 1 .. 4, signed \in BOOLEAN : \A p \in Pairs(w) :
        LET a == p[1] b == p[2]
            Whole(e) == Z3_mk_bv2int(e, signed)
        IN  /\ Z3_mk_int2bv(w, Whole(a)) = a
            /\ Z3_mk_int2bv(w, Add(Whole(a), Whole(b))) = Add(a, b)
            /\ Z3_mk_int2bv(w, Mul(Whole(a), Whole(b))) = Mul(a, b)
            /\ Lt(Whole(a), Whole(b)) = IF signed THEN Lt(a, b) ELSE Ult(a, b)

\* Extensions keep the value, signed or not.
ASSUME Extensions ==
    \A w \in 1 .. 4, i \in 0 .. 3 : \A a \in Vectors(w) :
        /\ zext(a, i).v = a.v /\ Signed(sext(a, i)) = Signed(a)
        /\ extract(w - 1, 0, zext(a, i)) = a
        /\ repeat(a, 2) = concat(a, a)

\* What is read is the last value that was stored under the index, in an array
\* of one value elsewhere.
ASSUME ReadOverWrite ==
    \A i, j \in Vectors(2) : \A c, e \in Vectors(2) :
        select(store(const_array(2, c), i, e), j) = IF i = j THEN e ELSE c

\* Operands of different sorts have no sum, no conjunction and no order; a
\* Boolean and a byte are not interchangeable.
ASSUME SortsDiffer ==
    \A f \in {Eq(bv_val(1, 8), bv_val(1, 16)), Add(bv_val(1, 8), bool_val(TRUE)),
              Ite(bv_val(1, 8), bv_val(1, 8), bv_val(0, 8)), Lt(bool_val(FALSE), bool_val(TRUE)),
              BvOr(int_val(1), bv_val(1, 8)), And(bool_val(TRUE), bv_val(1, 1))} :
        f = IllSorted

\* There is no shift by an integer: an address that is put together with <<
\* gets 256 for its high byte, whatever that is.
ASSUME NoShiftByInteger ==
    \A lo, hi \in {bv_val(n, 16) : n \in {0, 1, 127, 128, 255}} :
        BvOr(ShiftLeft(hi, 8), lo) = bv_val(256 + lo.v, 16)
=============================================================================

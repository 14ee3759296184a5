-------------------------- MODULE AbstractMachine ---------------------------
(***************************************************************************)
(* abstract_machine.h: the machine whose state is made of solver           *)
(* expressions, each under a valuation v of the variables that the         *)
(* constructor creates: a record with the registers, the flags and the     *)
(* operands, and Memory(v, address) for the array "memory".                *)
(*                                                                         *)
(* Expressions are those of Z3Expr.  Where an operator throws because of   *)
(* their sorts, thrown is set, and nothing happens to the machine any more.*)
(***************************************************************************)
EXTENDS Machine, Z3Expr

CONSTANT Memory(_, _)

SortOf(field) ==
    IF field \in Register THEN 8 ELSE IF field \in Flag THEN Boolean ELSE 17

abstract_machine(v) ==
    [a |-> num_val(v.a, 8), x |-> num_val(v.x, 8), y |-> num_val(v.y, 8),
     sp |-> num_val(v.sp, 8),
     S |-> bool_val(v.S), V |-> bool_val(v.V), I |-> bool_val(v.I),
     D |-> bool_val(v.D), C |-> bool_val(v.C), Z |-> bool_val(v.Z),
     valuation |-> v, memory |-> <<>>, exit |-> num_val(0, 17), thrown |-> FALSE]

\* What is left of m, if an assignment of expressions to its fields would make
\* n of it.  Each is E(new, same), an if-then-else on earlyExit, which throws
\* unless both have the same sort.
E(m, n) ==
    IF m.thrown THEN m
    ELSE IF \E f \in Register \cup Flag \cup {"exit"} : n[f].w # SortOf(f)
         THEN [m EXCEPT !.thrown = TRUE]
    ELSE IF m.exit.v = 0 THEN n ELSE m

assign(m, field, val) == E(m, [m EXCEPT ![field] = val])

\* A C++ literal.
int(n) == [w |-> CppInt, v |-> n]

setSZ(m, val) == E(m, [m EXCEPT !.S = Uge(val, int(128)), !.Z = Eq(val, int(0))])

read(m, address) ==
    IF address.w # 16 THEN IllSorted
    ELSE num_val(IF address.v \in DOMAIN m.memory THEN m.memory[address.v]
                 ELSE Memory(m.valuation, address.v), 8)

\* Wrong: the first store to an address stays.
write_under(m, address, val) ==
    IF m.thrown \/ m.exit.v # 0 THEN m
    ELSE [m EXCEPT !.memory = @ @@ address.v :> val.v]

write(m, address, val) ==
    IF m.thrown THEN m
    ELSE IF address.w # 16 \/ val.w # 8 THEN [m EXCEPT !.thrown = TRUE]
    ELSE IF m.exit.v # 0 THEN m
    ELSE [m EXCEPT !.memory =
            [w \in DOMAIN @ \cup {address.v} |-> IF w = address.v THEN val.v ELSE @[w]]]

rts(m)         == E(m, [m EXCEPT !.exit = num_val(1, 17)])
rti(m)         == E(m, [m EXCEPT !.exit = num_val(2, 17)])
jmp(m, target) == E(m, [m EXCEPT !.exit = BvOr(Z3_mk_zero_ext(1, target), int(Tag))])

\* The target is not tagged here.
branch(m, cond, target) ==
    E(m, [m EXCEPT !.exit = Z3_mk_ite(cond, Z3_mk_zero_ext(1, target), @)])

-----------------------------------------------------------------------------
\* The operands of an instruction.
absolute(m, number)  == num_val(m.valuation.absolute[number], 16)
zp(m, number)        == num_val(m.valuation.zp[number], 8)
immediate(m, number) == num_val(m.valuation.immediate[number], 8)
constant(m, number)  == num_val(number, 8)

\* The operators of emulator2.h on expressions.
a ++ b       == Add(a, b)
a -- b       == Sub(a, b)
a & b        == BvAnd(a, b)
a | b        == BvOr(a, b)
a ^^ b       == BvXor(a, b)
a \doteq b   == Eq(a, b)
not(a)       == Negation(a)
shift8(a)    == ShiftLeft(a, 8)
byteVar(a)   == a
wordVar(a)   == a
extend(a)    == Z3_mk_zero_ext(8, a)
shl(a)       == Z3_mk_bvshl(a, num_val(1, a.w))
shr(a)       == Z3_mk_bvlshr(a, num_val(1, a.w))
lobyte(a)    == extract(7, 0, a)
hibyte(a)    == extract(15, 8, a)
uge(a, b)    == Uge(a, b)
truthy       == bool_val(TRUE)
falsy        == bool_val(FALSE)

\* With two integers, the overload for 8-bit literals.
ite(cond, a, b) ==
    IF {a.w, b.w} = {CppInt} THEN Z3_mk_ite(cond, num_val(a.v, 8), num_val(b.v, 8))
    ELSE Z3_mk_ite(cond, a, b)

Emulator == INSTANCE Emulator1
=============================================================================

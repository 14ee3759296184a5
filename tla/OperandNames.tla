---------------------------- MODULE OperandNames ----------------------------
(***************************************************************************)
(* The names of the unknown operands in enumerator.cpp and emulator.h.     *)
(* Sequences that differ only in these names are equivalent to each other, *)
(* so one of them, the canonical one, stands for all: only it is given to  *)
(* the solver (is_canonical), and a sequence is not enumerated any further *)
(* when the canonical form of a part of it is known to be not optimal      *)
(* (canonicalize, in).                                                     *)
(***************************************************************************)
EXTENDS Opcodes, FiniteSets, FiniteSetsExt

CONSTANT max_length

ASSUME LengthAssumption == max_length \in Nat

AbsModes == {"Absolute", "AbsoluteX", "AbsoluteY", "Indirect"}
ZpModes  == {"ZeroPage", "ZeroPageX", "ZeroPageY", "IndirectX", "IndirectY"}

C0Values == {0, 4, 6}       \* C0, C0+1 and C0+C1
C1Values == {1, 5}          \* C1 and C1+1

-----------------------------------------------------------------------------
\* The operands that are used in some modes before position i.
Seen(ops, modes, i) == {ops[j].val : j \in {j \in 1 .. i - 1 : ops[j].mode \in modes}}

FirstUse(ops, modes, val) ==
    CHOOSE i \in DOMAIN ops :
        ops[i].mode \in modes /\ ops[i].val = val /\ val \notin Seen(ops, modes, i)

\* How many others are used before an operand is.
Index(ops, modes, val) == Cardinality(Seen(ops, modes, FirstUse(ops, modes, val)))

\* Wrong: C0+C1 is not seen as a use of C0.
c1_first_no_sum(ops) ==
    \E i \in DOMAIN ops :
        /\ ops[i].mode = "Immediate" /\ ops[i].val \in C1Values
        /\ Seen(ops, {"Immediate"}, i) \cap {0, 4} = {}

\* C1 is used before C0.
c1_first(ops) ==
    \E i \in DOMAIN ops :
        /\ ops[i].mode = "Immediate" /\ ops[i].val \in C1Values
        /\ Seen(ops, {"Immediate"}, i) \cap C0Values = {}

\* The n-th absolute address to be used becomes Absolute n, and so on.
canonicalize(ops) ==
    [i \in DOMAIN ops |->
        LET val == ops[i].val
        IN  [ops[i] EXCEPT !.val =
               CASE ops[i].mode \in AbsModes -> abs_start + Index(ops, AbsModes, val)
                 [] ops[i].mode \in ZpModes  -> zp_start + Index(ops, ZpModes, val)
                 [] val \in {0, 4} /\ c1_first(ops) -> val + 1
                 [] val \in {1, 5} /\ c1_first(ops) -> val - 1
                 [] OTHER -> val]]

\* No operand is used before those with smaller numbers.
is_canonical(ops) ==
    \A i \in DOMAIN ops :
        LET val == ops[i].val
        IN  CASE ops[i].mode \in AbsModes -> val <= abs_start + Cardinality(Seen(ops, AbsModes, i))
              [] ops[i].mode \in ZpModes  -> val <= zp_start + Cardinality(Seen(ops, ZpModes, i))
              [] ops[i].mode = "Immediate" ->
                   val \in C1Values => Seen(ops, {"Immediate"}, i) \cap C0Values # {}
              [] OTHER -> TRUE

\* Wrong: the last pair is left out.
in_not_last(ops, set) ==
    LET needle == canonicalize(ops)
    IN  \/ needle \in set
        \/ canonicalize(SubSeq(needle, 1, Min({2, Len(needle)}))) \in set

\* Wrong: two instructions make a pair, whatever is between them.
in_with_gaps(ops, set) ==
    \E i, j \in DOMAIN ops : i <= j /\ canonicalize(<<ops[i], ops[j]>>) \in set

\* The whole sequence, or two instructions in a row, are known to be not
\* optimal.  At the end of a short sequence a pair is a single instruction.
in(ops, set) ==
    LET needle == canonicalize(ops)
    IN  \/ needle \in set
        \/ \E i \in 1 .. max_length - 1 :
              canonicalize(SubSeq(needle, i, Min({i + 1, Len(needle)}))) \in set

append(ops, op) == IF Len(ops) < max_length THEN Append(ops, op) ELSE ops
=============================================================================

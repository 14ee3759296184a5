----------------------------- MODULE MCLockstep -----------------------------
(***************************************************************************)
(* Two of the seeds of initial_machines (enumerator2.cpp:73-93), and every *)
(* instruction of the table, each with its first operand and those with a  *)
(* constant operand with every constant.  The emulator also knows JMPI.    *)
(* Sequences of instructions on the stack and its pointer, with the        *)
(* pointer at either end of the page, get longer than two.                 *)
(***************************************************************************)
EXTENDS Lockstep

MCSeeds   == {<<65535, 65535>>, <<4660, 22136>>}
MCAny == Variants(instructions, 1)
           \cup Variants({r \in instructions : r.mode = "CONSTANT"}, 10)
           \cup {instruction("JMPI", "ABSOLUTE", 0)}

MCStack ==
    {instruction("LDX", "CONSTANT", k) : k \in {0, 9}}
        \cup {instruction(n, "NONE", 0) : n \in
                {"TXS", "TSX", "PHA", "PLA", "PHP", "PLP", "SEC", "CLC", "RORA", "INY", "TYA"}}

MCProgram(seq) ==
    IF Len(seq) < 2 THEN MCAny ELSE IF ToSet(seq) \subseteq MCStack THEN MCStack ELSE {}
=============================================================================

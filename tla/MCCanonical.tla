---------------------------- MODULE MCCanonical -----------------------------
(***************************************************************************)
(* Sequences of three instructions, with every kind of immediate operand,  *)
(* all absolute and two of the zero page addresses, some in two modes; one *)
(* canonical sequence of at most two instructions is known to be not       *)
(* optimal.  The names of opcodes are checked along with it.               *)
(***************************************************************************)
EXTENDS Canonical, OpcodeNames

MCTried ==
    {opcode("LDA", "Immediate", v) : v \in {0, 1, 2, 5, 6}}
        \cup {opcode("STA", "Absolute", v) : v \in {7, 8}}
        \cup {opcode("LDA", "AbsoluteY", v) : v \in {8, 9}}
        \cup {opcode("INC", "ZeroPage", 10), opcode("STA", "IndirectX", 11)}

MCNonOptimal ==
    {{}} \cup {{s} : s \in {t \in UNION {[1 .. n -> MCTried] : n \in {1, 2}} :
                               is_canonical(t)}}
=============================================================================

---------------------------- MODULE Instructions ----------------------------
(***************************************************************************)
(* instructions2.h: the instructions the second enumerator knows, with     *)
(* their addressing modes, costs (tenths of a cycle) and sizes.            *)
(*                                                                         *)
(* The table is a set here: its order decides only in which order a run    *)
(* writes its records.  Names and modes are strings named as in the code.  *)
(***************************************************************************)
EXTENDS Naturals, Sequences

\* The values that the addressing mode CONSTANT numbers, from 0 on.
addr_mode_constant_values == <<0, 1, 2, 4, 8, 16, 32, 64, 128, 255>>

addr_mode_variants(mode) ==
    CASE mode = "NONE"     -> 1
      [] mode = "CONSTANT" -> Len(addr_mode_constant_values)
      [] OTHER             -> 4

Branches  == {"BPL", "BMI", "BVC", "BVS", "BCC", "BCS", "BNE", "BEQ"}
Arith     == {"ADC", "AND", "CMP", "EOR", "LDA", "ORA", "SBC"}
Modify    == {"ASL", "DEC", "INC", "LSR", "ROL", "ROR"}
SetFlag   == {"CLC", "SEC", "CLI", "SEI", "CLV", "CLD", "SED"}
Registers == {"TAX", "TXA", "DEX", "INX", "TAY", "TYA", "DEY", "INY", "TXS", "TSX"}
Shift     == {"ASLA", "LSRA", "ROLA", "RORA"}

Bytes(name, mode) ==
    CASE mode = "NONE" -> 1
      [] mode \in {"ABSOLUTE", "ABSOLUTE_X", "ABSOLUTE_Y"} /\ name \notin Branches -> 3
      [] OTHER -> 2

\* A row for each of the names and each mode that cycles gives a cost for.
Rows(names, cycles) ==
    {[name |-> n, mode |-> m, cycles |-> cycles[m], bytes |-> Bytes(n, m)] :
        n \in names, m \in DOMAIN cycles}

\* Those that take an operand from the instruction, from memory or both.
Reads ==
    Rows(Arith \cup {"LDX", "LDY", "CPX", "CPY"},
         [m \in {"IMMEDIATE", "CONSTANT"} |-> 20])
    \cup Rows(Arith, [ZERO_PAGE |-> 30, ZERO_PAGE_X |-> 40, ABSOLUTE |-> 40,
                      ABSOLUTE_X |-> 41, ABSOLUTE_Y |-> 41,
                      X_INDIRECT |-> 60, INDIRECT_Y |-> 51])
    \cup Rows({"LDX"}, [ZERO_PAGE |-> 30, ZERO_PAGE_Y |-> 40,
                        ABSOLUTE |-> 40, ABSOLUTE_Y |-> 41])
    \cup Rows({"LDY"}, [ZERO_PAGE |-> 30, ZERO_PAGE_X |-> 40,
                        ABSOLUTE |-> 40, ABSOLUTE_X |-> 41])
    \cup Rows({"CPX", "CPY", "BIT"}, [ZERO_PAGE |-> 30, ABSOLUTE |-> 40])

Modifies ==
    Rows(Modify, [ZERO_PAGE |-> 50, ZERO_PAGE_X |-> 60,
                  ABSOLUTE |-> 60, ABSOLUTE_X |-> 70])

Stores ==
    Rows({"STA"}, [ZERO_PAGE |-> 30, ZERO_PAGE_X |-> 40, ABSOLUTE |-> 40,
                   ABSOLUTE_X |-> 50, ABSOLUTE_Y |-> 50,
                   X_INDIRECT |-> 60, INDIRECT_Y |-> 60])
    \cup Rows({"STX"}, [ZERO_PAGE |-> 30, ZERO_PAGE_Y |-> 40, ABSOLUTE |-> 40])
    \cup Rows({"STY"}, [ZERO_PAGE |-> 30, ZERO_PAGE_X |-> 40, ABSOLUTE |-> 40])

Implied ==
    Rows(SetFlag \cup Registers \cup Shift, [NONE |-> 20])
    \cup Rows({"PHA", "PHP"}, [NONE |-> 30])
    \cup Rows({"PLA", "PLP"}, [NONE |-> 40])

Jumps ==
    Rows(Branches, [ABSOLUTE |-> 25])
    \cup Rows({"JMP"}, [ABSOLUTE |-> 30])
    \cup Rows({"JSR"}, [ABSOLUTE |-> 60])
    \cup Rows({"RTI", "RTS"}, [NONE |-> 60])

instructions == Reads \cup Modifies \cup Stores \cup Implied \cup Jumps

\* What an instruction_seq holds: a row with the number of its operand.
instruction(name, mode, number) == [name |-> name, mode |-> mode, number |-> number]

\* The variants of the rows whose operand has a number below n.
Variants(rows, n) ==
    UNION {{instruction(r.name, r.mode, k) :
              k \in {j \in 0 .. n - 1 : j < addr_mode_variants(r.mode)}} : r \in rows}
=============================================================================

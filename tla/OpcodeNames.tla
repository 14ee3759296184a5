---------------------------- MODULE OpcodeNames ----------------------------
(***************************************************************************)
(* operations.h: the numbers of operations and addressing modes, and the   *)
(* text under which enumerator.cpp reports a sequence.  The enumerations   *)
(* and the tables of texts are written out independently in the code;      *)
(* TLC evaluates what the program takes for granted of them.               *)
(*                                                                         *)
(* A text is the sequence of its parts.                                    *)
(***************************************************************************)
EXTENDS Opcodes, FiniteSetsExt

\* The enumerators from 1 on; 0 is the operation of the empty place.
Operations ==
    <<"ADC", "AND", "ASL", "BIT", "CMP", "CPX", "CPY", "DEC", "EOR", "INC", "JMP", "LDA", "LDX",
      "LDY", "LSR", "ORA", "ROL", "ROR", "SBC", "STA", "STX", "STY", "ASL_A", "BPL", "BMI", "BVC",
      "BVS", "BCC", "BCS", "BNE", "BEQ", "CLC", "SEC", "CLI", "SEI", "CLV", "CLD", "SED", "LSR_A",
      "NOP", "TAX", "TXA", "DEX", "INX", "TAY", "TYA", "DEY", "INY", "ROL_A", "ROR_A", "RTI", "RTS",
      "TXS", "TSX", "PHA", "PLA", "PHP", "PLP">>

OpNames ==
    <<"adc", "and", "asl", "bit", "cmp", "cpx", "cpy", "dec", "eor", "inc", "jmp", "lda", "ldx",
      "ldy", "lsr", "ora", "rol", "ror", "sbc", "sta", "stx", "sty", "asl_a", "bpl", "bmi", "bvc",
      "bvs", "bcc", "bcs", "bne", "beq", "clc", "sec", "cli", "sei", "clv", "cld", "sed", "lsr_a",
      "nop", "tax", "txa", "dex", "inx", "tay", "tya", "dey", "iny", "rol_a", "ror_a", "rti", "rts",
      "txs", "tsx", "pha", "pla", "php", "plp">>

\* The numbers of the operands of each mode, the first operand first.
AddrMode ==
    [Immediate |-> <<0, 1, 2, 3, 4, 5, 6>>,
     Absolute  |-> <<23, 24, 25>>,  AbsoluteX |-> <<39, 40, 41>>,  AbsoluteY |-> <<55, 56, 57>>,
     ZeroPage  |-> <<74, 75, 76, 77>>, ZeroPageX |-> <<90, 91, 92, 93>>,
     ZeroPageY |-> <<106, 107, 108, 109>>,
     Indirect  |-> <<119, 120, 121>>,
     IndirectX |-> <<138, 139, 140, 141>>, IndirectY |-> <<154, 155, 156, 157>>,
     None      |-> <<174>>]

LOCAL Constant == <<"C0", "C1", "0", "1", "C0+1", "C1+1", "C0+C1">>
LOCAL Address  == <<"Absolute0", "Absolute1", "Absolute2">>
LOCAL ZeroPage == <<"Zp0", "Zp1", "Zp2", "Zp3">>
LOCAL Around(before, operands, after) ==
    [k \in DOMAIN operands |-> <<before, operands[k], after>>]

\* What is shown of each of them.
AddrModeNames ==
    [Immediate |-> Around("#", Constant, ""),
     Absolute  |-> Around("", Address, ""),
     AbsoluteX |-> Around("", Address, ", x"),
     AbsoluteY |-> Around("", Address, ", y"),
     ZeroPage  |-> Around("", ZeroPage, ""),
     ZeroPageX |-> Around("", ZeroPage, ", x"),
     ZeroPageY |-> Around("", ZeroPage, ", y"),
     Indirect  |-> Around("(", Address, ")"),
     IndirectX |-> Around("(", ZeroPage, ", x)"),
     IndirectY |-> Around("(", ZeroPage, "), y"),
     None      |-> Around("", <<"">>, "")]

\* The bytes of an opcode.
op(o)   == IF o.op = "" THEN 0 ELSE CHOOSE n \in DOMAIN Operations : Operations[n] = o.op
mode(o) == AddrMode[o.mode][o.val - Min(Vals(o.mode)) + 1]

print(o) == <<OpNames[op(o)]>> \o AddrModeNames[o.mode][o.val - Min(Vals(o.mode)) + 1]

\* A sequence is shown up to its first empty place.
print_sequence(ops) ==
    LET shown == {k \in 0 .. Len(ops) : \A i \in 1 .. k : ops[i] # zero}
    IN  [i \in 1 .. Max(shown) |-> print(ops[i])]

-----------------------------------------------------------------------------
\* The switches of emulator.h and the arithmetic of canonicalize take a mode
\* for its upper four bits and an operand for its lower four, whatever the
\* mode; so no two modes have the same bits, and an address has the same four
\* in all of them (emulator.h:66-88, 184-267).
ASSUME ModesHaveParts ==
    /\ \A m \in DOMAIN AddrMode :
          \E upper \in 0 .. 15 :
             {AddrMode[m][k] : k \in DOMAIN AddrMode[m]} = {16 * upper + v : v \in Vals(m)}
    /\ \A m, n \in DOMAIN AddrMode : m # n => AddrMode[m][1] \div 16 # AddrMode[n][1] \div 16

\* No opcode of the table is the empty place, which ends a sequence, and no
\* two have the same bytes (opcode.h:10-26, emulator.h:21-30).
ASSUME OpcodesApart ==
    /\ \A o \in opcodes : op(o) # 0 /\ op(zero) = 0 /\ mode(zero) = 0
    /\ Cardinality({<<op(o), mode(o)>> : o \in opcodes}) = Cardinality(opcodes)

\* Every opcode that a thread may report has its texts (where there is none,
\* AddrModeNames[] inserts one while other threads search the map), and whoever
\* reads a report can tell all opcodes apart, and sequences of different lengths
\* (enumerator.cpp:21-31).
ASSUME OpcodesHaveTexts ==
    /\ Len(OpNames) = Len(Operations)
    /\ \A m \in DOMAIN AddrMode : Len(AddrModeNames[m]) = Len(AddrMode[m])
    /\ Cardinality({print(o) : o \in opcodes}) = Cardinality(opcodes)
    /\ \A o \in opcodes : print_sequence(<<o, o, zero>>) = <<print(o), print(o)>>
=============================================================================

------------------------------ MODULE Opcodes -------------------------------
(***************************************************************************)
(* opcode.h and operations.h: the opcodes the first enumerator tries, and  *)
(* what each of them costs, in tenths of a cycle.  An AddrMode is a mode,  *)
(* its upper four bits, and val, the operand in its lower four: absolute   *)
(* addresses are numbered from 7 and those in the zero page from 10.       *)
(*                                                                         *)
(* The two tables are written out independently in the code, and here.     *)
(***************************************************************************)
EXTENDS Instructions, TLC

abs_start == 7
zp_start  == 10

Vals(mode) ==
    CASE mode = "Immediate" -> 0 .. 6       \* C0, C1, 0, 1, C0+1, C1+1, C0+C1
      [] mode \in {"Absolute", "AbsoluteX", "AbsoluteY", "Indirect"} ->
           abs_start .. abs_start + 2
      [] mode = "None" -> {14}
      [] OTHER -> zp_start .. zp_start + 3

opcode(op, mode, val) == [op |-> op, mode |-> mode, val |-> val]

\* The empty place in an instruction_seq.
zero == opcode("", "Immediate", 0)

Ops(names, mode) == {opcode(n, mode, v) : n \in names, v \in Vals(mode)}

-----------------------------------------------------------------------------
\* The table opcodes, by mode.
Loads    == Arith \ {"CMP"}
Accu     == {"ASL_A", "LSR_A", "ROL_A", "ROR_A"}
Stacked  == {"PHA", "PLA", "PHP", "PLP"}

ImmediateOpcodes ==
    Ops(Arith \cup {"CPX", "CPY", "LDX", "LDY"}, "Immediate")
        \ {opcode(n, "Immediate", 2) : n \in {"AND", "EOR"}}

ZeroPageOpcodes ==
    Ops(Arith \cup Modify \cup {"BIT", "CPX", "CPY", "LDX", "LDY", "STA", "STX", "STY"},
        "ZeroPage")

ZeroPageIndexedOpcodes ==
    Ops(Arith \cup Modify \cup {"LDY", "STA", "STY"}, "ZeroPageX")
        \cup Ops({"LDX", "STX"}, "ZeroPageY")

AbsoluteOpcodes ==
    Ops(Arith \cup Modify \cup {"BIT", "CPX", "CPY", "JMP", "LDX", "LDY", "STA", "STX", "STY"},
        "Absolute")
    \cup Ops(Arith \cup Modify \cup {"LDY", "STA"}, "AbsoluteX")
    \cup Ops(Loads \cup {"LDX", "STA"}, "AbsoluteY")

IndirectOpcodes ==
    Ops(Arith \cup {"STA"}, "IndirectX") \cup Ops(Arith \cup {"STA"}, "IndirectY")
        \cup Ops({"JMP"}, "Indirect")

OtherOpcodes ==
    Ops(Branches, "Absolute")
        \cup Ops(SetFlag \cup Registers \cup Accu \cup Stacked \cup {"RTI", "RTS"}, "None")

opcodes ==
    ImmediateOpcodes \cup ZeroPageOpcodes \cup ZeroPageIndexedOpcodes
        \cup AbsoluteOpcodes \cup IndirectOpcodes \cup OtherOpcodes

-----------------------------------------------------------------------------
\* The map operation_costs, in the same way.
Price(names, mode, cost) == [o \in Ops(names, mode) |-> cost]

ImmediateCosts == Price(Arith \cup {"CPX", "CPY", "LDX", "LDY"}, "Immediate", 20)

ZeroPageCosts ==
    Price(Arith \cup {"BIT", "CPX", "CPY", "LDX", "LDY", "STA", "STX", "STY"}, "ZeroPage", 30)
        @@ Price(Modify, "ZeroPage", 50)

ZeroPageIndexedCosts ==
    Price(Arith \cup {"LDY", "STA", "STY"}, "ZeroPageX", 40)
        @@ Price(Modify, "ZeroPageX", 60)
        @@ Price({"LDX", "STX"}, "ZeroPageY", 40)

\* Unlike in instructions2.h, storing to an indexed address costs what loading
\* does, and modifying it no more than without the index.
AbsoluteCosts ==
    Price(Arith \cup {"BIT", "CPX", "CPY", "LDX", "LDY", "STA", "STX", "STY"}, "Absolute", 40)
        @@ Price(Modify, "Absolute", 60) @@ Price({"JMP"}, "Absolute", 30)
        @@ Price(Arith \cup {"LDY", "STA"}, "AbsoluteX", 41) @@ Price(Modify, "AbsoluteX", 60)
        @@ Price(Loads \cup {"LDX", "STA"}, "AbsoluteY", 41)

IndirectCosts ==
    Price(Arith \cup {"STA"}, "IndirectX", 60) @@ Price(Arith \cup {"STA"}, "IndirectY", 51)

OtherCosts ==
    Price({"JMP"}, "Indirect", 50) @@ Price(Branches, "Absolute", 25)
        @@ Price(SetFlag \cup Registers \cup Accu, "None", 20)
        @@ Price({"PHA", "PHP"}, "None", 30) @@ Price({"PLA", "PLP"}, "None", 40)
        @@ Price({"RTI", "RTS"}, "None", 60)

operation_costs ==
    zero :> 0 @@ ImmediateCosts @@ ZeroPageCosts @@ ZeroPageIndexedCosts
        @@ AbsoluteCosts @@ IndirectCosts @@ OtherCosts
=============================================================================

------------------------------ MODULE Emulator ------------------------------
(***************************************************************************)
(* emulator2.h: the effect of one instruction on a machine.  Like the      *)
(* template, it is written once for every machine: what the code calls on  *)
(* m, and the operators on the values these calls give, are parameters.    *)
(* Assignments are parameters too, for they are under a machine's own      *)
(* guard; they give the machine after them.                                *)
(***************************************************************************)
EXTENDS Instructions, Machine

CONSTANTS
    absolute(_, _), zp(_, _), immediate(_, _), constant(_, _),
    read(_, _), write(_, _, _), assign(_, _, _), setSZ(_, _),
    rts(_), rti(_), jmp(_, _), branch(_, _, _),
    _ ++ _, _ -- _, _ & _, _ | _, _ ^^ _, _ \doteq _, not(_), shift8(_),
    extend(_), shl(_), shr(_), lobyte(_), hibyte(_), uge(_, _), ite(_, _, _),
    truthy, falsy,
    int(_),                     \* a literal
    byteVar(_), wordVar(_)      \* what immediateVar and absoluteVar take

\* The two bytes at lo and hi, as a pointer.
Pointer(m, lo, hi) == extend(read(m, lo)) | shift8(extend(read(m, hi)))

\* The pointer in the zero page at page, which wraps around at its end.
ZeroPagePointer(m, page) ==
    Pointer(m, extend(page & int(255)), extend((page ++ int(1)) & int(255)))

\* The pointer of X_INDIRECT is followed twice.
absoluteVar(m, ins) ==
    LET abs  == absolute(m, ins.number)
        page == zp(m, ins.number)
    IN  wordVar(
        CASE ins.mode = "ABSOLUTE"    -> abs
          [] ins.mode = "ABSOLUTE_X"  -> abs ++ extend(m.x)
          [] ins.mode = "ABSOLUTE_Y"  -> abs ++ extend(m.y)
          [] ins.mode = "X_INDIRECT"  ->
               LET p == wordVar(ZeroPagePointer(m, page ++ m.x))
               IN  Pointer(m, p, p ++ int(1))
          [] ins.mode = "INDIRECT_Y"  -> ZeroPagePointer(m, page) ++ extend(m.y)
          [] ins.mode = "ZERO_PAGE"   -> extend(page)
          [] ins.mode = "ZERO_PAGE_X" -> extend(page ++ m.x)
          [] ins.mode = "ZERO_PAGE_Y" -> extend(page ++ m.y)
          [] OTHER                    -> absolute(m, 0))

immediateVar(m, ins) ==
    byteVar(
    CASE ins.mode = "IMMEDIATE" -> immediate(m, ins.number)
      [] ins.mode = "CONSTANT"  -> constant(m, addr_mode_constant_values[ins.number + 1])
      [] OTHER                  -> read(m, absoluteVar(m, ins)))

-----------------------------------------------------------------------------
HasBit(val, bit) == (val & int(bit)) \doteq int(bit)
Carry(m)         == ite(m.C, constant(m, 1), constant(m, 0))
Pick(cond, bit)  == ite(cond, int(bit), int(0))

\* Assigns val to a register and sets the flags by it.
Load(m, register, val) == assign(setSZ(m, val), register, val)

Stack(m)     == extend(m.sp) ++ int(256)
Push(m, val) == LET n == write(m, Stack(m), val) IN assign(n, "sp", n.sp -- int(1))
Pulled(m)    == assign(m, "sp", m.sp ++ int(1))

\* Wrong: I and D change places.
PSwapped(m) ==
    Pick(m.S, 128) | Pick(m.V, 64) | Pick(m.I, 8) | Pick(m.D, 4) | Pick(m.Z, 2) | Pick(m.C, 1)

\* The flags as PHP pushes them.
P(m) ==
    Pick(m.S, 128) | Pick(m.V, 64) | Pick(m.D, 8) | Pick(m.I, 4) | Pick(m.Z, 2) | Pick(m.C, 1)

\* The assignments of PLP, each under the guard of the machine.
SetFlags(m, pull) ==
    LET set(n, f, bit) == assign(n, f, HasBit(pull, bit))
    IN  set(set(set(set(set(set(m, "S", 128), "V", 64), "D", 8), "I", 4), "Z", 2), "C", 1)

\* Wrong: shifting right copies the sign.
ShiftedSigned(m, name, val) ==
    [bit |-> 1, new |-> shr(val) | (val & int(128))]

\* What a shift or rotation makes of a value, and the bit that it shifts out.
Shifted(m, name, val) ==
    CASE name \in {"ASL", "ASLA"} -> [bit |-> 128, new |-> shl(val)]
      [] name \in {"ROL", "ROLA"} -> [bit |-> 128, new |-> shl(val) | Carry(m)]
      [] name \in {"LSR", "LSRA"} -> [bit |-> 1, new |-> shr(val)]
      [] name \in {"ROR", "RORA"} -> [bit |-> 1, new |-> shr(val) | Pick(m.C, 128)]

\* Wrong: the sum is kept in the width of its operands.
AddInByte(m, val) ==
    LET sum == val ++ m.a ++ Pick(m.C, 1)
        n   == assign(m, "V", HasBit((lobyte(sum) ^^ m.a) & (lobyte(sum) ^^ val), 128))
    IN  Load(assign(n, "C", hibyte(sum) \doteq int(1)), "a", lobyte(sum))

\* Wrong: the overflow is that of the sum before the carry is added.
AddOverflowOfTwo(m, val) ==
    LET two == extend(val) ++ extend(m.a)
        sum == two ++ extend(Pick(m.C, 1))
        n   == assign(m, "V", HasBit((lobyte(two) ^^ m.a) & (lobyte(two) ^^ val), 128))
    IN  Load(assign(n, "C", hibyte(sum) \doteq int(1)), "a", lobyte(sum))

\* ADC; SBC adds the complement.  Decimal mode is not looked at.
Add(m, val) ==
    LET sum == extend(val) ++ extend(m.a) ++ extend(Pick(m.C, 1))
        n   == assign(m, "V", HasBit((lobyte(sum) ^^ m.a) & (lobyte(sum) ^^ val), 128))
    IN  Load(assign(n, "C", hibyte(sum) \doteq int(1)), "a", lobyte(sum))

Compare(m, reg, val) ==
    assign(assign(assign(m, "C", uge(reg, val)), "S", uge(reg -- val, int(128))),
           "Z", reg \doteq val)

\* Stores val and sets the flags by it.
Update(m, adr, val) == write(setSZ(m, val), adr, val)

ShiftAccumulator(m, name) ==
    LET s == Shifted(m, name, m.a)
    IN  Load(assign(m, "C", HasBit(m.a, s.bit)), "a", s.new)

ShiftMemory(m, name, adr, val) ==
    LET s == Shifted(m, name, val)
    IN  Update(assign(m, "C", HasBit(val, s.bit)), adr, s.new)

TestBits(m, val) ==
    LET n == assign(m, "Z", (val & m.a) \doteq int(0))
    IN  assign(assign(n, "S", HasBit(val, 128)), "V", HasBit(val, 64))

\* PLA sets no flags.
Pull(m)      == LET n == Pulled(m) IN assign(n, "a", read(n, Stack(n)))
PullFlags(m) == LET n == Pulled(m) IN SetFlags(n, read(n, Stack(n)))

\* The pointer at adr, both of its bytes read from one page.
PagePointer(m, adr) ==
    LET jmpiBug == (adr & int(65280)) | ((adr ++ int(1)) & int(255))
    IN  Pointer(m, adr, jmpiBug)

JumpIndirect(m, adr) == jmp(m, PagePointer(m, adr))

Condition(m, name) ==
    CASE name = "BPL" -> not(m.S) [] name = "BMI" -> m.S
      [] name = "BVC" -> not(m.V) [] name = "BVS" -> m.V
      [] name = "BCC" -> not(m.C) [] name = "BCS" -> m.C
      [] name = "BNE" -> not(m.Z) [] name = "BEQ" -> m.Z

-----------------------------------------------------------------------------
\* The second switch: the instruction name, for an operand at the address adr
\* with the value val.
Execute(m, name, adr, val) ==
    CASE name = "AND" -> Load(m, "a", m.a & val)
      [] name = "ORA" -> Load(m, "a", m.a | val)
      [] name = "EOR" -> Load(m, "a", m.a ^^ val)
      [] name = "LDA" -> Load(m, "a", val)
      [] name = "LDX" -> Load(m, "x", val)
      [] name = "LDY" -> Load(m, "y", val)
      [] name = "TXA" -> Load(m, "a", m.x)
      [] name = "TAX" -> Load(m, "x", m.a)
      [] name = "TYA" -> Load(m, "a", m.y)
      [] name = "TAY" -> Load(m, "y", m.a)
      [] name = "INX" -> Load(m, "x", m.x ++ int(1))
      [] name = "INY" -> Load(m, "y", m.y ++ int(1))
      [] name = "DEX" -> Load(m, "x", m.x -- int(1))
      [] name = "DEY" -> Load(m, "y", m.y -- int(1))
      [] name = "CLC" -> assign(m, "C", falsy)
      [] name = "CLI" -> assign(m, "I", falsy)
      [] name = "CLV" -> assign(m, "V", falsy)
      [] name = "CLD" -> assign(m, "D", falsy)
      [] name = "SEC" -> assign(m, "C", truthy)
      [] name = "SEI" -> assign(m, "I", truthy)
      [] name = "SED" -> assign(m, "D", truthy)
      [] name = "TSX" -> assign(m, "x", m.sp)
      [] name = "TXS" -> assign(m, "sp", m.x)
      [] name = "INC" -> Update(m, adr, val ++ int(1))
      [] name = "DEC" -> Update(m, adr, val -- int(1))
      [] name = "BIT" -> TestBits(m, val)
      [] name \in {"ASLA", "ROLA", "LSRA", "RORA"} -> ShiftAccumulator(m, name)
      [] name \in {"ASL", "ROL", "LSR", "ROR"}     -> ShiftMemory(m, name, adr, val)
      [] name = "STA" -> write(m, adr, m.a)
      [] name = "STX" -> write(m, adr, m.x)
      [] name = "STY" -> write(m, adr, m.y)
      [] name = "PLA" -> Pull(m)
      [] name = "PHA" -> Push(m, m.a)
      [] name = "PHP" -> Push(m, P(m))
      [] name = "PLP" -> PullFlags(m)
      [] name = "ADC" -> Add(m, val)
      [] name = "SBC" -> Add(m, byteVar(val ^^ int(255)))
      [] name = "CMP" -> Compare(m, m.a, val)
      [] name = "CPX" -> Compare(m, m.x, val)
      [] name = "CPY" -> Compare(m, m.y, val)
      [] name = "JMP" -> jmp(m, adr)
      [] name = "JMPI" -> JumpIndirect(m, adr)
      [] name = "RTI" -> rti(m)
      [] name = "RTS" -> rts(m)
      [] name \in Branches -> branch(m, Condition(m, name), adr)
      [] name \in {"NONE", "NOP", "JSR", "BRK"} -> m

Run(m, ins) == Execute(m, ins.name, absoluteVar(m, ins), immediateVar(m, ins))
=============================================================================

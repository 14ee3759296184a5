----------------------------- MODULE Emulator1 ------------------------------
(***************************************************************************)
(* emulator.h:178-497, the emulator of the first enumerator, for a machine *)
(* as Emulator has it.  Only the operands differ, three absolute and four  *)
(* zero page addresses, and seven immediate ones; the switch over the      *)
(* operations is that of emulator2.h, with other names for a few.          *)
(***************************************************************************)
EXTENDS Emulator, Opcodes

\* Wrong: the address leaves the zero page.
IndexedPastPage(m, o, register) ==
    extend(zp(m, o.val - zp_start)) ++ extend(m[register])

Indexed(m, o, register) ==
    extend((zp(m, o.val - zp_start) ++ m[register]) & int(255))

\* The address that the mode of opcode o gives.
OpcodeAddress(m, o) ==
    LET abs  == absolute(m, o.val - abs_start)
        page == zp(m, o.val - zp_start)
    IN  wordVar(
        CASE o.mode = "Absolute"  -> abs
          [] o.mode = "AbsoluteX" -> abs ++ extend(m.x)
          [] o.mode = "AbsoluteY" -> abs ++ extend(m.y)
          [] o.mode = "ZeroPage"  -> extend(page)
          [] o.mode = "ZeroPageX" -> Indexed(m, o, "x")
          [] o.mode = "ZeroPageY" -> Indexed(m, o, "y")
          [] o.mode = "Indirect"  -> PagePointer(m, abs)
          [] o.mode = "IndirectX" ->
               LET p == wordVar(ZeroPagePointer(m, page ++ m.x))
               IN  Pointer(m, p, p ++ int(1))
          [] o.mode = "IndirectY" -> ZeroPagePointer(m, page) ++ extend(m.y)
          [] o.mode = "None"      -> absolute(m, 0))

\* C0, C1, 0, 1, C0+1, C1+1 and C0+C1, or what is at the address.
OpcodeValue(m, o) ==
    LET c(k) == immediate(m, k)
        one  == constant(m, 1)
    IN  byteVar(
        IF o.mode # "Immediate" THEN read(m, OpcodeAddress(m, o))
        ELSE CASE o.val \in {0, 1} -> c(o.val)
               [] o.val \in {2, 3} -> constant(m, o.val - 2)
               [] o.val \in {4, 5} -> c(o.val - 4) ++ one
               [] o.val = 6        -> c(0) ++ c(1))

NewName == [ASL_A |-> "ASLA", LSR_A |-> "LSRA", ROL_A |-> "ROLA", ROR_A |-> "RORA"]

RunOpcode(m, o) ==
    Execute(m, IF o.op \in DOMAIN NewName THEN NewName[o.op] ELSE o.op,
            OpcodeAddress(m, o), OpcodeValue(m, o))
=============================================================================

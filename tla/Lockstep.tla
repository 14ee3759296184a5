------------------------------ MODULE Lockstep ------------------------------
(***************************************************************************)
(* The same sequence of instructions on a random_machine, whose hash       *)
(* decides which sequences are compared, and on the abstract_machine, by   *)
(* which the solver compares them, under the valuation that gives every    *)
(* unknown its value in the random_machine.  Both run the instructions of  *)
(* emulator2.h (random_machine.h:79-82, abstract_machine.h:92-99), one     *)
(* with C++ integers and the other with expressions.                       *)
(***************************************************************************)
EXTENDS Integers, Instructions, Machine, SequencesExt

CONSTANTS
    Seeds,          \* the seeds of the random_machines, pairs of 16-bit halves
    Program(_),     \* the instructions that may follow a sequence
    MaxLength       \* how many instructions are run

ASSUME SeedsAssumption == Seeds \subseteq (0 .. Tag - 1) \X (0 .. Tag - 1)

\* An instruction_seq has seven places.
ASSUME LengthAssumption == MaxLength \in 0 .. 7

Concrete == INSTANCE RandomMachine
Symbolic == INSTANCE AbstractMachine WITH Memory <- Concrete!read
Old      == INSTANCE Opcodes        \* of the first enumerator

VARIABLES
    rnd,            \* the random_machine
    abs,            \* the abstract_machine
    ran,            \* the sequence so far
    before          \* before[i]: the random_machine before the i-th of them

vars == <<rnd, abs, ran, before>>

\* What the emulator can run: the rows of the table with each of their operands,
\* and JMPI, which has no row.
Known ==
    Variants(instructions, 10)
        \cup {instruction("JMPI", "ABSOLUTE", k) : k \in 0 .. 3}

Init ==
    /\ \E seed \in Seeds : rnd = Concrete!random_machine(seed)
    /\ abs = Symbolic!abstract_machine(rnd)
    /\ ran = <<>>
    /\ before = <<>>

Step(ins) ==
    /\ Len(ran) < MaxLength
    /\ rnd' = Concrete!Emulator!Run(rnd, ins)
    /\ abs' = Symbolic!Emulator!Run(abs, ins)
    /\ ran' = Append(ran, ins)
    /\ before' = Append(before, rnd)

Next == \E ins \in Program(ran) \cap Known : Step(ins)

Spec == Init /\ [][Next]_vars

-----------------------------------------------------------------------------
Byte == 0 .. 255

Indirect(ins) == ins.mode \in {"X_INDIRECT", "INDIRECT_Y"} \/ ins.name = "JMPI"

\* Every register is a byte, and the written pairs fit into the arrays of
\* NUM_ADDRESSES entries (random_machine.h:90-99).
TypeOK ==
    /\ \A r \in Register : rnd[r] \in Byte
    /\ \A f \in Flag : rnd[f] \in BOOLEAN
    /\ rnd.exit \in 0 .. 2 * Tag - 1
    /\ IsInjective([i \in DOMAIN rnd.written |-> rnd.written[i][1]])
    /\ \A i \in DOMAIN rnd.written : rnd.written[i] \in (0 .. Tag - 1) \X Byte
    /\ Len(rnd.written) <= 16

\* No instruction gives the solver's operators operands of different sorts, at
\* which they would throw: the emulator mixes 8-bit, 16-bit and C++ integers and
\* is only checked by the compiler for the machine where all of them convert
\* (emulator2.h:5-290, z3++.h:170-175).
WellSorted ==
    /\ ~abs.thrown
    /\ \A f \in Register \cup Flag \cup {"exit"} : abs[f].w = Symbolic!SortOf(f)

Written == {rnd.written[i][1] : i \in DOMAIN rnd.written}

\* The two machines have the same registers, flags and memory, and have left
\* the sequence or not, and to the same address.
SameMachine ==
    /\ \A f \in Register \cup Flag : rnd[f] = abs[f].v
    /\ Written = DOMAIN abs.memory
    /\ \A w \in Written : Concrete!read(rnd, w) = abs.memory[w]
    /\ Wrap(rnd.exit) = Wrap(abs.exit.v)
    /\ rnd.exit = 0 <=> abs.exit.v = 0

\* The abstract_machine tags the target of a jump but not that of a branch: to
\* branch to address 0 is not to leave (abstract_machine.h:209-213).
ToZero(m, ins) == ins.name \in Branches /\ m.absolute[ins.number] = 0

\* The sequence follows no pointer in memory and has no branch to address 0.
Direct == \A i \in DOMAIN ran : ~Indirect(ran[i]) /\ ~ToZero(before[i], ran[i])

\* Whatever has been run, the two machines are the same: the unsigned
\* arithmetic of bit vectors and that of promoted integers never differ in what
\* is kept.  Without this, sequences that the solver would find equal are never
\* compared (emulator2.h:5-290).  For pointers in memory see PointersAgree.
Agree == Direct => SameMachine

\* After an exit nothing changes any more, in both machines
\* (random_machine.h:101-105, abstract_machine.h:227-240).
FrozenAfterExit ==
    [][/\ rnd.exit # 0 => rnd' = rnd
       /\ abs.exit.v # 0 => abs' = abs]_vars

Signed(byte) == IF byte >= 128 THEN byte - 256 ELSE byte
Carry(m)     == IF m.C THEN 1 ELSE 0

\* Sums, differences and rotations are those of the integers: the carry and
\* the new byte together hold the whole result, and overflow is that of the
\* signed result (emulator2.h:142-181, 221-230).
ArithmeticIsRight ==
    [][rnd.exit = 0 =>
        LET ins   == Last(ran')
            value == Concrete!Emulator!immediateVar(rnd, ins)
            c     == Carry(rnd)
        IN  /\ ins.name = "ADC" =>
                 /\ 256 * Carry(rnd') + rnd'.a = rnd.a + value + c
                 /\ rnd'.V <=> Signed(rnd.a) + Signed(value) + c \notin -128 .. 127
            /\ ins.name = "SBC" =>
                 /\ 256 * Carry(rnd') + rnd'.a = 256 + rnd.a - value - (1 - c)
                 /\ rnd'.V <=> Signed(rnd.a) - Signed(value) - (1 - c) \notin -128 .. 127
            /\ ins.name = "ROLA" => 256 * Carry(rnd') + rnd'.a = 2 * rnd.a + c
            /\ ins.name = "RORA" => 2 * rnd'.a + Carry(rnd') = rnd.a + 256 * c
      ]_vars

\* What PHP or PHA pushed comes back by PLP or PLA, wherever the stack
\* pointer is and whatever instructions on registers and flags have run in
\* between (emulator2.h:191-220).
Pops == [PHA |-> "PLA", PHP |-> "PLP"]

PullGivesBack ==
    \A i \in 1 .. Len(ran) - 1 :
        /\ ran[i].name \in DOMAIN Pops
        /\ Last(ran).name = Pops[ran[i].name]
        /\ \A j \in i + 1 .. Len(ran) - 1 :
              ran[j].name \in (SetFlag \cup Shift \cup Registers) \ {"TXS"}
        =>
        /\ rnd.sp = before[i].sp
        /\ ran[i].name = "PHP" => \A f \in Flag : rnd[f] = before[i][f]
        /\ ran[i].name = "PHA" => rnd.a = before[i].a

\* An instruction's name in the first enumerator.
OldName(name) ==
    CASE name = "JMPI"   -> "JMP"
      [] name \in Shift  -> [ASLA |-> "ASL_A", LSRA |-> "LSR_A",
                             ROLA |-> "ROL_A", RORA |-> "ROR_A"][name]
      [] OTHER           -> name

\* The opcodes of the first enumerator that are the instruction ins: it has
\* two immediate operands, and the constants 0 and 1.
Opcode(ins) ==
    LET k            == ins.number
        is(mode, vs) == {Old!opcode(OldName(ins.name), mode, v) : v \in vs}
    IN  IF ins.name = "JMPI" THEN is("Indirect", {7 + k})
        ELSE CASE
             ins.mode = "ABSOLUTE"    -> is("Absolute", {7 + k})
          [] ins.mode = "ABSOLUTE_X"  -> is("AbsoluteX", {7 + k})
          [] ins.mode = "ABSOLUTE_Y"  -> is("AbsoluteY", {7 + k})
          [] ins.mode = "ZERO_PAGE"   -> is("ZeroPage", {10 + k})
          [] ins.mode = "ZERO_PAGE_X" -> is("ZeroPageX", {10 + k})
          [] ins.mode = "ZERO_PAGE_Y" -> is("ZeroPageY", {10 + k})
          [] ins.mode = "X_INDIRECT"  -> is("IndirectX", {10 + k})
          [] ins.mode = "INDIRECT_Y"  -> is("IndirectY", {10 + k})
          [] ins.mode = "NONE"        -> is("None", {14})
          [] ins.mode = "IMMEDIATE"   -> is("Immediate", {k} \cap {0, 1})
          [] ins.mode = "CONSTANT"    ->
               is("Immediate", {2 + c : c \in {0, 1} \cap {addr_mode_constant_values[k + 1]}})

\* Every opcode of the first enumerator does what its counterpart of the second
\* does, on both machines and in every state that they get into: the operands
\* of the two are taken apart by different switches (emulator.h:181-276,
\* emulator2.h:7-56).
GenerationsAgree ==
    [][\A o \in Opcode(Last(ran')) \cap Old!opcodes :
          /\ Concrete!Emulator!RunOpcode(rnd, o) = rnd'
          /\ Symbolic!Emulator!RunOpcode(abs, o) = abs']_vars

-----------------------------------------------------------------------------
\* Agree for a single instruction that follows a pointer: "the instruction
\* reads the pointer at (an 8 bit address + x)" and "(the pointer at an 8 bit
\* address) + y" (instructions2.h:80-83).
PointersAgree == Len(ran) = 1 => SameMachine
=============================================================================

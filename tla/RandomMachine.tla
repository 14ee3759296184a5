--------------------------- MODULE RandomMachine ----------------------------
(***************************************************************************)
(* random_machine.h: a machine whose registers, operands and memory are    *)
(* hashes of a seed, and the hash of its state that fingerprints are made  *)
(* of.  A 32-bit word is a pair of halves, because of TLC's integers.      *)
(***************************************************************************)
EXTENDS Machine, Sequences, SequencesExt, Bits

Zero  == <<0, 0>>
Ones  == <<65535, 65535>>
Basis == <<33052, 40389>>   \* 2166136261
Prime == 403                \* 16777619 is 2^24 + Prime

Times16777619(h) ==
    <<Wrap(h[1] * Prime + h[2] * 256 + (h[2] * Prime) \div 65536), Wrap(h[2] * Prime)>>

\* One step of the hash; value is below 2^31.
Hashed(h, value) ==
    Times16777619(<<BitXor(h[1], value \div 65536), BitXor(h[2], Wrap(value))>>)

Init32(seed) ==
    Hashed(Hashed(Hashed(Hashed(Basis, Low(seed[2])), seed[2] \div 256),
                  Low(seed[1])), seed[1] \div 256)

Fnv(seed, init, value) ==
    IF seed \in {Zero, Ones} THEN seed
    ELSE Hashed(Hashed(init, Low(value)), value \div 256)

AboveHalf(word) == word[1] > 32768 \/ (word[1] = 32768 /\ word[2] > 0)

random_machine(seed) ==
    LET fnv(n)  == Fnv(seed, Init32(seed), n)
        byte(n) == Low(fnv(n)[2])
        bit(n)  == AboveHalf(fnv(n))
    IN  [seed |-> seed, init |-> Init32(seed),
         absolute  |-> [k \in 0 .. 3 |-> fnv(125 + k)[2]],
         zp        |-> [k \in 0 .. 3 |-> byte(150 + k)],
         immediate |-> [k \in 0 .. 3 |-> byte(175 + k)],
         a |-> byte(113), x |-> byte(114), y |-> byte(115), sp |-> byte(116),
         S |-> bit(117), V |-> bit(118), I |-> bit(119),
         D |-> bit(120), C |-> bit(121), Z |-> bit(122),
         written |-> <<>>, exit |-> 0]

-----------------------------------------------------------------------------
\* Wrong: the guard E is forgotten.
EAlways(m, n) == n

\* What E leaves of m, if an assignment would make n of it.
E(m, n) == IF m.exit # 0 THEN m ELSE n

\* a(val), ccC(val) and the others; the parameter is a uint8_t or a bool.
assign(m, field, val) ==
    E(m, [m EXCEPT ![field] = IF field \in Flag THEN val ELSE Low(val)])

setSZ(m, val) == E(m, [m EXCEPT !.S = Low(val) >= 128, !.Z = Low(val) = 0])

\* The index of the pair written to address, 0 if there is none.
Find(m, address) ==
    IF \A i \in DOMAIN m.written : m.written[i][1] # address THEN 0
    ELSE CHOOSE i \in DOMAIN m.written :
            /\ m.written[i][1] = address
            /\ \A j \in 1 .. i - 1 : m.written[j][1] # address

read(m, address) ==
    LET i == Find(m, Wrap(address))
    IN  IF i # 0 THEN m.written[i][2] ELSE Low(Fnv(m.seed, m.init, Wrap(address))[2])

\* Wrong: every write is remembered, and the first one is found.
write_appending(m, address, val) ==
    E(m, [m EXCEPT !.written = Append(@, <<Wrap(address), Low(val)>>)])

\* Wrong: a write after the exit is remembered.
write_after_exit(m, address, val) ==
    LET i == Find(m, Wrap(address))
    IN  [m EXCEPT !.written = IF i # 0 THEN [@ EXCEPT ![i][2] = Low(val)]
                              ELSE Append(@, <<Wrap(address), Low(val)>>)]

write(m, address, val) ==
    LET i == Find(m, Wrap(address))
    IN  E(m, [m EXCEPT !.written = IF i # 0 THEN [@ EXCEPT ![i][2] = Low(val)]
                                   ELSE Append(@, <<Wrap(address), Low(val)>>)])

rts(m)                  == E(m, [m EXCEPT !.exit = 1])
rti(m)                  == E(m, [m EXCEPT !.exit = 2])
jmp(m, target)          == E(m, [m EXCEPT !.exit = Tag + Wrap(target)])
branch(m, cond, target) == IF cond THEN jmp(m, target) ELSE m

-----------------------------------------------------------------------------
\* The operands of an instruction.
absolute(m, number)  == m.absolute[number]
zp(m, number)        == m.zp[number]
immediate(m, number) == m.immediate[number]
constant(m, number)  == number

\* The operators of emulator2.h on this machine's types: C++ promotes bytes and
\* words to int, and what a variable or a parameter takes is truncated.
n ++ k       == n + k
n -- k       == n - k
n & k        == BitAnd(n, k)
n | k        == BitOr(n, k)
n ^^ k       == BitXor(n, k)
n \doteq k   == n = k
not(cond)    == ~cond
int(n)       == n
shift8(n)    == 256 * n
byteVar(n)   == Low(n)
wordVar(n)   == Wrap(n)
extend(n)    == Low(n)
shl(n)       == Wrap(2 * Wrap(n))
shr(n)       == Wrap(n) \div 2
lobyte(n)    == Low(n)
hibyte(n)    == Wrap(n) \div 256
uge(n, k)    == Low(n) >= Low(k)
ite(cond, n, k) == IF cond THEN Wrap(n) ELSE Wrap(k)
truthy       == TRUE
falsy        == FALSE

Emulator == INSTANCE Emulator1

-----------------------------------------------------------------------------
Bit(b) == IF b THEN 1 ELSE 0

\* The written pairs that are hashed, in the order of the first write to each
\* address: those whose byte is not the 32-bit hash of the address.
Changed(m) ==
    FlattenSeq(SelectSeq(m.written,
                 LAMBDA w : <<0, w[2]>> # Fnv(m.seed, m.init, w[1])))

\* Wrong: how the sequence was left is forgotten.
StateNoExit(m) ==
    <<m.a, m.x, m.y, m.sp, Bit(m.S), Bit(m.V), Bit(m.I), Bit(m.D), Bit(m.C), Bit(m.Z)>>
        \o Changed(m)

State(m) ==
    <<m.a, m.x, m.y, m.sp, Bit(m.S), Bit(m.V), Bit(m.I), Bit(m.D), Bit(m.C), Bit(m.Z)>>
        \o Changed(m) \o <<m.exit>>

hash(m) == FoldLeft(Hashed, Basis, State(m))
=============================================================================

-------------------------------- MODULE Fnv ---------------------------------
(***************************************************************************)
(* fnv.h: a hash of 64 bits, in four digits of 16 bits, the lowest first.  *)
(* A word of 32 bits is a pair of halves, the higher first, as in          *)
(* RandomMachine.                                                          *)
(***************************************************************************)
EXTENDS Naturals, Sequences, SequencesExt, Bits

Basis64 == <<8997, 33826, 40164, 52210>>        \* 14695981039346656037

LOCAL XorDigits(a, b) == [i \in DOMAIN a |-> BitXor(a[i], b[i])]

\* 1099511628211 is 2^40 + 435.
Times1099511628211(s) ==
    LET p1 == s[1] * 435
        p2 == s[2] * 435 + p1 \div 65536
        p3 == s[3] * 435 + ((s[1] * 256) % 65536) + p2 \div 65536
        p4 == s[4] * 435 + s[1] \div 256 + s[2] * 256 + p3 \div 65536
    IN  <<p1 % 65536, p2 % 65536, p3 % 65536, p4 % 65536>>

add8(state, value)  == Times1099511628211([state EXCEPT ![1] = BitXor(@, value)])
add16(state, value) == add8(add8(state, value % 256), value \div 256)
add32(state, value) == add16(add16(state, value[2]), value[1])
add64(state, value) == FoldLeft(add16, state, value)

fnv_hash(seed) == add32(Basis64, seed)

hash64(state) == state
hash32(state) == XorDigits(<<state[2], state[1]>>, <<state[4], state[3]>>)
hash16(state) == BitXor(hash32(state)[1], hash32(state)[2])
hash8(state)  == BitXor(hash16(state) % 256, hash16(state) \div 256)

\* Values of the hash that are published with it: of no bytes, of "a" and of
\* "foobar".
ASSUME KnownHashes ==
    LET Hash(bytes) == FoldLeft(add8, Basis64, bytes)
    IN  /\ Hash(<<97>>) = <<60556, 34305, 56396, 44899>>
        /\ Hash(<<102, 111, 111, 98, 97, 114>>) = <<26600, 63289, 16753, 34196>>
=============================================================================

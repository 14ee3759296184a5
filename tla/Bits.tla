-------------------------------- MODULE Bits --------------------------------
(***************************************************************************)
(* The bitwise operators of C++ on numbers below 2^24: no machine and no   *)
(* hash has a wider word, the longest is an address with its tag.  They    *)
(* are sums over the digits rather than recursive, so that what they do is *)
(* known to the provers too.                                               *)
(***************************************************************************)
EXTENDS Integers

\* The digit of n that has the weight w is a 1.
HasDigit(n, w) == (n \div w) % 2 = 1

Weight == {1, 2, 4, 8, 16, 32, 64, 128}

\* The number below 256 that has the digits of d, a function of their weights.
ByteOf(d) == d[1] + d[2] + d[4] + d[8] + d[16] + d[32] + d[64] + d[128]

AndByte(n, k) ==
    ByteOf([w \in Weight |-> IF HasDigit(n, w) /\ HasDigit(k, w) THEN w ELSE 0])

OrByte(n, k) ==
    ByteOf([w \in Weight |-> IF HasDigit(n, w) \/ HasDigit(k, w) THEN w ELSE 0])

XorByte(n, k) ==
    ByteOf([w \in Weight |-> IF HasDigit(n, w) # HasDigit(k, w) THEN w ELSE 0])

\* The bytes of a result are made of those of the operands.
Bytes3(low, middle, high) == low + 256 * middle + 65536 * high

BitAnd(n, k) ==
    Bytes3(AndByte(n, k), AndByte(n \div 256, k \div 256), AndByte(n \div 65536, k \div 65536))

BitOr(n, k) ==
    Bytes3(OrByte(n, k), OrByte(n \div 256, k \div 256), OrByte(n \div 65536, k \div 65536))

BitXor(n, k) ==
    Bytes3(XorByte(n, k), XorByte(n \div 256, k \div 256), XorByte(n \div 65536, k \div 65536))
=============================================================================

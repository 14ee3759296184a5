--------------------------- MODULE LockstepProofs ---------------------------
EXTENDS Lockstep, TLAPS

-----------------------------------------------------------------------------
(* Digits and bytes.                                                       *)

LEMMA Powers ==
  /\ 2^0 = 1 /\ 2^1 = 2 /\ 2^7 = 128 /\ 2^8 = 256 /\ 2^16 = 65536 /\ 2^17 = 131072
OBVIOUS

LEMMA SortNames ==
  /\ Symbolic!Boolean = 0 /\ Symbolic!CppInt = -1 /\ Symbolic!NoSort = -2
  /\ Symbolic!Integer = -3 /\ Symbolic!ArraySort = -4
BY DEF Symbolic!Boolean, Symbolic!CppInt, Symbolic!NoSort, Symbolic!Integer, Symbolic!ArraySort

\* The lower byte of a number has its lower eight digits.
LEMMA ByteDigits ==
  ASSUME NEW n \in Int
  PROVE  /\ Symbolic!HasDigit(n % 256, 1) = Symbolic!HasDigit(n, 1)
         /\ Symbolic!HasDigit(n % 256, 2) = Symbolic!HasDigit(n, 2)
         /\ Symbolic!HasDigit(n % 256, 4) = Symbolic!HasDigit(n, 4)
         /\ Symbolic!HasDigit(n % 256, 8) = Symbolic!HasDigit(n, 8)
         /\ Symbolic!HasDigit(n % 256, 16) = Symbolic!HasDigit(n, 16)
         /\ Symbolic!HasDigit(n % 256, 32) = Symbolic!HasDigit(n, 32)
         /\ Symbolic!HasDigit(n % 256, 64) = Symbolic!HasDigit(n, 64)
         /\ Symbolic!HasDigit(n % 256, 128) = Symbolic!HasDigit(n, 128)
<1>1. Symbolic!HasDigit(n % 256, 1) = Symbolic!HasDigit(n, 1)
  BY DEF Symbolic!HasDigit
<1>2. Symbolic!HasDigit(n % 256, 2) = Symbolic!HasDigit(n, 2)
  BY DEF Symbolic!HasDigit
<1>3. Symbolic!HasDigit(n % 256, 4) = Symbolic!HasDigit(n, 4)
  BY DEF Symbolic!HasDigit
<1>4. Symbolic!HasDigit(n % 256, 8) = Symbolic!HasDigit(n, 8)
  BY DEF Symbolic!HasDigit
<1>5. Symbolic!HasDigit(n % 256, 16) = Symbolic!HasDigit(n, 16)
  BY DEF Symbolic!HasDigit
<1>6. Symbolic!HasDigit(n % 256, 32) = Symbolic!HasDigit(n, 32)
  BY DEF Symbolic!HasDigit
<1>7. Symbolic!HasDigit(n % 256, 64) = Symbolic!HasDigit(n, 64)
  BY DEF Symbolic!HasDigit
<1>8. Symbolic!HasDigit(n % 256, 128) = Symbolic!HasDigit(n, 128)
  BY DEF Symbolic!HasDigit
<1> QED BY <1>1, <1>2, <1>3, <1>4, <1>5, <1>6, <1>7, <1>8

\* A byte of the result is the sum of the weights of its digits.
LEMMA AndSum ==
  ASSUME NEW n, NEW k
  PROVE  Symbolic!AndByte(n, k)
           = (IF Symbolic!HasDigit(n, 1) /\ Symbolic!HasDigit(k, 1) THEN 1 ELSE 0)
             + (IF Symbolic!HasDigit(n, 2) /\ Symbolic!HasDigit(k, 2) THEN 2 ELSE 0)
             + (IF Symbolic!HasDigit(n, 4) /\ Symbolic!HasDigit(k, 4) THEN 4 ELSE 0)
             + (IF Symbolic!HasDigit(n, 8) /\ Symbolic!HasDigit(k, 8) THEN 8 ELSE 0)
             + (IF Symbolic!HasDigit(n, 16) /\ Symbolic!HasDigit(k, 16) THEN 16 ELSE 0)
             + (IF Symbolic!HasDigit(n, 32) /\ Symbolic!HasDigit(k, 32) THEN 32 ELSE 0)
             + (IF Symbolic!HasDigit(n, 64) /\ Symbolic!HasDigit(k, 64) THEN 64 ELSE 0)
             + (IF Symbolic!HasDigit(n, 128) /\ Symbolic!HasDigit(k, 128) THEN 128 ELSE 0)
BY DEF Symbolic!AndByte, Symbolic!ByteOf, Symbolic!Weight

LEMMA OrSum ==
  ASSUME NEW n, NEW k
  PROVE  Symbolic!OrByte(n, k)
           = (IF Symbolic!HasDigit(n, 1) \/ Symbolic!HasDigit(k, 1) THEN 1 ELSE 0)
             + (IF Symbolic!HasDigit(n, 2) \/ Symbolic!HasDigit(k, 2) THEN 2 ELSE 0)
             + (IF Symbolic!HasDigit(n, 4) \/ Symbolic!HasDigit(k, 4) THEN 4 ELSE 0)
             + (IF Symbolic!HasDigit(n, 8) \/ Symbolic!HasDigit(k, 8) THEN 8 ELSE 0)
             + (IF Symbolic!HasDigit(n, 16) \/ Symbolic!HasDigit(k, 16) THEN 16 ELSE 0)
             + (IF Symbolic!HasDigit(n, 32) \/ Symbolic!HasDigit(k, 32) THEN 32 ELSE 0)
             + (IF Symbolic!HasDigit(n, 64) \/ Symbolic!HasDigit(k, 64) THEN 64 ELSE 0)
             + (IF Symbolic!HasDigit(n, 128) \/ Symbolic!HasDigit(k, 128) THEN 128 ELSE 0)
BY DEF Symbolic!OrByte, Symbolic!ByteOf, Symbolic!Weight

LEMMA XorSum ==
  ASSUME NEW n, NEW k
  PROVE  Symbolic!XorByte(n, k)
           = (IF Symbolic!HasDigit(n, 1) # Symbolic!HasDigit(k, 1) THEN 1 ELSE 0)
             + (IF Symbolic!HasDigit(n, 2) # Symbolic!HasDigit(k, 2) THEN 2 ELSE 0)
             + (IF Symbolic!HasDigit(n, 4) # Symbolic!HasDigit(k, 4) THEN 4 ELSE 0)
             + (IF Symbolic!HasDigit(n, 8) # Symbolic!HasDigit(k, 8) THEN 8 ELSE 0)
             + (IF Symbolic!HasDigit(n, 16) # Symbolic!HasDigit(k, 16) THEN 16 ELSE 0)
             + (IF Symbolic!HasDigit(n, 32) # Symbolic!HasDigit(k, 32) THEN 32 ELSE 0)
             + (IF Symbolic!HasDigit(n, 64) # Symbolic!HasDigit(k, 64) THEN 64 ELSE 0)
             + (IF Symbolic!HasDigit(n, 128) # Symbolic!HasDigit(k, 128) THEN 128 ELSE 0)
BY DEF Symbolic!XorByte, Symbolic!ByteOf, Symbolic!Weight


\* Both machines compute with the same operators.
LEMMA SameOperators ==
  ASSUME NEW n, NEW k
  PROVE  /\ Concrete!BitAnd(n, k) = Symbolic!BitAnd(n, k)
         /\ Concrete!BitOr(n, k) = Symbolic!BitOr(n, k)
         /\ Concrete!BitXor(n, k) = Symbolic!BitXor(n, k)
<1>1. \A p, x : Concrete!HasDigit(p, x) = Symbolic!HasDigit(p, x)
  BY Zenon DEF Concrete!HasDigit, Symbolic!HasDigit
<1>2. \A p, q : Concrete!AndByte(p, q) = Symbolic!AndByte(p, q)
  BY Zenon, <1>1 DEF Concrete!AndByte, Symbolic!AndByte, Concrete!HasDigit, Symbolic!HasDigit,
              Concrete!ByteOf, Symbolic!ByteOf, Concrete!Weight, Symbolic!Weight
<1>3. Concrete!BitAnd(n, k) = Symbolic!BitAnd(n, k)
  BY <1>2 DEF Concrete!BitAnd, Symbolic!BitAnd, Concrete!Bytes3, Symbolic!Bytes3
<1>4. \A p, q : Concrete!OrByte(p, q) = Symbolic!OrByte(p, q)
  BY Zenon, <1>1 DEF Concrete!OrByte, Symbolic!OrByte, Concrete!HasDigit, Symbolic!HasDigit,
              Concrete!ByteOf, Symbolic!ByteOf, Concrete!Weight, Symbolic!Weight
<1>5. Concrete!BitOr(n, k) = Symbolic!BitOr(n, k)
  BY <1>4 DEF Concrete!BitOr, Symbolic!BitOr, Concrete!Bytes3, Symbolic!Bytes3
<1>6. \A p, q : Concrete!XorByte(p, q) = Symbolic!XorByte(p, q)
  BY Zenon, <1>1 DEF Concrete!XorByte, Symbolic!XorByte, Concrete!HasDigit, Symbolic!HasDigit,
              Concrete!ByteOf, Symbolic!ByteOf, Concrete!Weight, Symbolic!Weight
<1>7. Concrete!BitXor(n, k) = Symbolic!BitXor(n, k)
  BY <1>6 DEF Concrete!BitXor, Symbolic!BitXor, Concrete!Bytes3, Symbolic!Bytes3
<1> QED BY <1>3, <1>5, <1>7

\* A byte of the result is a byte, and has its digits from bytes.
LEMMA ByteRange ==
  ASSUME NEW n \in Int, NEW k \in Int
  PROVE  /\ Symbolic!AndByte(n, k) \in Byte
         /\ Symbolic!OrByte(n, k) \in Byte
         /\ Symbolic!XorByte(n, k) \in Byte
<1>1. Symbolic!AndByte(n, k) \in Byte
  BY AndSum DEF Byte
<1>2. Symbolic!OrByte(n, k) \in Byte
  BY OrSum DEF Byte
<1>3. Symbolic!XorByte(n, k) \in Byte
  BY XorSum DEF Byte
<1> QED BY <1>1, <1>2, <1>3

LEMMA ByteLow ==
  ASSUME NEW n \in Int, NEW k \in Int
  PROVE  /\ Symbolic!AndByte(n % 256, k % 256) = Symbolic!AndByte(n, k)
         /\ Symbolic!OrByte(n % 256, k % 256) = Symbolic!OrByte(n, k)
         /\ Symbolic!XorByte(n % 256, k % 256) = Symbolic!XorByte(n, k)
<1>1. Symbolic!AndByte(n % 256, k % 256) = Symbolic!AndByte(n, k)
  BY ByteDigits, AndSum
<1>2. Symbolic!OrByte(n % 256, k % 256) = Symbolic!OrByte(n, k)
  BY ByteDigits, OrSum
<1>3. Symbolic!XorByte(n % 256, k % 256) = Symbolic!XorByte(n, k)
  BY ByteDigits, XorSum
<1> QED BY <1>1, <1>2, <1>3

LEMMA ThreeBytes ==
  ASSUME NEW a \in Byte, NEW b \in Byte, NEW c \in Byte
  PROVE  /\ Symbolic!Bytes3(a, b, c) \in Nat
         /\ Symbolic!Bytes3(a, b, c) % 256 = a
         /\ Symbolic!Bytes3(a, b, c) % 65536 = a + 256 * b
BY DEF Symbolic!Bytes3, Byte

LEMMA AndByBytes ==
  ASSUME NEW n \in Int, NEW k \in Int
  PROVE  /\ Symbolic!BitAnd(n, k) \in Nat
         /\ Symbolic!BitAnd(n, k) % 256 = Symbolic!AndByte(n, k)
         /\ Symbolic!BitAnd(n, k) % 65536
              = Symbolic!AndByte(n, k) + 256 * Symbolic!AndByte(n \div 256, k \div 256)
<1>1. PICK n1 \in Int, k1 \in Int : n1 = n \div 256 /\ k1 = k \div 256
  OBVIOUS
<1>2. PICK n2 \in Int, k2 \in Int : n2 = n \div 65536 /\ k2 = k \div 65536
  OBVIOUS
<1>3. PICK a \in Byte : a = Symbolic!AndByte(n, k)
  BY ByteRange
<1>4. PICK b \in Byte : b = Symbolic!AndByte(n1, k1)
  BY ByteRange
<1>5. PICK c \in Byte : c = Symbolic!AndByte(n2, k2)
  BY ByteRange
<1>6. PICK r \in Nat : r = Symbolic!Bytes3(a, b, c) /\ r % 256 = a /\ r % 65536 = a + 256 * b
  BY ThreeBytes
<1>7. Symbolic!BitAnd(n, k) = r
  BY <1>1, <1>2, <1>3, <1>4, <1>5, <1>6 DEF Symbolic!BitAnd
<1> QED BY <1>1, <1>3, <1>4, <1>6, <1>7

LEMMA AndLow ==
  ASSUME NEW n \in Int, NEW k \in Int
  PROVE  /\ Low(Symbolic!BitAnd(Low(n), Low(k))) = Low(Symbolic!BitAnd(n, k))
         /\ Wrap(Symbolic!BitAnd(Wrap(n), Wrap(k))) = Wrap(Symbolic!BitAnd(n, k))
<1>1. PICK n0 \in Int, k0 \in Int : n0 = Low(n) /\ k0 = Low(k)
  BY DEF Low
<1>2. PICK m0 \in Int, l0 \in Int : m0 = Wrap(n) /\ l0 = Wrap(k)
  BY DEF Wrap
<1>3. PICK n1 \in Int, k1 \in Int : n1 = n \div 256 /\ k1 = k \div 256
  OBVIOUS
<1>4. PICK m1 \in Int, l1 \in Int : m1 = m0 \div 256 /\ l1 = l0 \div 256
  OBVIOUS
<1>5. m0 % 256 = n % 256 /\ l0 % 256 = k % 256 /\ m1 % 256 = n1 % 256 /\ l1 % 256 = k1 % 256
  BY <1>2, <1>3, <1>4 DEF Wrap
<1>10. n0 % 256 = n % 256 /\ k0 % 256 = k % 256
  BY <1>1 DEF Low
<1>6. Symbolic!AndByte(n0, k0) = Symbolic!AndByte(n, k)
  BY <1>10, ByteLow
<1>7. /\ Symbolic!AndByte(m0, l0) = Symbolic!AndByte(n, k)
      /\ Symbolic!AndByte(m1, l1) = Symbolic!AndByte(n1, k1)
  BY <1>5, ByteLow
<1>8. Low(Symbolic!BitAnd(n0, k0)) = Low(Symbolic!BitAnd(n, k))
  BY <1>6, AndByBytes DEF Low
<1>9. Wrap(Symbolic!BitAnd(m0, l0)) = Wrap(Symbolic!BitAnd(n, k))
  BY <1>7, <1>3, <1>4, AndByBytes DEF Wrap
<1> QED BY Zenon, <1>1, <1>2, <1>8, <1>9

LEMMA OrByBytes ==
  ASSUME NEW n \in Int, NEW k \in Int
  PROVE  /\ Symbolic!BitOr(n, k) \in Nat
         /\ Symbolic!BitOr(n, k) % 256 = Symbolic!OrByte(n, k)
         /\ Symbolic!BitOr(n, k) % 65536
              = Symbolic!OrByte(n, k) + 256 * Symbolic!OrByte(n \div 256, k \div 256)
<1>1. PICK n1 \in Int, k1 \in Int : n1 = n \div 256 /\ k1 = k \div 256
  OBVIOUS
<1>2. PICK n2 \in Int, k2 \in Int : n2 = n \div 65536 /\ k2 = k \div 65536
  OBVIOUS
<1>3. PICK a \in Byte : a = Symbolic!OrByte(n, k)
  BY ByteRange
<1>4. PICK b \in Byte : b = Symbolic!OrByte(n1, k1)
  BY ByteRange
<1>5. PICK c \in Byte : c = Symbolic!OrByte(n2, k2)
  BY ByteRange
<1>6. PICK r \in Nat : r = Symbolic!Bytes3(a, b, c) /\ r % 256 = a /\ r % 65536 = a + 256 * b
  BY ThreeBytes
<1>7. Symbolic!BitOr(n, k) = r
  BY <1>1, <1>2, <1>3, <1>4, <1>5, <1>6 DEF Symbolic!BitOr
<1> QED BY <1>1, <1>3, <1>4, <1>6, <1>7

LEMMA OrLow ==
  ASSUME NEW n \in Int, NEW k \in Int
  PROVE  /\ Low(Symbolic!BitOr(Low(n), Low(k))) = Low(Symbolic!BitOr(n, k))
         /\ Wrap(Symbolic!BitOr(Wrap(n), Wrap(k))) = Wrap(Symbolic!BitOr(n, k))
<1>1. PICK n0 \in Int, k0 \in Int : n0 = Low(n) /\ k0 = Low(k)
  BY DEF Low
<1>2. PICK m0 \in Int, l0 \in Int : m0 = Wrap(n) /\ l0 = Wrap(k)
  BY DEF Wrap
<1>3. PICK n1 \in Int, k1 \in Int : n1 = n \div 256 /\ k1 = k \div 256
  OBVIOUS
<1>4. PICK m1 \in Int, l1 \in Int : m1 = m0 \div 256 /\ l1 = l0 \div 256
  OBVIOUS
<1>5. m0 % 256 = n % 256 /\ l0 % 256 = k % 256 /\ m1 % 256 = n1 % 256 /\ l1 % 256 = k1 % 256
  BY <1>2, <1>3, <1>4 DEF Wrap
<1>10. n0 % 256 = n % 256 /\ k0 % 256 = k % 256
  BY <1>1 DEF Low
<1>6. Symbolic!OrByte(n0, k0) = Symbolic!OrByte(n, k)
  BY <1>10, ByteLow
<1>7. /\ Symbolic!OrByte(m0, l0) = Symbolic!OrByte(n, k)
      /\ Symbolic!OrByte(m1, l1) = Symbolic!OrByte(n1, k1)
  BY <1>5, ByteLow
<1>8. Low(Symbolic!BitOr(n0, k0)) = Low(Symbolic!BitOr(n, k))
  BY <1>6, OrByBytes DEF Low
<1>9. Wrap(Symbolic!BitOr(m0, l0)) = Wrap(Symbolic!BitOr(n, k))
  BY <1>7, <1>3, <1>4, OrByBytes DEF Wrap
<1> QED BY Zenon, <1>1, <1>2, <1>8, <1>9

LEMMA XorByBytes ==
  ASSUME NEW n \in Int, NEW k \in Int
  PROVE  /\ Symbolic!BitXor(n, k) \in Nat
         /\ Symbolic!BitXor(n, k) % 256 = Symbolic!XorByte(n, k)
         /\ Symbolic!BitXor(n, k) % 65536
              = Symbolic!XorByte(n, k) + 256 * Symbolic!XorByte(n \div 256, k \div 256)
<1>1. PICK n1 \in Int, k1 \in Int : n1 = n \div 256 /\ k1 = k \div 256
  OBVIOUS
<1>2. PICK n2 \in Int, k2 \in Int : n2 = n \div 65536 /\ k2 = k \div 65536
  OBVIOUS
<1>3. PICK a \in Byte : a = Symbolic!XorByte(n, k)
  BY ByteRange
<1>4. PICK b \in Byte : b = Symbolic!XorByte(n1, k1)
  BY ByteRange
<1>5. PICK c \in Byte : c = Symbolic!XorByte(n2, k2)
  BY ByteRange
<1>6. PICK r \in Nat : r = Symbolic!Bytes3(a, b, c) /\ r % 256 = a /\ r % 65536 = a + 256 * b
  BY ThreeBytes
<1>7. Symbolic!BitXor(n, k) = r
  BY <1>1, <1>2, <1>3, <1>4, <1>5, <1>6 DEF Symbolic!BitXor
<1> QED BY <1>1, <1>3, <1>4, <1>6, <1>7

LEMMA XorLow ==
  ASSUME NEW n \in Int, NEW k \in Int
  PROVE  /\ Low(Symbolic!BitXor(Low(n), Low(k))) = Low(Symbolic!BitXor(n, k))
         /\ Wrap(Symbolic!BitXor(Wrap(n), Wrap(k))) = Wrap(Symbolic!BitXor(n, k))
<1>1. PICK n0 \in Int, k0 \in Int : n0 = Low(n) /\ k0 = Low(k)
  BY DEF Low
<1>2. PICK m0 \in Int, l0 \in Int : m0 = Wrap(n) /\ l0 = Wrap(k)
  BY DEF Wrap
<1>3. PICK n1 \in Int, k1 \in Int : n1 = n \div 256 /\ k1 = k \div 256
  OBVIOUS
<1>4. PICK m1 \in Int, l1 \in Int : m1 = m0 \div 256 /\ l1 = l0 \div 256
  OBVIOUS
<1>5. m0 % 256 = n % 256 /\ l0 % 256 = k % 256 /\ m1 % 256 = n1 % 256 /\ l1 % 256 = k1 % 256
  BY <1>2, <1>3, <1>4 DEF Wrap
<1>10. n0 % 256 = n % 256 /\ k0 % 256 = k % 256
  BY <1>1 DEF Low
<1>6. Symbolic!XorByte(n0, k0) = Symbolic!XorByte(n, k)
  BY <1>10, ByteLow
<1>7. /\ Symbolic!XorByte(m0, l0) = Symbolic!XorByte(n, k)
      /\ Symbolic!XorByte(m1, l1) = Symbolic!XorByte(n1, k1)
  BY <1>5, ByteLow
<1>8. Low(Symbolic!BitXor(n0, k0)) = Low(Symbolic!BitXor(n, k))
  BY <1>6, XorByBytes DEF Low
<1>9. Wrap(Symbolic!BitXor(m0, l0)) = Wrap(Symbolic!BitXor(n, k))
  BY <1>7, <1>3, <1>4, XorByBytes DEF Wrap
<1> QED BY Zenon, <1>1, <1>2, <1>8, <1>9

-----------------------------------------------------------------------------
(* The operators of emulator2.h on expressions: E8(n) is the expression of *)
(* 8 bits for the integer n, and so on.                                    *)

E8(n)  == [w |-> 8, v |-> Low(n)]
E16(n) == [w |-> 16, v |-> Wrap(n)]
E17(n) == [w |-> 17, v |-> n % (2 * Tag)]
EB(b)  == [w |-> 0, v |-> b]

LEMMA Numerals ==
  ASSUME NEW n \in Int
  PROVE  /\ Symbolic!num_val(n, 8) = E8(n)
         /\ Symbolic!num_val(n, 16) = E16(n)
         /\ Symbolic!num_val(n, 17) = E17(n)
BY Powers, SortNames DEF Symbolic!num_val, Symbolic!Z3_mk_int, Symbolic!Vector, E8, E16, E17, Low, Wrap, Tag

\* A literal gets the sort of the other operand.
LEMMA Literals ==
  ASSUME NEW n \in Int, NEW k \in Int
  PROVE  /\ Symbolic!Sorted(Symbolic!int(n), E8(k)) = E8(n)
         /\ Symbolic!Sorted(Symbolic!int(n), E16(k)) = E16(n)
         /\ Symbolic!Sorted(Symbolic!int(n), E17(k)) = E17(n)
         /\ Symbolic!Sorted(E8(k), Symbolic!int(n)) = E8(k)
         /\ Symbolic!Sorted(E16(k), Symbolic!int(n)) = E16(k)
         /\ Symbolic!Sorted(E17(k), Symbolic!int(n)) = E17(k)
         /\ Symbolic!Sorted(E8(k), E8(n)) = E8(k)
         /\ Symbolic!Sorted(E16(k), E16(n)) = E16(k)
BY Numerals, SortNames DEF Symbolic!Sorted, Symbolic!int, E8, E16, E17

LEMMA AddSub8 ==
  ASSUME NEW n \in Int, NEW k \in Int
  PROVE  /\ Symbolic!Z3_mk_bvadd(E8(n), E8(k)) = E8(n + k)
         /\ Symbolic!Z3_mk_bvsub(E8(n), E8(k)) = E8(n - k)
         /\ Symbolic!Z3_mk_bvadd(E16(n), E16(k)) = E16(n + k)
<1>1. Symbolic!Z3_mk_bvadd(E8(n), E8(k)) = E8(n + k)
  BY Powers DEF Symbolic!Z3_mk_bvadd, Symbolic!OnBits, Symbolic!Vector, E8, Low, Wrap
<1>2. Symbolic!Z3_mk_bvsub(E8(n), E8(k)) = E8(n - k)
  BY Powers DEF Symbolic!Z3_mk_bvsub, Symbolic!OnBits, Symbolic!Vector, E8, Low, Wrap
<1>3. Symbolic!Z3_mk_bvadd(E16(n), E16(k)) = E16(n + k)
  BY Powers DEF Symbolic!Z3_mk_bvadd, Symbolic!OnBits, Symbolic!Vector, E16, Low, Wrap
<1> QED BY <1>1, <1>2, <1>3

LEMMA Arithmetic ==
  ASSUME NEW n \in Int, NEW k \in Int
  PROVE  /\ Symbolic!++(E8(n), E8(k)) = E8(n + k)
         /\ Symbolic!++(E8(n), Symbolic!int(k)) = E8(n + k)
         /\ Symbolic!--(E8(n), E8(k)) = E8(n - k)
         /\ Symbolic!--(E8(n), Symbolic!int(k)) = E8(n - k)
         /\ Symbolic!++(E16(n), E16(k)) = E16(n + k)
         /\ Symbolic!++(E16(n), Symbolic!int(k)) = E16(n + k)
<1>1. /\ Symbolic!is_bv(E8(n)) /\ Symbolic!is_bv(E8(k))
      /\ Symbolic!is_bv(E16(n)) /\ Symbolic!is_bv(E16(k))
  BY DEF Symbolic!is_bv, E8, E16
<1>2. Symbolic!++(E8(n), E8(k)) = Symbolic!Z3_mk_bvadd(E8(n), E8(k))
  BY Zenon, <1>1, Literals DEF Symbolic!++, Symbolic!Add, Symbolic!ByKind
<1>3. Symbolic!++(E8(n), Symbolic!int(k)) = Symbolic!Z3_mk_bvadd(E8(n), E8(k))
  BY Zenon, <1>1, Literals DEF Symbolic!++, Symbolic!Add, Symbolic!ByKind
<1>4. Symbolic!--(E8(n), E8(k)) = Symbolic!Z3_mk_bvsub(E8(n), E8(k))
  BY Zenon, <1>1, Literals DEF Symbolic!--, Symbolic!Sub, Symbolic!ByKind
<1>5. Symbolic!--(E8(n), Symbolic!int(k)) = Symbolic!Z3_mk_bvsub(E8(n), E8(k))
  BY Zenon, <1>1, Literals DEF Symbolic!--, Symbolic!Sub, Symbolic!ByKind
<1>6. Symbolic!++(E16(n), E16(k)) = Symbolic!Z3_mk_bvadd(E16(n), E16(k))
  BY Zenon, <1>1, Literals DEF Symbolic!++, Symbolic!Add, Symbolic!ByKind
<1>7. Symbolic!++(E16(n), Symbolic!int(k)) = Symbolic!Z3_mk_bvadd(E16(n), E16(k))
  BY Zenon, <1>1, Literals DEF Symbolic!++, Symbolic!Add, Symbolic!ByKind
<1> QED BY Zenon, <1>2, <1>3, <1>4, <1>5, <1>6, <1>7, AddSub8

LEMMA Logic ==
  ASSUME NEW n \in Int, NEW k \in Int
  PROVE  /\ Symbolic!Z3_mk_bvand(E8(n), E8(k)) = E8(Symbolic!BitAnd(n, k))
         /\ Symbolic!Z3_mk_bvand(E16(n), E16(k)) = E16(Symbolic!BitAnd(n, k))
         /\ Symbolic!Z3_mk_bvor(E8(n), E8(k)) = E8(Symbolic!BitOr(n, k))
         /\ Symbolic!Z3_mk_bvor(E16(n), E16(k)) = E16(Symbolic!BitOr(n, k))
         /\ Symbolic!Z3_mk_bvxor(E8(n), E8(k)) = E8(Symbolic!BitXor(n, k))
         /\ Symbolic!Z3_mk_bvxor(E16(n), E16(k)) = E16(Symbolic!BitXor(n, k))
<1>1. Symbolic!Z3_mk_bvand(E8(n), E8(k)) = E8(Symbolic!BitAnd(n, k))
  <2>1. Symbolic!Z3_mk_bvand(E8(n), E8(k))
          = [w |-> 8, v |-> Low(Symbolic!BitAnd(Low(n), Low(k)))]
    BY Powers DEF Symbolic!Z3_mk_bvand, Symbolic!OnBits, Symbolic!Vector, E8, Low
  <2> QED BY Zenon, <2>1, AndLow DEF E8
<1>2. Symbolic!Z3_mk_bvand(E16(n), E16(k)) = E16(Symbolic!BitAnd(n, k))
  <2>1. Symbolic!Z3_mk_bvand(E16(n), E16(k))
          = [w |-> 16, v |-> Wrap(Symbolic!BitAnd(Wrap(n), Wrap(k)))]
    BY Powers DEF Symbolic!Z3_mk_bvand, Symbolic!OnBits, Symbolic!Vector, E16, Wrap
  <2> QED BY Zenon, <2>1, AndLow DEF E16
<1>3. Symbolic!Z3_mk_bvor(E8(n), E8(k)) = E8(Symbolic!BitOr(n, k))
  <2>1. Symbolic!Z3_mk_bvor(E8(n), E8(k))
          = [w |-> 8, v |-> Low(Symbolic!BitOr(Low(n), Low(k)))]
    BY Powers DEF Symbolic!Z3_mk_bvor, Symbolic!OnBits, Symbolic!Vector, E8, Low
  <2> QED BY Zenon, <2>1, OrLow DEF E8
<1>4. Symbolic!Z3_mk_bvor(E16(n), E16(k)) = E16(Symbolic!BitOr(n, k))
  <2>1. Symbolic!Z3_mk_bvor(E16(n), E16(k))
          = [w |-> 16, v |-> Wrap(Symbolic!BitOr(Wrap(n), Wrap(k)))]
    BY Powers DEF Symbolic!Z3_mk_bvor, Symbolic!OnBits, Symbolic!Vector, E16, Wrap
  <2> QED BY Zenon, <2>1, OrLow DEF E16
<1>5. Symbolic!Z3_mk_bvxor(E8(n), E8(k)) = E8(Symbolic!BitXor(n, k))
  <2>1. Symbolic!Z3_mk_bvxor(E8(n), E8(k))
          = [w |-> 8, v |-> Low(Symbolic!BitXor(Low(n), Low(k)))]
    BY Powers DEF Symbolic!Z3_mk_bvxor, Symbolic!OnBits, Symbolic!Vector, E8, Low
  <2> QED BY Zenon, <2>1, XorLow DEF E8
<1>6. Symbolic!Z3_mk_bvxor(E16(n), E16(k)) = E16(Symbolic!BitXor(n, k))
  <2>1. Symbolic!Z3_mk_bvxor(E16(n), E16(k))
          = [w |-> 16, v |-> Wrap(Symbolic!BitXor(Wrap(n), Wrap(k)))]
    BY Powers DEF Symbolic!Z3_mk_bvxor, Symbolic!OnBits, Symbolic!Vector, E16, Wrap
  <2> QED BY Zenon, <2>1, XorLow DEF E16
<1> QED BY <1>1, <1>2, <1>3, <1>4, <1>5, <1>6

LEMMA Bitwise8 ==
  ASSUME NEW n \in Int, NEW k \in Int
  PROVE  /\ Symbolic!&(E8(n), E8(k)) = E8(Symbolic!BitAnd(n, k))
         /\ Symbolic!&(E8(n), Symbolic!int(k)) = E8(Symbolic!BitAnd(n, k))
         /\ Symbolic!|(E8(n), E8(k)) = E8(Symbolic!BitOr(n, k))
         /\ Symbolic!^^(E8(n), E8(k)) = E8(Symbolic!BitXor(n, k))
         /\ Symbolic!^^(E8(n), Symbolic!int(k)) = E8(Symbolic!BitXor(n, k))
BY Logic, Literals
DEF Symbolic!&, Symbolic!|, Symbolic!^^, Symbolic!BvAnd, Symbolic!BvOr, Symbolic!BvXor, Symbolic!Call

LEMMA Bitwise16 ==
  ASSUME NEW n \in Int, NEW k \in Int
  PROVE  /\ Symbolic!&(E16(n), Symbolic!int(k)) = E16(Symbolic!BitAnd(n, k))
         /\ Symbolic!|(E16(n), E16(k)) = E16(Symbolic!BitOr(n, k))
         /\ Symbolic!|(E16(n), Symbolic!int(k)) = E16(Symbolic!BitOr(n, k))
BY Logic, Literals
DEF Symbolic!&, Symbolic!|, Symbolic!BvAnd, Symbolic!BvOr, Symbolic!Call

LEMMA Comparisons ==
  ASSUME NEW n \in Int, NEW k \in Int
  PROVE  /\ Symbolic!\doteq(E8(n), E8(k)) = EB(Low(n) = Low(k))
         /\ Symbolic!\doteq(E8(n), Symbolic!int(k)) = EB(Low(n) = Low(k))
         /\ Symbolic!Eq(E8(n), Symbolic!int(k)) = EB(Low(n) = Low(k))
         /\ Symbolic!uge(E8(n), E8(k)) = EB(Low(n) >= Low(k))
         /\ Symbolic!uge(E8(n), Symbolic!int(k)) = EB(Low(n) >= Low(k))
         /\ Symbolic!Uge(E8(n), Symbolic!int(k)) = EB(Low(n) >= Low(k))
<1>1. Symbolic!Z3_mk_eq(E8(n), E8(k)) = EB(Low(n) = Low(k))
  BY SortNames DEF Symbolic!Z3_mk_eq, Symbolic!SameSort, Symbolic!Truth, E8, EB
<1>2. Symbolic!Z3_mk_bvuge(E8(n), E8(k)) = EB(Low(n) >= Low(k))
  BY SortNames DEF Symbolic!Z3_mk_bvuge, Symbolic!CompareBits, Symbolic!Truth, E8, EB
<1>3. /\ Symbolic!Eq(E8(n), E8(k)) = EB(Low(n) = Low(k))
      /\ Symbolic!Eq(E8(n), Symbolic!int(k)) = EB(Low(n) = Low(k))
  BY <1>1, Literals DEF Symbolic!Eq, Symbolic!Call
<1>4. /\ Symbolic!Uge(E8(n), E8(k)) = EB(Low(n) >= Low(k))
      /\ Symbolic!Uge(E8(n), Symbolic!int(k)) = EB(Low(n) >= Low(k))
  BY <1>2, Literals DEF Symbolic!Uge, Symbolic!Call
<1> QED BY <1>3, <1>4 DEF Symbolic!\doteq, Symbolic!uge

LEMMA Unary ==
  ASSUME NEW n \in Int
  PROVE  /\ Symbolic!extend(E8(n)) = E16(Low(n))
         /\ Symbolic!Z3_mk_zero_ext(1, E16(n)) = E17(Wrap(n))
         /\ Symbolic!shl(E8(n)) = E8(2 * n)
         /\ Symbolic!shr(E8(n)) = E8(Low(n) \div 2)
         /\ Symbolic!lobyte(E16(n)) = E8(n)
         /\ Symbolic!hibyte(E16(n)) = E8(Wrap(n) \div 256)
<1>1. Symbolic!extend(E8(n)) = E16(Low(n))
  BY DEF Symbolic!extend, Symbolic!Z3_mk_zero_ext, E8, E16, Low, Wrap
<1>2. Symbolic!Z3_mk_zero_ext(1, E16(n)) = E17(Wrap(n))
  BY DEF Symbolic!Z3_mk_zero_ext, E16, E17, Wrap, Tag
<1>3. Symbolic!shl(E8(n)) = E8(2 * n)
  <2>1. Symbolic!shl(E8(n)) = Symbolic!Z3_mk_bvshl(E8(n), E8(1))
    BY Numerals DEF Symbolic!shl, E8
  <2>2. Symbolic!Z3_mk_bvshl(E8(n), E8(1)) = [w |-> 8, v |-> (Low(n) * 2) % 256]
    BY Powers DEF Symbolic!Z3_mk_bvshl, Symbolic!OnBits, Symbolic!Vector, E8, Low
  <2> QED BY <2>1, <2>2 DEF E8, Low
<1>4. Symbolic!shr(E8(n)) = E8(Low(n) \div 2)
  <2>1. Symbolic!shr(E8(n)) = Symbolic!Z3_mk_bvlshr(E8(n), E8(1))
    BY Numerals DEF Symbolic!shr, E8
  <2>2. Symbolic!Z3_mk_bvlshr(E8(n), E8(1)) = [w |-> 8, v |-> (Low(n) \div 2) % 256]
    BY Powers DEF Symbolic!Z3_mk_bvlshr, Symbolic!OnBits, Symbolic!Vector, E8, Low
  <2> QED BY <2>1, <2>2 DEF E8, Low
<1>5. Symbolic!lobyte(E16(n)) = E8(n)
  BY Powers DEF Symbolic!lobyte, Symbolic!extract, Symbolic!Z3_mk_extract, Symbolic!Vector, E8, E16, Low, Wrap
<1>6. Symbolic!hibyte(E16(n)) = E8(Wrap(n) \div 256)
  BY Powers DEF Symbolic!hibyte, Symbolic!extract, Symbolic!Z3_mk_extract, Symbolic!Vector, E8, E16, Low, Wrap
<1> QED BY <1>1, <1>2, <1>3, <1>4, <1>5, <1>6

LEMMA NotOf ==
  ASSUME NEW b \in BOOLEAN
  PROVE  Symbolic!not(EB(b)) = EB(~b)
BY SortNames DEF Symbolic!not, Symbolic!Negation, Symbolic!Z3_mk_not, Symbolic!OnTruth,
   Symbolic!Truth, EB

LEMMA Conditions ==
  ASSUME NEW b \in BOOLEAN, NEW n \in Int, NEW k \in Int
  PROVE  /\ Symbolic!bool_val(b) = EB(b)
         /\ Symbolic!ite(EB(b), E8(n), E8(k)) = E8(IF b THEN n ELSE k)
         /\ Symbolic!ite(EB(b), Symbolic!int(n), Symbolic!int(k)) = E8(IF b THEN n ELSE k)
         /\ Symbolic!Z3_mk_ite(EB(b), E17(n), E17(k)) = E17(IF b THEN n ELSE k)
<1>1. Symbolic!bool_val(b) = EB(b)
  BY SortNames DEF Symbolic!bool_val, Symbolic!Z3_mk_true, Symbolic!Z3_mk_false, Symbolic!Truth, EB
<1>3. Symbolic!Z3_mk_ite(EB(b), E8(n), E8(k)) = E8(IF b THEN n ELSE k)
  BY SortNames DEF Symbolic!Z3_mk_ite, Symbolic!SameSort, EB, E8
<1>4. Symbolic!ite(EB(b), E8(n), E8(k)) = E8(IF b THEN n ELSE k)
  BY <1>3, SortNames DEF Symbolic!ite, E8
<1>5. Symbolic!ite(EB(b), Symbolic!int(n), Symbolic!int(k)) = E8(IF b THEN n ELSE k)
  BY <1>3, Numerals, SortNames DEF Symbolic!ite, Symbolic!int
<1>6. Symbolic!Z3_mk_ite(EB(b), E17(n), E17(k)) = E17(IF b THEN n ELSE k)
  BY SortNames DEF Symbolic!Z3_mk_ite, Symbolic!SameSort, EB, E17
<1> QED BY <1>1, <1>4, <1>5, <1>6

-----------------------------------------------------------------------------
(* What the two machines compute with.  A value of one of them, n, goes    *)
(* with one of the other, e: each is of its type, and they are the same if *)
(* the condition c holds, that no pointer has been followed.               *)

Words == 0 .. Tag - 1
Exits == 0 .. 2 * Tag - 1

\* A range whose bounds are large numbers is given by its inequalities.
LEMMA WordRange ==
  ASSUME NEW n
  PROVE  n \in Words <=> n \in Int /\ 0 <= n /\ n <= 65535
<1>1. Tag \in Int /\ Tag - 1 = 65535
  BY DEF Tag
<1>2. n \in Words <=> n \in Int /\ 0 <= n /\ n <= Tag - 1
  BY <1>1 DEF Words
<1> QED BY <1>1, <1>2

LEMMA ExitRange ==
  ASSUME NEW n
  PROVE  n \in Exits <=> n \in Int /\ 0 <= n /\ n <= 131071
<1>1. Tag \in Int /\ 2 * Tag - 1 = 131071
  BY DEF Tag
<1>2. n \in Exits <=> n \in Int /\ 0 <= n /\ n <= 2 * Tag - 1
  BY <1>1 DEF Exits
<1> QED BY <1>1, <1>2

Bits8  == {E8(k) : k \in Int}
Bits16 == {E16(k) : k \in Int}
Bits17 == {E17(k) : k \in Int}
Truths == {EB(TRUE), EB(FALSE)}

IntVal(c, n, e)   == n \in Int /\ e \in Bits8 /\ (c => e = E8(n))
ByteVal(c, n, e)  == n \in Byte /\ IntVal(c, n, e)
WordVal(c, n, e)  == n \in Int /\ e \in Bits16 /\ (c => e = E16(n))
TruthVal(c, b, e) == b \in BOOLEAN /\ e \in Truths /\ (c => e = EB(b))

LEMMA SameNumbers ==
  ASSUME NEW n
  PROVE  Concrete!Low(n) = Low(n) /\ Concrete!Wrap(n) = Wrap(n)
BY DEF Concrete!Low, Concrete!Wrap, Low, Wrap

LEMMA Truncations ==
  ASSUME NEW n \in Int
  PROVE  /\ Low(n) \in Byte /\ E8(Low(n)) = E8(n)
         /\ Wrap(n) \in Words /\ E16(Wrap(n)) = E16(n)
         /\ Low(n) \in Int /\ Wrap(n) \in Int
<1>1. Low(n) \in Byte /\ Low(n) \in Int /\ Low(Low(n)) = Low(n)
  BY DEF Low, Byte
<1>2. Wrap(n) \in Words /\ Wrap(n) \in Int
  <2>1. Wrap(n) \in Int /\ 0 <= Wrap(n) /\ Wrap(n) <= 65535
    BY DEF Wrap
  <2> QED BY <2>1, WordRange
<1>4. Wrap(Wrap(n)) = Wrap(n)
  BY DEF Wrap
<1>3. E8(Low(n)) = E8(n) /\ E16(Wrap(n)) = E16(n)
  BY Zenon, <1>1, <1>4 DEF E8, E16
<1> QED BY Zenon, <1>1, <1>2, <1>3

LEMMA ByteNumbers ==
  ASSUME NEW n \in Byte
  PROVE  n \in Int /\ Low(n) = n /\ Wrap(n) = n
<1>1. n \in Int
  BY DEF Byte
<1>2. Low(n) = n
  BY DEF Low, Byte
<1>3. Wrap(n) = n
  BY DEF Wrap, Byte
<1> QED BY <1>1, <1>2, <1>3

LEMMA BitRange ==
  ASSUME NEW n \in Int, NEW k \in Int
  PROVE  /\ Symbolic!BitAnd(n, k) \in Int
         /\ Symbolic!BitOr(n, k) \in Int
         /\ Symbolic!BitXor(n, k) \in Int
<1>1. n \div 256 \in Int /\ k \div 256 \in Int /\ n \div 65536 \in Int /\ k \div 65536 \in Int
  OBVIOUS
<1>2. Symbolic!BitAnd(n, k) \in Int
  <2>1. PICK a \in Byte : a = Symbolic!AndByte(n, k)
    BY ByteRange
  <2>2. PICK b \in Byte : b = Symbolic!AndByte(n \div 256, k \div 256)
    BY <1>1, ByteRange
  <2>3. PICK d \in Byte : d = Symbolic!AndByte(n \div 65536, k \div 65536)
    BY <1>1, ByteRange
  <2> QED BY <2>1, <2>2, <2>3, ThreeBytes DEF Symbolic!BitAnd
<1>3. Symbolic!BitOr(n, k) \in Int
  <2>1. PICK a \in Byte : a = Symbolic!OrByte(n, k)
    BY ByteRange
  <2>2. PICK b \in Byte : b = Symbolic!OrByte(n \div 256, k \div 256)
    BY <1>1, ByteRange
  <2>3. PICK d \in Byte : d = Symbolic!OrByte(n \div 65536, k \div 65536)
    BY <1>1, ByteRange
  <2> QED BY <2>1, <2>2, <2>3, ThreeBytes DEF Symbolic!BitOr
<1>4. Symbolic!BitXor(n, k) \in Int
  <2>1. PICK a \in Byte : a = Symbolic!XorByte(n, k)
    BY ByteRange
  <2>2. PICK b \in Byte : b = Symbolic!XorByte(n \div 256, k \div 256)
    BY <1>1, ByteRange
  <2>3. PICK d \in Byte : d = Symbolic!XorByte(n \div 65536, k \div 65536)
    BY <1>1, ByteRange
  <2> QED BY <2>1, <2>2, <2>3, ThreeBytes DEF Symbolic!BitXor
<1> QED BY <1>2, <1>3, <1>4

\* Both a number and a byte have only the digits of the byte.
LEMMA AndOfByte ==
  ASSUME NEW n \in Int, NEW k \in Byte
  PROVE  Symbolic!BitAnd(n, k) \in Byte
<1>1. n \div 256 \in Int /\ n \div 65536 \in Int /\ k \div 256 = 0 /\ k \div 65536 = 0
  BY DEF Byte
<1>2. \A i \in Int : Symbolic!AndByte(i, 0) = 0
  BY AndSum DEF Symbolic!HasDigit
<1>3. PICK a \in Byte : a = Symbolic!AndByte(n, k)
  BY ByteNumbers, ByteRange
<1> QED BY <1>1, <1>2, <1>3 DEF Symbolic!BitAnd, Symbolic!Bytes3, Byte

LEMMA IntOperators ==
  ASSUME NEW c, NEW n, NEW e, IntVal(c, n, e), NEW k, NEW d, IntVal(c, k, d)
  PROVE  /\ IntVal(c, Concrete!++(n, k), Symbolic!++(e, d))
         /\ IntVal(c, Concrete!--(n, k), Symbolic!--(e, d))
         /\ IntVal(c, Concrete!&(n, k), Symbolic!&(e, d))
         /\ IntVal(c, Concrete!|(n, k), Symbolic!|(e, d))
         /\ IntVal(c, Concrete!^^(n, k), Symbolic!^^(e, d))
<1>1. PICK i \in Int : e = E8(i)
  BY DEF IntVal, Bits8
<1>2. PICK j \in Int : d = E8(j)
  BY DEF IntVal, Bits8
<1>3. n \in Int /\ k \in Int /\ (c => e = E8(n) /\ d = E8(k))
  BY DEF IntVal
<1>4. IntVal(c, Concrete!++(n, k), Symbolic!++(e, d))
  <2>1. Concrete!++(n, k) = n + k
    BY SameOperators DEF Concrete!++
  <2>2. n + k \in Int /\ i + j \in Int
    BY <1>3, BitRange
  <2>3. Symbolic!++(e, d) = E8(i + j)
    BY <1>1, <1>2, Arithmetic
  <2>4. c => Symbolic!++(e, d) = E8(n + k)
    BY <1>3, Arithmetic
  <2> QED BY Zenon, <2>1, <2>2, <2>3, <2>4 DEF IntVal, Bits8
<1>5. IntVal(c, Concrete!--(n, k), Symbolic!--(e, d))
  <2>1. Concrete!--(n, k) = n - k
    BY SameOperators DEF Concrete!--
  <2>2. n - k \in Int /\ i - j \in Int
    BY <1>3, BitRange
  <2>3. Symbolic!--(e, d) = E8(i - j)
    BY <1>1, <1>2, Arithmetic
  <2>4. c => Symbolic!--(e, d) = E8(n - k)
    BY <1>3, Arithmetic
  <2> QED BY Zenon, <2>1, <2>2, <2>3, <2>4 DEF IntVal, Bits8
<1>6. IntVal(c, Concrete!&(n, k), Symbolic!&(e, d))
  <2>1. Concrete!&(n, k) = Symbolic!BitAnd(n, k)
    BY SameOperators DEF Concrete!&
  <2>2. Symbolic!BitAnd(n, k) \in Int /\ Symbolic!BitAnd(i, j) \in Int
    BY <1>3, BitRange
  <2>3. Symbolic!&(e, d) = E8(Symbolic!BitAnd(i, j))
    BY <1>1, <1>2, Bitwise8
  <2>4. c => Symbolic!&(e, d) = E8(Symbolic!BitAnd(n, k))
    BY <1>3, Bitwise8
  <2> QED BY Zenon, <2>1, <2>2, <2>3, <2>4 DEF IntVal, Bits8
<1>7. IntVal(c, Concrete!|(n, k), Symbolic!|(e, d))
  <2>1. Concrete!|(n, k) = Symbolic!BitOr(n, k)
    BY SameOperators DEF Concrete!|
  <2>2. Symbolic!BitOr(n, k) \in Int /\ Symbolic!BitOr(i, j) \in Int
    BY <1>3, BitRange
  <2>3. Symbolic!|(e, d) = E8(Symbolic!BitOr(i, j))
    BY <1>1, <1>2, Bitwise8
  <2>4. c => Symbolic!|(e, d) = E8(Symbolic!BitOr(n, k))
    BY <1>3, Bitwise8
  <2> QED BY Zenon, <2>1, <2>2, <2>3, <2>4 DEF IntVal, Bits8
<1>8. IntVal(c, Concrete!^^(n, k), Symbolic!^^(e, d))
  <2>1. Concrete!^^(n, k) = Symbolic!BitXor(n, k)
    BY SameOperators DEF Concrete!^^
  <2>2. Symbolic!BitXor(n, k) \in Int /\ Symbolic!BitXor(i, j) \in Int
    BY <1>3, BitRange
  <2>3. Symbolic!^^(e, d) = E8(Symbolic!BitXor(i, j))
    BY <1>1, <1>2, Bitwise8
  <2>4. c => Symbolic!^^(e, d) = E8(Symbolic!BitXor(n, k))
    BY <1>3, Bitwise8
  <2> QED BY Zenon, <2>1, <2>2, <2>3, <2>4 DEF IntVal, Bits8
<1> QED BY Zenon, <1>4, <1>5, <1>6, <1>7, <1>8

LEMMA IntLiterals ==
  ASSUME NEW c, NEW n, NEW e, IntVal(c, n, e), NEW k \in Int
  PROVE  /\ IntVal(c, Concrete!++(n, Concrete!int(k)), Symbolic!++(e, Symbolic!int(k)))
         /\ IntVal(c, Concrete!--(n, Concrete!int(k)), Symbolic!--(e, Symbolic!int(k)))
         /\ IntVal(c, Concrete!&(n, Concrete!int(k)), Symbolic!&(e, Symbolic!int(k)))
         /\ IntVal(c, Concrete!^^(n, Concrete!int(k)), Symbolic!^^(e, Symbolic!int(k)))
<1>1. PICK i \in Int : e = E8(i)
  BY DEF IntVal, Bits8
<1>3. n \in Int /\ (c => e = E8(n))
  BY DEF IntVal
<1>4. IntVal(c, Concrete!++(n, Concrete!int(k)), Symbolic!++(e, Symbolic!int(k)))
  <2>1. Concrete!++(n, Concrete!int(k)) = n + k
    BY SameOperators DEF Concrete!++, Concrete!int
  <2>2. n + k \in Int /\ i + k \in Int
    BY <1>3, BitRange
  <2>3. Symbolic!++(e, Symbolic!int(k)) = E8(i + k)
    BY <1>1, Arithmetic
  <2>4. c => Symbolic!++(e, Symbolic!int(k)) = E8(n + k)
    BY <1>3, Arithmetic
  <2> QED BY Zenon, <2>1, <2>2, <2>3, <2>4 DEF IntVal, Bits8
<1>5. IntVal(c, Concrete!--(n, Concrete!int(k)), Symbolic!--(e, Symbolic!int(k)))
  <2>1. Concrete!--(n, Concrete!int(k)) = n - k
    BY SameOperators DEF Concrete!--, Concrete!int
  <2>2. n - k \in Int /\ i - k \in Int
    BY <1>3, BitRange
  <2>3. Symbolic!--(e, Symbolic!int(k)) = E8(i - k)
    BY <1>1, Arithmetic
  <2>4. c => Symbolic!--(e, Symbolic!int(k)) = E8(n - k)
    BY <1>3, Arithmetic
  <2> QED BY Zenon, <2>1, <2>2, <2>3, <2>4 DEF IntVal, Bits8
<1>6. IntVal(c, Concrete!&(n, Concrete!int(k)), Symbolic!&(e, Symbolic!int(k)))
  <2>1. Concrete!&(n, Concrete!int(k)) = Symbolic!BitAnd(n, k)
    BY SameOperators DEF Concrete!&, Concrete!int
  <2>2. Symbolic!BitAnd(n, k) \in Int /\ Symbolic!BitAnd(i, k) \in Int
    BY <1>3, BitRange
  <2>3. Symbolic!&(e, Symbolic!int(k)) = E8(Symbolic!BitAnd(i, k))
    BY <1>1, Bitwise8
  <2>4. c => Symbolic!&(e, Symbolic!int(k)) = E8(Symbolic!BitAnd(n, k))
    BY <1>3, Bitwise8
  <2> QED BY Zenon, <2>1, <2>2, <2>3, <2>4 DEF IntVal, Bits8
<1>7. IntVal(c, Concrete!^^(n, Concrete!int(k)), Symbolic!^^(e, Symbolic!int(k)))
  <2>1. Concrete!^^(n, Concrete!int(k)) = Symbolic!BitXor(n, k)
    BY SameOperators DEF Concrete!^^, Concrete!int
  <2>2. Symbolic!BitXor(n, k) \in Int /\ Symbolic!BitXor(i, k) \in Int
    BY <1>3, BitRange
  <2>3. Symbolic!^^(e, Symbolic!int(k)) = E8(Symbolic!BitXor(i, k))
    BY <1>1, Bitwise8
  <2>4. c => Symbolic!^^(e, Symbolic!int(k)) = E8(Symbolic!BitXor(n, k))
    BY <1>3, Bitwise8
  <2> QED BY Zenon, <2>1, <2>2, <2>3, <2>4 DEF IntVal, Bits8
<1> QED BY Zenon, <1>4, <1>5, <1>6, <1>7

LEMMA WordOperators ==
  ASSUME NEW c, NEW n, NEW e, WordVal(c, n, e), NEW k, NEW d, WordVal(c, k, d)
  PROVE  /\ WordVal(c, Concrete!++(n, k), Symbolic!++(e, d))
         /\ WordVal(c, Concrete!|(n, k), Symbolic!|(e, d))
<1>1. PICK i \in Int : e = E16(i)
  BY DEF WordVal, Bits16
<1>2. PICK j \in Int : d = E16(j)
  BY DEF WordVal, Bits16
<1>3. n \in Int /\ k \in Int /\ (c => e = E16(n) /\ d = E16(k))
  BY DEF WordVal
<1>4. WordVal(c, Concrete!++(n, k), Symbolic!++(e, d))
  <2>1. Concrete!++(n, k) = n + k
    BY SameOperators DEF Concrete!++
  <2>2. n + k \in Int /\ i + j \in Int
    BY <1>3, BitRange
  <2>3. Symbolic!++(e, d) = E16(i + j)
    BY <1>1, <1>2, Arithmetic
  <2>4. c => Symbolic!++(e, d) = E16(n + k)
    BY <1>3, Arithmetic
  <2> QED BY Zenon, <2>1, <2>2, <2>3, <2>4 DEF WordVal, Bits16
<1>5. WordVal(c, Concrete!|(n, k), Symbolic!|(e, d))
  <2>1. Concrete!|(n, k) = Symbolic!BitOr(n, k)
    BY SameOperators DEF Concrete!|
  <2>2. Symbolic!BitOr(n, k) \in Int /\ Symbolic!BitOr(i, j) \in Int
    BY <1>3, BitRange
  <2>3. Symbolic!|(e, d) = E16(Symbolic!BitOr(i, j))
    BY <1>1, <1>2, Bitwise16
  <2>4. c => Symbolic!|(e, d) = E16(Symbolic!BitOr(n, k))
    BY <1>3, Bitwise16
  <2> QED BY Zenon, <2>1, <2>2, <2>3, <2>4 DEF WordVal, Bits16
<1> QED BY Zenon, <1>4, <1>5

LEMMA WordLiterals ==
  ASSUME NEW c, NEW n, NEW e, WordVal(c, n, e), NEW k \in Int
  PROVE  /\ WordVal(c, Concrete!++(n, Concrete!int(k)), Symbolic!++(e, Symbolic!int(k)))
         /\ WordVal(c, Concrete!&(n, Concrete!int(k)), Symbolic!&(e, Symbolic!int(k)))
         /\ WordVal(c, Concrete!|(n, Concrete!int(k)), Symbolic!|(e, Symbolic!int(k)))
<1>1. PICK i \in Int : e = E16(i)
  BY DEF WordVal, Bits16
<1>3. n \in Int /\ (c => e = E16(n))
  BY DEF WordVal
<1>4. WordVal(c, Concrete!++(n, Concrete!int(k)), Symbolic!++(e, Symbolic!int(k)))
  <2>1. Concrete!++(n, Concrete!int(k)) = n + k
    BY SameOperators DEF Concrete!++, Concrete!int
  <2>2. n + k \in Int /\ i + k \in Int
    BY <1>3, BitRange
  <2>3. Symbolic!++(e, Symbolic!int(k)) = E16(i + k)
    BY <1>1, Arithmetic
  <2>4. c => Symbolic!++(e, Symbolic!int(k)) = E16(n + k)
    BY <1>3, Arithmetic
  <2> QED BY Zenon, <2>1, <2>2, <2>3, <2>4 DEF WordVal, Bits16
<1>5. WordVal(c, Concrete!&(n, Concrete!int(k)), Symbolic!&(e, Symbolic!int(k)))
  <2>1. Concrete!&(n, Concrete!int(k)) = Symbolic!BitAnd(n, k)
    BY SameOperators DEF Concrete!&, Concrete!int
  <2>2. Symbolic!BitAnd(n, k) \in Int /\ Symbolic!BitAnd(i, k) \in Int
    BY <1>3, BitRange
  <2>3. Symbolic!&(e, Symbolic!int(k)) = E16(Symbolic!BitAnd(i, k))
    BY <1>1, Bitwise16
  <2>4. c => Symbolic!&(e, Symbolic!int(k)) = E16(Symbolic!BitAnd(n, k))
    BY <1>3, Bitwise16
  <2> QED BY Zenon, <2>1, <2>2, <2>3, <2>4 DEF WordVal, Bits16
<1>6. WordVal(c, Concrete!|(n, Concrete!int(k)), Symbolic!|(e, Symbolic!int(k)))
  <2>1. Concrete!|(n, Concrete!int(k)) = Symbolic!BitOr(n, k)
    BY SameOperators DEF Concrete!|, Concrete!int
  <2>2. Symbolic!BitOr(n, k) \in Int /\ Symbolic!BitOr(i, k) \in Int
    BY <1>3, BitRange
  <2>3. Symbolic!|(e, Symbolic!int(k)) = E16(Symbolic!BitOr(i, k))
    BY <1>1, Bitwise16
  <2>4. c => Symbolic!|(e, Symbolic!int(k)) = E16(Symbolic!BitOr(n, k))
    BY <1>3, Bitwise16
  <2> QED BY Zenon, <2>1, <2>2, <2>3, <2>4 DEF WordVal, Bits16
<1> QED BY Zenon, <1>4, <1>5, <1>6

LEMMA Conversions ==
  ASSUME NEW c, NEW n, NEW e
  PROVE  /\ IntVal(c, n, e) => /\ WordVal(c, Concrete!extend(n), Symbolic!extend(e))
                               /\ ByteVal(c, Concrete!byteVar(n), Symbolic!byteVar(e))
                               /\ IntVal(c, Concrete!shl(n), Symbolic!shl(e))
         /\ ByteVal(c, n, e) => IntVal(c, Concrete!shr(n), Symbolic!shr(e))
         /\ WordVal(c, n, e) => /\ WordVal(c, Concrete!wordVar(n), Symbolic!wordVar(e))
                                /\ ByteVal(c, Concrete!lobyte(n), Symbolic!lobyte(e))
                                /\ ByteVal(c, Concrete!hibyte(n), Symbolic!hibyte(e))
<1>1. ASSUME IntVal(c, n, e)
      PROVE  /\ WordVal(c, Concrete!extend(n), Symbolic!extend(e))
             /\ ByteVal(c, Concrete!byteVar(n), Symbolic!byteVar(e))
             /\ IntVal(c, Concrete!shl(n), Symbolic!shl(e))
  <2>1. PICK i \in Int : e = E8(i)
    BY <1>1 DEF IntVal, Bits8
  <2>2. n \in Int /\ (c => e = E8(n))
    BY <1>1 DEF IntVal
  <2>3. WordVal(c, Concrete!extend(n), Symbolic!extend(e))
    <3>1. Concrete!extend(n) = Low(n)
      BY SameNumbers DEF Concrete!extend
    <3>2. Symbolic!extend(e) = E16(Low(i))
      BY <2>1, Unary
    <3>3. c => Symbolic!extend(e) = E16(Low(n))
      BY <2>2, Unary
    <3>4. Low(n) \in Int /\ Low(i) \in Int
      BY <2>2, Truncations
    <3> QED BY Zenon, <3>1, <3>2, <3>3, <3>4 DEF WordVal, Bits16
  <2>4. ByteVal(c, Concrete!byteVar(n), Symbolic!byteVar(e))
    <3>1. Concrete!byteVar(n) = Low(n) /\ Symbolic!byteVar(e) = e
      BY SameNumbers DEF Concrete!byteVar, Symbolic!byteVar
    <3>2. Low(n) \in Int /\ Low(n) \in Byte /\ E8(Low(n)) = E8(n)
      BY <2>2, Truncations
    <3> QED BY Zenon, <1>1, <3>1, <3>2 DEF ByteVal, IntVal
  <2>5. IntVal(c, Concrete!shl(n), Symbolic!shl(e))
    <3>1. Concrete!shl(n) = Wrap(2 * Wrap(n))
      BY SameNumbers DEF Concrete!shl
    <3>2. Symbolic!shl(e) = E8(2 * i) /\ 2 * i \in Int
      BY <2>1, Unary
    <3>3. c => Symbolic!shl(e) = E8(2 * n)
      BY <2>2, Unary
    <3>4. Wrap(2 * Wrap(n)) \in Int /\ Low(Wrap(2 * Wrap(n))) = Low(2 * n)
      BY <2>2 DEF Low, Wrap
    <3>5. E8(Wrap(2 * Wrap(n))) = E8(2 * n)
      BY Zenon, <3>4 DEF E8
    <3> QED BY Zenon, <3>1, <3>2, <3>3, <3>4, <3>5 DEF IntVal, Bits8
  <2> QED BY <2>3, <2>4, <2>5
<1>2. ASSUME ByteVal(c, n, e)
      PROVE  IntVal(c, Concrete!shr(n), Symbolic!shr(e))
  <2>1. PICK i \in Int : e = E8(i)
    BY <1>2 DEF ByteVal, IntVal, Bits8
  <2>2. n \in Byte /\ n \in Int /\ (c => e = E8(n))
    BY <1>2 DEF ByteVal, IntVal
  <2>3. Concrete!shr(n) = Low(n) \div 2
    BY <2>2, SameNumbers, ByteNumbers DEF Concrete!shr
  <2>4. Symbolic!shr(e) = E8(Low(i) \div 2) /\ (c => Symbolic!shr(e) = E8(Low(n) \div 2))
    BY <2>1, <2>2, Unary
  <2>5. Low(i) \div 2 \in Int /\ Low(n) \div 2 \in Int
    BY <2>2 DEF Low
  <2> QED BY Zenon, <2>3, <2>4, <2>5 DEF IntVal, Bits8
<1>3. ASSUME WordVal(c, n, e)
      PROVE  /\ WordVal(c, Concrete!wordVar(n), Symbolic!wordVar(e))
             /\ ByteVal(c, Concrete!lobyte(n), Symbolic!lobyte(e))
             /\ ByteVal(c, Concrete!hibyte(n), Symbolic!hibyte(e))
  <2>1. PICK i \in Int : e = E16(i)
    BY <1>3 DEF WordVal, Bits16
  <2>2. n \in Int /\ (c => e = E16(n))
    BY <1>3 DEF WordVal
  <2>3. WordVal(c, Concrete!wordVar(n), Symbolic!wordVar(e))
    <3>1. Concrete!wordVar(n) = Wrap(n) /\ Symbolic!wordVar(e) = e
      BY SameNumbers DEF Concrete!wordVar, Symbolic!wordVar
    <3>2. Wrap(n) \in Int /\ E16(Wrap(n)) = E16(n)
      BY Zenon, <2>2, Truncations
    <3> QED BY Zenon, <1>3, <3>1, <3>2 DEF WordVal
  <2>4. ByteVal(c, Concrete!lobyte(n), Symbolic!lobyte(e))
    <3>1. Concrete!lobyte(n) = Low(n)
      BY SameNumbers DEF Concrete!lobyte
    <3>2. Symbolic!lobyte(e) = E8(i) /\ (c => Symbolic!lobyte(e) = E8(n))
      BY <2>1, <2>2, Unary
    <3>3. Low(n) \in Int /\ Low(n) \in Byte /\ E8(Low(n)) = E8(n)
      BY <2>2, Truncations
    <3> QED BY Zenon, <3>1, <3>2, <3>3 DEF ByteVal, IntVal, Bits8
  <2>5. ByteVal(c, Concrete!hibyte(n), Symbolic!hibyte(e))
    <3>1. Concrete!hibyte(n) = Wrap(n) \div 256
      BY SameNumbers DEF Concrete!hibyte
    <3>2. Symbolic!hibyte(e) = E8(Wrap(i) \div 256)
      BY <2>1, Unary
    <3>3. c => Symbolic!hibyte(e) = E8(Wrap(n) \div 256)
      BY <2>2, Unary
    <3>4. Wrap(n) \div 256 \in Byte /\ Wrap(n) \div 256 \in Int /\ Wrap(i) \div 256 \in Int
      BY <2>2 DEF Wrap, Byte
    <3> QED BY Zenon, <3>1, <3>2, <3>3, <3>4 DEF ByteVal, IntVal, Bits8
  <2> QED BY <2>3, <2>4, <2>5
<1> QED BY Zenon, <1>1, <1>2, <1>3

LEMMA TruthOf ==
  ASSUME NEW b, b \in BOOLEAN
  PROVE  EB(b) \in Truths
BY Zenon DEF Truths

LEMMA IntComparisons ==
  ASSUME NEW c, NEW n, NEW e, IntVal(c, n, e), NEW k, NEW d, IntVal(c, k, d)
  PROVE  TruthVal(c, Concrete!uge(n, k), Symbolic!uge(e, d))
<1>1. PICK i \in Int : e = E8(i)
  BY DEF IntVal, Bits8
<1>2. PICK j \in Int : d = E8(j)
  BY DEF IntVal, Bits8
<1>3. n \in Int /\ k \in Int /\ (c => e = E8(n) /\ d = E8(k))
  BY DEF IntVal
<1>4. Concrete!uge(n, k) <=> Low(n) >= Low(k)
  BY SameNumbers DEF Concrete!uge
<1>5. Concrete!uge(n, k) \in BOOLEAN
  BY DEF Concrete!uge
<1>6. Symbolic!uge(e, d) = EB(Low(i) >= Low(j))
  BY <1>1, <1>2, Comparisons
<1>7. c => Symbolic!uge(e, d) = EB(Low(n) >= Low(k))
  BY <1>3, Comparisons
<1>8. (Low(i) >= Low(j)) \in BOOLEAN
  OBVIOUS
<1>9. Symbolic!uge(e, d) \in Truths
  BY Zenon, <1>6, <1>8, TruthOf
<1>10. EB(Low(n) >= Low(k)) = EB(Concrete!uge(n, k))
  BY SameNumbers DEF Concrete!uge
<1> QED BY Zenon, <1>5, <1>7, <1>9, <1>10 DEF TruthVal

LEMMA LiteralVal ==
  ASSUME NEW c, NEW n \in Byte
  PROVE  ByteVal(c, n, E8(n))
BY ByteNumbers DEF ByteVal, IntVal, Bits8

LEMMA IntLiteralComparison ==
  ASSUME NEW c, NEW n, NEW e, IntVal(c, n, e), NEW k \in Byte
  PROVE  TruthVal(c, Concrete!uge(n, Concrete!int(k)), Symbolic!uge(e, Symbolic!int(k)))
<1>1. PICK i \in Int : e = E8(i)
  BY DEF IntVal, Bits8
<1>2. k \in Int
  BY ByteNumbers
<1>3. Symbolic!uge(e, Symbolic!int(k)) = Symbolic!uge(e, E8(k))
  BY <1>1, <1>2, Comparisons
<1>4. IntVal(c, k, E8(k))
  BY LiteralVal DEF ByteVal
<1>5. Concrete!int(k) = k
  BY DEF Concrete!int
<1> QED BY <1>3, <1>4, <1>5, IntComparisons

LEMMA ByteEquality ==
  ASSUME NEW c, NEW n, NEW e, ByteVal(c, n, e), NEW k, NEW d, ByteVal(c, k, d)
  PROVE  TruthVal(c, Concrete!\doteq(n, k), Symbolic!\doteq(e, d))
<1>1. PICK i \in Int : e = E8(i)
  BY DEF ByteVal, IntVal, Bits8
<1>2. PICK j \in Int : d = E8(j)
  BY DEF ByteVal, IntVal, Bits8
<1>3. n \in Int /\ k \in Int /\ n \in Byte /\ k \in Byte /\ (c => e = E8(n) /\ d = E8(k))
  BY DEF ByteVal, IntVal
<1>4. Symbolic!\doteq(e, d) = EB(Low(i) = Low(j))
  BY <1>1, <1>2, Comparisons
<1>5. c => Symbolic!\doteq(e, d) = EB(Low(n) = Low(k))
  BY <1>3, Comparisons
<1>6. (Low(n) = Low(k)) = Concrete!\doteq(n, k)
  BY <1>3, ByteNumbers DEF Concrete!\doteq
<1>7. /\ (Low(i) = Low(j)) \in BOOLEAN
      /\ Concrete!\doteq(n, k) \in BOOLEAN
  BY DEF Concrete!\doteq
<1>8. Symbolic!\doteq(e, d) \in Truths
  BY Zenon, <1>4, <1>7, TruthOf
<1> QED BY Zenon, <1>5, <1>6, <1>7, <1>8 DEF TruthVal

LEMMA ByteLiteralEquality ==
  ASSUME NEW c, NEW n, NEW e, ByteVal(c, n, e), NEW k \in Byte
  PROVE  TruthVal(c, Concrete!\doteq(n, Concrete!int(k)), Symbolic!\doteq(e, Symbolic!int(k)))
<1>1. PICK i \in Int : e = E8(i)
  BY DEF ByteVal, IntVal, Bits8
<1>2. Symbolic!\doteq(e, Symbolic!int(k)) = Symbolic!\doteq(e, E8(k))
  BY <1>1, ByteNumbers, Comparisons
<1>3. ByteVal(c, k, E8(k))
  BY LiteralVal
<1>4. Concrete!int(k) = k
  BY DEF Concrete!int
<1> QED BY <1>2, <1>3, <1>4, ByteEquality

LEMMA HasBitVal ==
  ASSUME NEW c, NEW n, NEW e, IntVal(c, n, e), NEW k \in Byte
  PROVE  TruthVal(c, Concrete!Emulator!HasBit(n, k), Symbolic!Emulator!HasBit(e, k))
<1>1. k \in Int /\ n \in Int
  BY ByteNumbers DEF IntVal
<1>2. IntVal(c, Concrete!&(n, Concrete!int(k)), Symbolic!&(e, Symbolic!int(k)))
  BY <1>1, IntLiterals
<1>3. Concrete!&(n, Concrete!int(k)) = Symbolic!BitAnd(n, k)
  BY <1>1, SameOperators DEF Concrete!&, Concrete!int
<1>4. Concrete!&(n, Concrete!int(k)) \in Byte
  BY <1>1, <1>3, AndOfByte
<1>5. ByteVal(c, Concrete!&(n, Concrete!int(k)), Symbolic!&(e, Symbolic!int(k)))
  BY <1>2, <1>4 DEF ByteVal
<1> QED BY <1>5, ByteLiteralEquality DEF Concrete!Emulator!HasBit, Symbolic!Emulator!HasBit

LEMMA NotVal ==
  ASSUME NEW c, NEW b, NEW e, TruthVal(c, b, e)
  PROVE  TruthVal(c, Concrete!not(b), Symbolic!not(e))
<1>1. PICK t \in BOOLEAN : e = EB(t)
  BY Zenon DEF TruthVal, Truths
<1>2. Symbolic!not(e) = EB(~t)
  BY Zenon, <1>1, NotOf
<1>3. b \in BOOLEAN /\ (c => e = EB(b))
  BY Zenon DEF TruthVal
<1>4. c => Symbolic!not(e) = EB(~b)
  BY Zenon, <1>3, NotOf
<1>5. Concrete!not(b) = ~b /\ (~b) \in BOOLEAN /\ (~t) \in BOOLEAN
  BY Zenon, <1>3 DEF Concrete!not
<1> QED BY Zenon, <1>2, <1>4, <1>5, TruthOf DEF TruthVal

\* The 1 or the 0 for a flag, and the digit for a flag.
LEMMA PickVal ==
  ASSUME NEW c, NEW b, NEW e, TruthVal(c, b, e), NEW k \in Byte
  PROVE  ByteVal(c, Concrete!Emulator!Pick(b, k), Symbolic!Emulator!Pick(e, k))
<1>1. PICK t \in BOOLEAN : e = EB(t)
  BY Zenon DEF TruthVal, Truths
<1>2. b \in BOOLEAN /\ (c => e = EB(b)) /\ k \in Int /\ 0 \in Int /\ 0 \in Byte
  BY ByteNumbers DEF TruthVal, Byte
<1>3. Symbolic!Emulator!Pick(e, k) = E8(IF t THEN k ELSE 0)
  BY <1>1, <1>2, Conditions DEF Symbolic!Emulator!Pick
<1>4. c => Symbolic!Emulator!Pick(e, k) = E8(IF b THEN k ELSE 0)
  <2>1. Symbolic!Emulator!Pick(EB(b), k) = E8(IF b THEN k ELSE 0)
    BY <1>2, Conditions DEF Symbolic!Emulator!Pick
  <2> QED BY Zenon, <1>2, <2>1
<1>5. Concrete!Emulator!Pick(b, k) = IF b THEN k ELSE 0
  BY <1>2, ByteNumbers, SameNumbers DEF Concrete!Emulator!Pick, Concrete!ite, Concrete!int
<1>6. (IF b THEN k ELSE 0) \in Byte /\ (IF b THEN k ELSE 0) \in Int /\ (IF t THEN k ELSE 0) \in Int
  BY Zenon, <1>2
<1> QED BY Zenon, <1>3, <1>4, <1>5, <1>6 DEF ByteVal, IntVal, Bits8

-----------------------------------------------------------------------------
(* The states of the two machines.                                         *)

Fields == Register \cup Flag \cup {"exit"}
Given  == {"seed", "init", "absolute", "zp", "immediate"}

MemoryOK(p) ==
    /\ p \in Seq(Words \X Byte)
    /\ \A i, j \in DOMAIN p : p[i][1] = p[j][1] => i = j

ConcreteOK(m) ==
    /\ Fields \cup Given \cup {"written"} \subseteq DOMAIN m
    /\ \A r \in Register : m[r] \in Byte
    /\ \A f \in Flag : m[f] \in BOOLEAN
    /\ m.exit \in Exits
    /\ MemoryOK(m.written)

StoreOK(g) == DOMAIN g \subseteq Int /\ \A i \in DOMAIN g : g[i] \in Int

SymbolicOK(s) ==
    /\ Fields \cup {"memory", "thrown", "valuation"} \subseteq DOMAIN s
    /\ s.thrown = FALSE
    /\ \A r \in Register : s[r] \in Bits8
    /\ \A f \in Flag : s[f] \in Truths
    /\ s.exit \in Bits17
    /\ StoreOK(s.memory)

\* The machine m with which the valuation v began.
GivenOK(m, v) ==
    /\ \A g \in Given : m[g] = v[g]
    /\ v.written = <<>>
    /\ v.seed \in Words \X Words
    /\ v.init \in Words \X Words
    /\ v.absolute \in [0 .. 3 -> Words]
    /\ v.zp \in [0 .. 3 -> Byte]
    /\ v.immediate \in [0 .. 3 -> Byte]

SameMemory(p, g) ==
    /\ {p[i][1] : i \in DOMAIN p} = DOMAIN g
    /\ \A i \in DOMAIN p : g[p[i][1]] = p[i][2]

\* The tag of the target of a branch is missing in one of them.
SameExit(n, e) == Wrap(n) = Wrap(e.v) /\ (n = 0 <=> e.v = 0)

Same(m, s) ==
    /\ \A r \in Register : s[r] = E8(m[r])
    /\ \A f \in Flag : s[f] = EB(m[f])
    /\ SameMemory(m.written, s.memory)
    /\ SameExit(m.exit, s.exit)

Both(c, m, s) ==
    /\ ConcreteOK(m)
    /\ SymbolicOK(s)
    /\ GivenOK(m, s.valuation)
    /\ c => Same(m, s)

\* The machines move from m and s to n and t, with at most k addresses more, or
\* stay where they are because they have left the sequence.
Moves(c, k, m, s, n, t) ==
    /\ Both(c, n, t)
    /\ m.exit # 0 => n = m
    /\ s.exit.v # 0 => t = s
    /\ Len(n.written) \in Nat /\ Len(n.written) <= Len(m.written) + k

\* Nothing but the field f of m has been changed in n, to val.
Updated(m, n, f, val) ==
    /\ DOMAIN n = DOMAIN m
    /\ n[f] = val
    /\ \A g \in DOMAIN m : g # f => n[g] = m[g]

LEMMA SetField ==
  ASSUME NEW m, NEW f \in DOMAIN m, NEW val
  PROVE  Updated(m, [m EXCEPT ![f] = val], f, val)
BY DEF Updated

LEMMA FieldNames ==
  /\ \A r \in Register : r \in Fields /\ r \notin Flag /\ r # "exit" /\ r # "written"
                         /\ r # "memory" /\ r # "thrown" /\ r # "valuation" /\ r \notin Given
  /\ \A f \in Flag : f \in Fields /\ f \notin Register /\ f # "exit" /\ f # "written"
                     /\ f # "memory" /\ f # "thrown" /\ f # "valuation" /\ f \notin Given
  /\ "exit" \in Fields /\ "exit" \notin Flag /\ "exit" \notin Register
  /\ "exit" \notin Given /\ "written" \notin Given
  /\ "written" \notin Fields /\ "memory" \notin Fields
  /\ "thrown" \notin Fields /\ "valuation" \notin Fields
  /\ \A g \in Given : g \notin Fields
BY DEF Fields, Register, Flag, Given

LEMMA SameNames ==
  /\ Concrete!Register = Register /\ Concrete!Flag = Flag
  /\ Symbolic!Register = Register /\ Symbolic!Flag = Flag
  /\ Concrete!Tag = Tag /\ Symbolic!Tag = Tag
BY DEF Concrete!Register, Concrete!Flag, Symbolic!Register, Symbolic!Flag, Register, Flag,
   Concrete!Tag, Symbolic!Tag, Tag

\* The exit of one machine for that of the other.
ExitVal(c, n, e) == n \in Exits /\ e \in Bits17 /\ (c => SameExit(n, e))

\* The value n and the expression e may be put into the field f.
Fits(c, f, n, e) ==
    /\ f \in Register => ByteVal(c, n, e)
    /\ f \in Flag => TruthVal(c, n, e)
    /\ f = "exit" => ExitVal(c, n, e)

LEMMA ConcreteUpdate ==
  ASSUME NEW c, NEW m, ConcreteOK(m), NEW f \in Fields, NEW val, NEW e, Fits(c, f, val, e),
         NEW n, Updated(m, n, f, val)
  PROVE  /\ ConcreteOK(n)
         /\ n.written = m.written
         /\ \A g \in Given : n[g] = m[g]
<1>1. Fields \cup Given \cup {"written"} \subseteq DOMAIN m
  BY Zenon DEF ConcreteOK
<1>2. DOMAIN n = DOMAIN m /\ n[f] = val /\ \A g \in DOMAIN m : g # f => n[g] = m[g]
  BY Zenon DEF Updated
<1>3. f \in Register => val \in Byte
  BY Zenon DEF Fits, ByteVal
<1>4. f \in Flag => val \in BOOLEAN
  BY Zenon DEF Fits, TruthVal
<1>5. f = "exit" => val \in Exits
  BY Zenon DEF Fits, ExitVal
<1>6. \A r \in Register : n[r] \in Byte
  <2>1. SUFFICES ASSUME NEW r \in Register PROVE n[r] \in Byte
    OBVIOUS
  <2>2. CASE r = f
    BY Zenon, <2>2, <1>2, <1>3
  <2>3. CASE r # f
    BY Zenon, <2>3, <1>1, <1>2, FieldNames DEF ConcreteOK
  <2> QED BY Zenon, <2>2, <2>3
<1>7. \A r \in Flag : n[r] \in BOOLEAN
  <2>1. SUFFICES ASSUME NEW r \in Flag PROVE n[r] \in BOOLEAN
    OBVIOUS
  <2>2. CASE r = f
    BY Zenon, <2>2, <1>2, <1>4
  <2>3. CASE r # f
    BY Zenon, <2>3, <1>1, <1>2, FieldNames DEF ConcreteOK
  <2> QED BY Zenon, <2>2, <2>3
<1>8. n.exit \in Exits
  <2>1. CASE f = "exit"
    BY Zenon, <2>1, <1>2, <1>5
  <2>2. CASE f # "exit"
    BY Zenon, <2>2, <1>1, <1>2, FieldNames DEF ConcreteOK
  <2> QED BY Zenon, <2>1, <2>2
<1>9. n.written = m.written
  BY Zenon, <1>1, <1>2, FieldNames
<1>10. \A g \in Given : n[g] = m[g]
  BY Zenon, <1>1, <1>2, FieldNames
<1>11. ConcreteOK(n)
  BY Zenon, <1>1, <1>2, <1>6, <1>7, <1>8, <1>9 DEF ConcreteOK
<1> QED BY Zenon, <1>9, <1>10, <1>11

LEMMA SymbolicUpdate ==
  ASSUME NEW c, NEW s, SymbolicOK(s), NEW f \in Fields, NEW val, NEW e, Fits(c, f, val, e),
         NEW t, Updated(s, t, f, e)
  PROVE  /\ SymbolicOK(t)
         /\ t.memory = s.memory
         /\ t.valuation = s.valuation
<1>1. Fields \cup {"memory", "thrown", "valuation"} \subseteq DOMAIN s
  BY Zenon DEF SymbolicOK
<1>2. DOMAIN t = DOMAIN s /\ t[f] = e /\ \A g \in DOMAIN s : g # f => t[g] = s[g]
  BY Zenon DEF Updated
<1>3. f \in Register => e \in Bits8
  BY Zenon DEF Fits, ByteVal, IntVal
<1>4. f \in Flag => e \in Truths
  BY Zenon DEF Fits, TruthVal
<1>5. f = "exit" => e \in Bits17
  BY Zenon DEF Fits, ExitVal
<1>6. \A r \in Register : t[r] \in Bits8
  <2>1. SUFFICES ASSUME NEW r \in Register PROVE t[r] \in Bits8
    OBVIOUS
  <2>2. CASE r = f
    BY Zenon, <2>2, <1>2, <1>3
  <2>3. CASE r # f
    BY Zenon, <2>3, <1>1, <1>2, FieldNames DEF SymbolicOK
  <2> QED BY Zenon, <2>2, <2>3
<1>7. \A r \in Flag : t[r] \in Truths
  <2>1. SUFFICES ASSUME NEW r \in Flag PROVE t[r] \in Truths
    OBVIOUS
  <2>2. CASE r = f
    BY Zenon, <2>2, <1>2, <1>4
  <2>3. CASE r # f
    BY Zenon, <2>3, <1>1, <1>2, FieldNames DEF SymbolicOK
  <2> QED BY Zenon, <2>2, <2>3
<1>8. t.exit \in Bits17
  <2>1. CASE f = "exit"
    BY Zenon, <2>1, <1>2, <1>5
  <2>2. CASE f # "exit"
    BY Zenon, <2>2, <1>1, <1>2, FieldNames DEF SymbolicOK
  <2> QED BY Zenon, <2>1, <2>2
<1>9. t.memory = s.memory /\ t.valuation = s.valuation /\ t.thrown = s.thrown
  BY Zenon, <1>1, <1>2, FieldNames
<1>10. SymbolicOK(t)
  BY Zenon, <1>1, <1>2, <1>6, <1>7, <1>8, <1>9 DEF SymbolicOK
<1> QED BY Zenon, <1>9, <1>10

LEMMA BothUpdate ==
  ASSUME NEW c, NEW m, NEW s, Both(c, m, s),
         NEW f \in Fields, NEW val, NEW e, Fits(c, f, val, e),
         NEW n, Updated(m, n, f, val), NEW t, Updated(s, t, f, e)
  PROVE  /\ Both(c, n, t)
         /\ n.written = m.written
         /\ t.valuation = s.valuation
<1>1. ConcreteOK(m) /\ SymbolicOK(s) /\ GivenOK(m, s.valuation)
  BY Zenon DEF Both
<1>2. ConcreteOK(n) /\ n.written = m.written /\ \A g \in Given : n[g] = m[g]
  BY <1>1, ConcreteUpdate
<1>3. SymbolicOK(t) /\ t.memory = s.memory /\ t.valuation = s.valuation
  BY <1>1, SymbolicUpdate
<1>4. GivenOK(n, t.valuation)
  BY Zenon, <1>1, <1>2, <1>3 DEF GivenOK
<1>5. ASSUME c PROVE Same(n, t)
  <2>1. Same(m, s)
    BY Zenon, <1>5 DEF Both
  <2>2. Fields \subseteq DOMAIN m /\ Fields \subseteq DOMAIN s
    BY Zenon, <1>1 DEF ConcreteOK, SymbolicOK
  <2>3. /\ n[f] = val /\ \A g \in Fields : g # f => n[g] = m[g]
        /\ t[f] = e /\ \A g \in Fields : g # f => t[g] = s[g]
    BY Zenon, <2>2 DEF Updated
  <2>4. \A r \in Register : t[r] = E8(n[r])
    <3>1. f \in Register => e = E8(val)
      BY Zenon, <1>5 DEF Fits, ByteVal, IntVal
    <3>2. SUFFICES ASSUME NEW r \in Register PROVE t[r] = E8(n[r])
      OBVIOUS
    <3>3. CASE r = f
      BY Zenon, <3>1, <3>3, <2>3
    <3>4. CASE r # f
      BY Zenon, <3>4, <2>1, <2>3, FieldNames DEF Same
    <3> QED BY Zenon, <3>3, <3>4
  <2>5. \A r \in Flag : t[r] = EB(n[r])
    <3>1. f \in Flag => e = EB(val)
      BY Zenon, <1>5 DEF Fits, TruthVal
    <3>2. SUFFICES ASSUME NEW r \in Flag PROVE t[r] = EB(n[r])
      OBVIOUS
    <3>3. CASE r = f
      BY Zenon, <3>1, <3>3, <2>3
    <3>4. CASE r # f
      BY Zenon, <3>4, <2>1, <2>3, FieldNames DEF Same
    <3> QED BY Zenon, <3>3, <3>4
  <2>6. SameExit(n.exit, t.exit)
    <3>1. CASE f = "exit"
      BY Zenon, <1>5, <3>1, <2>3 DEF Fits, ExitVal
    <3>2. CASE f # "exit"
      BY Zenon, <3>2, <2>1, <2>3, FieldNames DEF Same
    <3> QED BY Zenon, <3>1, <3>2
  <2>7. SameMemory(n.written, t.memory)
    BY Zenon, <1>2, <1>3, <2>1 DEF Same
  <2> QED BY Zenon, <2>4, <2>5, <2>6, <2>7 DEF Same
<1> QED BY Zenon, <1>2, <1>3, <1>4, <1>5 DEF Both

LEMMA LengthOf ==
  ASSUME NEW c, NEW m, NEW s, Both(c, m, s)
  PROVE  Len(m.written) \in Nat
<1>1. m.written \in Seq(Words \X Byte)
  BY Zenon DEF Both, ConcreteOK, MemoryOK
<1> QED BY <1>1

\* A step under the guards of both machines.
LEMMA Guarded ==
  ASSUME NEW c, NEW m, NEW s, Both(c, m, s), NEW n, NEW t, Both(c, n, t),
         t.valuation = s.valuation,
         NEW k \in {0, 1}, Len(n.written) <= Len(m.written) + k
  PROVE  Moves(c, k, m, s, IF m.exit # 0 THEN m ELSE n, IF s.exit.v # 0 THEN s ELSE t)
<1> DEFINE m1 == IF m.exit # 0 THEN m ELSE n
           s1 == IF s.exit.v # 0 THEN s ELSE t
<1>1. Both(c, m1, s1)
  <2>1. ConcreteOK(m1) /\ SymbolicOK(s1) /\ GivenOK(m1, s1.valuation)
    BY Zenon DEF Both
  <2>2. ASSUME c PROVE Same(m1, s1)
    <3>1. Same(m, s) /\ Same(n, t)
      BY Zenon, <2>2 DEF Both
    <3>2. m.exit = 0 <=> s.exit.v = 0
      BY Zenon, <3>1 DEF Same, SameExit
    <3> QED BY Zenon, <3>1, <3>2
  <2> QED BY Zenon, <2>1, <2>2 DEF Both
<1>2. Len(m1.written) \in Nat
  BY Zenon, LengthOf
<1>3. Len(m1.written) <= Len(m.written) + k
  <2>1. CASE m.exit # 0
    <3>1. m1 = m
      BY Zenon, <2>1
    <3>2. Len(m.written) \in Nat
      BY Zenon, LengthOf
    <3> QED BY <3>1, <3>2
  <2>2. CASE m.exit = 0
    BY <2>2
  <2> QED BY <2>1, <2>2
<1> QED BY Zenon, <1>1, <1>2, <1>3 DEF Moves

LEMMA Chained ==
  ASSUME NEW c, NEW m, NEW s, NEW n, NEW t, NEW o, NEW u, NEW j \in {0, 1}, NEW k \in {0, 1},
         Len(m.written) \in Nat,
         Moves(c, j, m, s, n, t), Moves(c, k, n, t, o, u), j + k \in {0, 1}
  PROVE  Moves(c, j + k, m, s, o, u)
<1>1. Both(c, o, u) /\ (m.exit # 0 => o = m) /\ (s.exit.v # 0 => u = s)
  BY Zenon DEF Moves
<1>2. /\ Len(o.written) \in Nat /\ Len(n.written) \in Nat
      /\ Len(o.written) <= Len(n.written) + k
      /\ Len(n.written) <= Len(m.written) + j
  BY Zenon DEF Moves
<1>3. Len(o.written) <= Len(m.written) + (j + k)
  <2>1. PICK x \in Nat, y \in Nat, z \in Nat :
          x = Len(m.written) /\ y = Len(n.written) /\ z = Len(o.written)
    BY <1>2
  <2>2. z <= y + k /\ y <= x + j
    BY <1>2, <2>1
  <2>3. z <= x + (j + k)
    BY <2>2
  <2> QED BY <2>1, <2>3
<1> QED BY Zenon, <1>1, <1>2, <1>3 DEF Moves

LEMMA SortsOf ==
  ASSUME NEW t, SymbolicOK(t)
  PROVE  \A f \in Fields : t[f].w = Symbolic!SortOf(f)
<1>1. \A e \in Bits8 : e.w = 8
  BY DEF Bits8, E8
<1>2. \A e \in Truths : e.w = 0
  BY DEF Truths, EB
<1>3. \A e \in Bits17 : e.w = 17
  BY DEF Bits17, E17
<1>4. \A f \in Register : t[f].w = Symbolic!SortOf(f)
  BY Zenon, <1>1, SameNames DEF SymbolicOK, Symbolic!SortOf
<1>5. \A f \in Flag : t[f].w = Symbolic!SortOf(f)
  BY Zenon, <1>2, SameNames, SortNames, FieldNames DEF SymbolicOK, Symbolic!SortOf
<1>6. t.exit.w = Symbolic!SortOf("exit")
  BY Zenon, <1>3, SameNames, FieldNames DEF SymbolicOK, Symbolic!SortOf
<1> QED BY Zenon, <1>4, <1>5, <1>6 DEF Fields

LEMMA SymbolicGuard ==
  ASSUME NEW s, SymbolicOK(s), NEW t, SymbolicOK(t)
  PROVE  Symbolic!E(s, t) = IF s.exit.v # 0 THEN s ELSE t
<1>1. s.thrown = FALSE
  BY Zenon DEF SymbolicOK
<1>2. \A f \in Fields : t[f].w = Symbolic!SortOf(f)
  BY Zenon, SortsOf
<1>3. Fields = Symbolic!Register \cup Symbolic!Flag \cup {"exit"}
  BY Zenon, SameNames DEF Fields
<1> QED BY Zenon, <1>1, <1>2, <1>3 DEF Symbolic!E

\* An assignment to one field under the guards.
LEMMA GuardedUpdate ==
  ASSUME NEW c, NEW m, NEW s, Both(c, m, s),
         NEW f \in Fields, NEW val, NEW e, Fits(c, f, val, e),
         NEW n, Updated(m, n, f, val), NEW t, Updated(s, t, f, e)
  PROVE  Moves(c, 0, m, s, Concrete!E(m, n), Symbolic!E(s, t))
<1>1. Both(c, n, t) /\ n.written = m.written /\ t.valuation = s.valuation
  BY BothUpdate
<1>2. Len(m.written) \in Nat
  BY Zenon, LengthOf
<1>3. Len(n.written) <= Len(m.written) + 0
  BY <1>1, <1>2
<1>4. Concrete!E(m, n) = IF m.exit # 0 THEN m ELSE n
  BY Zenon DEF Concrete!E
<1>5. Symbolic!E(s, t) = IF s.exit.v # 0 THEN s ELSE t
  BY Zenon, <1>1, SymbolicGuard DEF Both
<1>6. 0 \in {0, 1}
  OBVIOUS
<1> QED BY Zenon, <1>1, <1>3, <1>4, <1>5, <1>6, Guarded

LEMMA FieldsIn ==
  ASSUME NEW c, NEW m, NEW s, Both(c, m, s)
  PROVE  Fields \subseteq DOMAIN m /\ Fields \subseteq DOMAIN s
BY Zenon DEF Both, ConcreteOK, SymbolicOK

LEMMA AssignRegister ==
  ASSUME NEW c, NEW m, NEW s, Both(c, m, s), NEW r \in Register, NEW n, NEW e, IntVal(c, n, e)
  PROVE  Moves(c, 0, m, s, Concrete!assign(m, r, n), Symbolic!assign(s, r, e))
<1>1. r \in Fields /\ r \in DOMAIN m /\ r \in DOMAIN s
  BY Zenon, FieldsIn, FieldNames
<1>2. Updated(m, [m EXCEPT ![r] = Low(n)], r, Low(n)) /\ Updated(s, [s EXCEPT ![r] = e], r, e)
  BY Zenon, <1>1, SetField
<1>3. ByteVal(c, Low(n), e)
  <2>1. n \in Int
    BY Zenon DEF IntVal
  <2> QED BY Zenon, <2>1, Truncations DEF ByteVal, IntVal
<1>4. Fits(c, r, Low(n), e)
  BY Zenon, <1>3, FieldNames DEF Fits
<1>5. Concrete!assign(m, r, n) = Concrete!E(m, [m EXCEPT ![r] = Low(n)])
  BY Zenon, FieldNames, SameNames, SameNumbers DEF Concrete!assign
<1>6. Symbolic!assign(s, r, e) = Symbolic!E(s, [s EXCEPT ![r] = e])
  BY Zenon DEF Symbolic!assign
<1>7. Moves(c, 0, m, s, Concrete!E(m, [m EXCEPT ![r] = Low(n)]), Symbolic!E(s, [s EXCEPT ![r] = e]))
  BY Zenon, <1>1, <1>2, <1>4, GuardedUpdate
<1> QED BY Zenon, <1>5, <1>6, <1>7

LEMMA AssignFlag ==
  ASSUME NEW c, NEW m, NEW s, Both(c, m, s), NEW f \in Flag, NEW b, NEW e, TruthVal(c, b, e)
  PROVE  Moves(c, 0, m, s, Concrete!assign(m, f, b), Symbolic!assign(s, f, e))
<1>1. f \in Fields /\ f \in DOMAIN m /\ f \in DOMAIN s
  BY Zenon, FieldsIn, FieldNames
<1>2. Updated(m, [m EXCEPT ![f] = b], f, b) /\ Updated(s, [s EXCEPT ![f] = e], f, e)
  BY Zenon, <1>1, SetField
<1>4. Fits(c, f, b, e)
  BY Zenon, FieldNames DEF Fits
<1>5. Concrete!assign(m, f, b) = Concrete!E(m, [m EXCEPT ![f] = b])
  BY Zenon, SameNames DEF Concrete!assign
<1>6. Symbolic!assign(s, f, e) = Symbolic!E(s, [s EXCEPT ![f] = e])
  BY Zenon DEF Symbolic!assign
<1>7. Moves(c, 0, m, s, Concrete!E(m, [m EXCEPT ![f] = b]), Symbolic!E(s, [s EXCEPT ![f] = e]))
  BY Zenon, <1>1, <1>2, <1>4, GuardedUpdate
<1> QED BY Zenon, <1>5, <1>6, <1>7

LEMMA SetSZMoves ==
  ASSUME NEW c, NEW m, NEW s, Both(c, m, s), NEW n, NEW e, IntVal(c, n, e)
  PROVE  Moves(c, 0, m, s, Concrete!setSZ(m, n), Symbolic!setSZ(s, e))
<1> DEFINE b1 == Concrete!Low(n) >= 128
           b2 == Concrete!Low(n) = 0
           e1 == Symbolic!Uge(e, Symbolic!int(128))
           e2 == Symbolic!Eq(e, Symbolic!int(0))
           n1 == [m EXCEPT !["S"] = b1]
           n2 == [n1 EXCEPT !["Z"] = b2]
           t1 == [s EXCEPT !["S"] = e1]
           t2 == [t1 EXCEPT !["Z"] = e2]
<1>1. TruthVal(c, b1, e1)
  <2>1. 128 \in Byte /\ Low(128) = 128
    BY DEF Byte, Low
  <2>2. TruthVal(c, Concrete!uge(n, Concrete!int(128)), Symbolic!uge(e, Symbolic!int(128)))
    BY <2>1, IntLiteralComparison
  <2>3. Concrete!uge(n, Concrete!int(128)) = b1
    BY <2>1, SameNumbers DEF Concrete!uge, Concrete!int
  <2>4. Symbolic!uge(e, Symbolic!int(128)) = e1
    BY DEF Symbolic!uge
  <2> QED BY <2>2, <2>3, <2>4
<1>2. TruthVal(c, b2, e2)
  <2>1. 0 \in Byte
    BY DEF Byte
  <2>2. n \in Int
    BY DEF IntVal
  <2>3. ByteVal(c, Low(n), e)
    BY Zenon, <2>2, Truncations DEF ByteVal, IntVal
  <2>4. TruthVal(c, Concrete!\doteq(Low(n), Concrete!int(0)), Symbolic!\doteq(e, Symbolic!int(0)))
    BY <2>1, <2>3, ByteLiteralEquality
  <2>5. Concrete!\doteq(Low(n), Concrete!int(0)) = b2
    BY SameNumbers DEF Concrete!\doteq, Concrete!int
  <2>6. Symbolic!\doteq(e, Symbolic!int(0)) = e2
    BY DEF Symbolic!\doteq
  <2> QED BY <2>4, <2>5, <2>6
<1> HIDE DEF b1, b2, e1, e2
<1>3. "S" \in Flag /\ "Z" \in Flag /\ "S" \in Fields /\ "Z" \in Fields
  BY DEF Flag, Fields
<1>4. Fits(c, "S", b1, e1) /\ Fits(c, "Z", b2, e2)
  BY Zenon, <1>1, <1>2, <1>3, FieldNames DEF Fits
<1>5. Updated(m, n1, "S", b1) /\ Updated(s, t1, "S", e1)
  <2>1. "S" \in DOMAIN m /\ "S" \in DOMAIN s
    BY Zenon, <1>3, FieldsIn
  <2> QED BY Zenon, <2>1, SetField
<1>6. Both(c, n1, t1) /\ n1.written = m.written /\ t1.valuation = s.valuation
  BY <1>3, <1>4, <1>5, BothUpdate
<1>7. Updated(n1, n2, "Z", b2) /\ Updated(t1, t2, "Z", e2)
  <2>1. "Z" \in DOMAIN n1 /\ "Z" \in DOMAIN t1
    BY Zenon, <1>3, <1>6, FieldsIn
  <2> QED BY Zenon, <2>1, SetField
<1>8. Both(c, n2, t2) /\ n2.written = n1.written /\ t2.valuation = t1.valuation
  <2> HIDE DEF n1, n2, t1, t2
  <2> QED BY <1>3, <1>4, <1>6, <1>7, BothUpdate
<1>9. Concrete!setSZ(m, n) = IF m.exit # 0 THEN m ELSE n2
  BY Zenon DEF Concrete!setSZ, Concrete!E, b1, b2
<1>10. Symbolic!setSZ(s, e) = IF s.exit.v # 0 THEN s ELSE t2
  <2>1. Symbolic!setSZ(s, e) = Symbolic!E(s, t2)
    BY Zenon DEF Symbolic!setSZ, e1, e2
  <2> QED BY Zenon, <2>1, <1>8, SymbolicGuard DEF Both
<1> HIDE DEF n1, n2, t1, t2
<1>11. n2.written = m.written /\ t2.valuation = s.valuation
  BY Zenon, <1>6, <1>8
<1>12. 0 \in {0, 1} /\ Len(n2.written) <= Len(m.written) + 0
  <2>1. Len(m.written) \in Nat
    BY Zenon, LengthOf
  <2> QED BY <2>1, <1>11
<1> QED BY Zenon, <1>8, <1>9, <1>10, <1>11, <1>12, Guarded

-----------------------------------------------------------------------------
(* What the emulator takes from a machine.                                 *)

LEMMA GetRegister ==
  ASSUME NEW c, NEW m, NEW s, Both(c, m, s), NEW r \in Register
  PROVE  ByteVal(c, m[r], s[r]) /\ IntVal(c, m[r], s[r])
<1>1. m[r] \in Byte /\ s[r] \in Bits8
  BY Zenon DEF Both, ConcreteOK, SymbolicOK
<1>2. m[r] \in Int
  BY Zenon, <1>1, ByteNumbers
<1>3. c => s[r] = E8(m[r])
  BY Zenon DEF Both, Same
<1> QED BY Zenon, <1>1, <1>2, <1>3 DEF ByteVal, IntVal

LEMMA GetFlag ==
  ASSUME NEW c, NEW m, NEW s, Both(c, m, s), NEW f \in Flag
  PROVE  TruthVal(c, m[f], s[f])
BY Zenon DEF Both, ConcreteOK, SymbolicOK, Same, TruthVal

LEMMA GetConstant ==
  ASSUME NEW c, NEW m, NEW s, NEW k \in Byte
  PROVE  ByteVal(c, Concrete!constant(m, k), Symbolic!constant(s, k))
<1>1. Concrete!constant(m, k) = k
  BY Zenon DEF Concrete!constant
<1>2. Symbolic!constant(s, k) = E8(k)
  BY ByteNumbers, Numerals DEF Symbolic!constant
<1> QED BY Zenon, <1>1, <1>2, LiteralVal

LEMMA GetOperands ==
  ASSUME NEW c, NEW m, NEW s, Both(c, m, s), NEW k \in 0 .. 3
  PROVE  /\ WordVal(c, Concrete!absolute(m, k), Symbolic!absolute(s, k))
         /\ ByteVal(c, Concrete!zp(m, k), Symbolic!zp(s, k))
         /\ ByteVal(c, Concrete!immediate(m, k), Symbolic!immediate(s, k))
<1>1. GivenOK(m, s.valuation)
  BY Zenon DEF Both
<1>2. /\ m.absolute = s.valuation.absolute
      /\ m.zp = s.valuation.zp
      /\ m.immediate = s.valuation.immediate
  BY Zenon, <1>1 DEF GivenOK, Given
<1>3. /\ s.valuation.absolute[k] \in Words
      /\ s.valuation.zp[k] \in Byte
      /\ s.valuation.immediate[k] \in Byte
  BY Zenon, <1>1 DEF GivenOK
<1>4. \A i \in Words : i \in Int
  BY WordRange
<1>5. s.valuation.absolute[k] \in Int /\ s.valuation.zp[k] \in Int /\ s.valuation.immediate[k] \in Int
  BY Zenon, <1>3, <1>4, ByteNumbers
<1>6. /\ Symbolic!absolute(s, k) = E16(s.valuation.absolute[k])
      /\ Symbolic!zp(s, k) = E8(s.valuation.zp[k])
      /\ Symbolic!immediate(s, k) = E8(s.valuation.immediate[k])
  BY Zenon, <1>5, Numerals DEF Symbolic!absolute, Symbolic!zp, Symbolic!immediate
<1>7. /\ Concrete!absolute(m, k) = s.valuation.absolute[k]
      /\ Concrete!zp(m, k) = s.valuation.zp[k]
      /\ Concrete!immediate(m, k) = s.valuation.immediate[k]
  BY Zenon, <1>2 DEF Concrete!absolute, Concrete!zp, Concrete!immediate
<1>8. WordVal(c, Concrete!absolute(m, k), Symbolic!absolute(s, k))
  BY Zenon, <1>5, <1>6, <1>7 DEF WordVal, Bits16
<1>9. ByteVal(c, Concrete!zp(m, k), Symbolic!zp(s, k))
  BY Zenon, <1>3, <1>6, <1>7, LiteralVal
<1>10. ByteVal(c, Concrete!immediate(m, k), Symbolic!immediate(s, k))
  BY Zenon, <1>3, <1>6, <1>7, LiteralVal
<1> QED BY Zenon, <1>8, <1>9, <1>10

-----------------------------------------------------------------------------
(* Memory.                                                                 *)

LEMMA HashedRange ==
  ASSUME NEW h, h[1] \in Int, h[2] \in Int, NEW n \in Int
  PROVE  /\ Concrete!Hashed(h, n) \in Words \X Words
         /\ Concrete!Hashed(h, n)[1] \in Int /\ Concrete!Hashed(h, n)[2] \in Words
<1>1. PICK a \in Int, b \in Int : a = n \div 65536 /\ b = Concrete!Wrap(n)
  BY DEF Concrete!Wrap
<1>2. PICK i \in Int : i = Concrete!BitXor(h[1], a)
  <2>1. Concrete!BitXor(h[1], a) = Symbolic!BitXor(h[1], a)
    BY Zenon, SameOperators
  <2>2. Symbolic!BitXor(h[1], a) \in Int
    BY Zenon, BitRange
  <2> QED BY Zenon, <2>1, <2>2
<1>3. PICK j \in Int : j = Concrete!BitXor(h[2], b)
  <2>1. Concrete!BitXor(h[2], b) = Symbolic!BitXor(h[2], b)
    BY Zenon, SameOperators
  <2>2. Symbolic!BitXor(h[2], b) \in Int
    BY Zenon, BitRange
  <2> QED BY Zenon, <2>1, <2>2
<1>4. Concrete!Hashed(h, n) = Concrete!Times16777619(<<i, j>>)
  BY <1>1, <1>2, <1>3 DEF Concrete!Hashed
<1>5. Concrete!Times16777619(<<i, j>>) =
        <<Wrap(i * 403 + j * 256 + (j * 403) \div 65536), Wrap(j * 403)>>
  BY SameNumbers DEF Concrete!Times16777619, Concrete!Prime
<1>6. j * 403 \in Int /\ i * 403 + j * 256 + (j * 403) \div 65536 \in Int
  OBVIOUS
<1>7. PICK y \in Words, z \in Words :
        /\ y = Wrap(i * 403 + j * 256 + (j * 403) \div 65536)
        /\ z = Wrap(j * 403)
  BY <1>6, Truncations
<1>8. Concrete!Hashed(h, n) = <<y, z>>
  BY <1>4, <1>5, <1>7
<1>9. y \in Int
  BY WordRange
<1> QED BY <1>8, <1>9

LEMMA WordNumbers ==
  ASSUME NEW n \in Words
  PROVE  n \in Int /\ Wrap(n) = n
<1>2. n \in Int /\ 0 <= n /\ n < 65536
  BY WordRange
<1>3. n % 65536 = n
  BY <1>2
<1> QED BY <1>2, <1>3 DEF Wrap

LEMMA FnvRange ==
  ASSUME NEW seed \in Words \X Words, NEW init \in Words \X Words, NEW n \in Words
  PROVE  Concrete!Fnv(seed, init, n)[2] \in Int /\ Concrete!Fnv(seed, init, n)[2] \in Words
<1>1. n \in Int /\ Low(n) \in Int /\ n \div 256 \in Int
  BY WordNumbers DEF Low
<1>2. init[1] \in Int /\ init[2] \in Int /\ seed[2] \in Words
  BY WordNumbers
<1>3. /\ Concrete!Hashed(init, Low(n))[1] \in Int
      /\ Concrete!Hashed(init, Low(n))[2] \in Int
  BY <1>1, <1>2, HashedRange, WordNumbers
<1>4. Concrete!Hashed(Concrete!Hashed(init, Low(n)), n \div 256)[2] \in Words
  BY <1>1, <1>3, HashedRange
<1>5. Concrete!Fnv(seed, init, n) =
        IF seed \in {Concrete!Zero, Concrete!Ones} THEN seed
        ELSE Concrete!Hashed(Concrete!Hashed(init, Low(n)), n \div 256)
  BY Zenon, SameNumbers DEF Concrete!Fnv
<1>6. Concrete!Fnv(seed, init, n)[2] \in Words
  BY Zenon, <1>2, <1>4, <1>5
<1> QED BY Zenon, <1>6, WordNumbers

LEMMA FindOf ==
  ASSUME NEW m, MemoryOK(m.written), NEW n
  PROVE  \/ /\ Concrete!Find(m, n) = 0
            /\ \A i \in DOMAIN m.written : m.written[i][1] # n
         \/ /\ Concrete!Find(m, n) \in DOMAIN m.written
            /\ Concrete!Find(m, n) # 0
            /\ m.written[Concrete!Find(m, n)][1] = n
<1> DEFINE p == m.written
<1>1. p \in Seq(Words \X Byte) /\ \A i, j \in DOMAIN p : p[i][1] = p[j][1] => i = j
  BY Zenon DEF MemoryOK
<1>2. DOMAIN p = 1 .. Len(p) /\ Len(p) \in Nat
  BY <1>1
<1>3. CASE \A i \in DOMAIN p : p[i][1] # n
  BY Zenon, <1>3 DEF Concrete!Find
<1>4. CASE ~ \A i \in DOMAIN p : p[i][1] # n
  <2>1. PICK i \in DOMAIN p : p[i][1] = n
    BY Zenon, <1>4
  <2>2. \A j \in 1 .. i - 1 : p[j][1] # n
    <3>1. SUFFICES ASSUME NEW j \in 1 .. i - 1, p[j][1] = n PROVE FALSE
      OBVIOUS
    <3>2. j \in DOMAIN p /\ j # i
      BY <1>2
    <3> QED BY Zenon, <1>1, <2>1, <3>1, <3>2
  <2>3. Concrete!Find(m, n) =
          CHOOSE k \in DOMAIN p : p[k][1] = n /\ \A j \in 1 .. k - 1 : p[j][1] # n
    BY Zenon, <1>4 DEF Concrete!Find
  <2>4. /\ Concrete!Find(m, n) \in DOMAIN p
        /\ p[Concrete!Find(m, n)][1] = n
    BY Zenon, <2>1, <2>2, <2>3
  <2>5. \A k \in DOMAIN p : k # 0
    BY <1>2
  <2> QED BY Zenon, <2>4, <2>5
<1> QED BY Zenon, <1>3, <1>4

LEMMA GetWritten ==
  ASSUME NEW p, MemoryOK(p), NEW i \in DOMAIN p
  PROVE  p[i] = <<p[i][1], p[i][2]>> /\ p[i][1] \in Words /\ p[i][2] \in Byte
<1>1. p \in Seq(Words \X Byte)
  BY Zenon DEF MemoryOK
<1>2. p[i] \in Words \X Byte
  BY <1>1
<1> QED BY <1>2

LEMMA ConcreteReadRange ==
  ASSUME NEW m, MemoryOK(m.written), m.seed \in Words \X Words, m.init \in Words \X Words,
         NEW n \in Int
  PROVE  Concrete!read(m, n) \in Byte
<1> DEFINE i == Concrete!Find(m, Wrap(n))
<1>1. Concrete!read(m, n) =
        IF i # 0 THEN m.written[i][2] ELSE Low(Concrete!Fnv(m.seed, m.init, Wrap(n))[2])
  BY Zenon, SameNumbers DEF Concrete!read
<1>2. CASE i = 0
  <2>1. Wrap(n) \in Words
    BY Zenon, Truncations
  <2>2. Concrete!Fnv(m.seed, m.init, Wrap(n))[2] \in Int
    BY Zenon, <2>1, FnvRange
  <2> QED BY Zenon, <1>1, <1>2, <2>2, Truncations
<1>3. CASE i # 0
  <2>1. i \in DOMAIN m.written
    BY Zenon, <1>3, FindOf
  <2> HIDE DEF i
  <2> QED BY Zenon, <1>1, <1>3, <2>1, GetWritten
<1> QED BY Zenon, <1>2, <1>3

\* Where nothing is written, there is what the machine began with.
LEMMA ReadGiven ==
  ASSUME NEW v, v.written = <<>>, NEW n \in Words
  PROVE  Concrete!read(v, n) = Low(Concrete!Fnv(v.seed, v.init, n)[2])
<1>1. Concrete!Find(v, n) = 0
  BY DEF Concrete!Find
<1>2. Wrap(n) = n
  BY Zenon, WordNumbers
<1> QED BY Zenon, <1>1, <1>2, SameNumbers DEF Concrete!read

LEMMA GetRead ==
  ASSUME NEW c, NEW m, NEW s, Both(c, m, s), NEW n, NEW e, WordVal(c, n, e)
  PROVE  ByteVal(c, Concrete!read(m, n), Symbolic!read(s, e))
<1> DEFINE v == s.valuation
           g == s.memory
           p == m.written
<1>1. ConcreteOK(m) /\ SymbolicOK(s) /\ GivenOK(m, v) /\ n \in Int
  BY Zenon DEF Both, WordVal
<1>2. /\ MemoryOK(p) /\ StoreOK(g)
      /\ v.written = <<>> /\ v.seed = m.seed /\ v.init = m.init
      /\ v.seed \in Words \X Words /\ v.init \in Words \X Words
  BY Zenon, <1>1 DEF ConcreteOK, SymbolicOK, GivenOK, Given
<1>3. Concrete!read(m, n) \in Byte /\ Concrete!read(m, n) \in Int
  BY Zenon, <1>1, <1>2, ConcreteReadRange, ByteNumbers
<1>4. PICK j \in Int : e = E16(j)
  BY Zenon DEF WordVal, Bits16
<1>5. e.w = 16 /\ e.v = Wrap(j) /\ e.v \in Int
  BY <1>4, Truncations DEF E16
<1> DEFINE x == IF e.v \in DOMAIN g THEN g[e.v] ELSE Concrete!read(v, e.v)
<1>6. x \in Int
  <2>1. MemoryOK(v.written)
    <3>1. MemoryOK(<<>>)
      BY DEF MemoryOK
    <3> QED BY Zenon, <3>1, <1>2
  <2>2. Concrete!read(v, e.v) \in Int
    BY Zenon, <1>2, <1>5, <2>1, ConcreteReadRange, ByteNumbers
  <2> QED BY Zenon, <1>2, <2>2 DEF StoreOK
<1>7. Symbolic!read(s, e) = E8(x)
  BY Zenon, <1>5, <1>6, Numerals DEF Symbolic!read
<1>8. ASSUME c PROVE x = Concrete!read(m, n)
  <2>1. e.v = Wrap(n) /\ Wrap(n) \in Words
    <3>1. e = E16(n)
      BY Zenon, <1>8 DEF WordVal
    <3>2. Wrap(n) \in Words
      BY Zenon, <1>1, Truncations
    <3> QED BY <3>1, <3>2 DEF E16
  <2>2. SameMemory(p, g)
    BY Zenon, <1>8 DEF Both, Same
  <2> DEFINE i == Concrete!Find(m, Wrap(n))
  <2>3. Concrete!read(m, n) =
          IF i # 0 THEN p[i][2] ELSE Low(Concrete!Fnv(m.seed, m.init, Wrap(n))[2])
    BY Zenon, SameNumbers DEF Concrete!read
  <2>4. CASE i = 0
    <3>1. \A k \in DOMAIN p : p[k][1] # Wrap(n)
      <4>1. \A k \in DOMAIN p : k # 0
        <5>1. p \in Seq(Words \X Byte)
          BY Zenon, <1>2 DEF MemoryOK
        <5> QED BY <5>1
      <4> QED BY Zenon, <1>2, <2>4, <4>1, FindOf
    <3>2. e.v \notin DOMAIN g
      BY Zenon, <2>1, <2>2, <3>1 DEF SameMemory
    <3>3. x = Low(Concrete!Fnv(m.seed, m.init, Wrap(n))[2])
      BY Zenon, <1>2, <2>1, <3>2, ReadGiven
    <3> QED BY Zenon, <2>3, <2>4, <3>3
  <2>5. CASE i # 0
    <3>1. i \in DOMAIN p /\ p[i][1] = Wrap(n)
      BY Zenon, <1>2, <2>5, FindOf
    <3> HIDE DEF i
    <3>2. e.v \in DOMAIN g /\ g[e.v] = p[i][2]
      BY Zenon, <2>1, <2>2, <3>1 DEF SameMemory
    <3> QED BY Zenon, <2>3, <2>5, <3>2
  <2> QED BY Zenon, <2>4, <2>5
<1> HIDE DEF x
<1>9. Symbolic!read(s, e) \in Bits8 /\ (c => Symbolic!read(s, e) = E8(Concrete!read(m, n)))
  BY Zenon, <1>6, <1>7, <1>8 DEF Bits8
<1> QED BY Zenon, <1>3, <1>9 DEF ByteVal, IntVal

Stored(g, n, b) == [k \in DOMAIN g \cup {n} |-> IF k = n THEN b ELSE g[k]]

\* What a write of b to the address n makes of the written pairs p.
WritesPair(p, q, n, b) ==
    /\ MemoryOK(q)
    /\ Len(q) \in Nat /\ Len(q) <= Len(p) + 1
    /\ \A g : SameMemory(p, g) => SameMemory(q, Stored(g, n, b))

LEMMA ReplacePair ==
  ASSUME NEW p, MemoryOK(p), NEW i \in DOMAIN p, NEW n, p[i][1] = n, NEW b \in Byte
  PROVE  WritesPair(p, [p EXCEPT ![i][2] = b], n, b)
<1> DEFINE q == [p EXCEPT ![i][2] = b]
<1>1. p \in Seq(Words \X Byte) /\ \A j, k \in DOMAIN p : p[j][1] = p[k][1] => j = k
  BY Zenon DEF MemoryOK
<1>2. PICK y \in Byte : p[i] = <<n, y>> /\ n \in Words
  <2>1. p[i] = <<p[i][1], p[i][2]>> /\ p[i][1] \in Words /\ p[i][2] \in Byte
    BY Zenon, GetWritten
  <2> QED BY <2>1
<1>3. [p[i] EXCEPT ![2] = b] = <<n, b>>
  BY <1>2
<1>4. q = [p EXCEPT ![i] = <<n, b>>]
  BY <1>3
<1>5. q \in Seq(Words \X Byte) /\ DOMAIN q = DOMAIN p /\ Len(q) = Len(p) /\ Len(p) \in Nat
  BY <1>1, <1>2, <1>4
<1>6. q[i] = <<n, b>> /\ \A j \in DOMAIN p : j # i => q[j] = p[j]
  BY <1>1, <1>4
<1> HIDE DEF q
<1>7. \A j \in DOMAIN p : q[j][1] = p[j][1]
  BY <1>6
<1>8. MemoryOK(q)
  BY Zenon, <1>1, <1>5, <1>7 DEF MemoryOK
<1>9. ASSUME NEW g, SameMemory(p, g) PROVE SameMemory(q, Stored(g, n, b))
  <2>1. {q[j][1] : j \in DOMAIN q} = DOMAIN g
    BY Zenon, <1>5, <1>7, <1>9 DEF SameMemory
  <2>2. n \in DOMAIN g
    BY Zenon, <1>9 DEF SameMemory
  <2>3. DOMAIN Stored(g, n, b) = DOMAIN g
    BY Zenon, <2>2 DEF Stored
  <2>4. \A j \in DOMAIN q : Stored(g, n, b)[q[j][1]] = q[j][2]
    <3>1. SUFFICES ASSUME NEW j \in DOMAIN p PROVE Stored(g, n, b)[q[j][1]] = q[j][2]
      BY <1>5
    <3>2. CASE j = i
      BY <3>2, <1>6 DEF Stored
    <3>3. CASE j # i
      <4>1. p[j][1] # n /\ q[j] = p[j]
        BY Zenon, <1>1, <1>6, <3>3
      <4>2. p[j][1] \in DOMAIN g /\ g[p[j][1]] = p[j][2]
        BY Zenon, <1>9 DEF SameMemory
      <4> QED BY Zenon, <4>1, <4>2 DEF Stored
    <3> QED BY <3>2, <3>3
  <2> QED BY Zenon, <2>1, <2>3, <2>4 DEF SameMemory
<1>10. Len(q) \in Nat /\ Len(q) <= Len(p) + 1
  BY <1>5
<1> QED BY Zenon, <1>8, <1>9, <1>10 DEF WritesPair, q

LEMMA AddPair ==
  ASSUME NEW p, MemoryOK(p), NEW n \in Words, \A i \in DOMAIN p : p[i][1] # n, NEW b \in Byte
  PROVE  WritesPair(p, Append(p, <<n, b>>), n, b)
<1> DEFINE q == Append(p, <<n, b>>)
<1>1. p \in Seq(Words \X Byte) /\ \A j, k \in DOMAIN p : p[j][1] = p[k][1] => j = k
  BY Zenon DEF MemoryOK
<1>2. /\ q \in Seq(Words \X Byte) /\ Len(q) = Len(p) + 1 /\ Len(p) \in Nat
      /\ DOMAIN p = 1 .. Len(p) /\ DOMAIN q = 1 .. Len(p) + 1
  BY <1>1
<1>3. q[Len(p) + 1] = <<n, b>> /\ \A j \in DOMAIN p : q[j] = p[j]
  BY <1>1, <1>2
<1>4. DOMAIN q = DOMAIN p \cup {Len(p) + 1} /\ Len(p) + 1 \notin DOMAIN p
  BY <1>2
<1> HIDE DEF q
<1> DEFINE l == Len(p) + 1
<1>5. q[l][1] = n /\ q[l][2] = b /\ \A j \in DOMAIN p : q[j][1] = p[j][1] /\ q[j][2] = p[j][2]
  BY <1>3
<1>6. DOMAIN q = DOMAIN p \cup {l}
  BY <1>4
<1> HIDE DEF l
<1>7. MemoryOK(q)
  <2>1. ASSUME NEW j \in DOMAIN q, NEW k \in DOMAIN q, q[j][1] = q[k][1] PROVE j = k
    <3>1. CASE j = l /\ k = l
      BY Zenon, <3>1
    <3>2. CASE j = l /\ k # l
      BY Zenon, <3>2, <1>5, <1>6, <2>1
    <3>3. CASE j # l /\ k = l
      BY Zenon, <3>3, <1>5, <1>6, <2>1
    <3>4. CASE j # l /\ k # l
      BY Zenon, <3>4, <1>1, <1>5, <1>6, <2>1
    <3> QED BY Zenon, <3>1, <3>2, <3>3, <3>4
  <2> QED BY Zenon, <1>2, <2>1 DEF MemoryOK
<1>8. ASSUME NEW g, SameMemory(p, g) PROVE SameMemory(q, Stored(g, n, b))
  <2>1. DOMAIN Stored(g, n, b) = DOMAIN g \cup {n}
    BY DEF Stored
  <2>2. DOMAIN g = {p[j][1] : j \in DOMAIN p} /\ \A j \in DOMAIN p : g[p[j][1]] = p[j][2]
    BY Zenon, <1>8 DEF SameMemory
  <2>3. {q[j][1] : j \in DOMAIN q} = DOMAIN g \cup {n}
    <3>1. \A j \in DOMAIN q : q[j][1] \in DOMAIN g \cup {n}
      BY Zenon, <1>5, <1>6, <2>2
    <3>2. \A k \in DOMAIN g \cup {n} : \E j \in DOMAIN q : q[j][1] = k
      <4>1. SUFFICES ASSUME NEW k \in DOMAIN g \cup {n} PROVE \E j \in DOMAIN q : q[j][1] = k
        OBVIOUS
      <4>2. CASE k = n
        BY Zenon, <1>5, <1>6, <4>2
      <4>3. CASE k \in DOMAIN g
        <5>1. PICK j \in DOMAIN p : p[j][1] = k
          BY Zenon, <2>2, <4>3
        <5>2. j \in DOMAIN q /\ q[j][1] = k
          BY Zenon, <1>5, <1>6, <5>1
        <5> QED BY Zenon, <5>2
      <4> QED BY Zenon, <4>1, <4>2, <4>3
    <3> QED BY <3>1, <3>2
  <2>4. \A j \in DOMAIN q : Stored(g, n, b)[q[j][1]] = q[j][2]
    <3>1. SUFFICES ASSUME NEW j \in DOMAIN q PROVE Stored(g, n, b)[q[j][1]] = q[j][2]
      OBVIOUS
    <3>2. CASE j = l
      BY Zenon, <3>2, <1>5 DEF Stored
    <3>3. CASE j # l
      <4>1. j \in DOMAIN p /\ p[j][1] # n /\ q[j][1] = p[j][1] /\ q[j][2] = p[j][2]
        BY Zenon, <1>5, <1>6, <3>3
      <4>2. p[j][1] \in DOMAIN g /\ g[p[j][1]] = p[j][2]
        BY Zenon, <4>1, <2>2
      <4> QED BY Zenon, <4>1, <4>2 DEF Stored
    <3> QED BY Zenon, <3>2, <3>3
  <2> QED BY Zenon, <2>1, <2>3, <2>4 DEF SameMemory
<1>9. Len(q) \in Nat /\ Len(q) <= Len(p) + 1
  BY <1>2
<1> QED BY Zenon, <1>7, <1>8, <1>9 DEF WritesPair, q

\* The written pairs after b is written to address a.
WrittenBy(m, a, b) ==
    LET i == Concrete!Find(m, Concrete!Wrap(a))
    IN  IF i # 0 THEN [m.written EXCEPT ![i][2] = Concrete!Low(b)]
        ELSE Append(m.written, <<Concrete!Wrap(a), Concrete!Low(b)>>)

LEMMA WritesOne ==
  ASSUME NEW m, MemoryOK(m.written), NEW a \in Int, NEW n \in Int
  PROVE  /\ WritesPair(m.written, WrittenBy(m, a, n), Wrap(a), Low(n))
         /\ Concrete!write(m, a, n)
              = IF m.exit # 0 THEN m ELSE [m EXCEPT !["written"] = WrittenBy(m, a, n)]
<1> DEFINE p == m.written
           i == Concrete!Find(m, Concrete!Wrap(a))
           q == IF i # 0 THEN [p EXCEPT ![i][2] = Concrete!Low(n)]
                ELSE Append(p, <<Concrete!Wrap(a), Concrete!Low(n)>>)
<1>1. MemoryOK(p)
  OBVIOUS
<1>2. Wrap(a) \in Words /\ Low(n) \in Byte
  BY Zenon, Truncations
<1>3. Concrete!Wrap(a) = Wrap(a) /\ Concrete!Low(n) = Low(n)
  BY Zenon, SameNumbers
<1>4. WritesPair(p, q, Wrap(a), Low(n))
  <2>1. CASE i = 0
    <3>1. \A x \in DOMAIN p : x # 0
      <4>1. p \in Seq(Words \X Byte)
        BY Zenon, <1>1 DEF MemoryOK
      <4> QED BY <4>1
    <3>2. \A x \in DOMAIN p : p[x][1] # Wrap(a)
      BY Zenon, <1>3, <1>1, <2>1, <3>1, FindOf
    <3>3. WritesPair(p, Append(p, <<Wrap(a), Low(n)>>), Wrap(a), Low(n))
      BY Zenon, <1>1, <1>2, <3>2, AddPair
    <3> QED BY Zenon, <1>3, <2>1, <3>3
  <2>2. CASE i # 0
    <3>1. i \in DOMAIN p /\ p[i][1] = Wrap(a)
      BY Zenon, <1>3, <1>1, <2>2, FindOf
    <3> HIDE DEF i
    <3>2. WritesPair(p, [p EXCEPT ![i][2] = Low(n)], Wrap(a), Low(n))
      BY Zenon, <1>1, <1>2, <3>1, ReplacePair
    <3> QED BY Zenon, <1>3, <2>2, <3>2
  <2> QED BY Zenon, <2>1, <2>2
<1>5. q = WrittenBy(m, a, n)
  BY Zenon DEF WrittenBy
<1>6. Concrete!write(m, a, n) = IF m.exit # 0 THEN m ELSE [m EXCEPT !["written"] = q]
  BY Zenon DEF Concrete!write, Concrete!E
<1> QED BY Zenon, <1>4, <1>5, <1>6

LEMMA WriteMoves ==
  ASSUME NEW c, NEW m, NEW s, Both(c, m, s),
         NEW a, NEW d, WordVal(c, a, d), NEW n, NEW e, IntVal(c, n, e)
  PROVE  Moves(c, 1, m, s, Concrete!write(m, a, n), Symbolic!write(s, d, e))
<1> DEFINE p == m.written
           g == s.memory
           q == WrittenBy(m, a, n)
           m1 == [m EXCEPT !["written"] = q]
           s1 == [s EXCEPT !["memory"] = Stored(g, d.v, e.v)]
<1>1. ConcreteOK(m) /\ SymbolicOK(s) /\ GivenOK(m, s.valuation) /\ MemoryOK(p) /\ StoreOK(g)
  BY Zenon DEF Both, ConcreteOK, SymbolicOK
<1>2. Wrap(a) \in Words /\ Low(n) \in Byte
  BY Zenon, Truncations DEF WordVal, IntVal
<1>3. PICK k \in Int : d = E16(k)
  BY Zenon DEF WordVal, Bits16
<1>4. PICK j \in Int : e = E8(j)
  BY Zenon DEF IntVal, Bits8
<1>5. d.w = 16 /\ d.v = Wrap(k) /\ d.v \in Int /\ e.w = 8 /\ e.v = Low(j) /\ e.v \in Int
  BY <1>3, <1>4, Truncations DEF E8, E16
<1>6. WritesPair(p, q, Wrap(a), Low(n))
  BY Zenon, <1>1, WritesOne DEF WordVal, IntVal
<1>7. Concrete!write(m, a, n) = IF m.exit # 0 THEN m ELSE m1
  BY Zenon, <1>1, WritesOne DEF WordVal, IntVal
<1>8. Symbolic!write(s, d, e) = IF s.exit.v # 0 THEN s ELSE s1
  BY Zenon, <1>1, <1>5 DEF Symbolic!write, Stored, SymbolicOK
<1> HIDE DEF q
<1>9. Updated(m, m1, "written", q) /\ Updated(s, s1, "memory", Stored(g, d.v, e.v))
  <2>1. "written" \in DOMAIN m /\ "memory" \in DOMAIN s
    BY Zenon, <1>1 DEF ConcreteOK, SymbolicOK
  <2> QED BY Zenon, <2>1, SetField
<1> HIDE DEF m1, s1
<1>10. /\ m1.written = q /\ s1.memory = Stored(g, d.v, e.v)
       /\ DOMAIN m1 = DOMAIN m /\ DOMAIN s1 = DOMAIN s
       /\ \A f \in Fields \cup Given : m1[f] = m[f]
       /\ \A f \in Fields \cup {"thrown", "valuation"} : s1[f] = s[f]
  <2>1. /\ Fields \cup Given \cup {"written"} \subseteq DOMAIN m
        /\ Fields \cup {"memory", "thrown", "valuation"} \subseteq DOMAIN s
    BY Zenon, <1>1 DEF ConcreteOK, SymbolicOK
  <2>2. "memory" # "thrown" /\ "memory" # "valuation"
    OBVIOUS
  <2> QED BY Zenon, <1>9, <2>1, <2>2, FieldNames DEF Updated
<1>11. ConcreteOK(m1)
  BY Zenon, <1>1, <1>6, <1>10, FieldNames DEF ConcreteOK, WritesPair
<1>12. SymbolicOK(s1)
  <2>1. StoreOK(Stored(g, d.v, e.v))
    <3>1. DOMAIN g \subseteq Int /\ \A x \in DOMAIN g : g[x] \in Int
      BY Zenon, <1>1 DEF StoreOK
    <3>2. DOMAIN Stored(g, d.v, e.v) = DOMAIN g \cup {d.v}
      BY Zenon DEF Stored
    <3>3. \A x \in DOMAIN g \cup {d.v} : Stored(g, d.v, e.v)[x] \in Int
      BY Zenon, <1>5, <3>1 DEF Stored
    <3> QED BY Zenon, <1>5, <3>1, <3>2, <3>3 DEF StoreOK
  <2> QED BY Zenon, <1>1, <1>10, <2>1, FieldNames DEF SymbolicOK
<1>13. GivenOK(m1, s1.valuation) /\ s1.valuation = s.valuation
  BY Zenon, <1>1, <1>10 DEF GivenOK
<1>14. ASSUME c PROVE Same(m1, s1)
  <2>1. Same(m, s)
    BY Zenon, <1>14 DEF Both
  <2>2. d = E16(a) /\ e = E8(n)
    BY Zenon, <1>14 DEF WordVal, IntVal
  <2>3. d.v = Wrap(a) /\ e.v = Low(n)
    BY <2>2 DEF E8, E16
  <2>4. SameMemory(m1.written, s1.memory)
    BY Zenon, <1>6, <1>10, <2>1, <2>3 DEF WritesPair, Same
  <2> QED BY Zenon, <1>10, <2>1, <2>4, FieldNames DEF Same
<1>15. Both(c, m1, s1)
  BY Zenon, <1>11, <1>12, <1>13, <1>14 DEF Both
<1>16. 1 \in {0, 1} /\ Len(m1.written) <= Len(m.written) + 1
  BY <1>6, <1>10 DEF WritesPair
<1> QED BY Zenon, <1>7, <1>8, <1>13, <1>15, <1>16, Guarded

-----------------------------------------------------------------------------
(* Exits.                                                                  *)

LEMMA ExitNumbers ==
  ASSUME NEW n \in Words
  PROVE  /\ Tag + n \in Exits /\ Tag + n # 0
         /\ E17(n) \in Bits17 /\ E17(n).v = n
         /\ E17(Tag + n) \in Bits17 /\ E17(Tag + n).v = Tag + n
         /\ n \in Exits
<1>1. Tag = 65536 /\ n \in Int /\ 0 <= n /\ n <= 65535
  BY WordRange DEF Tag
<1>2. Tag + n \in Exits /\ Tag + n # 0 /\ n \in Exits
  <2>1. 65536 + n \in Int /\ 0 <= 65536 + n /\ 65536 + n <= 131071 /\ 65536 + n # 0 /\ n <= 131071
    BY <1>1
  <2> QED BY <1>1, <2>1, ExitRange
<1>3. n % (2 * Tag) = n /\ (Tag + n) % (2 * Tag) = Tag + n /\ Tag + n \in Int
  BY <1>1
<1>4. E17(n).v = n /\ E17(Tag + n).v = Tag + n
  BY <1>3 DEF E17
<1>5. E17(n) \in Bits17 /\ E17(Tag + n) \in Bits17
  BY <1>1, <1>3 DEF Bits17
<1> QED BY <1>2, <1>4, <1>5

LEMMA ExitField ==
  ASSUME NEW c, NEW m, NEW s, Both(c, m, s), NEW n, NEW e, ExitVal(c, n, e)
  PROVE  Moves(c, 0, m, s, Concrete!E(m, [m EXCEPT !.exit = n]), Symbolic!E(s, [s EXCEPT !.exit = e]))
<1>1. "exit" \in Fields /\ "exit" \in DOMAIN m /\ "exit" \in DOMAIN s
  BY Zenon, FieldsIn, FieldNames
<1>2. Updated(m, [m EXCEPT !["exit"] = n], "exit", n) /\ Updated(s, [s EXCEPT !["exit"] = e], "exit", e)
  BY Zenon, <1>1, SetField
<1>3. Fits(c, "exit", n, e)
  BY Zenon, FieldNames DEF Fits
<1>4. Moves(c, 0, m, s, Concrete!E(m, [m EXCEPT !["exit"] = n]), Symbolic!E(s, [s EXCEPT !["exit"] = e]))
  BY Zenon, <1>1, <1>2, <1>3, GuardedUpdate
<1> QED BY Zenon, <1>4

LEMMA ReturnMoves ==
  ASSUME NEW c, NEW m, NEW s, Both(c, m, s)
  PROVE  /\ Moves(c, 0, m, s, Concrete!rts(m), Symbolic!rts(s))
         /\ Moves(c, 0, m, s, Concrete!rti(m), Symbolic!rti(s))
<1>1. ASSUME NEW n \in {1, 2}
      PROVE  ExitVal(c, n, Symbolic!num_val(n, 17))
  <2>1. n \in Words /\ n \in Int /\ n # 0
    BY WordRange
  <2>2. Symbolic!num_val(n, 17) = E17(n)
    BY <2>1, Numerals
  <2>3. n \in Exits /\ E17(n) \in Bits17 /\ E17(n).v = n
    BY <2>1, ExitNumbers
  <2> QED BY Zenon, <2>1, <2>2, <2>3 DEF ExitVal, SameExit
<1>2. Moves(c, 0, m, s, Concrete!rts(m), Symbolic!rts(s))
  <2>1. ExitVal(c, 1, Symbolic!num_val(1, 17))
    BY <1>1
  <2> QED BY Zenon, <2>1, ExitField DEF Concrete!rts, Symbolic!rts
<1>3. Moves(c, 0, m, s, Concrete!rti(m), Symbolic!rti(s))
  <2>1. ExitVal(c, 2, Symbolic!num_val(2, 17))
    BY <1>1
  <2> QED BY Zenon, <2>1, ExitField DEF Concrete!rti, Symbolic!rti
<1> QED BY Zenon, <1>2, <1>3

LEMMA OrNothing ==
  ASSUME NEW b \in Byte
  PROVE  Symbolic!OrByte(b, 0) = b
<1>1. \A n \in {1, 2, 4, 8, 16, 32, 64, 128} : ~Symbolic!HasDigit(0, n)
  BY DEF Symbolic!HasDigit
<1> DEFINE d(n) == IF Symbolic!HasDigit(b, n) THEN n ELSE 0
<1>2. Symbolic!OrByte(b, 0) = d(1) + d(2) + d(4) + d(8) + d(16) + d(32) + d(64) + d(128)
  BY <1>1, OrSum
<1>3. b \in Int /\ 0 <= b /\ b < 256
  BY DEF Byte
<1>4. /\ d(1) = b % 2
      /\ d(2) = 2 * ((b \div 2) % 2)
      /\ d(4) = 4 * ((b \div 4) % 2)
      /\ d(8) = 8 * ((b \div 8) % 2)
      /\ d(16) = 16 * ((b \div 16) % 2)
      /\ d(32) = 32 * ((b \div 32) % 2)
      /\ d(64) = 64 * ((b \div 64) % 2)
      /\ d(128) = 128 * ((b \div 128) % 2)
  BY <1>3 DEF Symbolic!HasDigit
<1> HIDE DEF d
<1>5. PICK q1 \in Int, q2 \in Int, q3 \in Int : q1 = b \div 2 /\ q2 = b \div 4 /\ q3 = b \div 8
  BY <1>3
<1>6. PICK q4 \in Int, q5 \in Int : q4 = b \div 16 /\ q5 = b \div 32
  BY <1>3
<1>7. PICK q6 \in Int, q7 \in Int : q6 = b \div 64 /\ q7 = b \div 128
  BY <1>3
<1>8. b = d(1) + 2 * q1
  BY <1>3, <1>4, <1>5
<1>9. 2 * q1 = d(2) + 4 * q2
  BY <1>3, <1>4, <1>5
<1>10. 4 * q2 = d(4) + 8 * q3
  BY <1>3, <1>4, <1>5
<1>11. 8 * q3 = d(8) + 16 * q4
  BY <1>3, <1>4, <1>5, <1>6
<1>12. 16 * q4 = d(16) + 32 * q5
  BY <1>3, <1>4, <1>6
<1>13. 32 * q5 = d(32) + 64 * q6
  BY <1>3, <1>4, <1>6, <1>7
<1>14. 64 * q6 = d(64) + 128 * q7
  BY <1>3, <1>4, <1>7
<1>15. 128 * q7 = d(128)
  BY <1>3, <1>4, <1>7
<1>16. /\ d(1) \in Int /\ d(2) \in Int /\ d(4) \in Int /\ d(8) \in Int
       /\ d(16) \in Int /\ d(32) \in Int /\ d(64) \in Int /\ d(128) \in Int
  BY <1>3, <1>4
<1> QED BY <1>2, <1>3, <1>8, <1>9, <1>10, <1>11, <1>12, <1>13, <1>14, <1>15, <1>16

\* A word with a tag.
LEMMA Tagged ==
  ASSUME NEW n \in Words
  PROVE  Symbolic!BitOr(n, Tag) = n + Tag
<1>1. Tag = 65536 /\ n \in Int /\ 0 <= n /\ n <= 65535
  BY WordRange DEF Tag
<1>2. PICK n0 \in Byte, n1 \in Byte : n0 = n % 256 /\ n1 = n \div 256
  <2>1. n % 256 \in Byte
    BY <1>1 DEF Byte
  <2>2. n \div 256 \in Byte
    BY <1>1 DEF Byte
  <2> QED BY <2>1, <2>2
<1>3. n = n0 + 256 * n1 /\ n \div 65536 = 0
  BY <1>1, <1>2
<1>4. n0 \in Int /\ n1 \in Int /\ n1 % 256 = n1
  BY ByteNumbers DEF Byte
<1>5. Tag % 256 = 0 /\ (Tag \div 256) % 256 = 0 /\ Tag \div 65536 = 1
      /\ Tag \in Int /\ Tag \div 256 \in Int
  BY <1>1
<1>6. \A b \in Byte : Symbolic!OrByte(b, 0) = b
  BY OrNothing
<1>7. Symbolic!OrByte(n, Tag) = n0
  <2>1. Symbolic!OrByte(n, Tag) = Symbolic!OrByte(n0, 0)
    <3>1. n0 = n % 256 /\ 0 = Tag % 256
      BY <1>2, <1>5
    <3> QED BY <1>1, <1>5, <3>1, ByteLow
  <2> QED BY <2>1, <1>6
<1>8. Symbolic!OrByte(n \div 256, Tag \div 256) = n1
  <2>1. Symbolic!OrByte(n1, Tag \div 256) = Symbolic!OrByte(n1, 0)
    <3>1. n1 = n1 % 256 /\ 0 = (Tag \div 256) % 256
      BY <1>4, <1>5
    <3> QED BY <1>4, <1>5, <3>1, ByteLow
  <2> QED BY <1>2, <2>1, <1>6
<1>9. Symbolic!OrByte(n \div 65536, Tag \div 65536) = 1
  <2>1. Symbolic!OrByte(0, 1) = 1
    BY OrSum DEF Symbolic!HasDigit
  <2> QED BY <1>3, <1>5, <2>1
<1> QED BY <1>1, <1>3, <1>4, <1>7, <1>8, <1>9 DEF Symbolic!BitOr, Symbolic!Bytes3

LEMMA TaggedTarget ==
  ASSUME NEW n \in Int
  PROVE  Symbolic!BvOr(Symbolic!Z3_mk_zero_ext(1, E16(n)), Symbolic!int(Symbolic!Tag)) = E17(Tag + Wrap(n))
<1>1. Wrap(n) \in Words /\ Wrap(n) \in Int /\ Tag \in Int /\ Symbolic!Tag = Tag
  <2>1. Tag \in Int
    BY DEF Tag
  <2> QED BY Zenon, <2>1, Truncations, SameNames
<1>2. Symbolic!Z3_mk_zero_ext(1, E16(n)) = E17(Wrap(n))
  BY Unary
<1>3. Symbolic!BvOr(E17(Wrap(n)), Symbolic!int(Tag)) = Symbolic!Z3_mk_bvor(E17(Wrap(n)), E17(Tag))
  BY Zenon, <1>1, Literals DEF Symbolic!BvOr, Symbolic!Call
<1>4. Symbolic!Z3_mk_bvor(E17(Wrap(n)), E17(Tag))
        = [w |-> 17, v |-> Symbolic!BitOr(E17(Wrap(n)).v, E17(Tag).v) % (2 * Tag)]
  BY Powers DEF Symbolic!Z3_mk_bvor, Symbolic!OnBits, Symbolic!Vector, E17, Tag
<1>5. E17(Wrap(n)).v = Wrap(n)
  BY Zenon, <1>1, ExitNumbers
<1>6. E17(Tag).v = Tag
  BY DEF E17, Tag
<1>7. Symbolic!BitOr(Wrap(n), Tag) = Tag + Wrap(n)
  BY <1>1, Tagged
<1> QED BY Zenon, <1>1, <1>2, <1>3, <1>4, <1>5, <1>6, <1>7 DEF E17

LEMMA SameTarget ==
  ASSUME NEW n \in Words
  PROVE  Wrap(Tag + n) = n
<1>1. Tag = 65536 /\ n \in Int /\ 0 <= n /\ n <= 65535
  BY WordRange DEF Tag
<1>2. (65536 + n) % 65536 = n
  BY <1>1
<1> QED BY <1>1, <1>2 DEF Wrap

LEMMA JmpMoves ==
  ASSUME NEW c, NEW m, NEW s, Both(c, m, s), NEW n, NEW e, WordVal(c, n, e)
  PROVE  Moves(c, 0, m, s, Concrete!jmp(m, n), Symbolic!jmp(s, e))
<1> DEFINE t == Symbolic!BvOr(Symbolic!Z3_mk_zero_ext(1, e), Symbolic!int(Symbolic!Tag))
<1>1. PICK i \in Int : e = E16(i)
  BY Zenon DEF WordVal, Bits16
<1>2. n \in Int /\ Wrap(n) \in Words /\ Wrap(i) \in Words
  BY Zenon, Truncations DEF WordVal
<1>3. t = E17(Tag + Wrap(i)) /\ (c => t = E17(Tag + Wrap(n)))
  BY Zenon, <1>1, <1>2, TaggedTarget DEF WordVal
<1>4. ExitVal(c, Tag + Wrap(n), t)
  BY Zenon, <1>2, <1>3, ExitNumbers DEF ExitVal, SameExit
<1>5. Concrete!jmp(m, n) = Concrete!E(m, [m EXCEPT !.exit = Tag + Wrap(n)])
  BY Zenon, SameNames, SameNumbers DEF Concrete!jmp
<1>6. Symbolic!jmp(s, e) = Symbolic!E(s, [s EXCEPT !.exit = t])
  BY Zenon DEF Symbolic!jmp
<1> HIDE DEF t
<1>7. \A x : ExitVal(c, x, t) =>
        Moves(c, 0, m, s, Concrete!E(m, [m EXCEPT !.exit = x]), Symbolic!E(s, [s EXCEPT !.exit = t]))
  BY Zenon, ExitField
<1> QED BY Zenon, <1>4, <1>5, <1>6, <1>7

\* A branch that is taken leaves in both machines unless it is to address 0.
LEMMA BranchMoves ==
  ASSUME NEW c, NEW m, NEW s, Both(c, m, s), NEW b, NEW d, TruthVal(c, b, d),
         NEW n, NEW e, WordVal(c, n, e), c => Wrap(n) # 0
  PROVE  Moves(c, 0, m, s, Concrete!branch(m, b, n), Symbolic!branch(s, d, e))
<1> DEFINE x == IF b THEN Tag + Wrap(n) ELSE m.exit
           t == Symbolic!Z3_mk_ite(d, Symbolic!Z3_mk_zero_ext(1, e), s.exit)
           n1 == IF b THEN [m EXCEPT !["exit"] = Tag + Wrap(n)] ELSE m
           t1 == [s EXCEPT !["exit"] = t]
<1>1. PICK i \in Int : e = E16(i)
  BY Zenon DEF WordVal, Bits16
<1>2. n \in Int /\ Wrap(n) \in Words /\ Wrap(i) \in Words /\ Wrap(i) \in Int /\ Wrap(n) \in Int
  BY Zenon, Truncations DEF WordVal
<1>3. PICK z \in BOOLEAN : d = EB(z)
  BY Zenon DEF TruthVal, Truths
<1>4. PICK j \in Int : s.exit = E17(j)
  BY Zenon DEF Both, SymbolicOK, Bits17
<1>5. b \in BOOLEAN /\ m.exit \in Exits /\ s.exit \in Bits17
  BY Zenon DEF TruthVal, Both, ConcreteOK, SymbolicOK
<1>6. t = IF z THEN E17(Wrap(i)) ELSE s.exit
  <2>1. Symbolic!Z3_mk_zero_ext(1, e) = E17(Wrap(i))
    BY <1>1, Unary
  <2>2. Symbolic!Z3_mk_ite(EB(z), E17(Wrap(i)), E17(j)) = E17(IF z THEN Wrap(i) ELSE j)
    BY <1>2, Conditions
  <2> QED BY Zenon, <1>3, <1>4, <2>1, <2>2
<1>7. ExitVal(c, x, t)
  <2>1. x \in Exits
    BY Zenon, <1>2, <1>5, ExitNumbers
  <2>2. t \in Bits17
    BY Zenon, <1>2, <1>5, <1>6, ExitNumbers
  <2>3. ASSUME c PROVE SameExit(x, t)
    <3>1. z = b
      <4>1. EB(z) = EB(b)
        BY Zenon, <1>3, <2>3 DEF TruthVal
      <4> QED BY <4>1 DEF EB
    <3>2. Wrap(i) = Wrap(n)
      <4>1. E16(i) = E16(n)
        BY Zenon, <1>1, <2>3 DEF WordVal
      <4> QED BY <4>1 DEF E16
    <3>3. CASE b
      <4>1. t.v = Wrap(n) /\ Wrap(n) # 0
        BY Zenon, <1>2, <1>6, <2>3, <3>1, <3>2, <3>3, ExitNumbers
      <4>2. Wrap(Wrap(n)) = Wrap(n) /\ Wrap(Tag + Wrap(n)) = Wrap(n)
        BY Zenon, <1>2, WordNumbers, SameTarget
      <4>3. Tag + Wrap(n) # 0
        BY Zenon, <1>2, ExitNumbers
      <4> QED BY Zenon, <3>3, <4>1, <4>2, <4>3 DEF SameExit
    <3>4. CASE ~b
      BY Zenon, <1>6, <2>3, <3>1, <3>4 DEF Both, Same
    <3> QED BY Zenon, <3>3, <3>4
  <2> QED BY Zenon, <2>1, <2>2, <2>3 DEF ExitVal
<1>8. Concrete!branch(m, b, n) = Concrete!E(m, n1)
  BY Zenon, SameNames, SameNumbers DEF Concrete!branch, Concrete!jmp, Concrete!E
<1>9. Symbolic!branch(s, d, e) = Symbolic!E(s, t1)
  BY Zenon DEF Symbolic!branch
<1>10. "exit" \in Fields /\ "exit" \in DOMAIN m /\ "exit" \in DOMAIN s
  BY Zenon, FieldsIn, FieldNames
<1>11. Updated(m, n1, "exit", x)
  <2>1. CASE b
    BY Zenon, <1>10, <2>1, SetField
  <2>2. CASE ~b
    BY Zenon, <2>2 DEF Updated
  <2> QED BY Zenon, <2>1, <2>2
<1>12. Updated(s, t1, "exit", t)
  BY Zenon, <1>10, SetField
<1>13. Fits(c, "exit", x, t)
  BY Zenon, <1>7, FieldNames DEF Fits
<1> HIDE DEF x, t, n1, t1
<1>14. Moves(c, 0, m, s, Concrete!E(m, n1), Symbolic!E(s, t1))
  BY Zenon, <1>10, <1>11, <1>12, <1>13, GuardedUpdate
<1> QED BY Zenon, <1>8, <1>9, <1>14

-----------------------------------------------------------------------------
(* The steps of an instruction.                                            *)

LEMMA After ==
  ASSUME NEW c, NEW k, NEW m, NEW s, NEW n, NEW t, Moves(c, k, m, s, n, t)
  PROVE  Both(c, n, t)
BY Zenon DEF Moves

LEMMA Chain00 ==
  ASSUME NEW c, NEW m, NEW s, Both(c, m, s), NEW n, NEW t, Moves(c, 0, m, s, n, t),
         NEW o, NEW u, Moves(c, 0, n, t, o, u)
  PROVE  Moves(c, 0, m, s, o, u)
<1>1. 0 \in {0, 1} /\ 0 \in {0, 1} /\ 0 + 0 \in {0, 1} /\ 0 + 0 = 0
  OBVIOUS
<1>2. Len(m.written) \in Nat
  BY Zenon, LengthOf
<1>3. Moves(c, 0 + 0, m, s, o, u)
  BY <1>1, <1>2, Chained
<1> QED BY <1>1, <1>3

LEMMA Chain01 ==
  ASSUME NEW c, NEW m, NEW s, Both(c, m, s), NEW n, NEW t, Moves(c, 0, m, s, n, t),
         NEW o, NEW u, Moves(c, 1, n, t, o, u)
  PROVE  Moves(c, 1, m, s, o, u)
<1>1. 0 \in {0, 1} /\ 1 \in {0, 1} /\ 0 + 1 \in {0, 1} /\ 0 + 1 = 1
  OBVIOUS
<1>2. Len(m.written) \in Nat
  BY Zenon, LengthOf
<1>3. Moves(c, 0 + 1, m, s, o, u)
  BY <1>1, <1>2, Chained
<1> QED BY <1>1, <1>3

LEMMA Chain10 ==
  ASSUME NEW c, NEW m, NEW s, Both(c, m, s), NEW n, NEW t, Moves(c, 1, m, s, n, t),
         NEW o, NEW u, Moves(c, 0, n, t, o, u)
  PROVE  Moves(c, 1, m, s, o, u)
<1>1. 1 \in {0, 1} /\ 0 \in {0, 1} /\ 1 + 0 \in {0, 1} /\ 1 + 0 = 1
  OBVIOUS
<1>2. Len(m.written) \in Nat
  BY Zenon, LengthOf
<1>3. Moves(c, 1 + 0, m, s, o, u)
  BY <1>1, <1>2, Chained
<1> QED BY <1>1, <1>3

LEMMA Stays ==
  ASSUME NEW c, NEW m, NEW s, Both(c, m, s)
  PROVE  Moves(c, 0, m, s, m, s) /\ Moves(c, 1, m, s, m, s)
<1>1. Len(m.written) \in Nat
  BY Zenon, LengthOf
<1>2. Len(m.written) <= Len(m.written) + 0 /\ Len(m.written) <= Len(m.written) + 1
  BY <1>1
<1> QED BY Zenon, <1>1, <1>2 DEF Moves

\* A step that writes nothing is one that writes at most one address.
LEMMA Weaker ==
  ASSUME NEW c, NEW m, NEW s, Both(c, m, s), NEW n, NEW t, Moves(c, 0, m, s, n, t)
  PROVE  Moves(c, 1, m, s, n, t)
<1>1. Moves(c, 1, n, t, n, t)
  BY Zenon, After, Stays
<1> QED BY Zenon, <1>1, Chain01

LEMMA RegisterNames ==
  "a" \in Register /\ "x" \in Register /\ "y" \in Register /\ "sp" \in Register
BY DEF Register

LEMMA FlagNames ==
  /\ "S" \in Flag /\ "V" \in Flag /\ "I" \in Flag
  /\ "D" \in Flag /\ "C" \in Flag /\ "Z" \in Flag
BY DEF Flag

LEMMA Registers4 ==
  ASSUME NEW c, NEW m, NEW s, Both(c, m, s)
  PROVE  /\ ByteVal(c, m.a, s.a) /\ ByteVal(c, m.x, s.x)
         /\ ByteVal(c, m.y, s.y) /\ ByteVal(c, m.sp, s.sp)
         /\ IntVal(c, m.a, s.a) /\ IntVal(c, m.x, s.x)
         /\ IntVal(c, m.y, s.y) /\ IntVal(c, m.sp, s.sp)
BY Zenon, RegisterNames, GetRegister

LEMMA Flags6 ==
  ASSUME NEW c, NEW m, NEW s, Both(c, m, s)
  PROVE  /\ TruthVal(c, m.S, s.S) /\ TruthVal(c, m.V, s.V) /\ TruthVal(c, m.I, s.I)
         /\ TruthVal(c, m.D, s.D) /\ TruthVal(c, m.C, s.C) /\ TruthVal(c, m.Z, s.Z)
BY Zenon, FlagNames, GetFlag

LEMMA Digits ==
  /\ 0 \in Byte /\ 1 \in Byte /\ 2 \in Byte /\ 4 \in Byte /\ 8 \in Byte
  /\ 64 \in Byte /\ 128 \in Byte /\ 255 \in Byte
  /\ 0 \in Int /\ 1 \in Int /\ 255 \in Int /\ 256 \in Int /\ 65280 \in Int
BY DEF Byte

LEMMA IntOfByte ==
  ASSUME NEW c, NEW n, NEW e, ByteVal(c, n, e)
  PROVE  IntVal(c, n, e)
BY Zenon DEF ByteVal

LEMMA LoadMoves ==
  ASSUME NEW c, NEW m, NEW s, Both(c, m, s), NEW r \in Register, NEW n, NEW e, IntVal(c, n, e)
  PROVE  Moves(c, 0, m, s, Concrete!Emulator!Load(m, r, n), Symbolic!Emulator!Load(s, r, e))
<1> DEFINE m1 == Concrete!setSZ(m, n)
           s1 == Symbolic!setSZ(s, e)
<1>1. Moves(c, 0, m, s, m1, s1)
  BY Zenon, SetSZMoves
<1>2. Both(c, m1, s1)
  BY Zenon, <1>1, After
<1> HIDE DEF m1, s1
<1>3. Moves(c, 0, m1, s1, Concrete!assign(m1, r, n), Symbolic!assign(s1, r, e))
  BY Zenon, <1>2, AssignRegister
<1>4. Moves(c, 0, m, s, Concrete!assign(m1, r, n), Symbolic!assign(s1, r, e))
  BY Zenon, <1>1, <1>3, Chain00
<1> QED BY Zenon, <1>4 DEF Concrete!Emulator!Load, Symbolic!Emulator!Load, m1, s1

LEMMA UpdateMoves ==
  ASSUME NEW c, NEW m, NEW s, Both(c, m, s), NEW a, NEW d, WordVal(c, a, d),
         NEW n, NEW e, IntVal(c, n, e)
  PROVE  Moves(c, 1, m, s, Concrete!Emulator!Update(m, a, n), Symbolic!Emulator!Update(s, d, e))
<1> DEFINE m1 == Concrete!setSZ(m, n)
           s1 == Symbolic!setSZ(s, e)
<1>1. Moves(c, 0, m, s, m1, s1)
  BY Zenon, SetSZMoves
<1>2. Both(c, m1, s1)
  BY Zenon, <1>1, After
<1> HIDE DEF m1, s1
<1>3. Moves(c, 1, m1, s1, Concrete!write(m1, a, n), Symbolic!write(s1, d, e))
  BY Zenon, <1>2, WriteMoves
<1>4. Moves(c, 1, m, s, Concrete!write(m1, a, n), Symbolic!write(s1, d, e))
  BY Zenon, <1>1, <1>3, Chain01
<1> QED BY Zenon, <1>4 DEF Concrete!Emulator!Update, Symbolic!Emulator!Update, m1, s1

LEMMA StackVal ==
  ASSUME NEW c, NEW m, NEW s, Both(c, m, s)
  PROVE  WordVal(c, Concrete!Emulator!Stack(m), Symbolic!Emulator!Stack(s))
<1>1. WordVal(c, Concrete!extend(m.sp), Symbolic!extend(s.sp))
  BY Zenon, Registers4, Conversions
<1>2. WordVal(c, Concrete!++(Concrete!extend(m.sp), Concrete!int(256)),
                 Symbolic!++(Symbolic!extend(s.sp), Symbolic!int(256)))
  BY <1>1, Digits, WordLiterals
<1> QED BY Zenon, <1>2 DEF Concrete!Emulator!Stack, Symbolic!Emulator!Stack

LEMMA PushMoves ==
  ASSUME NEW c, NEW m, NEW s, Both(c, m, s), NEW n, NEW e, IntVal(c, n, e)
  PROVE  Moves(c, 1, m, s, Concrete!Emulator!Push(m, n), Symbolic!Emulator!Push(s, e))
<1> DEFINE m1 == Concrete!write(m, Concrete!Emulator!Stack(m), n)
           s1 == Symbolic!write(s, Symbolic!Emulator!Stack(s), e)
           n1 == Concrete!--(m1.sp, Concrete!int(1))
           e1 == Symbolic!--(s1.sp, Symbolic!int(1))
<1>1. Moves(c, 1, m, s, m1, s1)
  BY Zenon, StackVal, WriteMoves
<1>2. Both(c, m1, s1)
  BY Zenon, <1>1, After
<1> HIDE DEF m1, s1
<1>3. IntVal(c, n1, e1)
  BY <1>2, Registers4, Digits, IntLiterals
<1>4. Moves(c, 0, m1, s1, Concrete!assign(m1, "sp", n1), Symbolic!assign(s1, "sp", e1))
  BY Zenon, <1>2, <1>3, RegisterNames, AssignRegister
<1>5. Moves(c, 1, m, s, Concrete!assign(m1, "sp", n1), Symbolic!assign(s1, "sp", e1))
  BY Zenon, <1>1, <1>4, Chain10
<1> QED BY Zenon, <1>5 DEF Concrete!Emulator!Push, Symbolic!Emulator!Push, m1, s1

LEMMA PulledMoves ==
  ASSUME NEW c, NEW m, NEW s, Both(c, m, s)
  PROVE  Moves(c, 0, m, s, Concrete!Emulator!Pulled(m), Symbolic!Emulator!Pulled(s))
<1>1. IntVal(c, Concrete!++(m.sp, Concrete!int(1)), Symbolic!++(s.sp, Symbolic!int(1)))
  BY Registers4, Digits, IntLiterals
<1>2. Moves(c, 0, m, s, Concrete!assign(m, "sp", Concrete!++(m.sp, Concrete!int(1))),
                        Symbolic!assign(s, "sp", Symbolic!++(s.sp, Symbolic!int(1))))
  BY Zenon, <1>1, RegisterNames, AssignRegister
<1> QED BY Zenon, <1>2 DEF Concrete!Emulator!Pulled, Symbolic!Emulator!Pulled

LEMMA PullMoves ==
  ASSUME NEW c, NEW m, NEW s, Both(c, m, s)
  PROVE  Moves(c, 0, m, s, Concrete!Emulator!Pull(m), Symbolic!Emulator!Pull(s))
<1> DEFINE m1 == Concrete!Emulator!Pulled(m)
           s1 == Symbolic!Emulator!Pulled(s)
           n1 == Concrete!read(m1, Concrete!Emulator!Stack(m1))
           e1 == Symbolic!read(s1, Symbolic!Emulator!Stack(s1))
<1>1. Moves(c, 0, m, s, m1, s1)
  BY Zenon, PulledMoves
<1>2. Both(c, m1, s1)
  BY Zenon, <1>1, After
<1> HIDE DEF m1, s1
<1>3. IntVal(c, n1, e1)
  BY Zenon, <1>2, StackVal, GetRead, IntOfByte
<1>4. Moves(c, 0, m1, s1, Concrete!assign(m1, "a", n1), Symbolic!assign(s1, "a", e1))
  BY Zenon, <1>2, <1>3, RegisterNames, AssignRegister
<1>5. Moves(c, 0, m, s, Concrete!assign(m1, "a", n1), Symbolic!assign(s1, "a", e1))
  BY Zenon, <1>1, <1>4, Chain00
<1> QED BY Zenon, <1>5 DEF Concrete!Emulator!Pull, Symbolic!Emulator!Pull, m1, s1

\* One of the assignments of PLP.
LEMMA SetFlagMoves ==
  ASSUME NEW c, NEW m, NEW s, Both(c, m, s), NEW f \in Flag, NEW n, NEW e, IntVal(c, n, e),
         NEW bit \in Byte
  PROVE  Moves(c, 0, m, s, Concrete!assign(m, f, Concrete!Emulator!HasBit(n, bit)),
                           Symbolic!assign(s, f, Symbolic!Emulator!HasBit(e, bit)))
BY Zenon, HasBitVal, AssignFlag

LEMMA SetFlagsMoves ==
  ASSUME NEW c, NEW m, NEW s, Both(c, m, s), NEW n, NEW e, IntVal(c, n, e)
  PROVE  Moves(c, 0, m, s, Concrete!Emulator!SetFlags(m, n), Symbolic!Emulator!SetFlags(s, e))
<1> DEFINE C(o, f, bit) == Concrete!assign(o, f, Concrete!Emulator!HasBit(n, bit))
           D(o, f, bit) == Symbolic!assign(o, f, Symbolic!Emulator!HasBit(e, bit))
           m1 == C(m, "S", 128)
           s1 == D(s, "S", 128)
           m2 == C(m1, "V", 64)
           s2 == D(s1, "V", 64)
           m3 == C(m2, "D", 8)
           s3 == D(s2, "D", 8)
           m4 == C(m3, "I", 4)
           s4 == D(s3, "I", 4)
           m5 == C(m4, "Z", 2)
           s5 == D(s4, "Z", 2)
           m6 == C(m5, "C", 1)
           s6 == D(s5, "C", 1)
<1>1. Moves(c, 0, m, s, m1, s1)
  BY FlagNames, Digits, SetFlagMoves
<1>2. Both(c, m1, s1)
  BY Zenon, <1>1, After
<1> HIDE DEF m1, s1
<1>3. Moves(c, 0, m1, s1, m2, s2)
  BY <1>2, FlagNames, Digits, SetFlagMoves
<1>4. Both(c, m2, s2)
  BY Zenon, <1>3, After
<1> HIDE DEF m2, s2
<1>5. Moves(c, 0, m2, s2, m3, s3)
  BY <1>4, FlagNames, Digits, SetFlagMoves
<1>6. Both(c, m3, s3)
  BY Zenon, <1>5, After
<1> HIDE DEF m3, s3
<1>7. Moves(c, 0, m3, s3, m4, s4)
  BY <1>6, FlagNames, Digits, SetFlagMoves
<1>8. Both(c, m4, s4)
  BY Zenon, <1>7, After
<1> HIDE DEF m4, s4
<1>9. Moves(c, 0, m4, s4, m5, s5)
  BY <1>8, FlagNames, Digits, SetFlagMoves
<1>10. Both(c, m5, s5)
  BY Zenon, <1>9, After
<1> HIDE DEF m5, s5
<1>11. Moves(c, 0, m5, s5, m6, s6)
  BY <1>10, FlagNames, Digits, SetFlagMoves
<1>12. Both(c, m6, s6)
  BY Zenon, <1>11, After
<1> HIDE DEF m6, s6
<1>13. Moves(c, 0, m, s, m2, s2)
  BY Zenon, <1>1, <1>3, Chain00
<1>14. Moves(c, 0, m, s, m3, s3)
  BY Zenon, <1>13, <1>5, Chain00
<1>15. Moves(c, 0, m, s, m4, s4)
  BY Zenon, <1>14, <1>7, Chain00
<1>16. Moves(c, 0, m, s, m5, s5)
  BY Zenon, <1>15, <1>9, Chain00
<1>17. Moves(c, 0, m, s, m6, s6)
  BY Zenon, <1>16, <1>11, Chain00
<1>18. Concrete!Emulator!SetFlags(m, n) = m6
  BY Zenon DEF Concrete!Emulator!SetFlags, m1, m2, m3, m4, m5, m6
<1>19. Symbolic!Emulator!SetFlags(s, e) = s6
  BY Zenon DEF Symbolic!Emulator!SetFlags, s1, s2, s3, s4, s5, s6
<1> QED BY Zenon, <1>17, <1>18, <1>19

LEMMA PullFlagsMoves ==
  ASSUME NEW c, NEW m, NEW s, Both(c, m, s)
  PROVE  Moves(c, 0, m, s, Concrete!Emulator!PullFlags(m), Symbolic!Emulator!PullFlags(s))
<1> DEFINE m1 == Concrete!Emulator!Pulled(m)
           s1 == Symbolic!Emulator!Pulled(s)
           n1 == Concrete!read(m1, Concrete!Emulator!Stack(m1))
           e1 == Symbolic!read(s1, Symbolic!Emulator!Stack(s1))
<1>1. Moves(c, 0, m, s, m1, s1)
  BY Zenon, PulledMoves
<1>2. Both(c, m1, s1)
  BY Zenon, <1>1, After
<1> HIDE DEF m1, s1
<1>3. IntVal(c, n1, e1)
  BY Zenon, <1>2, StackVal, GetRead, IntOfByte
<1>4. Moves(c, 0, m1, s1, Concrete!Emulator!SetFlags(m1, n1), Symbolic!Emulator!SetFlags(s1, e1))
  BY Zenon, <1>2, <1>3, SetFlagsMoves
<1>5. Moves(c, 0, m, s, Concrete!Emulator!SetFlags(m1, n1), Symbolic!Emulator!SetFlags(s1, e1))
  BY Zenon, <1>1, <1>4, Chain00
<1> QED BY Zenon, <1>5 DEF Concrete!Emulator!PullFlags, Symbolic!Emulator!PullFlags, m1, s1

LEMMA PVal ==
  ASSUME NEW c, NEW m, NEW s, Both(c, m, s)
  PROVE  IntVal(c, Concrete!Emulator!P(m), Symbolic!Emulator!P(s))
<1> DEFINE nS == Concrete!Emulator!Pick(m.S, 128)
           eS == Symbolic!Emulator!Pick(s.S, 128)
           nV == Concrete!Emulator!Pick(m.V, 64)
           eV == Symbolic!Emulator!Pick(s.V, 64)
           nD == Concrete!Emulator!Pick(m.D, 8)
           eD == Symbolic!Emulator!Pick(s.D, 8)
           nI == Concrete!Emulator!Pick(m.I, 4)
           eI == Symbolic!Emulator!Pick(s.I, 4)
           nZ == Concrete!Emulator!Pick(m.Z, 2)
           eZ == Symbolic!Emulator!Pick(s.Z, 2)
           nC == Concrete!Emulator!Pick(m.C, 1)
           eC == Symbolic!Emulator!Pick(s.C, 1)
<1>1. IntVal(c, nS, eS)
  BY Flags6, Digits, PickVal, IntOfByte
<1>2. IntVal(c, nV, eV)
  BY Flags6, Digits, PickVal, IntOfByte
<1>3. IntVal(c, nD, eD)
  BY Flags6, Digits, PickVal, IntOfByte
<1>4. IntVal(c, nI, eI)
  BY Flags6, Digits, PickVal, IntOfByte
<1>5. IntVal(c, nZ, eZ)
  BY Flags6, Digits, PickVal, IntOfByte
<1>6. IntVal(c, nC, eC)
  BY Flags6, Digits, PickVal, IntOfByte
<1> HIDE DEF nS, eS, nV, eV, nD, eD, nI, eI, nZ, eZ, nC, eC
<1>7. IntVal(c, Concrete!|(nS, nV),
               Symbolic!|(eS, eV))
  BY Zenon, <1>1, <1>2, IntOperators
<1>8. IntVal(c, Concrete!|(Concrete!|(nS, nV), nD),
               Symbolic!|(Symbolic!|(eS, eV), eD))
  BY Zenon, <1>7, <1>3, IntOperators
<1>9. IntVal(c, Concrete!|(Concrete!|(Concrete!|(nS, nV), nD), nI),
               Symbolic!|(Symbolic!|(Symbolic!|(eS, eV), eD), eI))
  BY Zenon, <1>8, <1>4, IntOperators
<1>10. IntVal(c, Concrete!|(Concrete!|(Concrete!|(Concrete!|(nS, nV), nD), nI), nZ),
               Symbolic!|(Symbolic!|(Symbolic!|(Symbolic!|(eS, eV), eD), eI), eZ))
  BY Zenon, <1>9, <1>5, IntOperators
<1>11. IntVal(c, Concrete!|(Concrete!|(Concrete!|(Concrete!|(Concrete!|(nS, nV), nD), nI), nZ), nC),
               Symbolic!|(Symbolic!|(Symbolic!|(Symbolic!|(Symbolic!|(eS, eV), eD), eI), eZ), eC))
  BY Zenon, <1>10, <1>6, IntOperators
<1> QED BY Zenon, <1>11 DEF Concrete!Emulator!P, Symbolic!Emulator!P,
  nS, eS, nV, eV, nD, eD, nI, eI, nZ, eZ, nC, eC

LEMMA CarryVal ==
  ASSUME NEW c, NEW m, NEW s, Both(c, m, s)
  PROVE  IntVal(c, Concrete!Emulator!Carry(m), Symbolic!Emulator!Carry(s))
<1>1. Concrete!Emulator!Carry(m) = Concrete!Emulator!Pick(m.C, 1)
  BY Zenon DEF Concrete!Emulator!Carry, Concrete!Emulator!Pick, Concrete!constant, Concrete!int
<1>2. PICK b \in BOOLEAN : s.C = EB(b)
  BY Zenon, Flags6 DEF TruthVal, Truths
<1>3. Symbolic!Emulator!Carry(s) = Symbolic!Emulator!Pick(s.C, 1)
  <2>1. Symbolic!constant(s, 1) = E8(1) /\ Symbolic!constant(s, 0) = E8(0)
    BY Numerals DEF Symbolic!constant
  <2>2. Symbolic!Emulator!Carry(s) = E8(IF b THEN 1 ELSE 0)
    BY <1>2, <2>1, Conditions DEF Symbolic!Emulator!Carry
  <2>3. Symbolic!Emulator!Pick(s.C, 1) = E8(IF b THEN 1 ELSE 0)
    BY <1>2, Conditions DEF Symbolic!Emulator!Pick
  <2> QED BY <2>2, <2>3
<1> QED BY <1>1, <1>3, Flags6, Digits, PickVal, IntOfByte

LEMMA CompareMoves ==
  ASSUME NEW c, NEW m, NEW s, Both(c, m, s), NEW n, NEW e, ByteVal(c, n, e),
         NEW k, NEW d, ByteVal(c, k, d)
  PROVE  Moves(c, 0, m, s, Concrete!Emulator!Compare(m, n, k), Symbolic!Emulator!Compare(s, e, d))
<1> DEFINE b1 == Concrete!uge(n, k)
           t1 == Symbolic!uge(e, d)
           b2 == Concrete!uge(Concrete!--(n, k), Concrete!int(128))
           t2 == Symbolic!uge(Symbolic!--(e, d), Symbolic!int(128))
           b3 == Concrete!\doteq(n, k)
           t3 == Symbolic!\doteq(e, d)
           m1 == Concrete!assign(m, "C", b1)
           s1 == Symbolic!assign(s, "C", t1)
           m2 == Concrete!assign(m1, "S", b2)
           s2 == Symbolic!assign(s1, "S", t2)
           m3 == Concrete!assign(m2, "Z", b3)
           s3 == Symbolic!assign(s2, "Z", t3)
<1>1. TruthVal(c, b1, t1)
  BY Zenon, IntOfByte, IntComparisons
<1>2. TruthVal(c, b2, t2)
  <2>1. IntVal(c, Concrete!--(n, k), Symbolic!--(e, d))
    BY Zenon, IntOfByte, IntOperators
  <2> QED BY <2>1, Digits, IntLiteralComparison
<1>3. TruthVal(c, b3, t3)
  BY Zenon, ByteEquality
<1> HIDE DEF b1, b2, b3, t1, t2, t3
<1>4. Moves(c, 0, m, s, m1, s1)
  BY Zenon, <1>1, FlagNames, AssignFlag
<1>5. Both(c, m1, s1)
  BY Zenon, <1>4, After
<1> HIDE DEF m1, s1
<1>6. Moves(c, 0, m1, s1, m2, s2)
  BY Zenon, <1>2, <1>5, FlagNames, AssignFlag
<1>7. Both(c, m2, s2)
  BY Zenon, <1>6, After
<1> HIDE DEF m2, s2
<1>8. Moves(c, 0, m2, s2, m3, s3)
  BY Zenon, <1>3, <1>7, FlagNames, AssignFlag
<1> HIDE DEF m3, s3
<1>9. Moves(c, 0, m, s, m2, s2)
  BY Zenon, <1>4, <1>6, Chain00
<1>10. Moves(c, 0, m, s, m3, s3)
  BY Zenon, <1>8, <1>9, Chain00
<1> QED BY Zenon, <1>10 DEF Concrete!Emulator!Compare, Symbolic!Emulator!Compare,
     b1, b2, b3, t1, t2, t3, m1, m2, m3, s1, s2, s3

LEMMA AddMoves ==
  ASSUME NEW c, NEW m, NEW s, Both(c, m, s), NEW n, NEW e, ByteVal(c, n, e)
  PROVE  Moves(c, 0, m, s, Concrete!Emulator!Add(m, n), Symbolic!Emulator!Add(s, e))
<1> DEFINE sum  == Concrete!++(Concrete!++(Concrete!extend(n), Concrete!extend(m.a)),
                               Concrete!extend(Concrete!Emulator!Pick(m.C, 1)))
           esum == Symbolic!++(Symbolic!++(Symbolic!extend(e), Symbolic!extend(s.a)),
                               Symbolic!extend(Symbolic!Emulator!Pick(s.C, 1)))
<1>1. WordVal(c, sum, esum)
  <2>1. WordVal(c, Concrete!extend(n), Symbolic!extend(e))
    BY Zenon, IntOfByte, Conversions
  <2>2. WordVal(c, Concrete!extend(m.a), Symbolic!extend(s.a))
    BY Zenon, Registers4, Conversions
  <2>3. WordVal(c, Concrete!extend(Concrete!Emulator!Pick(m.C, 1)),
                   Symbolic!extend(Symbolic!Emulator!Pick(s.C, 1)))
    BY Flags6, Digits, PickVal, IntOfByte, Conversions
  <2>4. WordVal(c, Concrete!++(Concrete!extend(n), Concrete!extend(m.a)),
                   Symbolic!++(Symbolic!extend(e), Symbolic!extend(s.a)))
    BY Zenon, <2>1, <2>2, WordOperators
  <2> QED BY Zenon, <2>3, <2>4, WordOperators
<1> HIDE DEF sum, esum
<1> DEFINE n1 == Concrete!lobyte(sum)
           e1 == Symbolic!lobyte(esum)
           v  == Concrete!&(Concrete!^^(n1, m.a), Concrete!^^(n1, n))
           ev == Symbolic!&(Symbolic!^^(e1, s.a), Symbolic!^^(e1, e))
           h  == Concrete!\doteq(Concrete!hibyte(sum), Concrete!int(1))
           eh == Symbolic!\doteq(Symbolic!hibyte(esum), Symbolic!int(1))
           m1 == Concrete!assign(m, "V", Concrete!Emulator!HasBit(v, 128))
           s1 == Symbolic!assign(s, "V", Symbolic!Emulator!HasBit(ev, 128))
           m2 == Concrete!assign(m1, "C", h)
           s2 == Symbolic!assign(s1, "C", eh)
           m3 == Concrete!Emulator!Load(m2, "a", n1)
           s3 == Symbolic!Emulator!Load(s2, "a", e1)
<1>2. IntVal(c, n1, e1) /\ TruthVal(c, h, eh)
  <2>1. ByteVal(c, n1, e1) /\ ByteVal(c, Concrete!hibyte(sum), Symbolic!hibyte(esum))
    BY Zenon, <1>1, Conversions
  <2>2. 1 \in Byte
    BY Digits
  <2>3. TruthVal(c, h, eh)
    BY Zenon, <2>1, <2>2, ByteLiteralEquality
  <2> QED BY Zenon, <2>1, <2>3, IntOfByte
<1> HIDE DEF n1, e1, h, eh
<1>3. IntVal(c, v, ev)
  <2>1. IntVal(c, Concrete!^^(n1, m.a), Symbolic!^^(e1, s.a))
    BY Zenon, <1>2, Registers4, IntOperators
  <2>2. IntVal(c, Concrete!^^(n1, n), Symbolic!^^(e1, e))
    BY Zenon, <1>2, IntOfByte, IntOperators
  <2> QED BY Zenon, <2>1, <2>2, IntOperators
<1> HIDE DEF v, ev
<1>4. Moves(c, 0, m, s, m1, s1)
  BY <1>3, FlagNames, Digits, SetFlagMoves
<1>5. Both(c, m1, s1)
  BY Zenon, <1>4, After
<1> HIDE DEF m1, s1
<1>6. Moves(c, 0, m1, s1, m2, s2)
  BY Zenon, <1>2, <1>5, FlagNames, AssignFlag
<1>7. Both(c, m2, s2)
  BY Zenon, <1>6, After
<1> HIDE DEF m2, s2
<1>8. Moves(c, 0, m2, s2, m3, s3)
  BY Zenon, <1>2, <1>7, RegisterNames, LoadMoves
<1> HIDE DEF m3, s3
<1>9. Moves(c, 0, m, s, m2, s2)
  BY Zenon, <1>4, <1>6, Chain00
<1>10. Moves(c, 0, m, s, m3, s3)
  BY Zenon, <1>8, <1>9, Chain00
<1>11. Concrete!Emulator!Add(m, n) = m3
  BY Zenon DEF Concrete!Emulator!Add, m1, m2, m3, n1, v, h, sum
<1>12. Symbolic!Emulator!Add(s, e) = s3
  BY Zenon DEF Symbolic!Emulator!Add, s1, s2, s3, e1, ev, eh, esum
<1> QED BY Zenon, <1>10, <1>11, <1>12

LEMMA TestBitsMoves ==
  ASSUME NEW c, NEW m, NEW s, Both(c, m, s), NEW n, NEW e, ByteVal(c, n, e)
  PROVE  Moves(c, 0, m, s, Concrete!Emulator!TestBits(m, n), Symbolic!Emulator!TestBits(s, e))
<1> DEFINE b1 == Concrete!\doteq(Concrete!&(n, m.a), Concrete!int(0))
           t1 == Symbolic!\doteq(Symbolic!&(e, s.a), Symbolic!int(0))
           m1 == Concrete!assign(m, "Z", b1)
           s1 == Symbolic!assign(s, "Z", t1)
           m2 == Concrete!assign(m1, "S", Concrete!Emulator!HasBit(n, 128))
           s2 == Symbolic!assign(s1, "S", Symbolic!Emulator!HasBit(e, 128))
           m3 == Concrete!assign(m2, "V", Concrete!Emulator!HasBit(n, 64))
           s3 == Symbolic!assign(s2, "V", Symbolic!Emulator!HasBit(e, 64))
<1>1. IntVal(c, n, e)
  BY Zenon, IntOfByte
<1>2. TruthVal(c, b1, t1)
  <2>1. IntVal(c, Concrete!&(n, m.a), Symbolic!&(e, s.a))
    BY Zenon, <1>1, Registers4, IntOperators
  <2>2. n \in Int /\ m.a \in Byte
    BY Zenon, Registers4 DEF ByteVal, IntVal
  <2>3. Concrete!&(n, m.a) \in Byte
    BY <2>2, SameOperators, AndOfByte DEF Concrete!&
  <2>4. ByteVal(c, Concrete!&(n, m.a), Symbolic!&(e, s.a))
    BY Zenon, <2>1, <2>3 DEF ByteVal
  <2> QED BY <2>4, Digits, ByteLiteralEquality
<1> HIDE DEF b1, t1
<1>4. Moves(c, 0, m, s, m1, s1)
  BY Zenon, <1>2, FlagNames, AssignFlag
<1>5. Both(c, m1, s1)
  BY Zenon, <1>4, After
<1> HIDE DEF m1, s1
<1>6. Moves(c, 0, m1, s1, m2, s2)
  BY <1>1, <1>5, FlagNames, Digits, SetFlagMoves
<1>7. Both(c, m2, s2)
  BY Zenon, <1>6, After
<1> HIDE DEF m2, s2
<1>8. Moves(c, 0, m2, s2, m3, s3)
  BY <1>1, <1>7, FlagNames, Digits, SetFlagMoves
<1> HIDE DEF m3, s3
<1>9. Moves(c, 0, m, s, m2, s2)
  BY Zenon, <1>4, <1>6, Chain00
<1>10. Moves(c, 0, m, s, m3, s3)
  BY Zenon, <1>8, <1>9, Chain00
<1> QED BY Zenon, <1>10 DEF Concrete!Emulator!TestBits, Symbolic!Emulator!TestBits,
     b1, t1, m1, m2, m3, s1, s2, s3

-----------------------------------------------------------------------------
(* Shifts.                                                                 *)

ShiftNames == {"ASL", "ASLA", "ROL", "ROLA", "LSR", "LSRA", "ROR", "RORA"}

LEMMA ShiftedVal ==
  ASSUME NEW c, NEW m, NEW s, Both(c, m, s), NEW n, NEW e, ByteVal(c, n, e),
         NEW name \in ShiftNames
  PROVE  /\ IntVal(c, Concrete!Emulator!Shifted(m, name, n).new,
                      Symbolic!Emulator!Shifted(s, name, e).new)
         /\ Concrete!Emulator!Shifted(m, name, n).bit \in Byte
         /\ Symbolic!Emulator!Shifted(s, name, e).bit = Concrete!Emulator!Shifted(m, name, n).bit
<1>1. IntVal(c, Concrete!shl(n), Symbolic!shl(e)) /\ IntVal(c, Concrete!shr(n), Symbolic!shr(e))
  BY Zenon, IntOfByte, Conversions
<1>2. IntVal(c, Concrete!Emulator!Pick(m.C, 128), Symbolic!Emulator!Pick(s.C, 128))
  BY Flags6, Digits, PickVal, IntOfByte
<1>3. IntVal(c, Concrete!|(Concrete!shl(n), Concrete!Emulator!Carry(m)),
                Symbolic!|(Symbolic!shl(e), Symbolic!Emulator!Carry(s)))
  BY Zenon, <1>1, CarryVal, IntOperators
<1>4. IntVal(c, Concrete!|(Concrete!shr(n), Concrete!Emulator!Pick(m.C, 128)),
                Symbolic!|(Symbolic!shr(e), Symbolic!Emulator!Pick(s.C, 128)))
  BY <1>1, <1>2, IntOperators
<1>5. 1 \in Byte /\ 128 \in Byte
  BY Digits
<1>6. CASE name = "ASL"
  <2>1. Concrete!Emulator!Shifted(m, name, n) = [bit |-> 128, new |-> Concrete!shl(n)]
    BY Zenon, <1>6 DEF Concrete!Emulator!Shifted
  <2>2. Symbolic!Emulator!Shifted(s, name, e) = [bit |-> 128, new |-> Symbolic!shl(e)]
    BY Zenon, <1>6 DEF Symbolic!Emulator!Shifted
  <2> QED BY <2>1, <2>2, <1>1, <1>5
<1>7. CASE name = "ASLA"
  <2>1. Concrete!Emulator!Shifted(m, name, n) = [bit |-> 128, new |-> Concrete!shl(n)]
    BY Zenon, <1>7 DEF Concrete!Emulator!Shifted
  <2>2. Symbolic!Emulator!Shifted(s, name, e) = [bit |-> 128, new |-> Symbolic!shl(e)]
    BY Zenon, <1>7 DEF Symbolic!Emulator!Shifted
  <2> QED BY <2>1, <2>2, <1>1, <1>5
<1>8. CASE name = "ROL"
  <2>1. Concrete!Emulator!Shifted(m, name, n) = [bit |-> 128, new |-> Concrete!|(Concrete!shl(n), Concrete!Emulator!Carry(m))]
    BY Zenon, <1>8 DEF Concrete!Emulator!Shifted
  <2>2. Symbolic!Emulator!Shifted(s, name, e) = [bit |-> 128, new |-> Symbolic!|(Symbolic!shl(e), Symbolic!Emulator!Carry(s))]
    BY Zenon, <1>8 DEF Symbolic!Emulator!Shifted
  <2> QED BY <2>1, <2>2, <1>3, <1>5
<1>9. CASE name = "ROLA"
  <2>1. Concrete!Emulator!Shifted(m, name, n) = [bit |-> 128, new |-> Concrete!|(Concrete!shl(n), Concrete!Emulator!Carry(m))]
    BY Zenon, <1>9 DEF Concrete!Emulator!Shifted
  <2>2. Symbolic!Emulator!Shifted(s, name, e) = [bit |-> 128, new |-> Symbolic!|(Symbolic!shl(e), Symbolic!Emulator!Carry(s))]
    BY Zenon, <1>9 DEF Symbolic!Emulator!Shifted
  <2> QED BY <2>1, <2>2, <1>3, <1>5
<1>10. CASE name = "LSR"
  <2>1. Concrete!Emulator!Shifted(m, name, n) = [bit |-> 1, new |-> Concrete!shr(n)]
    BY Zenon, <1>10 DEF Concrete!Emulator!Shifted
  <2>2. Symbolic!Emulator!Shifted(s, name, e) = [bit |-> 1, new |-> Symbolic!shr(e)]
    BY Zenon, <1>10 DEF Symbolic!Emulator!Shifted
  <2> QED BY <2>1, <2>2, <1>1, <1>5
<1>11. CASE name = "LSRA"
  <2>1. Concrete!Emulator!Shifted(m, name, n) = [bit |-> 1, new |-> Concrete!shr(n)]
    BY Zenon, <1>11 DEF Concrete!Emulator!Shifted
  <2>2. Symbolic!Emulator!Shifted(s, name, e) = [bit |-> 1, new |-> Symbolic!shr(e)]
    BY Zenon, <1>11 DEF Symbolic!Emulator!Shifted
  <2> QED BY <2>1, <2>2, <1>1, <1>5
<1>12. CASE name = "ROR"
  <2>1. Concrete!Emulator!Shifted(m, name, n) = [bit |-> 1, new |-> Concrete!|(Concrete!shr(n), Concrete!Emulator!Pick(m.C, 128))]
    BY Zenon, <1>12 DEF Concrete!Emulator!Shifted
  <2>2. Symbolic!Emulator!Shifted(s, name, e) = [bit |-> 1, new |-> Symbolic!|(Symbolic!shr(e), Symbolic!Emulator!Pick(s.C, 128))]
    BY Zenon, <1>12 DEF Symbolic!Emulator!Shifted
  <2> QED BY <2>1, <2>2, <1>4, <1>5
<1>13. CASE name = "RORA"
  <2>1. Concrete!Emulator!Shifted(m, name, n) = [bit |-> 1, new |-> Concrete!|(Concrete!shr(n), Concrete!Emulator!Pick(m.C, 128))]
    BY Zenon, <1>13 DEF Concrete!Emulator!Shifted
  <2>2. Symbolic!Emulator!Shifted(s, name, e) = [bit |-> 1, new |-> Symbolic!|(Symbolic!shr(e), Symbolic!Emulator!Pick(s.C, 128))]
    BY Zenon, <1>13 DEF Symbolic!Emulator!Shifted
  <2> QED BY <2>1, <2>2, <1>4, <1>5
<1> QED BY Zenon, <1>6, <1>7, <1>8, <1>9, <1>10, <1>11, <1>12, <1>13 DEF ShiftNames

LEMMA ShiftAccumulatorMoves ==
  ASSUME NEW c, NEW m, NEW s, Both(c, m, s), NEW name \in ShiftNames
  PROVE  Moves(c, 0, m, s, Concrete!Emulator!ShiftAccumulator(m, name),
                           Symbolic!Emulator!ShiftAccumulator(s, name))
<1> DEFINE x  == Concrete!Emulator!Shifted(m, name, m.a)
           y  == Symbolic!Emulator!Shifted(s, name, s.a)
           m1 == Concrete!assign(m, "C", Concrete!Emulator!HasBit(m.a, x.bit))
           s1 == Symbolic!assign(s, "C", Symbolic!Emulator!HasBit(s.a, y.bit))
<1>1. IntVal(c, x.new, y.new) /\ x.bit \in Byte /\ y.bit = x.bit
  <2>1. ByteVal(c, m.a, s.a)
    BY Zenon, Registers4
  <2> QED BY <2>1, ShiftedVal
<1> HIDE DEF x, y
<1>2. Moves(c, 0, m, s, m1, s1)
  BY Zenon, <1>1, Registers4, FlagNames, SetFlagMoves
<1>3. Both(c, m1, s1)
  BY Zenon, <1>2, After
<1> HIDE DEF m1, s1
<1>4. Moves(c, 0, m1, s1, Concrete!Emulator!Load(m1, "a", x.new), Symbolic!Emulator!Load(s1, "a", y.new))
  BY Zenon, <1>1, <1>3, RegisterNames, LoadMoves
<1>5. Moves(c, 0, m, s, Concrete!Emulator!Load(m1, "a", x.new), Symbolic!Emulator!Load(s1, "a", y.new))
  BY Zenon, <1>2, <1>4, Chain00
<1> QED BY Zenon, <1>5 DEF Concrete!Emulator!ShiftAccumulator, Symbolic!Emulator!ShiftAccumulator,
     x, y, m1, s1

LEMMA ShiftMemoryMoves ==
  ASSUME NEW c, NEW m, NEW s, Both(c, m, s), NEW name \in ShiftNames,
         NEW a, NEW d, WordVal(c, a, d), NEW n, NEW e, ByteVal(c, n, e)
  PROVE  Moves(c, 1, m, s, Concrete!Emulator!ShiftMemory(m, name, a, n),
                           Symbolic!Emulator!ShiftMemory(s, name, d, e))
<1> DEFINE x  == Concrete!Emulator!Shifted(m, name, n)
           y  == Symbolic!Emulator!Shifted(s, name, e)
           m1 == Concrete!assign(m, "C", Concrete!Emulator!HasBit(n, x.bit))
           s1 == Symbolic!assign(s, "C", Symbolic!Emulator!HasBit(e, y.bit))
<1>1. IntVal(c, x.new, y.new) /\ x.bit \in Byte /\ y.bit = x.bit
  BY ShiftedVal
<1>6. IntVal(c, n, e)
  BY Zenon, IntOfByte
<1> HIDE DEF x, y
<1>2. Moves(c, 0, m, s, m1, s1)
  BY Zenon, <1>1, <1>6, FlagNames, SetFlagMoves
<1>3. Both(c, m1, s1)
  BY Zenon, <1>2, After
<1> HIDE DEF m1, s1
<1>4. Moves(c, 1, m1, s1, Concrete!Emulator!Update(m1, a, x.new), Symbolic!Emulator!Update(s1, d, y.new))
  BY Zenon, <1>1, <1>3, UpdateMoves
<1>5. Moves(c, 1, m, s, Concrete!Emulator!Update(m1, a, x.new), Symbolic!Emulator!Update(s1, d, y.new))
  BY Zenon, <1>2, <1>4, Chain01
<1> QED BY Zenon, <1>5 DEF Concrete!Emulator!ShiftMemory, Symbolic!Emulator!ShiftMemory,
     x, y, m1, s1

-----------------------------------------------------------------------------
(* Pointers, which the two machines do not read alike, and operands.       *)

LEMMA PointerVal ==
  ASSUME NEW c, ~c, NEW m, NEW s, Both(c, m, s),
         NEW n, NEW e, WordVal(c, n, e), NEW k, NEW d, WordVal(c, k, d)
  PROVE  WordVal(c, Concrete!Emulator!Pointer(m, n, k), Symbolic!Emulator!Pointer(s, e, d))
<1> DEFINE n1 == Concrete!extend(Concrete!read(m, n))
           e1 == Symbolic!extend(Symbolic!read(s, e))
           k1 == Concrete!extend(Concrete!read(m, k))
           d1 == Symbolic!extend(Symbolic!read(s, d))
<1>1. WordVal(c, n1, e1) /\ WordVal(c, k1, d1)
  BY Zenon, GetRead, IntOfByte, Conversions
<1> HIDE DEF n1, e1, k1, d1
<1>2. Symbolic!shift8(d1) = Symbolic!int(256)
  BY Powers DEF Symbolic!shift8, Symbolic!ShiftLeft, Symbolic!int
<1>3. WordVal(c, Concrete!|(n1, Concrete!int(256)), Symbolic!|(e1, Symbolic!int(256)))
  BY <1>1, Digits, WordLiterals
<1>4. n1 \in Int /\ 256 * k1 \in Int
  BY <1>1 DEF WordVal
<1>5. Concrete!|(n1, Concrete!shift8(k1)) \in Int
  <2>1. PICK z \in Int : z = Concrete!shift8(k1)
    BY <1>4 DEF Concrete!shift8
  <2>2. Concrete!|(n1, z) = Symbolic!BitOr(n1, z)
    BY Zenon, SameOperators DEF Concrete!|
  <2>3. Symbolic!BitOr(n1, z) \in Int
    BY <1>4, <2>1, BitRange
  <2> QED BY Zenon, <2>1, <2>2, <2>3
<1>6. Symbolic!|(e1, Symbolic!shift8(d1)) \in Bits16
  BY Zenon, <1>2, <1>3 DEF WordVal
<1> QED BY Zenon, <1>5, <1>6 DEF WordVal, Concrete!Emulator!Pointer, Symbolic!Emulator!Pointer,
     n1, e1, k1, d1

LEMMA ZeroPagePointerVal ==
  ASSUME NEW c, ~c, NEW m, NEW s, Both(c, m, s), NEW n, NEW e, IntVal(c, n, e)
  PROVE  WordVal(c, Concrete!Emulator!ZeroPagePointer(m, n), Symbolic!Emulator!ZeroPagePointer(s, e))
<1> DEFINE n1 == Concrete!extend(Concrete!&(n, Concrete!int(255)))
           e1 == Symbolic!extend(Symbolic!&(e, Symbolic!int(255)))
           n2 == Concrete!extend(Concrete!&(Concrete!++(n, Concrete!int(1)), Concrete!int(255)))
           e2 == Symbolic!extend(Symbolic!&(Symbolic!++(e, Symbolic!int(1)), Symbolic!int(255)))
<1>1. WordVal(c, n1, e1)
  <2>1. IntVal(c, Concrete!&(n, Concrete!int(255)), Symbolic!&(e, Symbolic!int(255)))
    BY Digits, IntLiterals
  <2> QED BY <2>1, Conversions
<1>2. WordVal(c, n2, e2)
  <2>1. IntVal(c, Concrete!++(n, Concrete!int(1)), Symbolic!++(e, Symbolic!int(1)))
    BY Digits, IntLiterals
  <2>2. IntVal(c, Concrete!&(Concrete!++(n, Concrete!int(1)), Concrete!int(255)),
                  Symbolic!&(Symbolic!++(e, Symbolic!int(1)), Symbolic!int(255)))
    BY <2>1, Digits, IntLiterals
  <2> QED BY <2>2, Conversions
<1>3. /\ Concrete!Emulator!ZeroPagePointer(m, n) = Concrete!Emulator!Pointer(m, n1, n2)
      /\ Symbolic!Emulator!ZeroPagePointer(s, e) = Symbolic!Emulator!Pointer(s, e1, e2)
  BY DEF Concrete!Emulator!ZeroPagePointer, Symbolic!Emulator!ZeroPagePointer
<1> HIDE DEF n1, e1, n2, e2
<1> QED BY Zenon, <1>1, <1>2, <1>3, PointerVal

\* Where JMPI jumps to, with the operand n or e.
LEMMA PagePointerVal ==
  ASSUME NEW c, ~c, NEW m, NEW s, Both(c, m, s), NEW n, NEW e, WordVal(c, n, e)
  PROVE  WordVal(c, Concrete!Emulator!PagePointer(m, n), Symbolic!Emulator!PagePointer(s, e))
<1> DEFINE n1 == Concrete!&(n, Concrete!int(65280))
           e1 == Symbolic!&(e, Symbolic!int(65280))
           n2 == Concrete!&(Concrete!++(n, Concrete!int(1)), Concrete!int(255))
           e2 == Symbolic!&(Symbolic!++(e, Symbolic!int(1)), Symbolic!int(255))
           n3 == Concrete!|(n1, n2)
           e3 == Symbolic!|(e1, e2)
<1>1. WordVal(c, n1, e1)
  BY Digits, WordLiterals
<1>2. WordVal(c, n2, e2)
  <2>1. WordVal(c, Concrete!++(n, Concrete!int(1)), Symbolic!++(e, Symbolic!int(1)))
    BY Digits, WordLiterals
  <2> QED BY <2>1, Digits, WordLiterals
<1> HIDE DEF n1, e1, n2, e2
<1>3. WordVal(c, n3, e3)
  BY Zenon, <1>1, <1>2, WordOperators
<1> HIDE DEF n3, e3
<1>4. WordVal(c, Concrete!Emulator!Pointer(m, n, n3), Symbolic!Emulator!Pointer(s, e, e3))
  BY Zenon, <1>3, PointerVal
<1>5. /\ Concrete!Emulator!PagePointer(m, n) = Concrete!Emulator!Pointer(m, n, n3)
      /\ Symbolic!Emulator!PagePointer(s, e) = Symbolic!Emulator!Pointer(s, e, e3)
  BY DEF Concrete!Emulator!PagePointer, Symbolic!Emulator!PagePointer, n1, n2, n3, e1, e2, e3
<1> QED BY Zenon, <1>4, <1>5

LEMMA JumpIndirectMoves ==
  ASSUME NEW c, ~c, NEW m, NEW s, Both(c, m, s), NEW n, NEW e, WordVal(c, n, e)
  PROVE  Moves(c, 0, m, s, Concrete!Emulator!JumpIndirect(m, n), Symbolic!Emulator!JumpIndirect(s, e))
<1>1. Moves(c, 0, m, s, Concrete!jmp(m, Concrete!Emulator!PagePointer(m, n)),
                         Symbolic!jmp(s, Symbolic!Emulator!PagePointer(s, e)))
  BY Zenon, PagePointerVal, JmpMoves
<1>2. Concrete!Emulator!JumpIndirect(m, n) = Concrete!jmp(m, Concrete!Emulator!PagePointer(m, n))
  BY DEF Concrete!Emulator!JumpIndirect
<1>3. Symbolic!Emulator!JumpIndirect(s, e) = Symbolic!jmp(s, Symbolic!Emulator!PagePointer(s, e))
  BY DEF Symbolic!Emulator!JumpIndirect
<1> QED BY Zenon, <1>1, <1>2, <1>3

Modes == {"ABSOLUTE", "ABSOLUTE_X", "ABSOLUTE_Y", "X_INDIRECT", "INDIRECT_Y",
          "ZERO_PAGE", "ZERO_PAGE_X", "ZERO_PAGE_Y", "IMMEDIATE", "CONSTANT", "NONE"}

\* The number of an operand is in the range of its mode.
OperandOK(ins) ==
    /\ ins.mode \in Modes
    /\ ins.mode \notin {"CONSTANT", "NONE"} => ins.number \in 0 .. 3
    /\ ins.mode = "CONSTANT" => addr_mode_constant_values[ins.number + 1] \in Byte

LEMMA AbsoluteVal ==
  ASSUME NEW c, NEW m, NEW s, Both(c, m, s), NEW ins, OperandOK(ins),
         c => ins.mode \notin {"X_INDIRECT", "INDIRECT_Y"}
  PROVE  WordVal(c, Concrete!Emulator!absoluteVar(m, ins), Symbolic!Emulator!absoluteVar(s, ins))
<1> DEFINE k  == ins.number
           n  == Concrete!absolute(m, k)
           e  == Symbolic!absolute(s, k)
           p  == Concrete!zp(m, k)
           ep == Symbolic!zp(s, k)
<1>1. ASSUME ins.mode \notin {"CONSTANT", "NONE"}
      PROVE  WordVal(c, n, e) /\ IntVal(c, p, ep)
  BY Zenon, <1>1, GetOperands, IntOfByte DEF OperandOK
<1>2. /\ WordVal(c, Concrete!extend(m.x), Symbolic!extend(s.x))
      /\ WordVal(c, Concrete!extend(m.y), Symbolic!extend(s.y))
  BY Zenon, Registers4, Conversions
<1>3. CASE ins.mode = "ABSOLUTE"
  <2>0. ins.mode \notin {"CONSTANT", "NONE"}
    BY <1>3
  <2>1. Concrete!Emulator!absoluteVar(m, ins) = Concrete!wordVar(n)
    BY Zenon, <1>3 DEF Concrete!Emulator!absoluteVar
  <2>2. Symbolic!Emulator!absoluteVar(s, ins) = Symbolic!wordVar(e)
    BY Zenon, <1>3 DEF Symbolic!Emulator!absoluteVar
  <2>3. WordVal(c, n, e)
    BY Zenon, <1>1, <2>0
  <2> QED BY Zenon, <2>1, <2>2, <2>3, Conversions
<1>4. CASE ins.mode = "ABSOLUTE_X"
  <2>0. ins.mode \notin {"CONSTANT", "NONE"}
    BY <1>4
  <2>1. Concrete!Emulator!absoluteVar(m, ins) = Concrete!wordVar(Concrete!++(n, Concrete!extend(m.x)))
    BY Zenon, <1>4 DEF Concrete!Emulator!absoluteVar
  <2>2. Symbolic!Emulator!absoluteVar(s, ins) = Symbolic!wordVar(Symbolic!++(e, Symbolic!extend(s.x)))
    BY Zenon, <1>4 DEF Symbolic!Emulator!absoluteVar
  <2>3. WordVal(c, Concrete!++(n, Concrete!extend(m.x)), Symbolic!++(e, Symbolic!extend(s.x)))
    BY Zenon, <1>1, <1>2, <2>0, WordOperators
  <2> QED BY Zenon, <2>1, <2>2, <2>3, Conversions
<1>5. CASE ins.mode = "ABSOLUTE_Y"
  <2>0. ins.mode \notin {"CONSTANT", "NONE"}
    BY <1>5
  <2>1. Concrete!Emulator!absoluteVar(m, ins) = Concrete!wordVar(Concrete!++(n, Concrete!extend(m.y)))
    BY Zenon, <1>5 DEF Concrete!Emulator!absoluteVar
  <2>2. Symbolic!Emulator!absoluteVar(s, ins) = Symbolic!wordVar(Symbolic!++(e, Symbolic!extend(s.y)))
    BY Zenon, <1>5 DEF Symbolic!Emulator!absoluteVar
  <2>3. WordVal(c, Concrete!++(n, Concrete!extend(m.y)), Symbolic!++(e, Symbolic!extend(s.y)))
    BY Zenon, <1>1, <1>2, <2>0, WordOperators
  <2> QED BY Zenon, <2>1, <2>2, <2>3, Conversions
<1>6. CASE ins.mode = "X_INDIRECT"
  <2> DEFINE q  == Concrete!wordVar(Concrete!Emulator!ZeroPagePointer(m, Concrete!++(p, m.x)))
             eq == Symbolic!wordVar(Symbolic!Emulator!ZeroPagePointer(s, Symbolic!++(ep, s.x)))
  <2>0. ins.mode \notin {"CONSTANT", "NONE"} /\ ~c
    BY <1>6
  <2>1. Concrete!Emulator!absoluteVar(m, ins) = Concrete!wordVar(Concrete!Emulator!Pointer(m, q, Concrete!++(q, Concrete!int(1))))
    BY Zenon, <1>6 DEF Concrete!Emulator!absoluteVar
  <2>2. Symbolic!Emulator!absoluteVar(s, ins) = Symbolic!wordVar(Symbolic!Emulator!Pointer(s, eq, Symbolic!++(eq, Symbolic!int(1))))
    BY Zenon, <1>6 DEF Symbolic!Emulator!absoluteVar
  <2>4. WordVal(c, q, eq)
    <3>1. IntVal(c, Concrete!++(p, m.x), Symbolic!++(ep, s.x))
      BY Zenon, <1>1, <2>0, Registers4, IntOperators
    <3> QED BY Zenon, <2>0, <3>1, ZeroPagePointerVal, Conversions
  <2> HIDE DEF q, eq
  <2>5. WordVal(c, Concrete!++(q, Concrete!int(1)), Symbolic!++(eq, Symbolic!int(1)))
    BY <2>4, Digits, WordLiterals
  <2>3. WordVal(c, Concrete!Emulator!Pointer(m, q, Concrete!++(q, Concrete!int(1))),
                   Symbolic!Emulator!Pointer(s, eq, Symbolic!++(eq, Symbolic!int(1))))
    BY Zenon, <2>0, <2>4, <2>5, PointerVal
  <2> QED BY Zenon, <2>1, <2>2, <2>3, Conversions
<1>7. CASE ins.mode = "INDIRECT_Y"
  <2>0. ins.mode \notin {"CONSTANT", "NONE"} /\ ~c
    BY <1>7
  <2>1. Concrete!Emulator!absoluteVar(m, ins) = Concrete!wordVar(Concrete!++(Concrete!Emulator!ZeroPagePointer(m, p), Concrete!extend(m.y)))
    BY Zenon, <1>7 DEF Concrete!Emulator!absoluteVar
  <2>2. Symbolic!Emulator!absoluteVar(s, ins) = Symbolic!wordVar(Symbolic!++(Symbolic!Emulator!ZeroPagePointer(s, ep), Symbolic!extend(s.y)))
    BY Zenon, <1>7 DEF Symbolic!Emulator!absoluteVar
  <2>4. WordVal(c, Concrete!Emulator!ZeroPagePointer(m, p), Symbolic!Emulator!ZeroPagePointer(s, ep))
    BY Zenon, <1>1, <2>0, ZeroPagePointerVal
  <2>3. WordVal(c, Concrete!++(Concrete!Emulator!ZeroPagePointer(m, p), Concrete!extend(m.y)),
                   Symbolic!++(Symbolic!Emulator!ZeroPagePointer(s, ep), Symbolic!extend(s.y)))
    BY Zenon, <1>2, <2>4, WordOperators
  <2> QED BY Zenon, <2>1, <2>2, <2>3, Conversions
<1>8. CASE ins.mode = "ZERO_PAGE"
  <2>0. ins.mode \notin {"CONSTANT", "NONE"}
    BY <1>8
  <2>1. Concrete!Emulator!absoluteVar(m, ins) = Concrete!wordVar(Concrete!extend(p))
    BY Zenon, <1>8 DEF Concrete!Emulator!absoluteVar
  <2>2. Symbolic!Emulator!absoluteVar(s, ins) = Symbolic!wordVar(Symbolic!extend(ep))
    BY Zenon, <1>8 DEF Symbolic!Emulator!absoluteVar
  <2>3. WordVal(c, Concrete!extend(p), Symbolic!extend(ep))
    BY Zenon, <1>1, <2>0, Conversions
  <2> QED BY Zenon, <2>1, <2>2, <2>3, Conversions
<1>9. CASE ins.mode = "ZERO_PAGE_X"
  <2>0. ins.mode \notin {"CONSTANT", "NONE"}
    BY <1>9
  <2>1. Concrete!Emulator!absoluteVar(m, ins) = Concrete!wordVar(Concrete!extend(Concrete!++(p, m.x)))
    BY Zenon, <1>9 DEF Concrete!Emulator!absoluteVar
  <2>2. Symbolic!Emulator!absoluteVar(s, ins) = Symbolic!wordVar(Symbolic!extend(Symbolic!++(ep, s.x)))
    BY Zenon, <1>9 DEF Symbolic!Emulator!absoluteVar
  <2>4. IntVal(c, Concrete!++(p, m.x), Symbolic!++(ep, s.x))
    BY Zenon, <1>1, <2>0, Registers4, IntOperators
  <2>3. WordVal(c, Concrete!extend(Concrete!++(p, m.x)), Symbolic!extend(Symbolic!++(ep, s.x)))
    BY Zenon, <2>4, Conversions
  <2> QED BY Zenon, <2>1, <2>2, <2>3, Conversions
<1>10. CASE ins.mode = "ZERO_PAGE_Y"
  <2>0. ins.mode \notin {"CONSTANT", "NONE"}
    BY <1>10
  <2>1. Concrete!Emulator!absoluteVar(m, ins) = Concrete!wordVar(Concrete!extend(Concrete!++(p, m.y)))
    BY Zenon, <1>10 DEF Concrete!Emulator!absoluteVar
  <2>2. Symbolic!Emulator!absoluteVar(s, ins) = Symbolic!wordVar(Symbolic!extend(Symbolic!++(ep, s.y)))
    BY Zenon, <1>10 DEF Symbolic!Emulator!absoluteVar
  <2>4. IntVal(c, Concrete!++(p, m.y), Symbolic!++(ep, s.y))
    BY Zenon, <1>1, <2>0, Registers4, IntOperators
  <2>3. WordVal(c, Concrete!extend(Concrete!++(p, m.y)), Symbolic!extend(Symbolic!++(ep, s.y)))
    BY Zenon, <2>4, Conversions
  <2> QED BY Zenon, <2>1, <2>2, <2>3, Conversions
<1>11. CASE ins.mode \in {"IMMEDIATE", "CONSTANT", "NONE"}
  <2>1. Concrete!Emulator!absoluteVar(m, ins) = Concrete!wordVar(Concrete!absolute(m, 0))
    BY Zenon, <1>11 DEF Concrete!Emulator!absoluteVar
  <2>2. Symbolic!Emulator!absoluteVar(s, ins) = Symbolic!wordVar(Symbolic!absolute(s, 0))
    BY Zenon, <1>11 DEF Symbolic!Emulator!absoluteVar
  <2>3. 0 \in 0 .. 3
    OBVIOUS
  <2> QED BY Zenon, <2>1, <2>2, <2>3, GetOperands, Conversions
<1> QED BY Zenon, <1>3, <1>4, <1>5, <1>6, <1>7, <1>8, <1>9, <1>10, <1>11 DEF OperandOK, Modes

LEMMA SameConstants ==
  /\ Concrete!Emulator!addr_mode_constant_values = addr_mode_constant_values
  /\ Symbolic!Emulator!addr_mode_constant_values = addr_mode_constant_values
BY Zenon DEF Concrete!Emulator!addr_mode_constant_values,
   Symbolic!Emulator!addr_mode_constant_values, addr_mode_constant_values

LEMMA ImmediateVal ==
  ASSUME NEW c, NEW m, NEW s, Both(c, m, s), NEW ins, OperandOK(ins),
         c => ins.mode \notin {"X_INDIRECT", "INDIRECT_Y"}
  PROVE  ByteVal(c, Concrete!Emulator!immediateVar(m, ins), Symbolic!Emulator!immediateVar(s, ins))
<1>1. CASE ins.mode = "IMMEDIATE"
  <2>0. ins.number \in 0 .. 3
    BY <1>1 DEF OperandOK
  <2>1. /\ Concrete!Emulator!immediateVar(m, ins) = Concrete!byteVar(Concrete!immediate(m, ins.number))
        /\ Symbolic!Emulator!immediateVar(s, ins) = Symbolic!byteVar(Symbolic!immediate(s, ins.number))
    BY Zenon, <1>1 DEF Concrete!Emulator!immediateVar, Symbolic!Emulator!immediateVar
  <2> QED BY Zenon, <2>0, <2>1, GetOperands, IntOfByte, Conversions
<1>2. CASE ins.mode = "CONSTANT"
  <2> DEFINE k == addr_mode_constant_values[ins.number + 1]
  <2>0. k \in Byte
    BY <1>2 DEF OperandOK
  <2>1. Concrete!Emulator!immediateVar(m, ins) = Concrete!byteVar(Concrete!constant(m, k))
    BY Zenon, <1>2, SameConstants DEF Concrete!Emulator!immediateVar
  <2>2. Symbolic!Emulator!immediateVar(s, ins) = Symbolic!byteVar(Symbolic!constant(s, k))
    BY Zenon, <1>2, SameConstants DEF Symbolic!Emulator!immediateVar
  <2> HIDE DEF k
  <2> QED BY Zenon, <2>0, <2>1, <2>2, GetConstant, IntOfByte, Conversions
<1>3. CASE ins.mode \notin {"IMMEDIATE", "CONSTANT"}
  <2>1. /\ Concrete!Emulator!immediateVar(m, ins)
             = Concrete!byteVar(Concrete!read(m, Concrete!Emulator!absoluteVar(m, ins)))
        /\ Symbolic!Emulator!immediateVar(s, ins)
             = Symbolic!byteVar(Symbolic!read(s, Symbolic!Emulator!absoluteVar(s, ins)))
    BY Zenon, <1>3 DEF Concrete!Emulator!immediateVar, Symbolic!Emulator!immediateVar
  <2> QED BY Zenon, <2>1, AbsoluteVal, GetRead, IntOfByte, Conversions
<1> QED BY Zenon, <1>1, <1>2, <1>3

-----------------------------------------------------------------------------
(* The switch over the names.                                              *)

LEMMA ConditionVal ==
  ASSUME NEW c, NEW m, NEW s, Both(c, m, s), NEW name \in Branches
  PROVE  TruthVal(c, Concrete!Emulator!Condition(m, name), Symbolic!Emulator!Condition(s, name))
<1>1. CASE name = "BPL"
  <2>1. /\ Concrete!Emulator!Condition(m, name) = Concrete!not(m.S)
        /\ Symbolic!Emulator!Condition(s, name) = Symbolic!not(s.S)
    BY Zenon, <1>1 DEF Concrete!Emulator!Condition, Symbolic!Emulator!Condition
  <2> QED BY Zenon, <2>1, Flags6, NotVal
<1>2. CASE name = "BMI"
  <2>1. /\ Concrete!Emulator!Condition(m, name) = m.S
        /\ Symbolic!Emulator!Condition(s, name) = s.S
    BY Zenon, <1>2 DEF Concrete!Emulator!Condition, Symbolic!Emulator!Condition
  <2> QED BY Zenon, <2>1, Flags6
<1>3. CASE name = "BVC"
  <2>1. /\ Concrete!Emulator!Condition(m, name) = Concrete!not(m.V)
        /\ Symbolic!Emulator!Condition(s, name) = Symbolic!not(s.V)
    BY Zenon, <1>3 DEF Concrete!Emulator!Condition, Symbolic!Emulator!Condition
  <2> QED BY Zenon, <2>1, Flags6, NotVal
<1>4. CASE name = "BVS"
  <2>1. /\ Concrete!Emulator!Condition(m, name) = m.V
        /\ Symbolic!Emulator!Condition(s, name) = s.V
    BY Zenon, <1>4 DEF Concrete!Emulator!Condition, Symbolic!Emulator!Condition
  <2> QED BY Zenon, <2>1, Flags6
<1>5. CASE name = "BCC"
  <2>1. /\ Concrete!Emulator!Condition(m, name) = Concrete!not(m.C)
        /\ Symbolic!Emulator!Condition(s, name) = Symbolic!not(s.C)
    BY Zenon, <1>5 DEF Concrete!Emulator!Condition, Symbolic!Emulator!Condition
  <2> QED BY Zenon, <2>1, Flags6, NotVal
<1>6. CASE name = "BCS"
  <2>1. /\ Concrete!Emulator!Condition(m, name) = m.C
        /\ Symbolic!Emulator!Condition(s, name) = s.C
    BY Zenon, <1>6 DEF Concrete!Emulator!Condition, Symbolic!Emulator!Condition
  <2> QED BY Zenon, <2>1, Flags6
<1>7. CASE name = "BNE"
  <2>1. /\ Concrete!Emulator!Condition(m, name) = Concrete!not(m.Z)
        /\ Symbolic!Emulator!Condition(s, name) = Symbolic!not(s.Z)
    BY Zenon, <1>7 DEF Concrete!Emulator!Condition, Symbolic!Emulator!Condition
  <2> QED BY Zenon, <2>1, Flags6, NotVal
<1>8. CASE name = "BEQ"
  <2>1. /\ Concrete!Emulator!Condition(m, name) = m.Z
        /\ Symbolic!Emulator!Condition(s, name) = s.Z
    BY Zenon, <1>8 DEF Concrete!Emulator!Condition, Symbolic!Emulator!Condition
  <2> QED BY Zenon, <2>1, Flags6
<1> QED BY Zenon, <1>1, <1>2, <1>3, <1>4, <1>5, <1>6, <1>7, <1>8 DEF Branches

Plain == {"AND", "ORA", "EOR", "LDA", "LDX", "LDY", "TXA", "TAX", "TYA", "TAY",
          "INX", "INY", "DEX", "DEY", "CLC", "CLI", "CLV", "CLD", "SEC", "SEI", "SED",
          "TSX", "TXS", "BIT", "PLA", "PLP", "ADC", "SBC", "CMP", "CPX", "CPY",
          "JMP", "RTI", "RTS", "NONE", "NOP", "JSR", "BRK"}
Storing == {"INC", "DEC", "STA", "STX", "STY", "PHA", "PHP"}
Names == Plain \cup Storing \cup ShiftNames \cup Branches \cup {"JMPI"}

LEMMA TruthLiterals ==
  ASSUME NEW c
  PROVE  TruthVal(c, Concrete!truthy, Symbolic!truthy) /\ TruthVal(c, Concrete!falsy, Symbolic!falsy)
<1>1. /\ Concrete!truthy = TRUE /\ Concrete!falsy = FALSE
      /\ Symbolic!truthy = EB(TRUE) /\ Symbolic!falsy = EB(FALSE)
  <2>1. TRUE \in BOOLEAN /\ FALSE \in BOOLEAN /\ 0 \in Int
    OBVIOUS
  <2> QED BY Zenon, <2>1, Conditions DEF Concrete!truthy, Concrete!falsy, Symbolic!truthy, Symbolic!falsy
<1> QED BY Zenon, <1>1 DEF TruthVal, Truths

\* The instructions that do not write.
LEMMA PlainMoves ==
  ASSUME NEW c, NEW m, NEW s, Both(c, m, s), NEW name \in Plain,
         NEW a, NEW d, WordVal(c, a, d), NEW n, NEW e, ByteVal(c, n, e)
  PROVE  Moves(c, 0, m, s, Concrete!Emulator!Execute(m, name, a, n),
                           Symbolic!Emulator!Execute(s, name, d, e))
<1>0. IntVal(c, n, e) /\ IntVal(c, m.a, s.a) /\ IntVal(c, m.x, s.x)
      /\ IntVal(c, m.y, s.y) /\ IntVal(c, m.sp, s.sp)
  BY Zenon, Registers4, IntOfByte
<1>1. CASE name = "AND"
  <2>1. Concrete!Emulator!Execute(m, name, a, n) = Concrete!Emulator!Load(m, "a", Concrete!&(m.a, n))
    BY Zenon, <1>1 DEF Concrete!Emulator!Execute, Concrete!Emulator!Branches
  <2>2. Symbolic!Emulator!Execute(s, name, d, e) = Symbolic!Emulator!Load(s, "a", Symbolic!&(s.a, e))
    BY Zenon, <1>1 DEF Symbolic!Emulator!Execute, Symbolic!Emulator!Branches
  <2>3. IntVal(c, Concrete!&(m.a, n), Symbolic!&(s.a, e))
    BY Zenon, <1>0, IntOperators
  <2> QED BY Zenon, <2>1, <2>2, <2>3, RegisterNames, LoadMoves
<1>2. CASE name = "ORA"
  <2>1. Concrete!Emulator!Execute(m, name, a, n) = Concrete!Emulator!Load(m, "a", Concrete!|(m.a, n))
    BY Zenon, <1>2 DEF Concrete!Emulator!Execute, Concrete!Emulator!Branches
  <2>2. Symbolic!Emulator!Execute(s, name, d, e) = Symbolic!Emulator!Load(s, "a", Symbolic!|(s.a, e))
    BY Zenon, <1>2 DEF Symbolic!Emulator!Execute, Symbolic!Emulator!Branches
  <2>3. IntVal(c, Concrete!|(m.a, n), Symbolic!|(s.a, e))
    BY Zenon, <1>0, IntOperators
  <2> QED BY Zenon, <2>1, <2>2, <2>3, RegisterNames, LoadMoves
<1>3. CASE name = "EOR"
  <2>1. Concrete!Emulator!Execute(m, name, a, n) = Concrete!Emulator!Load(m, "a", Concrete!^^(m.a, n))
    BY Zenon, <1>3 DEF Concrete!Emulator!Execute, Concrete!Emulator!Branches
  <2>2. Symbolic!Emulator!Execute(s, name, d, e) = Symbolic!Emulator!Load(s, "a", Symbolic!^^(s.a, e))
    BY Zenon, <1>3 DEF Symbolic!Emulator!Execute, Symbolic!Emulator!Branches
  <2>3. IntVal(c, Concrete!^^(m.a, n), Symbolic!^^(s.a, e))
    BY Zenon, <1>0, IntOperators
  <2> QED BY Zenon, <2>1, <2>2, <2>3, RegisterNames, LoadMoves
<1>4. CASE name = "LDA"
  <2>1. Concrete!Emulator!Execute(m, name, a, n) = Concrete!Emulator!Load(m, "a", n)
    BY Zenon, <1>4 DEF Concrete!Emulator!Execute, Concrete!Emulator!Branches
  <2>2. Symbolic!Emulator!Execute(s, name, d, e) = Symbolic!Emulator!Load(s, "a", e)
    BY Zenon, <1>4 DEF Symbolic!Emulator!Execute, Symbolic!Emulator!Branches
  <2>3. IntVal(c, n, e)
    BY Zenon, <1>0
  <2> QED BY Zenon, <2>1, <2>2, <2>3, RegisterNames, LoadMoves
<1>5. CASE name = "LDX"
  <2>1. Concrete!Emulator!Execute(m, name, a, n) = Concrete!Emulator!Load(m, "x", n)
    BY Zenon, <1>5 DEF Concrete!Emulator!Execute, Concrete!Emulator!Branches
  <2>2. Symbolic!Emulator!Execute(s, name, d, e) = Symbolic!Emulator!Load(s, "x", e)
    BY Zenon, <1>5 DEF Symbolic!Emulator!Execute, Symbolic!Emulator!Branches
  <2>3. IntVal(c, n, e)
    BY Zenon, <1>0
  <2> QED BY Zenon, <2>1, <2>2, <2>3, RegisterNames, LoadMoves
<1>6. CASE name = "LDY"
  <2>1. Concrete!Emulator!Execute(m, name, a, n) = Concrete!Emulator!Load(m, "y", n)
    BY Zenon, <1>6 DEF Concrete!Emulator!Execute, Concrete!Emulator!Branches
  <2>2. Symbolic!Emulator!Execute(s, name, d, e) = Symbolic!Emulator!Load(s, "y", e)
    BY Zenon, <1>6 DEF Symbolic!Emulator!Execute, Symbolic!Emulator!Branches
  <2>3. IntVal(c, n, e)
    BY Zenon, <1>0
  <2> QED BY Zenon, <2>1, <2>2, <2>3, RegisterNames, LoadMoves
<1>7. CASE name = "TXA"
  <2>1. Concrete!Emulator!Execute(m, name, a, n) = Concrete!Emulator!Load(m, "a", m.x)
    BY Zenon, <1>7 DEF Concrete!Emulator!Execute, Concrete!Emulator!Branches
  <2>2. Symbolic!Emulator!Execute(s, name, d, e) = Symbolic!Emulator!Load(s, "a", s.x)
    BY Zenon, <1>7 DEF Symbolic!Emulator!Execute, Symbolic!Emulator!Branches
  <2>3. IntVal(c, m.x, s.x)
    BY Zenon, <1>0
  <2> QED BY Zenon, <2>1, <2>2, <2>3, RegisterNames, LoadMoves
<1>8. CASE name = "TAX"
  <2>1. Concrete!Emulator!Execute(m, name, a, n) = Concrete!Emulator!Load(m, "x", m.a)
    BY Zenon, <1>8 DEF Concrete!Emulator!Execute, Concrete!Emulator!Branches
  <2>2. Symbolic!Emulator!Execute(s, name, d, e) = Symbolic!Emulator!Load(s, "x", s.a)
    BY Zenon, <1>8 DEF Symbolic!Emulator!Execute, Symbolic!Emulator!Branches
  <2>3. IntVal(c, m.a, s.a)
    BY Zenon, <1>0
  <2> QED BY Zenon, <2>1, <2>2, <2>3, RegisterNames, LoadMoves
<1>9. CASE name = "TYA"
  <2>1. Concrete!Emulator!Execute(m, name, a, n) = Concrete!Emulator!Load(m, "a", m.y)
    BY Zenon, <1>9 DEF Concrete!Emulator!Execute, Concrete!Emulator!Branches
  <2>2. Symbolic!Emulator!Execute(s, name, d, e) = Symbolic!Emulator!Load(s, "a", s.y)
    BY Zenon, <1>9 DEF Symbolic!Emulator!Execute, Symbolic!Emulator!Branches
  <2>3. IntVal(c, m.y, s.y)
    BY Zenon, <1>0
  <2> QED BY Zenon, <2>1, <2>2, <2>3, RegisterNames, LoadMoves
<1>10. CASE name = "TAY"
  <2>1. Concrete!Emulator!Execute(m, name, a, n) = Concrete!Emulator!Load(m, "y", m.a)
    BY Zenon, <1>10 DEF Concrete!Emulator!Execute, Concrete!Emulator!Branches
  <2>2. Symbolic!Emulator!Execute(s, name, d, e) = Symbolic!Emulator!Load(s, "y", s.a)
    BY Zenon, <1>10 DEF Symbolic!Emulator!Execute, Symbolic!Emulator!Branches
  <2>3. IntVal(c, m.a, s.a)
    BY Zenon, <1>0
  <2> QED BY Zenon, <2>1, <2>2, <2>3, RegisterNames, LoadMoves
<1>11. CASE name = "INX"
  <2>1. Concrete!Emulator!Execute(m, name, a, n) = Concrete!Emulator!Load(m, "x", Concrete!++(m.x, Concrete!int(1)))
    BY Zenon, <1>11 DEF Concrete!Emulator!Execute, Concrete!Emulator!Branches
  <2>2. Symbolic!Emulator!Execute(s, name, d, e) = Symbolic!Emulator!Load(s, "x", Symbolic!++(s.x, Symbolic!int(1)))
    BY Zenon, <1>11 DEF Symbolic!Emulator!Execute, Symbolic!Emulator!Branches
  <2>3. IntVal(c, Concrete!++(m.x, Concrete!int(1)), Symbolic!++(s.x, Symbolic!int(1)))
    BY <1>0, Digits, IntLiterals
  <2> QED BY Zenon, <2>1, <2>2, <2>3, RegisterNames, LoadMoves
<1>12. CASE name = "INY"
  <2>1. Concrete!Emulator!Execute(m, name, a, n) = Concrete!Emulator!Load(m, "y", Concrete!++(m.y, Concrete!int(1)))
    BY Zenon, <1>12 DEF Concrete!Emulator!Execute, Concrete!Emulator!Branches
  <2>2. Symbolic!Emulator!Execute(s, name, d, e) = Symbolic!Emulator!Load(s, "y", Symbolic!++(s.y, Symbolic!int(1)))
    BY Zenon, <1>12 DEF Symbolic!Emulator!Execute, Symbolic!Emulator!Branches
  <2>3. IntVal(c, Concrete!++(m.y, Concrete!int(1)), Symbolic!++(s.y, Symbolic!int(1)))
    BY <1>0, Digits, IntLiterals
  <2> QED BY Zenon, <2>1, <2>2, <2>3, RegisterNames, LoadMoves
<1>13. CASE name = "DEX"
  <2>1. Concrete!Emulator!Execute(m, name, a, n) = Concrete!Emulator!Load(m, "x", Concrete!--(m.x, Concrete!int(1)))
    BY Zenon, <1>13 DEF Concrete!Emulator!Execute, Concrete!Emulator!Branches
  <2>2. Symbolic!Emulator!Execute(s, name, d, e) = Symbolic!Emulator!Load(s, "x", Symbolic!--(s.x, Symbolic!int(1)))
    BY Zenon, <1>13 DEF Symbolic!Emulator!Execute, Symbolic!Emulator!Branches
  <2>3. IntVal(c, Concrete!--(m.x, Concrete!int(1)), Symbolic!--(s.x, Symbolic!int(1)))
    BY <1>0, Digits, IntLiterals
  <2> QED BY Zenon, <2>1, <2>2, <2>3, RegisterNames, LoadMoves
<1>14. CASE name = "DEY"
  <2>1. Concrete!Emulator!Execute(m, name, a, n) = Concrete!Emulator!Load(m, "y", Concrete!--(m.y, Concrete!int(1)))
    BY Zenon, <1>14 DEF Concrete!Emulator!Execute, Concrete!Emulator!Branches
  <2>2. Symbolic!Emulator!Execute(s, name, d, e) = Symbolic!Emulator!Load(s, "y", Symbolic!--(s.y, Symbolic!int(1)))
    BY Zenon, <1>14 DEF Symbolic!Emulator!Execute, Symbolic!Emulator!Branches
  <2>3. IntVal(c, Concrete!--(m.y, Concrete!int(1)), Symbolic!--(s.y, Symbolic!int(1)))
    BY <1>0, Digits, IntLiterals
  <2> QED BY Zenon, <2>1, <2>2, <2>3, RegisterNames, LoadMoves
<1>15. CASE name = "CLC"
  <2>1. Concrete!Emulator!Execute(m, name, a, n) = Concrete!assign(m, "C", Concrete!falsy)
    BY Zenon, <1>15 DEF Concrete!Emulator!Execute, Concrete!Emulator!Branches
  <2>2. Symbolic!Emulator!Execute(s, name, d, e) = Symbolic!assign(s, "C", Symbolic!falsy)
    BY Zenon, <1>15 DEF Symbolic!Emulator!Execute, Symbolic!Emulator!Branches
  <2> QED BY Zenon, <2>1, <2>2, FlagNames, TruthLiterals, AssignFlag
<1>16. CASE name = "CLI"
  <2>1. Concrete!Emulator!Execute(m, name, a, n) = Concrete!assign(m, "I", Concrete!falsy)
    BY Zenon, <1>16 DEF Concrete!Emulator!Execute, Concrete!Emulator!Branches
  <2>2. Symbolic!Emulator!Execute(s, name, d, e) = Symbolic!assign(s, "I", Symbolic!falsy)
    BY Zenon, <1>16 DEF Symbolic!Emulator!Execute, Symbolic!Emulator!Branches
  <2> QED BY Zenon, <2>1, <2>2, FlagNames, TruthLiterals, AssignFlag
<1>17. CASE name = "CLV"
  <2>1. Concrete!Emulator!Execute(m, name, a, n) = Concrete!assign(m, "V", Concrete!falsy)
    BY Zenon, <1>17 DEF Concrete!Emulator!Execute, Concrete!Emulator!Branches
  <2>2. Symbolic!Emulator!Execute(s, name, d, e) = Symbolic!assign(s, "V", Symbolic!falsy)
    BY Zenon, <1>17 DEF Symbolic!Emulator!Execute, Symbolic!Emulator!Branches
  <2> QED BY Zenon, <2>1, <2>2, FlagNames, TruthLiterals, AssignFlag
<1>18. CASE name = "CLD"
  <2>1. Concrete!Emulator!Execute(m, name, a, n) = Concrete!assign(m, "D", Concrete!falsy)
    BY Zenon, <1>18 DEF Concrete!Emulator!Execute, Concrete!Emulator!Branches
  <2>2. Symbolic!Emulator!Execute(s, name, d, e) = Symbolic!assign(s, "D", Symbolic!falsy)
    BY Zenon, <1>18 DEF Symbolic!Emulator!Execute, Symbolic!Emulator!Branches
  <2> QED BY Zenon, <2>1, <2>2, FlagNames, TruthLiterals, AssignFlag
<1>19. CASE name = "SEC"
  <2>1. Concrete!Emulator!Execute(m, name, a, n) = Concrete!assign(m, "C", Concrete!truthy)
    BY Zenon, <1>19 DEF Concrete!Emulator!Execute, Concrete!Emulator!Branches
  <2>2. Symbolic!Emulator!Execute(s, name, d, e) = Symbolic!assign(s, "C", Symbolic!truthy)
    BY Zenon, <1>19 DEF Symbolic!Emulator!Execute, Symbolic!Emulator!Branches
  <2> QED BY Zenon, <2>1, <2>2, FlagNames, TruthLiterals, AssignFlag
<1>20. CASE name = "SEI"
  <2>1. Concrete!Emulator!Execute(m, name, a, n) = Concrete!assign(m, "I", Concrete!truthy)
    BY Zenon, <1>20 DEF Concrete!Emulator!Execute, Concrete!Emulator!Branches
  <2>2. Symbolic!Emulator!Execute(s, name, d, e) = Symbolic!assign(s, "I", Symbolic!truthy)
    BY Zenon, <1>20 DEF Symbolic!Emulator!Execute, Symbolic!Emulator!Branches
  <2> QED BY Zenon, <2>1, <2>2, FlagNames, TruthLiterals, AssignFlag
<1>21. CASE name = "SED"
  <2>1. Concrete!Emulator!Execute(m, name, a, n) = Concrete!assign(m, "D", Concrete!truthy)
    BY Zenon, <1>21 DEF Concrete!Emulator!Execute, Concrete!Emulator!Branches
  <2>2. Symbolic!Emulator!Execute(s, name, d, e) = Symbolic!assign(s, "D", Symbolic!truthy)
    BY Zenon, <1>21 DEF Symbolic!Emulator!Execute, Symbolic!Emulator!Branches
  <2> QED BY Zenon, <2>1, <2>2, FlagNames, TruthLiterals, AssignFlag
<1>22. CASE name = "TSX"
  <2>1. Concrete!Emulator!Execute(m, name, a, n) = Concrete!assign(m, "x", m.sp)
    BY Zenon, <1>22 DEF Concrete!Emulator!Execute, Concrete!Emulator!Branches
  <2>2. Symbolic!Emulator!Execute(s, name, d, e) = Symbolic!assign(s, "x", s.sp)
    BY Zenon, <1>22 DEF Symbolic!Emulator!Execute, Symbolic!Emulator!Branches
  <2> QED BY Zenon, <2>1, <2>2, <1>0, RegisterNames, AssignRegister
<1>23. CASE name = "TXS"
  <2>1. Concrete!Emulator!Execute(m, name, a, n) = Concrete!assign(m, "sp", m.x)
    BY Zenon, <1>23 DEF Concrete!Emulator!Execute, Concrete!Emulator!Branches
  <2>2. Symbolic!Emulator!Execute(s, name, d, e) = Symbolic!assign(s, "sp", s.x)
    BY Zenon, <1>23 DEF Symbolic!Emulator!Execute, Symbolic!Emulator!Branches
  <2> QED BY Zenon, <2>1, <2>2, <1>0, RegisterNames, AssignRegister
<1>24. CASE name = "BIT"
  <2>1. Concrete!Emulator!Execute(m, name, a, n) = Concrete!Emulator!TestBits(m, n)
    BY Zenon, <1>24 DEF Concrete!Emulator!Execute, Concrete!Emulator!Branches
  <2>2. Symbolic!Emulator!Execute(s, name, d, e) = Symbolic!Emulator!TestBits(s, e)
    BY Zenon, <1>24 DEF Symbolic!Emulator!Execute, Symbolic!Emulator!Branches
  <2> QED BY Zenon, <2>1, <2>2, TestBitsMoves
<1>25. CASE name = "PLA"
  <2>1. Concrete!Emulator!Execute(m, name, a, n) = Concrete!Emulator!Pull(m)
    BY Zenon, <1>25 DEF Concrete!Emulator!Execute, Concrete!Emulator!Branches
  <2>2. Symbolic!Emulator!Execute(s, name, d, e) = Symbolic!Emulator!Pull(s)
    BY Zenon, <1>25 DEF Symbolic!Emulator!Execute, Symbolic!Emulator!Branches
  <2> QED BY Zenon, <2>1, <2>2, PullMoves
<1>26. CASE name = "PLP"
  <2>1. Concrete!Emulator!Execute(m, name, a, n) = Concrete!Emulator!PullFlags(m)
    BY Zenon, <1>26 DEF Concrete!Emulator!Execute, Concrete!Emulator!Branches
  <2>2. Symbolic!Emulator!Execute(s, name, d, e) = Symbolic!Emulator!PullFlags(s)
    BY Zenon, <1>26 DEF Symbolic!Emulator!Execute, Symbolic!Emulator!Branches
  <2> QED BY Zenon, <2>1, <2>2, PullFlagsMoves
<1>27. CASE name = "ADC"
  <2>1. Concrete!Emulator!Execute(m, name, a, n) = Concrete!Emulator!Add(m, n)
    BY Zenon, <1>27 DEF Concrete!Emulator!Execute, Concrete!Emulator!Branches
  <2>2. Symbolic!Emulator!Execute(s, name, d, e) = Symbolic!Emulator!Add(s, e)
    BY Zenon, <1>27 DEF Symbolic!Emulator!Execute, Symbolic!Emulator!Branches
  <2> QED BY Zenon, <2>1, <2>2, AddMoves
<1>28. CASE name = "SBC"
  <2>1. Concrete!Emulator!Execute(m, name, a, n) = Concrete!Emulator!Add(m, Concrete!byteVar(Concrete!^^(n, Concrete!int(255))))
    BY Zenon, <1>28 DEF Concrete!Emulator!Execute, Concrete!Emulator!Branches
  <2>2. Symbolic!Emulator!Execute(s, name, d, e) = Symbolic!Emulator!Add(s, Symbolic!byteVar(Symbolic!^^(e, Symbolic!int(255))))
    BY Zenon, <1>28 DEF Symbolic!Emulator!Execute, Symbolic!Emulator!Branches
  <2>4. IntVal(c, Concrete!^^(n, Concrete!int(255)), Symbolic!^^(e, Symbolic!int(255)))
    BY <1>0, Digits, IntLiterals
  <2>3. ByteVal(c, Concrete!byteVar(Concrete!^^(n, Concrete!int(255))),
                   Symbolic!byteVar(Symbolic!^^(e, Symbolic!int(255))))
    BY <2>4, Conversions
  <2>5. Moves(c, 0, m, s, Concrete!Emulator!Add(m, Concrete!byteVar(Concrete!^^(n, Concrete!int(255)))),
                          Symbolic!Emulator!Add(s, Symbolic!byteVar(Symbolic!^^(e, Symbolic!int(255)))))
    BY <2>3, AddMoves
  <2> QED BY <2>1, <2>2, <2>5
<1>29. CASE name = "CMP"
  <2>1. Concrete!Emulator!Execute(m, name, a, n) = Concrete!Emulator!Compare(m, m.a, n)
    BY Zenon, <1>29 DEF Concrete!Emulator!Execute, Concrete!Emulator!Branches
  <2>2. Symbolic!Emulator!Execute(s, name, d, e) = Symbolic!Emulator!Compare(s, s.a, e)
    BY Zenon, <1>29 DEF Symbolic!Emulator!Execute, Symbolic!Emulator!Branches
  <2> QED BY Zenon, <2>1, <2>2, Registers4, CompareMoves
<1>30. CASE name = "CPX"
  <2>1. Concrete!Emulator!Execute(m, name, a, n) = Concrete!Emulator!Compare(m, m.x, n)
    BY Zenon, <1>30 DEF Concrete!Emulator!Execute, Concrete!Emulator!Branches
  <2>2. Symbolic!Emulator!Execute(s, name, d, e) = Symbolic!Emulator!Compare(s, s.x, e)
    BY Zenon, <1>30 DEF Symbolic!Emulator!Execute, Symbolic!Emulator!Branches
  <2> QED BY Zenon, <2>1, <2>2, Registers4, CompareMoves
<1>31. CASE name = "CPY"
  <2>1. Concrete!Emulator!Execute(m, name, a, n) = Concrete!Emulator!Compare(m, m.y, n)
    BY Zenon, <1>31 DEF Concrete!Emulator!Execute, Concrete!Emulator!Branches
  <2>2. Symbolic!Emulator!Execute(s, name, d, e) = Symbolic!Emulator!Compare(s, s.y, e)
    BY Zenon, <1>31 DEF Symbolic!Emulator!Execute, Symbolic!Emulator!Branches
  <2> QED BY Zenon, <2>1, <2>2, Registers4, CompareMoves
<1>32. CASE name = "JMP"
  <2>1. Concrete!Emulator!Execute(m, name, a, n) = Concrete!jmp(m, a)
    BY Zenon, <1>32 DEF Concrete!Emulator!Execute, Concrete!Emulator!Branches
  <2>2. Symbolic!Emulator!Execute(s, name, d, e) = Symbolic!jmp(s, d)
    BY Zenon, <1>32 DEF Symbolic!Emulator!Execute, Symbolic!Emulator!Branches
  <2> QED BY Zenon, <2>1, <2>2, JmpMoves
<1>33. CASE name = "RTI"
  <2>1. Concrete!Emulator!Execute(m, name, a, n) = Concrete!rti(m)
    BY Zenon, <1>33 DEF Concrete!Emulator!Execute, Concrete!Emulator!Branches
  <2>2. Symbolic!Emulator!Execute(s, name, d, e) = Symbolic!rti(s)
    BY Zenon, <1>33 DEF Symbolic!Emulator!Execute, Symbolic!Emulator!Branches
  <2> QED BY Zenon, <2>1, <2>2, ReturnMoves
<1>34. CASE name = "RTS"
  <2>1. Concrete!Emulator!Execute(m, name, a, n) = Concrete!rts(m)
    BY Zenon, <1>34 DEF Concrete!Emulator!Execute, Concrete!Emulator!Branches
  <2>2. Symbolic!Emulator!Execute(s, name, d, e) = Symbolic!rts(s)
    BY Zenon, <1>34 DEF Symbolic!Emulator!Execute, Symbolic!Emulator!Branches
  <2> QED BY Zenon, <2>1, <2>2, ReturnMoves
<1>35. CASE name = "NONE"
  <2>1. Concrete!Emulator!Execute(m, name, a, n) = m
    BY Zenon, <1>35 DEF Concrete!Emulator!Execute, Concrete!Emulator!Branches
  <2>2. Symbolic!Emulator!Execute(s, name, d, e) = s
    BY Zenon, <1>35 DEF Symbolic!Emulator!Execute, Symbolic!Emulator!Branches
  <2> QED BY Zenon, <2>1, <2>2, Stays
<1>36. CASE name = "NOP"
  <2>1. Concrete!Emulator!Execute(m, name, a, n) = m
    BY Zenon, <1>36 DEF Concrete!Emulator!Execute, Concrete!Emulator!Branches
  <2>2. Symbolic!Emulator!Execute(s, name, d, e) = s
    BY Zenon, <1>36 DEF Symbolic!Emulator!Execute, Symbolic!Emulator!Branches
  <2> QED BY Zenon, <2>1, <2>2, Stays
<1>37. CASE name = "JSR"
  <2>1. Concrete!Emulator!Execute(m, name, a, n) = m
    BY Zenon, <1>37 DEF Concrete!Emulator!Execute, Concrete!Emulator!Branches
  <2>2. Symbolic!Emulator!Execute(s, name, d, e) = s
    BY Zenon, <1>37 DEF Symbolic!Emulator!Execute, Symbolic!Emulator!Branches
  <2> QED BY Zenon, <2>1, <2>2, Stays
<1>38. CASE name = "BRK"
  <2>1. Concrete!Emulator!Execute(m, name, a, n) = m
    BY Zenon, <1>38 DEF Concrete!Emulator!Execute, Concrete!Emulator!Branches
  <2>2. Symbolic!Emulator!Execute(s, name, d, e) = s
    BY Zenon, <1>38 DEF Symbolic!Emulator!Execute, Symbolic!Emulator!Branches
  <2> QED BY Zenon, <2>1, <2>2, Stays
<1> QED BY Zenon, <1>1, <1>2, <1>3, <1>4, <1>5, <1>6, <1>7, <1>8, <1>9, <1>10,
     <1>11, <1>12, <1>13, <1>14, <1>15, <1>16, <1>17, <1>18, <1>19, <1>20,
     <1>21, <1>22, <1>23, <1>24, <1>25, <1>26, <1>27, <1>28, <1>29, <1>30,
     <1>31, <1>32, <1>33, <1>34, <1>35, <1>36, <1>37, <1>38 DEF Plain

LEMMA StoringMoves ==
  ASSUME NEW c, NEW m, NEW s, Both(c, m, s), NEW name \in Storing,
         NEW a, NEW d, WordVal(c, a, d), NEW n, NEW e, ByteVal(c, n, e)
  PROVE  Moves(c, 1, m, s, Concrete!Emulator!Execute(m, name, a, n),
                           Symbolic!Emulator!Execute(s, name, d, e))
<1>0. IntVal(c, n, e) /\ IntVal(c, m.a, s.a) /\ IntVal(c, m.x, s.x) /\ IntVal(c, m.y, s.y)
  BY Zenon, Registers4, IntOfByte
<1>1. CASE name = "INC"
  <2>1. Concrete!Emulator!Execute(m, name, a, n) = Concrete!Emulator!Update(m, a, Concrete!++(n, Concrete!int(1)))
    BY Zenon, <1>1 DEF Concrete!Emulator!Execute, Concrete!Emulator!Branches
  <2>2. Symbolic!Emulator!Execute(s, name, d, e) = Symbolic!Emulator!Update(s, d, Symbolic!++(e, Symbolic!int(1)))
    BY Zenon, <1>1 DEF Symbolic!Emulator!Execute, Symbolic!Emulator!Branches
  <2>3. IntVal(c, Concrete!++(n, Concrete!int(1)), Symbolic!++(e, Symbolic!int(1)))
    BY <1>0, Digits, IntLiterals
  <2> QED BY Zenon, <2>1, <2>2, <2>3, UpdateMoves
<1>2. CASE name = "DEC"
  <2>1. Concrete!Emulator!Execute(m, name, a, n) = Concrete!Emulator!Update(m, a, Concrete!--(n, Concrete!int(1)))
    BY Zenon, <1>2 DEF Concrete!Emulator!Execute, Concrete!Emulator!Branches
  <2>2. Symbolic!Emulator!Execute(s, name, d, e) = Symbolic!Emulator!Update(s, d, Symbolic!--(e, Symbolic!int(1)))
    BY Zenon, <1>2 DEF Symbolic!Emulator!Execute, Symbolic!Emulator!Branches
  <2>3. IntVal(c, Concrete!--(n, Concrete!int(1)), Symbolic!--(e, Symbolic!int(1)))
    BY <1>0, Digits, IntLiterals
  <2> QED BY Zenon, <2>1, <2>2, <2>3, UpdateMoves
<1>3. CASE name = "STA"
  <2>1. Concrete!Emulator!Execute(m, name, a, n) = Concrete!write(m, a, m.a)
    BY Zenon, <1>3 DEF Concrete!Emulator!Execute, Concrete!Emulator!Branches
  <2>2. Symbolic!Emulator!Execute(s, name, d, e) = Symbolic!write(s, d, s.a)
    BY Zenon, <1>3 DEF Symbolic!Emulator!Execute, Symbolic!Emulator!Branches
  <2> QED BY Zenon, <2>1, <2>2, <1>0, WriteMoves
<1>4. CASE name = "STX"
  <2>1. Concrete!Emulator!Execute(m, name, a, n) = Concrete!write(m, a, m.x)
    BY Zenon, <1>4 DEF Concrete!Emulator!Execute, Concrete!Emulator!Branches
  <2>2. Symbolic!Emulator!Execute(s, name, d, e) = Symbolic!write(s, d, s.x)
    BY Zenon, <1>4 DEF Symbolic!Emulator!Execute, Symbolic!Emulator!Branches
  <2> QED BY Zenon, <2>1, <2>2, <1>0, WriteMoves
<1>5. CASE name = "STY"
  <2>1. Concrete!Emulator!Execute(m, name, a, n) = Concrete!write(m, a, m.y)
    BY Zenon, <1>5 DEF Concrete!Emulator!Execute, Concrete!Emulator!Branches
  <2>2. Symbolic!Emulator!Execute(s, name, d, e) = Symbolic!write(s, d, s.y)
    BY Zenon, <1>5 DEF Symbolic!Emulator!Execute, Symbolic!Emulator!Branches
  <2> QED BY Zenon, <2>1, <2>2, <1>0, WriteMoves
<1>6. CASE name = "PHA"
  <2>1. Concrete!Emulator!Execute(m, name, a, n) = Concrete!Emulator!Push(m, m.a)
    BY Zenon, <1>6 DEF Concrete!Emulator!Execute, Concrete!Emulator!Branches
  <2>2. Symbolic!Emulator!Execute(s, name, d, e) = Symbolic!Emulator!Push(s, s.a)
    BY Zenon, <1>6 DEF Symbolic!Emulator!Execute, Symbolic!Emulator!Branches
  <2> QED BY Zenon, <2>1, <2>2, <1>0, PushMoves
<1>7. CASE name = "PHP"
  <2>1. Concrete!Emulator!Execute(m, name, a, n) = Concrete!Emulator!Push(m, Concrete!Emulator!P(m))
    BY Zenon, <1>7 DEF Concrete!Emulator!Execute, Concrete!Emulator!Branches
  <2>2. Symbolic!Emulator!Execute(s, name, d, e) = Symbolic!Emulator!Push(s, Symbolic!Emulator!P(s))
    BY Zenon, <1>7 DEF Symbolic!Emulator!Execute, Symbolic!Emulator!Branches
  <2> QED BY Zenon, <2>1, <2>2, PVal, PushMoves
<1> QED BY Zenon, <1>1, <1>2, <1>3, <1>4, <1>5, <1>6, <1>7 DEF Storing

\* What is asked of an instruction by name, operand and target.
LEMMA ExecuteMoves ==
  ASSUME NEW c, NEW m, NEW s, Both(c, m, s), NEW name \in Names,
         NEW a, NEW d, WordVal(c, a, d), NEW n, NEW e, ByteVal(c, n, e),
         c => name # "JMPI", c /\ name \in Branches => Wrap(a) # 0
  PROVE  Moves(c, 1, m, s, Concrete!Emulator!Execute(m, name, a, n),
                           Symbolic!Emulator!Execute(s, name, d, e))
<1>1. CASE name \in Plain
  BY Zenon, <1>1, PlainMoves, Weaker
<1>2. CASE name \in Storing
  BY Zenon, <1>2, StoringMoves
<1>3. CASE name \in {"ASL", "ROL", "LSR", "ROR"}
  <2>0. name \in ShiftNames
    BY Zenon, <1>3 DEF ShiftNames
  <2>1. Concrete!Emulator!Execute(m, name, a, n) = Concrete!Emulator!ShiftMemory(m, name, a, n)
    BY Zenon, <1>3 DEF Concrete!Emulator!Execute, Concrete!Emulator!Branches
  <2>2. Symbolic!Emulator!Execute(s, name, d, e) = Symbolic!Emulator!ShiftMemory(s, name, d, e)
    BY Zenon, <1>3 DEF Symbolic!Emulator!Execute, Symbolic!Emulator!Branches
  <2> QED BY Zenon, <2>0, <2>1, <2>2, ShiftMemoryMoves
<1>4. CASE name \in {"ASLA", "ROLA", "LSRA", "RORA"}
  <2>0. name \in ShiftNames
    BY Zenon, <1>4 DEF ShiftNames
  <2>1. Concrete!Emulator!Execute(m, name, a, n) = Concrete!Emulator!ShiftAccumulator(m, name)
    BY Zenon, <1>4 DEF Concrete!Emulator!Execute, Concrete!Emulator!Branches
  <2>2. Symbolic!Emulator!Execute(s, name, d, e) = Symbolic!Emulator!ShiftAccumulator(s, name)
    BY Zenon, <1>4 DEF Symbolic!Emulator!Execute, Symbolic!Emulator!Branches
  <2> QED BY Zenon, <2>0, <2>1, <2>2, ShiftAccumulatorMoves, Weaker
<1>5. CASE name \in Branches
  <2>1. Concrete!Emulator!Execute(m, name, a, n)
          = Concrete!branch(m, Concrete!Emulator!Condition(m, name), a)
    BY Zenon, <1>5 DEF Concrete!Emulator!Execute, Concrete!Emulator!Branches, Branches
  <2>2. Symbolic!Emulator!Execute(s, name, d, e)
          = Symbolic!branch(s, Symbolic!Emulator!Condition(s, name), d)
    BY Zenon, <1>5 DEF Symbolic!Emulator!Execute, Symbolic!Emulator!Branches, Branches
  <2>3. TruthVal(c, Concrete!Emulator!Condition(m, name), Symbolic!Emulator!Condition(s, name))
    BY Zenon, <1>5, ConditionVal
  <2>4. c => Wrap(a) # 0
    BY Zenon, <1>5
  <2>5. Moves(c, 0, m, s, Concrete!branch(m, Concrete!Emulator!Condition(m, name), a),
                          Symbolic!branch(s, Symbolic!Emulator!Condition(s, name), d))
    BY <2>3, <2>4, BranchMoves
  <2> QED BY Zenon, <2>1, <2>2, <2>5, Weaker
<1>6. CASE name = "JMPI"
  <2>0. ~c
    BY Zenon, <1>6
  <2>1. Concrete!Emulator!Execute(m, name, a, n) = Concrete!Emulator!JumpIndirect(m, a)
    BY Zenon, <1>6 DEF Concrete!Emulator!Execute, Concrete!Emulator!Branches
  <2>2. Symbolic!Emulator!Execute(s, name, d, e) = Symbolic!Emulator!JumpIndirect(s, d)
    BY Zenon, <1>6 DEF Symbolic!Emulator!Execute, Symbolic!Emulator!Branches
  <2> QED BY Zenon, <2>0, <2>1, <2>2, JumpIndirectMoves, Weaker
<1> QED BY Zenon, <1>1, <1>2, <1>3, <1>4, <1>5, <1>6 DEF Names, ShiftNames

-----------------------------------------------------------------------------
(* What a sequence consists of.                                            *)

RowOK(r) ==
    /\ r.name \in Names /\ r.mode \in Modes
    /\ r.name \in Branches => r.mode = "ABSOLUTE"

LEMMA RowsOK ==
  ASSUME NEW names, NEW cycles, names \subseteq Names, DOMAIN cycles \subseteq Modes,
         names \cap Branches = {} \/ DOMAIN cycles = {"ABSOLUTE"},
         NEW r \in Rows(names, cycles)
  PROVE  RowOK(r)
<1>1. PICK n \in names, m \in DOMAIN cycles :
        r = [name |-> n, mode |-> m, cycles |-> cycles[m], bytes |-> Bytes(n, m)]
  BY DEF Rows
<1>2. r.name = n /\ r.mode = m
  BY <1>1
<1> QED BY Zenon, <1>2 DEF RowOK

\* The names of the rows are Names, and the branches have one mode.
LEMMA NameGroups ==
  /\ Arith \cup {"LDX", "LDY", "CPX", "CPY"} \subseteq Names
  /\ Arith \subseteq Names /\ {"CPX", "CPY", "BIT"} \subseteq Names
  /\ {"LDX"} \subseteq Names /\ {"LDY"} \subseteq Names
  /\ Modify \subseteq Names
  /\ {"STA"} \subseteq Names /\ {"STX"} \subseteq Names /\ {"STY"} \subseteq Names
  /\ SetFlag \cup Registers \cup Shift \subseteq Names
  /\ {"PHA", "PHP"} \subseteq Names /\ {"PLA", "PLP"} \subseteq Names
  /\ Branches \subseteq Names /\ {"JMP"} \subseteq Names /\ {"JSR"} \subseteq Names
  /\ {"RTI", "RTS"} \subseteq Names
BY DEF Names, Plain, Storing, ShiftNames, Arith, Modify, SetFlag, Registers, Shift, Branches

LEMMA NotBranches ==
  /\ (Arith \cup {"LDX", "LDY", "CPX", "CPY"}) \cap Branches = {}
  /\ Arith \cap Branches = {} /\ {"CPX", "CPY", "BIT"} \cap Branches = {}
  /\ {"LDX"} \cap Branches = {} /\ {"LDY"} \cap Branches = {}
  /\ Modify \cap Branches = {}
  /\ {"STA"} \cap Branches = {} /\ {"STX"} \cap Branches = {} /\ {"STY"} \cap Branches = {}
  /\ (SetFlag \cup Registers \cup Shift) \cap Branches = {}
  /\ {"PHA", "PHP"} \cap Branches = {} /\ {"PLA", "PLP"} \cap Branches = {}
  /\ {"JMP"} \cap Branches = {} /\ {"JSR"} \cap Branches = {}
  /\ {"RTI", "RTS"} \cap Branches = {}
BY DEF Arith, Modify, SetFlag, Registers, Shift, Branches

LEMMA InstructionsOK ==
  ASSUME NEW r \in instructions
  PROVE  RowOK(r)
<1>1. ASSUME r \in Reads
      PROVE  RowOK(r)
  <2>1. ASSUME r \in Rows(Arith \cup {"LDX", "LDY", "CPX", "CPY"},
                        [m \in {"IMMEDIATE", "CONSTANT"} |-> 20])
        PROVE  RowOK(r)
    <3>1. DOMAIN [m \in {"IMMEDIATE", "CONSTANT"} |-> 20]
            = {"IMMEDIATE", "CONSTANT"}
      BY SMT
    <3>2. DOMAIN [m \in {"IMMEDIATE", "CONSTANT"} |-> 20]
            \subseteq Modes
      BY <3>1 DEF Modes
    <3> QED BY <2>1, <3>1, <3>2, NameGroups, NotBranches, RowsOK
  <2>2. ASSUME r \in Rows(Arith,
                        [ZERO_PAGE |-> 30, ZERO_PAGE_X |-> 40, ABSOLUTE |->
                                40, ABSOLUTE_X |-> 41, ABSOLUTE_Y |-> 41, X_INDIRECT |-> 60, INDIRECT_Y |-> 51])
        PROVE  RowOK(r)
    <3>1. DOMAIN [ZERO_PAGE |-> 30, ZERO_PAGE_X |-> 40, ABSOLUTE |->
                                40, ABSOLUTE_X |-> 41, ABSOLUTE_Y |-> 41, X_INDIRECT |-> 60, INDIRECT_Y |-> 51]
            = {"ZERO_PAGE", "ZERO_PAGE_X", "ABSOLUTE", "ABSOLUTE_X", "ABSOLUTE_Y", "X_INDIRECT", "INDIRECT_Y"}
      BY SMT
    <3>2. DOMAIN [ZERO_PAGE |-> 30, ZERO_PAGE_X |-> 40, ABSOLUTE |->
                                40, ABSOLUTE_X |-> 41, ABSOLUTE_Y |-> 41, X_INDIRECT |-> 60, INDIRECT_Y |-> 51]
            \subseteq Modes
      BY <3>1 DEF Modes
    <3> QED BY <2>2, <3>1, <3>2, NameGroups, NotBranches, RowsOK
  <2>3. ASSUME r \in Rows({"LDX"},
                        [ZERO_PAGE |-> 30, ZERO_PAGE_Y |-> 40, ABSOLUTE |->
                                40, ABSOLUTE_Y |-> 41])
        PROVE  RowOK(r)
    <3>1. DOMAIN [ZERO_PAGE |-> 30, ZERO_PAGE_Y |-> 40, ABSOLUTE |->
                                40, ABSOLUTE_Y |-> 41]
            = {"ZERO_PAGE", "ZERO_PAGE_Y", "ABSOLUTE", "ABSOLUTE_Y"}
      BY SMT
    <3>2. DOMAIN [ZERO_PAGE |-> 30, ZERO_PAGE_Y |-> 40, ABSOLUTE |->
                                40, ABSOLUTE_Y |-> 41]
            \subseteq Modes
      BY <3>1 DEF Modes
    <3> QED BY <2>3, <3>1, <3>2, NameGroups, NotBranches, RowsOK
  <2>4. ASSUME r \in Rows({"LDY"},
                        [ZERO_PAGE |-> 30, ZERO_PAGE_X |-> 40, ABSOLUTE |->
                                40, ABSOLUTE_X |-> 41])
        PROVE  RowOK(r)
    <3>1. DOMAIN [ZERO_PAGE |-> 30, ZERO_PAGE_X |-> 40, ABSOLUTE |->
                                40, ABSOLUTE_X |-> 41]
            = {"ZERO_PAGE", "ZERO_PAGE_X", "ABSOLUTE", "ABSOLUTE_X"}
      BY SMT
    <3>2. DOMAIN [ZERO_PAGE |-> 30, ZERO_PAGE_X |-> 40, ABSOLUTE |->
                                40, ABSOLUTE_X |-> 41]
            \subseteq Modes
      BY <3>1 DEF Modes
    <3> QED BY <2>4, <3>1, <3>2, NameGroups, NotBranches, RowsOK
  <2>5. ASSUME r \in Rows({"CPX", "CPY", "BIT"},
                        [ZERO_PAGE |-> 30, ABSOLUTE |-> 40])
        PROVE  RowOK(r)
    <3>1. DOMAIN [ZERO_PAGE |-> 30, ABSOLUTE |-> 40]
            = {"ZERO_PAGE", "ABSOLUTE"}
      BY SMT
    <3>2. DOMAIN [ZERO_PAGE |-> 30, ABSOLUTE |-> 40]
            \subseteq Modes
      BY <3>1 DEF Modes
    <3> QED BY <2>5, <3>1, <3>2, NameGroups, NotBranches, RowsOK
  <2> QED BY Zenon, <1>1, <2>1, <2>2, <2>3, <2>4, <2>5 DEF Reads
<1>2. ASSUME r \in Modifies
      PROVE  RowOK(r)
  <2>1. ASSUME r \in Rows(Modify,
                        [ZERO_PAGE |-> 50, ZERO_PAGE_X |-> 60, ABSOLUTE |->
                                60, ABSOLUTE_X |-> 70])
        PROVE  RowOK(r)
    <3>1. DOMAIN [ZERO_PAGE |-> 50, ZERO_PAGE_X |-> 60, ABSOLUTE |->
                                60, ABSOLUTE_X |-> 70]
            = {"ZERO_PAGE", "ZERO_PAGE_X", "ABSOLUTE", "ABSOLUTE_X"}
      BY SMT
    <3>2. DOMAIN [ZERO_PAGE |-> 50, ZERO_PAGE_X |-> 60, ABSOLUTE |->
                                60, ABSOLUTE_X |-> 70]
            \subseteq Modes
      BY <3>1 DEF Modes
    <3> QED BY <2>1, <3>1, <3>2, NameGroups, NotBranches, RowsOK
  <2> QED BY Zenon, <1>2, <2>1 DEF Modifies
<1>3. ASSUME r \in Stores
      PROVE  RowOK(r)
  <2>1. ASSUME r \in Rows({"STA"},
                        [ZERO_PAGE |-> 30, ZERO_PAGE_X |-> 40, ABSOLUTE |->
                                40, ABSOLUTE_X |-> 50, ABSOLUTE_Y |-> 50, X_INDIRECT |-> 60, INDIRECT_Y |-> 60])
        PROVE  RowOK(r)
    <3>1. DOMAIN [ZERO_PAGE |-> 30, ZERO_PAGE_X |-> 40, ABSOLUTE |->
                                40, ABSOLUTE_X |-> 50, ABSOLUTE_Y |-> 50, X_INDIRECT |-> 60, INDIRECT_Y |-> 60]
            = {"ZERO_PAGE", "ZERO_PAGE_X", "ABSOLUTE", "ABSOLUTE_X", "ABSOLUTE_Y", "X_INDIRECT", "INDIRECT_Y"}
      BY SMT
    <3>2. DOMAIN [ZERO_PAGE |-> 30, ZERO_PAGE_X |-> 40, ABSOLUTE |->
                                40, ABSOLUTE_X |-> 50, ABSOLUTE_Y |-> 50, X_INDIRECT |-> 60, INDIRECT_Y |-> 60]
            \subseteq Modes
      BY <3>1 DEF Modes
    <3> QED BY <2>1, <3>1, <3>2, NameGroups, NotBranches, RowsOK
  <2>2. ASSUME r \in Rows({"STX"},
                        [ZERO_PAGE |-> 30, ZERO_PAGE_Y |-> 40, ABSOLUTE |-> 40])
        PROVE  RowOK(r)
    <3>1. DOMAIN [ZERO_PAGE |-> 30, ZERO_PAGE_Y |-> 40, ABSOLUTE |-> 40]
            = {"ZERO_PAGE", "ZERO_PAGE_Y", "ABSOLUTE"}
      BY SMT
    <3>2. DOMAIN [ZERO_PAGE |-> 30, ZERO_PAGE_Y |-> 40, ABSOLUTE |-> 40]
            \subseteq Modes
      BY <3>1 DEF Modes
    <3> QED BY <2>2, <3>1, <3>2, NameGroups, NotBranches, RowsOK
  <2>3. ASSUME r \in Rows({"STY"},
                        [ZERO_PAGE |-> 30, ZERO_PAGE_X |-> 40, ABSOLUTE |-> 40])
        PROVE  RowOK(r)
    <3>1. DOMAIN [ZERO_PAGE |-> 30, ZERO_PAGE_X |-> 40, ABSOLUTE |-> 40]
            = {"ZERO_PAGE", "ZERO_PAGE_X", "ABSOLUTE"}
      BY SMT
    <3>2. DOMAIN [ZERO_PAGE |-> 30, ZERO_PAGE_X |-> 40, ABSOLUTE |-> 40]
            \subseteq Modes
      BY <3>1 DEF Modes
    <3> QED BY <2>3, <3>1, <3>2, NameGroups, NotBranches, RowsOK
  <2> QED BY Zenon, <1>3, <2>1, <2>2, <2>3 DEF Stores
<1>4. ASSUME r \in Implied
      PROVE  RowOK(r)
  <2>1. ASSUME r \in Rows(SetFlag \cup Registers \cup Shift,
                        [NONE |-> 20])
        PROVE  RowOK(r)
    <3>1. DOMAIN [NONE |-> 20]
            = {"NONE"}
      BY SMT
    <3>2. DOMAIN [NONE |-> 20]
            \subseteq Modes
      BY <3>1 DEF Modes
    <3> QED BY <2>1, <3>1, <3>2, NameGroups, NotBranches, RowsOK
  <2>2. ASSUME r \in Rows({"PHA", "PHP"},
                        [NONE |-> 30])
        PROVE  RowOK(r)
    <3>1. DOMAIN [NONE |-> 30]
            = {"NONE"}
      BY SMT
    <3>2. DOMAIN [NONE |-> 30]
            \subseteq Modes
      BY <3>1 DEF Modes
    <3> QED BY <2>2, <3>1, <3>2, NameGroups, NotBranches, RowsOK
  <2>3. ASSUME r \in Rows({"PLA", "PLP"},
                        [NONE |-> 40])
        PROVE  RowOK(r)
    <3>1. DOMAIN [NONE |-> 40]
            = {"NONE"}
      BY SMT
    <3>2. DOMAIN [NONE |-> 40]
            \subseteq Modes
      BY <3>1 DEF Modes
    <3> QED BY <2>3, <3>1, <3>2, NameGroups, NotBranches, RowsOK
  <2> QED BY Zenon, <1>4, <2>1, <2>2, <2>3 DEF Implied
<1>5. ASSUME r \in Jumps
      PROVE  RowOK(r)
  <2>1. ASSUME r \in Rows(Branches,
                        [ABSOLUTE |-> 25])
        PROVE  RowOK(r)
    <3>1. DOMAIN [ABSOLUTE |-> 25]
            = {"ABSOLUTE"}
      BY SMT
    <3>2. DOMAIN [ABSOLUTE |-> 25]
            \subseteq Modes
      BY <3>1 DEF Modes
    <3> QED BY <2>1, <3>1, <3>2, NameGroups, NotBranches, RowsOK
  <2>2. ASSUME r \in Rows({"JMP"},
                        [ABSOLUTE |-> 30])
        PROVE  RowOK(r)
    <3>1. DOMAIN [ABSOLUTE |-> 30]
            = {"ABSOLUTE"}
      BY SMT
    <3>2. DOMAIN [ABSOLUTE |-> 30]
            \subseteq Modes
      BY <3>1 DEF Modes
    <3> QED BY <2>2, <3>1, <3>2, NameGroups, NotBranches, RowsOK
  <2>3. ASSUME r \in Rows({"JSR"},
                        [ABSOLUTE |-> 60])
        PROVE  RowOK(r)
    <3>1. DOMAIN [ABSOLUTE |-> 60]
            = {"ABSOLUTE"}
      BY SMT
    <3>2. DOMAIN [ABSOLUTE |-> 60]
            \subseteq Modes
      BY <3>1 DEF Modes
    <3> QED BY <2>3, <3>1, <3>2, NameGroups, NotBranches, RowsOK
  <2>4. ASSUME r \in Rows({"RTI", "RTS"},
                        [NONE |-> 60])
        PROVE  RowOK(r)
    <3>1. DOMAIN [NONE |-> 60]
            = {"NONE"}
      BY SMT
    <3>2. DOMAIN [NONE |-> 60]
            \subseteq Modes
      BY <3>1 DEF Modes
    <3> QED BY <2>4, <3>1, <3>2, NameGroups, NotBranches, RowsOK
  <2> QED BY Zenon, <1>5, <2>1, <2>2, <2>3, <2>4 DEF Jumps
<1> QED BY Zenon, <1>1, <1>2, <1>3, <1>4, <1>5 DEF instructions

KnownOK(ins) ==
    /\ ins.name \in Names
    /\ OperandOK(ins)
    /\ ins.name \in Branches => ins.mode = "ABSOLUTE"

\* Of every row, as many variants as the operand has numbers.
LEMMA VariantOK ==
  ASSUME NEW r, RowOK(r), NEW k \in 0 .. 9, k < addr_mode_variants(r.mode)
  PROVE  KnownOK(instruction(r.name, r.mode, k))
<1> DEFINE ins == instruction(r.name, r.mode, k)
<1>1. ins.name = r.name /\ ins.mode = r.mode /\ ins.number = k
  BY DEF instruction
<1>2. ASSUME r.mode \notin {"CONSTANT", "NONE"}
      PROVE  k \in 0 .. 3
  <2>1. addr_mode_variants(r.mode) = 4
    BY Zenon, <1>2 DEF addr_mode_variants
  <2> QED BY <2>1
<1>3. addr_mode_constant_values[k + 1] \in Byte
  BY DEF addr_mode_constant_values, Byte
<1> HIDE DEF ins
<1>4. OperandOK(ins)
  BY <1>1, <1>2, <1>3 DEF OperandOK, RowOK
<1> QED BY <1>1, <1>4 DEF KnownOK, RowOK, ins

LEMMA KnownInstructions ==
  ASSUME NEW ins \in Known
  PROVE  KnownOK(ins)
<1>1. CASE ins \in Variants(instructions, 10)
  <2>1. PICK r \in instructions :
          ins \in {instruction(r.name, r.mode, k) :
                     k \in {j \in 0 .. 10 - 1 : j < addr_mode_variants(r.mode)}}
    BY <1>1 DEF Variants
  <2>2. PICK k \in {j \in 0 .. 10 - 1 : j < addr_mode_variants(r.mode)} :
          ins = instruction(r.name, r.mode, k)
    BY <2>1
  <2>3. k \in 0 .. 9 /\ k < addr_mode_variants(r.mode)
    BY <2>2
  <2> QED BY <2>2, <2>3, InstructionsOK, VariantOK
<1>2. CASE ins \in {instruction("JMPI", "ABSOLUTE", k) : k \in 0 .. 3}
  <2>1. PICK k \in 0 .. 3 : ins = instruction("JMPI", "ABSOLUTE", k)
    BY <1>2
  <2>2. ins.name = "JMPI" /\ ins.mode = "ABSOLUTE" /\ ins.number \in 0 .. 3
    BY <2>1 DEF instruction
  <2> QED BY <2>2 DEF KnownOK, OperandOK, Names, Modes, Branches
<1> QED BY <1>1, <1>2 DEF Known

\* One instruction moves both machines alike, if it follows no pointer and does
\* not branch to 0; otherwise it keeps them well-formed.
LEMMA RunMoves ==
  ASSUME NEW c, NEW m, NEW s, Both(c, m, s), NEW ins \in Known,
         c => ~Indirect(ins) /\ ~ToZero(m, ins)
  PROVE  Moves(c, 1, m, s, Concrete!Emulator!Run(m, ins), Symbolic!Emulator!Run(s, ins))
<1> DEFINE a == Concrete!Emulator!absoluteVar(m, ins)
           d == Symbolic!Emulator!absoluteVar(s, ins)
           n == Concrete!Emulator!immediateVar(m, ins)
           e == Symbolic!Emulator!immediateVar(s, ins)
<1>1. ins.name \in Names /\ OperandOK(ins) /\ (ins.name \in Branches => ins.mode = "ABSOLUTE")
  BY Zenon, KnownInstructions DEF KnownOK
<1>2. c => ins.mode \notin {"X_INDIRECT", "INDIRECT_Y"} /\ ins.name # "JMPI"
  BY Zenon DEF Indirect
<1>3. WordVal(c, a, d) /\ ByteVal(c, n, e)
  BY Zenon, <1>1, <1>2, AbsoluteVal, ImmediateVal
<1>4. ASSUME c, ins.name \in Branches
      PROVE  Wrap(a) # 0
  <2>1. ins.mode = "ABSOLUTE" /\ ins.number \in 0 .. 3
    BY <1>1, <1>4 DEF OperandOK
  <2>2. a = Concrete!wordVar(Concrete!absolute(m, ins.number))
    BY Zenon, <2>1 DEF Concrete!Emulator!absoluteVar
  <2>3. a = Wrap(m.absolute[ins.number])
    BY Zenon, <2>2, SameNumbers DEF Concrete!wordVar, Concrete!absolute
  <2>4. m.absolute[ins.number] \in Words
    <3>1. m.absolute \in [0 .. 3 -> Words]
      BY Zenon DEF Both, GivenOK, Given
    <3> QED BY <2>1, <3>1
  <2>5. m.absolute[ins.number] # 0
    BY Zenon, <1>4 DEF ToZero
  <2> HIDE DEF a
  <2> QED BY <2>3, <2>4, <2>5, WordNumbers
<1>5. /\ Concrete!Emulator!Run(m, ins) = Concrete!Emulator!Execute(m, ins.name, a, n)
      /\ Symbolic!Emulator!Run(s, ins) = Symbolic!Emulator!Execute(s, ins.name, d, e)
  BY Zenon DEF Concrete!Emulator!Run, Symbolic!Emulator!Run
<1> HIDE DEF a, d, n, e
<1> QED BY <1>1, <1>2, <1>3, <1>4, <1>5, ExecuteMoves

-----------------------------------------------------------------------------
(* The machines before the first instruction.                              *)

LEMMA Init32Range ==
  ASSUME NEW seed \in Words \X Words
  PROVE  Concrete!Init32(seed) \in Words \X Words
<1>1. PICK h \in Words, k \in Words : seed[1] = h /\ seed[2] = k
  OBVIOUS
<1>2. /\ h \in Int /\ k \in Int
  BY WordRange
<1>3. Low(k) \in Int /\ k \div 256 \in Int /\ Low(h) \in Int /\ h \div 256 \in Int
  BY <1>2, Truncations
<1>4. Concrete!Basis[1] \in Int /\ Concrete!Basis[2] \in Int
  BY DEF Concrete!Basis
<1> DEFINE h1 == Concrete!Hashed(Concrete!Basis, Low(k))
           h2 == Concrete!Hashed(h1, k \div 256)
           h3 == Concrete!Hashed(h2, Low(h))
<1>5. h1[1] \in Int /\ h1[2] \in Int
  BY <1>3, <1>4, HashedRange, WordRange
<1> HIDE DEF h1
<1>6. h2[1] \in Int /\ h2[2] \in Int
  BY <1>3, <1>5, HashedRange, WordRange
<1> HIDE DEF h2
<1>7. h3[1] \in Int /\ h3[2] \in Int
  BY <1>3, <1>6, HashedRange, WordRange
<1> HIDE DEF h3
<1>8. Concrete!Hashed(h3, h \div 256) \in Words \X Words
  BY <1>3, <1>7, HashedRange
<1>9. Concrete!Init32(seed) = Concrete!Hashed(h3, h \div 256)
  BY <1>1, SameNumbers DEF Concrete!Init32, h1, h2, h3
<1> QED BY Zenon, <1>8, <1>9

LEMMA StartConcrete ==
  ASSUME NEW seed \in Words \X Words,
         NEW m, m = Concrete!random_machine(seed)
  PROVE  ConcreteOK(m) /\ GivenOK(m, m) /\ m.written = <<>> /\ m.exit = 0
<1> DEFINE init    == Concrete!Init32(seed)
           fnv(n)  == Concrete!Fnv(seed, init, n)
           byte(n) == Concrete!Low(fnv(n)[2])
           bit(n)  == Concrete!AboveHalf(fnv(n))
<1>1. init \in Words \X Words
  BY Zenon, Init32Range
<1>2. \A n \in 0 .. 200 : fnv(n)[2] \in Words
  <2> TAKE n \in 0 .. 200
  <2>1. n \in Words
    BY WordRange
  <2> HIDE DEF init
  <2> QED BY <1>1, <2>1, FnvRange
<1> HIDE DEF init
<1>3. \A n \in 0 .. 200 : byte(n) \in Byte
  <2> HIDE DEF fnv
  <2> TAKE n \in 0 .. 200
  <2>3. fnv(n)[2] \in Words
    BY <1>2
  <2>1. fnv(n)[2] \in Int
    BY <2>3, WordNumbers
  <2>2. byte(n) = Low(fnv(n)[2])
    BY Zenon, SameNumbers
  <2> QED BY Zenon, <2>1, <2>2, Truncations
<1>4. \A n : bit(n) \in BOOLEAN
  <2> HIDE DEF fnv
  <2> TAKE n
  <2> QED BY DEF Concrete!AboveHalf
<1> HIDE DEF fnv, byte, bit
<1> DEFINE ab == [k \in 0 .. 3 |-> fnv(125 + k)[2]]
           zp == [k \in 0 .. 3 |-> byte(150 + k)]
           im == [k \in 0 .. 3 |-> byte(175 + k)]
           ra == byte(113)
           rx == byte(114)
           ry == byte(115)
           rs == byte(116)
           fS == bit(117)
           fV == bit(118)
           fI == bit(119)
           fD == bit(120)
           fC == bit(121)
           fZ == bit(122)
<1>5. m = [seed |-> seed, init |-> init, absolute |-> ab, zp |-> zp, immediate |-> im,
           a |-> ra, x |-> rx, y |-> ry, sp |-> rs,
           S |-> fS, V |-> fV, I |-> fI, D |-> fD, C |-> fC, Z |-> fZ,
           written |-> <<>>, exit |-> 0]
  BY Zenon DEF Concrete!random_machine, init, fnv, byte, bit
<1>7. ra \in Byte /\ rx \in Byte /\ ry \in Byte /\ rs \in Byte
  BY <1>3
<1>8. /\ fS \in BOOLEAN /\ fV \in BOOLEAN /\ fI \in BOOLEAN
      /\ fD \in BOOLEAN /\ fC \in BOOLEAN /\ fZ \in BOOLEAN
  BY Zenon, <1>4
<1>15. ab \in [0 .. 3 -> Words] /\ zp \in [0 .. 3 -> Byte] /\ im \in [0 .. 3 -> Byte]
  <2>1. \A k \in 0 .. 3 : 125 + k \in 0 .. 200 /\ 150 + k \in 0 .. 200 /\ 175 + k \in 0 .. 200
    OBVIOUS
  <2> QED BY <1>2, <1>3, <2>1
<1> HIDE DEF ab, zp, im, ra, rx, ry, rs, fS, fV, fI, fD, fC, fZ
<1>6. DOMAIN m = {"seed", "init", "absolute", "zp", "immediate", "a", "x", "y", "sp",
                  "S", "V", "I", "D", "C", "Z", "written", "exit"}
  BY Zenon, <1>5
<1>18. m.a = ra /\ m.x = rx /\ m.y = ry /\ m.sp = rs
  BY <1>5
<1>19. m.S = fS /\ m.V = fV /\ m.I = fI /\ m.D = fD /\ m.C = fC /\ m.Z = fZ
  BY <1>5
<1>9. /\ m.seed = seed /\ m.init = init /\ m.written = <<>> /\ m.exit = 0
      /\ m.absolute = ab /\ m.zp = zp /\ m.immediate = im
  BY <1>5
<1>10. \A r \in Register : m[r] \in Byte
  BY Zenon, <1>7, <1>18 DEF Register
<1>11. \A f \in Flag : m[f] \in BOOLEAN
  BY Zenon, <1>8, <1>19 DEF Flag
<1>12. MemoryOK(m.written)
  BY <1>9 DEF MemoryOK
<1>13. m.exit \in Exits
  BY <1>9, ExitRange
<1>14. Fields \cup Given \cup {"written"} \subseteq DOMAIN m
  BY Zenon, <1>6 DEF Fields, Given, Register, Flag
<1>16. ConcreteOK(m)
  BY Zenon, <1>10, <1>11, <1>12, <1>13, <1>14 DEF ConcreteOK
<1>17. GivenOK(m, m)
  BY Zenon, <1>1, <1>9, <1>15 DEF GivenOK
<1> QED BY Zenon, <1>9, <1>16, <1>17

LEMMA StartSymbolic ==
  ASSUME NEW m, ConcreteOK(m), m.written = <<>>, m.exit = 0,
         NEW s, s = Symbolic!abstract_machine(m)
  PROVE  SymbolicOK(s) /\ Same(m, s) /\ s.valuation = m
<1>6. \A r \in Register : m[r] \in Int
  <2>1. \A k \in Byte : k \in Int
    BY DEF Byte
  <2> QED BY Zenon, <2>1 DEF ConcreteOK
<1> DEFINE num(r) == Symbolic!num_val(m[r], 8)
           bit(f) == Symbolic!bool_val(m[f])
           out    == Symbolic!num_val(0, 17)
<1>1. s = [a |-> num("a"), x |-> num("x"), y |-> num("y"), sp |-> num("sp"),
           S |-> bit("S"), V |-> bit("V"), I |-> bit("I"),
           D |-> bit("D"), C |-> bit("C"), Z |-> bit("Z"),
           valuation |-> m, memory |-> <<>>, exit |-> out, thrown |-> FALSE]
  BY Zenon DEF Symbolic!abstract_machine
<1>18. \A r \in Register : num(r) = E8(m[r])
  BY Zenon, <1>6, Numerals
<1>19. out = E17(0)
  BY Numerals
<1> HIDE DEF num, bit, out
<1>2. DOMAIN s = {"a", "x", "y", "sp", "S", "V", "I", "D", "C", "Z",
                  "valuation", "memory", "exit", "thrown"}
  BY Zenon, <1>1
<1>3. s.a = num("a") /\ s.x = num("x") /\ s.y = num("y") /\ s.sp = num("sp")
  BY <1>1
<1>4. /\ s.S = bit("S") /\ s.V = bit("V") /\ s.I = bit("I")
      /\ s.D = bit("D") /\ s.C = bit("C") /\ s.Z = bit("Z")
  BY <1>1
<1>5. s.valuation = m /\ s.memory = <<>> /\ s.exit = out /\ s.thrown = FALSE
  BY <1>1
<1>7. \A r \in Register : s[r] = E8(m[r])
  BY Zenon, <1>3, <1>18 DEF Register
<1>8. \A f \in Flag : m[f] \in BOOLEAN
  BY Zenon DEF ConcreteOK
<1>9. \A f \in Flag : s[f] = EB(m[f])
  <2>1. 0 \in Int
    OBVIOUS
  <2> QED BY Zenon, <1>4, <1>8, <2>1, Conditions DEF Flag, bit
<1>10. s.exit = E17(0)
  BY Zenon, <1>5, <1>19
<1>11. \A r \in Register : s[r] \in Bits8
  BY Zenon, <1>6, <1>7 DEF Bits8
<1>12. \A f \in Flag : s[f] \in Truths
  BY Zenon, <1>8, <1>9, TruthOf
<1>13. s.exit \in Bits17 /\ SameExit(m.exit, s.exit)
  <2>1. E17(0).v = 0
    BY DEF E17, Tag
  <2>2. E17(0) \in Bits17
    BY DEF Bits17
  <2> QED BY Zenon, <1>10, <2>1, <2>2 DEF SameExit
<1>14. StoreOK(s.memory) /\ SameMemory(m.written, s.memory)
  BY <1>5 DEF StoreOK, SameMemory
<1>15. Fields \cup {"memory", "thrown", "valuation"} \subseteq DOMAIN s
  BY Zenon, <1>2 DEF Fields, Register, Flag
<1>16. SymbolicOK(s)
  BY Zenon, <1>5, <1>11, <1>12, <1>13, <1>14, <1>15 DEF SymbolicOK
<1>17. Same(m, s)
  BY Zenon, <1>7, <1>9, <1>13, <1>14 DEF Same
<1> QED BY Zenon, <1>5, <1>16, <1>17

LEMMA StartsAlike ==
  ASSUME NEW seed \in Words \X Words, NEW c,
         NEW m, m = Concrete!random_machine(seed),
         NEW s, s = Symbolic!abstract_machine(m)
  PROVE  Both(c, m, s) /\ m.written = <<>>
<1>1. ConcreteOK(m) /\ GivenOK(m, m) /\ m.written = <<>> /\ m.exit = 0
  BY Zenon, StartConcrete
<1>2. SymbolicOK(s) /\ Same(m, s) /\ s.valuation = m
  BY Zenon, <1>1, StartSymbolic
<1> QED BY Zenon, <1>1, <1>2 DEF Both

-----------------------------------------------------------------------------
(* The invariant of the two machines, and what follows from it.            *)

IsSequence(q) == \E S : q \in Seq(S)

\* The machines are well-formed whatever has run, and are the same unless a
\* pointer was followed or a branch to 0 taken.  An instruction writes to one
\* address at most.
IInv ==
    /\ Both(Direct, rnd, abs)
    /\ ran \in Seq(Known)
    /\ IsSequence(before)
    /\ Len(before) = Len(ran)
    /\ Len(ran) <= MaxLength
    /\ Len(rnd.written) <= Len(ran)

LEMMA InitIInv == Init => IInv
<1> SUFFICES ASSUME Init
             PROVE  IInv
  OBVIOUS
<1>1. PICK seed \in Seeds : rnd = Concrete!random_machine(seed)
  BY Zenon DEF Init
<1>2. seed \in Words \X Words
  BY Zenon, <1>1, SeedsAssumption DEF Words
<1>3. Both(Direct, rnd, abs) /\ rnd.written = <<>>
  BY Zenon, <1>1, <1>2, StartsAlike DEF Init
<1>4. ran = <<>> /\ before = <<>>
  BY Zenon DEF Init
<1>5. IsSequence(before)
  <2>1. before \in Seq({})
    BY <1>4
  <2> QED BY Zenon, <2>1 DEF IsSequence
<1>6. /\ ran \in Seq(Known) /\ Len(before) = Len(ran)
      /\ Len(ran) <= MaxLength /\ Len(rnd.written) <= Len(ran)
  BY <1>3, <1>4, LengthAssumption
<1> QED BY Zenon, <1>3, <1>5, <1>6 DEF IInv

LEMMA SequenceGrows ==
  ASSUME NEW q, IsSequence(q), NEW v
  PROVE  /\ IsSequence(Append(q, v))
         /\ Len(Append(q, v)) = Len(q) + 1
         /\ Len(q) \in Nat
         /\ Append(q, v)[Len(q) + 1] = v
         /\ \A i \in 1 .. Len(q) : Append(q, v)[i] = q[i]
<1>1. PICK S : q \in Seq(S)
  BY Zenon DEF IsSequence
<1>2. q \in Seq(S \cup {v}) /\ v \in S \cup {v}
  BY <1>1
<1>3. Append(q, v) \in Seq(S \cup {v})
  BY <1>2
<1>4. IsSequence(Append(q, v))
  BY Zenon, <1>3 DEF IsSequence
<1> QED BY <1>2, <1>4

LEMMA BothWeaker ==
  ASSUME NEW c, NEW d, d => c, NEW m, NEW s, Both(c, m, s)
  PROVE  Both(d, m, s)
BY Zenon DEF Both

\* Both machines move alike in a step, if the sequence stays direct.
LEMMA StepMoves ==
  ASSUME IInv, NEW ins \in Known, Step(ins)
  PROVE  Moves(Direct', 1, rnd, abs, rnd', abs')
<1>1. /\ rnd' = Concrete!Emulator!Run(rnd, ins)
      /\ abs' = Symbolic!Emulator!Run(abs, ins)
      /\ ran' = Append(ran, ins) /\ before' = Append(before, rnd)
  BY Zenon DEF Step
<1>2. IsSequence(before) /\ Len(before) = Len(ran) /\ ran \in Seq(Known)
  BY Zenon DEF IInv
<1>3. /\ DOMAIN ran = 1 .. Len(ran) /\ DOMAIN ran' = 1 .. Len(ran) + 1
      /\ Len(ran) \in Nat /\ ran'[Len(ran) + 1] = ins
      /\ \A i \in 1 .. Len(ran) : ran'[i] = ran[i]
  BY <1>1, <1>2
<1>4. /\ before'[Len(ran) + 1] = rnd
      /\ \A i \in 1 .. Len(ran) : before'[i] = before[i]
  <2>1. /\ Append(before, rnd)[Len(before) + 1] = rnd
        /\ \A i \in 1 .. Len(before) : Append(before, rnd)[i] = before[i]
    BY <1>2, SequenceGrows
  <2> QED BY <1>1, <1>2, <2>1
<1>5. Direct' => Direct
  BY <1>3, <1>4 DEF Direct
<1>6. Direct' => ~Indirect(ins) /\ ~ToZero(rnd, ins)
  BY <1>3, <1>4 DEF Direct
<1>7. Both(Direct', rnd, abs)
  <2>1. Both(Direct, rnd, abs)
    BY Zenon DEF IInv
  <2> QED BY Zenon, <1>5, <2>1, BothWeaker
<1> QED BY Zenon, <1>1, <1>6, <1>7, RunMoves

LEMMA StepIInv ==
  ASSUME IInv, NEW ins \in Known, Step(ins)
  PROVE  IInv'
<1>1. Moves(Direct', 1, rnd, abs, rnd', abs')
  BY Zenon, StepMoves
<1>2. Both(Direct', rnd', abs')
  BY Zenon, <1>1, After
<1>3. Len(rnd'.written) \in Nat /\ Len(rnd'.written) <= Len(rnd.written) + 1
  BY Zenon, <1>1 DEF Moves
<1>4. ran' = Append(ran, ins) /\ before' = Append(before, rnd) /\ Len(ran) < MaxLength
  BY Zenon DEF Step
<1>5. /\ ran \in Seq(Known) /\ IsSequence(before) /\ Len(before) = Len(ran)
      /\ Len(rnd.written) <= Len(ran)
  BY Zenon DEF IInv
<1>6. IsSequence(before') /\ Len(before') = Len(before) + 1
  BY Zenon, <1>4, <1>5, SequenceGrows
<1>7. ran' \in Seq(Known) /\ Len(ran') = Len(ran) + 1 /\ Len(ran) \in Nat
  BY <1>4, <1>5
<1>8. Len(rnd.written) \in Nat
  <2>1. Both(Direct, rnd, abs)
    BY Zenon DEF IInv
  <2> QED BY Zenon, <2>1, LengthOf
<1>9. Len(before') = Len(ran') /\ Len(ran') <= MaxLength /\ Len(rnd'.written) <= Len(ran')
  BY <1>3, <1>4, <1>5, <1>6, <1>7, <1>8, LengthAssumption
<1> QED BY Zenon, <1>2, <1>6, <1>7, <1>9 DEF IInv

LEMMA NextIInv == IInv /\ [Next]_vars => IInv'
<1> SUFFICES ASSUME IInv, [Next]_vars
             PROVE  IInv'
  OBVIOUS
<1>1. CASE Next
  <2>1. PICK ins \in Program(ran) \cap Known : Step(ins)
    BY Zenon, <1>1 DEF Next
  <2> QED BY Zenon, <2>1, StepIInv
<1>2. CASE UNCHANGED vars
  BY Zenon, <1>2 DEF vars, IInv, Direct
<1> QED BY Zenon, <1>1, <1>2

\* What is kept of the two machines in every reachable state.
THEOREM Invariant == Spec => []IInv
BY InitIInv, NextIInv, PTL DEF Spec

LEMMA MachinesOK ==
  ASSUME IInv
  PROVE  /\ ConcreteOK(rnd) /\ SymbolicOK(abs)
         /\ Direct => Same(rnd, abs)
BY Zenon DEF IInv, Both

LEMMA IInvTypeOK == IInv => TypeOK
<1> SUFFICES ASSUME IInv
             PROVE  TypeOK
  OBVIOUS
<1>1. /\ \A r \in Register : rnd[r] \in Byte
      /\ \A f \in Flag : rnd[f] \in BOOLEAN
      /\ rnd.exit \in Exits
      /\ MemoryOK(rnd.written)
  BY Zenon, MachinesOK DEF ConcreteOK
<1>2. rnd.exit \in 0 .. 2 * Tag - 1
  BY Zenon, <1>1 DEF Exits
<1>3. IsInjective([i \in DOMAIN rnd.written |-> rnd.written[i][1]])
  BY Zenon, <1>1 DEF MemoryOK, IsInjective
<1>4. \A i \in DOMAIN rnd.written : rnd.written[i] \in (0 .. Tag - 1) \X Byte
  <2>1. \A i \in DOMAIN rnd.written : rnd.written[i] \in Words \X Byte
    BY <1>1 DEF MemoryOK
  <2> QED BY Zenon, <2>1 DEF Words
<1>5. Len(rnd.written) <= 16
  <2>1. Len(rnd.written) \in Nat
    BY <1>1 DEF MemoryOK
  <2>2. Len(rnd.written) <= Len(ran) /\ Len(ran) <= MaxLength /\ ran \in Seq(Known)
    BY Zenon DEF IInv
  <2> QED BY <2>1, <2>2, LengthAssumption
<1> QED BY Zenon, <1>1, <1>2, <1>3, <1>4, <1>5 DEF TypeOK

\* Whatever is run, and of whatever length the sequence is, the registers stay
\* bytes, the flags are boolean, no address is kept twice and the pairs written
\* fit into their arrays.
THEOREM TypeCorrect == Spec => []TypeOK
BY Invariant, IInvTypeOK, PTL

LEMMA IInvWellSorted == IInv => WellSorted
<1> SUFFICES ASSUME IInv
             PROVE  WellSorted
  OBVIOUS
<1>1. SymbolicOK(abs)
  BY Zenon, MachinesOK
<1>2. \A f \in Fields : abs[f].w = Symbolic!SortOf(f)
  BY Zenon, <1>1, SortsOf
<1>3. ~abs.thrown
  BY Zenon, <1>1 DEF SymbolicOK
<1> QED BY Zenon, <1>2, <1>3 DEF WellSorted, Fields

\* No sequence of instructions, those that follow pointers included, makes the
\* abstract_machine throw: all operands have the sorts that the solver's
\* operators ask for.
THEOREM SortsAreKept == Spec => []WellSorted
BY Invariant, IInvWellSorted, PTL

\* What was written is read back as the solver sees it.
LEMMA ReadsBack ==
  ASSUME NEW m, MemoryOK(m.written), NEW g, SameMemory(m.written, g), NEW w \in DOMAIN g
  PROVE  Concrete!read(m, w) = g[w]
<1>1. PICK j \in DOMAIN m.written : m.written[j][1] = w
  BY Zenon DEF SameMemory
<1>2. w \in Words
  BY Zenon, <1>1, GetWritten
<1>3. Concrete!Wrap(w) = w
  BY Zenon, <1>2, SameNumbers, WordNumbers
<1> DEFINE i == Concrete!Find(m, w)
<1>4. i \in DOMAIN m.written /\ i # 0 /\ m.written[i][1] = w
  BY Zenon, <1>1, FindOf
<1>5. Concrete!read(m, w) = m.written[i][2]
  BY Zenon, <1>3, <1>4 DEF Concrete!read
<1> QED BY Zenon, <1>4, <1>5 DEF SameMemory

LEMMA IInvAgree == IInv => Agree
<1> SUFFICES ASSUME IInv, Direct
             PROVE  SameMachine
  BY Zenon DEF Agree
<1>1. ConcreteOK(rnd) /\ SymbolicOK(abs) /\ Same(rnd, abs)
  BY Zenon, MachinesOK
<1>2. \A r \in Register : rnd[r] = abs[r].v
  <2> TAKE r \in Register
  <2>1. abs[r] = E8(rnd[r]) /\ rnd[r] \in Byte
    BY Zenon, <1>1 DEF Same, ConcreteOK
  <2>2. Low(rnd[r]) = rnd[r]
    BY Zenon, <2>1, ByteNumbers
  <2>3. E8(rnd[r]).v = Low(rnd[r])
    BY DEF E8
  <2> QED BY Zenon, <2>1, <2>2, <2>3
<1>3. \A f \in Flag : rnd[f] = abs[f].v
  <2> TAKE f \in Flag
  <2>1. abs[f] = EB(rnd[f])
    BY Zenon, <1>1 DEF Same
  <2>2. \A b : EB(b).v = b
    BY DEF EB
  <2> QED BY Zenon, <2>1, <2>2
<1>4. MemoryOK(rnd.written) /\ SameMemory(rnd.written, abs.memory)
  BY Zenon, <1>1 DEF ConcreteOK, Same
<1>5. Written = DOMAIN abs.memory
  BY Zenon, <1>4 DEF SameMemory, Written
<1>6. \A w \in Written : Concrete!read(rnd, w) = abs.memory[w]
  BY Zenon, <1>4, <1>5, ReadsBack
<1>7. Wrap(rnd.exit) = Wrap(abs.exit.v) /\ (rnd.exit = 0 <=> abs.exit.v = 0)
  BY Zenon, <1>1 DEF Same, SameExit
<1> QED BY Zenon, <1>2, <1>3, <1>5, <1>6, <1>7 DEF SameMachine

\* The two machines agree after every sequence that follows no pointer and has
\* no branch to address 0, whatever the seed, the instructions and the length.
THEOREM MachinesAgree == Spec => []Agree
BY Invariant, IInvAgree, PTL

\* Neither machine changes after an exit, whichever instruction is run.
THEOREM ExitFreezes == Spec => FrozenAfterExit
<1>1. IInv /\ [Next]_vars =>
        [/\ rnd.exit # 0 => rnd' = rnd
         /\ abs.exit.v # 0 => abs' = abs]_vars
  <2> SUFFICES ASSUME IInv, Next
               PROVE  /\ rnd.exit # 0 => rnd' = rnd
                      /\ abs.exit.v # 0 => abs' = abs
    BY Zenon
  <2>1. PICK ins \in Program(ran) \cap Known : Step(ins)
    BY Zenon DEF Next
  <2>2. Moves(Direct', 1, rnd, abs, rnd', abs')
    BY Zenon, <2>1, StepMoves
  <2> QED BY Zenon, <2>2 DEF Moves
<1> QED BY <1>1, Invariant, PTL DEF Spec, FrozenAfterExit

-----------------------------------------------------------------------------
(* What the digits of a result are.                                        *)

LEMMA WeightDigits ==
  ASSUME NEW w \in Symbolic!Weight, NEW k \in Symbolic!Weight
  PROVE  Symbolic!HasDigit(k, w) <=> w = k
BY DEF Symbolic!HasDigit, Symbolic!Weight

LEMMA WeightNumbers ==
  /\ \A w \in Symbolic!Weight : w \in Byte /\ w \in Int
  /\ 1 \in Symbolic!Weight /\ 2 \in Symbolic!Weight /\ 4 \in Symbolic!Weight /\ 8 \in Symbolic!Weight
  /\ 16 \in Symbolic!Weight /\ 32 \in Symbolic!Weight /\ 64 \in Symbolic!Weight /\ 128 \in Symbolic!Weight
BY DEF Symbolic!Weight, Byte

LEMMA DigitTruth ==
  \A n, w : Symbolic!HasDigit(n, w) \in BOOLEAN
BY DEF Symbolic!HasDigit

LEMMA NoDigits ==
  \A w \in Symbolic!Weight : ~Symbolic!HasDigit(0, w)
BY DEF Symbolic!HasDigit, Symbolic!Weight

LEMMA AllDigits ==
  \A w \in Symbolic!Weight : Symbolic!HasDigit(255, w)
BY DEF Symbolic!HasDigit, Symbolic!Weight

LEMMA HighDigit ==
  ASSUME NEW n \in Byte
  PROVE  Symbolic!HasDigit(n, 128) <=> n >= 128
BY DEF Symbolic!HasDigit, Byte

LEMMA LowDigit ==
  ASSUME NEW n \in Int
  PROVE  Symbolic!HasDigit(n, 1) <=> n % 2 = 1
BY DEF Symbolic!HasDigit

LEMMA AndWeight ==
  ASSUME NEW n \in Int, NEW k \in Symbolic!Weight
  PROVE  Symbolic!AndByte(n, k) = IF Symbolic!HasDigit(n, k) THEN k ELSE 0
<1>1. \A w \in Symbolic!Weight : Symbolic!HasDigit(k, w) <=> w = k
  BY WeightDigits
<1> QED BY <1>1, AndSum DEF Symbolic!Weight

\* The sum of the digits of a byte is that byte.
LEMMA DigitSum ==
  ASSUME NEW n \in Byte
  PROVE  n = (IF Symbolic!HasDigit(n, 1) THEN 1 ELSE 0) + (IF Symbolic!HasDigit(n, 2) THEN 2 ELSE 0)
             + (IF Symbolic!HasDigit(n, 4) THEN 4 ELSE 0) + (IF Symbolic!HasDigit(n, 8) THEN 8 ELSE 0)
             + (IF Symbolic!HasDigit(n, 16) THEN 16 ELSE 0) + (IF Symbolic!HasDigit(n, 32) THEN 32 ELSE 0)
             + (IF Symbolic!HasDigit(n, 64) THEN 64 ELSE 0) + (IF Symbolic!HasDigit(n, 128) THEN 128 ELSE 0)
<1>1. Symbolic!OrByte(n, 0) = n
  BY OrNothing
<1> QED BY <1>1, NoDigits, OrSum DEF Symbolic!Weight

LEMMA OrAbsent ==
  ASSUME NEW n \in Byte, NEW k \in Symbolic!Weight, ~Symbolic!HasDigit(n, k)
  PROVE  Symbolic!OrByte(n, k) = n + k
<1>1. \A w \in Symbolic!Weight : Symbolic!HasDigit(k, w) <=> w = k
  BY WeightDigits
<1>2. Symbolic!OrByte(n, 0) = n
  BY OrNothing
<1> QED BY <1>1, <1>2, NoDigits, OrSum DEF Symbolic!Weight

LEMMA Complement ==
  ASSUME NEW n \in Byte
  PROVE  Symbolic!XorByte(n, 255) = 255 - n
<1> DEFINE d(w) == IF Symbolic!HasDigit(n, w) THEN w ELSE 0
           e(w) == IF Symbolic!HasDigit(n, w) THEN 0 ELSE w
<1>1. n = d(1) + d(2) + d(4) + d(8) + d(16) + d(32) + d(64) + d(128)
  BY DigitSum
<1>2. Symbolic!XorByte(n, 255) = e(1) + e(2) + e(4) + e(8) + e(16) + e(32) + e(64) + e(128)
  BY AllDigits, DigitTruth, XorSum DEF Symbolic!Weight
<1>3. \A w \in Symbolic!Weight : e(w) = w - d(w) /\ d(w) \in Int
  BY DEF Symbolic!Weight
<1> HIDE DEF d, e
<1> QED BY <1>1, <1>2, <1>3 DEF Symbolic!Weight

\* The highest digits are those that the operators combine.
LEMMA HighDigits ==
  ASSUME NEW n \in Int, NEW k \in Int
  PROVE  /\ Symbolic!HasDigit(Symbolic!BitXor(n, k), 128)
              <=> (Symbolic!HasDigit(n, 128) # Symbolic!HasDigit(k, 128))
         /\ Symbolic!HasDigit(Symbolic!BitAnd(n, k), 128)
              <=> Symbolic!HasDigit(n, 128) /\ Symbolic!HasDigit(k, 128)
<1>1. PICK x \in Byte : x = Symbolic!XorByte(n, k)
  BY ByteRange
<1>2. PICK a \in Byte : a = Symbolic!AndByte(n, k)
  BY ByteRange
<1>3. x >= 128 <=> (Symbolic!HasDigit(n, 128) # Symbolic!HasDigit(k, 128))
  BY <1>1, XorSum
<1>4. a >= 128 <=> Symbolic!HasDigit(n, 128) /\ Symbolic!HasDigit(k, 128)
  BY <1>2, AndSum
<1>5. PICK p \in Int : p = Symbolic!BitXor(n, k)
  BY BitRange
<1>6. PICK q \in Int : q = Symbolic!BitAnd(n, k)
  BY BitRange
<1>7. p % 256 = x /\ q % 256 = a
  BY <1>1, <1>2, <1>5, <1>6, XorByBytes, AndByBytes
<1>8. /\ Symbolic!HasDigit(p, 128) = Symbolic!HasDigit(x, 128)
      /\ Symbolic!HasDigit(q, 128) = Symbolic!HasDigit(a, 128)
  BY <1>7, ByteDigits
<1> QED BY <1>3, <1>4, <1>5, <1>6, <1>8, HighDigit

\* HasBit tests a digit.
LEMMA HasBitDigit ==
  ASSUME NEW n \in Int, NEW k \in Symbolic!Weight
  PROVE  Concrete!Emulator!HasBit(n, k) <=> Symbolic!HasDigit(n, k)
<1>1. k \in Byte /\ k \in Int /\ k # 0
  BY WeightNumbers DEF Symbolic!Weight
<1>2. PICK r \in Byte : r = Symbolic!BitAnd(n, k)
  BY <1>1, AndOfByte
<1>3. r = r % 256
  BY <1>2 DEF Byte
<1>4. r = Symbolic!AndByte(n, k)
  BY <1>1, <1>2, <1>3, AndByBytes
<1>5. r = IF Symbolic!HasDigit(n, k) THEN k ELSE 0
  BY <1>4, AndWeight
<1>6. Concrete!Emulator!HasBit(n, k) <=> Concrete!BitAnd(n, k) = k
  BY DEF Concrete!Emulator!HasBit, Concrete!\doteq, Concrete!&, Concrete!int
<1> QED BY <1>1, <1>2, <1>5, <1>6, SameOperators

-----------------------------------------------------------------------------
(* What is assigned to a random_machine that has not left the sequence.    *)

\* Only the fields F differ.
Differ(m, n, F) == DOMAIN n = DOMAIN m /\ \A g \in DOMAIN m \ F : n[g] = m[g]

LEMMA DifferChain ==
  ASSUME NEW m, NEW n, NEW o, NEW F, NEW G, Differ(m, n, F), Differ(n, o, G)
  PROVE  Differ(m, o, F \cup G)
BY DEF Differ

LEMMA Assigned ==
  ASSUME NEW m, m.exit = 0, NEW f \in DOMAIN m, NEW val
  PROVE  /\ Differ(m, Concrete!assign(m, f, val), {f})
         /\ Concrete!assign(m, f, val)[f] = IF f \in Flag THEN val ELSE Low(val)
<1>1. Concrete!assign(m, f, val) = [m EXCEPT ![f] = IF f \in Flag THEN val ELSE Low(val)]
  BY SameNames, SameNumbers DEF Concrete!assign, Concrete!E
<1> QED BY <1>1 DEF Differ

LEMMA SetsSZ ==
  ASSUME NEW m, m.exit = 0, NEW val
  PROVE  Differ(m, Concrete!setSZ(m, val), {"S", "Z"})
<1>1. Concrete!setSZ(m, val)
        = [m EXCEPT !.S = Concrete!Low(val) >= 128, !.Z = Concrete!Low(val) = 0]
  BY DEF Concrete!setSZ, Concrete!E
<1> DEFINE p == Concrete!Low(val) >= 128
           q == Concrete!Low(val) = 0
<1>2. Concrete!setSZ(m, val) = [m EXCEPT !.S = p, !.Z = q]
  BY Zenon, <1>1
<1> HIDE DEF p, q
<1> QED BY <1>2 DEF Differ

LEMMA Loaded ==
  ASSUME NEW m, m.exit = 0, "exit" \in DOMAIN m, NEW r \in Register, r \in DOMAIN m, NEW val
  PROVE  /\ Differ(m, Concrete!Emulator!Load(m, r, val), {r, "S", "Z"})
         /\ Concrete!Emulator!Load(m, r, val)[r] = Low(val)
<1> DEFINE n == Concrete!setSZ(m, val)
           o == Concrete!assign(n, r, val)
<1>1. Differ(m, n, {"S", "Z"})
  BY SetsSZ
<1> HIDE DEF n
<1>2. n.exit = 0 /\ r \in DOMAIN n
  BY <1>1 DEF Differ
<1>3. Differ(n, o, {r}) /\ o[r] = IF r \in Flag THEN val ELSE Low(val)
  BY <1>2, Assigned
<1>4. Differ(m, o, {"S", "Z"} \cup {r})
  BY Zenon, <1>1, <1>3, DifferChain
<1>5. {"S", "Z"} \cup {r} = {r, "S", "Z"}
  BY Zenon
<1>6. r \notin Flag
  BY DEF Register, Flag
<1>7. o = Concrete!Emulator!Load(m, r, val)
  BY Zenon DEF n, Concrete!Emulator!Load
<1> QED BY Zenon, <1>3, <1>4, <1>5, <1>6, <1>7

-----------------------------------------------------------------------------
(* ArithmeticIsRight.                                                      *)

CarryOf(sum)   == IF sum \div 256 = 1 THEN 1 ELSE 0
Turns(s, k, n) == ((s >= 128) # (k >= 128)) /\ ((s >= 128) # (n >= 128))
Overflows(n)   == n \notin -128 .. 127

\* One turn of an addition: the carry and the byte hold the sum, and overflow is
\* that of the signed sum.
LEMMA ByteSums ==
  ASSUME NEW n \in Byte, NEW k \in Byte, NEW c \in Byte, c <= 1,
         NEW sum \in Int, sum = n + k + c, NEW s \in Byte, s = sum % 256
  PROVE  /\ 256 * CarryOf(sum) + s = sum
         /\ Turns(s, k, n) <=> Overflows(Signed(k) + Signed(n) + c)
<1>1. sum \in Int /\ 0 <= sum /\ sum <= 511
  BY DEF Byte
<1>2. sum \div 256 = IF sum >= 256 THEN 1 ELSE 0
  BY <1>1
<1>3. s = IF sum >= 256 THEN sum - 256 ELSE sum
  BY <1>1
<1>4. \A z \in Int : z \in -128 .. 127 <=> -128 <= z /\ z <= 127
  OBVIOUS
<1>5. Signed(k) + Signed(n) + c \in Int
  BY DEF Signed, Byte
<1> QED BY <1>1, <1>2, <1>3, <1>4, <1>5 DEF Signed, Byte, CarryOf, Turns, Overflows

\* The bit of the overflow.
LEMMA OverflowBit ==
  ASSUME NEW s \in Byte, NEW n \in Byte, NEW k \in Byte
  PROVE  Concrete!Emulator!HasBit(Concrete!&(Concrete!^^(s, k), Concrete!^^(s, n)), 128)
           <=> ((s >= 128) # (k >= 128)) /\ ((s >= 128) # (n >= 128))
<1>1. s \in Int /\ n \in Int /\ k \in Int /\ 128 \in Symbolic!Weight
  BY DEF Byte, Symbolic!Weight
<1>2. PICK p \in Int : p = Symbolic!BitXor(s, k)
  BY <1>1, BitRange
<1>3. PICK q \in Int : q = Symbolic!BitXor(s, n)
  BY <1>1, BitRange
<1>4. PICK r \in Int : r = Symbolic!BitAnd(p, q)
  BY BitRange
<1>5. Concrete!&(Concrete!^^(s, k), Concrete!^^(s, n)) = r
  BY <1>2, <1>3, <1>4, SameOperators DEF Concrete!&, Concrete!^^
<1>6. Concrete!Emulator!HasBit(r, 128) <=> Symbolic!HasDigit(r, 128)
  BY <1>1, HasBitDigit
<1>7. Symbolic!HasDigit(r, 128) <=> Symbolic!HasDigit(p, 128) /\ Symbolic!HasDigit(q, 128)
  BY <1>4, HighDigits
<1>8. /\ Symbolic!HasDigit(p, 128) <=> (Symbolic!HasDigit(s, 128) # Symbolic!HasDigit(k, 128))
      /\ Symbolic!HasDigit(q, 128) <=> (Symbolic!HasDigit(s, 128) # Symbolic!HasDigit(n, 128))
  BY <1>1, <1>2, <1>3, HighDigits
<1>9. /\ Symbolic!HasDigit(s, 128) = (s >= 128)
      /\ Symbolic!HasDigit(n, 128) = (n >= 128)
      /\ Symbolic!HasDigit(k, 128) = (k >= 128)
  BY <1>1, HighDigit, DigitTruth
<1> QED BY <1>5, <1>6, <1>7, <1>8, <1>9

LEMMA AddRight ==
  ASSUME NEW m, ConcreteOK(m), m.exit = 0, NEW n \in Byte,
         NEW o, o = Concrete!Emulator!Add(m, n)
  PROVE  /\ 256 * Carry(o) + o.a = m.a + n + Carry(m)
         /\ o.V <=> Signed(m.a) + Signed(n) + Carry(m) \notin -128 .. 127
<1> DEFINE sum == Concrete!++(Concrete!++(Concrete!extend(n), Concrete!extend(m.a)),
                              Concrete!extend(Concrete!Emulator!Pick(m.C, 1)))
<1>1. /\ m.a \in Byte /\ m.C \in BOOLEAN
      /\ "a" \in DOMAIN m /\ "C" \in DOMAIN m /\ "V" \in DOMAIN m /\ "exit" \in DOMAIN m
  BY DEF ConcreteOK, Register, Flag, Fields
<1>2. Carry(m) \in {0, 1} /\ Concrete!Emulator!Pick(m.C, 1) = Carry(m)
  BY <1>1 DEF Carry, Concrete!Emulator!Pick, Concrete!ite, Concrete!int, Concrete!Wrap
<1>3. sum = n + m.a + Carry(m)
  BY <1>1, <1>2 DEF Concrete!++, Concrete!extend, Concrete!Low, Byte
<1>4. sum \in Int /\ 0 <= sum /\ sum <= 511
  BY <1>1, <1>2, <1>3 DEF Byte
<1> DEFINE s == Concrete!lobyte(sum)
           v == Concrete!Emulator!HasBit(Concrete!&(Concrete!^^(s, m.a), Concrete!^^(s, n)), 128)
           h == Concrete!\doteq(Concrete!hibyte(sum), Concrete!int(1))
           m1 == Concrete!assign(m, "V", v)
           m2 == Concrete!assign(m1, "C", h)
           m3 == Concrete!Emulator!Load(m2, "a", s)
<1>5. o = m3
  BY Zenon DEF Concrete!Emulator!Add
<1> HIDE DEF sum
<1>6. s \in Byte /\ s = sum % 256
  BY <1>4 DEF Concrete!lobyte, Concrete!Low, Byte
<1>7. h <=> sum \div 256 = 1
  BY <1>4 DEF Concrete!\doteq, Concrete!hibyte, Concrete!int, Concrete!Wrap
<1>8. v <=> Turns(s, m.a, n)
  BY <1>1, <1>6, OverflowBit DEF Turns
<1> HIDE DEF s, v, h, m1, m2, m3
<1>9. Differ(m, m1, {"V"}) /\ m1.V = v
  <2>1. Differ(m, m1, {"V"}) /\ m1["V"] = IF "V" \in Flag THEN v ELSE Low(v)
    BY Zenon, <1>1, Assigned DEF m1
  <2> QED BY Zenon, <2>1, FlagNames
<1>10. m1.exit = 0 /\ "C" \in DOMAIN m1 /\ "a" \in DOMAIN m1 /\ "V" \in DOMAIN m1 /\ "exit" \in DOMAIN m1
  BY <1>1, <1>9 DEF Differ
<1>11. Differ(m1, m2, {"C"}) /\ m2.C = h
  <2>1. Differ(m1, m2, {"C"}) /\ m2["C"] = IF "C" \in Flag THEN h ELSE Low(h)
    BY Zenon, <1>10, Assigned DEF m2
  <2> QED BY Zenon, <2>1, FlagNames
<1>12. m2.exit = 0 /\ "a" \in DOMAIN m2 /\ "exit" \in DOMAIN m2 /\ "C" \in DOMAIN m2 /\ "V" \in DOMAIN m2
  BY <1>10, <1>11 DEF Differ
<1>13. m2.V = v
  BY <1>9, <1>10, <1>11 DEF Differ
<1>14. Differ(m2, m3, {"a", "S", "Z"}) /\ m3.a = Low(s)
  BY Zenon, <1>12, Loaded, RegisterNames DEF m3
<1>15. m3.V = v /\ m3.C = h
  BY <1>11, <1>12, <1>13, <1>14 DEF Differ
<1>16. Low(s) = s
  BY Zenon, <1>6, ByteNumbers
<1>17. /\ 256 * CarryOf(sum) + s = sum
       /\ Turns(s, m.a, n) <=> Overflows(Signed(m.a) + Signed(n) + Carry(m))
  <2>1. PICK k \in Byte, c \in Byte : k = m.a /\ c = Carry(m) /\ c <= 1
    BY <1>1, <1>2 DEF Byte
  <2>2. sum \in Int /\ sum = n + k + c
    BY <1>3, <1>4, <2>1
  <2>3. /\ 256 * CarryOf(sum) + s = sum
        /\ Turns(s, k, n) <=> Overflows(Signed(k) + Signed(n) + c)
    <3>1. s \in Byte /\ s = sum % 256 /\ k \in Byte /\ c \in Byte /\ c <= 1 /\ n \in Byte
      BY <1>6, <2>1
    <3> QED BY <2>2, <3>1, ByteSums
  <2> QED BY <2>1, <2>3
<1>18. Carry(o) = CarryOf(sum)
  BY <1>5, <1>7, <1>15 DEF Carry, CarryOf
<1>19. o.a = s
  BY Zenon, <1>5, <1>14, <1>16
<1>20. m.a + n + Carry(m) = sum
  BY <1>1, <1>2, <1>3 DEF Byte
<1>21. 256 * Carry(o) + o.a = m.a + n + Carry(m)
  BY Zenon, <1>17, <1>18, <1>19, <1>20
<1>22. o.V <=> v
  BY Zenon, <1>5, <1>15
<1> QED BY Zenon, <1>8, <1>17, <1>21, <1>22 DEF Overflows

LEMMA SbcRight ==
  ASSUME NEW m, ConcreteOK(m), m.exit = 0, NEW n \in Byte,
         NEW o, o = Concrete!Emulator!Add(m, Concrete!byteVar(Concrete!^^(n, Concrete!int(255))))
  PROVE  /\ 256 * Carry(o) + o.a = 256 + m.a - n - (1 - Carry(m))
         /\ o.V <=> Signed(m.a) - Signed(n) - (1 - Carry(m)) \notin -128 .. 127
<1>1. n \in Int /\ 0 <= n /\ n <= 255 /\ 255 \in Int
  BY DEF Byte
<1>2. Symbolic!BitXor(n, 255) % 256 = 255 - n
  BY <1>1, XorByBytes, Complement
<1>3. PICK k \in Byte : k = 255 - n
  BY <1>1 DEF Byte
<1>4. Concrete!byteVar(Concrete!^^(n, Concrete!int(255))) = k
  BY <1>2, <1>3, SameOperators DEF Concrete!byteVar, Concrete!^^, Concrete!int, Concrete!Low
<1>5. /\ 256 * Carry(o) + o.a = m.a + k + Carry(m)
      /\ o.V <=> Signed(m.a) + Signed(k) + Carry(m) \notin -128 .. 127
  BY <1>4, AddRight
<1>6. m.a \in Byte
  BY DEF ConcreteOK, Register
<1>7. Carry(m) \in {0, 1}
  BY DEF Carry
<1>8. Signed(k) = -1 - Signed(n) /\ Signed(n) \in Int /\ Signed(m.a) \in Int
  BY <1>1, <1>3, <1>6 DEF Signed, Byte
<1>9. Signed(m.a) + Signed(k) + Carry(m) = Signed(m.a) - Signed(n) - (1 - Carry(m))
  BY <1>7, <1>8
<1>10. m.a + k + Carry(m) = 256 + m.a - n - (1 - Carry(m))
  BY <1>1, <1>3, <1>6, <1>7 DEF Byte
<1> QED BY <1>5, <1>9, <1>10

\* Rotating, for an accumulator n and a carry c.
LEMMA RotatedLeft ==
  ASSUME NEW n \in Byte, NEW c \in {0, 1}
  PROVE  /\ Low(Symbolic!BitOr(Wrap(2 * Wrap(n)), c)) = ((2 * n) % 256) + c
         /\ 256 * (IF Symbolic!HasDigit(n, 128) THEN 1 ELSE 0) + ((2 * n) % 256) = 2 * n
<1>1. n \in Int /\ 0 <= n /\ n <= 255
  BY DEF Byte
<1>2. PICK t \in Int : t = Wrap(2 * Wrap(n)) /\ t = 2 * n
  BY <1>1 DEF Wrap
<1>3. PICK e \in Byte : e = t % 256 /\ e % 2 = 0
  BY <1>1, <1>2 DEF Byte
<1>4. c \in Int /\ c % 256 = c
  OBVIOUS
<1>5. Low(Symbolic!BitOr(t, c)) = Symbolic!OrByte(t, c)
  <2>1. PICK k \in Int : k = c
    BY <1>4
  <2>2. Symbolic!BitOr(t, k) % 256 = Symbolic!OrByte(t, k)
    BY OrByBytes
  <2> QED BY <2>1, <2>2 DEF Low
<1>6. Symbolic!OrByte(e, c) = Symbolic!OrByte(t, c)
  BY <1>3, <1>4, ByteLow
<1>7. ~Symbolic!HasDigit(e, 1)
  BY <1>3, LowDigit DEF Byte
<1>8. Symbolic!OrByte(e, c) = e + c
  <2>1. CASE c = 0
    BY <2>1, OrNothing DEF Byte
  <2>2. CASE c = 1
    BY <2>2, <1>7, OrAbsent, WeightNumbers
  <2> QED BY <2>1, <2>2
<1>9. Symbolic!HasDigit(n, 128) <=> n >= 128
  BY HighDigit
<1>10. 256 * (IF Symbolic!HasDigit(n, 128) THEN 1 ELSE 0) + ((2 * n) % 256) = 2 * n
  <2>1. (2 * n) % 256 = IF n >= 128 THEN 2 * n - 256 ELSE 2 * n
    BY <1>1
  <2>2. PICK r \in Int : r = (2 * n) % 256
    BY <1>1
  <2>3. 256 * (IF Symbolic!HasDigit(n, 128) THEN 1 ELSE 0) + r = 2 * n
    BY <1>1, <1>9, <2>1, <2>2
  <2> QED BY <1>1, <2>2, <2>3
<1>11. Low(Symbolic!BitOr(t, c)) = ((2 * n) % 256) + c
  BY <1>2, <1>3, <1>5, <1>6, <1>8
<1> QED BY <1>2, <1>10, <1>11

LEMMA RotatedRight ==
  ASSUME NEW n \in Byte, NEW c \in {0, 1}
  PROVE  /\ Low(Symbolic!BitOr(Wrap(n) \div 2, 128 * c)) = n \div 2 + 128 * c
         /\ 2 * (n \div 2) + (IF Symbolic!HasDigit(n, 1) THEN 1 ELSE 0) = n
<1>1. n \in Int /\ 0 <= n /\ n <= 255
  BY DEF Byte
<1>2. PICK h \in Byte : h = n \div 2 /\ h = Wrap(n) \div 2 /\ h <= 127
  BY <1>1 DEF Wrap, Byte
<1>3. 128 * c \in Int /\ h \in Int
  BY <1>2 DEF Byte
<1>4. Low(Symbolic!BitOr(h, 128 * c)) = Symbolic!OrByte(h, 128 * c)
  BY <1>3, OrByBytes DEF Low
<1>5. ~Symbolic!HasDigit(h, 128)
  BY <1>2, HighDigit DEF Byte
<1>6. Symbolic!OrByte(h, 128 * c) = h + 128 * c
  <2>1. CASE c = 0
    BY <2>1, OrNothing DEF Byte
  <2>2. CASE c = 1
    BY <2>2, <1>5, OrAbsent, WeightNumbers
  <2> QED BY <2>1, <2>2
<1>7. Symbolic!HasDigit(n, 1) <=> n % 2 = 1
  BY <1>1, LowDigit
<1>8. 2 * (n \div 2) + (IF Symbolic!HasDigit(n, 1) THEN 1 ELSE 0) = n
  BY <1>1, <1>7
<1> QED BY <1>2, <1>4, <1>6, <1>8

\* What ShiftAccumulator leaves in the accumulator and in the carry.
LEMMA AccumulatorShifts ==
  ASSUME NEW m, ConcreteOK(m), m.exit = 0, NEW name \in ShiftNames,
         NEW o, o = Concrete!Emulator!ShiftAccumulator(m, name)
  PROVE  /\ o.a = Low(Concrete!Emulator!Shifted(m, name, m.a).new)
         /\ o.C = Concrete!Emulator!HasBit(m.a, Concrete!Emulator!Shifted(m, name, m.a).bit)
<1> DEFINE s  == Concrete!Emulator!Shifted(m, name, m.a)
           h  == Concrete!Emulator!HasBit(m.a, s.bit)
           m1 == Concrete!assign(m, "C", h)
           m2 == Concrete!Emulator!Load(m1, "a", s.new)
<1>1. o = m2
  BY Zenon DEF Concrete!Emulator!ShiftAccumulator
<1>2. "a" \in DOMAIN m /\ "C" \in DOMAIN m /\ "exit" \in DOMAIN m
  BY DEF ConcreteOK, Register, Flag, Fields
<1> HIDE DEF s, h, m1, m2
<1>3. Differ(m, m1, {"C"}) /\ m1.C = h
  <2>1. Differ(m, m1, {"C"}) /\ m1["C"] = IF "C" \in Flag THEN h ELSE Low(h)
    BY Zenon, <1>2, Assigned DEF m1
  <2> QED BY Zenon, <2>1, FlagNames
<1>4. m1.exit = 0 /\ "a" \in DOMAIN m1 /\ "exit" \in DOMAIN m1 /\ "C" \in DOMAIN m1
  BY <1>2, <1>3 DEF Differ
<1>5. Differ(m1, m2, {"a", "S", "Z"}) /\ m2.a = Low(s.new)
  BY Zenon, <1>4, Loaded, RegisterNames DEF m2
<1>6. m2.C = h
  BY <1>3, <1>4, <1>5 DEF Differ
<1> QED BY Zenon, <1>1, <1>5, <1>6 DEF s, h

LEMMA RotateRight ==
  ASSUME NEW m, ConcreteOK(m), m.exit = 0,
         NEW o, o = Concrete!Emulator!ShiftAccumulator(m, "RORA")
  PROVE  2 * o.a + Carry(o) = m.a + 256 * Carry(m)
<1>1. m.a \in Byte /\ m.C \in BOOLEAN
  BY DEF ConcreteOK, Register, Flag
<1>2. PICK c \in {0, 1} : c = Carry(m)
  BY DEF Carry
<1>3. Concrete!Emulator!Pick(m.C, 128) = 128 * c
  BY <1>1, <1>2 DEF Carry, Concrete!Emulator!Pick, Concrete!ite, Concrete!int, Concrete!Wrap
<1>4. Concrete!Emulator!Shifted(m, "RORA", m.a)
        = [bit |-> 1, new |-> Concrete!|(Concrete!shr(m.a), Concrete!Emulator!Pick(m.C, 128))]
  BY Zenon DEF Concrete!Emulator!Shifted
<1>5. /\ o.a = Low(Concrete!|(Concrete!shr(m.a), Concrete!Emulator!Pick(m.C, 128)))
      /\ o.C = Concrete!Emulator!HasBit(m.a, 1)
  BY <1>4, AccumulatorShifts DEF ShiftNames
<1>6. o.a = Low(Symbolic!BitOr(Wrap(m.a) \div 2, 128 * c))
  BY <1>3, <1>5, SameOperators, SameNumbers DEF Concrete!|, Concrete!shr
<1>7. o.a = m.a \div 2 + 128 * c
  BY <1>1, <1>6, RotatedRight
<1>8. o.C <=> Symbolic!HasDigit(m.a, 1)
  BY <1>1, <1>5, HasBitDigit, WeightNumbers DEF Byte
<1>9. Carry(o) = IF Symbolic!HasDigit(m.a, 1) THEN 1 ELSE 0
  BY <1>8 DEF Carry
<1>10. PICK n \in Byte : n = m.a
  BY <1>1
<1>11. 2 * (n \div 2) + (IF Symbolic!HasDigit(n, 1) THEN 1 ELSE 0) = n
  BY RotatedRight
<1>12. PICK h \in Int : h = n \div 2
  BY DEF Byte
<1>13. PICK k \in Int : k = Carry(o)
  BY <1>9
<1>14. o.a = h + 128 * c
  BY <1>7, <1>10, <1>12
<1>15. 2 * h + k = n
  BY <1>9, <1>10, <1>11, <1>12, <1>13
<1> QED BY <1>2, <1>10, <1>13, <1>14, <1>15 DEF Byte

LEMMA RotateLeft ==
  ASSUME NEW m, ConcreteOK(m), m.exit = 0,
         NEW o, o = Concrete!Emulator!ShiftAccumulator(m, "ROLA")
  PROVE  256 * Carry(o) + o.a = 2 * m.a + Carry(m)
<1>1. m.a \in Byte /\ m.C \in BOOLEAN
  BY DEF ConcreteOK, Register, Flag
<1>2. PICK c \in {0, 1} : c = Carry(m)
  BY DEF Carry
<1>3. Concrete!Emulator!Carry(m) = c
  BY <1>1, <1>2 DEF Carry, Concrete!Emulator!Carry, Concrete!ite, Concrete!constant, Concrete!Wrap
<1>4. Concrete!Emulator!Shifted(m, "ROLA", m.a)
        = [bit |-> 128, new |-> Concrete!|(Concrete!shl(m.a), Concrete!Emulator!Carry(m))]
  BY Zenon DEF Concrete!Emulator!Shifted
<1>5. /\ o.a = Low(Concrete!|(Concrete!shl(m.a), Concrete!Emulator!Carry(m)))
      /\ o.C = Concrete!Emulator!HasBit(m.a, 128)
  BY <1>4, AccumulatorShifts DEF ShiftNames
<1>6. o.a = Low(Symbolic!BitOr(Wrap(2 * Wrap(m.a)), c))
  BY <1>3, <1>5, SameOperators, SameNumbers DEF Concrete!|, Concrete!shl
<1>7. o.a = ((2 * m.a) % 256) + c
  BY <1>1, <1>6, RotatedLeft
<1>8. o.C <=> Symbolic!HasDigit(m.a, 128)
  BY <1>1, <1>5, HasBitDigit, WeightNumbers DEF Byte
<1>9. Carry(o) = IF Symbolic!HasDigit(m.a, 128) THEN 1 ELSE 0
  BY <1>8 DEF Carry
<1>10. PICK n \in Byte : n = m.a
  BY <1>1
<1>11. 256 * (IF Symbolic!HasDigit(n, 128) THEN 1 ELSE 0) + ((2 * n) % 256) = 2 * n
  BY RotatedLeft
<1>12. PICK r \in Int : r = (2 * n) % 256
  BY DEF Byte
<1>13. PICK k \in Int : k = Carry(o)
  BY <1>9
<1>14. o.a = r + c
  BY <1>7, <1>10, <1>12
<1>15. 256 * k + r = 2 * n
  BY <1>9, <1>10, <1>11, <1>12, <1>13 DEF Byte
<1> QED BY <1>2, <1>10, <1>13, <1>14, <1>15 DEF Byte

LEMMA StepArithmetic ==
  ASSUME IInv, rnd.exit = 0, NEW ins \in Known, Step(ins),
         NEW value, value = Concrete!Emulator!immediateVar(rnd, ins), NEW c, c = Carry(rnd)
  PROVE  /\ ins.name = "ADC" =>
              /\ 256 * Carry(rnd') + rnd'.a = rnd.a + value + c
              /\ rnd'.V <=> Signed(rnd.a) + Signed(value) + c \notin -128 .. 127
         /\ ins.name = "SBC" =>
              /\ 256 * Carry(rnd') + rnd'.a = 256 + rnd.a - value - (1 - c)
              /\ rnd'.V <=> Signed(rnd.a) - Signed(value) - (1 - c) \notin -128 .. 127
         /\ ins.name = "ROLA" => 256 * Carry(rnd') + rnd'.a = 2 * rnd.a + c
         /\ ins.name = "RORA" => 2 * rnd'.a + Carry(rnd') = rnd.a + 256 * c
<1> DEFINE adr == Concrete!Emulator!absoluteVar(rnd, ins)
<1>1. ConcreteOK(rnd)
  BY Zenon, MachinesOK
<1>2. rnd' = Concrete!Emulator!Execute(rnd, ins.name, adr, value)
  BY Zenon DEF Step, Concrete!Emulator!Run
<1> HIDE DEF adr
<1>3. value \in Byte
  <2>1. Both(FALSE, rnd, abs)
    BY Zenon, BothWeaker DEF IInv
  <2>2. OperandOK(ins)
    BY Zenon, KnownInstructions DEF KnownOK
  <2> QED BY Zenon, <2>1, <2>2, ImmediateVal DEF ByteVal
<1>4. ASSUME ins.name = "ADC"
      PROVE  rnd' = Concrete!Emulator!Add(rnd, value)
  BY Zenon, <1>2, <1>4 DEF Concrete!Emulator!Execute, Concrete!Emulator!Branches
<1>5. ASSUME ins.name = "SBC"
      PROVE  rnd' = Concrete!Emulator!Add(rnd, Concrete!byteVar(Concrete!^^(value, Concrete!int(255))))
  BY Zenon, <1>2, <1>5 DEF Concrete!Emulator!Execute, Concrete!Emulator!Branches
<1>6. ASSUME ins.name = "ROLA"
      PROVE  rnd' = Concrete!Emulator!ShiftAccumulator(rnd, "ROLA")
  BY Zenon, <1>2, <1>6 DEF Concrete!Emulator!Execute, Concrete!Emulator!Branches
<1>7. ASSUME ins.name = "RORA"
      PROVE  rnd' = Concrete!Emulator!ShiftAccumulator(rnd, "RORA")
  BY Zenon, <1>2, <1>7 DEF Concrete!Emulator!Execute, Concrete!Emulator!Branches
<1>8. ASSUME ins.name = "ADC"
      PROVE  /\ 256 * Carry(rnd') + rnd'.a = rnd.a + value + c
             /\ rnd'.V <=> Signed(rnd.a) + Signed(value) + c \notin -128 .. 127
  BY <1>1, <1>3, <1>4, <1>8, AddRight
<1>9. ASSUME ins.name = "SBC"
      PROVE  /\ 256 * Carry(rnd') + rnd'.a = 256 + rnd.a - value - (1 - c)
             /\ rnd'.V <=> Signed(rnd.a) - Signed(value) - (1 - c) \notin -128 .. 127
  BY <1>1, <1>3, <1>5, <1>9, SbcRight
<1>10. ASSUME ins.name = "ROLA"
       PROVE  256 * Carry(rnd') + rnd'.a = 2 * rnd.a + c
  BY Zenon, <1>1, <1>6, <1>10, RotateLeft
<1>11. ASSUME ins.name = "RORA"
       PROVE  2 * rnd'.a + Carry(rnd') = rnd.a + 256 * c
  BY <1>1, <1>7, <1>11, RotateRight
<1> QED BY Zenon, <1>8, <1>9, <1>10, <1>11

\* Sums, differences and rotations are those of the integers, for every byte
\* and carry, whatever has been run.
THEOREM SumsAreRight == Spec => ArithmeticIsRight
<1>1. IInv /\ [Next]_vars =>
        [rnd.exit = 0 =>
          LET ins   == Last(ran')
              value == Concrete!Emulator!immediateVar(rnd, ins)
              c     == Carry(rnd)
          IN  /\ ins.name = "ADC" =>
                   /\ 256 * Carry(rnd') + rnd'.a = rnd.a + value + c
                   /\ rnd'.V <=> Signed(rnd.a) + Signed(value) + c \notin -128 .. 127
              /\ ins.name = "SBC" =>
                   /\ 256 * Carry(rnd') + rnd'.a = 256 + rnd.a - value - (1 - c)
                   /\ rnd'.V <=> Signed(rnd.a) - Signed(value) - (1 - c) \notin -128 .. 127
              /\ ins.name = "ROLA" => 256 * Carry(rnd') + rnd'.a = 2 * rnd.a + c
              /\ ins.name = "RORA" => 2 * rnd'.a + Carry(rnd') = rnd.a + 256 * c
        ]_vars
  <2> SUFFICES ASSUME IInv, Next, rnd.exit = 0
               PROVE  LET ins   == Last(ran')
                          value == Concrete!Emulator!immediateVar(rnd, ins)
                          c     == Carry(rnd)
                      IN  /\ ins.name = "ADC" =>
                               /\ 256 * Carry(rnd') + rnd'.a = rnd.a + value + c
                               /\ rnd'.V <=> Signed(rnd.a) + Signed(value) + c \notin -128 .. 127
                          /\ ins.name = "SBC" =>
                               /\ 256 * Carry(rnd') + rnd'.a = 256 + rnd.a - value - (1 - c)
                               /\ rnd'.V <=> Signed(rnd.a) - Signed(value) - (1 - c) \notin -128 .. 127
                          /\ ins.name = "ROLA" => 256 * Carry(rnd') + rnd'.a = 2 * rnd.a + c
                          /\ ins.name = "RORA" => 2 * rnd'.a + Carry(rnd') = rnd.a + 256 * c
    BY Zenon
  <2>1. PICK ins \in Program(ran) \cap Known : Step(ins)
    BY Zenon DEF Next
  <2>2. Last(ran') = ins
    <3>1. IsSequence(ran) /\ ran' = Append(ran, ins)
      BY Zenon, <2>1 DEF IInv, IsSequence, Step
    <3>2. Len(ran') = Len(ran) + 1 /\ ran'[Len(ran) + 1] = ins
      BY Zenon, <3>1, SequenceGrows
    <3> QED BY <3>2 DEF Last
  <2> QED BY <2>1, <2>2, StepArithmetic
<1> QED BY <1>1, Invariant, PTL DEF Spec, ArithmeticIsRight

-----------------------------------------------------------------------------
(* What a push leaves on the stack comes back.                             *)

DigitsOf(n) == {w \in Symbolic!Weight : Symbolic!HasDigit(n, w)}

\* A sum of digits has the digits it is made of.
LEMMA SumDigits ==
  ASSUME NEW D \in SUBSET Symbolic!Weight, NEW x \in Int,
         x = (IF 1 \in D THEN 1 ELSE 0) + (IF 2 \in D THEN 2 ELSE 0)
             + (IF 4 \in D THEN 4 ELSE 0) + (IF 8 \in D THEN 8 ELSE 0)
             + (IF 16 \in D THEN 16 ELSE 0) + (IF 32 \in D THEN 32 ELSE 0)
             + (IF 64 \in D THEN 64 ELSE 0) + (IF 128 \in D THEN 128 ELSE 0)
  PROVE  DigitsOf(x) = D
<1>1. Symbolic!HasDigit(x, 1) <=> 1 \in D
  BY DEF Symbolic!HasDigit
<1>2. Symbolic!HasDigit(x, 2) <=> 2 \in D
  BY DEF Symbolic!HasDigit
<1>3. Symbolic!HasDigit(x, 4) <=> 4 \in D
  BY DEF Symbolic!HasDigit
<1>4. Symbolic!HasDigit(x, 8) <=> 8 \in D
  BY DEF Symbolic!HasDigit
<1>5. Symbolic!HasDigit(x, 16) <=> 16 \in D
  BY DEF Symbolic!HasDigit
<1>6. Symbolic!HasDigit(x, 32) <=> 32 \in D
  BY DEF Symbolic!HasDigit
<1>7. Symbolic!HasDigit(x, 64) <=> 64 \in D
  BY DEF Symbolic!HasDigit
<1>8. Symbolic!HasDigit(x, 128) <=> 128 \in D
  BY DEF Symbolic!HasDigit
<1>9. \A v \in Symbolic!Weight : Symbolic!HasDigit(x, v) <=> v \in D
  BY <1>1, <1>2, <1>3, <1>4, <1>5, <1>6, <1>7, <1>8 DEF Symbolic!Weight
<1> QED BY <1>9 DEF DigitsOf

LEMMA OrDigits ==
  ASSUME NEW n \in Int, NEW k \in Int
  PROVE  DigitsOf(Symbolic!BitOr(n, k)) = DigitsOf(n) \cup DigitsOf(k)
<1> DEFINE D == DigitsOf(n) \cup DigitsOf(k)
<1>1. PICK x \in Byte : x = Symbolic!OrByte(n, k)
  BY ByteRange
<1>2. PICK p \in Int : p = Symbolic!BitOr(n, k)
  BY BitRange
<1>3. p % 256 = x
  BY <1>1, <1>2, OrByBytes
<1>4. \A v \in Symbolic!Weight : v \in D <=> Symbolic!HasDigit(n, v) \/ Symbolic!HasDigit(k, v)
  BY DEF DigitsOf
<1>5. D \in SUBSET Symbolic!Weight
  BY DEF DigitsOf
<1> HIDE DEF D
<1>6. x = (IF 1 \in D THEN 1 ELSE 0) + (IF 2 \in D THEN 2 ELSE 0)
          + (IF 4 \in D THEN 4 ELSE 0) + (IF 8 \in D THEN 8 ELSE 0)
          + (IF 16 \in D THEN 16 ELSE 0) + (IF 32 \in D THEN 32 ELSE 0)
          + (IF 64 \in D THEN 64 ELSE 0) + (IF 128 \in D THEN 128 ELSE 0)
  BY <1>1, <1>4, WeightNumbers, OrSum
<1>7. x \in Int
  BY DEF Byte
<1>8. DigitsOf(x) = D
  BY <1>5, <1>6, <1>7, SumDigits
<1>9. \A v \in Symbolic!Weight : Symbolic!HasDigit(p, v) <=> Symbolic!HasDigit(x, v)
  BY <1>3, ByteDigits DEF Symbolic!Weight
<1>10. DigitsOf(p) = DigitsOf(x)
  BY Zenon, <1>9 DEF DigitsOf
<1> QED BY <1>2, <1>8, <1>10 DEF D

\* A flag in a word of digits.
LEMMA PickDigit ==
  ASSUME NEW b \in BOOLEAN, NEW k \in Symbolic!Weight
  PROVE  /\ Concrete!Emulator!Pick(b, k) \in Int
         /\ DigitsOf(Concrete!Emulator!Pick(b, k)) = IF b THEN {k} ELSE {}
<1>1. k \in Int /\ Wrap(k) = k /\ Wrap(0) = 0
  BY DEF Symbolic!Weight, Wrap
<1>2. Concrete!Emulator!Pick(b, k) = IF b THEN k ELSE 0
  BY <1>1, SameNumbers DEF Concrete!Emulator!Pick, Concrete!ite, Concrete!int
<1>3. DigitsOf(k) = {k} /\ DigitsOf(0) = {}
  BY WeightDigits, NoDigits DEF DigitsOf
<1> QED BY <1>1, <1>2, <1>3

\* Where PHP and PLP keep a flag.
FlagWeight == [S |-> 128, V |-> 64, D |-> 8, I |-> 4, Z |-> 2, C |-> 1]

LEMMA FlagWeights ==
  /\ \A f \in Flag : FlagWeight[f] \in Symbolic!Weight
  /\ FlagWeight["S"] = 128 /\ FlagWeight["V"] = 64 /\ FlagWeight["D"] = 8
  /\ FlagWeight["I"] = 4 /\ FlagWeight["Z"] = 2 /\ FlagWeight["C"] = 1
BY DEF FlagWeight, Flag, Symbolic!Weight

LEMMA FlagDigits ==
  ASSUME NEW m, ConcreteOK(m), NEW p, p = Concrete!Emulator!P(m)
  PROVE  /\ p \in Int
         /\ \A f \in Flag : Symbolic!HasDigit(p, FlagWeight[f]) <=> m[f]
<1>1. /\ m.S \in BOOLEAN /\ m.V \in BOOLEAN /\ m.D \in BOOLEAN
      /\ m.I \in BOOLEAN /\ m.Z \in BOOLEAN /\ m.C \in BOOLEAN
  BY Zenon, FlagNames DEF ConcreteOK
<1> DEFINE s == Concrete!Emulator!Pick(m.S, 128)
           v == Concrete!Emulator!Pick(m.V, 64)
           d == Concrete!Emulator!Pick(m.D, 8)
           i == Concrete!Emulator!Pick(m.I, 4)
           z == Concrete!Emulator!Pick(m.Z, 2)
           c == Concrete!Emulator!Pick(m.C, 1)
           o(x, y) == Symbolic!BitOr(x, y)
<1>2. /\ s \in Int /\ DigitsOf(s) = IF m.S THEN {128} ELSE {}
      /\ v \in Int /\ DigitsOf(v) = IF m.V THEN {64} ELSE {}
      /\ d \in Int /\ DigitsOf(d) = IF m.D THEN {8} ELSE {}
      /\ i \in Int /\ DigitsOf(i) = IF m.I THEN {4} ELSE {}
      /\ z \in Int /\ DigitsOf(z) = IF m.Z THEN {2} ELSE {}
      /\ c \in Int /\ DigitsOf(c) = IF m.C THEN {1} ELSE {}
  <2>1. s \in Int /\ DigitsOf(s) = IF m.S THEN {128} ELSE {}
    <3>1. 128 \in Symbolic!Weight
      BY WeightNumbers
    <3> QED BY Zenon, <1>1, <3>1, PickDigit
  <2>2. v \in Int /\ DigitsOf(v) = IF m.V THEN {64} ELSE {}
    <3>1. 64 \in Symbolic!Weight
      BY WeightNumbers
    <3> QED BY Zenon, <1>1, <3>1, PickDigit
  <2>3. d \in Int /\ DigitsOf(d) = IF m.D THEN {8} ELSE {}
    <3>1. 8 \in Symbolic!Weight
      BY WeightNumbers
    <3> QED BY Zenon, <1>1, <3>1, PickDigit
  <2>4. i \in Int /\ DigitsOf(i) = IF m.I THEN {4} ELSE {}
    <3>1. 4 \in Symbolic!Weight
      BY WeightNumbers
    <3> QED BY Zenon, <1>1, <3>1, PickDigit
  <2>5. z \in Int /\ DigitsOf(z) = IF m.Z THEN {2} ELSE {}
    <3>1. 2 \in Symbolic!Weight
      BY WeightNumbers
    <3> QED BY Zenon, <1>1, <3>1, PickDigit
  <2>6. c \in Int /\ DigitsOf(c) = IF m.C THEN {1} ELSE {}
    <3>1. 1 \in Symbolic!Weight
      BY WeightNumbers
    <3> QED BY Zenon, <1>1, <3>1, PickDigit
  <2> QED BY Zenon, <2>1, <2>2, <2>3, <2>4, <2>5, <2>6
<1>3. p = o(o(o(o(o(s, v), d), i), z), c)
  BY SameOperators DEF Concrete!Emulator!P, Concrete!|
<1> HIDE DEF s, v, d, i, z, c
<1>4. PICK p1 \in Int : p1 = o(s, v)
  BY <1>2, BitRange
<1>5. PICK p2 \in Int : p2 = o(p1, d)
  BY <1>2, BitRange
<1>6. PICK p3 \in Int : p3 = o(p2, i)
  BY <1>2, BitRange
<1>7. PICK p4 \in Int : p4 = o(p3, z)
  BY <1>2, BitRange
<1>8. p \in Int /\ p = o(p4, c)
  BY <1>2, <1>3, <1>4, <1>5, <1>6, <1>7, BitRange
<1>9. /\ DigitsOf(p1) = DigitsOf(s) \cup DigitsOf(v)
      /\ DigitsOf(p2) = DigitsOf(p1) \cup DigitsOf(d)
      /\ DigitsOf(p3) = DigitsOf(p2) \cup DigitsOf(i)
      /\ DigitsOf(p4) = DigitsOf(p3) \cup DigitsOf(z)
      /\ DigitsOf(p) = DigitsOf(p4) \cup DigitsOf(c)
  BY <1>2, <1>4, <1>5, <1>6, <1>7, <1>8, OrDigits
<1>10. DigitsOf(p) = DigitsOf(s) \cup DigitsOf(v) \cup DigitsOf(d) \cup DigitsOf(i)
                       \cup DigitsOf(z) \cup DigitsOf(c)
  BY Zenon, <1>9
<1>11. /\ 128 \in DigitsOf(p) <=> m.S
       /\ 64 \in DigitsOf(p) <=> m.V
       /\ 8 \in DigitsOf(p) <=> m.D
       /\ 4 \in DigitsOf(p) <=> m.I
       /\ 2 \in DigitsOf(p) <=> m.Z
       /\ 1 \in DigitsOf(p) <=> m.C
  BY <1>1, <1>2, <1>10
<1>12. \A f \in Flag : FlagWeight[f] \in DigitsOf(p) <=> m[f]
  BY <1>11, FlagWeights DEF Flag
<1>13. \A f \in Flag : FlagWeight[f] \in DigitsOf(p) <=> Symbolic!HasDigit(p, FlagWeight[f])
  BY Zenon, FlagWeights DEF DigitsOf
<1> QED BY Zenon, <1>8, <1>12, <1>13

LEMMA DifferMore ==
  ASSUME NEW m, NEW n, NEW F, NEW G, F \subseteq G, Differ(m, n, F)
  PROVE  Differ(m, n, G)
BY DEF Differ

\* What is read depends on nothing but the memory.
LEMMA SameReads ==
  ASSUME NEW m, MemoryOK(m.written),
         NEW n, n.written = m.written, n.seed = m.seed, n.init = m.init, NEW a
  PROVE  Concrete!read(n, a) = Concrete!read(m, a)
<1> DEFINE k == Concrete!Wrap(a)
           p == m.written
<1>1. \A i, j \in DOMAIN p : p[i][1] = p[j][1] => i = j
  BY Zenon DEF MemoryOK
<1>2. \A i \in DOMAIN p : i # 0
  <2>1. p \in Seq(Words \X Byte)
    BY Zenon DEF MemoryOK
  <2> QED BY <2>1
<1>3. \/ /\ Concrete!Find(m, k) = 0
         /\ \A i \in DOMAIN p : p[i][1] # k
      \/ /\ Concrete!Find(m, k) \in DOMAIN p
         /\ p[Concrete!Find(m, k)][1] = k
  BY Zenon, FindOf
<1>4. \/ /\ Concrete!Find(n, k) = 0
         /\ \A i \in DOMAIN p : p[i][1] # k
      \/ /\ Concrete!Find(n, k) \in DOMAIN p
         /\ p[Concrete!Find(n, k)][1] = k
  <2> DEFINE q == n.written
  <2>1. q = p /\ MemoryOK(q)
    BY Zenon
  <2>2. \/ /\ Concrete!Find(n, k) = 0
           /\ \A i \in DOMAIN q : q[i][1] # k
        \/ /\ Concrete!Find(n, k) \in DOMAIN q
           /\ q[Concrete!Find(n, k)][1] = k
    BY Zenon, <2>1, FindOf
  <2> HIDE DEF q
  <2> QED BY Zenon, <2>1, <2>2
<1>5. Concrete!Find(n, k) = Concrete!Find(m, k)
  BY Zenon, <1>1, <1>2, <1>3, <1>4
<1> QED BY Zenon, <1>5 DEF Concrete!read

\* The written pairs are the graph of a memory.
LEMMA MemoryOf ==
  ASSUME NEW m, MemoryOK(m.written)
  PROVE  \E g : SameMemory(m.written, g)
<1> DEFINE p == m.written
           g == [w \in {p[j][1] : j \in DOMAIN p} |-> p[Concrete!Find(m, w)][2]]
<1>1. \A j, k \in DOMAIN p : p[j][1] = p[k][1] => j = k
  BY Zenon DEF MemoryOK
<1>2. \A j \in DOMAIN p : g[p[j][1]] = p[j][2]
  <2> TAKE j \in DOMAIN p
  <2>1. Concrete!Find(m, p[j][1]) \in DOMAIN p /\ p[Concrete!Find(m, p[j][1])][1] = p[j][1]
    BY Zenon, FindOf
  <2>2. Concrete!Find(m, p[j][1]) = j
    BY Zenon, <1>1, <2>1
  <2> QED BY Zenon, <2>2
<1>3. DOMAIN g = {p[j][1] : j \in DOMAIN p}
  BY Zenon
<1> HIDE DEF g
<1> QED BY Zenon, <1>2, <1>3 DEF SameMemory

\* What was written last to an address is read there.
LEMMA WriteRead ==
  ASSUME NEW m, ConcreteOK(m), m.exit = 0, NEW a \in Words, NEW b \in Byte,
         NEW n, n = Concrete!write(m, a, b)
  PROVE  Differ(m, n, {"written"}) /\ Concrete!read(n, a) = b
<1>1. MemoryOK(m.written) /\ "written" \in DOMAIN m
  BY Zenon DEF ConcreteOK
<1>2. a \in Int /\ b \in Int /\ Wrap(a) = a /\ Low(b) = b
  BY Zenon, WordNumbers, ByteNumbers
<1> DEFINE q == WrittenBy(m, a, b)
<1>3. WritesPair(m.written, q, a, b) /\ n = [m EXCEPT !["written"] = q]
  <2>1. /\ WritesPair(m.written, q, Wrap(a), Low(b))
        /\ Concrete!write(m, a, b) = IF m.exit # 0 THEN m ELSE [m EXCEPT !["written"] = q]
    BY Zenon, <1>1, <1>2, WritesOne
  <2> HIDE DEF q
  <2> QED BY Zenon, <1>2, <2>1
<1> HIDE DEF q
<1>4. n.written = q /\ Differ(m, n, {"written"})
  BY <1>1, <1>3 DEF Differ
<1>5. PICK g : SameMemory(m.written, g)
  BY Zenon, <1>1, MemoryOf
<1>6. SameMemory(q, Stored(g, a, b)) /\ MemoryOK(q)
  BY Zenon, <1>3, <1>5 DEF WritesPair
<1>7. a \in DOMAIN Stored(g, a, b) /\ Stored(g, a, b)[a] = b
  BY Zenon DEF Stored
<1>8. Concrete!read(n, a) = Stored(g, a, b)[a]
  BY Zenon, <1>4, <1>6, <1>7, ReadsBack
<1> QED BY Zenon, <1>4, <1>7, <1>8

Quiet == (SetFlag \cup Shift \cup Registers) \ {"TXS"}

Pushed(m, name) == IF name = "PHA" THEN m.a ELSE Low(Concrete!Emulator!P(m))

\* What has become n since m ran the instruction name has what it pushed.
OnStack(m, name, n) ==
    /\ m.exit # 0 => n = m
    /\ m.exit = 0 => /\ n.exit = 0
                     /\ n.sp = Low(m.sp - 1)
                     /\ Concrete!read(n, Concrete!Emulator!Stack(m)) = Pushed(m, name)

LEMMA StackAddress ==
  ASSUME NEW m, ConcreteOK(m)
  PROVE  /\ m.sp \in Byte /\ Concrete!Emulator!Stack(m) = m.sp + 256
         /\ Concrete!Emulator!Stack(m) \in Words
<1>1. m.sp \in Byte
  BY Zenon, RegisterNames DEF ConcreteOK
<1>2. Concrete!Emulator!Stack(m) = m.sp + 256
  BY <1>1 DEF Concrete!Emulator!Stack, Concrete!extend, Concrete!++, Concrete!int, Concrete!Low, Byte
<1>3. m.sp + 256 \in Int /\ 0 <= m.sp + 256 /\ m.sp + 256 <= 65535
  BY <1>1 DEF Byte
<1> QED BY <1>1, <1>2, <1>3, WordRange

LEMMA PushedByte ==
  ASSUME NEW m, ConcreteOK(m), NEW name
  PROVE  Pushed(m, name) \in Byte
<1>1. m.a \in Byte
  BY Zenon, RegisterNames DEF ConcreteOK
<1>2. Low(Concrete!Emulator!P(m)) \in Byte
  BY Zenon, FlagDigits, Truncations
<1> QED BY Zenon, <1>1, <1>2 DEF Pushed

\* A push of any value leaves its byte.
LEMMA PushLeaves ==
  ASSUME NEW m, ConcreteOK(m), m.exit = 0, NEW val \in Int,
         NEW n, n = Concrete!Emulator!Push(m, val)
  PROVE  /\ n.exit = 0 /\ n.sp = Low(m.sp - 1)
         /\ Concrete!read(n, Concrete!Emulator!Stack(m)) = Low(val)
<1> DEFINE a == Concrete!Emulator!Stack(m)
           w == Concrete!write(m, a, val)
           v == Concrete!--(w.sp, Concrete!int(1))
           o == Concrete!assign(w, "sp", v)
<1>1. n = o
  BY Zenon DEF Concrete!Emulator!Push
<1>2. a \in Words /\ a \in Int
  BY Zenon, StackAddress, WordNumbers
<1> HIDE DEF a
<1>3. MemoryOK(m.written) /\ "sp" \in DOMAIN m /\ "exit" \in DOMAIN m
      /\ "written" \in DOMAIN m /\ "seed" \in DOMAIN m /\ "init" \in DOMAIN m
  BY DEF ConcreteOK, Register, Fields, Given
<1>4. Concrete!write(m, a, val) = Concrete!write(m, a, Low(val))
  <2>1. WrittenBy(m, a, val) = WrittenBy(m, a, Low(val))
    <3>1. Concrete!Low(Low(val)) = Concrete!Low(val)
      BY DEF Low, Concrete!Low
    <3> QED BY Zenon, <3>1 DEF WrittenBy
  <2>2. Low(val) \in Int
    BY Zenon, Truncations
  <2>3. /\ Concrete!write(m, a, val)
             = IF m.exit # 0 THEN m ELSE [m EXCEPT !["written"] = WrittenBy(m, a, val)]
        /\ Concrete!write(m, a, Low(val))
             = IF m.exit # 0 THEN m ELSE [m EXCEPT !["written"] = WrittenBy(m, a, Low(val))]
    BY Zenon, <1>2, <1>3, <2>2, WritesOne
  <2> QED BY Zenon, <2>1, <2>3
<1>5. Low(val) \in Byte
  BY Zenon, Truncations
<1>6. Differ(m, w, {"written"}) /\ Concrete!read(w, a) = Low(val)
  <2>1. w = Concrete!write(m, a, Low(val))
    BY Zenon, <1>4
  <2> HIDE DEF w
  <2> QED BY <1>2, <1>5, <2>1, WriteRead
<1>7. MemoryOK(w.written)
  <2>1. WritesPair(m.written, WrittenBy(m, a, val), Wrap(a), Low(val))
    BY Zenon, <1>2, <1>3, WritesOne
  <2>2. w = [m EXCEPT !["written"] = WrittenBy(m, a, val)]
    BY Zenon, <1>2, <1>3, WritesOne
  <2>3. w.written = WrittenBy(m, a, val)
    BY <1>3, <2>2
  <2> QED BY Zenon, <2>1, <2>3 DEF WritesPair
<1> HIDE DEF w
<1>8. w.exit = 0 /\ w.sp = m.sp /\ "sp" \in DOMAIN w /\ "exit" \in DOMAIN w
      /\ "written" \in DOMAIN w /\ "seed" \in DOMAIN w /\ "init" \in DOMAIN w
  BY <1>3, <1>6 DEF Differ
<1> HIDE DEF v
<1>9. Differ(w, o, {"sp"}) /\ o["sp"] = Low(v)
  <2>1. "sp" \notin Flag
    BY DEF Flag
  <2> QED BY Zenon, <1>8, <2>1, Assigned
<1> HIDE DEF o
<1>10. o.exit = 0 /\ o.written = w.written /\ o.seed = w.seed /\ o.init = w.init
  BY <1>8, <1>9 DEF Differ
<1>11. Concrete!read(o, a) = Low(val)
  BY Zenon, <1>6, <1>7, <1>10, SameReads
<1>12. o.sp = Low(m.sp - 1)
  <2>1. v = m.sp - 1
    BY <1>8 DEF v, Concrete!--, Concrete!int
  <2> QED BY Zenon, <1>9, <2>1
<1> QED BY Zenon, <1>1, <1>10, <1>11, <1>12 DEF a

LEMMA PushKept ==
  ASSUME NEW m, ConcreteOK(m), NEW name \in {"PHA", "PHP"}, NEW a, NEW val,
         NEW n, n = Concrete!Emulator!Execute(m, name, a, val), m.exit # 0 => n = m
  PROVE  OnStack(m, name, n)
<1>1. CASE m.exit # 0
  BY Zenon, <1>1 DEF OnStack
<1>2. CASE m.exit = 0
  <2>1. CASE name = "PHA"
    <3>1. n = Concrete!Emulator!Push(m, m.a)
      BY Zenon, <2>1 DEF Concrete!Emulator!Execute, Concrete!Emulator!Branches
    <3>2. m.a \in Byte /\ m.a \in Int /\ Low(m.a) = m.a
      BY Zenon, RegisterNames, ByteNumbers DEF ConcreteOK
    <3> QED BY Zenon, <1>2, <2>1, <3>1, <3>2, PushLeaves DEF OnStack, Pushed
  <2>2. CASE name = "PHP"
    <3>1. n = Concrete!Emulator!Push(m, Concrete!Emulator!P(m))
      BY Zenon, <2>2 DEF Concrete!Emulator!Execute, Concrete!Emulator!Branches
    <3>2. Concrete!Emulator!P(m) \in Int /\ "PHP" # "PHA"
      BY FlagDigits
    <3> QED BY Zenon, <1>2, <2>2, <3>1, <3>2, PushLeaves DEF OnStack, Pushed
  <2> QED BY Zenon, <2>1, <2>2
<1> QED BY Zenon, <1>1, <1>2

\* The fields that a quiet instruction assigns are none of those that a push
\* leaves.
Work == {"a", "x", "y"} \cup Flag

LEMMA WorkKept ==
  ASSUME NEW m, ConcreteOK(m), NEW n, ConcreteOK(n), NEW name, OnStack(m, name, n),
         NEW o, Differ(n, o, Work)
  PROVE  OnStack(m, name, o) \/ m.exit # 0
<1>1. "exit" \in DOMAIN n /\ "sp" \in DOMAIN n /\ "written" \in DOMAIN n
      /\ "seed" \in DOMAIN n /\ "init" \in DOMAIN n
  BY DEF ConcreteOK, Register, Fields, Given
<1>2. "exit" \notin Work /\ "sp" \notin Work /\ "written" \notin Work
      /\ "seed" \notin Work /\ "init" \notin Work
  BY DEF Work, Flag
<1>3. o.exit = n.exit /\ o.sp = n.sp /\ o.written = n.written /\ o.seed = n.seed /\ o.init = n.init
  BY <1>1, <1>2 DEF Differ
<1>4. MemoryOK(n.written)
  BY Zenon DEF ConcreteOK
<1>5. Concrete!read(o, Concrete!Emulator!Stack(m)) = Concrete!read(n, Concrete!Emulator!Stack(m))
  BY Zenon, <1>3, <1>4, SameReads
<1> QED BY Zenon, <1>3, <1>5 DEF OnStack

LEMMA WorkNames ==
  /\ \A f \in Flag : {f} \subseteq Work
  /\ \A r \in {"a", "x", "y"} : r \in Register /\ {r} \subseteq Work /\ {r, "S", "Z"} \subseteq Work
BY DEF Work, Flag, Register

LEMMA DomainOK ==
  ASSUME NEW m, ConcreteOK(m)
  PROVE  /\ "exit" \in DOMAIN m
         /\ \A f \in Flag : f \in DOMAIN m
         /\ \A r \in Register : r \in DOMAIN m
BY Zenon DEF ConcreteOK, Fields

LEMMA AssignedFlag ==
  ASSUME NEW m, m.exit = 0, NEW f \in Flag, f \in DOMAIN m, NEW val
  PROVE  Differ(m, Concrete!assign(m, f, val), {f}) /\ Concrete!assign(m, f, val)[f] = val
BY Assigned

LEMMA AssignedRegister ==
  ASSUME NEW m, m.exit = 0, NEW r \in Register, r \in DOMAIN m, NEW val
  PROVE  Differ(m, Concrete!assign(m, r, val), {r}) /\ Concrete!assign(m, r, val)[r] = Low(val)
<1>1. r \notin Flag
  BY Zenon, FieldNames
<1> QED BY <1>1, Assigned

LEMMA FlagWork ==
  ASSUME NEW m, ConcreteOK(m), m.exit = 0, NEW f \in Flag, NEW val
  PROVE  Differ(m, Concrete!assign(m, f, val), Work)
<1>1. Differ(m, Concrete!assign(m, f, val), {f})
  BY Zenon, DomainOK, Assigned
<1> QED BY Zenon, <1>1, WorkNames, DifferMore

LEMMA LoadWork ==
  ASSUME NEW m, ConcreteOK(m), m.exit = 0, NEW r \in {"a", "x", "y"}, NEW val
  PROVE  Differ(m, Concrete!Emulator!Load(m, r, val), Work)
<1>1. Differ(m, Concrete!Emulator!Load(m, r, val), {r, "S", "Z"})
  BY Zenon, DomainOK, WorkNames, Loaded
<1> QED BY Zenon, <1>1, WorkNames, DifferMore

LEMMA ShiftWork ==
  ASSUME NEW m, ConcreteOK(m), m.exit = 0, NEW name
  PROVE  Differ(m, Concrete!Emulator!ShiftAccumulator(m, name), Work)
<1> DEFINE s  == Concrete!Emulator!Shifted(m, name, m.a)
           m1 == Concrete!assign(m, "C", Concrete!Emulator!HasBit(m.a, s.bit))
           m2 == Concrete!Emulator!Load(m1, "a", s.new)
<1>1. Concrete!Emulator!ShiftAccumulator(m, name) = m2
  BY Zenon DEF Concrete!Emulator!ShiftAccumulator
<1> HIDE DEF s
<1>2. "a" \in DOMAIN m /\ "exit" \in DOMAIN m /\ "C" \in DOMAIN m
  BY Zenon, DomainOK, RegisterNames, FlagNames
<1>3. Differ(m, m1, {"C"})
  BY Zenon, <1>2, FlagNames, AssignedFlag
<1> HIDE DEF m1
<1>4. m1.exit = 0 /\ "a" \in DOMAIN m1 /\ "exit" \in DOMAIN m1
  BY <1>2, <1>3 DEF Differ
<1>5. Differ(m1, m2, {"a", "S", "Z"})
  BY Zenon, <1>4, Loaded, RegisterNames
<1> HIDE DEF m2
<1>6. Differ(m, m2, {"C"} \cup {"a", "S", "Z"})
  BY Zenon, <1>3, <1>5, DifferChain
<1>7. {"C"} \cup {"a", "S", "Z"} \subseteq Work
  BY DEF Work, Flag
<1> QED BY Zenon, <1>1, <1>6, <1>7, DifferMore

LEMMA QuietWork ==
  ASSUME NEW m, ConcreteOK(m), m.exit = 0, NEW name \in Quiet, NEW a, NEW val,
         NEW n, n = Concrete!Emulator!Execute(m, name, a, val)
  PROVE  Differ(m, n, Work)
<1>1. "C" \in Flag /\ "I" \in Flag /\ "V" \in Flag /\ "D" \in Flag
  BY Zenon, FlagNames
<1>2. CASE name \in SetFlag
  <2>1. name \in {"CLC", "CLI", "CLV", "CLD", "SEC", "SEI", "SED"}
    BY <1>2 DEF SetFlag
  <2>2. CASE name = "CLC"
    BY Zenon, <1>1, <2>2, FlagWork DEF Concrete!Emulator!Execute, Concrete!Emulator!Branches
  <2>3. CASE name = "CLI"
    BY Zenon, <1>1, <2>3, FlagWork DEF Concrete!Emulator!Execute, Concrete!Emulator!Branches
  <2>4. CASE name = "CLV"
    BY Zenon, <1>1, <2>4, FlagWork DEF Concrete!Emulator!Execute, Concrete!Emulator!Branches
  <2>5. CASE name = "CLD"
    BY Zenon, <1>1, <2>5, FlagWork DEF Concrete!Emulator!Execute, Concrete!Emulator!Branches
  <2>6. CASE name = "SEC"
    BY Zenon, <1>1, <2>6, FlagWork DEF Concrete!Emulator!Execute, Concrete!Emulator!Branches
  <2>7. CASE name = "SEI"
    BY Zenon, <1>1, <2>7, FlagWork DEF Concrete!Emulator!Execute, Concrete!Emulator!Branches
  <2>8. CASE name = "SED"
    BY Zenon, <1>1, <2>8, FlagWork DEF Concrete!Emulator!Execute, Concrete!Emulator!Branches
  <2> QED BY Zenon, <2>1, <2>2, <2>3, <2>4, <2>5, <2>6, <2>7, <2>8
<1>3. CASE name \in Shift
  <2>1. name \in {"ASLA", "ROLA", "LSRA", "RORA"}
    BY <1>3 DEF Shift
  <2>2. n = Concrete!Emulator!ShiftAccumulator(m, name)
    BY Zenon, <2>1 DEF Concrete!Emulator!Execute, Concrete!Emulator!Branches
  <2> QED BY Zenon, <2>2, ShiftWork
<1>4. CASE name \in Registers \ {"TXS"}
  <2>1. name \in {"TAX", "TXA", "DEX", "INX", "TAY", "TYA", "DEY", "INY", "TSX"}
    BY <1>4 DEF Registers
  <2>2. CASE name = "TSX"
    <3>1. n = Concrete!assign(m, "x", m.sp)
      BY Zenon, <2>2 DEF Concrete!Emulator!Execute, Concrete!Emulator!Branches
    <3>2. "x" \in Register /\ {"x"} \subseteq Work
      BY DEF Register, Work
    <3>3. "x" \in DOMAIN m
      BY Zenon, <3>2, DomainOK
    <3>4. Differ(m, n, {"x"})
      BY <3>1, <3>2, <3>3, AssignedRegister
    <3> QED BY <3>2, <3>4, DifferMore
  <2>3. CASE name # "TSX"
    <3> DEFINE L(r, v) == Concrete!Emulator!Load(m, r, v)
    <3>1. CASE name = "TAX"
      <4>1. n = L("x", m.a)
        BY Zenon, <3>1 DEF Concrete!Emulator!Execute, Concrete!Emulator!Branches
      <4> QED BY Zenon, <4>1, LoadWork
    <3>2. CASE name = "TXA"
      <4>1. n = L("a", m.x)
        BY Zenon, <3>2 DEF Concrete!Emulator!Execute, Concrete!Emulator!Branches
      <4> QED BY Zenon, <4>1, LoadWork
    <3>3. CASE name = "DEX"
      <4>1. n = L("x", Concrete!--(m.x, Concrete!int(1)))
        BY Zenon, <3>3 DEF Concrete!Emulator!Execute, Concrete!Emulator!Branches
      <4> QED BY Zenon, <4>1, LoadWork
    <3>4. CASE name = "INX"
      <4>1. n = L("x", Concrete!++(m.x, Concrete!int(1)))
        BY Zenon, <3>4 DEF Concrete!Emulator!Execute, Concrete!Emulator!Branches
      <4> QED BY Zenon, <4>1, LoadWork
    <3>5. CASE name = "TAY"
      <4>1. n = L("y", m.a)
        BY Zenon, <3>5 DEF Concrete!Emulator!Execute, Concrete!Emulator!Branches
      <4> QED BY Zenon, <4>1, LoadWork
    <3>6. CASE name = "TYA"
      <4>1. n = L("a", m.y)
        BY Zenon, <3>6 DEF Concrete!Emulator!Execute, Concrete!Emulator!Branches
      <4> QED BY Zenon, <4>1, LoadWork
    <3>7. CASE name = "DEY"
      <4>1. n = L("y", Concrete!--(m.y, Concrete!int(1)))
        BY Zenon, <3>7 DEF Concrete!Emulator!Execute, Concrete!Emulator!Branches
      <4> QED BY Zenon, <4>1, LoadWork
    <3>8. CASE name = "INY"
      <4>1. n = L("y", Concrete!++(m.y, Concrete!int(1)))
        BY Zenon, <3>8 DEF Concrete!Emulator!Execute, Concrete!Emulator!Branches
      <4> QED BY Zenon, <4>1, LoadWork
    <3> HIDE DEF L
    <3> QED BY Zenon, <2>1, <2>3, <3>1, <3>2, <3>3, <3>4, <3>5, <3>6, <3>7, <3>8
  <2> QED BY Zenon, <2>2, <2>3
<1> QED BY Zenon, <1>2, <1>3, <1>4 DEF Quiet

\* An instruction on registers and flags leaves what was pushed.
LEMMA QuietKept ==
  ASSUME NEW m, ConcreteOK(m), NEW n, ConcreteOK(n), NEW name, OnStack(m, name, n),
         NEW q \in Quiet, NEW a, NEW val,
         NEW o, o = Concrete!Emulator!Execute(n, q, a, val), n.exit # 0 => o = n
  PROVE  OnStack(m, name, o)
<1>1. CASE n.exit # 0
  BY Zenon, <1>1
<1>2. CASE n.exit = 0
  <2>1. Differ(n, o, Work)
    BY Zenon, <1>2, QuietWork
  <2>2. OnStack(m, name, o) \/ m.exit # 0
    BY Zenon, <2>1, WorkKept
  <2>3. m.exit = 0
    BY Zenon, <1>2 DEF OnStack
  <2> QED BY Zenon, <2>2, <2>3
<1> QED BY Zenon, <1>1, <1>2

-----------------------------------------------------------------------------
\* A pull finds what was pushed.
LEMMA PulledBack ==
  ASSUME NEW m, ConcreteOK(m), m.exit = 0, NEW n, ConcreteOK(n), NEW name, OnStack(m, name, n),
         NEW o, o = Concrete!Emulator!Pulled(n)
  PROVE  /\ Differ(n, o, {"sp"}) /\ n.exit = 0 /\ o.sp = m.sp
         /\ Concrete!read(o, Concrete!Emulator!Stack(o)) = Pushed(m, name)
<1>1. /\ n.exit = 0 /\ n.sp = Low(m.sp - 1)
      /\ Concrete!read(n, Concrete!Emulator!Stack(m)) = Pushed(m, name)
  BY Zenon DEF OnStack
<1>2. "sp" \in DOMAIN n /\ "exit" \in DOMAIN n /\ "written" \in DOMAIN n
      /\ "seed" \in DOMAIN n /\ "init" \in DOMAIN n /\ MemoryOK(n.written)
  BY DEF ConcreteOK, Register, Fields, Given
<1> DEFINE v == Concrete!++(n.sp, Concrete!int(1))
<1>3. o = Concrete!assign(n, "sp", v)
  BY Zenon DEF Concrete!Emulator!Pulled
<1> HIDE DEF v
<1>4. Differ(n, o, {"sp"}) /\ o["sp"] = Low(v)
  BY <1>1, <1>2, <1>3, RegisterNames, AssignedRegister
<1>5. m.sp \in Byte
  BY Zenon, StackAddress
<1>6. Low(v) = m.sp
  <2>1. v = n.sp + 1
    BY DEF v, Concrete!++, Concrete!int
  <2>2. PICK s \in Byte : s = m.sp
    BY <1>5
  <2>3. ((((s - 1) % 256) + 1) % 256) = s
    BY DEF Byte
  <2> QED BY <1>1, <2>1, <2>2, <2>3 DEF Low
<1>7. Concrete!Emulator!Stack(o) = Concrete!Emulator!Stack(m)
  BY Zenon, <1>4, <1>6 DEF Concrete!Emulator!Stack
<1>8. o.written = n.written /\ o.seed = n.seed /\ o.init = n.init
  BY <1>2, <1>4 DEF Differ
<1>9. Concrete!read(o, Concrete!Emulator!Stack(m)) = Concrete!read(n, Concrete!Emulator!Stack(m))
  BY Zenon, <1>2, <1>8, SameReads
<1> QED BY Zenon, <1>1, <1>4, <1>6, <1>7, <1>9

\* The flags after PLP are the digits of what it pulls.
LEMMA FlagsPulled ==
  ASSUME NEW m, m.exit = 0, "exit" \in DOMAIN m, "sp" \in DOMAIN m, Flag \subseteq DOMAIN m, NEW val,
         NEW o, o = Concrete!Emulator!SetFlags(m, val)
  PROVE  /\ o.sp = m.sp
         /\ \A f \in Flag : o[f] = Concrete!Emulator!HasBit(val, FlagWeight[f])
<1> DEFINE h(f) == Concrete!Emulator!HasBit(val, FlagWeight[f])
           m1 == Concrete!assign(m, "S", h("S"))
           m2 == Concrete!assign(m1, "V", h("V"))
           m3 == Concrete!assign(m2, "D", h("D"))
           m4 == Concrete!assign(m3, "I", h("I"))
           m5 == Concrete!assign(m4, "Z", h("Z"))
           m6 == Concrete!assign(m5, "C", h("C"))
<1>1. o = m6
  BY FlagWeights DEF Concrete!Emulator!SetFlags
<1> HIDE DEF h
<1>2. "S" \in Flag /\ "V" \in Flag /\ "D" \in Flag /\ "I" \in Flag /\ "Z" \in Flag /\ "C" \in Flag
  BY Zenon, FlagNames
<1>3. /\ "S" \in DOMAIN m /\ "V" \in DOMAIN m /\ "D" \in DOMAIN m
      /\ "I" \in DOMAIN m /\ "Z" \in DOMAIN m /\ "C" \in DOMAIN m
  BY Zenon, <1>2
<1>4. Differ(m, m1, {"S"}) /\ m1["S"] = h("S")
  BY Zenon, <1>2, <1>3, AssignedFlag
<1> HIDE DEF m1
<1>5. m1.exit = 0 /\ DOMAIN m1 = DOMAIN m
  BY <1>4 DEF Differ
<1>6. Differ(m1, m2, {"V"}) /\ m2["V"] = h("V")
  BY <1>2, <1>3, <1>5, AssignedFlag
<1> HIDE DEF m2
<1>7. m2.exit = 0 /\ DOMAIN m2 = DOMAIN m
  BY <1>6, <1>5 DEF Differ
<1>8. Differ(m2, m3, {"D"}) /\ m3["D"] = h("D")
  BY <1>2, <1>3, <1>7, AssignedFlag
<1> HIDE DEF m3
<1>9. m3.exit = 0 /\ DOMAIN m3 = DOMAIN m
  BY <1>8, <1>7 DEF Differ
<1>10. Differ(m3, m4, {"I"}) /\ m4["I"] = h("I")
  BY <1>2, <1>3, <1>9, AssignedFlag
<1> HIDE DEF m4
<1>11. m4.exit = 0 /\ DOMAIN m4 = DOMAIN m
  BY <1>10, <1>9 DEF Differ
<1>12. Differ(m4, m5, {"Z"}) /\ m5["Z"] = h("Z")
  BY <1>2, <1>3, <1>11, AssignedFlag
<1> HIDE DEF m5
<1>13. m5.exit = 0 /\ DOMAIN m5 = DOMAIN m
  BY <1>12, <1>11 DEF Differ
<1>14. Differ(m5, m6, {"C"}) /\ m6["C"] = h("C")
  BY <1>2, <1>3, <1>13, AssignedFlag
<1> HIDE DEF m6
<1>15. m6.sp = m.sp
  BY <1>4, <1>5, <1>6, <1>7, <1>8, <1>9, <1>10, <1>11, <1>12, <1>13, <1>14 DEF Differ
<1>16. /\ m6.S = h("S") /\ m6.V = h("V") /\ m6.D = h("D") /\ m6.I = h("I")
       /\ m6.Z = h("Z") /\ m6.C = h("C")
  BY <1>3, <1>4, <1>5, <1>6, <1>7, <1>8, <1>9, <1>10, <1>11, <1>12, <1>13, <1>14 DEF Differ
<1>17. \A f \in Flag : m6[f] = h(f)
  BY Zenon, <1>16 DEF Flag
<1> QED BY Zenon, <1>1, <1>15, <1>17 DEF h

LEMMA FlagsBack ==
  ASSUME NEW m, ConcreteOK(m), NEW v, v = Low(Concrete!Emulator!P(m)), NEW o,
         \A f \in Flag : o[f] = Concrete!Emulator!HasBit(v, FlagWeight[f])
  PROVE  \A f \in Flag : o[f] = m[f]
<1>1. PICK p \in Int : p = Concrete!Emulator!P(m)
  BY FlagDigits
<1>2. v \in Int /\ v = p % 256
  BY <1>1 DEF Low
<1>3. \A w \in Symbolic!Weight : Symbolic!HasDigit(v, w) = Symbolic!HasDigit(p, w)
  BY <1>2, ByteDigits DEF Symbolic!Weight
<1>4. \A w \in Symbolic!Weight : Concrete!Emulator!HasBit(v, w) <=> Symbolic!HasDigit(p, w)
  BY Zenon, <1>2, <1>3, HasBitDigit
<1>5. \A w \in Symbolic!Weight : Concrete!Emulator!HasBit(v, w) \in BOOLEAN
  BY DEF Concrete!Emulator!HasBit, Concrete!\doteq
<1>6. \A f \in Flag : m[f] \in BOOLEAN
  BY Zenon DEF ConcreteOK
<1>7. \A f \in Flag : Symbolic!HasDigit(p, FlagWeight[f]) <=> m[f]
  BY Zenon, <1>1, FlagDigits
<1>8. \A f \in Flag : FlagWeight[f] \in Symbolic!Weight
  BY Zenon, FlagWeights
<1> QED BY Zenon, <1>4, <1>5, <1>6, <1>7, <1>8

GaveBack(m, name, o) ==
    /\ o.sp = m.sp
    /\ name = "PHP" => \A f \in Flag : o[f] = m[f]
    /\ name = "PHA" => o.a = m.a

LEMMA PopBack ==
  ASSUME NEW m, ConcreteOK(m), NEW n, ConcreteOK(n), NEW name \in {"PHA", "PHP"},
         OnStack(m, name, n), NEW a, NEW val,
         NEW o, o = Concrete!Emulator!Execute(n, Pops[name], a, val), n.exit # 0 => o = n
  PROVE  GaveBack(m, name, o)
<1>1. CASE m.exit # 0
  <2>1. o = m
    BY Zenon, <1>1 DEF OnStack
  <2> QED BY Zenon, <2>1 DEF GaveBack
<1>2. CASE m.exit = 0
  <2> DEFINE n1 == Concrete!Emulator!Pulled(n)
             v  == Concrete!read(n1, Concrete!Emulator!Stack(n1))
  <2>1. /\ Differ(n, n1, {"sp"}) /\ n.exit = 0 /\ n1.sp = m.sp
        /\ v = Pushed(m, name)
    BY Zenon, <1>2, PulledBack
  <2>2. /\ "sp" \in DOMAIN n /\ "exit" \in DOMAIN n /\ "a" \in DOMAIN n /\ Flag \subseteq DOMAIN n
    BY DEF ConcreteOK, Register, Fields
  <2>3. CASE name = "PHA"
    <3>1. Pops[name] = "PLA"
      BY <2>3 DEF Pops
    <3>2. o = Concrete!Emulator!Pull(n)
      BY Zenon, <3>1 DEF Concrete!Emulator!Execute, Concrete!Emulator!Branches
    <3>3. o = Concrete!assign(n1, "a", v)
      BY Zenon, <3>2 DEF Concrete!Emulator!Pull
    <3> HIDE DEF n1, v
    <3>4. n1.exit = 0 /\ "a" \in DOMAIN n1 /\ "sp" \in DOMAIN n1
      BY <2>1, <2>2 DEF Differ
    <3>5. Differ(n1, o, {"a"}) /\ o["a"] = Low(v)
      BY Zenon, <3>3, <3>4, RegisterNames, AssignedRegister
    <3>6. o.sp = m.sp
      BY <2>1, <3>4, <3>5 DEF Differ
    <3>7. v = m.a /\ Low(m.a) = m.a
      BY Zenon, <2>1, <2>3, RegisterNames, ByteNumbers DEF Pushed, ConcreteOK
    <3>8. name # "PHP"
      BY <2>3
    <3> QED BY Zenon, <3>5, <3>6, <3>7, <3>8 DEF GaveBack
  <2>4. CASE name = "PHP"
    <3>1. Pops[name] = "PLP" /\ name # "PHA"
      BY <2>4 DEF Pops
    <3>2. o = Concrete!Emulator!PullFlags(n)
      BY Zenon, <3>1 DEF Concrete!Emulator!Execute, Concrete!Emulator!Branches
    <3>3. o = Concrete!Emulator!SetFlags(n1, v)
      BY Zenon, <3>2 DEF Concrete!Emulator!PullFlags
    <3> HIDE DEF n1, v
    <3>4. n1.exit = 0 /\ "exit" \in DOMAIN n1 /\ "sp" \in DOMAIN n1 /\ Flag \subseteq DOMAIN n1
      BY <2>1, <2>2 DEF Differ
    <3>5. /\ o.sp = n1.sp
          /\ \A f \in Flag : o[f] = Concrete!Emulator!HasBit(v, FlagWeight[f])
      BY Zenon, <3>3, <3>4, FlagsPulled
    <3>6. v = Low(Concrete!Emulator!P(m))
      BY Zenon, <2>1, <3>1 DEF Pushed
    <3>7. \A f \in Flag : o[f] = m[f]
      BY <3>5, <3>6, FlagsBack
    <3> QED BY Zenon, <2>1, <3>1, <3>5, <3>7 DEF GaveBack
  <2> QED BY Zenon, <2>3, <2>4
<1> QED BY Zenon, <1>1, <1>2

-----------------------------------------------------------------------------
(* PullGivesBack.                                                          *)

\* All that was pushed and not touched since is still on the stack.
Kept ==
    \A i \in 1 .. Len(ran) :
        /\ ran[i].name \in DOMAIN Pops
        /\ \A j \in i + 1 .. Len(ran) : ran[j].name \in Quiet
        => OnStack(before[i], ran[i].name, rnd)

History ==
    /\ \A i \in 1 .. Len(ran) : ConcreteOK(before[i])
    /\ Kept
    /\ PullGivesBack

LEMMA InitHistory == Init => History
<1> SUFFICES ASSUME Init
             PROVE  History
  OBVIOUS
<1>1. Len(ran) = 0
  BY DEF Init
<1> QED BY <1>1 DEF History, Kept, PullGivesBack

LEMMA StepHistory ==
  ASSUME IInv, History, NEW ins \in Known, Step(ins)
  PROVE  History'
<1> DEFINE k == Len(ran)
           a == Concrete!Emulator!absoluteVar(rnd, ins)
           v == Concrete!Emulator!immediateVar(rnd, ins)
<1>1. /\ rnd' = Concrete!Emulator!Execute(rnd, ins.name, a, v)
      /\ ran' = Append(ran, ins) /\ before' = Append(before, rnd)
  BY Zenon DEF Step, Concrete!Emulator!Run
<1> HIDE DEF a, v
<1>2. /\ ran \in Seq(Known) /\ IsSequence(before) /\ Len(before) = k /\ k \in Nat
  <2>1. ran \in Seq(Known) /\ IsSequence(before) /\ Len(before) = Len(ran)
    BY Zenon DEF IInv
  <2> QED BY <2>1
<1>3. /\ Len(ran') = k + 1 /\ ran'[k + 1] = ins
      /\ \A i \in 1 .. k : ran'[i] = ran[i]
  BY <1>1, <1>2
<1>4. /\ before'[k + 1] = rnd
      /\ \A i \in 1 .. k : before'[i] = before[i]
  <2>1. /\ Append(before, rnd)[Len(before) + 1] = rnd
        /\ \A i \in 1 .. Len(before) : Append(before, rnd)[i] = before[i]
    BY <1>2, SequenceGrows
  <2> QED BY <1>1, <1>2, <2>1
<1>5. ConcreteOK(rnd) /\ (rnd.exit # 0 => rnd' = rnd)
  <2>1. Moves(Direct', 1, rnd, abs, rnd', abs')
    BY Zenon, StepMoves
  <2> QED BY Zenon, <2>1, MachinesOK DEF Moves
<1>6. /\ \A i \in 1 .. k : ConcreteOK(before[i])
      /\ Kept /\ PullGivesBack
  BY Zenon DEF History
<1> HIDE DEF k
<1>7. \A i \in 1 .. k + 1 : i \in 1 .. k \/ i = k + 1
  BY <1>2
<1>8. \A i \in 1 .. k + 1 : ConcreteOK(before'[i])
  BY Zenon, <1>4, <1>5, <1>6, <1>7
<1>9. DOMAIN Pops = {"PHA", "PHP"}
  BY DEF Pops
<1>10. ASSUME NEW i \in 1 .. k, ran[i].name \in DOMAIN Pops,
              \A j \in i + 1 .. k : ran[j].name \in Quiet
       PROVE  OnStack(before[i], ran[i].name, rnd)
  BY Zenon, <1>6, <1>10 DEF Kept, k
<1>11. Kept'
  <2>1. SUFFICES ASSUME NEW i \in 1 .. k + 1, ran'[i].name \in DOMAIN Pops,
                        \A j \in i + 1 .. k + 1 : ran'[j].name \in Quiet
                 PROVE  OnStack(before'[i], ran'[i].name, rnd')
    BY <1>3 DEF Kept
  <2>2. CASE i = k + 1
    <3>1. ins.name \in {"PHA", "PHP"}
      BY Zenon, <1>3, <1>9, <2>1, <2>2
    <3>2. OnStack(rnd, ins.name, rnd')
      BY <1>1, <1>5, <3>1, PushKept
    <3> QED BY Zenon, <1>3, <1>4, <2>2, <3>2
  <2>3. CASE i \in 1 .. k
    <3>1. ran'[i] = ran[i] /\ before'[i] = before[i]
      BY Zenon, <1>3, <1>4, <2>3
    <3>2. \A j \in i + 1 .. k : ran[j].name \in Quiet
      BY <1>2, <1>3, <2>1, <2>3
    <3>3. ins.name \in Quiet
      BY <1>2, <1>3, <2>1, <2>3
    <3>4. OnStack(before[i], ran[i].name, rnd)
      BY Zenon, <1>10, <2>1, <2>3, <3>1, <3>2
    <3>5. ConcreteOK(before[i])
      BY Zenon, <1>6, <2>3
    <3>6. OnStack(before[i], ran[i].name, rnd')
      BY <1>1, <1>5, <3>3, <3>4, <3>5, QuietKept
    <3> QED BY Zenon, <3>1, <3>6
  <2> QED BY Zenon, <1>7, <2>1, <2>2, <2>3
<1>12. PullGivesBack'
  <2>1. SUFFICES ASSUME NEW i \in 1 .. k, ran'[i].name \in DOMAIN Pops,
                        ins.name = Pops[ran'[i].name],
                        \A j \in i + 1 .. k : ran'[j].name \in Quiet
                 PROVE  GaveBack(before'[i], ran'[i].name, rnd')
    <3>1. Len(ran') - 1 = k
      BY <1>2, <1>3
    <3>2. Last(ran') = ins
      BY Zenon, <1>3 DEF Last
    <3> QED BY Zenon, <3>1, <3>2, <2>1 DEF PullGivesBack, GaveBack, Quiet
  <2>2. ran'[i] = ran[i] /\ before'[i] = before[i]
    BY Zenon, <1>3, <1>4
  <2>3. \A j \in i + 1 .. k : ran[j].name \in Quiet
    BY <1>2, <1>3, <2>1
  <2>4. OnStack(before[i], ran[i].name, rnd)
    BY Zenon, <1>10, <2>1, <2>2, <2>3
  <2>5. ConcreteOK(before[i])
    BY Zenon, <1>6
  <2>6. ran[i].name \in {"PHA", "PHP"} /\ ins.name = Pops[ran[i].name]
    BY Zenon, <1>9, <2>1, <2>2
  <2>7. GaveBack(before[i], ran[i].name, rnd')
    BY <1>1, <1>5, <2>4, <2>5, <2>6, PopBack
  <2> QED BY Zenon, <2>2, <2>7
<1> QED BY Zenon, <1>3, <1>8, <1>11, <1>12 DEF History

LEMMA NextHistory == IInv /\ History /\ [Next]_vars => History'
<1> SUFFICES ASSUME IInv, History, [Next]_vars
             PROVE  History'
  OBVIOUS
<1>1. CASE Next
  <2>1. PICK ins \in Program(ran) \cap Known : Step(ins)
    BY Zenon, <1>1 DEF Next
  <2> QED BY Zenon, <2>1, StepHistory
<1>2. CASE UNCHANGED vars
  BY Zenon, <1>2 DEF vars, History, Kept, PullGivesBack
<1> QED BY Zenon, <1>1, <1>2

\* What PHP and PHA push comes back by PLP and PLA after any number of
\* instructions on registers and flags, and in every state of the machine: the
\* stack pointer may wrap around in between.
THEOREM PulledIsPushed == Spec => []PullGivesBack
<1>1. History => PullGivesBack
  BY Zenon DEF History
<1> QED BY <1>1, Invariant, InitHistory, NextHistory, PTL DEF Spec

-----------------------------------------------------------------------------
(* GenerationsAgree.                                                       *)

\* The opcode o of the first enumerator is the instruction ins.
Twin(ins, o) ==
    LET k == ins.number
        is(old, mode, val) == ins.mode = mode /\ o.mode = old /\ o.val = val
    IN  /\ o.op = OldName(ins.name)
        /\ \/ ins.name = "JMPI" /\ o.mode = "Indirect" /\ o.val = 7 + k
           \/ /\ ins.name # "JMPI"
              /\ \/ is("Absolute", "ABSOLUTE", 7 + k)
                 \/ is("AbsoluteX", "ABSOLUTE_X", 7 + k)
                 \/ is("AbsoluteY", "ABSOLUTE_Y", 7 + k)
                 \/ is("ZeroPage", "ZERO_PAGE", 10 + k)
                 \/ is("ZeroPageX", "ZERO_PAGE_X", 10 + k)
                 \/ is("ZeroPageY", "ZERO_PAGE_Y", 10 + k)
                 \/ is("IndirectX", "X_INDIRECT", 10 + k)
                 \/ is("IndirectY", "INDIRECT_Y", 10 + k)
                 \/ ins.mode = "NONE" /\ o.mode = "None"
                 \/ is("Immediate", "IMMEDIATE", k) /\ k \in {0, 1}
                 \/ /\ ins.mode = "CONSTANT" /\ o.mode = "Immediate"
                    /\ addr_mode_constant_values[k + 1] \in {0, 1}
                    /\ o.val = 2 + addr_mode_constant_values[k + 1]

LEMMA TwinOf ==
  ASSUME NEW ins, ins.mode \in Modes, NEW o \in Opcode(ins)
  PROVE  Twin(ins, o)
<1> DEFINE k == ins.number
           name == OldName(ins.name)
           sums == {2 + c : c \in {0, 1} \cap {addr_mode_constant_values[k + 1]}}
<1>1. CASE ins.name = "JMPI"
  <2>1. Opcode(ins) = {Old!opcode(name, "Indirect", v) : v \in {7 + k}}
    BY Zenon, <1>1 DEF Opcode
  <2>2. o.op = name /\ o.mode = "Indirect" /\ o.val \in {7 + k}
    BY <2>1 DEF Old!opcode
  <2> QED BY Zenon, <1>1, <2>2 DEF Twin
<1>2. CASE ins.name # "JMPI" /\ ins.mode = "ABSOLUTE"
  <2>1. Opcode(ins) = {Old!opcode(OldName(ins.name), "Absolute", v) : v \in {7 + k}}
    BY Zenon, <1>2 DEF Opcode
  <2>2. o.op = name /\ o.mode = "Absolute" /\ o.val \in {7 + k}
    BY <2>1 DEF Old!opcode
  <2> QED BY Zenon, <1>2, <2>2 DEF Twin
<1>3. CASE ins.name # "JMPI" /\ ins.mode = "ABSOLUTE_X"
  <2>1. Opcode(ins) = {Old!opcode(OldName(ins.name), "AbsoluteX", v) : v \in {7 + k}}
    BY Zenon, <1>3 DEF Opcode
  <2>2. o.op = name /\ o.mode = "AbsoluteX" /\ o.val \in {7 + k}
    BY <2>1 DEF Old!opcode
  <2> QED BY Zenon, <1>3, <2>2 DEF Twin
<1>4. CASE ins.name # "JMPI" /\ ins.mode = "ABSOLUTE_Y"
  <2>1. Opcode(ins) = {Old!opcode(OldName(ins.name), "AbsoluteY", v) : v \in {7 + k}}
    BY Zenon, <1>4 DEF Opcode
  <2>2. o.op = name /\ o.mode = "AbsoluteY" /\ o.val \in {7 + k}
    BY <2>1 DEF Old!opcode
  <2> QED BY Zenon, <1>4, <2>2 DEF Twin
<1>5. CASE ins.name # "JMPI" /\ ins.mode = "ZERO_PAGE"
  <2>1. Opcode(ins) = {Old!opcode(OldName(ins.name), "ZeroPage", v) : v \in {10 + k}}
    BY Zenon, <1>5 DEF Opcode
  <2>2. o.op = name /\ o.mode = "ZeroPage" /\ o.val \in {10 + k}
    BY <2>1 DEF Old!opcode
  <2> QED BY Zenon, <1>5, <2>2 DEF Twin
<1>6. CASE ins.name # "JMPI" /\ ins.mode = "ZERO_PAGE_X"
  <2>1. Opcode(ins) = {Old!opcode(OldName(ins.name), "ZeroPageX", v) : v \in {10 + k}}
    BY Zenon, <1>6 DEF Opcode
  <2>2. o.op = name /\ o.mode = "ZeroPageX" /\ o.val \in {10 + k}
    BY <2>1 DEF Old!opcode
  <2> QED BY Zenon, <1>6, <2>2 DEF Twin
<1>7. CASE ins.name # "JMPI" /\ ins.mode = "ZERO_PAGE_Y"
  <2>1. Opcode(ins) = {Old!opcode(OldName(ins.name), "ZeroPageY", v) : v \in {10 + k}}
    BY Zenon, <1>7 DEF Opcode
  <2>2. o.op = name /\ o.mode = "ZeroPageY" /\ o.val \in {10 + k}
    BY <2>1 DEF Old!opcode
  <2> QED BY Zenon, <1>7, <2>2 DEF Twin
<1>8. CASE ins.name # "JMPI" /\ ins.mode = "X_INDIRECT"
  <2>1. Opcode(ins) = {Old!opcode(OldName(ins.name), "IndirectX", v) : v \in {10 + k}}
    BY Zenon, <1>8 DEF Opcode
  <2>2. o.op = name /\ o.mode = "IndirectX" /\ o.val \in {10 + k}
    BY <2>1 DEF Old!opcode
  <2> QED BY Zenon, <1>8, <2>2 DEF Twin
<1>9. CASE ins.name # "JMPI" /\ ins.mode = "INDIRECT_Y"
  <2>1. Opcode(ins) = {Old!opcode(OldName(ins.name), "IndirectY", v) : v \in {10 + k}}
    BY Zenon, <1>9 DEF Opcode
  <2>2. o.op = name /\ o.mode = "IndirectY" /\ o.val \in {10 + k}
    BY <2>1 DEF Old!opcode
  <2> QED BY Zenon, <1>9, <2>2 DEF Twin
<1>10. CASE ins.name # "JMPI" /\ ins.mode = "NONE"
  <2>1. Opcode(ins) = {Old!opcode(OldName(ins.name), "None", v) : v \in {14}}
    BY Zenon, <1>10 DEF Opcode
  <2>2. o.op = name /\ o.mode = "None" /\ o.val \in {14}
    BY <2>1 DEF Old!opcode
  <2> QED BY Zenon, <1>10, <2>2 DEF Twin
<1>11. CASE ins.name # "JMPI" /\ ins.mode = "IMMEDIATE"
  <2>1. Opcode(ins) = {Old!opcode(OldName(ins.name), "Immediate", v) : v \in {k} \cap {0, 1}}
    BY Zenon, <1>11 DEF Opcode
  <2>2. o.op = name /\ o.mode = "Immediate" /\ o.val \in {k} \cap {0, 1}
    BY <2>1 DEF Old!opcode
  <2>3. k \in {0, 1} /\ o.val = k
    BY Zenon, <2>2
  <2> QED BY Zenon, <1>11, <2>2, <2>3 DEF Twin
<1>12. CASE ins.name # "JMPI" /\ ins.mode = "CONSTANT"
  <2>1. Opcode(ins) = {Old!opcode(OldName(ins.name), "Immediate", v) : v \in sums}
    BY Zenon, <1>12 DEF Opcode
  <2>2. o.op = name /\ o.mode = "Immediate" /\ o.val \in sums
    BY <2>1 DEF Old!opcode
  <2>3. /\ addr_mode_constant_values[k + 1] \in {0, 1}
        /\ o.val = 2 + addr_mode_constant_values[k + 1]
    BY Zenon, <2>2
  <2> QED BY Zenon, <1>12, <2>2, <2>3 DEF Twin
<1> QED BY Zenon, <1>1, <1>2, <1>3, <1>4, <1>5, <1>6, <1>7, <1>8, <1>9, <1>10, <1>11, <1>12 DEF Modes

\* The names of the first enumerator are those of the second but for JMPI.
LEMMA NoOldNames ==
  ASSUME NEW name \in Names
  PROVE  name \notin {"ASL_A", "LSR_A", "ROL_A", "ROR_A"}
BY DEF Names, Plain, Storing, ShiftNames, Branches

LEMMA NameBack ==
  ASSUME NEW name \in Names, name # "JMPI", NEW op, op = OldName(name)
  PROVE  /\ name = IF op \in DOMAIN Concrete!Emulator!NewName
                   THEN Concrete!Emulator!NewName[op] ELSE op
         /\ name = IF op \in DOMAIN Symbolic!Emulator!NewName
                   THEN Symbolic!Emulator!NewName[op] ELSE op
<1> DEFINE new == [ASL_A |-> "ASLA", LSR_A |-> "LSRA", ROL_A |-> "ROLA", ROR_A |-> "RORA"]
<1>1. Concrete!Emulator!NewName = new /\ Symbolic!Emulator!NewName = new
  BY Zenon DEF Concrete!Emulator!NewName, Symbolic!Emulator!NewName
<1>2. DOMAIN new = {"ASL_A", "LSR_A", "ROL_A", "ROR_A"}
  OBVIOUS
<1>3. CASE name \in Shift
  <2>1. op = [ASLA |-> "ASL_A", LSRA |-> "LSR_A", ROLA |-> "ROL_A", RORA |-> "ROR_A"][name]
    BY Zenon, <1>3 DEF OldName
  <2>2. name \in {"ASLA", "LSRA", "ROLA", "RORA"}
    BY Zenon, <1>3 DEF Shift
  <2>3. op \in {"ASL_A", "LSR_A", "ROL_A", "ROR_A"} /\ name = new[op]
    BY <2>1, <2>2
  <2> HIDE DEF new
  <2> QED BY Zenon, <1>1, <1>2, <2>3
<1>4. CASE name \notin Shift
  <2>1. op = name
    BY Zenon, <1>4 DEF OldName
  <2>2. name \notin {"ASL_A", "LSR_A", "ROL_A", "ROR_A"}
    BY NoOldNames
  <2> HIDE DEF new
  <2> QED BY Zenon, <1>1, <1>2, <2>1, <2>2
<1> QED BY Zenon, <1>3, <1>4

LEMMA Difference ==
  ASSUME NEW k \in Int
  PROVE  /\ (7 + k) - Concrete!Emulator!abs_start = k
         /\ (7 + k) - Symbolic!Emulator!abs_start = k
         /\ (10 + k) - Concrete!Emulator!zp_start = k
         /\ (10 + k) - Symbolic!Emulator!zp_start = k
BY DEF Concrete!Emulator!abs_start, Symbolic!Emulator!abs_start,
       Concrete!Emulator!zp_start, Symbolic!Emulator!zp_start

LEMMA MaskByte ==
  ASSUME NEW n \in Int
  PROVE  Low(Symbolic!BitAnd(n, 255)) = Low(n)
<1>1. 255 \in Int /\ 255 % 256 = 255
  OBVIOUS
<1>2. Low(Symbolic!BitAnd(n, 255)) = Symbolic!AndByte(n, 255)
  <2>1. PICK x \in Int : x = Symbolic!BitAnd(n, 255)
    BY BitRange
  <2>2. x % 256 = Symbolic!AndByte(n, 255)
    BY <1>1, <2>1, AndByBytes
  <2> QED BY <2>1, <2>2 DEF Low
<1>3. PICK k \in Byte : k = Low(n)
  BY DEF Low, Byte
<1>4. Symbolic!AndByte(n, 255) = Symbolic!AndByte(k, 255)
  BY <1>3, ByteLow DEF Low
<1>5. Symbolic!AndByte(k, 255) = k
  BY AllDigits, DigitSum, AndSum DEF Symbolic!Weight
<1> QED BY <1>2, <1>3, <1>4, <1>5

\* An index into the zero page stays in it without the mask, too.
LEMMA IndexedAlike ==
  ASSUME NEW c, NEW m, NEW s, Both(c, m, s), NEW o, NEW k \in 0 .. 3, o.val = 10 + k,
         NEW r \in Register
  PROVE  /\ Concrete!Emulator!Indexed(m, o, r)
              = Concrete!extend(Concrete!++(Concrete!zp(m, k), m[r]))
         /\ Symbolic!Emulator!Indexed(s, o, r)
              = Symbolic!extend(Symbolic!++(Symbolic!zp(s, k), s[r]))
<1>1. /\ o.val - Concrete!Emulator!zp_start = k
      /\ o.val - Symbolic!Emulator!zp_start = k
  BY Difference
<1> DEFINE p == Concrete!++(Concrete!zp(m, k), m[r])
           e == Symbolic!++(Symbolic!zp(s, k), s[r])
<1>2. IntVal(c, p, e)
  BY Zenon, GetOperands, GetRegister, IntOperators DEF ByteVal
<1>3. /\ Concrete!Emulator!Indexed(m, o, r) = Concrete!extend(Concrete!&(p, Concrete!int(255)))
      /\ Symbolic!Emulator!Indexed(s, o, r) = Symbolic!extend(Symbolic!&(e, Symbolic!int(255)))
  BY <1>1 DEF Concrete!Emulator!Indexed, Symbolic!Emulator!Indexed
<1> HIDE DEF p, e
<1>4. p \in Int
  BY Zenon, <1>2 DEF IntVal
<1>5. PICK i \in Int : e = E8(i)
  BY <1>2 DEF IntVal, Bits8
<1>6. \A n \in Int : Low(Symbolic!BitAnd(n, 255)) = Low(n)
  BY MaskByte
<1>7. Concrete!extend(Concrete!&(p, Concrete!int(255))) = Concrete!extend(p)
  <2>1. Concrete!&(p, Concrete!int(255)) = Symbolic!BitAnd(p, 255)
    BY SameOperators DEF Concrete!&, Concrete!int
  <2>2. \A n : Concrete!extend(n) = Low(n)
    BY SameNumbers DEF Concrete!extend
  <2> QED BY <1>4, <1>6, <2>1, <2>2
<1>8. Symbolic!&(e, Symbolic!int(255)) = e
  <2>1. Symbolic!&(E8(i), Symbolic!int(255)) = E8(Symbolic!BitAnd(i, 255))
    BY Bitwise8
  <2>2. E8(Symbolic!BitAnd(i, 255)) = E8(i)
    BY <1>6 DEF E8
  <2> QED BY <1>5, <2>1, <2>2
<1> QED BY Zenon, <1>3, <1>7, <1>8 DEF p, e

ReadNames == Arith \cup {"LDX", "LDY", "CPX", "CPY"}

\* The operands of the two enumerators are the same.
LEMMA ConcreteAddresses ==
  ASSUME NEW c, NEW m, NEW s, Both(c, m, s), NEW ins, OperandOK(ins), ins.name # "JMPI",
         ins.mode \notin {"IMMEDIATE", "CONSTANT"}, NEW o, Twin(ins, o)
  PROVE  /\ Concrete!Emulator!OpcodeAddress(m, o) = Concrete!Emulator!absoluteVar(m, ins)
         /\ o.mode # "Immediate"
<1> DEFINE k == ins.number
<1>1. CASE ins.mode = "ABSOLUTE"
  <2>1. o.mode = "Absolute" /\ o.val = 7 + k
    BY Zenon, <1>1 DEF Twin
  <2>2. k \in 0 .. 3 /\ k \in Int
    BY <1>1 DEF OperandOK
  <2>3. o.val - Concrete!Emulator!abs_start = k
    BY <2>1, <2>2, Difference
  <2> DEFINE at(i) == Concrete!wordVar(Concrete!absolute(m, i))
  <2>4. Concrete!Emulator!OpcodeAddress(m, o) = at(o.val - Concrete!Emulator!abs_start)
    BY Zenon, <2>1 DEF Concrete!Emulator!OpcodeAddress
  <2>5. Concrete!Emulator!absoluteVar(m, ins) = at(k)
    BY Zenon, <1>1 DEF Concrete!Emulator!absoluteVar
  <2> QED BY <2>1, <2>3, <2>4, <2>5
<1>2. CASE ins.mode = "ABSOLUTE_X"
  <2>1. o.mode = "AbsoluteX" /\ o.val = 7 + k
    BY Zenon, <1>2 DEF Twin
  <2>2. k \in 0 .. 3 /\ k \in Int
    BY <1>2 DEF OperandOK
  <2>3. o.val - Concrete!Emulator!abs_start = k
    BY <2>1, <2>2, Difference
  <2> DEFINE at(i) == Concrete!wordVar(Concrete!++(Concrete!absolute(m, i), Concrete!extend(m.x)))
  <2>4. Concrete!Emulator!OpcodeAddress(m, o) = at(o.val - Concrete!Emulator!abs_start)
    BY Zenon, <2>1 DEF Concrete!Emulator!OpcodeAddress
  <2>5. Concrete!Emulator!absoluteVar(m, ins) = at(k)
    BY Zenon, <1>2 DEF Concrete!Emulator!absoluteVar
  <2> QED BY <2>1, <2>3, <2>4, <2>5
<1>3. CASE ins.mode = "ABSOLUTE_Y"
  <2>1. o.mode = "AbsoluteY" /\ o.val = 7 + k
    BY Zenon, <1>3 DEF Twin
  <2>2. k \in 0 .. 3 /\ k \in Int
    BY <1>3 DEF OperandOK
  <2>3. o.val - Concrete!Emulator!abs_start = k
    BY <2>1, <2>2, Difference
  <2> DEFINE at(i) == Concrete!wordVar(Concrete!++(Concrete!absolute(m, i), Concrete!extend(m.y)))
  <2>4. Concrete!Emulator!OpcodeAddress(m, o) = at(o.val - Concrete!Emulator!abs_start)
    BY Zenon, <2>1 DEF Concrete!Emulator!OpcodeAddress
  <2>5. Concrete!Emulator!absoluteVar(m, ins) = at(k)
    BY Zenon, <1>3 DEF Concrete!Emulator!absoluteVar
  <2> QED BY <2>1, <2>3, <2>4, <2>5
<1>4. CASE ins.mode = "ZERO_PAGE"
  <2>1. o.mode = "ZeroPage" /\ o.val = 10 + k
    BY Zenon, <1>4 DEF Twin
  <2>2. k \in 0 .. 3 /\ k \in Int
    BY <1>4 DEF OperandOK
  <2>3. o.val - Concrete!Emulator!zp_start = k
    BY <2>1, <2>2, Difference
  <2> DEFINE at(i) == Concrete!wordVar(Concrete!extend(Concrete!zp(m, i)))
  <2>4. Concrete!Emulator!OpcodeAddress(m, o) = at(o.val - Concrete!Emulator!zp_start)
    BY Zenon, <2>1 DEF Concrete!Emulator!OpcodeAddress
  <2>5. Concrete!Emulator!absoluteVar(m, ins) = at(k)
    BY Zenon, <1>4 DEF Concrete!Emulator!absoluteVar
  <2> QED BY <2>1, <2>3, <2>4, <2>5
<1>5. CASE ins.mode = "ZERO_PAGE_X"
  <2>1. o.mode = "ZeroPageX" /\ o.val = 10 + k
    BY Zenon, <1>5 DEF Twin
  <2>2. k \in 0 .. 3 /\ k \in Int
    BY <1>5 DEF OperandOK
  <2>3. o.val - Concrete!Emulator!zp_start = k
    BY <2>1, <2>2, Difference
  <2>4. Concrete!Emulator!Indexed(m, o, "x")
          = Concrete!extend(Concrete!++(Concrete!zp(m, k), m["x"]))
    BY <2>1, <2>2, RegisterNames, IndexedAlike
  <2>5. Concrete!Emulator!OpcodeAddress(m, o)
          = Concrete!wordVar(Concrete!Emulator!Indexed(m, o, "x"))
    BY Zenon, <2>1 DEF Concrete!Emulator!OpcodeAddress
  <2>6. Concrete!Emulator!absoluteVar(m, ins)
          = Concrete!wordVar(Concrete!extend(Concrete!++(Concrete!zp(m, k), m.x)))
    BY Zenon, <1>5 DEF Concrete!Emulator!absoluteVar
  <2> QED BY <2>1, <2>4, <2>5, <2>6
<1>6. CASE ins.mode = "ZERO_PAGE_Y"
  <2>1. o.mode = "ZeroPageY" /\ o.val = 10 + k
    BY Zenon, <1>6 DEF Twin
  <2>2. k \in 0 .. 3 /\ k \in Int
    BY <1>6 DEF OperandOK
  <2>3. o.val - Concrete!Emulator!zp_start = k
    BY <2>1, <2>2, Difference
  <2>4. Concrete!Emulator!Indexed(m, o, "y")
          = Concrete!extend(Concrete!++(Concrete!zp(m, k), m["y"]))
    BY <2>1, <2>2, RegisterNames, IndexedAlike
  <2>5. Concrete!Emulator!OpcodeAddress(m, o)
          = Concrete!wordVar(Concrete!Emulator!Indexed(m, o, "y"))
    BY Zenon, <2>1 DEF Concrete!Emulator!OpcodeAddress
  <2>6. Concrete!Emulator!absoluteVar(m, ins)
          = Concrete!wordVar(Concrete!extend(Concrete!++(Concrete!zp(m, k), m.y)))
    BY Zenon, <1>6 DEF Concrete!Emulator!absoluteVar
  <2> QED BY <2>1, <2>4, <2>5, <2>6
<1>7. CASE ins.mode = "X_INDIRECT"
  <2>1. o.mode = "IndirectX" /\ o.val = 10 + k
    BY Zenon, <1>7 DEF Twin
  <2>2. k \in 0 .. 3 /\ k \in Int
    BY <1>7 DEF OperandOK
  <2>3. o.val - Concrete!Emulator!zp_start = k
    BY <2>1, <2>2, Difference
  <2> DEFINE p(i) ==
            Concrete!wordVar(Concrete!Emulator!ZeroPagePointer(m, Concrete!++(Concrete!zp(m, i), m.x)))
  <2> DEFINE at(i) ==
            Concrete!wordVar(Concrete!Emulator!Pointer(m, p(i), Concrete!++(p(i), Concrete!int(1))))
  <2>4. Concrete!Emulator!OpcodeAddress(m, o) = at(o.val - Concrete!Emulator!zp_start)
    BY Zenon, <2>1 DEF Concrete!Emulator!OpcodeAddress
  <2>5. Concrete!Emulator!absoluteVar(m, ins) = at(k)
    BY Zenon, <1>7 DEF Concrete!Emulator!absoluteVar
  <2> QED BY <2>1, <2>3, <2>4, <2>5
<1>8. CASE ins.mode = "INDIRECT_Y"
  <2>1. o.mode = "IndirectY" /\ o.val = 10 + k
    BY Zenon, <1>8 DEF Twin
  <2>2. k \in 0 .. 3 /\ k \in Int
    BY <1>8 DEF OperandOK
  <2>3. o.val - Concrete!Emulator!zp_start = k
    BY <2>1, <2>2, Difference
  <2> DEFINE at(i) ==
            Concrete!wordVar(Concrete!++(Concrete!Emulator!ZeroPagePointer(m, Concrete!zp(m, i)), Concrete!extend(m.y)))
  <2>4. Concrete!Emulator!OpcodeAddress(m, o) = at(o.val - Concrete!Emulator!zp_start)
    BY Zenon, <2>1 DEF Concrete!Emulator!OpcodeAddress
  <2>5. Concrete!Emulator!absoluteVar(m, ins) = at(k)
    BY Zenon, <1>8 DEF Concrete!Emulator!absoluteVar
  <2> QED BY <2>1, <2>3, <2>4, <2>5
<1>9. CASE ins.mode = "NONE"
  <2>1. o.mode = "None"
    BY Zenon, <1>9 DEF Twin
  <2>2. Concrete!Emulator!OpcodeAddress(m, o) = Concrete!wordVar(Concrete!absolute(m, 0))
    BY Zenon, <2>1 DEF Concrete!Emulator!OpcodeAddress
  <2>3. Concrete!Emulator!absoluteVar(m, ins) = Concrete!wordVar(Concrete!absolute(m, 0))
    BY Zenon, <1>9 DEF Concrete!Emulator!absoluteVar
  <2> QED BY Zenon, <2>1, <2>2, <2>3
<1> QED BY Zenon, <1>1, <1>2, <1>3, <1>4, <1>5, <1>6, <1>7, <1>8, <1>9 DEF OperandOK, Modes

LEMMA ConcreteValues ==
  ASSUME NEW c, NEW m, NEW s, Both(c, m, s), NEW ins, OperandOK(ins), ins.name # "JMPI",
         NEW o, Twin(ins, o)
  PROVE  Concrete!Emulator!OpcodeValue(m, o) = Concrete!Emulator!immediateVar(m, ins)
<1>1. CASE ins.mode = "IMMEDIATE"
  <2>1. o.mode = "Immediate" /\ o.val = ins.number /\ o.val \in {0, 1}
    BY Zenon, <1>1 DEF Twin
  <2>2. o.val \notin {2, 3} /\ o.val \notin {4, 5} /\ o.val # 6
    BY <2>1
  <2> QED BY Zenon, <1>1, <2>1, <2>2 DEF Concrete!Emulator!OpcodeValue, Concrete!Emulator!immediateVar
<1>2. CASE ins.mode = "CONSTANT"
  <2> DEFINE v == addr_mode_constant_values[ins.number + 1]
  <2>1. o.mode = "Immediate" /\ v \in {0, 1} /\ o.val = 2 + v
    BY Zenon, <1>2 DEF Twin
  <2>2. /\ o.val \in {2, 3} /\ o.val \notin {0, 1} /\ o.val \notin {4, 5} /\ o.val # 6
        /\ o.val - 2 = v
    BY <2>1
  <2>3. Concrete!Emulator!addr_mode_constant_values[ins.number + 1] = v
    BY Zenon DEF Concrete!Emulator!addr_mode_constant_values, addr_mode_constant_values
  <2> HIDE DEF v
  <2> QED BY Zenon, <1>2, <2>1, <2>2, <2>3 DEF Concrete!Emulator!OpcodeValue, Concrete!Emulator!immediateVar
<1>3. CASE ins.mode \notin {"IMMEDIATE", "CONSTANT"}
  <2>1. /\ Concrete!Emulator!OpcodeAddress(m, o) = Concrete!Emulator!absoluteVar(m, ins)
        /\ o.mode # "Immediate"
    BY <1>3, ConcreteAddresses
  <2> QED BY Zenon, <1>3, <2>1 DEF Concrete!Emulator!OpcodeValue, Concrete!Emulator!immediateVar
<1> QED BY Zenon, <1>1, <1>2, <1>3

\* What takes an immediate operand looks at no address.
LEMMA ConcreteIgnores ==
  ASSUME NEW m, NEW name \in ReadNames, NEW a, NEW b, NEW v
  PROVE  Concrete!Emulator!Execute(m, name, a, v) = Concrete!Emulator!Execute(m, name, b, v)
<1>1. CASE name = "ADC"
  BY Zenon, <1>1 DEF Concrete!Emulator!Execute, Concrete!Emulator!Branches
<1>2. CASE name = "AND"
  BY Zenon, <1>2 DEF Concrete!Emulator!Execute, Concrete!Emulator!Branches
<1>3. CASE name = "CMP"
  BY Zenon, <1>3 DEF Concrete!Emulator!Execute, Concrete!Emulator!Branches
<1>4. CASE name = "EOR"
  BY Zenon, <1>4 DEF Concrete!Emulator!Execute, Concrete!Emulator!Branches
<1>5. CASE name = "LDA"
  BY Zenon, <1>5 DEF Concrete!Emulator!Execute, Concrete!Emulator!Branches
<1>6. CASE name = "ORA"
  BY Zenon, <1>6 DEF Concrete!Emulator!Execute, Concrete!Emulator!Branches
<1>7. CASE name = "SBC"
  BY Zenon, <1>7 DEF Concrete!Emulator!Execute, Concrete!Emulator!Branches
<1>8. CASE name = "LDX"
  BY Zenon, <1>8 DEF Concrete!Emulator!Execute, Concrete!Emulator!Branches
<1>9. CASE name = "LDY"
  BY Zenon, <1>9 DEF Concrete!Emulator!Execute, Concrete!Emulator!Branches
<1>10. CASE name = "CPX"
  BY Zenon, <1>10 DEF Concrete!Emulator!Execute, Concrete!Emulator!Branches
<1>11. CASE name = "CPY"
  BY Zenon, <1>11 DEF Concrete!Emulator!Execute, Concrete!Emulator!Branches
<1> QED BY Zenon, <1>1, <1>2, <1>3, <1>4, <1>5, <1>6, <1>7, <1>8, <1>9, <1>10, <1>11 DEF ReadNames, Arith

\* The operands of the two enumerators are the same.
LEMMA SymbolicAddresses ==
  ASSUME NEW c, NEW m, NEW s, Both(c, m, s), NEW ins, OperandOK(ins), ins.name # "JMPI",
         ins.mode \notin {"IMMEDIATE", "CONSTANT"}, NEW o, Twin(ins, o)
  PROVE  /\ Symbolic!Emulator!OpcodeAddress(s, o) = Symbolic!Emulator!absoluteVar(s, ins)
         /\ o.mode # "Immediate"
<1> DEFINE k == ins.number
<1>1. CASE ins.mode = "ABSOLUTE"
  <2>1. o.mode = "Absolute" /\ o.val = 7 + k
    BY Zenon, <1>1 DEF Twin
  <2>2. k \in 0 .. 3 /\ k \in Int
    BY <1>1 DEF OperandOK
  <2>3. o.val - Symbolic!Emulator!abs_start = k
    BY <2>1, <2>2, Difference
  <2> DEFINE at(i) == Symbolic!wordVar(Symbolic!absolute(s, i))
  <2>4. Symbolic!Emulator!OpcodeAddress(s, o) = at(o.val - Symbolic!Emulator!abs_start)
    BY Zenon, <2>1 DEF Symbolic!Emulator!OpcodeAddress
  <2>5. Symbolic!Emulator!absoluteVar(s, ins) = at(k)
    BY Zenon, <1>1 DEF Symbolic!Emulator!absoluteVar
  <2> QED BY <2>1, <2>3, <2>4, <2>5
<1>2. CASE ins.mode = "ABSOLUTE_X"
  <2>1. o.mode = "AbsoluteX" /\ o.val = 7 + k
    BY Zenon, <1>2 DEF Twin
  <2>2. k \in 0 .. 3 /\ k \in Int
    BY <1>2 DEF OperandOK
  <2>3. o.val - Symbolic!Emulator!abs_start = k
    BY <2>1, <2>2, Difference
  <2> DEFINE at(i) == Symbolic!wordVar(Symbolic!++(Symbolic!absolute(s, i), Symbolic!extend(s.x)))
  <2>4. Symbolic!Emulator!OpcodeAddress(s, o) = at(o.val - Symbolic!Emulator!abs_start)
    BY Zenon, <2>1 DEF Symbolic!Emulator!OpcodeAddress
  <2>5. Symbolic!Emulator!absoluteVar(s, ins) = at(k)
    BY Zenon, <1>2 DEF Symbolic!Emulator!absoluteVar
  <2> QED BY <2>1, <2>3, <2>4, <2>5
<1>3. CASE ins.mode = "ABSOLUTE_Y"
  <2>1. o.mode = "AbsoluteY" /\ o.val = 7 + k
    BY Zenon, <1>3 DEF Twin
  <2>2. k \in 0 .. 3 /\ k \in Int
    BY <1>3 DEF OperandOK
  <2>3. o.val - Symbolic!Emulator!abs_start = k
    BY <2>1, <2>2, Difference
  <2> DEFINE at(i) == Symbolic!wordVar(Symbolic!++(Symbolic!absolute(s, i), Symbolic!extend(s.y)))
  <2>4. Symbolic!Emulator!OpcodeAddress(s, o) = at(o.val - Symbolic!Emulator!abs_start)
    BY Zenon, <2>1 DEF Symbolic!Emulator!OpcodeAddress
  <2>5. Symbolic!Emulator!absoluteVar(s, ins) = at(k)
    BY Zenon, <1>3 DEF Symbolic!Emulator!absoluteVar
  <2> QED BY <2>1, <2>3, <2>4, <2>5
<1>4. CASE ins.mode = "ZERO_PAGE"
  <2>1. o.mode = "ZeroPage" /\ o.val = 10 + k
    BY Zenon, <1>4 DEF Twin
  <2>2. k \in 0 .. 3 /\ k \in Int
    BY <1>4 DEF OperandOK
  <2>3. o.val - Symbolic!Emulator!zp_start = k
    BY <2>1, <2>2, Difference
  <2> DEFINE at(i) == Symbolic!wordVar(Symbolic!extend(Symbolic!zp(s, i)))
  <2>4. Symbolic!Emulator!OpcodeAddress(s, o) = at(o.val - Symbolic!Emulator!zp_start)
    BY Zenon, <2>1 DEF Symbolic!Emulator!OpcodeAddress
  <2>5. Symbolic!Emulator!absoluteVar(s, ins) = at(k)
    BY Zenon, <1>4 DEF Symbolic!Emulator!absoluteVar
  <2> QED BY <2>1, <2>3, <2>4, <2>5
<1>5. CASE ins.mode = "ZERO_PAGE_X"
  <2>1. o.mode = "ZeroPageX" /\ o.val = 10 + k
    BY Zenon, <1>5 DEF Twin
  <2>2. k \in 0 .. 3 /\ k \in Int
    BY <1>5 DEF OperandOK
  <2>3. o.val - Symbolic!Emulator!zp_start = k
    BY <2>1, <2>2, Difference
  <2>4. Symbolic!Emulator!Indexed(s, o, "x")
          = Symbolic!extend(Symbolic!++(Symbolic!zp(s, k), s["x"]))
    BY <2>1, <2>2, RegisterNames, IndexedAlike
  <2>5. Symbolic!Emulator!OpcodeAddress(s, o)
          = Symbolic!wordVar(Symbolic!Emulator!Indexed(s, o, "x"))
    BY Zenon, <2>1 DEF Symbolic!Emulator!OpcodeAddress
  <2>6. Symbolic!Emulator!absoluteVar(s, ins)
          = Symbolic!wordVar(Symbolic!extend(Symbolic!++(Symbolic!zp(s, k), s.x)))
    BY Zenon, <1>5 DEF Symbolic!Emulator!absoluteVar
  <2> QED BY <2>1, <2>4, <2>5, <2>6
<1>6. CASE ins.mode = "ZERO_PAGE_Y"
  <2>1. o.mode = "ZeroPageY" /\ o.val = 10 + k
    BY Zenon, <1>6 DEF Twin
  <2>2. k \in 0 .. 3 /\ k \in Int
    BY <1>6 DEF OperandOK
  <2>3. o.val - Symbolic!Emulator!zp_start = k
    BY <2>1, <2>2, Difference
  <2>4. Symbolic!Emulator!Indexed(s, o, "y")
          = Symbolic!extend(Symbolic!++(Symbolic!zp(s, k), s["y"]))
    BY <2>1, <2>2, RegisterNames, IndexedAlike
  <2>5. Symbolic!Emulator!OpcodeAddress(s, o)
          = Symbolic!wordVar(Symbolic!Emulator!Indexed(s, o, "y"))
    BY Zenon, <2>1 DEF Symbolic!Emulator!OpcodeAddress
  <2>6. Symbolic!Emulator!absoluteVar(s, ins)
          = Symbolic!wordVar(Symbolic!extend(Symbolic!++(Symbolic!zp(s, k), s.y)))
    BY Zenon, <1>6 DEF Symbolic!Emulator!absoluteVar
  <2> QED BY <2>1, <2>4, <2>5, <2>6
<1>7. CASE ins.mode = "X_INDIRECT"
  <2>1. o.mode = "IndirectX" /\ o.val = 10 + k
    BY Zenon, <1>7 DEF Twin
  <2>2. k \in 0 .. 3 /\ k \in Int
    BY <1>7 DEF OperandOK
  <2>3. o.val - Symbolic!Emulator!zp_start = k
    BY <2>1, <2>2, Difference
  <2> DEFINE p(i) ==
            Symbolic!wordVar(Symbolic!Emulator!ZeroPagePointer(s, Symbolic!++(Symbolic!zp(s, i), s.x)))
  <2> DEFINE at(i) ==
            Symbolic!wordVar(Symbolic!Emulator!Pointer(s, p(i), Symbolic!++(p(i), Symbolic!int(1))))
  <2>4. Symbolic!Emulator!OpcodeAddress(s, o) = at(o.val - Symbolic!Emulator!zp_start)
    BY Zenon, <2>1 DEF Symbolic!Emulator!OpcodeAddress
  <2>5. Symbolic!Emulator!absoluteVar(s, ins) = at(k)
    BY Zenon, <1>7 DEF Symbolic!Emulator!absoluteVar
  <2> QED BY <2>1, <2>3, <2>4, <2>5
<1>8. CASE ins.mode = "INDIRECT_Y"
  <2>1. o.mode = "IndirectY" /\ o.val = 10 + k
    BY Zenon, <1>8 DEF Twin
  <2>2. k \in 0 .. 3 /\ k \in Int
    BY <1>8 DEF OperandOK
  <2>3. o.val - Symbolic!Emulator!zp_start = k
    BY <2>1, <2>2, Difference
  <2> DEFINE at(i) ==
            Symbolic!wordVar(Symbolic!++(Symbolic!Emulator!ZeroPagePointer(s, Symbolic!zp(s, i)), Symbolic!extend(s.y)))
  <2>4. Symbolic!Emulator!OpcodeAddress(s, o) = at(o.val - Symbolic!Emulator!zp_start)
    BY Zenon, <2>1 DEF Symbolic!Emulator!OpcodeAddress
  <2>5. Symbolic!Emulator!absoluteVar(s, ins) = at(k)
    BY Zenon, <1>8 DEF Symbolic!Emulator!absoluteVar
  <2> QED BY <2>1, <2>3, <2>4, <2>5
<1>9. CASE ins.mode = "NONE"
  <2>1. o.mode = "None"
    BY Zenon, <1>9 DEF Twin
  <2>2. Symbolic!Emulator!OpcodeAddress(s, o) = Symbolic!wordVar(Symbolic!absolute(s, 0))
    BY Zenon, <2>1 DEF Symbolic!Emulator!OpcodeAddress
  <2>3. Symbolic!Emulator!absoluteVar(s, ins) = Symbolic!wordVar(Symbolic!absolute(s, 0))
    BY Zenon, <1>9 DEF Symbolic!Emulator!absoluteVar
  <2> QED BY Zenon, <2>1, <2>2, <2>3
<1> QED BY Zenon, <1>1, <1>2, <1>3, <1>4, <1>5, <1>6, <1>7, <1>8, <1>9 DEF OperandOK, Modes

LEMMA SymbolicValues ==
  ASSUME NEW c, NEW m, NEW s, Both(c, m, s), NEW ins, OperandOK(ins), ins.name # "JMPI",
         NEW o, Twin(ins, o)
  PROVE  Symbolic!Emulator!OpcodeValue(s, o) = Symbolic!Emulator!immediateVar(s, ins)
<1>1. CASE ins.mode = "IMMEDIATE"
  <2>1. o.mode = "Immediate" /\ o.val = ins.number /\ o.val \in {0, 1}
    BY Zenon, <1>1 DEF Twin
  <2>2. o.val \notin {2, 3} /\ o.val \notin {4, 5} /\ o.val # 6
    BY <2>1
  <2> QED BY Zenon, <1>1, <2>1, <2>2 DEF Symbolic!Emulator!OpcodeValue, Symbolic!Emulator!immediateVar
<1>2. CASE ins.mode = "CONSTANT"
  <2> DEFINE v == addr_mode_constant_values[ins.number + 1]
  <2>1. o.mode = "Immediate" /\ v \in {0, 1} /\ o.val = 2 + v
    BY Zenon, <1>2 DEF Twin
  <2>2. /\ o.val \in {2, 3} /\ o.val \notin {0, 1} /\ o.val \notin {4, 5} /\ o.val # 6
        /\ o.val - 2 = v
    BY <2>1
  <2>3. Symbolic!Emulator!addr_mode_constant_values[ins.number + 1] = v
    BY Zenon DEF Symbolic!Emulator!addr_mode_constant_values, addr_mode_constant_values
  <2> HIDE DEF v
  <2> QED BY Zenon, <1>2, <2>1, <2>2, <2>3 DEF Symbolic!Emulator!OpcodeValue, Symbolic!Emulator!immediateVar
<1>3. CASE ins.mode \notin {"IMMEDIATE", "CONSTANT"}
  <2>1. /\ Symbolic!Emulator!OpcodeAddress(s, o) = Symbolic!Emulator!absoluteVar(s, ins)
        /\ o.mode # "Immediate"
    BY <1>3, SymbolicAddresses
  <2> QED BY Zenon, <1>3, <2>1 DEF Symbolic!Emulator!OpcodeValue, Symbolic!Emulator!immediateVar
<1> QED BY Zenon, <1>1, <1>2, <1>3

\* What takes an immediate operand looks at no address.
LEMMA SymbolicIgnores ==
  ASSUME NEW m, NEW name \in ReadNames, NEW a, NEW b, NEW v
  PROVE  Symbolic!Emulator!Execute(m, name, a, v) = Symbolic!Emulator!Execute(m, name, b, v)
<1>1. CASE name = "ADC"
  BY Zenon, <1>1 DEF Symbolic!Emulator!Execute, Symbolic!Emulator!Branches
<1>2. CASE name = "AND"
  BY Zenon, <1>2 DEF Symbolic!Emulator!Execute, Symbolic!Emulator!Branches
<1>3. CASE name = "CMP"
  BY Zenon, <1>3 DEF Symbolic!Emulator!Execute, Symbolic!Emulator!Branches
<1>4. CASE name = "EOR"
  BY Zenon, <1>4 DEF Symbolic!Emulator!Execute, Symbolic!Emulator!Branches
<1>5. CASE name = "LDA"
  BY Zenon, <1>5 DEF Symbolic!Emulator!Execute, Symbolic!Emulator!Branches
<1>6. CASE name = "ORA"
  BY Zenon, <1>6 DEF Symbolic!Emulator!Execute, Symbolic!Emulator!Branches
<1>7. CASE name = "SBC"
  BY Zenon, <1>7 DEF Symbolic!Emulator!Execute, Symbolic!Emulator!Branches
<1>8. CASE name = "LDX"
  BY Zenon, <1>8 DEF Symbolic!Emulator!Execute, Symbolic!Emulator!Branches
<1>9. CASE name = "LDY"
  BY Zenon, <1>9 DEF Symbolic!Emulator!Execute, Symbolic!Emulator!Branches
<1>10. CASE name = "CPX"
  BY Zenon, <1>10 DEF Symbolic!Emulator!Execute, Symbolic!Emulator!Branches
<1>11. CASE name = "CPY"
  BY Zenon, <1>11 DEF Symbolic!Emulator!Execute, Symbolic!Emulator!Branches
<1> QED BY Zenon, <1>1, <1>2, <1>3, <1>4, <1>5, <1>6, <1>7, <1>8, <1>9, <1>10, <1>11 DEF ReadNames, Arith

LEMMA OpsOf ==
  ASSUME NEW names, NEW mode, NEW o \in Old!Ops(names, mode)
  PROVE  o.op \in names /\ o.mode = mode
BY DEF Old!Ops, Old!opcode

\* Only loads, comparisons and arithmetic have an immediate operand.
LEMMA ImmediateOps ==
  ASSUME NEW o \in Old!opcodes, o.mode = "Immediate"
  PROVE  o.op \in ReadNames
<1>0. \A names, mode : o \in Old!Ops(names, mode) => mode = "Immediate"
  BY Zenon, OpsOf
<1>1. CASE o \in Old!ImmediateOpcodes
  <2>1. o \in Old!Ops(Old!Arith \cup {"CPX", "CPY", "LDX", "LDY"}, "Immediate")
    BY Zenon, <1>1 DEF Old!ImmediateOpcodes
  <2>2. o.op \in Old!Arith \cup {"CPX", "CPY", "LDX", "LDY"}
    BY Zenon, <2>1, OpsOf
  <2> QED BY Zenon, <2>2 DEF ReadNames, Arith, Old!Arith
<1>2. o \notin Old!ZeroPageOpcodes
  BY Zenon, <1>0 DEF Old!ZeroPageOpcodes
<1>3. o \notin Old!ZeroPageIndexedOpcodes
  BY Zenon, <1>0 DEF Old!ZeroPageIndexedOpcodes
<1>4. o \notin Old!AbsoluteOpcodes
  BY Zenon, <1>0 DEF Old!AbsoluteOpcodes
<1>5. o \notin Old!IndirectOpcodes
  BY Zenon, <1>0 DEF Old!IndirectOpcodes
<1>6. o \notin Old!OtherOpcodes
  BY Zenon, <1>0 DEF Old!OtherOpcodes
<1> QED BY Zenon, <1>1, <1>2, <1>3, <1>4, <1>5, <1>6 DEF Old!opcodes

LEMMA ReadNamesKept ==
  ASSUME NEW name \in Names, OldName(name) \in ReadNames, name # "JMPI"
  PROVE  name \in ReadNames
<1>1. CASE name \in Shift
  <2>1. OldName(name)
          = [ASLA |-> "ASL_A", LSRA |-> "LSR_A", ROLA |-> "ROL_A", RORA |-> "ROR_A"][name]
    BY Zenon, <1>1 DEF OldName
  <2>2. name \in {"ASLA", "LSRA", "ROLA", "RORA"}
    BY Zenon, <1>1 DEF Shift
  <2>3. OldName(name) \in {"ASL_A", "LSR_A", "ROL_A", "ROR_A"}
    BY <2>1, <2>2
  <2> QED BY Zenon, <2>3 DEF ReadNames, Arith
<1>2. CASE name \notin Shift
  BY Zenon, <1>2 DEF OldName
<1> QED BY Zenon, <1>1, <1>2

LEMMA ConcreteAlike ==
  ASSUME NEW c, NEW m, NEW s, Both(c, m, s), NEW ins, KnownOK(ins), ins.name # "JMPI",
         NEW o \in Old!opcodes, Twin(ins, o)
  PROVE  Concrete!Emulator!RunOpcode(m, o) = Concrete!Emulator!Run(m, ins)
<1> DEFINE a == Concrete!Emulator!OpcodeAddress(m, o)
           b == Concrete!Emulator!absoluteVar(m, ins)
           v == Concrete!Emulator!OpcodeValue(m, o)
<1>1. ins.name \in Names /\ OperandOK(ins) /\ o.op = OldName(ins.name)
  BY Zenon DEF KnownOK, Twin
<1>2. Concrete!Emulator!RunOpcode(m, o) = Concrete!Emulator!Execute(m, ins.name, a, v)
  BY <1>1, NameBack DEF Concrete!Emulator!RunOpcode
<1>3. v = Concrete!Emulator!immediateVar(m, ins)
  BY Zenon, <1>1, ConcreteValues
<1>4. Concrete!Emulator!Run(m, ins) = Concrete!Emulator!Execute(m, ins.name, b, v)
  BY Zenon, <1>3 DEF Concrete!Emulator!Run
<1>5. CASE ins.mode \in {"IMMEDIATE", "CONSTANT"}
  <2>1. o.mode = "Immediate"
    BY Zenon, <1>5 DEF Twin
  <2>2. ins.name \in ReadNames
    BY Zenon, <1>1, <2>1, ImmediateOps, ReadNamesKept
  <2>3. Concrete!Emulator!Execute(m, ins.name, a, v) = Concrete!Emulator!Execute(m, ins.name, b, v)
    BY Zenon, <2>2, ConcreteIgnores
  <2> QED BY Zenon, <1>2, <1>4, <2>3
<1>6. CASE ins.mode \notin {"IMMEDIATE", "CONSTANT"}
  <2>1. a = b
    BY Zenon, <1>1, <1>6, ConcreteAddresses
  <2> QED BY Zenon, <1>2, <1>4, <2>1
<1> QED BY Zenon, <1>5, <1>6

LEMMA SymbolicAlike ==
  ASSUME NEW c, NEW m, NEW s, Both(c, m, s), NEW ins, KnownOK(ins), ins.name # "JMPI",
         NEW o \in Old!opcodes, Twin(ins, o)
  PROVE  Symbolic!Emulator!RunOpcode(s, o) = Symbolic!Emulator!Run(s, ins)
<1> DEFINE a == Symbolic!Emulator!OpcodeAddress(s, o)
           b == Symbolic!Emulator!absoluteVar(s, ins)
           v == Symbolic!Emulator!OpcodeValue(s, o)
<1>1. ins.name \in Names /\ OperandOK(ins) /\ o.op = OldName(ins.name)
  BY Zenon DEF KnownOK, Twin
<1>2. Symbolic!Emulator!RunOpcode(s, o) = Symbolic!Emulator!Execute(s, ins.name, a, v)
  BY <1>1, NameBack DEF Symbolic!Emulator!RunOpcode
<1>3. v = Symbolic!Emulator!immediateVar(s, ins)
  BY Zenon, <1>1, SymbolicValues
<1>4. Symbolic!Emulator!Run(s, ins) = Symbolic!Emulator!Execute(s, ins.name, b, v)
  BY Zenon, <1>3 DEF Symbolic!Emulator!Run
<1>5. CASE ins.mode \in {"IMMEDIATE", "CONSTANT"}
  <2>1. o.mode = "Immediate"
    BY Zenon, <1>5 DEF Twin
  <2>2. ins.name \in ReadNames
    BY Zenon, <1>1, <2>1, ImmediateOps, ReadNamesKept
  <2>3. Symbolic!Emulator!Execute(s, ins.name, a, v) = Symbolic!Emulator!Execute(s, ins.name, b, v)
    BY Zenon, <2>2, SymbolicIgnores
  <2> QED BY Zenon, <1>2, <1>4, <2>3
<1>6. CASE ins.mode \notin {"IMMEDIATE", "CONSTANT"}
  <2>1. a = b
    BY Zenon, <1>1, <1>6, SymbolicAddresses
  <2> QED BY Zenon, <1>2, <1>4, <2>1
<1> QED BY Zenon, <1>5, <1>6

\* JMPI is JMP with an indirect operand: the emulators follow the pointer in
\* different switches.
LEMMA IndirectAlike ==
  ASSUME NEW c, NEW m, NEW s, Both(c, m, s), NEW ins, KnownOK(ins), ins.name = "JMPI",
         ins.mode = "ABSOLUTE", NEW o, Twin(ins, o)
  PROVE  /\ Concrete!Emulator!RunOpcode(m, o) = Concrete!Emulator!Run(m, ins)
         /\ Symbolic!Emulator!RunOpcode(s, o) = Symbolic!Emulator!Run(s, ins)
<1> DEFINE k == ins.number
<1>1. k \in 0 .. 3 /\ k \in Int
  BY DEF KnownOK, OperandOK
<1>2. o.mode = "Indirect" /\ o.val = 7 + k /\ o.op = OldName("JMPI")
  BY Zenon DEF Twin
<1>3. o.op = "JMP"
  <2>1. "JMPI" \notin Shift
    BY DEF Shift
  <2> QED BY Zenon, <1>2, <2>1 DEF OldName
<1>4. /\ o.val - Concrete!Emulator!abs_start = k
      /\ o.val - Symbolic!Emulator!abs_start = k
  BY <1>1, <1>2, Difference
<1>5. /\ "JMP" \notin DOMAIN Concrete!Emulator!NewName
      /\ "JMP" \notin DOMAIN Symbolic!Emulator!NewName
  BY DEF Concrete!Emulator!NewName, Symbolic!Emulator!NewName
<1> DEFINE a == Concrete!absolute(m, k)
           d == Symbolic!absolute(s, k)
           q == Concrete!Emulator!PagePointer(m, a)
           r == Symbolic!Emulator!PagePointer(s, d)
<1>6. Concrete!wordVar(a) = a
  <2>1. a \in Words
    <3>1. m.absolute \in [0 .. 3 -> Words]
      BY Zenon DEF Both, GivenOK, Given
    <3>2. a = m.absolute[k]
      BY Zenon DEF Concrete!absolute
    <3> QED BY Zenon, <1>1, <3>1, <3>2
  <2> QED BY Zenon, <2>1, WordNumbers, SameNumbers DEF Concrete!wordVar
<1>7. Symbolic!wordVar(d) = d
  BY Zenon DEF Symbolic!wordVar
<1>8. /\ Concrete!Emulator!OpcodeAddress(m, o) = Concrete!wordVar(q)
      /\ Symbolic!Emulator!OpcodeAddress(s, o) = Symbolic!wordVar(r)
  <2>1. Concrete!Emulator!OpcodeAddress(m, o) = Concrete!wordVar(q)
    BY Zenon, <1>2, <1>4 DEF Concrete!Emulator!OpcodeAddress
  <2>2. Symbolic!Emulator!OpcodeAddress(s, o) = Symbolic!wordVar(r)
    BY Zenon, <1>2, <1>4 DEF Symbolic!Emulator!OpcodeAddress
  <2> QED BY Zenon, <2>1, <2>2
<1>9. /\ Concrete!Emulator!absoluteVar(m, ins) = Concrete!wordVar(a)
      /\ Symbolic!Emulator!absoluteVar(s, ins) = Symbolic!wordVar(d)
  BY Zenon DEF Concrete!Emulator!absoluteVar, Symbolic!Emulator!absoluteVar
<1>10. Concrete!Emulator!RunOpcode(m, o) = Concrete!jmp(m, Concrete!wordVar(q))
  <2>1. Concrete!Emulator!RunOpcode(m, o)
          = Concrete!Emulator!Execute(m, "JMP", Concrete!Emulator!OpcodeAddress(m, o),
                                      Concrete!Emulator!OpcodeValue(m, o))
    BY Zenon, <1>3, <1>5 DEF Concrete!Emulator!RunOpcode
  <2>2. \A x, y : Concrete!Emulator!Execute(m, "JMP", x, y) = Concrete!jmp(m, x)
    BY Zenon DEF Concrete!Emulator!Execute, Concrete!Emulator!Branches
  <2> QED BY Zenon, <1>8, <2>1, <2>2
<1>11. Symbolic!Emulator!RunOpcode(s, o) = Symbolic!jmp(s, Symbolic!wordVar(r))
  <2>1. Symbolic!Emulator!RunOpcode(s, o)
          = Symbolic!Emulator!Execute(s, "JMP", Symbolic!Emulator!OpcodeAddress(s, o),
                                      Symbolic!Emulator!OpcodeValue(s, o))
    BY Zenon, <1>3, <1>5 DEF Symbolic!Emulator!RunOpcode
  <2>2. \A x, y : Symbolic!Emulator!Execute(s, "JMP", x, y) = Symbolic!jmp(s, x)
    BY Zenon DEF Symbolic!Emulator!Execute, Symbolic!Emulator!Branches
  <2> QED BY Zenon, <1>8, <2>1, <2>2
<1>12. Concrete!Emulator!Run(m, ins) = Concrete!jmp(m, q)
  <2>1. \A x, y : Concrete!Emulator!Execute(m, "JMPI", x, y)
          = Concrete!jmp(m, Concrete!Emulator!PagePointer(m, x))
    BY Zenon DEF Concrete!Emulator!Execute, Concrete!Emulator!Branches, Concrete!Emulator!JumpIndirect
  <2> QED BY Zenon, <1>6, <1>9, <2>1 DEF Concrete!Emulator!Run
<1>13. Symbolic!Emulator!Run(s, ins) = Symbolic!jmp(s, r)
  <2>1. \A x, y : Symbolic!Emulator!Execute(s, "JMPI", x, y)
          = Symbolic!jmp(s, Symbolic!Emulator!PagePointer(s, x))
    BY Zenon DEF Symbolic!Emulator!Execute, Symbolic!Emulator!Branches, Symbolic!Emulator!JumpIndirect
  <2> QED BY Zenon, <1>7, <1>9, <2>1 DEF Symbolic!Emulator!Run
<1>14. Concrete!jmp(m, Concrete!wordVar(q)) = Concrete!jmp(m, q)
  <2>1. q \in Int
    <3>1. Both(FALSE, m, s) /\ WordVal(FALSE, a, d)
      BY Zenon, <1>1, GetOperands DEF Both, WordVal
    <3>2. WordVal(FALSE, q, r)
      BY Zenon, <3>1, PagePointerVal
    <3> QED BY Zenon, <3>2 DEF WordVal
  <2>2. Concrete!Wrap(Concrete!wordVar(q)) = Concrete!Wrap(q)
    BY <2>1 DEF Concrete!wordVar, Concrete!Wrap
  <2> QED BY Zenon, <2>2 DEF Concrete!jmp
<1>15. \A x : Symbolic!jmp(s, Symbolic!wordVar(x)) = Symbolic!jmp(s, x)
  BY Zenon DEF Symbolic!wordVar
<1> QED BY Zenon, <1>10, <1>11, <1>12, <1>13, <1>14, <1>15

LEMMA RowName ==
  ASSUME NEW names, NEW cycles, NEW r \in Rows(names, cycles)
  PROVE  r.name \in names
BY DEF Rows

\* JMPI has no row in the table.
LEMMA NoRow ==
  ASSUME NEW r \in instructions
  PROVE  r.name # "JMPI"
<1>1. ASSUME r \in Reads
      PROVE  r.name \in Arith \cup {"LDX", "LDY", "CPX", "CPY", "BIT"}
  BY Zenon, <1>1, RowName DEF Reads
<1>2. ASSUME r \in Modifies
      PROVE  r.name \in Modify
  BY Zenon, <1>2, RowName DEF Modifies
<1>3. ASSUME r \in Stores
      PROVE  r.name \in {"STA", "STX", "STY"}
  BY Zenon, <1>3, RowName DEF Stores
<1>4. ASSUME r \in Implied
      PROVE  r.name \in SetFlag \cup Registers \cup Shift \cup {"PHA", "PHP", "PLA", "PLP"}
  BY Zenon, <1>4, RowName DEF Implied
<1>5. ASSUME r \in Jumps
      PROVE  r.name \in Branches \cup {"JMP", "JSR", "RTI", "RTS"}
  BY Zenon, <1>5, RowName DEF Jumps
<1>6. "JMPI" \notin Arith \cup {"LDX", "LDY", "CPX", "CPY", "BIT"} \cup Modify \cup {"STA", "STX", "STY"}
  BY DEF Arith, Modify
<1>7. "JMPI" \notin SetFlag \cup Registers \cup Shift \cup {"PHA", "PHP", "PLA", "PLP"}
  BY DEF SetFlag, Registers, Shift
<1>8. "JMPI" \notin Branches \cup {"JMP", "JSR", "RTI", "RTS"}
  BY DEF Branches
<1> QED BY Zenon, <1>1, <1>2, <1>3, <1>4, <1>5, <1>6, <1>7, <1>8 DEF instructions

LEMMA JumpsAbsolute ==
  ASSUME NEW ins \in Known, ins.name = "JMPI"
  PROVE  ins.mode = "ABSOLUTE"
<1>1. CASE ins \in Variants(instructions, 10)
  <2>1. PICK r \in instructions :
          ins \in {instruction(r.name, r.mode, k) :
                     k \in {j \in 0 .. 10 - 1 : j < addr_mode_variants(r.mode)}}
    BY <1>1 DEF Variants
  <2>2. ins.name = r.name
    BY <2>1 DEF instruction
  <2> QED BY Zenon, <2>2, NoRow
<1>2. CASE ins \in {instruction("JMPI", "ABSOLUTE", k) : k \in 0 .. 3}
  BY <1>2 DEF instruction
<1> QED BY <1>1, <1>2 DEF Known

\* Whatever runs, and pointers included, each opcode of the first enumerator
\* does on both machines what its counterpart in the second does.
THEOREM OpcodesAreInstructions == Spec => GenerationsAgree
<1>1. IInv /\ [Next]_vars =>
        [\A o \in Opcode(Last(ran')) \cap Old!opcodes :
            /\ Concrete!Emulator!RunOpcode(rnd, o) = rnd'
            /\ Symbolic!Emulator!RunOpcode(abs, o) = abs']_vars
  <2> SUFFICES ASSUME IInv, Next, NEW o \in Opcode(Last(ran')), o \in Old!opcodes
               PROVE  /\ Concrete!Emulator!RunOpcode(rnd, o) = rnd'
                      /\ Symbolic!Emulator!RunOpcode(abs, o) = abs'
    BY Zenon
  <2>1. PICK ins \in Program(ran) \cap Known : Step(ins)
    BY Zenon DEF Next
  <2>2. /\ rnd' = Concrete!Emulator!Run(rnd, ins)
        /\ abs' = Symbolic!Emulator!Run(abs, ins)
        /\ ran' = Append(ran, ins)
    BY Zenon, <2>1 DEF Step
  <2>3. Last(ran') = ins
    <3>1. ran \in Seq(Known)
      BY Zenon DEF IInv
    <3> QED BY <2>2, <3>1 DEF Last
  <2>4. KnownOK(ins) /\ (ins.name = "JMPI" => ins.mode = "ABSOLUTE")
    BY Zenon, KnownInstructions, JumpsAbsolute
  <2>5. Both(Direct, rnd, abs)
    BY Zenon DEF IInv
  <2>6. Twin(ins, o)
    BY Zenon, <2>3, <2>4, TwinOf DEF KnownOK, OperandOK
  <2>7. CASE ins.name = "JMPI"
    BY Zenon, <2>2, <2>4, <2>5, <2>6, <2>7, IndirectAlike
  <2>8. CASE ins.name # "JMPI"
    BY Zenon, <2>2, <2>4, <2>5, <2>6, <2>8, ConcreteAlike, SymbolicAlike
  <2> QED BY Zenon, <2>7, <2>8
<1> QED BY <1>1, Invariant, PTL DEF Spec, GenerationsAgree
=============================================================================

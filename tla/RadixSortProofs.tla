-------------------------- MODULE RadixSortProofs ---------------------------
(***************************************************************************)
(* radix_sort leaves the file stably sorted, and a kill leaves a copy of   *)
(* every record, for every file, buffer and number of bits.                *)
(***************************************************************************)
EXTENDS RadixSort, FiniteSets, WellFoundedInduction, NaturalsInduction,
        SequenceTheorems, TLAPS

-----------------------------------------------------------------------------
(* The distribution of a buffer by a bit.                                  *)

LEMMA Least ==
    ASSUME NEW T, T \subseteq Nat, T # {}
    PROVE  \E m \in T : \A n \in T : m <= n
<1>1. PICK m \in T : \A n \in T : <<n, m>> \notin OpToRel(<, Nat)
  BY WFMin, NatLessThanWellFounded, Zenon
<1>2. \A n \in T : ~(n < m)
  BY <1>1, Zenon DEF OpToRel
<1> QED
  BY <1>2

\* What has been written of the first n records of a buffer.
Written(f, n, seq, b, v) ==
    IF n = 0 THEN <<>>
    ELSE IF Bit(seq[n], b) = v THEN Append(f[n - 1], seq[n])
    ELSE f[n - 1]

LEMMA LoopDefined ==
    ASSUME NEW seq, NEW b, NEW v, NEW len \in Nat
    PROVE  \E f : f = [n \in 0 .. len |-> Written(f, n, seq, b, v)]
<1> DEFINE Has(m) == \E f : f = [n \in 0 .. m |-> Written(f, n, seq, b, v)]
           T == {m \in Nat : ~Has(m)}
<1> SUFFICES ASSUME T # {} PROVE FALSE
  BY DEF T
<1>1. PICK m \in T : \A n \in T : m <= n
  BY Least
<1>2. CASE m = 0
  <2> DEFINE f == [n \in 0 .. 0 |-> <<>>]
  <2>1. f = [n \in 0 .. 0 |-> Written(f, n, seq, b, v)]
    BY DEF Written
  <2> QED
    BY <1>1, <1>2, <2>1
<1>3. CASE m # 0
  <2>1. m - 1 \in Nat /\ m \in Nat /\ Has(m - 1)
    BY <1>1, <1>3
  <2>2. PICK f : f = [n \in 0 .. m - 1 |-> Written(f, n, seq, b, v)]
    BY <2>1
  <2> DEFINE g == [n \in 0 .. m |-> IF n = m THEN Written(f, m, seq, b, v) ELSE f[n]]
  <2>3. \A n \in 0 .. m : n > 0 => g[n - 1] = f[n - 1]
    BY <2>1
  <2>4. \A n \in 0 .. m : Written(g, n, seq, b, v) = Written(f, n, seq, b, v)
    BY <2>1, <2>3 DEF Written
  <2>5. \A n \in 0 .. m : g[n] = Written(g, n, seq, b, v)
    <3>1. \A n \in 0 .. m - 1 : f[n] = Written(f, n, seq, b, v)
      BY <2>2
    <3> QED
      BY <2>1, <2>4, <3>1
  <2>6. g = [n \in 0 .. m |-> Written(g, n, seq, b, v)]
    BY <2>5
  <2> QED
    BY <1>1, <2>6
<1> QED
  BY <1>2, <1>3

LEMMA WithBitLoop ==
    ASSUME NEW seq, NEW b, NEW v, Len(seq) \in Nat
    PROVE  \E f : /\ \A n \in 0 .. Len(seq) : f[n] = Written(f, n, seq, b, v)
                  /\ WithBit(seq, b, v) = f[Len(seq)]
<1> DEFINE f == CHOOSE f : f = [n \in 0 .. Len(seq) |-> Written(f, n, seq, b, v)]
<1>1. f = [n \in 0 .. Len(seq) |-> Written(f, n, seq, b, v)]
  BY LoopDefined
<1>2. WithBit(seq, b, v) = f[Len(seq)]
  BY DEF WithBit, Written
<1> QED
  BY <1>1, <1>2

\* The sequence t has, in their order, those of the first n records of seq that
\* have a value of a bit; e tells where each of them is.
Picks(e, t, seq, n, b, v) ==
    /\ e \in [1 .. Len(t) -> 1 .. n]
    /\ \A p, q \in 1 .. Len(t) : p < q => e[p] < e[q]
    /\ \A p \in 1 .. Len(t) : t[p] = seq[e[p]] /\ Bit(t[p], b) = v
    /\ \A i \in 1 .. n : Bit(seq[i], b) = v => \E p \in 1 .. Len(t) : e[p] = i

Splits(t, u, seq, n, b) ==
    /\ t \in Seq(Record) /\ u \in Seq(Record)
    /\ Len(t) + Len(u) = n
    /\ \E e : Picks(e, t, seq, n, b, 0)
    /\ \E e : Picks(e, u, seq, n, b, 1)

LEMMA PicksNothing ==
    ASSUME NEW seq, NEW b, NEW v
    PROVE  \E e : Picks(e, <<>>, seq, 0, b, v)
<1> DEFINE e == [p \in 1 .. 0 |-> p]
<1>1. Len(<<>>) = 0
  OBVIOUS
<1>2. Picks(e, <<>>, seq, 0, b, v)
  BY <1>1 DEF Picks
<1> QED
  BY <1>2

\* A record with another value of the bit is passed over.
LEMMA PicksSame ==
    ASSUME NEW t \in Seq(Record), NEW seq, NEW n \in Nat \ {0}, NEW b, NEW v,
           NEW e, Picks(e, t, seq, n - 1, b, v), Bit(seq[n], b) # v
    PROVE  Picks(e, t, seq, n, b, v)
<1>1. Len(t) \in Nat
  BY LenProperties
<1>2. \A i \in 1 .. n : i = n \/ i \in 1 .. n - 1
  OBVIOUS
<1> QED
  BY <1>1, <1>2 DEF Picks

\* A record with the value of the bit is the last one that is written.
LEMMA PicksNext ==
    ASSUME NEW t \in Seq(Record), NEW seq, NEW n \in Nat \ {0}, NEW b, NEW v,
           NEW e, Picks(e, t, seq, n - 1, b, v), seq[n] \in Record, Bit(seq[n], b) = v
    PROVE  \E f : Picks(f, Append(t, seq[n]), seq, n, b, v)
<1> DEFINE u == Append(t, seq[n])
           f == [p \in 1 .. Len(t) + 1 |-> IF p <= Len(t) THEN e[p] ELSE n]
<1>1. /\ Len(t) \in Nat /\ Len(u) = Len(t) + 1
      /\ \A p \in 1 .. Len(t) : u[p] = t[p]
      /\ u[Len(t) + 1] = seq[n]
  BY LenProperties, AppendProperties
<1>2. e \in [1 .. Len(t) -> 1 .. n - 1]
  BY DEF Picks
<1> HIDE DEF u
<1>3. f \in [1 .. Len(u) -> 1 .. n]
  BY <1>1, <1>2
<1>4. \A p, q \in 1 .. Len(u) : p < q => f[p] < f[q]
  BY <1>1, <1>2 DEF Picks
<1>5. \A p \in 1 .. Len(u) : u[p] = seq[f[p]] /\ Bit(u[p], b) = v
  BY <1>1, <1>2 DEF Picks
<1>6. ASSUME NEW i \in 1 .. n, Bit(seq[i], b) = v
      PROVE  \E p \in 1 .. Len(u) : f[p] = i
  <2>1. CASE i = n
    BY <1>1, <2>1
  <2>2. CASE i \in 1 .. n - 1
    BY <1>1, <1>6, <2>2 DEF Picks
  <2>3. i = n \/ i \in 1 .. n - 1
    OBVIOUS
  <2> QED
    BY <2>1, <2>2, <2>3
<1>7. Picks(f, u, seq, n, b, v)
  BY <1>3, <1>4, <1>5, <1>6 DEF Picks
<1> QED
  BY <1>7 DEF u

\* One turn of the loop over the records of a buffer.
LEMMA SplitsNext ==
    ASSUME NEW t, NEW u, NEW seq, NEW n \in Nat \ {0}, NEW b \in 0 .. MaxBits - 1,
           Splits(t, u, seq, n - 1, b), seq[n] \in Record
    PROVE  Splits(IF Bit(seq[n], b) = 0 THEN Append(t, seq[n]) ELSE t,
                  IF Bit(seq[n], b) = 1 THEN Append(u, seq[n]) ELSE u, seq, n, b)
<1>1. /\ t \in Seq(Record) /\ u \in Seq(Record)
      /\ Len(t) \in Nat /\ Len(u) \in Nat /\ Len(t) + Len(u) = n - 1
  BY LenProperties DEF Splits
<1>2. PICK d, e : Picks(d, t, seq, n - 1, b, 0) /\ Picks(e, u, seq, n - 1, b, 1)
  BY DEF Splits
<1>3. Bit(seq[n], b) \in {0, 1}
  BY RecordAssumption DEF Bit
<1>4. CASE Bit(seq[n], b) = 0
  <2>1. Append(t, seq[n]) \in Seq(Record) /\ Len(Append(t, seq[n])) = Len(t) + 1
    BY <1>1, AppendProperties
  <2>2. \E f : Picks(f, Append(t, seq[n]), seq, n, b, 0)
    BY <1>1, <1>2, <1>4, PicksNext
  <2>3. Picks(e, u, seq, n, b, 1)
    BY <1>1, <1>2, <1>4, PicksSame
  <2>4. Splits(Append(t, seq[n]), u, seq, n, b)
    BY <1>1, <2>1, <2>2, <2>3 DEF Splits
  <2> QED
    BY <1>4, <2>4
<1>5. CASE Bit(seq[n], b) = 1
  <2>1. Append(u, seq[n]) \in Seq(Record) /\ Len(Append(u, seq[n])) = Len(u) + 1
    BY <1>1, AppendProperties
  <2>2. \E f : Picks(f, Append(u, seq[n]), seq, n, b, 1)
    BY <1>1, <1>2, <1>5, PicksNext
  <2>3. Picks(d, t, seq, n, b, 0)
    BY <1>1, <1>2, <1>5, PicksSame
  <2>4. Splits(t, Append(u, seq[n]), seq, n, b)
    BY <1>1, <2>1, <2>2, <2>3 DEF Splits
  <2> QED
    BY <1>5, <2>4
<1> QED
  BY <1>3, <1>4, <1>5

\* The loop over the records of a buffer splits it by the bit.
LEMMA WithBitSplits ==
    ASSUME NEW seq \in Seq(Record), NEW b \in 0 .. MaxBits - 1
    PROVE  Splits(WithBit(seq, b, 0), WithBit(seq, b, 1), seq, Len(seq), b)
<1>1. Len(seq) \in Nat /\ \A i \in 1 .. Len(seq) : seq[i] \in Record
  BY LenProperties, ElementOfSeq
<1>2. PICK f : /\ \A n \in 0 .. Len(seq) : f[n] = Written(f, n, seq, b, 0)
               /\ WithBit(seq, b, 0) = f[Len(seq)]
  BY <1>1, WithBitLoop
<1>3. PICK g : /\ \A n \in 0 .. Len(seq) : g[n] = Written(g, n, seq, b, 1)
               /\ WithBit(seq, b, 1) = g[Len(seq)]
  BY <1>1, WithBitLoop
<1> DEFINE T == {n \in 0 .. Len(seq) : ~Splits(f[n], g[n], seq, n, b)}
<1>4. T = {}
  <2> SUFFICES ASSUME T # {} PROVE FALSE
    OBVIOUS
  <2>1. T \subseteq Nat
    BY <1>1
  <2>2. PICK n \in T : \A m \in T : n <= m
    BY <2>1, Least
  <2>3. n \in 0 .. Len(seq) /\ ~Splits(f[n], g[n], seq, n, b)
    OBVIOUS
  <2>4. \A m \in 0 .. Len(seq) : m < n => Splits(f[m], g[m], seq, m, b)
    BY <1>1, <2>2
  <2> HIDE DEF T
  <2>5. CASE n = 0
    <3>1. f[n] = <<>> /\ g[n] = <<>>
      BY <1>1, <1>2, <1>3, <2>5 DEF Written
    <3>2. /\ \E e : Picks(e, <<>>, seq, n, b, 0)
          /\ \E e : Picks(e, <<>>, seq, n, b, 1)
      BY <2>5, PicksNothing
    <3>3. Splits(<<>>, <<>>, seq, n, b)
      BY <2>5, <3>2 DEF Splits
    <3> QED
      BY <2>3, <3>1, <3>3
  <2>6. CASE n # 0
    <3>1. n \in Nat \ {0} /\ n \in 1 .. Len(seq) /\ n - 1 \in 0 .. Len(seq)
      BY <1>1, <2>3, <2>6
    <3>2. Splits(f[n - 1], g[n - 1], seq, n - 1, b)
      BY <1>1, <2>4, <3>1
    <3>3. /\ f[n] = IF Bit(seq[n], b) = 0 THEN Append(f[n - 1], seq[n]) ELSE f[n - 1]
          /\ g[n] = IF Bit(seq[n], b) = 1 THEN Append(g[n - 1], seq[n]) ELSE g[n - 1]
      BY <1>2, <1>3, <2>3, <2>6 DEF Written
    <3> QED
      BY <1>1, <2>3, <3>1, <3>2, <3>3, SplitsNext
  <2> QED
    BY <2>5, <2>6
<1>5. Len(seq) \in 0 .. Len(seq)
  BY <1>1
<1> QED
  BY <1>2, <1>3, <1>4, <1>5

LEMMA PicksMore ==
    ASSUME NEW t \in Seq(Record), NEW u \in Seq(Record), NEW seq, NEW data,
           NEW n \in Nat, NEW m \in Nat, NEW b, NEW v, NEW e, NEW d,
           Picks(e, t, seq, n, b, v), Picks(d, u, data, m, b, v),
           \A i \in 1 .. m : data[i] = seq[n + i]
    PROVE  \E f : Picks(f, t \o u, seq, n + m, b, v)
<1> DEFINE w == t \o u
           f == [p \in 1 .. Len(t) + Len(u) |->
                   IF p <= Len(t) THEN e[p] ELSE n + d[p - Len(t)]]
<1>1. /\ Len(t) \in Nat /\ Len(u) \in Nat /\ Len(w) = Len(t) + Len(u)
      /\ \A p \in 1 .. Len(t) : w[p] = t[p]
      /\ \A p \in 1 .. Len(u) : w[Len(t) + p] = u[p]
  BY LenProperties, ConcatProperties
<1>2. e \in [1 .. Len(t) -> 1 .. n] /\ d \in [1 .. Len(u) -> 1 .. m]
  BY DEF Picks
<1> HIDE DEF w
<1>3. /\ \A p \in 1 .. Len(t) : f[p] = e[p]
      /\ \A p \in 1 .. Len(u) : f[Len(t) + p] = n + d[p]
  BY <1>1
<1>4. \A p \in 1 .. Len(w) : p \in 1 .. Len(t) \/ \E q \in 1 .. Len(u) : p = Len(t) + q
  <2> SUFFICES ASSUME NEW p \in 1 .. Len(w), p \notin 1 .. Len(t)
               PROVE  \E q \in 1 .. Len(u) : p = Len(t) + q
    OBVIOUS
  <2>1. p - Len(t) \in 1 .. Len(u) /\ p = Len(t) + (p - Len(t))
    BY <1>1
  <2> QED
    BY <2>1
<1>5. f \in [1 .. Len(w) -> 1 .. n + m]
  BY <1>1, <1>2
<1>6. ASSUME NEW p \in 1 .. Len(w), NEW q \in 1 .. Len(w), p < q
      PROVE  f[p] < f[q]
  <2>1. CASE q \in 1 .. Len(t)
    BY <1>1, <1>3, <1>6, <2>1 DEF Picks
  <2>2. CASE p \in 1 .. Len(t) /\ q \notin 1 .. Len(t)
    <3>1. PICK k \in 1 .. Len(u) : q = Len(t) + k
      BY <1>4, <2>2
    <3>2. e[p] \in 1 .. n /\ d[k] \in 1 .. m
      BY <1>2, <2>2, <3>1
    <3>3. f[p] = e[p] /\ f[q] = n + d[k]
      BY <1>3, <2>2, <3>1
    <3>4. e[p] < n + d[k]
      BY <3>2
    <3> QED
      BY <3>3, <3>4
  <2>3. CASE p \notin 1 .. Len(t)
    <3>1. q \notin 1 .. Len(t)
      BY <1>1, <1>6, <2>3
    <3>2. PICK k \in 1 .. Len(u), l \in 1 .. Len(u) : p = Len(t) + k /\ q = Len(t) + l
      BY <1>4, <2>3, <3>1
    <3>3. k < l
      BY <1>1, <1>6, <3>2
    <3>4. d[k] < d[l]
      BY <3>3 DEF Picks
    <3>5. d[k] \in 1 .. m /\ d[l] \in 1 .. m
      BY <1>2
    <3>6. n + d[k] < n + d[l]
      BY <3>4, <3>5
    <3> QED
      BY <1>3, <3>2, <3>6
  <2> QED
    BY <2>1, <2>2, <2>3
<1>7. ASSUME NEW p \in 1 .. Len(w)
      PROVE  w[p] = seq[f[p]] /\ Bit(w[p], b) = v
  <2>1. CASE p \in 1 .. Len(t)
    BY <1>1, <1>3, <2>1 DEF Picks
  <2>2. CASE p \notin 1 .. Len(t)
    <3>1. PICK k \in 1 .. Len(u) : p = Len(t) + k
      BY <1>4, <2>2
    <3>2. u[k] = data[d[k]] /\ Bit(u[k], b) = v /\ d[k] \in 1 .. m
      BY <1>2 DEF Picks
    <3> QED
      BY <1>1, <1>3, <3>1, <3>2
  <2> QED
    BY <2>1, <2>2
<1>8. ASSUME NEW i \in 1 .. n + m, Bit(seq[i], b) = v
      PROVE  \E p \in 1 .. Len(w) : f[p] = i
  <2>1. CASE i \in 1 .. n
    <3>1. PICK p \in 1 .. Len(t) : e[p] = i
      BY <1>8, <2>1 DEF Picks
    <3>2. p \in 1 .. Len(w)
      BY <1>1
    <3> QED
      BY <1>3, <3>1, <3>2
  <2>2. CASE i \notin 1 .. n
    <3>1. i - n \in 1 .. m /\ i = n + (i - n)
      BY <2>2
    <3>2. data[i - n] = seq[i]
      BY <3>1
    <3>3. PICK p \in 1 .. Len(u) : d[p] = i - n
      BY <1>8, <3>1, <3>2 DEF Picks
    <3>4. Len(t) + p \in 1 .. Len(w) /\ f[Len(t) + p] = n + d[p]
      BY <1>1, <1>3
    <3> QED
      BY <3>1, <3>3, <3>4
  <2> QED
    BY <2>1, <2>2
<1>9. Picks(f, w, seq, n + m, b, v)
  BY <1>5, <1>6, <1>7, <1>8 DEF Picks
<1> QED
  BY <1>9 DEF w

\* Another buffer is distributed after those before it.
LEMMA SplitsMore ==
    ASSUME NEW t, NEW u, NEW seq, NEW n \in Nat, NEW b \in 0 .. MaxBits - 1,
           Splits(t, u, seq, n, b), NEW data \in Seq(Record),
           \A i \in 1 .. Len(data) : data[i] = seq[n + i]
    PROVE  Splits(t \o WithBit(data, b, 0), u \o WithBit(data, b, 1),
                  seq, n + Len(data), b)
<1>1. Splits(WithBit(data, b, 0), WithBit(data, b, 1), data, Len(data), b)
  BY WithBitSplits
<1>2. PICK x, y : x = WithBit(data, b, 0) /\ y = WithBit(data, b, 1)
  OBVIOUS
<1>3. /\ t \in Seq(Record) /\ u \in Seq(Record) /\ x \in Seq(Record) /\ y \in Seq(Record)
      /\ Len(t) + Len(u) = n /\ Len(x) + Len(y) = Len(data)
  BY <1>1, <1>2 DEF Splits
<1>4. /\ Len(t) \in Nat /\ Len(u) \in Nat /\ Len(x) \in Nat /\ Len(y) \in Nat
      /\ Len(data) \in Nat
  BY <1>3, LenProperties
<1>5. /\ t \o x \in Seq(Record) /\ Len(t \o x) = Len(t) + Len(x)
      /\ u \o y \in Seq(Record) /\ Len(u \o y) = Len(u) + Len(y)
  BY <1>3, ConcatProperties
<1>6. \E f : Picks(f, t \o x, seq, n + Len(data), b, 0)
  <2>1. PICK d, e : Picks(d, t, seq, n, b, 0) /\ Picks(e, x, data, Len(data), b, 0)
    BY <1>1, <1>2 DEF Splits
  <2> QED
    BY <1>3, <1>4, <2>1, PicksMore
<1>7. \E f : Picks(f, u \o y, seq, n + Len(data), b, 1)
  <2>1. PICK d, e : Picks(d, u, seq, n, b, 1) /\ Picks(e, y, data, Len(data), b, 1)
    BY <1>1, <1>2 DEF Splits
  <2> QED
    BY <1>3, <1>4, <2>1, PicksMore
<1>8. Len(t \o x) + Len(u \o y) = n + Len(data)
  <2>1. PICK i, j, k, l : i = Len(t) /\ j = Len(u) /\ k = Len(x) /\ l = Len(y)
    OBVIOUS
  <2>2. i \in Nat /\ j \in Nat /\ k \in Nat /\ l \in Nat /\ i + j = n /\ k + l = Len(data)
    BY <1>3, <1>4, <2>1
  <2>3. (i + k) + (j + l) = n + Len(data)
    BY <2>2
  <2> QED
    BY <1>5, <2>1, <2>3
<1>9. Splits(t \o x, u \o y, seq, n + Len(data), b)
  BY <1>5, <1>6, <1>7, <1>8 DEF Splits
<1> QED
  BY <1>2, <1>9

-----------------------------------------------------------------------------
(* A pass sorts by one more bit.                                           *)

LEMMA OneMoreBit ==
    ASSUME NEW r \in Record, NEW s \in Record, NEW n \in 0 .. MaxBits - 1
    PROVE  /\ Bit(r, n) = Bit(s, n) /\ Lower(r, s, n) => Lower(r, s, n + 1)
           /\ Bit(r, n) = Bit(s, n) /\ Same(r, s, n) => Same(r, s, n + 1)
           /\ Bit(r, n) = 0 /\ Bit(s, n) = 1 => Lower(r, s, n + 1)
<1>1. n \in Nat /\ \A c \in 0 .. (n + 1) - 1 : c = n \/ c \in 0 .. n - 1
  BY SizeAssumption
<1>2. ASSUME Bit(r, n) = Bit(s, n), Lower(r, s, n) PROVE Lower(r, s, n + 1)
  <2>1. PICK b \in 0 .. n - 1 : /\ Bit(r, b) < Bit(s, b)
                                /\ \A c \in b + 1 .. n - 1 : Bit(r, c) = Bit(s, c)
    BY <1>2 DEF Lower
  <2>2. /\ b \in 0 .. (n + 1) - 1
        /\ \A c \in b + 1 .. (n + 1) - 1 : c = n \/ c \in b + 1 .. n - 1
    BY <1>1
  <2> QED
    BY <1>2, <2>1, <2>2 DEF Lower
<1>3. ASSUME Bit(r, n) = 0, Bit(s, n) = 1 PROVE Lower(r, s, n + 1)
  <2>1. n \in 0 .. (n + 1) - 1 /\ \A c \in n + 1 .. (n + 1) - 1 : FALSE
    BY <1>1
  <2> QED
    BY <1>3, <2>1 DEF Lower
<1> QED
  BY <1>1, <1>2, <1>3 DEF Same

LEMMA PassSorts ==
    ASSUME input \in Seq(Record), NEW n \in 0 .. MaxBits - 1, NEW seq \in Seq(Record),
           StablySorted(seq, n), NEW t, NEW u, Splits(t, u, seq, Len(seq), n)
    PROVE  t \o u \in Seq(Record) /\ StablySorted(t \o u, n + 1)
<1> DEFINE w == t \o u
<1>1. /\ t \in Seq(Record) /\ u \in Seq(Record) /\ Len(t) + Len(u) = Len(seq)
  BY DEF Splits
<1>2. PICK d, e : Picks(d, t, seq, Len(seq), n, 0) /\ Picks(e, u, seq, Len(seq), n, 1)
  BY DEF Splits
<1>3. /\ Len(t) \in Nat /\ Len(u) \in Nat /\ Len(seq) \in Nat
      /\ DOMAIN input = 1 .. Len(input) /\ DOMAIN seq = 1 .. Len(seq)
      /\ \A i \in 1 .. Len(seq) : seq[i] \in Record
      /\ \A i \in DOMAIN input : input[i] \in Record
  BY <1>1, LenProperties, ElementOfSeq
<1>4. /\ w \in Seq(Record) /\ Len(w) = Len(t) + Len(u) /\ DOMAIN w = 1 .. Len(w)
      /\ \A p \in 1 .. Len(t) : w[p] = t[p]
      /\ \A p \in 1 .. Len(u) : w[Len(t) + p] = u[p]
  <2>1. w \in Seq(Record) /\ Len(w) = Len(t) + Len(u)
    BY <1>1, ConcatProperties
  <2> QED
    BY <1>1, <1>3, <2>1, LenProperties, ConcatProperties
<1> HIDE DEF w
<1>5. \A p \in 1 .. Len(w) : p \in 1 .. Len(t) \/ \E q \in 1 .. Len(u) : p = Len(t) + q
  <2> SUFFICES ASSUME NEW p \in 1 .. Len(w), p \notin 1 .. Len(t)
               PROVE  \E q \in 1 .. Len(u) : p = Len(t) + q
    OBVIOUS
  <2>1. p - Len(t) \in 1 .. Len(u) /\ p = Len(t) + (p - Len(t))
    BY <1>3, <1>4
  <2> QED
    BY <2>1
<1>6. /\ \A p \in 1 .. Len(t) : /\ d[p] \in 1 .. Len(seq) /\ t[p] = seq[d[p]]
                                /\ Bit(t[p], n) = 0
      /\ \A p \in 1 .. Len(u) : /\ e[p] \in 1 .. Len(seq) /\ u[p] = seq[e[p]]
                                /\ Bit(u[p], n) = 1
  BY <1>2 DEF Picks
<1>7. \A k \in 1 .. Len(seq) : \E i \in DOMAIN input : seq[k] = input[i]
  BY <1>3 DEF StablySorted, Whole, ToSet
<1>8. Whole(w)
  <2>1. Len(w) = Len(input)
    BY <1>1, <1>4 DEF StablySorted, Whole
  <2>2. ASSUME NEW p \in 1 .. Len(w) PROVE \E k \in 1 .. Len(seq) : w[p] = seq[k]
    <3>1. CASE p \in 1 .. Len(t)
      BY <1>4, <1>6, <3>1
    <3>2. CASE p \notin 1 .. Len(t)
      <4>1. PICK q \in 1 .. Len(u) : p = Len(t) + q
        BY <1>5, <3>2
      <4> QED
        BY <1>4, <1>6, <4>1
    <3> QED
      BY <3>1, <3>2
  <2>3. ASSUME NEW k \in 1 .. Len(seq) PROVE \E p \in 1 .. Len(w) : w[p] = seq[k]
    <3>1. Bit(seq[k], n) \in {0, 1}
      BY <1>3, RecordAssumption DEF Bit
    <3>2. CASE Bit(seq[k], n) = 0
      <4>1. PICK p \in 1 .. Len(t) : d[p] = k
        BY <1>2, <3>2 DEF Picks
      <4>2. p \in 1 .. Len(w)
        BY <1>3, <1>4
      <4> QED
        BY <1>4, <1>6, <4>1, <4>2
    <3>3. CASE Bit(seq[k], n) = 1
      <4>1. PICK p \in 1 .. Len(u) : e[p] = k
        BY <1>2, <3>3 DEF Picks
      <4>2. Len(t) + p \in 1 .. Len(w)
        BY <1>3, <1>4
      <4> QED
        BY <1>4, <1>6, <4>1, <4>2
    <3> QED
      BY <3>1, <3>2, <3>3
  <2>4. ToSet(w) = ToSet(seq)
    <3>1. ToSet(w) = {w[p] : p \in 1 .. Len(w)}
      BY <1>4 DEF ToSet
    <3>2. ToSet(seq) = {seq[k] : k \in 1 .. Len(seq)}
      BY <1>3 DEF ToSet
    <3> QED
      BY <2>2, <2>3, <3>1, <3>2
  <2> QED
    BY <2>1, <2>4 DEF Whole, StablySorted
<1>9. ASSUME NEW p \in 1 .. Len(w), NEW q \in 1 .. Len(w), p < q
      PROVE  \E i, j \in DOMAIN input :
                w[p] = input[i] /\ w[q] = input[j] /\ Before(i, j, n + 1)
  <2>1. ASSUME NEW k \in 1 .. Len(seq), NEW l \in 1 .. Len(seq), k < l,
               Bit(seq[k], n) = Bit(seq[l], n)
        PROVE  \E i, j \in DOMAIN input :
                  seq[k] = input[i] /\ seq[l] = input[j] /\ Before(i, j, n + 1)
    <3>1. PICK i \in DOMAIN input, j \in DOMAIN input :
            seq[k] = input[i] /\ seq[l] = input[j] /\ Before(i, j, n)
      BY <1>3, <2>1 DEF StablySorted
    <3>2. Before(i, j, n + 1)
      BY <1>3, <2>1, <3>1, OneMoreBit DEF Before
    <3> QED
      BY <3>1, <3>2
  <2>2. CASE q \in 1 .. Len(t)
    <3>1. p \in 1 .. Len(t) /\ d[p] < d[q]
      BY <1>2, <1>3, <1>9, <2>2 DEF Picks
    <3>2. /\ w[p] = seq[d[p]] /\ w[q] = seq[d[q]]
          /\ d[p] \in 1 .. Len(seq) /\ d[q] \in 1 .. Len(seq)
          /\ Bit(seq[d[p]], n) = Bit(seq[d[q]], n)
      BY <1>4, <1>6, <2>2, <3>1
    <3>3. PICK k \in 1 .. Len(seq), l \in 1 .. Len(seq) : k = d[p] /\ l = d[q]
      BY <3>2
    <3>4. k < l /\ Bit(seq[k], n) = Bit(seq[l], n)
      BY <3>1, <3>2, <3>3
    <3> QED
      BY <2>1, <3>2, <3>3, <3>4
  <2>3. CASE p \in 1 .. Len(t) /\ q \notin 1 .. Len(t)
    <3>1. PICK k \in 1 .. Len(u) : q = Len(t) + k
      BY <1>5, <2>3
    <3>2. /\ w[p] = seq[d[p]] /\ d[p] \in 1 .. Len(seq) /\ Bit(w[p], n) = 0
          /\ w[q] = seq[e[k]] /\ e[k] \in 1 .. Len(seq) /\ Bit(w[q], n) = 1
      BY <1>4, <1>6, <2>3, <3>1
    <3>3. PICK i \in DOMAIN input, j \in DOMAIN input : w[p] = input[i] /\ w[q] = input[j]
      BY <1>7, <3>2
    <3>4. Lower(input[i], input[j], n + 1)
      BY <1>3, <3>2, <3>3, OneMoreBit
    <3> QED
      BY <3>3, <3>4 DEF Before
  <2>4. CASE p \notin 1 .. Len(t) /\ q \notin 1 .. Len(t)
    <3>1. PICK k \in 1 .. Len(u), l \in 1 .. Len(u) : p = Len(t) + k /\ q = Len(t) + l
      BY <1>5, <2>4
    <3>2. k < l
      BY <1>3, <1>9, <3>1
    <3>3. e[k] < e[l]
      BY <1>2, <3>2 DEF Picks
    <3>4. /\ w[p] = seq[e[k]] /\ w[q] = seq[e[l]]
          /\ e[k] \in 1 .. Len(seq) /\ e[l] \in 1 .. Len(seq)
          /\ Bit(seq[e[k]], n) = Bit(seq[e[l]], n)
      BY <1>4, <1>6, <3>1
    <3>5. PICK x \in 1 .. Len(seq), y \in 1 .. Len(seq) : x = e[k] /\ y = e[l]
      BY <3>4
    <3>6. x < y /\ Bit(seq[x], n) = Bit(seq[y], n)
      BY <3>3, <3>4, <3>5
    <3>7. PICK i \in DOMAIN input, j \in DOMAIN input :
            seq[x] = input[i] /\ seq[y] = input[j] /\ Before(i, j, n + 1)
      BY <2>1, <3>6
    <3> QED
      BY <3>4, <3>5, <3>7
  <2> QED
    BY <2>2, <2>3, <2>4
<1>10. StablySorted(w, n + 1)
  BY <1>4, <1>8, <1>9 DEF StablySorted
<1> QED
  BY <1>4, <1>10 DEF w

-----------------------------------------------------------------------------
(* The inductive invariant.                                                *)

\* The pair that is read, what is read, and how much of it has been read.
SourcePair == PairOfPass(bit + 1)
Source     == IF pc = "read" /\ bit = 0 THEN file ELSE Pair(SourcePair)
Consumed   == IF from = 1 THEN Len(out[SourcePair][0]) + pos ELSE pos

Typed ==
    /\ input \in Seq(Record)
    /\ bits \in 1 .. MaxBits
    /\ bit \in 0 .. bits
    /\ file \in Seq(Record)
    /\ out \in [{0, 1} -> [{0, 1} -> Seq(Record)]]
    /\ pc \in {"open", "read", "copy", "done", "crashed"}
    /\ from \in {0, 1}
    /\ pos \in Nat

\* The file is not touched before the last pass is done.
Untouched == pc \in {"open", "read"} => file = input

Between == pc = "open" /\ bit > 0 => StablySorted(Pair(SourcePair), bit)

\* In a pass, what has been read is split by the bit, in its order.
Reading ==
    pc = "read" =>
        /\ bit < bits
        /\ bit = 0 => from = 0
        /\ StablySorted(Source, bit)
        /\ pos <= Len(Stream)
        /\ Splits(out[PairOfPass(bit)][0], out[PairOfPass(bit)][1], Source, Consumed, bit)

\* At the end, what has been read is what has been written.
Copying ==
    pc = "copy" =>
        /\ bit = bits
        /\ StablySorted(Source, bits)
        /\ pos <= Len(Stream)
        /\ Len(file) = Consumed
        /\ \A i \in 1 .. Consumed : file[i] = Source[i]

Stopped ==
    /\ pc = "done" => StablySorted(file, bits)
    /\ pc = "crashed" => Recoverable

IInv == Typed /\ Untouched /\ Between /\ Reading /\ Copying /\ Stopped

LEMMA InputTyped ==
    ASSUME Init
    PROVE  Typed
<1>1. input \in Seq(Record) /\ file \in Seq(Record)
  BY InputAssumption DEF Init
<1>2. \A left \in Inputs : [k \in {0, 1} |-> [b \in {0, 1} |-> left]]
                             \in [{0, 1} -> [{0, 1} -> Seq(Record)]]
  BY InputAssumption
<1>3. out \in [{0, 1} -> [{0, 1} -> Seq(Record)]]
  BY <1>2 DEF Init
<1> QED
  BY <1>1, <1>3, SizeAssumption DEF Init, Typed

\* A file is in the order of its low 0 bits.
LEMMA SortedByNothing ==
    ASSUME input \in Seq(Record)
    PROVE  StablySorted(input, 0)
<1>1. DOMAIN input = 1 .. Len(input) /\ Len(input) \in Nat
  BY LenProperties
<1>2. \A i, j \in DOMAIN input : i < j => Before(i, j, 0)
  BY DEF Before, Same
<1> QED
  BY <1>2 DEF StablySorted, Whole

\* The pairs take turns, and the last pass ends on the pair that is copied.
LEMMA PairsTakeTurns ==
    ASSUME NEW n \in Nat
    PROVE  /\ PairOfPass(n) \in {0, 1} /\ PairOfPass(n + 1) \in {0, 1}
           /\ PairOfPass(n) # PairOfPass(n + 1)
           /\ PairOfPass((n + 1) + 1) = PairOfPass(n)
           /\ n > 0 => PairOfPass(n - 1) = PairOfPass(n + 1)
BY DEF PairOfPass

LEMMA LastPairRead ==
    ASSUME bits \in Nat
    PROVE  LastPair = PairOfPass(bits + 1)
BY DEF LastPair, PairOfPass

LEMMA ReadsOn ==
    ASSUME NEW s \in Seq(Record), NEW p \in Nat, p <= Len(s), NEW c \in Nat \ {0}, NEW d,
           d = SubSeq(s, p + 1, p + IF Len(s) - p < c THEN Len(s) - p ELSE c)
    PROVE  /\ d \in Seq(Record) /\ Len(d) \in Nat
           /\ \A i \in 1 .. Len(d) : d[i] = s[p + i]
           /\ p + Len(d) <= Len(s)
           /\ Len(s) - p < c => p + Len(d) = Len(s)
<1>1. Len(s) \in Nat /\ \A i \in 1 .. Len(s) : s[i] \in Record
  BY LenProperties, ElementOfSeq
<1>2. PICK k : k = IF Len(s) - p < c THEN Len(s) - p ELSE c
  OBVIOUS
<1>3. k \in Nat /\ p + k <= Len(s) /\ (Len(s) - p < c => p + k = Len(s))
  BY <1>1, <1>2
<1>4. p + 1 \in Int /\ p + k \in Int /\ \A i \in p + 1 .. p + k : s[i] \in Record
  BY <1>1, <1>3
<1>5. /\ d \in Seq(Record)
      /\ Len(d) = IF p + 1 <= p + k THEN (p + k) - (p + 1) + 1 ELSE 0
      /\ \A i \in 1 .. (p + k) - (p + 1) + 1 : d[i] = s[(p + 1) + i - 1]
  BY <1>2, <1>4, SubSeqProperties
<1>6. Len(d) = k
  BY <1>3, <1>5
<1>7. ASSUME NEW i \in 1 .. k PROVE d[i] = s[p + i]
  <2>1. i \in 1 .. (p + k) - (p + 1) + 1 /\ (p + 1) + i - 1 = p + i
    BY <1>3
  <2> QED
    BY <1>5, <2>1
<1> QED
  BY <1>3, <1>5, <1>6, <1>7

\* What is read next of the stream.
LEMMA StreamRead ==
    ASSUME Typed, pc \in {"read", "copy"}, pc = "copy" => bit = bits, pos <= Len(Stream)
    PROVE  /\ Stream = IF pc = "read" /\ bit = 0 THEN file ELSE out[SourcePair][from]
           /\ Stream \in Seq(Record) /\ Len(Stream) \in Nat
           /\ Data \in Seq(Record) /\ Len(Data) \in Nat
           /\ \A i \in 1 .. Len(Data) : Data[i] = Stream[pos + i]
           /\ pos + Len(Data) <= Len(Stream)
           /\ Eof => pos + Len(Data) = Len(Stream)
<1>1. Stream = IF pc = "read" /\ bit = 0 THEN file ELSE out[SourcePair][from]
  BY LastPairRead DEF Stream, SourcePair, Typed
<1>2. SourcePair \in {0, 1}
  BY PairsTakeTurns DEF SourcePair, Typed
<1>3. Stream \in Seq(Record) /\ Len(Stream) \in Nat
  BY <1>1, <1>2, LenProperties DEF Typed
<1>4. PICK s : s = Stream
  OBVIOUS
<1>5. PICK d : d = Data
  OBVIOUS
<1>6. d = SubSeq(s, pos + 1, pos + IF Len(s) - pos < Chunk THEN Len(s) - pos ELSE Chunk)
  BY <1>4, <1>5 DEF Data, Rest
<1>7. /\ d \in Seq(Record) /\ Len(d) \in Nat
      /\ \A i \in 1 .. Len(d) : d[i] = s[pos + i]
      /\ pos + Len(d) <= Len(s)
      /\ Len(s) - pos < Chunk => pos + Len(d) = Len(s)
  BY <1>3, <1>4, <1>6, SizeAssumption, ReadsOn DEF Typed
<1> QED
  BY <1>1, <1>3, <1>4, <1>5, <1>7 DEF Eof, Rest

\* The same, of the one or two streams as a whole.
LEMMA SourceRead ==
    ASSUME Typed, pc \in {"read", "copy"}, pc = "copy" => bit = bits, pos <= Len(Stream),
           pc = "read" /\ bit = 0 => from = 0
    PROVE  /\ Source \in Seq(Record) /\ Consumed \in Nat /\ Len(Source) \in Nat
           /\ \A i \in 1 .. Len(Data) : Data[i] = Source[Consumed + i]
           /\ Consumed + Len(Data) <= Len(Source)
           /\ Eof /\ LastStream => Consumed + Len(Data) = Len(Source)
           /\ Eof /\ ~LastStream => Consumed + Len(Data) = Len(out[SourcePair][0])
<1>1. /\ Stream = IF pc = "read" /\ bit = 0 THEN file ELSE out[SourcePair][from]
      /\ Data \in Seq(Record) /\ Len(Data) \in Nat /\ Len(Stream) \in Nat
      /\ \A i \in 1 .. Len(Data) : Data[i] = Stream[pos + i]
      /\ pos + Len(Data) <= Len(Stream)
      /\ Eof => pos + Len(Data) = Len(Stream)
  BY StreamRead
<1>2. PICK n \in Nat : n = Len(Data)
  BY <1>1
<1>3. pos \in Nat /\ from \in {0, 1}
  BY DEF Typed
<1>4. CASE pc = "read" /\ bit = 0
  <2>1. Source = file /\ Stream = file /\ Consumed = pos /\ LastStream
    BY <1>1, <1>4 DEF Source, Consumed, LastStream
  <2> QED
    BY <1>1, <1>3, <2>1 DEF Typed
<1>5. CASE ~(pc = "read" /\ bit = 0)
  <2>1. SourcePair \in {0, 1}
    BY PairsTakeTurns DEF SourcePair, Typed
  <2>2. PICK t \in Seq(Record), u \in Seq(Record) :
           t = out[SourcePair][0] /\ u = out[SourcePair][1]
    BY <2>1 DEF Typed
  <2>3. PICK j \in Nat, k \in Nat : j = Len(t) /\ k = Len(u)
    BY <2>2, LenProperties
  <2>4. /\ Source = t \o u /\ Source \in Seq(Record) /\ Len(Source) = j + k
        /\ \A i \in 1 .. j + k : Source[i] = IF i <= j THEN t[i] ELSE u[i - j]
    <3>1. Source = t \o u
      BY <1>5, <2>2 DEF Source, Pair
    <3> QED
      BY <2>3, <3>1, ConcatProperties
  <2>5. LastStream <=> from = 1
    BY <1>5 DEF LastStream
  <2>6. CASE from = 0
    <3>1. Stream = t /\ Consumed = pos
      BY <1>1, <1>5, <2>2, <2>6 DEF Consumed
    <3>2. pos + n <= j /\ (Eof => pos + n = j)
      BY <1>1, <1>2, <2>3, <3>1
    <3>3. ASSUME NEW i \in 1 .. n PROVE Data[i] = Source[Consumed + i]
      <4>1. pos + i \in 1 .. j + k /\ pos + i <= j
        BY <1>3, <3>2
      <4> QED
        BY <1>1, <1>2, <2>4, <3>1, <4>1
    <3>4. Consumed + n <= j + k /\ Consumed \in Nat /\ j + k \in Nat
      BY <1>3, <3>1, <3>2
    <3>5. ~LastStream /\ (Eof => Consumed + n = j)
      BY <2>5, <2>6, <3>1, <3>2
    <3> QED
      BY <1>2, <2>2, <2>3, <2>4, <3>3, <3>4, <3>5
  <2>7. CASE from = 1
    <3>1. Stream = u /\ Consumed = j + pos
      BY <1>1, <1>5, <2>2, <2>3, <2>7 DEF Consumed
    <3>2. pos + n <= k /\ (Eof => pos + n = k)
      BY <1>1, <1>2, <2>3, <3>1
    <3>3. ASSUME NEW i \in 1 .. n PROVE Data[i] = Source[Consumed + i]
      <4>1. (j + pos) + i \in 1 .. j + k /\ ~((j + pos) + i <= j) /\ ((j + pos) + i) - j = pos + i
        BY <1>3, <3>2
      <4> QED
        BY <1>1, <1>2, <2>4, <3>1, <4>1
    <3>4. Consumed + n <= j + k /\ Consumed \in Nat /\ j + k \in Nat
      BY <1>3, <3>1, <3>2
    <3>5. LastStream /\ (Eof => Consumed + n = j + k)
      BY <1>3, <2>5, <2>7, <3>1, <3>2
    <3> QED
      BY <1>2, <2>4, <3>3, <3>4, <3>5
  <2> QED
    BY <1>3, <2>6, <2>7
<1> QED
  BY <1>4, <1>5

-----------------------------------------------------------------------------
(* Every step preserves it.                                                *)

\* The records of the file at the call do not change.
LEMMA SameInput ==
    ASSUME input' = input
    PROVE  /\ \A s : Whole(s)' <=> Whole(s)
           /\ \A s, n : StablySorted(s, n)' <=> StablySorted(s, n)
<1>1. \A i, j, n : Before(i, j, n)' <=> Before(i, j, n)
  BY DEF Before
<1> QED
  BY <1>1 DEF Whole, StablySorted

LEMMA InitInvariant ==
    ASSUME Init
    PROVE  IInv
BY InputTyped DEF Init, IInv, Untouched, Between, Reading, Copying, Stopped

LEMMA OpenPassPreserves ==
    ASSUME IInv, OpenPass
    PROVE  IInv'
<1>1. /\ Typed /\ Untouched /\ Between
      /\ pc = "open" /\ bit < bits /\ pc' = "read" /\ from' = 0 /\ pos' = 0
      /\ out' = [out EXCEPT ![PairOfPass(bit)] = [b \in {0, 1} |-> <<>>]]
      /\ UNCHANGED <<input, present, bits, file, bit>>
  BY DEF IInv, OpenPass
<1>2. /\ bit \in Nat /\ bits \in Nat /\ MaxBits \in Nat /\ bit \in 0 .. MaxBits - 1
      /\ PairOfPass(bit) \in {0, 1} /\ SourcePair \in {0, 1} /\ PairOfPass(bit) # SourcePair
  <2>1. bit \in Nat /\ bits \in Nat /\ MaxBits \in Nat /\ bit < bits /\ bits <= MaxBits
    BY <1>1, SizeAssumption DEF Typed
  <2> QED
    BY <2>1, PairsTakeTurns DEF SourcePair
<1>3. <<>> \in Seq(Record)
  OBVIOUS
<1>4. /\ out' \in [{0, 1} -> [{0, 1} -> Seq(Record)]]
      /\ out'[PairOfPass(bit)] = [b \in {0, 1} |-> <<>>]
      /\ out'[SourcePair] = out[SourcePair]
  BY <1>1, <1>2, <1>3 DEF Typed
<1>5. Typed'
  BY <1>1, <1>4 DEF Typed
<1>6. SourcePair' = SourcePair /\ Consumed' = 0 /\ Source' = IF bit = 0 THEN input ELSE Pair(SourcePair)
  BY <1>1, <1>4 DEF SourcePair, Consumed, Source, Pair, Untouched
<1>7. PICK s : s = Source'
  OBVIOUS
<1>8. StablySorted(s, bit)
  BY <1>1, <1>2, <1>6, <1>7, SortedByNothing DEF Between, Typed
<1>9. Splits(<<>>, <<>>, s, 0, bit)
  <2>1. (\E e : Picks(e, <<>>, s, 0, bit, 0)) /\ (\E e : Picks(e, <<>>, s, 0, bit, 1))
    BY PicksNothing
  <2> QED
    BY <1>3, <2>1 DEF Splits
<1>10. pos' <= Len(Stream)'
  <2>1. (Stream \in Seq(Record))'
    BY <1>1, <1>4, <1>5, <1>2, LastPairRead DEF Stream, Typed, SourcePair
  <2>2. PICK t : t = Stream'
    OBVIOUS
  <2>3. t \in Seq(Record)
    BY <2>1, <2>2
  <2>4. Len(t) \in Nat
    BY <2>3, LenProperties
  <2> QED
    BY <1>1, <2>2, <2>4
<1>11. Reading'
  BY <1>1, <1>4, <1>6, <1>7, <1>8, <1>9, <1>10, SameInput DEF Reading
<1> QED
  BY <1>1, <1>5, <1>11 DEF IInv, Untouched, Between, Copying, Stopped

\* What a chunk that is read leaves to prove: another stream, or more of this.
LEMMA MovesOn ==
    ASSUME Typed, pc \in {"read", "copy"}, pc = "copy" => bit = bits, pos <= Len(Stream),
           pc = "read" /\ bit = 0 => from = 0,
           ~(Eof /\ LastStream),
           from' = IF Eof THEN 1 ELSE from,
           pos' = IF Eof THEN 0 ELSE pos + Len(Data),
           out'[SourcePair] = out[SourcePair],
           pc' = pc, bit' = bit, bits' = bits,
           Source' = Source, pc = "read" /\ bit = 0 => file' = file
    PROVE  /\ from' \in {0, 1} /\ pos' \in Nat
           /\ pc = "read" /\ bit = 0 => from' = 0
           /\ pos' <= Len(Stream)'
           /\ Consumed' = Consumed + Len(Data)
<1>1. /\ Stream = IF pc = "read" /\ bit = 0 THEN file ELSE out[SourcePair][from]
      /\ Len(Data) \in Nat /\ Len(Stream) \in Nat
      /\ pos + Len(Data) <= Len(Stream)
  BY StreamRead
<1>2. Eof /\ ~LastStream => Consumed + Len(Data) = Len(out[SourcePair][0])
  BY SourceRead
<1>3. pos \in Nat /\ from \in {0, 1} /\ SourcePair \in {0, 1} /\ bits \in Nat
  BY PairsTakeTurns DEF Typed, SourcePair
<1>4. /\ SourcePair' = SourcePair
      /\ Stream' = IF pc = "read" /\ bit = 0 THEN file' ELSE out'[SourcePair][from']
  BY <1>3, LastPairRead DEF Stream, SourcePair, LastPair
<1>5. PICK n \in Nat : n = Len(Data)
  BY <1>1
<1>6. CASE Eof
  <2>1. ~(pc = "read" /\ bit = 0) /\ from = 0 /\ ~LastStream
    BY <1>3, <1>6 DEF LastStream
  <2>2. from' = 1 /\ pos' = 0
    BY <1>6
  <2>3. PICK u \in Seq(Record) : u = out[SourcePair][1]
    BY <1>3 DEF Typed
  <2>4. Stream' = u
    BY <1>4, <2>1, <2>2, <2>3
  <2>5. pos' <= Len(Stream)'
    <3>1. Len(u) \in Nat
      BY <2>3, LenProperties
    <3> QED
      BY <2>2, <2>4, <3>1
  <2>6. PICK t \in Seq(Record) : t = out[SourcePair][0]
    BY <1>3 DEF Typed
  <2>7. Len(t) \in Nat
    BY <2>6, LenProperties
  <2>8. Consumed' = Len(t) + 0
    BY <1>4, <2>2, <2>6 DEF Consumed
  <2> QED
    BY <1>2, <1>6, <2>1, <2>2, <2>5, <2>6, <2>7, <2>8
<1>7. CASE ~Eof
  <2>1. from' = from /\ pos' = pos + n
    BY <1>5, <1>7
  <2>2. Stream' = Stream
    BY <1>1, <1>4, <2>1
  <2>3. Consumed' = Consumed + n
    <3>1. CASE from = 0
      <4>1. from' = 0 /\ from # 1 /\ from' # 1
        BY <2>1, <3>1
      <4>2. Consumed = pos /\ Consumed' = pos'
        BY <4>1 DEF Consumed
      <4> QED
        BY <2>1, <4>2
    <3>2. CASE from = 1
      <4>1. PICK t \in Seq(Record) : t = out[SourcePair][0]
        BY <1>3 DEF Typed
      <4>2. PICK j \in Nat : j = Len(t)
        BY <4>1, LenProperties
      <4>3. Consumed = j + pos /\ Consumed' = j + (pos + n)
        BY <1>4, <2>1, <3>2, <4>1, <4>2 DEF Consumed
      <4> QED
        BY <1>3, <4>2, <4>3
    <3> QED
      BY <1>3, <3>1, <3>2
  <2> QED
    BY <1>1, <1>3, <1>5, <2>1, <2>2, <2>3
<1> QED
  BY <1>6, <1>7

LEMMA ReadChunkPreserves ==
    ASSUME IInv, ReadChunk
    PROVE  IInv'
<1> DEFINE P == PairOfPass(bit)
<1>1. /\ Typed /\ Untouched
      /\ pc = "read" /\ bit < bits /\ (bit = 0 => from = 0)
      /\ StablySorted(Source, bit) /\ pos <= Len(Stream)
      /\ Splits(out[P][0], out[P][1], Source, Consumed, bit)
      /\ UNCHANGED <<input, present, bits, file>>
  BY DEF IInv, Reading, ReadChunk
<1>2. bit \in Nat /\ bits \in Nat /\ bit \in 0 .. MaxBits - 1 /\ bit + 1 \in 0 .. bits
  BY <1>1, SizeAssumption DEF Typed
<1>3. P \in {0, 1} /\ SourcePair \in {0, 1} /\ P # SourcePair
  BY <1>2, PairsTakeTurns DEF SourcePair
<1>4. PICK d : d = Data
  OBVIOUS
<1>5. PICK s : s = Source
  OBVIOUS
<1>6. PICK c : c = Consumed
  OBVIOUS
<1>7. /\ s \in Seq(Record) /\ c \in Nat /\ Len(s) \in Nat
      /\ \A i \in 1 .. Len(d) : d[i] = s[c + i]
      /\ Eof /\ LastStream => c + Len(d) = Len(s)
  BY <1>1, <1>4, <1>5, <1>6, SourceRead
<1>8. d \in Seq(Record)
  BY <1>1, <1>4, StreamRead
<1>9. PICK t, u : t = out[P][0] \o WithBit(d, bit, 0) /\ u = out[P][1] \o WithBit(d, bit, 1)
  OBVIOUS
<1>10. Splits(t, u, s, c + Len(d), bit)
  BY <1>1, <1>2, <1>5, <1>6, <1>7, <1>8, <1>9, SplitsMore
<1>11. t \in Seq(Record) /\ u \in Seq(Record)
  BY <1>10 DEF Splits
<1>12. /\ out' \in [{0, 1} -> [{0, 1} -> Seq(Record)]]
       /\ out'[P][0] = t /\ out'[P][1] = u
       /\ out'[SourcePair] = out[SourcePair]
  <2>1. out' = [out EXCEPT ![P] = [b \in {0, 1} |-> out[P][b] \o WithBit(d, bit, b)]]
    BY <1>4 DEF ReadChunk
  <2>2. [b \in {0, 1} |-> out[P][b] \o WithBit(d, bit, b)] \in [{0, 1} -> Seq(Record)]
    BY <1>9, <1>11
  <2> QED
    BY <1>1, <1>3, <1>9, <2>1, <2>2 DEF Typed
<1> HIDE DEF P
<1>13. CASE Eof /\ LastStream
  <2>1. pc' = "open" /\ bit' = bit + 1 /\ from' = from /\ pos' = pos
    BY <1>13 DEF ReadChunk
  <2>2. Typed'
    BY <1>1, <1>2, <1>12, <2>1 DEF Typed
  <2>3. StablySorted(t \o u, bit + 1)
    <3>1. StablySorted(s, bit) /\ Splits(t, u, s, Len(s), bit) /\ input \in Seq(Record)
      BY <1>1, <1>5, <1>7, <1>10, <1>13 DEF Typed
    <3> QED
      BY <1>2, <1>7, <3>1, PassSorts
  <2>4. (Pair(SourcePair))' = t \o u
    <3>1. SourcePair' = P
      BY <1>2, <2>1, PairsTakeTurns DEF SourcePair, P
    <3> QED
      BY <1>12, <3>1 DEF Pair
  <2>5. Between'
    BY <1>1, <2>1, <2>3, <2>4, SameInput DEF Between
  <2> QED
    BY <1>1, <2>1, <2>2, <2>5 DEF IInv, Untouched, Reading, Copying, Stopped
<1>14. CASE ~(Eof /\ LastStream)
  <2>1. /\ from' = IF Eof THEN 1 ELSE from
        /\ pos' = IF Eof THEN 0 ELSE pos + Len(Data)
        /\ pc' = pc /\ bit' = bit
    BY <1>14 DEF ReadChunk
  <2>2. Source' = Source
    BY <1>1, <1>12, <2>1 DEF Source, Pair, SourcePair
  <2>3. /\ from' \in {0, 1} /\ pos' \in Nat
        /\ pc = "read" /\ bit = 0 => from' = 0
        /\ pos' <= Len(Stream)'
        /\ Consumed' = Consumed + Len(Data)
    BY <1>1, <1>12, <1>14, <2>1, <2>2, MovesOn
  <2>4. Typed'
    BY <1>1, <1>12, <2>1, <2>3 DEF Typed
  <2>5. Reading'
    <3>1. Splits(t, u, Source', Consumed', bit)
      BY <1>4, <1>5, <1>6, <1>10, <2>2, <2>3
    <3>2. StablySorted(Source, bit)'
      BY <1>1, <2>1, <2>2, SameInput
    <3> QED
      BY <1>1, <1>12, <2>1, <2>3, <3>1, <3>2 DEF Reading, P
  <2> QED
    BY <1>1, <2>1, <2>4, <2>5 DEF IInv, Untouched, Between, Copying, Stopped
<1> QED
  BY <1>13, <1>14

LEMMA OpenFinalPreserves ==
    ASSUME IInv, OpenFinal
    PROVE  IInv'
<1>1. /\ Typed /\ Between
      /\ pc = "open" /\ bit = bits /\ pc' = "copy" /\ from' = 0 /\ pos' = 0
      /\ file' = <<>>
      /\ UNCHANGED <<input, present, bits, out, bit>>
  BY DEF IInv, OpenFinal
<1>2. bits \in Nat /\ bit > 0 /\ SourcePair \in {0, 1} /\ LastPair = SourcePair
  BY <1>1, SizeAssumption, PairsTakeTurns, LastPairRead DEF Typed, SourcePair
<1>3. Typed'
  BY <1>1 DEF Typed
<1>4. Source' = Pair(SourcePair) /\ Consumed' = 0
  BY <1>1 DEF Source, Consumed, Pair, SourcePair
<1>5. pos' <= Len(Stream)'
  <2>1. PICK t \in Seq(Record) : t = out[SourcePair][0]
    BY <1>1, <1>2 DEF Typed
  <2>2. Stream' = t
    BY <1>1, <1>2, <2>1 DEF Stream, LastPair
  <2>3. Len(t) \in Nat
    BY <2>1, LenProperties
  <2> QED
    BY <1>1, <2>2, <2>3
<1>6. StablySorted(Source, bits)'
  BY <1>1, <1>2, <1>4, SameInput DEF Between
<1>7. Copying'
  BY <1>1, <1>4, <1>5, <1>6 DEF Copying
<1> QED
  BY <1>1, <1>3, <1>7 DEF IInv, Untouched, Between, Reading, Stopped

LEMMA CopyChunkPreserves ==
    ASSUME IInv, CopyChunk
    PROVE  IInv'
<1>1. /\ Typed
      /\ pc = "copy" /\ bit = bits
      /\ StablySorted(Source, bits) /\ pos <= Len(Stream)
      /\ Len(file) = Consumed /\ \A i \in 1 .. Consumed : file[i] = Source[i]
      /\ UNCHANGED <<input, present, bits, out, bit>>
      /\ file' = file \o Data
  BY DEF IInv, Copying, CopyChunk
<1>2. PICK d : d = Data
  OBVIOUS
<1>3. PICK s : s = Source
  OBVIOUS
<1>4. PICK c : c = Consumed
  OBVIOUS
<1>5. /\ s \in Seq(Record) /\ c \in Nat /\ Len(s) \in Nat
      /\ \A i \in 1 .. Len(d) : d[i] = s[c + i]
      /\ Eof /\ LastStream => c + Len(d) = Len(s)
  BY <1>1, <1>2, <1>3, <1>4, SourceRead
<1>6. d \in Seq(Record) /\ Len(d) \in Nat
  BY <1>1, <1>2, StreamRead
<1>7. PICK f : f = file \o d
  OBVIOUS
<1>8. f \in Seq(Record) /\ Len(f) = c + Len(d) /\ \A i \in 1 .. c + Len(d) : f[i] = s[i]
  <2>1. /\ f \in Seq(Record) /\ Len(f) = c + Len(d)
        /\ \A i \in 1 .. c + Len(d) : f[i] = IF i <= c THEN file[i] ELSE d[i - c]
    <3>1. PICK g \in Seq(Record) : g = file
      BY <1>1 DEF Typed
    <3>2. Len(g) = c /\ f = g \o d
      BY <1>1, <1>4, <1>7, <3>1
    <3>3. /\ f \in Seq(Record) /\ Len(f) = Len(g) + Len(d)
          /\ \A i \in 1 .. Len(g) + Len(d) : f[i] = IF i <= Len(g) THEN g[i] ELSE d[i - Len(g)]
      BY <1>6, <3>2, ConcatProperties
    <3> QED
      BY <3>1, <3>2, <3>3
  <2>2. ASSUME NEW i \in 1 .. c + Len(d) PROVE f[i] = s[i]
    <3>1. CASE i <= c
      BY <1>1, <1>3, <1>4, <1>5, <2>1, <3>1
    <3>2. CASE ~(i <= c)
      <4>1. i - c \in 1 .. Len(d) /\ c + (i - c) = i
        BY <1>5, <1>6, <3>2
      <4> QED
        BY <1>5, <2>1, <3>2, <4>1
    <3> QED
      BY <3>1, <3>2
  <2> QED
    BY <2>1, <2>2
<1>9. file' = f
  BY <1>1, <1>2, <1>7
<1>10. Source' = Source
  BY <1>1 DEF CopyChunk, Source, Pair, SourcePair
<1>11. CASE Eof /\ LastStream
  <2>1. pc' = "done" /\ from' = from /\ pos' = pos
    BY <1>11 DEF CopyChunk
  <2>2. f = s
    <3>1. Len(f) = Len(s) /\ \A i \in 1 .. Len(f) : f[i] = s[i]
      BY <1>5, <1>8, <1>11
    <3> QED
      BY <1>5, <1>8, <3>1, SeqEqual
  <2>3. StablySorted(file, bits)'
    BY <1>1, <1>3, <1>9, <2>2, SameInput
  <2>4. Typed'
    BY <1>1, <1>8, <1>9, <2>1 DEF Typed
  <2> QED
    BY <2>1, <2>3, <2>4 DEF IInv, Untouched, Between, Reading, Copying, Stopped
<1>12. CASE ~(Eof /\ LastStream)
  <2>1. /\ from' = IF Eof THEN 1 ELSE from
        /\ pos' = IF Eof THEN 0 ELSE pos + Len(Data)
        /\ pc' = pc
    BY <1>12 DEF CopyChunk
  <2>2. /\ from' \in {0, 1} /\ pos' \in Nat
        /\ pos' <= Len(Stream)'
        /\ Consumed' = Consumed + Len(Data)
    BY <1>1, <1>10, <1>12, <2>1, MovesOn
  <2>3. Typed'
    BY <1>1, <1>8, <1>9, <2>1, <2>2 DEF Typed
  <2>4. Copying'
    <3>1. StablySorted(Source, bits)'
      BY <1>1, <1>10, SameInput
    <3>2. Len(f) = Consumed' /\ \A i \in 1 .. Consumed' : f[i] = Source'[i]
      BY <1>2, <1>3, <1>4, <1>8, <1>10, <2>2
    <3> QED
      BY <1>1, <1>9, <2>2, <3>1, <3>2 DEF Copying
  <2> QED
    BY <1>1, <2>1, <2>3, <2>4 DEF IInv, Untouched, Between, Reading, Stopped
<1> QED
  BY <1>11, <1>12

\* A kill leaves the file, or the pair it was being written from.
LEMMA CrashPreserves ==
    ASSUME IInv, Crash
    PROVE  IInv'
<1>1. Typed /\ pc' = "crashed" /\ UNCHANGED <<input, present, bits, bit, from, pos>>
  BY DEF IInv, Crash
<1>2. \A s \in Seq(Record) : \A p \in Prefixes(s) : p \in Seq(Record)
  <2> SUFFICES ASSUME NEW s \in Seq(Record), NEW p \in Prefixes(s) PROVE p \in Seq(Record)
    OBVIOUS
  <2>1. Len(s) \in Nat /\ \A i \in 1 .. Len(s) : s[i] \in Record
    BY LenProperties, ElementOfSeq
  <2>2. PICK l \in 0 .. Len(s) : p = SubSeq(s, 1, l)
    BY DEF Prefixes
  <2> QED
    BY <2>1, <2>2, SubSeqProperties
<1>3. bit \in Nat /\ PairOfPass(bit) \in {0, 1} /\ LastPair \in {0, 1}
  BY <1>1, PairsTakeTurns DEF Typed, LastPair
<1>4. CASE pc \in {"open", "read"}
  <2>1. out' \in [{0, 1} -> [{0, 1} -> Seq(Record)]]
    <3>1. CASE pc = "open"
      BY <1>1, <3>1 DEF Crash, Typed
    <3>2. CASE pc = "read"
      <4>1. /\ out[PairOfPass(bit)][0] \in Seq(Record)
            /\ out[PairOfPass(bit)][1] \in Seq(Record)
        BY <1>1, <1>3 DEF Typed
      <4>2. PICK p \in Seq(Record), q \in Seq(Record) :
              out' = [out EXCEPT ![PairOfPass(bit)] = [b \in {0, 1} |-> IF b = 0 THEN p ELSE q]]
        BY <1>2, <3>2, <4>1 DEF Crash
      <4> QED
        BY <1>1, <4>2 DEF Typed
    <3> QED
      BY <1>4, <3>1, <3>2
  <2>2. file' = file /\ file = input
    BY <1>4 DEF Crash, IInv, Untouched
  <2>3. Whole(file)'
    BY <1>1, <2>2 DEF Whole
  <2> QED
    BY <1>1, <2>1, <2>2, <2>3 DEF IInv, Typed, Untouched, Between, Reading, Copying, Stopped, Recoverable
<1>5. CASE pc = "copy"
  <2>1. file' \in Seq(Record) /\ out' = out
    BY <1>1, <1>2, <1>5 DEF Crash, Typed
  <2>2. Whole(Pair(SourcePair)) /\ SourcePair \in {0, 1}
    BY <1>3, <1>5, PairsTakeTurns DEF IInv, Copying, Source, StablySorted, SourcePair
  <2>3. \E k \in {0, 1} : Whole(Pair(k))'
    BY <1>1, <2>1, <2>2 DEF Whole, Pair
  <2> QED
    BY <1>1, <2>1, <2>3 DEF IInv, Typed, Untouched, Between, Reading, Copying, Stopped, Recoverable
<1> QED
  BY <1>4, <1>5 DEF Crash

LEMMA StutterPreserves ==
    ASSUME IInv, UNCHANGED vars
    PROVE  IInv'
<1>1. UNCHANGED <<input, present, bits, file, out, pc, bit, from, pos>>
  BY DEF vars
<1>2. Typed' /\ Untouched'
  BY <1>1 DEF IInv, Typed, Untouched
<1>3. Source' = Source /\ Consumed' = Consumed /\ Stream' = Stream /\ Recoverable' = Recoverable
  BY <1>1 DEF Source, Consumed, Stream, Recoverable, Whole, Pair, SourcePair, LastPair
<1>4. Between'
  BY <1>1, SameInput DEF IInv, Between, Pair, SourcePair
<1>5. Reading' /\ Copying'
  BY <1>1, <1>3, SameInput DEF IInv, Reading, Copying
<1>6. Stopped'
  BY <1>1, <1>3, SameInput DEF IInv, Stopped
<1> QED
  BY <1>2, <1>4, <1>5, <1>6 DEF IInv

\* The inductive invariant holds in every state.
THEOREM Invariant == Spec => []IInv
<1>1. Init => IInv
  BY InitInvariant
<1>2. IInv /\ [Next]_vars => IInv'
  <2> SUFFICES ASSUME IInv, [Next]_vars PROVE IInv'
    OBVIOUS
  <2>1. CASE OpenPass
    BY <2>1, OpenPassPreserves
  <2>2. CASE ReadChunk
    BY <2>2, ReadChunkPreserves
  <2>3. CASE ReadNothing
    BY <2>3, StutterPreserves DEF ReadNothing
  <2>4. CASE OpenFinal
    BY <2>4, OpenFinalPreserves
  <2>5. CASE CopyChunk
    BY <2>5, CopyChunkPreserves
  <2>6. CASE Crash
    BY <2>6, CrashPreserves
  <2>7. CASE Ended
    BY <2>7, StutterPreserves DEF Ended
  <2>8. CASE UNCHANGED vars
    BY <2>8, StutterPreserves
  <2> QED
    BY <2>1, <2>2, <2>3, <2>4, <2>5, <2>6, <2>7, <2>8 DEF Next, Step
<1> QED
  BY <1>1, <1>2, PTL DEF Spec

\* Between two passes the pair written last is the file stably sorted by the
\* bits seen so far (radix-sort.h:39-71).
THEOREM BitsSortedBetweenPasses == Spec => []LowBitsSorted
<1>1. IInv => LowBitsSorted
  <2> SUFFICES ASSUME IInv, pc = "open", bit > 0
               PROVE  StablySorted(Pair(PairOfPass(bit - 1)), bit)
    BY DEF LowBitsSorted
  <2>1. PairOfPass(bit - 1) = SourcePair
    BY PairsTakeTurns DEF IInv, Typed, SourcePair
  <2> QED
    BY <2>1 DEF IInv, Between
<1> QED
  BY <1>1, Invariant, PTL

\* The call ends with the file stably sorted, nothing lost or left over
\* (radix-sort.h:73-91).
THEOREM EndsSorted == Spec => []SortedAtEnd
<1>1. IInv => SortedAtEnd
  BY DEF IInv, Stopped, SortedAtEnd
<1> QED
  BY <1>1, Invariant, PTL

\* At every moment, and when the process has been killed, the file or one of
\* the pairs holds every record once (radix-sort.h:41-45, 74-76).
THEOREM AlwaysRecoverable == Spec => []Recoverable
<1>1. IInv => Recoverable
  <2> SUFFICES ASSUME IInv PROVE Recoverable
    OBVIOUS
  <2>1. CASE pc \in {"open", "read"}
    BY <2>1 DEF IInv, Untouched, Recoverable, Whole
  <2>2. CASE pc = "copy"
    <3>1. Whole(Pair(SourcePair)) /\ SourcePair \in {0, 1}
      BY <2>2, PairsTakeTurns DEF IInv, Typed, Copying, Source, StablySorted, SourcePair
    <3> QED
      BY <3>1 DEF Recoverable
  <2>3. CASE pc = "done"
    BY <2>3 DEF IInv, Stopped, StablySorted, Recoverable
  <2>4. CASE pc = "crashed"
    BY <2>4 DEF IInv, Stopped
  <2> QED
    BY <2>1, <2>2, <2>3, <2>4 DEF IInv, Typed
<1> QED
  BY <1>1, Invariant, PTL
=============================================================================

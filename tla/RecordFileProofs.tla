-------------------------- MODULE RecordFileProofs --------------------------
(***************************************************************************)
(* What is written to a file of records is what "view", a run, the sort    *)
(* and get_hashes find in it, for every size of a record and of a chunk.   *)
(***************************************************************************)
EXTENDS RecordFile, FunctionTheorems, FiniteSetTheorems, SequenceTheorems, TLAPS

Record == [1 .. total_size -> Nat]

-----------------------------------------------------------------------------
(* The places of the bytes of the records.                                 *)

Place(k, i) == (k - 1) * total_size + i

LEMMA SizeTyped == total_size \in Nat \ {0} /\ ChunkRecords \in Nat \ {0}
BY SizeAssumption

LEMMA Times ==
    ASSUME NEW m \in Nat, NEW n \in Nat
    PROVE  /\ m * total_size \in Nat
           /\ m <= n => m * total_size <= n * total_size
           /\ m < n => m * total_size + total_size <= n * total_size
           /\ (m + n) * total_size = m * total_size + n * total_size
           /\ (m + 1) * total_size = m * total_size + total_size
           /\ m * total_size = 0 <=> m = 0
           /\ 1 * total_size = total_size
<1>1. total_size \in Nat \ {0}
  BY SizeTyped
<1>2. m * total_size \in Nat
  BY <1>1
<1>3. (m + n) * total_size = m * total_size + n * total_size
  BY <1>1
<1>4. (m + 1) * total_size = m * total_size + total_size
  BY <1>1
<1>5. m <= n => m * total_size <= n * total_size
  BY <1>1
<1>6. m < n => m * total_size + total_size <= n * total_size
  BY <1>1
<1>7. m * total_size = 0 <=> m = 0
  BY <1>1
<1> QED
  BY <1>1, <1>2, <1>3, <1>4, <1>5, <1>6, <1>7

LEMMA PlaceInside ==
    ASSUME NEW n \in Nat, NEW k \in 1 .. n, NEW i \in 1 .. total_size
    PROVE  /\ Place(k, i) \in Nat \ {0}
           /\ Place(k, i) <= n * total_size
           /\ Place(k, i) <= k * total_size
           /\ (k - 1) * total_size < Place(k, i)
<1>1. k - 1 \in Nat /\ k \in Nat /\ k - 1 < k /\ k <= n
  OBVIOUS
<1>2. PICK a \in Nat : a = (k - 1) * total_size
  BY <1>1, Times
<1>3. a + total_size <= k * total_size /\ k * total_size <= n * total_size /\ k * total_size \in Nat
  BY <1>1, <1>2, Times
<1> QED
  BY <1>2, <1>3, SizeTyped, Times DEF Place

LEMMA PlaceShifts ==
    ASSUME NEW n \in Nat, NEW k \in Nat \ {0}, NEW i \in 1 .. total_size
    PROVE  Place(n + k, i) = n * total_size + Place(k, i)
<1>1. k - 1 \in Nat /\ (n + k) - 1 = n + (k - 1)
  OBVIOUS
<1>2. PICK a \in Nat, b \in Nat : a = n * total_size /\ b = (k - 1) * total_size
  BY <1>1, Times
<1>3. (n + (k - 1)) * total_size = a + b
  BY <1>1, <1>2, Times
<1>4. ((n + k) - 1) * total_size = a + b
  BY <1>1, <1>3
<1> QED
  BY <1>2, <1>4 DEF Place

LEMMA Division ==
    ASSUME NEW a \in Nat
    PROVE  /\ a \div total_size \in Nat /\ a % total_size \in 0 .. total_size - 1
           /\ a = (a \div total_size) * total_size + (a % total_size)
<1>1. PICK n \in Nat \ {0} : n = total_size
  BY SizeTyped
<1>2. a % n \in 0 .. n - 1
  OBVIOUS
<1>3. a \div n \in Int
  OBVIOUS
<1>4. a \div n \in Nat
  OBVIOUS
<1>5. a = n * (a \div n) + (a % n)
  OBVIOUS
<1>6. PICK d \in Nat : d = a \div n
  BY <1>4
<1>7. n * d = d * n
  OBVIOUS
<1> QED
  BY <1>1, <1>2, <1>5, <1>6, <1>7

LEMMA DivisionUnique ==
    ASSUME NEW q \in Nat, NEW r \in 0 .. total_size - 1
    PROVE  /\ (q * total_size + r) \div total_size = q
           /\ (q * total_size + r) % total_size = r
<1>1. PICK a \in Nat : a = q * total_size + r
  BY SizeTyped, Times
<1>2. PICK d \in Nat, m \in 0 .. total_size - 1 :
        d = a \div total_size /\ m = a % total_size /\ a = d * total_size + m
  <2>1. a \div total_size \in Nat /\ a % total_size \in 0 .. total_size - 1
    BY Division
  <2>2. a = (a \div total_size) * total_size + (a % total_size)
    BY Division
  <2> QED
    BY <2>1, <2>2
<1>3. ~(d < q)
  BY <1>1, <1>2, Times, SizeTyped
<1>4. ~(q < d)
  BY <1>1, <1>2, Times, SizeTyped
<1>5. d = q
  BY <1>3, <1>4
<1> QED
  <2>1. PICK p \in Nat : p = q * total_size
    BY Times
  <2>2. d * total_size = p
    BY <1>5, <2>1
  <2>3. a = p + r /\ a = p + m
    BY <1>1, <1>2, <2>1, <2>2
  <2>4. m = r
    BY <1>2, <2>1, <2>3, SizeTyped
  <2> QED
    BY <1>1, <1>2, <1>5, <2>4

LEMMA PlaceOf ==
    ASSUME NEW n \in Nat, NEW b \in 1 .. n * total_size
    PROVE  \E k \in 1 .. n, i \in 1 .. total_size : b = Place(k, i)
<1>0. n * total_size \in Nat /\ b \in Nat \ {0} /\ total_size \in Nat \ {0}
  BY Times, SizeTyped
<1>1. PICK d \in Nat, m \in 0 .. total_size - 1 : b - 1 = d * total_size + m
  <2>1. PICK a \in Nat : a = b - 1
    BY <1>0
  <2>2. PICK q \in Nat, r \in 0 .. total_size - 1 :
          q = a \div total_size /\ r = a % total_size /\ a = q * total_size + r
    BY Division
  <2> QED
    BY <2>1, <2>2
<1>2. d < n
  BY <1>0, <1>1, Times
<1>3. d + 1 \in 1 .. n /\ m + 1 \in 1 .. total_size /\ (d + 1) - 1 = d
  BY <1>2, SizeTyped
<1>4. d * total_size \in Nat
  BY Times
<1>5. b = Place(d + 1, m + 1)
  BY <1>0, <1>1, <1>3, <1>4 DEF Place
<1> QED
  BY <1>3, <1>5

LEMMA PlaceDivided ==
    ASSUME NEW k \in Nat \ {0}, NEW i \in 1 .. total_size
    PROVE  /\ 1 + ((Place(k, i) - 1) \div total_size) = k
           /\ 1 + ((Place(k, i) - 1) % total_size) = i
<1>1. PICK q \in Nat : q = k - 1
  OBVIOUS
<1>2. PICK r \in 0 .. total_size - 1 : r = i - 1
  BY SizeTyped
<1>3. Place(k, i) - 1 = q * total_size + r
  BY <1>1, <1>2, Times DEF Place
<1> QED
  BY <1>1, <1>2, <1>3, DivisionUnique

-----------------------------------------------------------------------------
(* Records and their bytes.                                                *)

\* The bytes are those of the records, as far as they go.
Agrees(bytes, records) ==
    \A k \in 1 .. Len(records), i \in 1 .. total_size :
        Place(k, i) <= Len(bytes) => bytes[Place(k, i)] = records[k][i]

LEMMA MinOfTwo ==
    ASSUME NEW a \in Nat, NEW b \in Nat
    PROVE  Min({a, b}) = IF a <= b THEN a ELSE b
BY DEF Min

LEMMA RecordIsSeq ==
    ASSUME NEW r \in Record
    PROVE  r \in Seq(Nat) /\ Len(r) = total_size
<1>1. total_size \in Nat
  BY SizeTyped
<1>2. r \in Seq(Nat)
  BY <1>1, SeqDef DEF Record
<1>3. DOMAIN r = 1 .. total_size
  BY DEF Record
<1>4. DOMAIN r = 1 .. Len(r) /\ Len(r) \in Nat
  BY <1>2, LenProperties
<1> QED
  BY <1>1, <1>2, <1>3, <1>4

LEMMA RecordsEqual ==
    ASSUME NEW r \in Record, NEW s \in Record, \A i \in 1 .. total_size : r[i] = s[i]
    PROVE  r = s
<1>1. r = [i \in 1 .. total_size |-> r[i]]
  BY DEF Record
<1>2. s = [i \in 1 .. total_size |-> s[i]]
  BY DEF Record
<1> QED
  BY <1>1, <1>2

\* The next c bytes of a stream, or as many as there are.
Taken(bytes, p, c) == SubSeq(bytes, p + 1, Min({p + c, Len(bytes)}))

LEMMA NextBytes ==
    ASSUME NEW bytes \in Seq(Nat), NEW p \in Nat, p <= Len(bytes), NEW c \in Nat,
           NEW data, data = Taken(bytes, p, c)
    PROVE  /\ data \in Seq(Nat) /\ Len(data) \in Nat
           /\ \A i \in 1 .. Len(data) : data[i] = bytes[p + i]
           /\ p + Len(data) <= Len(bytes) /\ Len(data) <= c
           /\ Len(data) < c => p + Len(data) = Len(bytes)
<1>1. PICK l \in Nat : l = Len(bytes)
  BY LenProperties
<1>2. PICK e : e = Min({p + c, l})
  OBVIOUS
<1>3. e \in Nat /\ p <= e /\ e <= l /\ e <= p + c /\ (e < p + c => e = l)
  <2>1. PICK q \in Nat : q = p + c
    OBVIOUS
  <2>2. e = IF q <= l THEN q ELSE l
    BY <1>1, <1>2, <2>1, MinOfTwo
  <2> QED
    BY <1>1, <2>1, <2>2
<1>4. \A i \in p + 1 .. e : bytes[i] \in Nat
  <2>1. \A i \in 1 .. l : bytes[i] \in Nat
    BY <1>1, ElementOfSeq
  <2> QED
    BY <1>1, <1>3, <2>1
<1>5. /\ data \in Seq(Nat)
      /\ Len(data) = IF p + 1 <= e THEN e - (p + 1) + 1 ELSE 0
      /\ \A i \in 1 .. e - (p + 1) + 1 : data[i] = bytes[(p + 1) + i - 1]
  <2>1. data = SubSeq(bytes, p + 1, e)
    BY <1>1, <1>2 DEF Taken
  <2>2. PICK m \in Int : m = p + 1
    OBVIOUS
  <2>3. e \in Int /\ \A i \in m .. e : bytes[i] \in Nat
    BY <1>3, <1>4, <2>2
  <2>4. /\ SubSeq(bytes, m, e) \in Seq(Nat)
        /\ Len(SubSeq(bytes, m, e)) = IF m <= e THEN e - m + 1 ELSE 0
        /\ \A i \in 1 .. e - m + 1 : SubSeq(bytes, m, e)[i] = bytes[m + i - 1]
    BY <2>3, SubSeqProperties
  <2> QED
    BY <2>1, <2>2, <2>4
<1>6. Len(data) = e - p
  <2>1. p + 1 <= e => e - (p + 1) + 1 = e - p
    BY <1>3
  <2>2. ~(p + 1 <= e) => e - p = 0
    BY <1>3
  <2> QED
    BY <1>5, <2>1, <2>2
<1>7. \A i \in 1 .. Len(data) : data[i] = bytes[p + i]
  <2>1. \A i \in 1 .. e - p : (p + 1) + i - 1 = p + i /\ i \in 1 .. e - (p + 1) + 1
    BY <1>3
  <2> QED
    BY <1>5, <1>6, <2>1
<1>8. p + (e - p) = e /\ (e - p) \in Nat
  BY <1>3
<1>9. /\ p + (e - p) <= l /\ e - p <= c
      /\ e - p < c => p + (e - p) = l
  BY <1>1, <1>3
<1> QED
  BY <1>1, <1>5, <1>6, <1>7, <1>8, <1>9

\* What is made of some bytes: whole records, of which the last may be made up.
LEMMA PiecesAgree ==
    ASSUME NEW data \in Seq(Nat), NEW stale \in Stale,
           NEW ps, ps = Pieces(data, stale)
    PROVE  /\ ps \in Seq(Record) /\ Len(ps) \in Nat
           /\ Len(data) <= Len(ps) * total_size
           /\ Len(ps) * total_size < Len(data) + total_size
           /\ Agrees(data, ps)
<1>1. PICK l \in Nat : l = Len(data)
  BY LenProperties
<1>2. PICK n \in Nat : n = (l + total_size - 1) \div total_size
  <2>1. PICK a \in Nat : a = l + total_size - 1
    BY SizeTyped
  <2>2. a \div total_size \in Nat
    BY Division
  <2> QED
    BY <2>1, <2>2
<1>3. n * total_size \in Nat /\ l <= n * total_size /\ n * total_size < l + total_size
  <2>1. PICK a \in Nat : a = l + total_size - 1
    BY SizeTyped
  <2>2. PICK r \in 0 .. total_size - 1 : a = n * total_size + r
    <3>1. (a % total_size) \in 0 .. total_size - 1 /\ a = (a \div total_size) * total_size + (a % total_size)
      BY Division
    <3>2. a \div total_size = n
      BY <1>2, <2>1
    <3> QED
      BY <3>1, <3>2
  <2>3. n * total_size \in Nat
    BY Times
  <2> QED
    BY <2>1, <2>2, <2>3, SizeTyped
<1>4. stale \in Seq(Nat) /\ Len(stale) = total_size
  <2>1. stale \in Record
    BY SizeAssumption DEF Stale, Record
  <2> QED
    BY <2>1, RecordIsSeq
<1>5. PICK all \in Seq(Nat) : all = data \o stale
  BY <1>4, ConcatProperties
<1>6. Len(all) = l + total_size /\ \A i \in 1 .. l : all[i] = data[i]
  <2>1. /\ Len(all) = Len(data) + Len(stale)
        /\ \A i \in 1 .. Len(data) + Len(stale) :
             all[i] = IF i <= Len(data) THEN data[i] ELSE stale[i - Len(data)]
    BY <1>4, <1>5, ConcatProperties
  <2> QED
    BY <1>1, <1>4, <2>1, SizeTyped
<1>7. ASSUME NEW k \in 1 .. n
      PROVE  /\ SubSeq(all, (k - 1) * total_size + 1, k * total_size) \in Record
             /\ \A i \in 1 .. total_size :
                  SubSeq(all, (k - 1) * total_size + 1, k * total_size)[i] = all[Place(k, i)]
  <2>1. PICK a \in Nat : a = (k - 1) * total_size
    <3>1. k - 1 \in Nat
      OBVIOUS
    <3> QED
      BY <3>1, Times
  <2>2. k * total_size = a + total_size /\ k * total_size <= n * total_size
    <3>1. k - 1 \in Nat /\ (k - 1) + 1 = k /\ k \in Nat /\ k <= n
      OBVIOUS
    <3>2. ((k - 1) + 1) * total_size = (k - 1) * total_size + total_size
      BY <3>1, Times
    <3> QED
      BY <2>1, <3>1, <3>2, Times
  <2>3. a + total_size <= l + total_size
    BY <1>3, <2>1, <2>2, SizeTyped
  <2>4. \A i \in a + 1 .. a + total_size : all[i] \in Nat
    <3>1. \A i \in 1 .. Len(all) : all[i] \in Nat
      BY ElementOfSeq
    <3>2. total_size \in Nat
      BY SizeTyped
    <3>3. \A i \in a + 1 .. a + total_size : i \in 1 .. l + total_size
      BY <1>1, <2>1, <2>3, <3>2
    <3> QED
      BY <1>6, <3>1, <3>3
  <2>5. PICK s : s = SubSeq(all, a + 1, a + total_size)
    OBVIOUS
  <2>6. /\ s \in Seq(Nat)
        /\ Len(s) = IF a + 1 <= a + total_size THEN (a + total_size) - (a + 1) + 1 ELSE 0
        /\ \A i \in 1 .. (a + total_size) - (a + 1) + 1 : s[i] = all[(a + 1) + i - 1]
    BY <2>1, <2>4, <2>5, SubSeqProperties, SizeTyped
  <2>7. Len(s) = total_size
    BY <2>1, <2>6, SizeTyped
  <2>8. s \in Record
    BY <2>6, <2>7, LenProperties DEF Record
  <2>9. \A i \in 1 .. total_size : s[i] = all[a + i]
    <3>1. \A i \in 1 .. total_size :
            i \in 1 .. (a + total_size) - (a + 1) + 1 /\ (a + 1) + i - 1 = a + i
      BY <2>1, SizeTyped
    <3> QED
      BY <2>6, <3>1
  <2> QED
    BY <2>1, <2>2, <2>5, <2>8, <2>9 DEF Place
<1>8. ps = [k \in 1 .. n |-> SubSeq(all, (k - 1) * total_size + 1, k * total_size)]
  BY <1>1, <1>2, <1>5 DEF Pieces
<1>9. ps \in Seq(Record)
  <2>1. ps \in [1 .. n -> Record]
    BY <1>7, <1>8
  <2> QED
    BY <2>1, SeqDef
<1>10. Len(ps) = n
  BY <1>8
<1>11. \A k \in 1 .. n, i \in 1 .. total_size : ps[k][i] = all[Place(k, i)]
  BY <1>7, <1>8
<1>12. Agrees(data, ps)
  <2>1. \A k \in 1 .. n, i \in 1 .. total_size : Place(k, i) \in Nat \ {0}
    BY PlaceInside
  <2> QED
    BY <1>1, <1>6, <1>10, <1>11, <2>1 DEF Agrees
<1> QED
  BY <1>1, <1>3, <1>9, <1>10, <1>12

\* What follows the bytes of some records does not matter to them.
LEMMA AgreesFirst ==
    ASSUME NEW a, NEW b, NEW s, Len(s) \in Nat, Len(a) \in Nat, Len(b) \in Nat,
           Agrees(a, s), Len(s) * total_size <= Len(a),
           \A x \in 1 .. Len(s) * total_size : b[x] = a[x]
    PROVE  Agrees(b, s)
<1>1. PICK n \in Nat : n = Len(s)
  OBVIOUS
<1>2. ASSUME NEW k \in 1 .. n, NEW i \in 1 .. total_size, Place(k, i) <= Len(b)
      PROVE  b[Place(k, i)] = s[k][i]
  <2>1. PICK p \in Nat \ {0} : p = Place(k, i)
    BY PlaceInside
  <2>2. PICK m \in Nat : m = n * total_size
    BY Times
  <2>3. p <= m
    BY <2>1, <2>2, PlaceInside
  <2>4. b[p] = a[p] /\ p <= Len(a)
    BY <1>1, <2>1, <2>2, <2>3
  <2> QED
    BY <1>1, <2>1, <2>4 DEF Agrees
<1> QED
  BY <1>1, <1>2 DEF Agrees

\* Records that follow others have their bytes after those of the others.
LEMMA AgreesConcat ==
    ASSUME NEW b, NEW s \in Seq(Record), NEW t \in Seq(Record), NEW p \in Nat,
           p = Len(s) * total_size, Len(b) \in Nat, Agrees(b, s),
           \A k \in 1 .. Len(t), i \in 1 .. total_size :
               p + Place(k, i) <= Len(b) => b[p + Place(k, i)] = t[k][i]
    PROVE  Agrees(b, s \o t)
<1>1. PICK m \in Nat, n \in Nat : m = Len(s) /\ n = Len(t)
  BY LenProperties
<1>2. PICK u \in Seq(Record) : u = s \o t
  BY ConcatProperties
<1>3. Len(u) = m + n /\ \A k \in 1 .. m + n : u[k] = IF k <= m THEN s[k] ELSE t[k - m]
  BY <1>1, <1>2, ConcatProperties
<1>4. ASSUME NEW k \in 1 .. m + n, NEW i \in 1 .. total_size, Place(k, i) <= Len(b)
      PROVE  b[Place(k, i)] = u[k][i]
  <2>1. CASE k <= m
    BY <1>1, <1>3, <1>4, <2>1 DEF Agrees
  <2>2. CASE ~(k <= m)
    <3>1. PICK j \in 1 .. n : k = m + j
      <4>1. k - m \in 1 .. n /\ k = m + (k - m)
        BY <2>2
      <4> QED
        BY <4>1
    <3>2. Place(k, i) = p + Place(j, i)
      <4>1. j \in Nat \ {0}
        OBVIOUS
      <4> QED
        BY <1>1, <3>1, <4>1, PlaceShifts
    <3>3. u[k] = t[j]
      <4>1. k - m = j
        BY <3>1
      <4> QED
        BY <1>3, <2>2, <4>1
    <3> QED
      BY <1>1, <1>4, <3>2, <3>3
  <2> QED
    BY <2>1, <2>2
<1> QED
  BY <1>2, <1>3, <1>4 DEF Agrees

LEMMA AgreesAppend ==
    ASSUME NEW b \in Seq(Nat), NEW s \in Seq(Record), NEW r \in Record,
           Len(b) = Len(s) * total_size, Agrees(b, s)
    PROVE  Agrees(b \o r, Append(s, r)) /\ Len(b \o r) = (Len(s) + 1) * total_size
<1>1. PICK n \in Nat, p \in Nat : n = Len(s) /\ p = n * total_size
  BY LenProperties, Times
<1>2. r \in Seq(Nat) /\ Len(r) = total_size /\ total_size \in Nat
  BY RecordIsSeq, SizeTyped
<1>3. PICK c \in Seq(Nat) : c = b \o r
  BY <1>2, ConcatProperties
<1>4. Len(c) = p + total_size
      /\ \A x \in 1 .. p + total_size : c[x] = IF x <= p THEN b[x] ELSE r[x - p]
  <2>1. /\ Len(c) = Len(b) + Len(r)
        /\ \A x \in 1 .. Len(b) + Len(r) : c[x] = IF x <= Len(b) THEN b[x] ELSE r[x - Len(b)]
    BY <1>2, <1>3, ConcatProperties
  <2>2. Len(b) = p
    BY <1>1
  <2> QED
    BY <1>2, <2>1, <2>2
<1>5. Agrees(c, s)
  <2>1. \A x \in 1 .. Len(s) * total_size : c[x] = b[x]
    BY <1>1, <1>2, <1>4
  <2>2. Len(s) \in Nat /\ Len(b) \in Nat /\ Len(c) \in Nat /\ Len(s) * total_size <= Len(b)
    BY <1>1, <1>2, <1>4
  <2> QED
    BY <2>1, <2>2, AgreesFirst
<1>6. PICK t \in Seq(Record) : t = <<r>>
  <2>1. <<r>> = Append(<<>>, r)
    OBVIOUS
  <2> QED
    BY <2>1, EmptySeq, AppendProperties
<1>7. Len(t) = 1 /\ t[1] = r
  BY <1>6
<1>8. ASSUME NEW k \in 1 .. Len(t), NEW i \in 1 .. total_size
      PROVE  c[p + Place(k, i)] = t[k][i]
  <2>1. k = 1
    BY <1>7
  <2>2. 0 * total_size = 0
    BY <1>2
  <2>3. Place(k, i) = i
    BY <1>2, <2>1, <2>2 DEF Place
  <2>4. p + i \in 1 .. p + total_size /\ ~(p + i <= p) /\ (p + i) - p = i
    BY <1>1, <1>2
  <2> QED
    BY <1>4, <1>7, <2>1, <2>3, <2>4
<1>9. Agrees(c, s \o t)
  <2>1. p = Len(s) * total_size /\ Len(c) \in Nat
    BY <1>1, <1>2, <1>4
  <2> QED
    BY <1>5, <1>8, <2>1, AgreesConcat
<1>10. Append(s, r) = s \o t
  BY <1>6, AppendIsConcat
<1> QED
  BY <1>1, <1>3, <1>4, <1>9, <1>10, Times

\* A file that is whole has one record for each of those written, and no more.
LEMMA WholeFile ==
    ASSUME NEW data \in Seq(Nat), NEW s \in Seq(Record), NEW stale \in Stale,
           Len(data) = Len(s) * total_size, Agrees(data, s)
    PROVE  Pieces(data, stale) = s
<1>1. PICK ps \in Seq(Record) : ps = Pieces(data, stale)
  BY PiecesAgree
<1>2. PICK n \in Nat, m \in Nat, l \in Nat : n = Len(ps) /\ m = Len(s) /\ l = Len(data)
  BY <1>1, LenProperties
<1>3. l <= n * total_size /\ n * total_size < l + total_size /\ Agrees(data, ps)
      /\ l = m * total_size
  BY <1>1, <1>2, PiecesAgree
<1>4. n = m
  <2>1. PICK a \in Nat, b \in Nat : a = n * total_size /\ b = m * total_size
    BY <1>2, Times
  <2>2. n < m => a + total_size <= b
    BY <1>2, <2>1, Times
  <2>3. m < n => b + total_size <= a
    BY <1>2, <2>1, Times
  <2>4. b <= a /\ a < b + total_size
    BY <1>3, <2>1
  <2> QED
    BY <1>2, <2>1, <2>2, <2>3, <2>4, SizeTyped
<1>5. ASSUME NEW k \in 1 .. n PROVE ps[k] = s[k]
  <2>1. ps[k] \in Record /\ s[k] \in Record
    BY <1>2, <1>4, ElementOfSeq
  <2>2. \A i \in 1 .. total_size : Place(k, i) <= l
    BY <1>2, <1>3, <1>4, PlaceInside
  <2>3. \A i \in 1 .. total_size : ps[k][i] = s[k][i]
    BY <1>2, <1>3, <1>4, <2>2 DEF Agrees
  <2> QED
    BY <2>1, <2>3, RecordsEqual
<1> QED
  BY <1>1, <1>2, <1>4, <1>5, SeqEqual

LEMMA BytesAgree ==
    ASSUME NEW s \in Seq(Record)
    PROVE  /\ BytesOf(s) \in Seq(Nat)
           /\ Len(BytesOf(s)) = Len(s) * total_size
           /\ Agrees(BytesOf(s), s)
<1>1. PICK n \in Nat, l \in Nat : n = Len(s) /\ l = n * total_size
  BY LenProperties, Times
<1>2. PICK b : b = BytesOf(s)
  OBVIOUS
<1>3. b = [x \in 1 .. l |-> s[1 + ((x - 1) \div total_size)][1 + ((x - 1) % total_size)]]
  BY <1>1, <1>2 DEF BytesOf
<1>4. \A k \in 1 .. n, i \in 1 .. total_size :
        /\ Place(k, i) \in 1 .. l
        /\ 1 + ((Place(k, i) - 1) \div total_size) = k
        /\ 1 + ((Place(k, i) - 1) % total_size) = i
  <2> TAKE k \in 1 .. n, i \in 1 .. total_size
  <2>1. Place(k, i) \in 1 .. l
    <3>1. Place(k, i) \in Nat \ {0} /\ Place(k, i) <= n * total_size
      BY PlaceInside
    <3> QED
      BY <1>1, <3>1
  <2>2. k \in Nat \ {0}
    OBVIOUS
  <2> QED
    BY <2>1, <2>2, PlaceDivided
<1>5. \A k \in 1 .. n, i \in 1 .. total_size : b[Place(k, i)] = s[k][i]
  BY <1>3, <1>4
<1>6. ASSUME NEW x \in 1 .. l PROVE b[x] \in Nat
  <2>1. PICK k \in 1 .. n, i \in 1 .. total_size : x = Place(k, i)
    BY <1>1, PlaceOf
  <2>2. s[k] \in Record
    BY <1>1, ElementOfSeq
  <2> QED
    BY <1>5, <2>1, <2>2 DEF Record
<1>7. b \in [1 .. l -> Nat]
  BY <1>3, <1>6
<1>8. b \in Seq(Nat)
  BY <1>1, <1>7, SeqDef
<1>9. Len(b) = l
  BY <1>1, <1>3
<1> QED
  BY <1>1, <1>2, <1>5, <1>8, <1>9 DEF Agrees

-----------------------------------------------------------------------------
(* The sort.                                                               *)

\* Those that record k does not precede.
UpTo(s, k) == {j \in DOMAIN s : ~Earlier(s, k, j)}

LEMMA Ordered ==
    ASSUME NEW s \in Seq(Record), NEW j \in DOMAIN s, NEW k \in DOMAIN s
    PROVE  /\ s[j][1] \in Nat /\ j \in Nat
           /\ j # k => Earlier(s, j, k) \/ Earlier(s, k, j)
           /\ ~(Earlier(s, j, k) /\ Earlier(s, k, j))
           /\ ~Earlier(s, j, j)
           /\ ~Earlier(s, k, j) => s[j][1] <= s[k][1]
           /\ \A l \in DOMAIN s : Earlier(s, j, k) /\ Earlier(s, k, l) => Earlier(s, j, l)
<1>1. PICK n \in Nat : n = Len(s) /\ DOMAIN s = 1 .. n
  BY LenProperties
<1>2. \A l \in DOMAIN s : s[l][1] \in Nat /\ l \in Nat
  <2> TAKE l \in DOMAIN s
  <2>1. s[l] \in Record
    BY <1>1, ElementOfSeq
  <2>2. 1 \in 1 .. total_size
    BY SizeTyped
  <2> QED
    <3>1. PICK r \in Record : r = s[l]
      BY <2>1
    <3>2. r[1] \in Nat
      BY <2>2 DEF Record
    <3>3. l \in Nat
      BY <1>1
    <3> QED
      BY <3>1, <3>2, <3>3
<1> QED
  BY <1>2 DEF Earlier

\* A record's rank grows with the order.
LEMMA RankGrows ==
    ASSUME NEW s \in Seq(Record), NEW k \in DOMAIN s
    PROVE  /\ Rank(s, k) \in 1 .. Len(s)
           /\ \A l \in DOMAIN s : Earlier(s, k, l) => Rank(s, k) < Rank(s, l)
<1>1. PICK n \in Nat : n = Len(s) /\ DOMAIN s = 1 .. n
  BY LenProperties
<1>2. IsFiniteSet(1 .. n) /\ Cardinality(1 .. n) = n
  BY FS_Interval
<1>3. \A l \in DOMAIN s : /\ UpTo(s, l) \in SUBSET (1 .. n)
                          /\ IsFiniteSet(UpTo(s, l))
                          /\ Cardinality(UpTo(s, l)) <= n
                          /\ Cardinality(UpTo(s, l)) \in Nat
                          /\ Rank(s, l) = Cardinality(UpTo(s, l))
  <2> TAKE l \in DOMAIN s
  <2>1. UpTo(s, l) \in SUBSET (1 .. n)
    BY <1>1 DEF UpTo
  <2>2. IsFiniteSet(UpTo(s, l)) /\ Cardinality(UpTo(s, l)) <= n
    BY <1>2, <2>1, FS_Subset
  <2>3. Cardinality(UpTo(s, l)) \in Nat
    BY <2>2, FS_CardinalityType
  <2> QED
    BY <2>1, <2>2, <2>3 DEF Rank, UpTo
<1>4. Cardinality(UpTo(s, k)) # 0
  <2>1. k \in UpTo(s, k)
    BY Ordered DEF UpTo
  <2> QED
    BY <1>3, <2>1, FS_EmptySet
<1>5. ASSUME NEW l \in DOMAIN s, Earlier(s, k, l)
      PROVE  Rank(s, k) < Rank(s, l)
  <2>1. UpTo(s, k) \in SUBSET UpTo(s, l)
    <3> SUFFICES ASSUME NEW j \in DOMAIN s, ~Earlier(s, k, j), Earlier(s, l, j)
                 PROVE  FALSE
      BY DEF UpTo
    <3> QED
      BY <1>5, Ordered
  <2>2. l \in UpTo(s, l) /\ l \notin UpTo(s, k)
    BY <1>5, Ordered DEF UpTo
  <2>3. /\ Cardinality(UpTo(s, k)) <= Cardinality(UpTo(s, l))
        /\ Cardinality(UpTo(s, k)) # Cardinality(UpTo(s, l))
    BY <1>3, <2>1, <2>2, FS_Subset
  <2> QED
    BY <1>3, <2>3
<1> QED
  BY <1>1, <1>3, <1>4, <1>5

\* Each record has a place of its own, and each place gets one.
LEMMA RankIsOnto ==
    ASSUME NEW s \in Seq(Record)
    PROVE  /\ \A m \in 1 .. Len(s) : \E k \in DOMAIN s : Rank(s, k) = m
           /\ \A j, k \in DOMAIN s : Rank(s, j) = Rank(s, k) => j = k
<1>1. PICK n \in Nat : n = Len(s) /\ DOMAIN s = 1 .. n
  BY LenProperties
<1>2. IsFiniteSet(1 .. n) /\ Cardinality(1 .. n) = n
  BY FS_Interval
<1>3. \A k \in 1 .. n : Rank(s, k) \in 1 .. n
  BY <1>1, RankGrows
<1>4. ASSUME NEW j \in DOMAIN s, NEW k \in DOMAIN s, Rank(s, j) = Rank(s, k)
      PROVE  j = k
  <2>1. Rank(s, j) \in Nat /\ Rank(s, k) \in Nat
    BY <1>1, <1>3
  <2>2. ~Earlier(s, j, k) /\ ~Earlier(s, k, j)
    BY <1>4, <2>1, RankGrows
  <2> QED
    BY <2>2, Ordered
<1> DEFINE f == [k \in 1 .. n |-> Rank(s, k)]
<1>5. f \in Injection(1 .. n, 1 .. n)
  BY <1>1, <1>3, <1>4, Fun_IsInj
<1>6. f \in Surjection(1 .. n, 1 .. n)
  BY <1>2, <1>5, FS_Injection
<1>7. \A m \in 1 .. n : \E k \in 1 .. n : f[k] = m
  BY <1>6 DEF Surjection
<1> QED
  BY <1>1, <1>4, <1>7

\* The sort loses and doubles no record, brings them in the order of their hashes,
\* and leaves those of one hash in the order they had.
LEMMA ByHashSorts ==
    ASSUME NEW s \in Seq(Record)
    PROVE  /\ ByHash(s) \in Seq(Record) /\ Len(ByHash(s)) = Len(s)
           /\ \A j, k \in 1 .. Len(s) : j < k => ByHash(s)[j][1] <= ByHash(s)[k][1]
           /\ \E p \in Bijection(1 .. Len(s), 1 .. Len(s)) :
                /\ ByHash(s) = [m \in 1 .. Len(s) |-> s[p[m]]]
                /\ \A j, k \in 1 .. Len(s) : j < k => Earlier(s, p[j], p[k])
<1>1. PICK n \in Nat : n = Len(s) /\ DOMAIN s = 1 .. n
  BY LenProperties
<1> DEFINE p == [m \in 1 .. n |-> CHOOSE k \in DOMAIN s : Rank(s, k) = m]
<1>2. \A m \in 1 .. n : p[m] \in 1 .. n /\ Rank(s, p[m]) = m
  <2> TAKE m \in 1 .. n
  <2>1. \E k \in DOMAIN s : Rank(s, k) = m
    BY <1>1, RankIsOnto
  <2> QED
    BY <1>1, <2>1
<1>3. ByHash(s) = [m \in 1 .. n |-> s[p[m]]]
  BY <1>1 DEF ByHash
<1> HIDE DEF p
<1>4. p \in Bijection(1 .. n, 1 .. n)
  <2>1. p \in [1 .. n -> 1 .. n]
    BY <1>2 DEF p
  <2>2. \A j, k \in 1 .. n : p[j] = p[k] => j = k
    BY <1>2
  <2>3. \A k \in 1 .. n : \E m \in 1 .. n : p[m] = k
    <3> TAKE k \in 1 .. n
    <3>1. PICK m \in 1 .. n : m = Rank(s, k)
      BY <1>1, RankGrows
    <3>2. Rank(s, p[m]) = Rank(s, k)
      BY <1>2, <3>1
    <3> QED
      BY <1>1, <1>2, <3>2, RankIsOnto
  <2> QED
    BY <2>1, <2>2, <2>3, Fun_IsBij
<1>5. ASSUME NEW j \in 1 .. n, NEW k \in 1 .. n, j < k
      PROVE  Earlier(s, p[j], p[k]) /\ s[p[j]][1] <= s[p[k]][1]
  <2>1. p[j] \in DOMAIN s /\ p[k] \in DOMAIN s /\ Rank(s, p[j]) = j /\ Rank(s, p[k]) = k
    BY <1>1, <1>2
  <2>2. ~Earlier(s, p[k], p[j])
    BY <1>5, <2>1, RankGrows
  <2>3. p[j] # p[k]
    BY <1>5, <2>1
  <2> QED
    BY <2>1, <2>2, <2>3, Ordered
<1>6. ByHash(s) \in Seq(Record)
  <2>1. \A m \in 1 .. n : s[p[m]] \in Record
    BY <1>1, <1>2, ElementOfSeq
  <2> QED
    BY <1>3, <2>1, SeqDef
<1>7. Len(ByHash(s)) = n
  BY <1>3
<1> QED
  BY <1>1, <1>3, <1>4, <1>5, <1>6, <1>7

-----------------------------------------------------------------------------
(* The invariant.                                                          *)

Typed ==
    /\ file \in Seq(Nat) /\ out \in Seq(Nat)
    /\ log \in Seq(Record) /\ seen \in Seq(Record)
    /\ pc \in {"closed", "writing", "viewing", "finding", "found"}
    /\ pos \in Nat /\ eof \in BOOLEAN
    /\ sorted \in BOOLEAN /\ cut \in BOOLEAN
    /\ last \in Nat /\ hash \in Nat /\ result \in Seq(Nat)
    /\ pc = "finding" => buffer \in Record

\* What was written is on the disk or in the stream's buffer, and nothing else is
\* but what follows a record that was cut.
Logged ==
    /\ IF cut THEN Len(log) * total_size <= Len(file)
              ELSE Len(log) * total_size = Len(file) + Len(out)
    /\ Agrees(file \o out, log)
    /\ pc # "writing" => out = <<>>

InOrder ==
    sorted => /\ ~cut /\ pc # "writing"
              /\ \A j, k \in 1 .. Len(log) : j < k => log[j][1] <= log[k][1]

\* No stream reads.
Idle ==
    /\ pc \in {"closed", "writing"} => pos = 0 /\ ~eof /\ seen = <<>>
    /\ pc \in {"closed", "writing", "viewing"} => last = 0

\* What has been read are the records up to the position of the stream, which is
\* between two of them until the end of the file.
Viewing ==
    pc = "viewing" =>
        /\ Agrees(file, seen)
        /\ IF eof THEN /\ Len(file) <= Len(seen) * total_size
                       /\ Len(seen) * total_size < Len(file) + total_size
                  ELSE Len(seen) * total_size = pos /\ pos <= Len(file)

\* The records of a hash among the first m.
Having(h, m) == {k \in 1 .. m : log[k][1] = h}

\* m records have been read; all but the last of them have no greater hash, and
\* those that have the hash were found.
Searched(m) ==
    /\ pos = m * total_size
    /\ last = IF m = 0 THEN 0 ELSE log[m][1]
    /\ \A k \in 1 .. m - 1 : log[k][1] <= hash
    /\ Len(result) = Cardinality(Having(hash, m)) + (IF hash = 0 THEN 1 ELSE 0)

SearchedAll ==
    /\ pos = Len(file)
    /\ \A k \in 1 .. Len(log) : log[k][1] <= hash
    /\ Len(result) >= Cardinality(Having(hash, Len(log)))

Finding ==
    pc \in {"finding", "found"} =>
        /\ sorted
        /\ IF eof THEN SearchedAll ELSE \E m \in 0 .. Len(log) : Searched(m)
        /\ pc = "found" => eof \/ last > hash

IInv == Typed /\ Logged /\ InOrder /\ Idle /\ Viewing /\ Finding

-----------------------------------------------------------------------------
(* The writer.                                                             *)

LEMMA Nothing ==
    ASSUME NEW b
    PROVE  Agrees(b, <<>>)
BY DEF Agrees

LEMMA InitIInv ==
    ASSUME Init
    PROVE  IInv
<1>1. Typed
  BY EmptySeq DEF Init, Typed
<1>2. Logged
  <2>1. Len(log) = 0 /\ Len(file) = 0 /\ Len(out) = 0 /\ log = <<>>
    BY DEF Init
  <2>2. 0 * total_size = 0
    BY SizeTyped
  <2> QED
    BY <2>1, <2>2, Nothing DEF Init, Logged
<1> QED
  BY <1>1, <1>2 DEF IInv, InOrder, Idle, Viewing, Finding, Init

\* The parts about readers hold of themselves while there is a writer.
LEMMA WriterSteps ==
    ASSUME IInv, pc' \in {"closed", "writing"}, pc \in {"closed", "writing"},
           UNCHANGED <<finding, pos, eof, seen>>,
           file' \in Seq(Nat), out' \in Seq(Nat), log' \in Seq(Record),
           cut' \in BOOLEAN, sorted' \in BOOLEAN, Logged', InOrder'
    PROVE  IInv'
<1>1. Typed'
  BY DEF IInv, Typed, finding
<1>2. Idle'
  BY DEF IInv, Idle, finding
<1> QED
  BY <1>1, <1>2 DEF IInv, Viewing, Finding

LEMMA OpenPreserves ==
    ASSUME IInv, Open
    PROVE  IInv'
<1>1. Logged' /\ InOrder'
  BY DEF IInv, Open, Logged, InOrder, Agrees
<1> QED
  BY <1>1, WriterSteps DEF IInv, Typed, Open

\* The bytes on the disk and in the buffer.
LEMMA AllBytes ==
    ASSUME IInv
    PROVE  /\ file \o out \in Seq(Nat) /\ Len(file) \in Nat /\ Len(out) \in Nat
           /\ Len(file \o out) = Len(file) + Len(out)
           /\ \A x \in 1 .. Len(file) + Len(out) :
                (file \o out)[x] = IF x <= Len(file) THEN file[x] ELSE out[x - Len(file)]
           /\ Len(log) \in Nat /\ Len(log) * total_size \in Nat
           /\ Len(log) * total_size <= Len(file) + Len(out)
<1>1. file \in Seq(Nat) /\ out \in Seq(Nat) /\ log \in Seq(Record)
  BY DEF IInv, Typed
<1>2. Len(file) \in Nat /\ Len(out) \in Nat /\ Len(log) \in Nat
  BY <1>1, LenProperties
<1>3. Len(log) * total_size \in Nat
  BY <1>2, Times
<1>4. Len(log) * total_size <= Len(file) + Len(out)
  BY <1>2, <1>3 DEF IInv, Logged
<1> QED
  BY <1>1, <1>2, <1>3, <1>4, ConcatProperties

LEMMA WritePreserves ==
    ASSUME IInv, NEW r \in Records, Write(r)
    PROVE  IInv'
<1>1. /\ pc = "writing" /\ out' = out \o r
      /\ log' = IF cut THEN log ELSE Append(log, r)
      /\ UNCHANGED <<file, sorted, cut, kills, finding, pc, pos, eof, seen>>
  BY DEF Write
<1>2. r \in Record /\ r \in Seq(Nat) /\ Len(r) = total_size
  <2>1. r \in Record
    BY SizeAssumption DEF Record
  <2> QED
    BY <2>1, RecordIsSeq
<1>3. file \in Seq(Nat) /\ out \in Seq(Nat) /\ log \in Seq(Record)
  BY DEF IInv, Typed
<1>4. out' \in Seq(Nat) /\ log' \in Seq(Record)
  BY <1>1, <1>2, <1>3, ConcatProperties, AppendProperties
<1>5. file' \o out' = (file \o out) \o r
  <2>1. (file \o out) \o r = file \o (out \o r)
    BY <1>2, <1>3, ConcatAssociative
  <2> QED
    BY <1>1, <2>1
<1>6. PICK b \in Seq(Nat) : b = file \o out
  BY AllBytes
<1>7. PICK f \in Nat, o \in Nat, n \in Nat : f = Len(file) /\ o = Len(out) /\ n = Len(log)
  BY AllBytes
<1>8. Len(out') = o + total_size /\ Len(b) = f + o /\ Len(file') = f
  BY <1>1, <1>2, <1>3, <1>6, <1>7, AllBytes, ConcatProperties
<1>9. Agrees(b, log)
  BY <1>6 DEF IInv, Logged
<1>10. ASSUME cut PROVE Logged'
  <2>1. log' = log /\ n * total_size <= f /\ cut'
    BY <1>1, <1>7, <1>10 DEF IInv, Logged
  <2>2. Agrees(b \o r, log)
    <3>1. /\ Len(b \o r) = Len(b) + Len(r)
          /\ \A x \in 1 .. Len(b) + Len(r) : (b \o r)[x] = IF x <= Len(b) THEN b[x] ELSE r[x - Len(b)]
      BY <1>2, ConcatProperties
    <3>2. n * total_size \in Nat /\ total_size \in Nat
      BY Times, SizeTyped
    <3>3. \A x \in 1 .. n * total_size : (b \o r)[x] = b[x]
      BY <1>2, <1>7, <1>8, <2>1, <3>1, <3>2
    <3>4. Len(b) \in Nat /\ Len(b \o r) \in Nat /\ n * total_size <= Len(b)
      BY <1>2, <1>7, <1>8, <2>1, <3>1, <3>2
    <3> QED
      BY <1>7, <1>9, <3>3, <3>4, AgreesFirst
  <2>3. Agrees(file' \o out', log')
    BY <1>5, <1>6, <2>1, <2>2
  <2>4. Len(log') * total_size <= Len(file')
    BY <1>7, <1>8, <2>1
  <2>5. pc' = "writing" /\ cut'
    BY <1>1, <2>1
  <2> QED
    BY <2>3, <2>4, <2>5 DEF Logged
<1>11. ASSUME ~cut PROVE Logged'
  <2>1. log' = Append(log, r) /\ n * total_size = f + o /\ ~cut'
    BY <1>1, <1>7, <1>11 DEF IInv, Logged
  <2>2. Agrees(b \o r, log') /\ Len(b \o r) = (n + 1) * total_size
    BY <1>2, <1>3, <1>6, <1>7, <1>8, <1>9, <2>1, AgreesAppend
  <2>3. Len(log') = n + 1
    BY <1>2, <1>3, <1>7, <2>1, AppendProperties
  <2>4. (n + 1) * total_size = f + (o + total_size)
    <3>1. (n + 1) * total_size = n * total_size + total_size
      BY <1>7, Times
    <3>2. (f + o) + total_size = f + (o + total_size)
      BY <1>7, SizeTyped
    <3> QED
      BY <2>1, <3>1, <3>2
  <2>5. Agrees(file' \o out', log')
    BY <1>5, <1>6, <2>2
  <2>6. Len(log') * total_size = Len(file') + Len(out')
    BY <1>8, <2>3, <2>4
  <2>7. pc' = "writing" /\ ~cut'
    BY <1>1, <2>1
  <2> QED
    BY <2>5, <2>6, <2>7 DEF Logged
<1>12. InOrder'
  BY <1>1 DEF IInv, InOrder
<1> QED
  BY <1>1, <1>3, <1>4, <1>10, <1>11, <1>12, WriterSteps DEF IInv, Typed

LEMMA SplitThree ==
    ASSUME NEW s \in Seq(Nat), NEW t \in Seq(Nat), NEW u \in Seq(Nat)
    PROVE  (s \o t) \o u = s \o (t \o u)
BY ConcatAssociative

\* What the stream writes to the disk is what it had in its buffer.
LEMMA FlushPreserves ==
    ASSUME IInv, Flush
    PROVE  IInv'
<1>1. PICK n \in 1 .. Len(out) :
        /\ file' = file \o SubSeq(out, 1, n)
        /\ out' = SubSeq(out, n + 1, Len(out))
  BY DEF Flush
<1>2. pc = "writing" /\ UNCHANGED <<sorted, log, cut, kills, finding, pc, pos, eof, seen>>
  BY DEF Flush
<1>3. file \in Seq(Nat) /\ out \in Seq(Nat) /\ log \in Seq(Record)
  BY DEF IInv, Typed
<1>4. PICK f \in Nat, o \in Nat : f = Len(file) /\ o = Len(out)
  BY AllBytes
<1>5. \A i \in 1 .. o : out[i] \in Nat
  BY <1>3, <1>4, ElementOfSeq
<1>6. PICK h : h = SubSeq(out, 1, n)
  OBVIOUS
<1>7. h \in Seq(Nat) /\ Len(h) = n
  <2>1. \A i \in 1 .. n : out[i] \in Nat
    BY <1>4, <1>5
  <2> QED
    BY <1>6, <2>1, SubSeqProperties
<1>8. out' \in Seq(Nat) /\ Len(out') = o - n
  <2>1. PICK m \in Nat : m = n + 1
    OBVIOUS
  <2>2. m \in Int /\ o \in Int /\ \A i \in m .. o : out[i] \in Nat
    BY <1>4, <1>5, <2>1
  <2>3. /\ SubSeq(out, m, o) \in Seq(Nat)
        /\ Len(SubSeq(out, m, o)) = IF m <= o THEN o - m + 1 ELSE 0
    BY <2>2, SubSeqProperties
  <2> QED
    BY <1>1, <1>4, <2>1, <2>3
<1>9. file' \in Seq(Nat) /\ Len(file') = f + n
  BY <1>1, <1>3, <1>4, <1>6, <1>7, ConcatProperties
<1>10. file' \o out' = file \o out
  <2>1. h \o out' = out
    <3>1. SubSeq(out, 1, n) \o SubSeq(out, n + 1, o) = SubSeq(out, 1, o)
      BY <1>3, <1>4, ConcatAdjacentSubSeq
    <3>2. SubSeq(out, 1, o) = out
      BY <1>3, <1>4, SubSeqFull
    <3> QED
      BY <1>1, <1>4, <1>6, <3>1, <3>2
  <2>2. (file \o h) \o out' = file \o (h \o out')
    <3>1. PICK u \in Seq(Nat) : u = out'
      BY <1>8
    <3>2. (file \o h) \o u = file \o (h \o u)
      BY <1>3, <1>7, SplitThree
    <3> QED
      BY <3>1, <3>2
  <2> QED
    BY <1>1, <1>6, <2>1, <2>2
<1>11. Logged'
  <2>1. Agrees(file' \o out', log')
    BY <1>2, <1>10 DEF IInv, Logged
  <2>2. cut => Len(log') * total_size <= Len(file')
    <3>1. cut => Len(log) * total_size <= f
      BY <1>4 DEF IInv, Logged
    <3>2. Len(log) * total_size \in Nat
      BY AllBytes
    <3> QED
      BY <1>2, <1>4, <1>9, <3>1, <3>2
  <2>3. ~cut => Len(log') * total_size = Len(file') + Len(out')
    <3>1. ~cut => Len(log) * total_size = f + o
      BY <1>4 DEF IInv, Logged
    <3>2. f + o = (f + n) + (o - n)
      BY <1>4
    <3> QED
      BY <1>2, <1>8, <1>9, <3>1, <3>2
  <2>4. pc' = "writing" /\ cut' = cut
    BY <1>2
  <2> QED
    BY <2>1, <2>2, <2>3, <2>4 DEF Logged
<1>12. InOrder'
  BY <1>2 DEF IInv, InOrder
<1> QED
  BY <1>2, <1>3, <1>8, <1>9, <1>11, <1>12, WriterSteps DEF IInv, Typed

LEMMA ClosePreserves ==
    ASSUME IInv, Close
    PROVE  IInv'
<1>1. /\ pc = "writing" /\ pc' = "closed" /\ file' = file \o out /\ out' = <<>>
      /\ UNCHANGED <<sorted, log, cut, kills, finding, pos, eof, seen>>
  BY DEF Close
<1>2. file \in Seq(Nat) /\ out \in Seq(Nat) /\ log \in Seq(Record)
  BY DEF IInv, Typed
<1>3. PICK f \in Nat, o \in Nat : f = Len(file) /\ o = Len(out)
  BY AllBytes
<1>4. file' \in Seq(Nat) /\ Len(file') = f + o /\ out' \in Seq(Nat) /\ Len(out') = 0
  BY <1>1, <1>2, <1>3, AllBytes, EmptySeq
<1>5. file' \o out' = file \o out
  <2>1. file' \o <<>> = file'
    BY <1>4, ConcatEmptySeq
  <2> QED
    BY <1>1, <2>1
<1>6. Logged'
  <2>1. Agrees(file' \o out', log')
    BY <1>1, <1>5 DEF IInv, Logged
  <2>2. cut => Len(log') * total_size <= Len(file')
    BY <1>1, <1>3, <1>4, AllBytes
  <2>3. ~cut => Len(log') * total_size = Len(file') + Len(out')
    <3>1. ~cut => Len(log) * total_size = f + o
      BY <1>3 DEF IInv, Logged
    <3> QED
      BY <1>1, <1>3, <1>4, <3>1
  <2>4. out' = <<>> /\ cut' = cut
    BY <1>1
  <2> QED
    BY <2>1, <2>2, <2>3, <2>4 DEF Logged
<1>7. InOrder'
  BY <1>1 DEF IInv, InOrder
<1> QED
  BY <1>1, <1>2, <1>4, <1>6, <1>7, WriterSteps DEF IInv, Typed

\* A kill leaves the records that are on the disk as a whole.
LEMMA KillPreserves ==
    ASSUME IInv, Kill
    PROVE  IInv'
<1>1. /\ pc = "writing" /\ pc' = "closed" /\ out' = <<>>
      /\ log' = IF cut THEN log ELSE SubSeq(log, 1, Len(file) \div total_size)
      /\ cut' = (cut \/ Len(file) % total_size # 0)
      /\ UNCHANGED <<file, sorted, finding, pos, eof, seen>>
  BY DEF Kill
<1>2. file \in Seq(Nat) /\ out \in Seq(Nat) /\ log \in Seq(Record) /\ cut \in BOOLEAN
  BY DEF IInv, Typed
<1>3. PICK f \in Nat, o \in Nat, n \in Nat : f = Len(file) /\ o = Len(out) /\ n = Len(log)
  BY AllBytes
<1>4. file' \o out' = file /\ file' = file
  BY <1>1, <1>2, ConcatEmptySeq
<1>5. PICK b \in Seq(Nat) : b = file \o out
  BY AllBytes
<1>6. /\ Len(b) = f + o /\ n * total_size \in Nat /\ n * total_size <= f + o
      /\ \A x \in 1 .. f : b[x] = file[x]
  BY <1>3, <1>5, AllBytes
<1>7. Agrees(b, log)
  BY <1>5 DEF IInv, Logged
<1>8. ASSUME cut PROVE log' \in Seq(Record) /\ Logged'
  <2>1. log' = log /\ n * total_size <= f /\ cut'
    BY <1>1, <1>3, <1>8 DEF IInv, Logged
  <2>2. Agrees(file, log)
    <3>1. \A x \in 1 .. Len(log) * total_size : file[x] = b[x]
      BY <1>3, <1>6, <2>1
    <3>2. Len(file) \in Nat /\ Len(b) \in Nat /\ Len(log) * total_size <= Len(b)
      BY <1>3, <1>6
    <3> QED
      BY <1>3, <1>7, <3>1, <3>2, AgreesFirst
  <2>3. out' = <<>>
    BY <1>1
  <2> QED
    BY <1>2, <1>3, <1>4, <2>1, <2>2, <2>3 DEF Logged
<1>9. ASSUME ~cut PROVE log' \in Seq(Record) /\ Logged'
  <2>1. n * total_size = f + o
    BY <1>3, <1>9 DEF IInv, Logged
  <2>2. PICK d \in Nat, m \in 0 .. total_size - 1 :
          /\ d = f \div total_size /\ m = f % total_size
          /\ f = d * total_size + m
    <3>1. f \div total_size \in Nat /\ f % total_size \in 0 .. total_size - 1
      BY Division
    <3>2. f = (f \div total_size) * total_size + (f % total_size)
      BY Division
    <3> QED
      BY <3>1, <3>2
  <2>3. PICK p \in Nat : p = d * total_size
    BY Times
  <2>4. d <= n
    <3>1. n < d => n * total_size + total_size <= p
      BY <2>3, Times
    <3>2. m \in Nat /\ f = p + m
      BY <2>2, <2>3, SizeTyped
    <3>3. PICK q \in Nat : q = n * total_size
      BY Times
    <3>4. q = f + o /\ (n < d => q + total_size <= p)
      BY <2>1, <3>1, <3>3
    <3> QED
      BY <1>3, <2>2, <3>2, <3>3, <3>4, SizeTyped
  <2>5. log' = SubSeq(log, 1, d) /\ (cut' <=> m # 0)
    BY <1>1, <1>3, <1>9, <2>2
  <2>6. /\ log' \in Seq(Record) /\ Len(log') = d
        /\ \A k \in 1 .. d : log'[k] = log[k]
    <3>1. \A k \in 1 .. d : log[k] \in Record
      BY <1>2, <1>3, <2>4, ElementOfSeq
    <3>2. /\ SubSeq(log, 1, d) \in Seq(Record)
          /\ Len(SubSeq(log, 1, d)) = IF 1 <= d THEN d - 1 + 1 ELSE 0
          /\ \A k \in 1 .. d - 1 + 1 : SubSeq(log, 1, d)[k] = log[1 + k - 1]
      BY <3>1, SubSeqProperties
    <3> QED
      BY <2>5, <3>2
  <2>7. Agrees(file, log')
    <3> SUFFICES ASSUME NEW k \in 1 .. d, NEW i \in 1 .. total_size, Place(k, i) <= f
                 PROVE  file[Place(k, i)] = log'[k][i]
      BY <1>3, <2>6 DEF Agrees
    <3>1. k \in 1 .. n
      BY <2>4
    <3>2. Place(k, i) \in 1 .. f
      BY <1>3, PlaceInside
    <3>3. Place(k, i) <= f + o
      BY <1>3, <3>2
    <3>4. b[Place(k, i)] = log[k][i]
      BY <1>3, <1>6, <1>7, <3>1, <3>3 DEF Agrees
    <3> QED
      BY <1>6, <2>6, <3>2, <3>4
  <2>8. p <= f /\ (m = 0 => p = f)
    BY <1>3, <2>2, <2>3, SizeTyped
  <2>9. Len(log') * total_size = p /\ Len(file') = f /\ out' = <<>> /\ Len(out') = 0
    BY <1>1, <1>3, <2>3, <2>6
  <2>10. Agrees(file' \o out', log')
    BY <1>4, <2>7
  <2> QED
    BY <1>3, <2>3, <2>5, <2>6, <2>8, <2>9, <2>10 DEF Logged
<1>10. InOrder'
  <2>1. ~sorted
    BY <1>1 DEF IInv, InOrder
  <2> QED
    BY <1>1, <2>1 DEF InOrder
<1>11. cut' \in BOOLEAN
  BY <1>1
<1>12. log' \in Seq(Record) /\ Logged'
  BY <1>8, <1>9
<1>13. file' \in Seq(Nat) /\ out' \in Seq(Nat) /\ sorted' \in BOOLEAN
  BY <1>1, <1>2, EmptySeq DEF IInv, Typed
<1> QED
  BY <1>1, <1>10, <1>11, <1>12, <1>13, WriterSteps

\* The sort rewrites the file as the records that it holds, in their order; a file
\* without a cut holds what was written.
LEMMA SortPreserves ==
    ASSUME IInv, Sort
    PROVE  IInv'
<1>1. PICK stale \in Stale :
        /\ file' = BytesOf(ByHash(Pieces(file, stale)))
        /\ log' = ByHash(IF cut THEN Pieces(file, stale) ELSE log)
  BY DEF Sort
<1>2. /\ pc = "closed" /\ sorted' = TRUE /\ cut' = FALSE
      /\ UNCHANGED <<out, kills, finding, pc, pos, eof, seen>>
  BY DEF Sort
<1>3. file \in Seq(Nat) /\ log \in Seq(Record) /\ out = <<>>
  BY <1>2 DEF IInv, Typed, Logged
<1>4. PICK ps \in Seq(Record) : ps = Pieces(file, stale)
  BY <1>3, PiecesAgree
<1>5. ~cut => ps = log
  <2> SUFFICES ASSUME ~cut PROVE ps = log
    OBVIOUS
  <2>1. file \o out = file /\ Len(out) = 0
    BY <1>3, ConcatEmptySeq
  <2>2. Len(log) * total_size = Len(file) + 0 /\ Agrees(file, log)
    BY <2>1 DEF IInv, Logged
  <2>3. Len(file) \in Nat
    BY <1>3, LenProperties
  <2>4. Len(file) = Len(log) * total_size
    BY <2>2, <2>3
  <2> QED
    BY <1>3, <1>4, <2>2, <2>4, WholeFile
<1>6. PICK s : s = ByHash(ps)
  OBVIOUS
<1>7. /\ s \in Seq(Record) /\ Len(s) = Len(ps)
      /\ \A j, k \in 1 .. Len(ps) : j < k => s[j][1] <= s[k][1]
  BY <1>6, ByHashSorts
<1>8. log' = s /\ file' = BytesOf(s)
  BY <1>1, <1>4, <1>5, <1>6
<1>9. PICK b \in Seq(Nat) : b = BytesOf(s)
  BY <1>7, BytesAgree
<1>10. Len(b) = Len(s) * total_size /\ Agrees(b, s) /\ Len(b) \in Nat
  BY <1>7, <1>9, BytesAgree, LenProperties
<1>11. file' = b /\ out' = <<>> /\ file' \o out' = b
  BY <1>2, <1>3, <1>8, <1>9, ConcatEmptySeq
<1>12. Logged'
  <2>1. Agrees(file' \o out', log')
    BY <1>8, <1>10, <1>11
  <2>2. Len(log') * total_size = Len(file') + Len(out')
    <3>1. Len(out') = 0 /\ Len(file') + 0 = Len(file')
      BY <1>10, <1>11
    <3> QED
      BY <1>8, <1>10, <1>11, <3>1
  <2> QED
    BY <1>2, <1>11, <2>1, <2>2 DEF Logged
<1>13. InOrder'
  BY <1>2, <1>7, <1>8 DEF InOrder
<1>14. file' \in Seq(Nat) /\ out' \in Seq(Nat) /\ log' \in Seq(Record)
  BY <1>7, <1>8, <1>11, EmptySeq
<1> QED
  BY <1>2, <1>12, <1>13, <1>14, WriterSteps

-----------------------------------------------------------------------------
(* "view" and a run.                                                       *)

\* The parts about the file hold of themselves while it is read.
LEMMA ReaderSteps ==
    ASSUME IInv, UNCHANGED writing, pc # "writing", pc' # "writing"
    PROVE  Logged' /\ InOrder'
BY DEF IInv, Logged, InOrder, writing, Agrees

LEMMA ViewPreserves ==
    ASSUME IInv, View
    PROVE  IInv'
<1>1. /\ pc = "closed" /\ pc' = "viewing"
      /\ UNCHANGED <<writing, finding, pos, eof, seen>>
  BY DEF View
<1>2. Typed'
  BY <1>1 DEF IInv, Typed, writing, finding
<1>3. Viewing'
  <2>1. seen = <<>> /\ pos = 0 /\ ~eof /\ file' = file /\ Len(file) \in Nat
    BY <1>1, AllBytes DEF IInv, Idle, writing
  <2>2. Len(seen) * total_size = pos
    <3>1. Len(seen) = 0 /\ 0 * total_size = 0
      BY <2>1, SizeTyped
    <3> QED
      BY <2>1, <3>1
  <2> QED
    BY <1>1, <2>1, <2>2, Nothing DEF Viewing
<1>4. Idle' /\ Finding'
  BY <1>1 DEF IInv, Idle, Finding, finding
<1> QED
  BY <1>1, <1>2, <1>3, <1>4, ReaderSteps DEF IInv

\* A chunk is read from between two records, and ends so but at the end of the file.
LEMMA ReadChunkPreserves ==
    ASSUME IInv, ReadChunk
    PROVE  IInv'
<1> DEFINE data == SubSeq(file, pos + 1, Min({pos + ChunkRecords * total_size, Len(file)}))
<1>1. /\ pc = "viewing" /\ ~eof
      /\ \E stale \in Stale : seen' = seen \o Pieces(data, stale)
      /\ pos' = pos + Len(data)
      /\ eof' = (Len(data) < ChunkRecords * total_size)
      /\ UNCHANGED <<writing, finding, pc>>
  BY DEF ReadChunk
<1>2. PICK d : d = data
  OBVIOUS
<1>3. PICK stale \in Stale : seen' = seen \o Pieces(d, stale)
  BY <1>1, <1>2
<1>4. PICK c \in Nat : c = ChunkRecords * total_size
  BY SizeTyped, Times
<1> HIDE DEF data
<1>5. /\ file \in Seq(Nat) /\ seen \in Seq(Record) /\ pos \in Nat
      /\ Agrees(file, seen)
      /\ Len(seen) * total_size = pos /\ pos <= Len(file)
  BY <1>1 DEF IInv, Typed, Viewing
<1>6. PICK f \in Nat, n \in Nat : f = Len(file) /\ n = Len(seen)
  BY <1>5, LenProperties
<1>7. /\ d \in Seq(Nat) /\ Len(d) \in Nat
      /\ \A i \in 1 .. Len(d) : d[i] = file[pos + i]
      /\ pos + Len(d) <= f /\ Len(d) <= c
      /\ Len(d) < c => pos + Len(d) = f
  <2>1. d = Taken(file, pos, c)
    BY <1>2, <1>4 DEF data, Taken
  <2>2. /\ d \in Seq(Nat) /\ Len(d) \in Nat
        /\ \A i \in 1 .. Len(d) : d[i] = file[pos + i]
        /\ pos + Len(d) <= Len(file) /\ Len(d) <= c
        /\ Len(d) < c => pos + Len(d) = Len(file)
    BY <1>5, <2>1, NextBytes
  <2> QED
    BY <1>6, <2>2
<1>8. PICK ps \in Seq(Record) : ps = Pieces(d, stale)
  BY <1>7, PiecesAgree
<1>9. PICK m \in Nat, l \in Nat : m = Len(ps) /\ l = Len(d)
  BY <1>7, <1>8, LenProperties
<1>10. l <= m * total_size /\ m * total_size < l + total_size /\ Agrees(d, ps)
  BY <1>7, <1>8, <1>9, PiecesAgree
<1>11. PICK u \in Seq(Record) : u = seen \o ps
  BY <1>5, <1>8, ConcatProperties
<1>12. seen' = u /\ Len(u) = n + m
  BY <1>3, <1>5, <1>6, <1>8, <1>9, <1>11, ConcatProperties
<1>13. PICK q \in Nat : q = m * total_size
  BY Times
<1>14. l = c => q = l
  <2> SUFFICES ASSUME l = c PROVE q = l
    OBVIOUS
  <2>1. ChunkRecords \in Nat
    BY SizeTyped
  <2>2. ChunkRecords < m => c + total_size <= q
    BY <1>4, <1>13, <2>1, Times
  <2>3. m <= ChunkRecords => q <= c
    BY <1>4, <1>13, <2>1, Times
  <2> QED
    BY <1>4, <1>10, <1>13, <2>1, <2>2, <2>3, SizeTyped
<1>15. Len(u) * total_size = pos + q
  BY <1>5, <1>6, <1>12, <1>13, Times
<1>16. Agrees(file, u)
  <2>1. ASSUME NEW k \in 1 .. m, NEW i \in 1 .. total_size, pos + Place(k, i) <= f
        PROVE  file[pos + Place(k, i)] = ps[k][i]
    <3>1. PICK x \in Nat \ {0} : x = Place(k, i)
      BY PlaceInside
    <3>2. x <= q
      BY <1>13, <3>1, PlaceInside
    <3>3. x <= l
      <4>1. CASE l = c
        BY <1>14, <3>2, <4>1
      <4>2. CASE l # c
        <5>1. l < c
          BY <1>4, <1>7, <1>9, <4>2
        <5>2. pos + l = f
          BY <1>7, <1>9, <5>1
        <5>3. pos + x <= f
          BY <2>1, <3>1
        <5> QED
          BY <1>5, <1>9, <3>1, <5>2, <5>3
      <4> QED
        BY <4>1, <4>2
    <3>4. d[x] = file[pos + x]
      BY <1>7, <1>9, <3>1, <3>3
    <3>5. d[x] = ps[k][i]
      BY <1>9, <1>10, <3>1, <3>3 DEF Agrees
    <3> QED
      BY <3>1, <3>4, <3>5
  <2>2. \A k \in 1 .. Len(ps), i \in 1 .. total_size :
          pos + Place(k, i) <= Len(file) => file[pos + Place(k, i)] = ps[k][i]
    BY <1>6, <1>9, <2>1
  <2>3. pos = Len(seen) * total_size /\ Len(file) \in Nat
    BY <1>5, <1>6
  <2> QED
    BY <1>5, <1>8, <1>11, <2>2, <2>3, AgreesConcat
<1>17. Typed'
  BY <1>1, <1>5, <1>7, <1>2, <1>12 DEF IInv, Typed, writing, finding
<1>18. Viewing'
  <2>1. pos' = pos + l /\ (eof' <=> l < c) /\ pos' <= f
    BY <1>1, <1>2, <1>4, <1>7, <1>9
  <2>2. file' = file /\ Len(seen') * total_size = pos + q /\ Agrees(file', seen')
    BY <1>1, <1>12, <1>15, <1>16 DEF writing
  <2>3. ~eof' => pos + q = pos'
    BY <1>7, <1>9, <1>14, <2>1
  <2>4. eof' => f <= pos + q /\ pos + q < f + total_size
    BY <1>4, <1>5, <1>6, <1>7, <1>9, <1>10, <1>13, <2>1, SizeTyped
  <2> QED
    BY <1>6, <2>1, <2>2, <2>3, <2>4 DEF Viewing
<1>19. Idle' /\ Finding'
  BY <1>1 DEF IInv, Idle, Finding, finding
<1> QED
  BY <1>1, <1>17, <1>18, <1>19, ReaderSteps DEF IInv

LEMMA ViewedPreserves ==
    ASSUME IInv, Viewed
    PROVE  IInv'
<1>1. /\ pc \in {"viewing", "found"} /\ pc' = "closed"
      /\ pos' = 0 /\ eof' = FALSE /\ seen' = <<>>
      /\ last' = 0 /\ buffer' = <<>> /\ hash' = 0 /\ result' = <<>>
      /\ UNCHANGED writing
  BY DEF Viewed
<1>2. Typed'
  BY <1>1, EmptySeq DEF IInv, Typed, writing
<1>3. Idle' /\ Viewing' /\ Finding'
  BY <1>1 DEF Idle, Viewing, Finding
<1> QED
  BY <1>1, <1>2, <1>3, ReaderSteps DEF IInv

-----------------------------------------------------------------------------
(* get_hashes.                                                             *)

LEMMA HavingCounts ==
    ASSUME NEW h, NEW m \in Nat
    PROVE  /\ IsFiniteSet(Having(h, m)) /\ Cardinality(Having(h, m)) \in Nat
           /\ m = 0 => Cardinality(Having(h, m)) = 0
           /\ Having(h, m) = {} => Cardinality(Having(h, m)) = 0
           /\ Cardinality(Having(h, m + 1))
                = Cardinality(Having(h, m)) + (IF log[m + 1][1] = h THEN 1 ELSE 0)
<1>1. IsFiniteSet(1 .. m)
  BY FS_Interval
<1>2. Having(h, m) \in SUBSET (1 .. m)
  BY DEF Having
<1>3. IsFiniteSet(Having(h, m))
  BY <1>1, <1>2, FS_Subset
<1>4. Cardinality(Having(h, m)) \in Nat
  BY <1>3, FS_CardinalityType
<1>5. m = 0 => Having(h, m) = {}
  BY DEF Having
<1>6. Having(h, m) = {} => Cardinality(Having(h, m)) = 0
  BY FS_EmptySet
<1>7. CASE log[m + 1][1] = h
  <2>1. Having(h, m + 1) = Having(h, m) \cup {m + 1}
    BY <1>7 DEF Having
  <2>2. m + 1 \notin Having(h, m)
    BY DEF Having
  <2>3. Cardinality(Having(h, m) \cup {m + 1}) = Cardinality(Having(h, m)) + 1
    BY <1>3, <2>2, FS_AddElement
  <2> QED
    BY <1>3, <1>4, <1>5, <1>6, <1>7, <2>1, <2>3
<1>8. CASE log[m + 1][1] # h
  <2>1. Having(h, m + 1) = Having(h, m)
    BY <1>8 DEF Having
  <2> QED
    BY <1>3, <1>4, <1>5, <1>6, <1>8, <2>1
<1> QED
  BY <1>7, <1>8

\* A file that has been sorted is whole.
LEMMA SortedFile ==
    ASSUME IInv, sorted
    PROVE  /\ Len(log) \in Nat /\ Len(file) \in Nat
           /\ Len(file) = Len(log) * total_size
           /\ \A k \in 1 .. Len(log) : /\ log[k][1] \in Nat
                                       /\ file[Place(k, 1)] = log[k][1]
           /\ \A j, k \in 1 .. Len(log) : j < k => log[j][1] <= log[k][1]
<1>1. pc # "writing" /\ ~cut /\ out = <<>>
  BY DEF IInv, InOrder, Logged
<1>2. file \in Seq(Nat) /\ log \in Seq(Record)
  BY DEF IInv, Typed
<1>3. file \o out = file /\ Len(out) = 0
  BY <1>1, <1>2, ConcatEmptySeq
<1>4. PICK n \in Nat, f \in Nat : n = Len(log) /\ f = Len(file)
  BY AllBytes
<1>5. n * total_size = f + 0 /\ Agrees(file, log)
  BY <1>1, <1>3, <1>4 DEF IInv, Logged
<1>6. 1 \in 1 .. total_size
  BY SizeTyped
<1>7. ASSUME NEW k \in 1 .. n
      PROVE  log[k][1] \in Nat /\ file[Place(k, 1)] = log[k][1]
  <2>1. PICK r \in Record : r = log[k]
    BY <1>2, <1>4, ElementOfSeq
  <2>2. r[1] \in Nat
    BY <1>6 DEF Record
  <2>3. Place(k, 1) <= f
    <3>1. Place(k, 1) <= n * total_size
      BY <1>6, PlaceInside
    <3> QED
      BY <1>4, <1>5, <3>1
  <2> QED
    BY <1>4, <1>5, <1>6, <2>1, <2>2, <2>3 DEF Agrees
<1>8. f = n * total_size
  BY <1>4, <1>5
<1>9. \A j, k \in 1 .. Len(log) : j < k => log[j][1] <= log[k][1]
  BY DEF IInv, InOrder
<1> QED
  BY <1>4, <1>7, <1>8, <1>9

LEMMA GetHashesPreserves ==
    ASSUME IInv, NEW h \in Hashes, GetHashes(h)
    PROVE  IInv'
<1>1. /\ pc \in {"closed", "found"} /\ sorted
      /\ pc = "found" => h > hash
      /\ pc' = "finding" /\ hash' = h
      /\ result' = IF last = h THEN <<last>> ELSE <<>>
      /\ buffer' \in Stale
      /\ UNCHANGED <<writing, last, pos, eof, seen>>
  BY DEF GetHashes
<1>2. h \in Nat /\ hash \in Nat /\ last \in Nat
  <2>1. hash \in Nat /\ last \in Nat
    BY DEF IInv, Typed
  <2>2. h \in Int /\ 0 <= h
    BY DEF Hashes
  <2> QED
    BY <2>1, <2>2
<1>3. Len(result') = (IF last = h THEN 1 ELSE 0) /\ result' \in Seq(Nat)
  <2>1. PICK l \in Nat : l = last
    BY <1>2
  <2>2. <<l>> \in Seq(Nat) /\ Len(<<l>>) = 1
    OBVIOUS
  <2> QED
    BY <1>1, <2>1, <2>2, EmptySeq
<1>4. Typed'
  <2>1. buffer' \in Record
    BY <1>1, SizeAssumption DEF Stale, Record
  <2> QED
    BY <1>1, <1>2, <1>3, <2>1 DEF IInv, Typed, writing
<1>5. PICK n \in Nat : n = Len(log)
  BY AllBytes
<1>6. \A k \in 1 .. n : log[k][1] \in Nat
  BY <1>1, <1>5, SortedFile
<1>7. log' = log /\ file' = file /\ sorted' = sorted
  BY <1>1 DEF writing
<1>8. CASE pc = "closed"
  <2>1. pos = 0 /\ ~eof /\ last = 0
    BY <1>8 DEF IInv, Idle
  <2>2. 0 * total_size = 0
    BY SizeTyped
  <2>3. Cardinality(Having(h, 0)) = 0
    BY HavingCounts
  <2>4. Having(h, 0)' = Having(h, 0)
    BY <1>2, <1>7 DEF Having
  <2>5. Searched(0)'
    BY <1>1, <1>3, <2>1, <2>2, <2>3, <2>4 DEF Searched, Having
  <2>6. 0 \in 0 .. Len(log') /\ ~eof' /\ sorted'
    BY <1>1, <1>5, <1>7, <2>1
  <2> QED
    BY <1>1, <1>4, <1>8, <2>5, <2>6, ReaderSteps DEF IInv, Finding, Idle, Viewing
<1>9. CASE pc = "found" /\ ~eof
  <2>1. PICK m \in 0 .. n : Searched(m)
    BY <1>5, <1>9 DEF IInv, Finding
  <2>2. last > hash /\ h > hash
    BY <1>1, <1>9 DEF IInv, Finding
  <2>3. m # 0
    BY <1>2, <2>1, <2>2 DEF Searched
  <2>4. /\ pos = m * total_size /\ last = log[m][1]
        /\ \A k \in 1 .. m - 1 : log[k][1] <= hash
    BY <2>1, <2>3 DEF Searched
  <2>5. \A k \in 1 .. m - 1 : log[k][1] < h /\ log[k][1] # h
    BY <1>2, <1>5, <1>6, <2>1, <2>2, <2>4
  <2>6. PICK p \in Nat : m = p + 1 /\ p = m - 1
    BY <2>1, <2>3
  <2>7. Cardinality(Having(h, p)) = 0
    <3>1. Having(h, p) = {}
      BY <2>5, <2>6 DEF Having
    <3> QED
      BY <3>1, HavingCounts
  <2>8. Cardinality(Having(h, m)) = IF last = h THEN 1 ELSE 0
    <3>1. Cardinality(Having(h, p + 1))
            = Cardinality(Having(h, p)) + (IF log[p + 1][1] = h THEN 1 ELSE 0)
      BY HavingCounts
    <3> QED
      BY <2>4, <2>6, <2>7, <3>1
  <2>9. h # 0
    BY <1>2, <2>2
  <2>10. Searched(m)'
    <3>1. pos' = m * total_size /\ last' = last /\ hash' = h
      BY <1>1, <2>4
    <3>2. \A k \in 1 .. m - 1 : log'[k][1] <= hash'
      <4>1. \A k \in 1 .. m - 1 : log[k][1] \in Nat
        BY <1>6, <2>1
      <4> QED
        BY <1>1, <1>2, <1>7, <2>5, <4>1
    <3>3. Having(hash, m)' = Having(h, m)
      BY <1>1, <1>7 DEF Having
    <3>4. Len(result') = Cardinality(Having(h, m)) + 0
      BY <1>3, <2>8
    <3> QED
      BY <1>7, <2>3, <2>4, <2>9, <3>1, <3>2, <3>3, <3>4 DEF Searched
  <2>11. m \in 0 .. Len(log') /\ ~eof' /\ sorted'
    BY <1>1, <1>5, <1>7, <1>9, <2>1
  <2> QED
    BY <1>1, <1>4, <1>9, <2>10, <2>11, ReaderSteps DEF IInv, Finding, Idle, Viewing
<1>10. CASE pc = "found" /\ eof
  <2>1. /\ pos = Len(file) /\ h > hash
        /\ \A k \in 1 .. n : log[k][1] <= hash
    BY <1>1, <1>5, <1>10 DEF IInv, Finding, SearchedAll
  <2>2. \A k \in 1 .. n : log[k][1] <= h /\ log[k][1] # h
    BY <1>2, <1>6, <2>1
  <2>3. Cardinality(Having(h, n)) = 0
    <3>1. Having(h, n) = {}
      BY <2>2 DEF Having
    <3> QED
      BY <3>1, HavingCounts
  <2>4. Len(result') >= Cardinality(Having(h, n))
    BY <1>3, <2>3
  <2>5. SearchedAll'
    <3>1. Having(hash, Len(log))' = Having(h, n)
      BY <1>1, <1>5, <1>7 DEF Having
    <3> QED
      BY <1>1, <1>5, <1>7, <2>1, <2>2, <2>4, <3>1 DEF SearchedAll
  <2>6. eof' /\ sorted'
    BY <1>1, <1>7, <1>10
  <2> QED
    BY <1>1, <1>4, <1>10, <2>5, <2>6, ReaderSteps DEF IInv, Finding, Idle, Viewing
<1> QED
  BY <1>1, <1>8, <1>9, <1>10 DEF IInv, Typed

\* One record more, or the end of the file, where the buffer stays as it is.
LEMMA ReadRecordPreserves ==
    ASSUME IInv, ReadRecord
    PROVE  IInv'
<1> DEFINE data == SubSeq(file, pos + 1, Min({pos + total_size, Len(file)}))
<1>1. /\ pc = "finding" /\ ~eof /\ last <= hash
      /\ buffer' = data \o SubSeq(buffer, Len(data) + 1, total_size)
      /\ pos' = pos + Len(data)
      /\ eof' = (Len(data) < total_size)
      /\ last' = buffer'[1]
      /\ result' = IF last' = hash THEN Append(result, last') ELSE result
      /\ UNCHANGED <<writing, pc, seen, hash>>
  BY DEF ReadRecord, More
<1>2. PICK d : d = data
  OBVIOUS
<1>3. d = Taken(file, pos, total_size)
  BY <1>2 DEF data, Taken
<1> HIDE DEF data
<1>4. buffer' = d \o SubSeq(buffer, Len(d) + 1, total_size)
      /\ pos' = pos + Len(d) /\ eof' = (Len(d) < total_size)
  BY <1>1, <1>2
<1>5. /\ file \in Seq(Nat) /\ result \in Seq(Nat) /\ buffer \in Record /\ sorted
      /\ pos \in Nat /\ last \in Nat /\ hash \in Nat
  BY <1>1 DEF IInv, Typed, Finding
<1>6. PICK n \in Nat, f \in Nat : n = Len(log) /\ f = Len(file) /\ f = n * total_size
  BY <1>5, SortedFile
<1>7. \A k \in 1 .. n : log[k][1] \in Nat /\ file[Place(k, 1)] = log[k][1]
  BY <1>5, <1>6, SortedFile
<1>8. PICK m \in 0 .. n : Searched(m)
  BY <1>1, <1>6 DEF IInv, Finding
<1>9. PICK w \in Nat, l \in Nat, r \in Nat \ {0} : w = m * total_size /\ l = Len(result) /\ r = total_size
  <2>1. m \in Nat
    BY <1>8
  <2>2. m * total_size \in Nat
    BY <2>1, Times
  <2>3. Len(result) \in Nat
    BY <1>5, LenProperties
  <2> QED
    BY <2>2, <2>3, SizeTyped
<1>10. /\ pos = w /\ last = (IF m = 0 THEN 0 ELSE log[m][1])
       /\ \A k \in 1 .. m - 1 : log[k][1] <= hash
       /\ l = Cardinality(Having(hash, m)) + (IF hash = 0 THEN 1 ELSE 0)
  BY <1>8, <1>9 DEF Searched
<1>11. w <= f
  <2>1. m <= n => m * total_size <= n * total_size
    BY <1>8, Times
  <2> QED
    BY <1>6, <1>8, <1>9, <2>1
<1>12. /\ d \in Seq(Nat) /\ Len(d) \in Nat
       /\ \A i \in 1 .. Len(d) : d[i] = file[w + i]
       /\ w + Len(d) <= f /\ Len(d) <= r
       /\ Len(d) < r => w + Len(d) = f
  <2>1. pos <= Len(file) /\ total_size \in Nat
    BY <1>6, <1>9, <1>10, <1>11
  <2>2. /\ d \in Seq(Nat) /\ Len(d) \in Nat
        /\ \A i \in 1 .. Len(d) : d[i] = file[pos + i]
        /\ pos + Len(d) <= Len(file) /\ Len(d) <= total_size
        /\ Len(d) < total_size => pos + Len(d) = Len(file)
    BY <1>3, <1>5, <2>1, NextBytes
  <2> QED
    BY <1>6, <1>9, <1>10, <2>2
<1>13. buffer \in Seq(Nat) /\ Len(buffer) = r
  BY <1>5, <1>9, RecordIsSeq
<1>14. log' = log /\ file' = file /\ sorted' = sorted /\ hash' = hash
  BY <1>1 DEF writing
<1>15. \A k \in 1 .. m : log[k][1] <= hash
  BY <1>1, <1>10
<1>16. ASSUME m < n
       PROVE  buffer' \in Record /\ last' \in Nat /\ result' \in Seq(Nat) /\ Finding'
  <2>1. w + r <= f
    <3>1. m < n => m * total_size + total_size <= n * total_size
      BY <1>8, Times
    <3> QED
      BY <1>6, <1>9, <1>16, <3>1
  <2>2. Len(d) = r
    BY <1>9, <1>12, <2>1
  <2>3. SubSeq(buffer, Len(d) + 1, total_size) = <<>>
    BY <1>9, <2>2, SubSeqEmpty
  <2>4. buffer' = d
    BY <1>4, <1>12, <2>3, ConcatEmptySeq
  <2>5. d \in Record
    BY <1>9, <1>12, <2>2, LenProperties DEF Record
  <2>6. m + 1 \in 1 .. n /\ m + 1 \in Nat \ {0} /\ (m + 1) - 1 = m /\ m \in Nat
    BY <1>8, <1>16
  <2>7. d[1] = log[m + 1][1]
    <3>1. Place(m + 1, 1) = w + 1
      BY <1>9, <2>6 DEF Place
    <3>2. d[1] = file[w + 1]
      BY <1>9, <1>12, <2>2
    <3> QED
      BY <1>7, <2>6, <3>1, <3>2
  <2>8. last' = log[m + 1][1] /\ last' \in Nat
    BY <1>1, <1>7, <2>4, <2>6, <2>7
  <2>9. pos' = (m + 1) * total_size /\ ~eof'
    <3>1. (m + 1) * total_size = m * total_size + total_size
      BY <2>6, Times
    <3>2. pos' = w + r
      BY <1>4, <1>10, <2>2
    <3>3. eof' = (r < r)
      BY <1>4, <1>9, <2>2
    <3>4. ~(r < r)
      BY <1>9
    <3>5. ~eof'
      BY <3>3, <3>4, Zenon
    <3>6. pos' = (m + 1) * total_size
      BY <1>9, <3>1, <3>2
    <3> QED
      BY <3>5, <3>6
  <2>10. /\ result' \in Seq(Nat)
         /\ Len(result') = l + (IF log[m + 1][1] = hash THEN 1 ELSE 0)
    <3>1. PICK x \in Nat : x = last'
      BY <2>8
    <3>2. Append(result, x) \in Seq(Nat) /\ Len(Append(result, x)) = l + 1
      BY <1>5, <1>9, AppendProperties
    <3>3. result' = IF x = hash THEN Append(result, x) ELSE result
      BY <1>1, <3>1
    <3>4. CASE x = hash
      BY <1>9, <2>8, <3>1, <3>2, <3>3, <3>4
    <3>5. CASE x # hash
      BY <1>5, <1>9, <2>8, <3>1, <3>3, <3>5
    <3> QED
      BY <3>4, <3>5
  <2>11. /\ Cardinality(Having(hash, m)) \in Nat
         /\ Cardinality(Having(hash, m + 1))
              = Cardinality(Having(hash, m)) + (IF log[m + 1][1] = hash THEN 1 ELSE 0)
    BY <2>6, HavingCounts
  <2>12. Len(result') = Cardinality(Having(hash, m + 1)) + (IF hash = 0 THEN 1 ELSE 0)
    <3>1. PICK c \in Nat : c = Cardinality(Having(hash, m))
      BY <2>11
    <3>2. PICK z \in {0, 1} : z = IF hash = 0 THEN 1 ELSE 0
      OBVIOUS
    <3>3. PICK x \in {0, 1} : x = IF log[m + 1][1] = hash THEN 1 ELSE 0
      OBVIOUS
    <3>4. l = c + z /\ Len(result') = l + x /\ Cardinality(Having(hash, m + 1)) = c + x
      BY <1>10, <2>10, <2>11, <3>1, <3>2, <3>3
    <3> QED
      BY <1>9, <3>1, <3>2, <3>3, <3>4
  <2>13. Searched(m + 1)'
    <3>1. Having(hash, m + 1)' = Having(hash, m + 1)
      BY <1>14 DEF Having
    <3>2. \A k \in 1 .. (m + 1) - 1 : log'[k][1] <= hash'
      BY <1>14, <1>15, <2>6
    <3>3. last' = IF m + 1 = 0 THEN 0 ELSE log'[m + 1][1]
      BY <1>14, <2>6, <2>8
    <3>4. Len(result') = Cardinality(Having(hash, m + 1)') + (IF hash' = 0 THEN 1 ELSE 0)
      BY <1>14, <2>12, <3>1
    <3> QED
      BY <2>9, <3>2, <3>3, <3>4 DEF Searched
  <2>14. m + 1 \in 0 .. Len(log')
    BY <1>6, <1>14, <2>6
  <2>15. pc' = "finding" /\ sorted'
    BY <1>1, <1>5, <1>14
  <2>16. Finding'
    BY <2>9, <2>13, <2>14, <2>15 DEF Finding
  <2> QED
    BY <2>4, <2>5, <2>8, <2>10, <2>16
<1>17. ASSUME m = n
       PROVE  buffer' \in Record /\ last' \in Nat /\ result' \in Seq(Nat) /\ Finding'
  <2>1. Len(d) = 0 /\ w = f
    BY <1>6, <1>9, <1>12, <1>17
  <2>2. d = <<>>
    BY <1>12, <2>1, EmptySeq
  <2>3. SubSeq(buffer, Len(d) + 1, total_size) = buffer
    <3>1. SubSeq(buffer, 1, r) = buffer
      BY <1>13, SubSeqFull
    <3> QED
      BY <1>9, <2>1, <3>1
  <2>4. buffer' = buffer
    BY <1>4, <1>13, <2>2, <2>3, ConcatEmptySeq
  <2>5. last' \in Nat
    <3>1. 1 \in 1 .. total_size
      BY SizeTyped
    <3> QED
      BY <1>1, <1>5, <2>4, <3>1 DEF Record
  <2>6. result' \in Seq(Nat) /\ Len(result') \in Nat /\ Len(result') >= l
    <3>1. PICK x \in Nat : x = last'
      BY <2>5
    <3>2. Append(result, x) \in Seq(Nat) /\ Len(Append(result, x)) = l + 1
      BY <1>5, <1>9, AppendProperties
    <3> QED
      BY <1>1, <1>5, <1>9, <3>1, <3>2
  <2>7. pos' = f /\ eof'
    <3>1. pos' = w + 0
      BY <1>4, <1>10, <2>1
    <3>2. eof' = (0 < r)
      BY <1>4, <1>9, <2>1
    <3>3. 0 < r
      BY <1>9
    <3>4. eof'
      BY <3>2, <3>3, Zenon
    <3>5. pos' = f
      BY <1>9, <2>1, <3>1
    <3> QED
      BY <3>4, <3>5
  <2>8. Len(result') >= Cardinality(Having(hash, n))
    <3>1. Cardinality(Having(hash, n)) \in Nat
      BY HavingCounts
    <3> QED
      BY <1>9, <1>10, <1>17, <2>6, <3>1
  <2>9. SearchedAll'
    <3>1. Having(hash, Len(log))' = Having(hash, n)
      BY <1>6, <1>14 DEF Having
    <3> QED
      BY <1>6, <1>14, <1>15, <1>17, <2>7, <2>8, <3>1 DEF SearchedAll
  <2>10. pc' = "finding" /\ sorted'
    BY <1>1, <1>5, <1>14
  <2>11. Finding'
    BY <2>7, <2>9, <2>10 DEF Finding
  <2> QED
    BY <1>5, <2>4, <2>5, <2>6, <2>11
<1>18. buffer' \in Record /\ last' \in Nat /\ result' \in Seq(Nat) /\ Finding'
  BY <1>8, <1>16, <1>17
<1>19. Typed'
  <2>1. pos' \in Nat /\ eof' \in BOOLEAN
    BY <1>4, <1>5, <1>12
  <2> QED
    BY <1>1, <1>18, <2>1 DEF IInv, Typed, writing
<1> QED
  BY <1>1, <1>18, <1>19, ReaderSteps DEF IInv, Idle, Viewing

LEMMA FoundPreserves ==
    ASSUME IInv, Found
    PROVE  IInv'
<1>1. /\ pc = "finding" /\ ~More /\ pc' = "found"
      /\ UNCHANGED <<writing, finding, pos, eof, seen>>
  BY DEF Found
<1>2. Typed'
  BY <1>1 DEF IInv, Typed, writing, finding
<1>3. sorted /\ IF eof THEN SearchedAll ELSE \E m \in 0 .. Len(log) : Searched(m)
  BY <1>1 DEF IInv, Finding
<1>4. eof \/ last > hash
  <2>1. eof \in BOOLEAN /\ last \in Nat /\ hash \in Nat
    BY DEF IInv, Typed
  <2> QED
    BY <1>1, <2>1 DEF More
<1>5. SearchedAll' <=> SearchedAll
  BY <1>1 DEF SearchedAll, Having, writing, finding
<1>6. \A m \in 0 .. Len(log) : Searched(m)' <=> Searched(m)
  BY <1>1 DEF Searched, Having, writing, finding
<1>7. Finding'
  BY <1>1, <1>3, <1>4, <1>5, <1>6 DEF Finding, writing, finding
<1> QED
  BY <1>1, <1>2, <1>7, ReaderSteps DEF IInv, Idle, Viewing

-----------------------------------------------------------------------------
(* The theorems.                                                           *)

LEMMA StutterPreserves ==
    ASSUME IInv, UNCHANGED vars
    PROVE  IInv'
BY DEF IInv, Typed, Logged, InOrder, Idle, Viewing, Finding, Searched, SearchedAll, Having,
       Agrees, vars, writing, finding

LEMMA Inductive == IInv /\ [Next]_vars => IInv'
<1> SUFFICES ASSUME IInv, [Next]_vars PROVE IInv'
  OBVIOUS
<1>1. CASE Open
  BY <1>1, OpenPreserves
<1>2. CASE \E r \in Records : Write(r)
  BY <1>2, WritePreserves
<1>3. CASE Flush
  BY <1>3, FlushPreserves
<1>4. CASE Close
  BY <1>4, ClosePreserves
<1>5. CASE Kill
  BY <1>5, KillPreserves
<1>6. CASE View
  BY <1>6, ViewPreserves
<1>7. CASE ReadChunk
  BY <1>7, ReadChunkPreserves
<1>8. CASE Viewed
  BY <1>8, ViewedPreserves
<1>9. CASE Sort
  BY <1>9, SortPreserves
<1>10. CASE \E h \in Hashes : GetHashes(h)
  BY <1>10, GetHashesPreserves
<1>11. CASE ReadRecord
  BY <1>11, ReadRecordPreserves
<1>12. CASE Found
  BY <1>12, FoundPreserves
<1>13. CASE UNCHANGED vars
  BY <1>13, StutterPreserves
<1> QED
  BY <1>1, <1>2, <1>3, <1>4, <1>5, <1>6, <1>7, <1>8, <1>9, <1>10, <1>11, <1>12, <1>13 DEF Next

\* Wherever the writers flush, close or are killed, the readers are, and the sort
\* comes in between, the file and what has been read of it fit the records written.
THEOREM Invariant == Spec => []IInv
<1>1. Init => IInv
  BY InitIInv
<1>2. IInv /\ [Next]_vars => IInv'
  BY Inductive
<1> QED
  BY <1>1, <1>2, PTL DEF Spec

\* What "view" or a run reads are the records that were written, in their order.
THEOREM ReadsBack == Spec => []ReadBack
<1>1. IInv => ReadBack
  <2> SUFFICES ASSUME IInv, pc = "viewing", eof
               PROVE  SubSeq(seen, 1, Len(log)) = log /\ (~cut => Len(seen) = Len(log))
    BY DEF ReadBack
  <2>1. /\ file \in Seq(Nat) /\ log \in Seq(Record) /\ seen \in Seq(Record)
        /\ out = <<>> /\ Agrees(file, seen)
    BY DEF IInv, Typed, Logged, Viewing
  <2>2. file \o out = file /\ Len(out) = 0
    BY <2>1, ConcatEmptySeq
  <2>3. PICK n \in Nat, m \in Nat, f \in Nat : n = Len(log) /\ m = Len(seen) /\ f = Len(file)
    BY <2>1, LenProperties
  <2>4. PICK a \in Nat, b \in Nat : a = n * total_size /\ b = m * total_size
    BY <2>3, Times
  <2>5. a <= f /\ (~cut => a = f) /\ f <= b /\ b < f + total_size /\ Agrees(file, log)
    BY <2>2, <2>3, <2>4 DEF IInv, Logged, Viewing
  <2>6. n <= m
    <3>1. m < n => b + total_size <= a
      BY <2>3, <2>4, Times
    <3> QED
      BY <2>3, <2>4, <2>5, <3>1, SizeTyped
  <2>7. ~cut => m = n
    <3>1. n < m => a + total_size <= b
      BY <2>3, <2>4, Times
    <3> QED
      BY <2>3, <2>4, <2>5, <2>6, <3>1, SizeTyped
  <2>8. ASSUME NEW k \in 1 .. n PROVE seen[k] = log[k]
    <3>1. k \in 1 .. m
      BY <2>6
    <3>2. seen[k] \in Record /\ log[k] \in Record
      BY <2>1, <2>3, <3>1, ElementOfSeq
    <3>3. \A i \in 1 .. total_size : Place(k, i) <= f
      <4> TAKE i \in 1 .. total_size
      <4>1. Place(k, i) \in Nat \ {0} /\ Place(k, i) <= n * total_size
        BY PlaceInside
      <4> QED
        BY <2>4, <2>5, <4>1
    <3>4. \A i \in 1 .. total_size : seen[k][i] = log[k][i]
      BY <2>1, <2>3, <2>5, <3>1, <3>3 DEF Agrees
    <3> QED
      BY <3>2, <3>4, RecordsEqual
  <2>9. /\ SubSeq(seen, 1, n) \in Seq(Record) /\ Len(SubSeq(seen, 1, n)) = n
        /\ \A k \in 1 .. n : SubSeq(seen, 1, n)[k] = seen[k]
    <3>1. \A k \in 1 .. n : seen[k] \in Record
      BY <2>1, <2>3, <2>6, ElementOfSeq
    <3>2. /\ SubSeq(seen, 1, n) \in Seq(Record)
          /\ Len(SubSeq(seen, 1, n)) = IF 1 <= n THEN n - 1 + 1 ELSE 0
          /\ \A k \in 1 .. n - 1 + 1 : SubSeq(seen, 1, n)[k] = seen[1 + k - 1]
      BY <3>1, SubSeqProperties
    <3> QED
      BY <3>2
  <2>10. SubSeq(seen, 1, n) = log
    BY <2>1, <2>3, <2>8, <2>9, SeqEqual
  <2> QED
    BY <2>3, <2>7, <2>10
<1> QED
  BY <1>1, Invariant, PTL

\* get_hashes misses no record of its hash, and gives each once but at the two ends.
THEOREM FindsOnce == Spec => []FoundOnce
<1>1. IInv => FoundOnce
  <2> SUFFICES ASSUME IInv, pc = "found"
               PROVE  /\ Len(result) >= Cardinality(Holding(hash))
                      /\ ~eof /\ hash # 0 => Len(result) = Cardinality(Holding(hash))
    BY DEF FoundOnce
  <2>1. /\ sorted /\ (eof \/ last > hash)
        /\ IF eof THEN SearchedAll ELSE \E m \in 0 .. Len(log) : Searched(m)
    BY DEF IInv, Finding
  <2>2. PICK n \in Nat, f \in Nat : n = Len(log) /\ f = Len(file) /\ f = n * total_size
    BY <2>1, SortedFile
  <2>3. /\ \A k \in 1 .. n : log[k][1] \in Nat /\ file[Place(k, 1)] = log[k][1]
        /\ \A j, k \in 1 .. n : j < k => log[j][1] <= log[k][1]
    BY <2>1, <2>2, SortedFile
  <2>4. Holding(hash) = Having(hash, n)
    <3>1. f \div total_size = n
      <4>1. 0 \in 0 .. total_size - 1
        BY SizeTyped
      <4>2. (n * total_size + 0) \div total_size = n
        BY <4>1, DivisionUnique
      <4> QED
        BY <2>2, <4>2
    <3>2. \A k \in 1 .. n : file[(k - 1) * total_size + 1] = log[k][1]
      BY <2>3 DEF Place
    <3> QED
      BY <2>2, <3>1, <3>2 DEF Holding, Having
  <2>5. hash \in Nat /\ last \in Nat /\ eof \in BOOLEAN
    BY DEF IInv, Typed
  <2>6. CASE eof
    BY <2>1, <2>2, <2>4, <2>6 DEF SearchedAll
  <2>7. CASE ~eof
    <3>1. PICK m \in 0 .. n : Searched(m)
      BY <2>1, <2>2, <2>7
    <3>2. last > hash
      BY <2>1, <2>7
    <3>3. m # 0 /\ last = log[m][1]
      BY <2>5, <3>1, <3>2 DEF Searched
    <3>4. \A k \in 1 .. n : k > m => log[k][1] # hash
      BY <2>3, <2>5, <3>1, <3>2, <3>3
    <3>5. Having(hash, n) = Having(hash, m)
      BY <3>1, <3>4 DEF Having
    <3>6. Len(result) = Cardinality(Having(hash, m)) + (IF hash = 0 THEN 1 ELSE 0)
      BY <3>1 DEF Searched
    <3>7. Cardinality(Having(hash, m)) \in Nat
      BY <3>1, HavingCounts
    <3> QED
      BY <2>4, <2>5, <3>5, <3>6, <3>7
  <2> QED
    BY <2>5, <2>6, <2>7
<1> QED
  BY <1>1, Invariant, PTL
=============================================================================

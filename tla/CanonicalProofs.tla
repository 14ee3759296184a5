-------------------------- MODULE CanonicalProofs ---------------------------
(***************************************************************************)
(* The canonical sequences stand for all, and no sequence with a part that *)
(* is known to be not optimal is enumerated, for any opcodes that are      *)
(* tried, any length and any sequences that are not optimal.               *)
(***************************************************************************)
EXTENDS Canonical, FunctionTheorems, FiniteSetTheorems, WellFoundedInduction,
        SequenceTheorems, TLAPS

-----------------------------------------------------------------------------
(* Sets of numbers and one-to-one functions.                               *)

LEMMA Least ==
    ASSUME NEW T, T \subseteq Nat, T # {}
    PROVE  \E m \in T : \A n \in T : m <= n
<1>1. PICK m \in T : \A n \in T : <<n, m>> \notin OpToRel(<, Nat)
  BY WFMin, NatLessThanWellFounded, Zenon
<1>2. \A n \in T : ~(n < m)
  BY <1>1, Zenon DEF OpToRel
<1> QED
  BY <1>2

Image(f, S) == {f[x] : x \in S}

\* The image by a one-to-one function is as large as the set.
LEMMA ImageSize ==
    ASSUME NEW S, IsFiniteSet(S), NEW f, \A x, y \in S : f[x] = f[y] => x = y
    PROVE  IsFiniteSet(Image(f, S)) /\ Cardinality(Image(f, S)) = Cardinality(S)
<1> DEFINE g == [x \in S |-> f[x]]
           T == Image(f, S)
<1>1. g \in [S -> T] /\ (\A t \in T : \E x \in S : g[x] = t)
  BY DEF Image
<1>2. \A x, y \in S : g[x] = g[y] => x = y
  OBVIOUS
<1>3. g \in Bijection(S, T)
  BY <1>1, <1>2, Fun_IsBij
<1>4. ExistsBijection(S, T)
  BY <1>3 DEF ExistsBijection
<1> QED
  BY <1>4, FS_Bijection

\* A one-to-one function on a part of a finite set extends to a permutation.
LEMMA Extension ==
    ASSUME NEW A, IsFiniteSet(A), NEW U, U \subseteq A, NEW f \in [U -> A],
           \A x, y \in U : f[x] = f[y] => x = y
    PROVE  \E p \in Bijection(A, A) : \A x \in U : p[x] = f[x]
<1> DEFINE F == Image(f, U)
<1>1. IsFiniteSet(U) /\ U \in SUBSET A
  BY FS_Subset
<1>2. F \subseteq A
  BY DEF Image
<1>3. IsFiniteSet(F) /\ Cardinality(F) = Cardinality(U)
  BY <1>1, ImageSize
<1>4. /\ IsFiniteSet(A \ U) /\ Cardinality(A \ U) = Cardinality(A) - Cardinality(A \cap U)
      /\ IsFiniteSet(A \ F) /\ Cardinality(A \ F) = Cardinality(A) - Cardinality(A \cap F)
  BY FS_Difference
<1>5. A \cap U = U /\ A \cap F = F
  BY <1>2
<1>6. Cardinality(A \ U) = Cardinality(A \ F)
  BY <1>3, <1>4, <1>5
<1>7. PICK g \in Bijection(A \ U, A \ F) : TRUE
  BY <1>4, <1>6, FS_SameCardinalityBij DEF ExistsBijection
<1>8. /\ g \in [A \ U -> A \ F]
      /\ \A x, y \in A \ U : g[x] = g[y] => x = y
      /\ \A t \in A \ F : \E x \in A \ U : g[x] = t
  BY <1>7, Fun_BijectionProperties
<1> DEFINE p == [x \in A |-> IF x \in U THEN f[x] ELSE g[x]]
<1>9. \A x \in U : f[x] \in F
  BY DEF Image
<1>10. \A t \in F : \E x \in U : f[x] = t
  BY DEF Image
<1> HIDE DEF F
<1>11. p \in [A -> A]
  BY <1>8
<1>12. \A x, y \in A : p[x] = p[y] => x = y
  BY <1>8, <1>9
<1>13. \A t \in A : \E x \in A : p[x] = t
  BY <1>8, <1>10
<1>14. p \in Bijection(A, A)
  BY <1>11, <1>12, <1>13, Fun_IsBij
<1>15. \A x \in U : p[x] = f[x]
  OBVIOUS
<1> QED
  BY <1>14, <1>15

-----------------------------------------------------------------------------
(* The instructions that the names of operands are exchanged in.           *)

Modes == AbsModes \cup ZpModes \cup {"Immediate", "None"}

\* Opcodes, and others of the same names with the operands of their modes.
Instr == {o \in [op : {c.op : c \in opcodes}, mode : Modes, val : Nat] : o.val \in Vals(o.mode)}

Made(o, m) == \E n : \E v \in Vals(m) : o = opcode(n, m, v)

LEMMA OpcodesMade == \A o \in opcodes : \E m \in Modes : Made(o, m)
<1>1. ASSUME NEW names, NEW m, NEW o \in Ops(names, m)
      PROVE  Made(o, m)
  BY DEF Ops, Made
<1>2. \A o \in ImmediateOpcodes : Made(o, "Immediate")
  BY <1>1 DEF ImmediateOpcodes
<1>3. \A o \in ZeroPageOpcodes : Made(o, "ZeroPage")
  BY <1>1 DEF ZeroPageOpcodes
<1>4. \A o \in ZeroPageIndexedOpcodes : Made(o, "ZeroPageX") \/ Made(o, "ZeroPageY")
  BY <1>1 DEF ZeroPageIndexedOpcodes
<1>5. \A o \in AbsoluteOpcodes :
         Made(o, "Absolute") \/ Made(o, "AbsoluteX") \/ Made(o, "AbsoluteY")
  BY <1>1 DEF AbsoluteOpcodes
<1>6. \A o \in IndirectOpcodes :
         Made(o, "IndirectX") \/ Made(o, "IndirectY") \/ Made(o, "Indirect")
  BY <1>1 DEF IndirectOpcodes
<1>7. \A o \in OtherOpcodes : Made(o, "Absolute") \/ Made(o, "None")
  BY <1>1 DEF OtherOpcodes
<1>8. {"Immediate", "None", "Absolute", "AbsoluteX", "AbsoluteY", "Indirect",
       "ZeroPage", "ZeroPageX", "ZeroPageY", "IndirectX", "IndirectY"} \subseteq Modes
  BY DEF Modes, AbsModes, ZpModes
<1> QED
  BY <1>2, <1>3, <1>4, <1>5, <1>6, <1>7, <1>8 DEF opcodes

LEMMA OpcodesAreInstr == opcodes \subseteq Instr
<1> SUFFICES ASSUME NEW o \in opcodes PROVE o \in Instr
  OBVIOUS
<1>1. PICK m \in Modes : Made(o, m)
  BY OpcodesMade
<1>2. PICK n : \E v \in Vals(m) : o = [op |-> n, mode |-> m, val |-> v]
  BY <1>1 DEF Made, opcode
<1>3. PICK v \in Vals(m) : o = [op |-> n, mode |-> m, val |-> v]
  BY <1>2
<1>4. v \in Nat
  BY DEF Vals, abs_start, zp_start
<1>5. o.op = n /\ o.mode = m /\ o.val = v /\ n \in {c.op : c \in opcodes}
  BY <1>3
<1>6. o \in [op : {c.op : c \in opcodes}, mode : Modes, val : Nat]
  BY <1>3, <1>4, <1>5
<1> QED
  BY <1>5, <1>6 DEF Instr

LEMMA InstrFacts ==
    ASSUME NEW o \in Instr
    PROVE  /\ o.mode \in AbsModes => o.val \in Abs
           /\ o.mode \in ZpModes => o.val \in Zp /\ o.mode \notin AbsModes
           /\ o.mode \notin AbsModes \cup ZpModes => o.val \notin Abs \cup Zp
           /\ o.mode = "Immediate" => o.val \in 0 .. 6
           /\ o.mode \in {"Immediate", "None"} <=> o.mode \notin AbsModes \cup ZpModes
           /\ o.mode = "None" => o.val = 14
           /\ o.val \in Nat
BY DEF Instr, Vals, AbsModes, ZpModes, Modes, Abs, Zp, abs_start, zp_start

LEMMA NamesFinite ==
    /\ IsFiniteSet(Abs) /\ Cardinality(Abs) = 3
    /\ IsFiniteSet(Zp) /\ Cardinality(Zp) = 4
<1>1. Abs = 7 .. 9 /\ Zp = 10 .. 13
  BY DEF Abs, Zp, abs_start, zp_start
<1>2. PICK a \in Int, b \in Int, c \in Int, d \in Int : a = 7 /\ b = 9 /\ c = 10 /\ d = 13
  OBVIOUS
<1>3. IsFiniteSet(a .. b) /\ Cardinality(a .. b) = IF a > b THEN 0 ELSE b - a + 1
  BY FS_Interval, Zenon
<1>4. IsFiniteSet(c .. d) /\ Cardinality(c .. d) = IF c > d THEN 0 ELSE d - c + 1
  BY FS_Interval, Zenon
<1> QED
  BY <1>1, <1>2, <1>3, <1>4

\* The same instruction with another operand.
Called(o, val) == [o EXCEPT !.val = val]

LEMMA CalledFacts ==
    ASSUME NEW o \in Instr, NEW v
    PROVE  /\ Called(o, v).op = o.op /\ Called(o, v).mode = o.mode /\ Called(o, v).val = v
           /\ \A w : Called(Called(o, v), w) = Called(o, w)
           /\ v \in Nat /\ v \in Vals(o.mode) => Called(o, v) \in Instr
           /\ Called(o, o.val) = o
BY DEF Instr, Called

-----------------------------------------------------------------------------
(* The first uses of operands.                                             *)

\* All operands of the modes are among the names.
Covers(modes, names) ==
    IsFiniteSet(names) /\ \A o \in Instr : o.mode \in modes => o.val \in names

\* An operand is used for the first time.
Starts(s, modes, f) == s[f].mode \in modes /\ s[f].val \notin Seen(s, modes, f)

LEMMA SeqFacts ==
    ASSUME NEW s \in Seq(Instr)
    PROVE  /\ Len(s) \in Nat /\ DOMAIN s = 1 .. Len(s)
           /\ s \in [1 .. Len(s) -> Instr] /\ \A i \in 1 .. Len(s) : s[i] \in Instr
BY LenProperties

LEMMA FirstUseIsFirst ==
    ASSUME NEW s \in Seq(Instr), NEW modes, NEW k \in 1 .. Len(s), s[k].mode \in modes
    PROVE  \E f \in 1 .. k : /\ f = FirstUse(s, modes, s[k].val)
                             /\ Starts(s, modes, f) /\ s[f].val = s[k].val
<1>1. Len(s) \in Nat /\ DOMAIN s = 1 .. Len(s)
  BY SeqFacts
<1> DEFINE T == {i \in 1 .. k : s[i].mode \in modes /\ s[i].val = s[k].val}
<1>2. T \subseteq Nat /\ k \in T
  OBVIOUS
<1>3. PICK m \in T : \A n \in T : m <= n
  BY <1>2, Least
<1>4. s[m].val \notin Seen(s, modes, m)
  <2> SUFFICES ASSUME s[m].val \in Seen(s, modes, m) PROVE FALSE
    OBVIOUS
  <2>1. PICK j \in 1 .. m - 1 : s[j].mode \in modes /\ s[j].val = s[m].val
    BY DEF Seen
  <2>2. j \in T /\ j < m
    BY <1>3, <2>1
  <2> QED
    BY <1>2, <1>3, <2>2
<1> DEFINE f == FirstUse(s, modes, s[k].val)
<1>5. f \in DOMAIN s /\ s[f].mode \in modes /\ s[f].val = s[k].val
        /\ s[k].val \notin Seen(s, modes, f)
  <2>1. \E i \in DOMAIN s : s[i].mode \in modes /\ s[i].val = s[k].val
                               /\ s[k].val \notin Seen(s, modes, i)
    BY <1>1, <1>3, <1>4
  <2> QED
    BY <2>1 DEF FirstUse
<1> HIDE DEF f
<1>6. f <= k
  <2> SUFFICES ASSUME k < f PROVE FALSE
    BY <1>1, <1>5
  <2>1. k \in 1 .. f - 1
    BY <1>1, <1>5
  <2> QED
    BY <1>5, <2>1 DEF Seen
<1>7. f \in 1 .. k
  BY <1>1, <1>5, <1>6
<1>8. Starts(s, modes, f)
  BY <1>5 DEF Starts
<1> QED
  BY <1>5, <1>7, <1>8 DEF f

LEMMA FirstUseIsOne ==
    ASSUME NEW s \in Seq(Instr), NEW modes, NEW f \in 1 .. Len(s), Starts(s, modes, f)
    PROVE  FirstUse(s, modes, s[f].val) = f
<1>1. Len(s) \in Nat
  BY SeqFacts
<1>2. PICK g \in 1 .. f : /\ g = FirstUse(s, modes, s[f].val)
                          /\ Starts(s, modes, g) /\ s[g].val = s[f].val
  BY FirstUseIsFirst DEF Starts
<1>3. SUFFICES ASSUME g < f PROVE FALSE
  BY <1>1, <1>2
<1>4. g \in 1 .. f - 1
  BY <1>1, <1>3
<1> QED
  BY <1>2, <1>4 DEF Starts, Seen

LEMMA SeenFinite ==
    ASSUME NEW s \in Seq(Instr), NEW modes, NEW names, Covers(modes, names),
           NEW i \in 1 .. Len(s) + 1
    PROVE  /\ Seen(s, modes, i) \subseteq names /\ IsFiniteSet(Seen(s, modes, i))
           /\ Cardinality(Seen(s, modes, i)) \in Nat
<1>1. Len(s) \in Nat /\ \A j \in 1 .. Len(s) : s[j] \in Instr
  BY SeqFacts
<1>2. \A j \in 1 .. i - 1 : j \in 1 .. Len(s)
  BY <1>1
<1>3. Seen(s, modes, i) \subseteq names
  BY <1>1, <1>2 DEF Seen, Covers
<1> QED
  BY <1>3, FS_Subset, FS_CardinalityType DEF Covers

LEMMA SeenSmaller ==
    ASSUME NEW s \in Seq(Instr), NEW modes, NEW names, Covers(modes, names),
           NEW f \in 1 .. Len(s), Starts(s, modes, f)
    PROVE  Cardinality(Seen(s, modes, f)) < Cardinality(names)
<1>1. Len(s) \in Nat /\ f \in 1 .. Len(s) + 1 /\ s[f] \in Instr
  BY SeqFacts
<1>2. s[f].val \in names /\ s[f].val \notin Seen(s, modes, f)
  BY <1>1 DEF Starts, Covers
<1>3. Seen(s, modes, f) \subseteq names /\ Cardinality(Seen(s, modes, f)) \in Nat
  BY <1>1, SeenFinite
<1>4. IsFiniteSet(names) /\ Cardinality(names) \in Nat
  BY FS_CardinalityType DEF Covers
<1>5. /\ Cardinality(Seen(s, modes, f)) <= Cardinality(names)
      /\ Cardinality(names) = Cardinality(Seen(s, modes, f)) => names = Seen(s, modes, f)
  BY <1>3, <1>4, FS_Subset
<1> QED
  BY <1>2, <1>3, <1>4, <1>5

\* Later first uses see more.
LEMMA SeenGrows ==
    ASSUME NEW s \in Seq(Instr), NEW modes, NEW names, Covers(modes, names),
           NEW f \in 1 .. Len(s), NEW g \in 1 .. Len(s), f < g, Starts(s, modes, f)
    PROVE  Cardinality(Seen(s, modes, f)) < Cardinality(Seen(s, modes, g))
<1>1. Len(s) \in Nat /\ f \in 1 .. Len(s) + 1 /\ g \in 1 .. Len(s) + 1
  BY SeqFacts
<1>2. s[f].val \in Seen(s, modes, g) /\ s[f].val \notin Seen(s, modes, f)
  <2>1. f \in 1 .. g - 1
    BY <1>1
  <2> QED
    BY <2>1 DEF Seen, Starts
<1>3. Seen(s, modes, f) \subseteq Seen(s, modes, g)
  <2>1. \A j \in 1 .. f - 1 : j \in 1 .. g - 1
    BY <1>1
  <2> QED
    BY <2>1 DEF Seen
<1>4. /\ IsFiniteSet(Seen(s, modes, g)) /\ Cardinality(Seen(s, modes, g)) \in Nat
      /\ Cardinality(Seen(s, modes, f)) \in Nat
  BY <1>1, SeenFinite
<1>5. /\ Cardinality(Seen(s, modes, f)) <= Cardinality(Seen(s, modes, g))
      /\ Cardinality(Seen(s, modes, g)) = Cardinality(Seen(s, modes, f))
           => Seen(s, modes, g) = Seen(s, modes, f)
  BY <1>3, <1>4, FS_Subset
<1> QED
  BY <1>2, <1>4, <1>5

\* Operands are numbered from zero, each by a number of its own.
LEMMA IndexFacts ==
    ASSUME NEW s \in Seq(Instr), NEW modes, NEW names, Covers(modes, names),
           NEW k \in 1 .. Len(s), s[k].mode \in modes
    PROVE  /\ Index(s, modes, s[k].val) \in 0 .. Cardinality(names) - 1
           /\ \A l \in 1 .. Len(s) :
                 s[l].mode \in modes /\ Index(s, modes, s[l].val) = Index(s, modes, s[k].val)
                    => s[l].val = s[k].val
<1>1. Len(s) \in Nat /\ \A l \in 1 .. Len(s) : l \in 1 .. Len(s) + 1
  BY SeqFacts
<1>2. PICK f \in 1 .. k : /\ f = FirstUse(s, modes, s[k].val)
                          /\ Starts(s, modes, f) /\ s[f].val = s[k].val
  BY FirstUseIsFirst
<1>3. f \in 1 .. Len(s)
  BY <1>1
<1>4. PICK c : c = Cardinality(names)
  OBVIOUS
<1>5. PICK n : n = Cardinality(Seen(s, modes, f))
  OBVIOUS
<1>6. n \in Nat /\ n < c /\ c \in Nat
  BY <1>1, <1>2, <1>3, <1>4, <1>5, SeenFinite, SeenSmaller, FS_CardinalityType DEF Covers
<1>7. Index(s, modes, s[k].val) = n
  BY <1>2, <1>5 DEF Index
<1>8. ASSUME NEW l \in 1 .. Len(s), s[l].mode \in modes, Index(s, modes, s[l].val) = n
      PROVE  s[l].val = s[k].val
  <2>1. PICK g \in 1 .. l : /\ g = FirstUse(s, modes, s[l].val)
                            /\ Starts(s, modes, g) /\ s[g].val = s[l].val
    BY <1>8, FirstUseIsFirst
  <2>2. g \in 1 .. Len(s)
    BY <1>1
  <2>3. Cardinality(Seen(s, modes, g)) = n
    BY <1>8, <2>1 DEF Index
  <2>4. ~(f < g) /\ ~(g < f)
    BY <1>2, <1>3, <1>5, <1>6, <2>1, <2>2, <2>3, SeenGrows
  <2>5. f = g
    BY <1>1, <1>3, <2>2, <2>4
  <2> QED
    BY <1>2, <2>1, <2>5
<1> QED
  BY <1>4, <1>6, <1>7, <1>8

-----------------------------------------------------------------------------
(* Renamings.                                                              *)

LEMMA ModesCovered == Covers(AbsModes, Abs) /\ Covers(ZpModes, Zp)
BY InstrFacts, NamesFinite DEF Covers

Swapped(val, swap) ==
    CASE swap /\ val \in {0, 4} -> val + 1
      [] swap /\ val \in {1, 5} -> val - 1
      [] OTHER -> val

\* The operand of an instruction, if a or z is the name of its address.
Chosen(o, a, z, swap) ==
    CASE o.mode \in AbsModes -> a
      [] o.mode \in ZpModes -> z
      [] swap /\ o.val \in {0, 4} -> o.val + 1
      [] swap /\ o.val \in {1, 5} -> o.val - 1
      [] OTHER -> o.val

\* What Renamed makes of an operand.
NewName(o, p, q, swap) == Chosen(o, p[o.val], q[o.val], swap)

\* What canonicalize makes of it.
Number(s, o) ==
    Chosen(o, abs_start + Index(s, AbsModes, o.val), zp_start + Index(s, ZpModes, o.val),
           c1_first(s))

LEMMA ChosenFacts ==
    ASSUME NEW o \in Instr, NEW a, NEW z, NEW swap \in BOOLEAN
    PROVE  /\ o.mode \in AbsModes => Chosen(o, a, z, swap) = a
           /\ o.mode \in ZpModes => Chosen(o, a, z, swap) = z
           /\ o.mode \notin AbsModes \cup ZpModes => Chosen(o, a, z, swap) = Swapped(o.val, swap)
<1>1. CASE o.mode \in AbsModes
  <2>1. o.mode \notin ZpModes /\ o.val \notin {0, 4} \cup {1, 5}
    BY <1>1, InstrFacts DEF Abs, abs_start, zp_start
  <2> QED
    BY <1>1, <2>1 DEF Chosen
<1>2. CASE o.mode \in ZpModes
  <2>1. o.mode \notin AbsModes /\ o.val \notin {0, 4} \cup {1, 5}
    BY <1>2, InstrFacts DEF Zp, zp_start
  <2> QED
    BY <1>2, <2>1 DEF Chosen
<1>3. CASE o.mode \notin AbsModes \cup ZpModes
  BY <1>3 DEF Chosen, Swapped
<1> QED
  BY <1>1, <1>2, <1>3

LEMMA SwappedFacts ==
    ASSUME NEW v \in 0 .. 14, NEW swap \in BOOLEAN
    PROVE  /\ Swapped(v, swap) \in 0 .. 14
           /\ v \in 0 .. 6 => Swapped(v, swap) \in 0 .. 6
           /\ v \in {2, 3, 6, 14} \/ ~swap => Swapped(v, swap) = v
           /\ v \in {0, 4} /\ swap => Swapped(v, swap) \in {1, 5}
           /\ v \in {1, 5} /\ swap => Swapped(v, swap) \in {0, 4}
<1>1. CASE swap = FALSE
  BY <1>1 DEF Swapped
<1>2. CASE swap = TRUE
  BY <1>2 DEF Swapped
<1> QED
  BY <1>1, <1>2

\* Exchanging one way and then the other.
Both(swap, swap2) == IF swap THEN ~swap2 ELSE swap2

LEMMA SwappedTwice ==
    ASSUME NEW v \in 0 .. 14, NEW swap \in BOOLEAN, NEW swap2 \in BOOLEAN
    PROVE  Swapped(Swapped(v, swap), swap2) = Swapped(v, Both(swap, swap2))
<1>1. CASE swap = FALSE
  BY <1>1, SwappedFacts DEF Both
<1>2. CASE swap = TRUE /\ swap2 = FALSE
  BY <1>2, SwappedFacts DEF Both
<1>3. CASE swap = TRUE /\ swap2 = TRUE
  <2>1. Both(swap, swap2) = FALSE
    BY <1>3 DEF Both
  <2>2. Swapped(v, FALSE) = v
    BY SwappedFacts
  <2>3. /\ Swapped(0, TRUE) = 1 /\ Swapped(1, TRUE) = 0
        /\ Swapped(4, TRUE) = 5 /\ Swapped(5, TRUE) = 4
    BY DEF Swapped
  <2>4. CASE v \in {0, 1, 4, 5}
    BY <1>3, <2>1, <2>2, <2>3, <2>4
  <2>5. CASE v \notin {0, 1, 4, 5}
    <3>1. Swapped(v, TRUE) = v
      BY <2>5 DEF Swapped
    <3> QED
      BY <1>3, <2>1, <2>2, <3>1
  <2> QED
    BY <2>4, <2>5
<1> QED
  BY <1>1, <1>2, <1>3

LEMMA AbsNamesFacts ==
    ASSUME NEW p \in AbsNames
    PROVE  p \in [Abs -> Abs] /\ \A x, y \in Abs : p[x] = p[y] => x = y
BY Fun_BijectionProperties DEF AbsNames

LEMMA ZpNamesFacts ==
    ASSUME NEW q \in ZpNames
    PROVE  q \in [Zp -> Zp] /\ \A x, y \in Zp : q[x] = q[y] => x = y
BY Fun_BijectionProperties DEF ZpNames

\* An instruction whose operand is renamed is one.
LEMMA NewNameFacts ==
    ASSUME NEW o \in Instr, NEW p \in AbsNames, NEW q \in ZpNames, NEW swap \in BOOLEAN
    PROVE  Called(o, NewName(o, p, q, swap)) \in Instr
<1>1. PICK v : v = NewName(o, p, q, swap)
  OBVIOUS
<1>2. CASE o.mode \in AbsModes
  <2>1. o.val \in Abs
    BY <1>2, InstrFacts
  <2>2. v = p[o.val]
    BY <1>1, <1>2, ChosenFacts DEF NewName
  <2>3. v \in Abs
    BY <2>1, <2>2, AbsNamesFacts
  <2>4. v \in Nat /\ v \in Vals(o.mode)
    BY <1>2, <2>3 DEF Vals, AbsModes, Abs, abs_start, zp_start
  <2> QED
    BY <1>1, <2>4, CalledFacts
<1>3. CASE o.mode \in ZpModes
  <2>1. o.val \in Zp
    BY <1>3, InstrFacts
  <2>2. v = q[o.val]
    BY <1>1, <1>3, ChosenFacts DEF NewName
  <2>3. v \in Zp
    BY <2>1, <2>2, ZpNamesFacts
  <2>4. v \in Nat /\ v \in Vals(o.mode)
    BY <1>3, <2>3 DEF Vals, ZpModes, Zp, zp_start
  <2> QED
    BY <1>1, <2>4, CalledFacts
<1>4. CASE o.mode \notin AbsModes \cup ZpModes
  <2>1. o.mode \in {"Immediate", "None"}
    BY <1>4, InstrFacts
  <2>2. /\ o.mode = "Immediate" => o.val \in 0 .. 6
        /\ o.mode = "None" => o.val = 14
    BY InstrFacts
  <2>3. v = Swapped(o.val, swap)
    BY <1>1, <1>4, ChosenFacts DEF NewName
  <2>4. CASE o.mode = "Immediate"
    <3>1. v \in 0 .. 6
      BY <2>2, <2>3, <2>4, SwappedFacts
    <3>2. v \in Nat /\ v \in Vals(o.mode)
      BY <2>4, <3>1 DEF Vals
    <3> QED
      BY <1>1, <3>2, CalledFacts
  <2>5. CASE o.mode = "None"
    <3>1. v = o.val
      BY <2>2, <2>3, <2>5, SwappedFacts
    <3> QED
      BY <1>1, <3>1, CalledFacts
  <2> QED
    BY <2>1, <2>4, <2>5
<1> QED
  BY <1>2, <1>3, <1>4

LEMMA RenamedFacts ==
    ASSUME NEW s \in Seq(Instr), NEW p \in AbsNames, NEW q \in ZpNames, NEW swap \in BOOLEAN
    PROVE  /\ Renamed(s, p, q, swap) \in Seq(Instr)
           /\ Len(Renamed(s, p, q, swap)) = Len(s)
           /\ \A i \in 1 .. Len(s) :
                 Renamed(s, p, q, swap)[i] = Called(s[i], NewName(s[i], p, q, swap))
<1>1. /\ Len(s) \in Nat /\ DOMAIN s = 1 .. Len(s)
      /\ \A i \in 1 .. Len(s) : s[i] \in Instr
  BY SeqFacts
<1>2. Renamed(s, p, q, swap)
        = [i \in 1 .. Len(s) |-> Called(s[i], NewName(s[i], p, q, swap))]
  BY <1>1 DEF Renamed, Called, NewName, Chosen
<1>3. \A i \in 1 .. Len(s) : Called(s[i], NewName(s[i], p, q, swap)) \in Instr
  BY <1>1, NewNameFacts
<1>4. PICK t : t = Renamed(s, p, q, swap)
  OBVIOUS
<1>5. t \in [1 .. Len(s) -> Instr]
  BY <1>2, <1>3, <1>4
<1>6. t \in Seq(Instr) /\ Len(t) = Len(s)
  BY <1>1, <1>5
<1> QED
  BY <1>2, <1>4, <1>6

LEMMA CanonicalizeAt ==
    ASSUME NEW s \in Seq(Instr)
    PROVE  canonicalize(s) = [i \in 1 .. Len(s) |-> Called(s[i], Number(s, s[i]))]
BY SeqFacts DEF canonicalize, Called, Number, Chosen

\* The numbers of the operands of some modes are a permutation of the names.
LEMMA Numbering ==
    ASSUME NEW s \in Seq(Instr), NEW modes, NEW names, Covers(modes, names),
           NEW first \in Nat, names = first .. first + Cardinality(names) - 1
    PROVE  \E p \in Bijection(names, names) :
              \A k \in 1 .. Len(s) :
                 s[k].mode \in modes => p[s[k].val] = first + Index(s, modes, s[k].val)
<1> DEFINE U == Seen(s, modes, Len(s) + 1)
           f == [v \in U |-> first + Index(s, modes, v)]
<1>1. Len(s) \in Nat /\ Len(s) + 1 \in 1 .. Len(s) + 1 /\ (Len(s) + 1) - 1 = Len(s)
  BY SeqFacts
<1>2. U \subseteq names
  BY <1>1, SeenFinite
<1>3. \A v \in U : \E k \in 1 .. Len(s) : s[k].mode \in modes /\ s[k].val = v
  BY <1>1 DEF Seen
<1>4. \A k \in 1 .. Len(s) : s[k].mode \in modes => s[k].val \in U
  BY <1>1 DEF Seen
<1> HIDE DEF U
<1>5. PICK c \in Nat : c = Cardinality(names)
  BY FS_CardinalityType DEF Covers
<1>6. \A v \in U : Index(s, modes, v) \in 0 .. c - 1
  BY <1>3, <1>5, IndexFacts
<1>7. f \in [U -> names]
  BY <1>5, <1>6
<1>8. \A v, w \in U : Index(s, modes, v) = Index(s, modes, w) => v = w
  BY <1>3, IndexFacts
<1>9. \A v, w \in U : f[v] = f[w] => v = w
  BY <1>6, <1>8
<1>10. IsFiniteSet(names)
  BY DEF Covers
<1>11. PICK g : g = f
  OBVIOUS
<1>12. PICK p \in Bijection(names, names) : \A v \in U : p[v] = g[v]
  <2>1. g \in [U -> names] /\ \A v, w \in U : g[v] = g[w] => v = w
    BY <1>7, <1>9, <1>11
  <2> HIDE DEF f
  <2> QED
    BY <1>2, <1>10, <2>1, Extension
<1> QED
  BY <1>4, <1>11, <1>12

\* The canonical sequence is a renaming.
LEMMA CanonicalizeIsRenaming ==
    ASSUME NEW s \in Seq(Instr)
    PROVE  \E p \in AbsNames, q \in ZpNames :
              canonicalize(s) = Renamed(s, p, q, c1_first(s))
<1>1. /\ Len(s) \in Nat /\ DOMAIN s = 1 .. Len(s)
      /\ \A i \in 1 .. Len(s) : s[i] \in Instr
  BY SeqFacts
<1>2. Abs = abs_start .. abs_start + Cardinality(Abs) - 1
  BY NamesFinite DEF Abs, abs_start, zp_start
<1>3. Zp = zp_start .. zp_start + Cardinality(Zp) - 1
  BY NamesFinite DEF Zp, zp_start
<1>4. abs_start \in Nat /\ zp_start \in Nat
  BY DEF abs_start, zp_start
<1>5. PICK p \in AbsNames :
        \A k \in 1 .. Len(s) :
           s[k].mode \in AbsModes => p[s[k].val] = abs_start + Index(s, AbsModes, s[k].val)
  BY <1>2, <1>4, ModesCovered, Numbering DEF AbsNames
<1>6. PICK q \in ZpNames :
        \A k \in 1 .. Len(s) :
           s[k].mode \in ZpModes => q[s[k].val] = zp_start + Index(s, ZpModes, s[k].val)
  BY <1>3, <1>4, ModesCovered, Numbering DEF ZpNames
<1>7. \A i \in 1 .. Len(s) : Number(s, s[i]) = NewName(s[i], p, q, c1_first(s))
  BY <1>5, <1>6 DEF Number, NewName, Chosen
<1>8. Renamed(s, p, q, c1_first(s))
        = [i \in 1 .. Len(s) |-> Called(s[i], NewName(s[i], p, q, c1_first(s)))]
  BY <1>1 DEF Renamed, Called, NewName, Chosen
<1>9. canonicalize(s) = Renamed(s, p, q, c1_first(s))
  BY <1>7, <1>8, CanonicalizeAt
<1> QED
  BY <1>9

-----------------------------------------------------------------------------
(* Renamings have the same canonical sequence.                             *)

\* The operands of t are those of s by their names in r.
Renames(s, t, modes, r) ==
    \A i \in 1 .. Len(s) :
        t[i].mode = s[i].mode /\ (s[i].mode \in modes => t[i].val = r[s[i].val])

\* An operand keeps its number when the names are exchanged.
LEMMA SameIndex ==
    ASSUME NEW s \in Seq(Instr), NEW t \in Seq(Instr), Len(t) = Len(s),
           NEW modes, NEW names, Covers(modes, names),
           NEW r, \A x, y \in names : r[x] = r[y] => x = y,
           Renames(s, t, modes, r),
           NEW k \in 1 .. Len(s), s[k].mode \in modes
    PROVE  Index(t, modes, t[k].val) = Index(s, modes, s[k].val)
<1>1. Len(s) \in Nat /\ \A i \in 1 .. Len(s) : s[i] \in Instr
  BY SeqFacts
<1>2. \A i \in 1 .. Len(s) :
         t[i].mode = s[i].mode /\ (s[i].mode \in modes => t[i].val = r[s[i].val])
  BY DEF Renames
<1>3. PICK f \in 1 .. k : /\ f = FirstUse(s, modes, s[k].val)
                          /\ Starts(s, modes, f) /\ s[f].val = s[k].val
  BY FirstUseIsFirst
<1>4. f \in 1 .. Len(s) /\ f \in 1 .. Len(s) + 1
  BY <1>1
<1>5. Seen(s, modes, f) \subseteq names /\ IsFiniteSet(Seen(s, modes, f))
  BY <1>4, SeenFinite
<1>6. Seen(t, modes, f) = Image(r, Seen(s, modes, f))
  <2>1. \A j \in 1 .. f - 1 : j \in 1 .. Len(s)
    BY <1>1, <1>4
  <2>2. ASSUME NEW v \in Seen(t, modes, f) PROVE v \in Image(r, Seen(s, modes, f))
    <3>1. PICK j \in 1 .. f - 1 : t[j].mode \in modes /\ t[j].val = v
      BY DEF Seen
    <3>2. s[j].mode \in modes /\ v = r[s[j].val]
      BY <1>2, <2>1, <3>1
    <3> QED
      BY <3>2 DEF Seen, Image
  <2>3. ASSUME NEW v \in Image(r, Seen(s, modes, f)) PROVE v \in Seen(t, modes, f)
    <3>1. PICK j \in 1 .. f - 1 : s[j].mode \in modes /\ v = r[s[j].val]
      BY DEF Seen, Image
    <3>2. t[j].mode \in modes /\ t[j].val = v
      BY <1>2, <2>1, <3>1
    <3> QED
      BY <3>2 DEF Seen
  <2> QED
    BY <2>2, <2>3
<1>7. s[f].mode \in modes /\ s[f].val \in names /\ s[f].val \notin Seen(s, modes, f)
  BY <1>1, <1>3, <1>4 DEF Starts, Covers
<1>8. t[f].mode \in modes /\ t[f].val = r[s[f].val] /\ t[k].val = r[s[k].val]
  BY <1>2, <1>4, <1>7
<1>9. r[s[f].val] \notin Image(r, Seen(s, modes, f))
  BY <1>5, <1>7 DEF Image
<1>10. Starts(t, modes, f)
  BY <1>6, <1>8, <1>9 DEF Starts
<1>11. FirstUse(t, modes, t[k].val) = f
  BY <1>3, <1>4, <1>8, <1>10, FirstUseIsOne
<1>12. \A x, y \in Seen(s, modes, f) : r[x] = r[y] => x = y
  BY <1>5
<1>13. Cardinality(Image(r, Seen(s, modes, f))) = Cardinality(Seen(s, modes, f))
  BY <1>5, <1>12, ImageSize
<1> QED
  BY <1>6, <1>3, <1>11, <1>13 DEF Index

IsConstant(o) == o.mode = "Immediate" /\ o.val \in C0Values \cup C1Values

\* The first of the constants decides.
LEMMA FirstConstant ==
    ASSUME NEW s \in Seq(Instr), NEW m \in 1 .. Len(s), IsConstant(s[m]),
           \A j \in 1 .. m - 1 : ~IsConstant(s[j])
    PROVE  /\ c1_first(s) <=> s[m].val \in C1Values
           /\ SumFirst(s) <=> s[m].val = 6
<1>1. Len(s) \in Nat /\ DOMAIN s = 1 .. Len(s)
  BY SeqFacts
<1>2. Seen(s, {"Immediate"}, m) \cap (C0Values \cup C1Values) = {}
  BY DEF Seen, IsConstant
<1>3. \A i \in 1 .. Len(s) : m < i => s[m].val \in Seen(s, {"Immediate"}, i)
  <2>1. \A i \in 1 .. Len(s) : m < i => m \in 1 .. i - 1
    BY <1>1
  <2> QED
    BY <2>1 DEF Seen, IsConstant
<1>4. \A i \in 1 .. Len(s) : IsConstant(s[i]) => i = m \/ m < i
  <2>1. \A i \in 1 .. Len(s) : i < m => i \in 1 .. m - 1
    BY <1>1
  <2> QED
    BY <1>1, <2>1
<1>5. C0Values \cap C1Values = {} /\ s[m].val \in C0Values \cup C1Values /\ 6 \in C0Values
        /\ s[m].mode = "Immediate"
  BY DEF C0Values, C1Values, IsConstant
<1>6. c1_first(s) <=> s[m].val \in C1Values
  BY <1>1, <1>2, <1>3, <1>4, <1>5 DEF c1_first, IsConstant
<1>7. SumFirst(s) <=> s[m].val = 6
  BY <1>1, <1>2, <1>3, <1>4, <1>5 DEF SumFirst, IsConstant
<1> QED
  BY <1>6, <1>7

\* Exchanging C0 and C1 exchanges which is first, if C0+C1 is not.
LEMMA FirstSwaps ==
    ASSUME NEW s \in Seq(Instr), NEW t \in Seq(Instr), Len(t) = Len(s),
           \A i \in 1 .. Len(s) : t[i].mode = s[i].mode,
           \A i \in 1 .. Len(s) :
              s[i].mode = "Immediate" => t[i].val = Swapped(s[i].val, TRUE),
           ~SumFirst(s),
           NEW k \in 1 .. Len(s), IsConstant(s[k])
    PROVE  c1_first(t) <=> ~c1_first(s)
<1>1. Len(s) \in Nat /\ \A i \in 1 .. Len(s) : s[i] \in Instr
  BY SeqFacts
<1> DEFINE T == {i \in 1 .. Len(s) : IsConstant(s[i])}
<1>2. T \subseteq Nat /\ T # {}
  BY <1>1
<1>3. PICK m \in T : \A n \in T : m <= n
  BY <1>2, Least
<1>4. m \in 1 .. Len(s) /\ IsConstant(s[m])
  BY <1>3
<1>5. \A j \in 1 .. m - 1 : j \in 1 .. Len(s) /\ ~IsConstant(s[j])
  BY <1>1, <1>3
<1>6. \A i \in 1 .. Len(s) : IsConstant(t[i]) <=> IsConstant(s[i])
  <2> SUFFICES ASSUME NEW i \in 1 .. Len(s), s[i].mode = "Immediate"
               PROVE  IsConstant(t[i]) <=> IsConstant(s[i])
    BY DEF IsConstant
  <2>1. PICK v \in 0 .. 6 : v = s[i].val
    BY <1>1, InstrFacts
  <2>2. t[i].val = Swapped(v, TRUE) /\ t[i].mode = "Immediate"
    BY <2>1
  <2>3. Swapped(v, TRUE) \in C0Values \cup C1Values <=> v \in C0Values \cup C1Values
    BY <2>1 DEF Swapped, C0Values, C1Values
  <2> QED
    BY <2>1, <2>2, <2>3 DEF IsConstant
<1>7. IsConstant(t[m]) /\ m \in 1 .. Len(t) /\ \A j \in 1 .. m - 1 : ~IsConstant(t[j])
  BY <1>4, <1>5, <1>6
<1>8. c1_first(s) <=> s[m].val \in C1Values
  BY <1>4, <1>5, FirstConstant
<1>9. s[m].val # 6
  BY <1>4, <1>5, FirstConstant
<1>10. c1_first(t) <=> t[m].val \in C1Values
  BY <1>7, FirstConstant
<1>11. PICK v : v = s[m].val
  OBVIOUS
<1>12. v \in {0, 4} \cup {1, 5} /\ t[m].val = Swapped(v, TRUE)
  BY <1>4, <1>9, <1>11 DEF IsConstant, C0Values, C1Values
<1>13. Swapped(v, TRUE) \in C1Values <=> v \notin C1Values
  BY <1>12 DEF Swapped, C1Values
<1> QED
  BY <1>8, <1>10, <1>11, <1>12, <1>13

\* Without exchanging them, the same is first.
LEMMA FirstStays ==
    ASSUME NEW s \in Seq(Instr), NEW t \in Seq(Instr), Len(t) = Len(s),
           \A i \in 1 .. Len(s) : t[i].mode = s[i].mode,
           \A i \in 1 .. Len(s) : s[i].mode = "Immediate" => t[i].val = s[i].val
    PROVE  c1_first(t) <=> c1_first(s)
<1>1. Len(s) \in Nat /\ DOMAIN s = 1 .. Len(s) /\ DOMAIN t = 1 .. Len(s)
  BY SeqFacts
<1>2. ASSUME NEW i \in 1 .. Len(s)
      PROVE  Seen(t, {"Immediate"}, i) = Seen(s, {"Immediate"}, i)
  <2>1. \A j \in 1 .. i - 1 : j \in 1 .. Len(s)
    BY <1>1
  <2>2. {j \in 1 .. i - 1 : t[j].mode \in {"Immediate"}}
          = {j \in 1 .. i - 1 : s[j].mode \in {"Immediate"}}
    BY <2>1
  <2>3. \A j \in 1 .. i - 1 : s[j].mode \in {"Immediate"} => t[j].val = s[j].val
    BY <2>1
  <2> QED
    BY <2>2, <2>3 DEF Seen
<1> QED
  BY <1>1, <1>2 DEF c1_first

\* Sequences that are renamings of each other have the same canonical one.
LEMMA CanonicalStays ==
    ASSUME NEW s \in Seq(Instr), NEW p \in AbsNames, NEW q \in ZpNames,
           NEW swap \in BOOLEAN, swap => ~SumFirst(s)
    PROVE  canonicalize(Renamed(s, p, q, swap)) = canonicalize(s)
<1>1. Len(s) \in Nat /\ \A i \in 1 .. Len(s) : s[i] \in Instr
  BY SeqFacts
<1>2. PICK t : t = Renamed(s, p, q, swap)
  OBVIOUS
<1>3. /\ t \in Seq(Instr) /\ Len(t) = Len(s)
      /\ \A i \in 1 .. Len(s) : t[i] = Called(s[i], NewName(s[i], p, q, swap))
  BY <1>2, RenamedFacts
<1>4. \A i \in 1 .. Len(s) : t[i].mode = s[i].mode /\ t[i].val = NewName(s[i], p, q, swap)
  BY <1>1, <1>3, CalledFacts
<1>5. Renames(s, t, AbsModes, p)
  <2>1. \A i \in 1 .. Len(s) : s[i].mode \in AbsModes => t[i].val = p[s[i].val]
    BY <1>1, <1>4, ChosenFacts DEF NewName
  <2> QED
    BY <1>4, <2>1 DEF Renames
<1>6. Renames(s, t, ZpModes, q)
  <2>1. \A i \in 1 .. Len(s) : s[i].mode \in ZpModes => t[i].val = q[s[i].val]
    BY <1>1, <1>4, ChosenFacts DEF NewName
  <2> QED
    BY <1>4, <2>1 DEF Renames
<1>7. \A i \in 1 .. Len(s) :
         s[i].mode \notin AbsModes \cup ZpModes => t[i].val = Swapped(s[i].val, swap)
  BY <1>1, <1>4, ChosenFacts DEF NewName
<1>8. \A i \in 1 .. Len(s) : s[i].mode = "Immediate" => t[i].val = Swapped(s[i].val, swap)
  <2>1. \A i \in 1 .. Len(s) : s[i].mode = "Immediate" => s[i].mode \notin AbsModes \cup ZpModes
    BY DEF AbsModes, ZpModes
  <2> QED
    BY <1>7, <2>1
<1>9. ASSUME NEW i \in 1 .. Len(s)
      PROVE  Number(t, t[i]) = Number(s, s[i])
  <2>1. s[i] \in Instr /\ t[i] \in Instr /\ t[i].mode = s[i].mode
    BY <1>1, <1>3, <1>4, SeqFacts
  <2>2. c1_first(s) \in BOOLEAN /\ c1_first(t) \in BOOLEAN
    BY DEF c1_first
  <2>3. CASE s[i].mode \in AbsModes
    <3>1. Index(t, AbsModes, t[i].val) = Index(s, AbsModes, s[i].val)
      BY <1>3, <1>5, <2>3, ModesCovered, AbsNamesFacts, SameIndex
    <3>2. /\ Number(t, t[i]) = abs_start + Index(t, AbsModes, t[i].val)
          /\ Number(s, s[i]) = abs_start + Index(s, AbsModes, s[i].val)
      BY <2>1, <2>2, <2>3, ChosenFacts DEF Number
    <3> QED
      BY <3>1, <3>2
  <2>4. CASE s[i].mode \in ZpModes
    <3>1. Index(t, ZpModes, t[i].val) = Index(s, ZpModes, s[i].val)
      BY <1>3, <1>6, <2>4, ModesCovered, ZpNamesFacts, SameIndex
    <3>2. /\ Number(t, t[i]) = zp_start + Index(t, ZpModes, t[i].val)
          /\ Number(s, s[i]) = zp_start + Index(s, ZpModes, s[i].val)
      BY <2>1, <2>2, <2>4, ChosenFacts DEF Number
    <3> QED
      BY <3>1, <3>2
  <2>5. CASE s[i].mode \notin AbsModes \cup ZpModes
    <3>1. PICK v \in 0 .. 14 : v = s[i].val
      BY <2>1, <2>5, InstrFacts
    <3>2. t[i].val = Swapped(v, swap)
      BY <1>7, <2>5, <3>1
    <3>3. Number(s, s[i]) = Swapped(v, c1_first(s))
      BY <2>1, <2>2, <2>5, <3>1, ChosenFacts DEF Number
    <3>4. Number(t, t[i]) = Swapped(Swapped(v, swap), c1_first(t))
      BY <2>1, <2>2, <2>5, <3>2, ChosenFacts DEF Number
    <3>5. Number(t, t[i]) = Swapped(v, Both(swap, c1_first(t)))
      BY <2>2, <3>4, SwappedTwice
    <3>6. CASE v \in {2, 3, 6, 14} \/ v \notin 0 .. 6
      <4>1. v \in {2, 3, 6, 14}
        BY <2>1, <2>5, <3>1, <3>6, InstrFacts
      <4>2. Both(swap, c1_first(t)) \in BOOLEAN
        BY <2>2 DEF Both
      <4> QED
        BY <2>2, <3>3, <3>5, <4>1, <4>2, SwappedFacts
    <3>7. CASE v \in {0, 1, 4, 5}
      <4>1. s[i].mode = "Immediate"
        BY <2>1, <2>5, <3>1, <3>7, InstrFacts
      <4>2. IsConstant(s[i])
        BY <3>1, <3>7, <4>1 DEF IsConstant, C0Values, C1Values
      <4>3. Both(swap, c1_first(t)) = c1_first(s)
        <5>1. CASE swap = TRUE
          <6>1. c1_first(t) <=> ~c1_first(s)
            BY <1>3, <1>4, <1>8, <4>2, <5>1, FirstSwaps
          <6> QED
            BY <2>2, <5>1, <6>1 DEF Both
        <5>2. CASE swap = FALSE
          <6>1. \A j \in 1 .. Len(s) : s[j].mode = "Immediate" => t[j].val = s[j].val
            <7> SUFFICES ASSUME NEW j \in 1 .. Len(s), s[j].mode = "Immediate"
                         PROVE  t[j].val = s[j].val
              OBVIOUS
            <7>1. PICK w : w = s[j].val
              OBVIOUS
            <7>2. t[j].val = Swapped(w, FALSE)
              BY <1>8, <5>2, <7>1
            <7>3. Swapped(w, FALSE) = w
              BY DEF Swapped
            <7> QED
              BY <7>1, <7>2, <7>3
          <6>2. c1_first(t) <=> c1_first(s)
            BY <1>3, <1>4, <6>1, FirstStays
          <6> QED
            BY <2>2, <5>2, <6>2 DEF Both
        <5> QED
          BY <5>1, <5>2
      <4> QED
        BY <3>3, <3>5, <4>3
    <3> QED
      BY <3>1, <3>6, <3>7
  <2> QED
    BY <2>3, <2>4, <2>5
<1>10. \A i \in 1 .. Len(s) : Called(t[i], Number(t, t[i])) = Called(s[i], Number(s, s[i]))
  BY <1>1, <1>3, <1>9, CalledFacts
<1>11. canonicalize(t) = [i \in 1 .. Len(s) |-> Called(t[i], Number(t, t[i]))]
  BY <1>3, CanonicalizeAt
<1>12. canonicalize(s) = [i \in 1 .. Len(s) |-> Called(s[i], Number(s, s[i]))]
  BY CanonicalizeAt
<1> QED
  BY <1>2, <1>10, <1>11, <1>12

-----------------------------------------------------------------------------
(* The canonical sequences.                                                *)

\* No operand of some modes is used before those with smaller numbers.
Ordered(s, modes, first) ==
    \A i \in 1 .. Len(s) :
        s[i].mode \in modes => s[i].val <= first + Cardinality(Seen(s, modes, i))

IsInterval(S, first) == S = first .. first + Cardinality(S) - 1

\* Then those that have been used are the smallest.
LEMMA SeenIsInterval ==
    ASSUME NEW s \in Seq(Instr), NEW modes, NEW names, Covers(modes, names),
           NEW first \in Nat, \A v \in names : v \in Nat /\ first <= v,
           Ordered(s, modes, first)
    PROVE  \A i \in 1 .. Len(s) + 1 : IsInterval(Seen(s, modes, i), first)
<1>1. Len(s) \in Nat /\ \A i \in 1 .. Len(s) : s[i] \in Instr
  BY SeqFacts
<1> DEFINE T == {i \in 1 .. Len(s) + 1 : ~IsInterval(Seen(s, modes, i), first)}
<1> SUFFICES ASSUME T # {} PROVE FALSE
  BY Zenon
<1>2. T \subseteq Nat
  BY <1>1
<1>3. PICK m \in T : \A n \in T : m <= n
  BY <1>2, Least
<1>4. m \in 1 .. Len(s) + 1 /\ ~IsInterval(Seen(s, modes, m), first)
  BY <1>3
<1>5. m # 1
  <2>1. Seen(s, modes, 1) = {}
    BY DEF Seen
  <2>2. IsInterval({}, first)
    BY FS_EmptySet DEF IsInterval
  <2> QED
    BY <1>4, <2>1, <2>2
<1>6. PICK k \in 1 .. Len(s) : k = m - 1
  BY <1>1, <1>4, <1>5
<1>7. k \in 1 .. Len(s) + 1 /\ k < m /\ s[k] \in Instr
  BY <1>1, <1>4, <1>6
<1>8. IsInterval(Seen(s, modes, k), first)
  BY <1>1, <1>3, <1>4, <1>7
<1>9. PICK S : S = Seen(s, modes, k)
  OBVIOUS
<1>10. PICK n \in Nat : n = Cardinality(S)
  BY <1>7, <1>9, SeenFinite
<1>11. S = first .. first + n - 1
  BY <1>8, <1>9, <1>10 DEF IsInterval
<1>12. \A j : j \in 1 .. m - 1 <=> j \in 1 .. k - 1 \/ j = k
  BY <1>1, <1>4, <1>6
<1>13. CASE s[k].mode \notin modes
  <2>1. Seen(s, modes, m) = S
    BY <1>9, <1>12, <1>13 DEF Seen
  <2> QED
    BY <1>4, <1>8, <1>9, <2>1
<1>14. CASE s[k].mode \in modes
  <2>1. PICK v \in Nat : v = s[k].val /\ first <= v
    BY <1>7, <1>14 DEF Covers
  <2>2. Seen(s, modes, m) = S \cup {v}
    BY <1>9, <1>12, <1>14, <2>1 DEF Seen
  <2>3. v <= first + n
    BY <1>9, <1>10, <1>14, <2>1 DEF Ordered
  <2>4. CASE v \in S
    <3>1. Seen(s, modes, m) = S
      BY <2>2, <2>4
    <3> QED
      BY <1>4, <1>8, <1>9, <3>1
  <2>5. CASE v \notin S
    <3>1. v = first + n
      BY <1>11, <2>1, <2>3, <2>5
    <3>2. S \cup {v} = first .. first + n
      BY <1>11, <3>1
    <3>3. IsFiniteSet(S)
      BY <1>7, <1>9, SeenFinite
    <3>4. Cardinality(S \cup {v}) = n + 1
      BY <1>10, <2>5, <3>3, FS_AddElement
    <3>5. first + (n + 1) - 1 = first + n
      OBVIOUS
    <3>6. IsInterval(S \cup {v}, first)
      BY <3>2, <3>4, <3>5 DEF IsInterval
    <3> QED
      BY <1>4, <2>2, <3>6
  <2> QED
    BY <2>4, <2>5
<1> QED
  BY <1>13, <1>14

\* The operands are used in order just when each has its own number.
LEMMA OrderedIsNumbered ==
    ASSUME NEW s \in Seq(Instr), NEW modes, NEW names, Covers(modes, names),
           NEW first \in Nat, \A v \in names : v \in Nat /\ first <= v
    PROVE  Ordered(s, modes, first)
             <=> \A i \in 1 .. Len(s) :
                    s[i].mode \in modes => s[i].val = first + Index(s, modes, s[i].val)
<1>1. Len(s) \in Nat /\ \A i \in 1 .. Len(s) : s[i] \in Instr /\ i \in 1 .. Len(s) + 1
  BY SeqFacts
<1>2. ASSUME Ordered(s, modes, first), NEW i \in 1 .. Len(s), s[i].mode \in modes
      PROVE  s[i].val = first + Index(s, modes, s[i].val)
  <2>1. PICK f \in 1 .. i : /\ f = FirstUse(s, modes, s[i].val)
                            /\ Starts(s, modes, f) /\ s[f].val = s[i].val
    BY <1>2, FirstUseIsFirst
  <2>2. f \in 1 .. Len(s) /\ s[f] \in Instr
    BY <1>1
  <2>3. PICK n \in Nat : n = Cardinality(Seen(s, modes, f))
    BY <1>1, <2>2, SeenFinite
  <2>4. Seen(s, modes, f) = first .. first + n - 1
    BY <1>1, <1>2, <2>2, <2>3, SeenIsInterval DEF IsInterval
  <2>5. PICK v \in Nat : v = s[f].val /\ first <= v
    BY <2>1, <2>2 DEF Starts, Covers
  <2>6. v <= first + n
    BY <1>2, <2>1, <2>2, <2>3, <2>5 DEF Starts, Ordered
  <2>7. v \notin first .. first + n - 1
    BY <2>1, <2>4, <2>5 DEF Starts
  <2>8. v = first + n
    BY <2>5, <2>6, <2>7
  <2> QED
    BY <2>1, <2>3, <2>5, <2>8 DEF Index
<1>3. ASSUME NEW i \in 1 .. Len(s), s[i].mode \in modes,
             s[i].val = first + Index(s, modes, s[i].val)
      PROVE  s[i].val <= first + Cardinality(Seen(s, modes, i))
  <2>1. PICK f \in 1 .. i : /\ f = FirstUse(s, modes, s[i].val)
                            /\ Starts(s, modes, f) /\ s[f].val = s[i].val
    BY <1>3, FirstUseIsFirst
  <2>2. f \in 1 .. Len(s)
    BY <1>1
  <2>3. PICK n \in Nat : n = Cardinality(Seen(s, modes, f))
    BY <1>1, <2>2, SeenFinite
  <2>4. PICK c \in Nat : c = Cardinality(Seen(s, modes, i))
    BY <1>1, SeenFinite
  <2>5. n <= c
    <3>1. CASE f = i
      BY <2>3, <2>4, <3>1
    <3>2. CASE f < i
      BY <2>1, <2>2, <2>3, <2>4, <3>2, SeenGrows
    <3> QED
      BY <1>1, <2>1, <3>1, <3>2
  <2>6. Index(s, modes, s[i].val) = n
    BY <2>1, <2>3 DEF Index
  <2> QED
    BY <1>3, <2>4, <2>5, <2>6
<1> QED
  BY <1>2, <1>3 DEF Ordered

LEMMA CanonicalMeans ==
    ASSUME NEW s \in Seq(Instr)
    PROVE  is_canonical(s) <=> /\ Ordered(s, AbsModes, abs_start)
                               /\ Ordered(s, ZpModes, zp_start)
                               /\ ~c1_first(s)
<1>1. DOMAIN s = 1 .. Len(s)
  BY SeqFacts
<1>2. \A m : /\ m \in AbsModes => m \notin ZpModes /\ m # "Immediate"
             /\ m \in ZpModes => m # "Immediate"
  BY DEF AbsModes, ZpModes
<1> DEFINE Right(i) ==
             /\ s[i].mode \in AbsModes => s[i].val <= abs_start + Cardinality(Seen(s, AbsModes, i))
             /\ s[i].mode \in ZpModes => s[i].val <= zp_start + Cardinality(Seen(s, ZpModes, i))
             /\ s[i].mode = "Immediate" =>
                  (s[i].val \in C1Values => Seen(s, {"Immediate"}, i) \cap C0Values # {})
<1>3. is_canonical(s) <=> \A i \in 1 .. Len(s) : Right(i)
  BY <1>1, <1>2 DEF is_canonical
<1> QED
  BY <1>1, <1>3 DEF Ordered, c1_first

\* is_canonical accepts what canonicalize leaves as it is, and no other.
LEMMA CanonicalIsFixed ==
    ASSUME NEW s \in Seq(Instr)
    PROVE  is_canonical(s) <=> canonicalize(s) = s
<1>1. /\ Len(s) \in Nat /\ DOMAIN s = 1 .. Len(s)
      /\ \A i \in 1 .. Len(s) : s[i] \in Instr
      /\ s \in [1 .. Len(s) -> Instr]
  BY SeqFacts
<1>2. canonicalize(s) = [i \in 1 .. Len(s) |-> Called(s[i], Number(s, s[i]))]
  BY CanonicalizeAt
<1>3. canonicalize(s) = s <=> \A i \in 1 .. Len(s) : Number(s, s[i]) = s[i].val
  <2>1. ASSUME canonicalize(s) = s, NEW i \in 1 .. Len(s)
        PROVE  Number(s, s[i]) = s[i].val
    <3>1. s[i] = Called(s[i], Number(s, s[i]))
      BY <1>2, <2>1
    <3> QED
      BY <1>1, <3>1, CalledFacts
  <2>2. ASSUME \A i \in 1 .. Len(s) : Number(s, s[i]) = s[i].val
        PROVE  canonicalize(s) = s
    <3>1. \A i \in 1 .. Len(s) : Called(s[i], Number(s, s[i])) = s[i]
      BY <1>1, <2>2, CalledFacts
    <3>2. canonicalize(s) = [i \in 1 .. Len(s) |-> s[i]]
      BY <1>2, <3>1
    <3> QED
      BY <1>1, <3>2
  <2> QED
    BY <2>1, <2>2
<1>4. c1_first(s) \in BOOLEAN
  BY DEF c1_first
<1>5. Ordered(s, AbsModes, abs_start)
        <=> \A i \in 1 .. Len(s) : s[i].mode \in AbsModes => Number(s, s[i]) = s[i].val
  <2>1. abs_start \in Nat /\ \A v \in Abs : v \in Nat /\ abs_start <= v
    BY DEF Abs, abs_start, zp_start
  <2>2. \A i \in 1 .. Len(s) : s[i].mode \in AbsModes =>
           Number(s, s[i]) = abs_start + Index(s, AbsModes, s[i].val)
    BY <1>1, <1>4, ChosenFacts DEF Number
  <2> QED
    BY <2>1, <2>2, ModesCovered, OrderedIsNumbered
<1>6. Ordered(s, ZpModes, zp_start)
        <=> \A i \in 1 .. Len(s) : s[i].mode \in ZpModes => Number(s, s[i]) = s[i].val
  <2>1. zp_start \in Nat /\ \A v \in Zp : v \in Nat /\ zp_start <= v
    BY DEF Zp, zp_start
  <2>2. \A i \in 1 .. Len(s) : s[i].mode \in ZpModes =>
           Number(s, s[i]) = zp_start + Index(s, ZpModes, s[i].val)
    BY <1>1, <1>4, ChosenFacts DEF Number
  <2> QED
    BY <2>1, <2>2, ModesCovered, OrderedIsNumbered
<1>7. ~c1_first(s)
        <=> \A i \in 1 .. Len(s) :
               s[i].mode \notin AbsModes \cup ZpModes => Number(s, s[i]) = s[i].val
  <2>1. \A i \in 1 .. Len(s) : s[i].mode \notin AbsModes \cup ZpModes =>
           Number(s, s[i]) = Swapped(s[i].val, c1_first(s)) /\ s[i].val \in 0 .. 14
    <3>1. \A i \in 1 .. Len(s) : s[i].mode \notin AbsModes \cup ZpModes =>
             Number(s, s[i]) = Swapped(s[i].val, c1_first(s))
      BY <1>1, <1>4, ChosenFacts DEF Number
    <3>2. \A i \in 1 .. Len(s) : s[i].mode \notin AbsModes \cup ZpModes => s[i].val \in 0 .. 14
      <4> SUFFICES ASSUME NEW i \in 1 .. Len(s), s[i].mode \notin AbsModes \cup ZpModes
                   PROVE  s[i].val \in 0 .. 14
        OBVIOUS
      <4>1. s[i].mode \in {"Immediate", "None"}
        BY <1>1, InstrFacts
      <4> QED
        BY <1>1, <4>1, InstrFacts
    <3> QED
      BY <3>1, <3>2
  <2>2. CASE ~c1_first(s)
    <3>1. \A v \in 0 .. 14 : Swapped(v, c1_first(s)) = v
      BY <1>4, <2>2, SwappedFacts
    <3> QED
      BY <2>1, <2>2, <3>1
  <2>3. CASE c1_first(s)
    <3>1. PICK i \in 1 .. Len(s) : s[i].mode = "Immediate" /\ s[i].val \in C1Values
      BY <1>1, <2>3 DEF c1_first
    <3>2. s[i].mode \notin AbsModes \cup ZpModes
      BY <3>1 DEF AbsModes, ZpModes
    <3>3. Number(s, s[i]) = Swapped(s[i].val, TRUE)
      BY <1>4, <2>1, <2>3, <3>2
    <3>4. Swapped(s[i].val, TRUE) # s[i].val
      BY <3>1 DEF Swapped, C1Values
    <3> QED
      BY <2>3, <3>2, <3>3, <3>4
  <2> QED
    BY <2>2, <2>3
<1>8. (\A i \in 1 .. Len(s) : Number(s, s[i]) = s[i].val)
        <=> /\ Ordered(s, AbsModes, abs_start)
            /\ Ordered(s, ZpModes, zp_start)
            /\ ~c1_first(s)
  BY <1>5, <1>6, <1>7
<1> QED
  BY <1>3, <1>8, CanonicalMeans

-----------------------------------------------------------------------------
(* Renamings of renamings, and of parts.                                   *)

\* Two renamings make one.
LEMMA RenamedTwice ==
    ASSUME NEW s \in Seq(Instr), NEW t, NEW u, IsRenaming(s, t), IsRenaming(t, u)
    PROVE  IsRenaming(s, u)
<1>1. PICK p \in AbsNames, q \in ZpNames, swap \in BOOLEAN : t = Renamed(s, p, q, swap)
  BY DEF IsRenaming
<1>2. PICK p2 \in AbsNames, q2 \in ZpNames, swap2 \in BOOLEAN :
        u = Renamed(t, p2, q2, swap2)
  BY DEF IsRenaming
<1>3. Len(s) \in Nat /\ \A i \in 1 .. Len(s) : s[i] \in Instr
  BY SeqFacts
<1>4. PICK p3 \in AbsNames : \A v \in Abs : p3[v] = p2[p[v]]
  <2>1. [v \in Abs |-> p2[p[v]]] \in Bijection(Abs, Abs)
    BY Fun_BijTransitive DEF AbsNames
  <2> QED
    BY <2>1 DEF AbsNames
<1>5. PICK q3 \in ZpNames : \A v \in Zp : q3[v] = q2[q[v]]
  <2>1. [v \in Zp |-> q2[q[v]]] \in Bijection(Zp, Zp)
    BY Fun_BijTransitive DEF ZpNames
  <2> QED
    BY <2>1 DEF ZpNames
<1>6. PICK swap3 \in BOOLEAN : swap3 = Both(swap, swap2)
  BY DEF Both
<1>7. /\ t \in Seq(Instr) /\ Len(t) = Len(s)
      /\ \A i \in 1 .. Len(s) : t[i] = Called(s[i], NewName(s[i], p, q, swap))
  BY <1>1, RenamedFacts
<1>8. ASSUME NEW i \in 1 .. Len(s)
      PROVE  NewName(t[i], p2, q2, swap2) = NewName(s[i], p3, q3, swap3)
  <2>1. s[i] \in Instr /\ t[i] \in Instr
    BY <1>3, <1>7, SeqFacts
  <2>2. t[i].mode = s[i].mode /\ t[i].val = NewName(s[i], p, q, swap)
    BY <1>7, <2>1, CalledFacts
  <2>3. CASE s[i].mode \in AbsModes
    <3>1. t[i].val = p[s[i].val] /\ s[i].val \in Abs
      BY <2>1, <2>2, <2>3, ChosenFacts, InstrFacts DEF NewName
    <3>2. NewName(t[i], p2, q2, swap2) = p2[t[i].val]
      BY <2>1, <2>2, <2>3, ChosenFacts DEF NewName
    <3>3. NewName(s[i], p3, q3, swap3) = p3[s[i].val]
      BY <2>1, <2>3, ChosenFacts DEF NewName
    <3> QED
      BY <1>4, <3>1, <3>2, <3>3
  <2>4. CASE s[i].mode \in ZpModes
    <3>1. t[i].val = q[s[i].val] /\ s[i].val \in Zp
      BY <2>1, <2>2, <2>4, ChosenFacts, InstrFacts DEF NewName
    <3>2. NewName(t[i], p2, q2, swap2) = q2[t[i].val]
      BY <2>1, <2>2, <2>4, ChosenFacts DEF NewName
    <3>3. NewName(s[i], p3, q3, swap3) = q3[s[i].val]
      BY <2>1, <2>4, ChosenFacts DEF NewName
    <3> QED
      BY <1>5, <3>1, <3>2, <3>3
  <2>5. CASE s[i].mode \notin AbsModes \cup ZpModes
    <3>1. s[i].mode \in {"Immediate", "None"}
      BY <2>1, <2>5, InstrFacts
    <3>2. PICK v \in 0 .. 14 : v = s[i].val
      BY <2>1, <3>1, InstrFacts
    <3>3. t[i].val = Swapped(v, swap)
      BY <2>1, <2>2, <2>5, <3>2, ChosenFacts DEF NewName
    <3>4. NewName(t[i], p2, q2, swap2) = Swapped(Swapped(v, swap), swap2)
      BY <2>1, <2>2, <2>5, <3>3, ChosenFacts DEF NewName
    <3>5. NewName(s[i], p3, q3, swap3) = Swapped(v, swap3)
      BY <2>1, <2>5, <3>2, ChosenFacts DEF NewName
    <3> QED
      BY <1>6, <3>4, <3>5, SwappedTwice
  <2> QED
    BY <2>3, <2>4, <2>5
<1>9. \A i \in 1 .. Len(s) :
         Called(t[i], NewName(t[i], p2, q2, swap2)) = Called(s[i], NewName(s[i], p3, q3, swap3))
  BY <1>3, <1>7, <1>8, CalledFacts
<1>10. PICK w : w = Renamed(s, p3, q3, swap3)
  OBVIOUS
<1>11. /\ u \in Seq(Instr) /\ Len(u) = Len(s)
       /\ \A i \in 1 .. Len(s) : u[i] = Called(t[i], NewName(t[i], p2, q2, swap2))
  <2>1. /\ Renamed(t, p2, q2, swap2) \in Seq(Instr)
        /\ Len(Renamed(t, p2, q2, swap2)) = Len(t)
        /\ \A i \in 1 .. Len(t) :
              Renamed(t, p2, q2, swap2)[i] = Called(t[i], NewName(t[i], p2, q2, swap2))
    BY <1>7, RenamedFacts
  <2> QED
    BY <1>2, <1>7, <2>1
<1>12. /\ w \in Seq(Instr) /\ Len(w) = Len(s)
       /\ \A i \in 1 .. Len(s) : w[i] = Called(s[i], NewName(s[i], p3, q3, swap3))
  <2>1. /\ Renamed(s, p3, q3, swap3) \in Seq(Instr)
        /\ Len(Renamed(s, p3, q3, swap3)) = Len(s)
        /\ \A i \in 1 .. Len(s) :
              Renamed(s, p3, q3, swap3)[i] = Called(s[i], NewName(s[i], p3, q3, swap3))
    BY RenamedFacts
  <2> QED
    BY <1>10, <2>1
<1>13. u = w
  BY <1>9, <1>11, <1>12, SeqEqual
<1> QED
  BY <1>10, <1>13 DEF IsRenaming

\* A part of a renamed sequence is a part of the sequence, renamed.
LEMMA RenamedPart ==
    ASSUME NEW s \in Seq(Instr), NEW p \in AbsNames, NEW q \in ZpNames, NEW swap \in BOOLEAN,
           NEW i \in 1 .. Len(s), NEW j \in i .. Len(s)
    PROVE  /\ SubSeq(s, i, j) \in Seq(Instr)
           /\ SubSeq(Renamed(s, p, q, swap), i, j) = Renamed(SubSeq(s, i, j), p, q, swap)
<1>1. Len(s) \in Nat /\ \A k \in 1 .. Len(s) : s[k] \in Instr
  BY SeqFacts
<1>2. PICK t : t = Renamed(s, p, q, swap)
  OBVIOUS
<1>3. /\ t \in Seq(Instr) /\ Len(t) = Len(s)
      /\ \A k \in 1 .. Len(s) : t[k] \in Instr
      /\ \A k \in 1 .. Len(s) : t[k] = Called(s[k], NewName(s[k], p, q, swap))
  BY <1>2, RenamedFacts, SeqFacts
<1>4. i \in Int /\ j \in Int /\ i <= j /\ \A k \in i .. j : k \in 1 .. Len(s)
  BY <1>1
<1>5. PICK u : u = SubSeq(s, i, j)
  OBVIOUS
<1>6. PICK v : v = SubSeq(t, i, j)
  OBVIOUS
<1>7. /\ u \in Seq(Instr) /\ Len(u) = j - i + 1
      /\ \A k \in 1 .. j - i + 1 : u[k] = s[i + k - 1]
  <2>1. \A k \in i .. j : s[k] \in Instr
    BY <1>1, <1>4
  <2> QED
    BY <1>4, <1>5, <2>1, SubSeqProperties
<1>8. /\ v \in Seq(Instr) /\ Len(v) = j - i + 1
      /\ \A k \in 1 .. j - i + 1 : v[k] = t[i + k - 1]
  <2>1. \A k \in i .. j : t[k] \in Instr
    BY <1>3, <1>4
  <2> QED
    BY <1>4, <1>6, <2>1, SubSeqProperties
<1>9. PICK w : w = Renamed(u, p, q, swap)
  OBVIOUS
<1>10. /\ w \in Seq(Instr) /\ Len(w) = Len(u)
       /\ \A k \in 1 .. Len(u) : w[k] = Called(u[k], NewName(u[k], p, q, swap))
  BY <1>7, <1>9, RenamedFacts
<1>11. \A k \in 1 .. j - i + 1 : i + k - 1 \in 1 .. Len(s)
  BY <1>1, <1>4
<1>12. \A k \in 1 .. Len(v) : v[k] = w[k]
  BY <1>3, <1>7, <1>8, <1>10, <1>11
<1>13. v = w
  BY <1>7, <1>8, <1>10, <1>12, SeqEqual
<1> QED
  BY <1>2, <1>5, <1>6, <1>7, <1>9, <1>13

\* The part of a canonical sequence, made canonical, is a renaming of the part.
LEMMA PartOfCanonical ==
    ASSUME NEW s \in Seq(Instr), NEW i \in 1 .. Len(s), NEW j \in i .. Len(s)
    PROVE  /\ SubSeq(s, i, j) \in Seq(Instr)
           /\ IsRenaming(SubSeq(s, i, j), canonicalize(SubSeq(canonicalize(s), i, j)))
           /\ ~SumFirst(SubSeq(s, i, j)) =>
                 canonicalize(SubSeq(canonicalize(s), i, j)) = canonicalize(SubSeq(s, i, j))
<1>1. PICK b \in BOOLEAN : b = c1_first(s)
  BY DEF c1_first
<1>2. PICK p \in AbsNames, q \in ZpNames : canonicalize(s) = Renamed(s, p, q, b)
  BY <1>1, CanonicalizeIsRenaming
<1>3. PICK u : u = SubSeq(s, i, j)
  OBVIOUS
<1>4. u \in Seq(Instr) /\ SubSeq(canonicalize(s), i, j) = Renamed(u, p, q, b)
  BY <1>2, <1>3, RenamedPart
<1>5. PICK t \in Seq(Instr) : t = Renamed(u, p, q, b)
  BY <1>4, RenamedFacts
<1>6. PICK d \in BOOLEAN : d = c1_first(t)
  BY DEF c1_first
<1>7. PICK p2 \in AbsNames, q2 \in ZpNames : canonicalize(t) = Renamed(t, p2, q2, d)
  BY <1>6, CanonicalizeIsRenaming
<1>8. IsRenaming(u, canonicalize(t))
  <2>1. IsRenaming(u, t) /\ IsRenaming(t, canonicalize(t))
    BY <1>5, <1>7 DEF IsRenaming
  <2> QED
    BY <1>4, <2>1, RenamedTwice
<1>9. ~SumFirst(u) => canonicalize(t) = canonicalize(u)
  BY <1>4, <1>5, CanonicalStays
<1> QED
  BY <1>3, <1>4, <1>5, <1>8, <1>9

-----------------------------------------------------------------------------
(* What is passed over.                                                    *)

LEMMA MinOfTwo ==
    ASSUME NEW a \in Nat, NEW b \in Nat
    PROVE  Min({a, b}) = IF a <= b THEN a ELSE b
BY DEF Min

LEMMA CanonicalizeKeepsLength ==
    ASSUME NEW s \in Seq(Instr)
    PROVE  /\ canonicalize(s) \in Seq(Instr) /\ Len(canonicalize(s)) = Len(s)
           /\ IsRenaming(s, canonicalize(s))
           /\ s = <<>> => canonicalize(s) = <<>>
<1>1. PICK b \in BOOLEAN : b = c1_first(s)
  BY DEF c1_first
<1>2. PICK p \in AbsNames, q \in ZpNames : canonicalize(s) = Renamed(s, p, q, b)
  BY <1>1, CanonicalizeIsRenaming
<1>3. canonicalize(s) \in Seq(Instr) /\ Len(canonicalize(s)) = Len(s)
  BY <1>2, RenamedFacts
<1>4. s = <<>> => canonicalize(s) = <<>>
  BY <1>3, EmptySeq
<1> QED
  BY <1>2, <1>3, <1>4 DEF IsRenaming

\* What the loop of in looks at.
Pair(s, i) == SubSeq(canonicalize(s), i, Min({i + 1, Len(canonicalize(s))}))

LEMMA InMeans ==
    ASSUME NEW s, NEW set
    PROVE  in(s, set) <=> \/ canonicalize(s) \in set
                          \/ \E i \in 1 .. max_length - 1 : canonicalize(Pair(s, i)) \in set
BY DEF in, Pair

LEMMA InIsSound ==
    ASSUME NEW s \in Seq(Instr), NEW set, <<>> \notin set, in(s, set)
    PROVE  \E i, j \in DOMAIN s, c \in set : i <= j /\ IsRenaming(SubSeq(s, i, j), c)
<1>1. Len(s) \in Nat /\ DOMAIN s = 1 .. Len(s)
  BY SeqFacts
<1>2. CASE canonicalize(s) \in set
  <2>1. s # <<>>
    BY <1>2, CanonicalizeKeepsLength
  <2>2. 1 \in 1 .. Len(s) /\ Len(s) \in 1 .. Len(s) /\ 1 <= Len(s)
    BY <1>1, <2>1, EmptySeq
  <2>3. SubSeq(s, 1, Len(s)) = s
    BY SubSeqFull
  <2>4. IsRenaming(SubSeq(s, 1, Len(s)), canonicalize(s))
    BY <2>3, CanonicalizeKeepsLength
  <2> QED
    BY <1>1, <1>2, <2>2, <2>4
<1>3. ASSUME NEW i \in 1 .. max_length - 1, canonicalize(Pair(s, i)) \in set
      PROVE  \E k, j \in DOMAIN s, c \in set : k <= j /\ IsRenaming(SubSeq(s, k, j), c)
  <2>1. i \in Nat /\ 1 <= i
    BY LengthAssumption
  <2>2. PICK n \in Nat : n = Len(s)
    BY <1>1
  <2>3. PICK j \in Nat : (i + 1 <= n /\ j = i + 1) \/ (n < i + 1 /\ j = n)
    <3>1. PICK e \in Nat : e = i + 1
      BY <2>1
    <3>2. CASE e <= n
      BY <3>1, <3>2
    <3>3. CASE n < e
      BY <3>1, <3>3
    <3> QED
      BY <3>1, <3>2, <3>3
  <2>4. Pair(s, i) = SubSeq(canonicalize(s), i, j)
    <3>1. Len(canonicalize(s)) = n
      BY <2>2, CanonicalizeKeepsLength
    <3>2. i + 1 \in Nat
      BY <2>1
    <3>3. Min({i + 1, n}) = j
      BY <2>3, <3>2, MinOfTwo
    <3> QED
      BY <3>1, <3>3 DEF Pair
  <2>5. i <= n
    <3> SUFFICES ASSUME n < i PROVE FALSE
      BY <2>1, <2>2
    <3>1. j < i /\ i \in Int /\ j \in Int
      BY <2>1, <2>2, <2>3
    <3>2. Pair(s, i) = <<>>
      BY <2>4, <3>1, SubSeqEmpty
    <3>3. canonicalize(<<>>) = <<>>
      BY EmptySeq, CanonicalizeKeepsLength
    <3> QED
      BY <1>3, <3>2, <3>3
  <2>6. i \in 1 .. n /\ j \in i .. n /\ j \in 1 .. n /\ i <= j
    BY <2>1, <2>2, <2>3, <2>5
  <2>7. IsRenaming(SubSeq(s, i, j), canonicalize(Pair(s, i)))
    BY <2>2, <2>4, <2>6, PartOfCanonical
  <2> QED
    BY <1>1, <1>3, <2>2, <2>6, <2>7
<1> QED
  BY <1>2, <1>3, InMeans

LEMMA PairsAreSeen ==
    ASSUME NEW s \in Seq(Instr), NEW set, Len(s) <= max_length, ~in(s, set),
           NEW i \in 1 .. Len(s) - 1, ~SumFirst(SubSeq(s, i, i + 1))
    PROVE  canonicalize(SubSeq(s, i, i + 1)) \notin set
<1>1. Len(s) \in Nat /\ max_length \in Nat
  BY SeqFacts, LengthAssumption
<1>2. /\ i \in 1 .. max_length - 1 /\ i \in 1 .. Len(s) /\ i + 1 \in i .. Len(s)
      /\ i + 1 \in Nat /\ i + 1 <= Len(s)
  BY <1>1
<1>3. Pair(s, i) = SubSeq(canonicalize(s), i, i + 1)
  BY <1>1, <1>2, CanonicalizeKeepsLength, MinOfTwo DEF Pair
<1>4. canonicalize(Pair(s, i)) \notin set
  BY <1>2, InMeans
<1>5. canonicalize(Pair(s, i)) = canonicalize(SubSeq(s, i, i + 1))
  BY <1>2, <1>3, PartOfCanonical
<1> QED
  BY <1>4, <1>5

-----------------------------------------------------------------------------
(* The invariant.                                                          *)

\* What enumerate_recursive is at is not known to be not worth while.
IInv ==
    /\ path \in Seq(Instr) /\ Len(path) <= max_length
    /\ non_optimal \in NonOptimal
    /\ path # <<>> => ~in(path, non_optimal)

LEMMA AppendTyped ==
    ASSUME NEW s \in Seq(Instr), NEW op \in Tried
    PROVE  append(s, op) \in Seq(Instr)
<1>1. op \in Instr
  BY OpcodesAreInstr, TriedAssumption
<1> QED
  BY <1>1, AppendProperties DEF append

\* Of the sequences that are renamings of each other, one is canonical, but for
\* those that use C0+C1 before C0 and C1 (emulator.h:46-139, enumerator.cpp:102-137).
THEOREM OneIsCanonical ==
    ASSUME NEW s \in Seq(opcodes), NEW t \in Seq(opcodes), IsRenaming(s, t), ~SumFirst(s)
    PROVE  /\ canonicalize(s) = canonicalize(t)
           /\ is_canonical(s) /\ is_canonical(t) => s = t
<1>1. s \in Seq(Instr) /\ t \in Seq(Instr)
  BY OpcodesAreInstr
<1>2. PICK p \in AbsNames, q \in ZpNames, swap \in BOOLEAN : Renamed(s, p, q, swap) = t
  BY DEF IsRenaming
<1>3. canonicalize(s) = canonicalize(t)
  BY <1>1, <1>2, CanonicalStays
<1> QED
  BY <1>1, <1>3, CanonicalIsFixed

\* No sequence that is known to be not optimal is enumerated
\* (enumerator.cpp:143-149).
THEOREM Invariant == Spec => []IInv
<1>1. Init => IInv
  <2> SUFFICES ASSUME Init PROVE IInv
    OBVIOUS
  <2>1. path = <<>> /\ non_optimal \in NonOptimal
    BY DEF Init
  <2> QED
    BY <2>1, EmptySeq, LengthAssumption DEF IInv
<1>2. IInv /\ [Next]_vars => IInv'
  <2> SUFFICES ASSUME IInv, [Next]_vars PROVE IInv'
    OBVIOUS
  <2>1. ASSUME NEW op \in Tried, Enumerate(op)
        PROVE  IInv'
    <3>1. /\ Len(path) < max_length /\ ~in(append(path, op), non_optimal)
          /\ path' = append(path, op) /\ non_optimal' = non_optimal
      BY <2>1 DEF Enumerate
    <3>2. path \in Seq(Instr) /\ non_optimal \in NonOptimal /\ op \in Instr
      BY OpcodesAreInstr, TriedAssumption DEF IInv
    <3>3. path' = Append(path, op)
      BY <3>1 DEF append
    <3>4. path' \in Seq(Instr) /\ Len(path') = Len(path) + 1
      BY <3>2, <3>3, AppendProperties
    <3>5. Len(path') <= max_length
      BY <3>1, <3>2, <3>4, SeqFacts, LengthAssumption
    <3>6. ~in(path, non_optimal)'
      BY <3>1
    <3> QED
      BY <3>1, <3>2, <3>4, <3>5, <3>6 DEF IInv
  <2>2. CASE UNCHANGED vars
    BY <2>2 DEF IInv, vars
  <2> QED
    BY <2>1, <2>2 DEF Next
<1> QED
  BY <1>1, <1>2, PTL DEF Spec

\* The canonical sequences stand for all (emulator.h:46-139,
\* enumerator.cpp:102-137, 300).
THEOREM CanonicalStandsForAll == Spec => []OnePerClass
<1>1. IInv => OnePerClass
  <2> SUFFICES ASSUME IInv PROVE OnePerClass
    OBVIOUS
  <2>1. path \in Seq(Instr)
    BY DEF IInv
  <2>2. Same(Abs) \in AbsNames /\ Same(Zp) \in ZpNames
    <3>1. ASSUME NEW S PROVE Same(S) \in Bijection(S, S)
      <4>1. Same(S) \in [S -> S] /\ \A x \in S : Same(S)[x] = x
        BY DEF Same
      <4> QED
        BY <4>1, Fun_IsBij
    <3> QED
      BY <3>1 DEF AbsNames, ZpNames
  <2>3. IsRenaming(path, canonicalize(path))
    BY <2>1, CanonicalizeKeepsLength
  <2>4. \A p \in AbsNames :
           canonicalize(Renamed(path, p, Same(Zp), FALSE)) = canonicalize(path)
    BY <2>1, <2>2, CanonicalStays
  <2>5. \A q \in ZpNames :
           canonicalize(Renamed(path, Same(Abs), q, FALSE)) = canonicalize(path)
    BY <2>1, <2>2, CanonicalStays
  <2>6. ~SumFirst(path) =>
           canonicalize(Renamed(path, Same(Abs), Same(Zp), TRUE)) = canonicalize(path)
    BY <2>1, <2>2, CanonicalStays
  <2>7. is_canonical(path) <=> canonicalize(path) = path
    BY <2>1, CanonicalIsFixed
  <2> QED
    BY <2>3, <2>4, <2>5, <2>6, <2>7 DEF OnePerClass
<1> QED
  BY <1>1, Invariant, PTL

\* Only sequences with a part known to be not optimal are passed over
\* (emulator.h:166-177).
THEOREM PassedOverForAReason == Spec => []PruneIsSound
<1>1. IInv => PruneIsSound
  <2> SUFFICES ASSUME IInv, NEW op \in Tried, in(append(path, op), non_optimal)
               PROVE  \E i, j \in DOMAIN append(path, op), s \in non_optimal :
                         i <= j /\ IsRenaming(SubSeq(append(path, op), i, j), s)
    BY DEF PruneIsSound
  <2>1. append(path, op) \in Seq(Instr) /\ <<>> \notin non_optimal
    BY AppendTyped, NonOptimalAssumption DEF IInv
  <2> QED
    BY <2>1, InIsSound
<1> QED
  BY <1>1, Invariant, PTL

\* Nothing is enumerated that has a known pair, but for pairs that begin with
\* C0+C1 (enumerator.cpp:143-149).
THEOREM KnownPairsPassedOver == Spec => []NoKnownPair
<1>1. IInv => NoKnownPair
  <2> SUFFICES ASSUME IInv PROVE NoKnownPair
    OBVIOUS
  <2>1. path \in Seq(Instr) /\ Len(path) <= max_length /\ <<>> \notin non_optimal
          /\ (path # <<>> => ~in(path, non_optimal))
    BY NonOptimalAssumption DEF IInv
  <2>2. canonicalize(path) \notin non_optimal
    BY <2>1, InMeans, CanonicalizeKeepsLength
  <2>3. ASSUME NEW i \in 1 .. Len(path) - 1, ~SumFirst(SubSeq(path, i, i + 1))
        PROVE  canonicalize(SubSeq(path, i, i + 1)) \notin non_optimal
    <3>1. path # <<>>
      BY <2>1, <2>3, EmptySeq
    <3> QED
      BY <2>1, <2>3, <3>1, PairsAreSeen
  <2> QED
    BY <2>2, <2>3 DEF NoKnownPair
<1> QED
  BY <1>1, Invariant, PTL
=============================================================================

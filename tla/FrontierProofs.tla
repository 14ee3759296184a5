--------------------------- MODULE FrontierProofs ---------------------------
(***************************************************************************)
(* Every record is in the file of its cost, and no instruction is dropped; *)
(* and when the runs on all smaller costs have come to an end, a file has  *)
(* every sequence of its cost: for every table, number of slots and        *)
(* largest cost, and for any number of runs that are killed.               *)
(***************************************************************************)
EXTENDS Frontier, FiniteSetTheorems, FunctionTheorems, WellFoundedInduction,
        NaturalsInduction, SequenceTheorems, TLAPS

-----------------------------------------------------------------------------
(* The cost of a sequence.                                                 *)

Instructions == [row : Rows, number : Nat]

\* A set of natural numbers that is not empty has a least one.
LEMMA Least ==
    ASSUME NEW T, T \subseteq Nat, T # {}
    PROVE  \E m \in T : \A n \in T : m <= n
<1>1. PICK m \in T : \A n \in T : <<n, m>> \notin OpToRel(<, Nat)
  BY WFMin, NatLessThanWellFounded, Zenon
<1>2. \A n \in T : ~(n < m)
  BY <1>1, Zenon DEF OpToRel
<1> QED
  BY <1>2

\* The cost of the first n instructions.
Upto(f, n, ins) == IF n = 0 THEN 0 ELSE f[n - 1] + Table[ins[n].row].cycles

Sums(f, len, ins) == \A n \in 0 .. len : f[n] = Upto(f, n, ins)

\* There is a function that gives the cost of each prefix.
LEMMA SumDefined ==
    ASSUME NEW ins, NEW len \in Nat
    PROVE  \E f : f = [n \in 0 .. len |-> Upto(f, n, ins)]
<1> DEFINE Has(m) == \E f : f = [n \in 0 .. m |-> Upto(f, n, ins)]
           T == {m \in Nat : ~Has(m)}
<1> SUFFICES ASSUME T # {} PROVE FALSE
  BY DEF T
<1>1. PICK m \in T : \A n \in T : m <= n
  BY Least
<1>2. CASE m = 0
  <2> DEFINE f == [n \in 0 .. 0 |-> 0]
  <2>1. f = [n \in 0 .. 0 |-> Upto(f, n, ins)]
    BY DEF Upto
  <2> QED
    BY <1>1, <1>2, <2>1
<1>3. CASE m # 0
  <2>1. m - 1 \in Nat /\ m \in Nat /\ Has(m - 1)
    BY <1>1, <1>3
  <2>2. PICK f : f = [n \in 0 .. m - 1 |-> Upto(f, n, ins)]
    BY <2>1
  <2> DEFINE g == [n \in 0 .. m |-> IF n = m THEN Upto(f, m, ins) ELSE f[n]]
  <2>3. \A n \in 0 .. m : n > 0 => g[n - 1] = f[n - 1]
    BY <2>1
  <2>4. \A n \in 0 .. m : Upto(g, n, ins) = Upto(f, n, ins)
    BY <2>1, <2>3 DEF Upto
  <2>5. \A n \in 0 .. m : g[n] = Upto(g, n, ins)
    <3>1. \A n \in 0 .. m - 1 : f[n] = Upto(f, n, ins)
      BY <2>2
    <3> QED
      BY <2>1, <2>4, <3>1
  <2>6. g = [n \in 0 .. m |-> Upto(g, n, ins)]
    BY <2>5
  <2> QED
    BY <1>1, <2>6
<1> QED
  BY <1>2, <1>3

\* Cycles is the cost of the whole, in such a function.
LEMMA CyclesSum ==
    ASSUME NEW ins, NEW len \in Nat, Len(ins) = len
    PROVE  \E f : Sums(f, len, ins) /\ Cycles(ins) = f[len]
<1> DEFINE f == CHOOSE f : f = [n \in 0 .. len |-> Upto(f, n, ins)]
<1>1. f = [n \in 0 .. len |-> Upto(f, n, ins)]
  BY SumDefined
<1>2. Cycles(ins) = f[len]
  BY DEF Cycles, Upto
<1>3. Sums(f, len, ins)
  BY <1>1 DEF Sums
<1> QED
  BY <1>2, <1>3

\* Two sums of the same costs are the same.
LEMMA SumsAgree ==
    ASSUME NEW len \in Nat, NEW s, NEW t, NEW f, NEW g,
           \A n \in 1 .. len : Table[s[n].row].cycles = Table[t[n].row].cycles,
           Sums(f, len, s), Sums(g, len, t)
    PROVE  f[len] = g[len]
<1> DEFINE T == {n \in 0 .. len : f[n] # g[n]}
<1>1. T = {}
  <2> SUFFICES ASSUME T # {} PROVE FALSE
    OBVIOUS
  <2>1. T \subseteq Nat
    OBVIOUS
  <2>2. PICK n \in T : \A m \in T : n <= m
    BY <2>1, Least
  <2>3. n \in 0 .. len /\ f[n] # g[n] /\ \A m \in 0 .. len : m < n => f[m] = g[m]
    BY <2>2
  <2> HIDE DEF T
  <2>4. CASE n = 0
    BY <2>3, <2>4 DEF Sums, Upto
  <2>5. CASE n # 0
    <3>1. n - 1 \in 0 .. len /\ n - 1 < n /\ n \in 1 .. len
      BY <2>3, <2>5
    <3>2. f[n - 1] = g[n - 1]
      BY <2>3, <3>1
    <3> QED
      BY <2>3, <2>5, <3>1, <3>2 DEF Sums, Upto
  <2> QED
    BY <2>4, <2>5
<1> QED
  BY <1>1

\* A sequence costs what its rows cost, whatever the numbers of the operands.
LEMMA CyclesOfRows ==
    ASSUME NEW s, NEW t, NEW len \in Nat, Len(s) = len, Len(t) = len,
           \A n \in 1 .. len : s[n].row = t[n].row
    PROVE  Cycles(s) = Cycles(t)
<1>1. PICK f : Sums(f, len, s) /\ Cycles(s) = f[len]
  BY CyclesSum
<1>2. PICK g : Sums(g, len, t) /\ Cycles(t) = g[len]
  BY CyclesSum
<1>3. \A n \in 1 .. len : Table[s[n].row].cycles = Table[t[n].row].cycles
  OBVIOUS
<1>4. f[len] = g[len]
  BY <1>1, <1>2, <1>3, SumsAgree
<1> QED
  BY <1>1, <1>2, <1>4

\* An instruction that is added costs what its row costs.
LEMMA CyclesOfAppend ==
    ASSUME NEW s \in Seq(Instructions), NEW x \in Instructions
    PROVE  Cycles(Append(s, x)) = Cycles(s) + Table[x.row].cycles
<1>1. PICK len \in Nat : len = Len(s)
  BY LenProperties
<1>2. PICK t : t = Append(s, x)
  OBVIOUS
<1>3. /\ Len(t) = len + 1 /\ len + 1 \in Nat
      /\ \A n \in 1 .. len : t[n] = s[n]
      /\ t[len + 1] = x
  BY <1>1, <1>2, AppendProperties
<1>4. PICK f : Sums(f, len, s) /\ Cycles(s) = f[len]
  BY <1>1, CyclesSum
<1>5. PICK g : Sums(g, len + 1, t) /\ Cycles(t) = g[len + 1]
  BY <1>3, CyclesSum
<1>6. f[len] = g[len]
  <2>1. Sums(g, len, t)
    BY <1>5 DEF Sums
  <2>2. \A n \in 1 .. len : Table[s[n].row].cycles = Table[t[n].row].cycles
    BY <1>3
  <2>3. Sums(f, len, s)
    BY <1>4
  <2>4. len \in Nat
    OBVIOUS
  <2> QED
    BY <2>1, <2>2, <2>3, <2>4, SumsAgree
<1>7. g[len + 1] = g[len] + Table[x.row].cycles
  <2>1. len + 1 \in 0 .. len + 1 /\ len + 1 # 0 /\ (len + 1) - 1 = len
    OBVIOUS
  <2> QED
    BY <1>3, <1>5, <2>1 DEF Sums, Upto
<1> QED
  BY <1>2, <1>4, <1>5, <1>6, <1>7

\* A sequence costs at least so many times the cheapest row.
LEMMA CyclesAtLeast ==
    ASSUME NEW s \in Seq(Instructions), NEW m \in Nat,
           \A r \in Rows : m <= Table[r].cycles
    PROVE  Cycles(s) \in Nat /\ Len(s) * m <= Cycles(s)
<1>1. Len(s) \in Nat /\ \A n \in 1 .. Len(s) : s[n] \in Instructions
  BY LenProperties, ElementOfSeq
<1>2. PICK f : Sums(f, Len(s), s) /\ Cycles(s) = f[Len(s)]
  BY <1>1, CyclesSum
<1>3. \A r \in Rows : Table[r].cycles \in Nat
  <2>1. Table \in [1 .. Len(Table) -> [cycles : Nat \ {0}, variants : Nat \ {0}]]
    BY TableAssumption, LenProperties
  <2> QED
    BY <2>1 DEF Rows
<1> DEFINE T == {n \in 0 .. Len(s) : ~(f[n] \in Nat /\ n * m <= f[n])}
<1>4. T = {}
  <2> SUFFICES ASSUME T # {} PROVE FALSE
    OBVIOUS
  <2>1. T \subseteq Nat
    BY <1>1
  <2>2. PICK n \in T : \A k \in T : n <= k
    BY <2>1, Least
  <2>3. /\ n \in 0 .. Len(s) /\ ~(f[n] \in Nat /\ n * m <= f[n])
        /\ \A k \in 0 .. Len(s) : k < n => f[k] \in Nat /\ k * m <= f[k]
    BY <1>1, <2>2
  <2> HIDE DEF T
  <2>4. CASE n = 0
    BY <1>1, <1>2, <2>3, <2>4 DEF Sums, Upto
  <2>5. CASE n # 0
    <3>1. n \in Nat /\ n - 1 \in 0 .. Len(s) /\ n - 1 < n /\ n \in 1 .. Len(s)
      BY <1>1, <2>3, <2>5
    <3>2. f[n - 1] \in Nat /\ (n - 1) * m <= f[n - 1]
      BY <2>3, <3>1
    <3>3. PICK c \in Nat : c = Table[s[n].row].cycles /\ m <= c
      BY <1>1, <1>3, <3>1 DEF Instructions
    <3>4. f[n] = f[n - 1] + c
      BY <1>2, <2>3, <2>5, <3>3 DEF Sums, Upto
    <3>5. (n - 1) * m + m = n * m
      BY <3>1
    <3>6. (n - 1) * m \in Nat
      BY <3>1
    <3> QED
      BY <2>3, <3>2, <3>3, <3>4, <3>5, <3>6
  <2> QED
    BY <2>4, <2>5
<1> QED
  BY <1>1, <1>2, <1>4

\* A factor can be divided out.
LEMMA LessByFactor ==
    ASSUME NEW a \in Nat, NEW b \in Nat, NEW m \in Nat, a * m < b * m
    PROVE  a < b
<1> SUFFICES ASSUME b <= a PROVE FALSE
  OBVIOUS
<1>1. PICK k \in Nat : a = b + k
  <2>1. a - b \in Nat /\ a = b + (a - b)
    OBVIOUS
  <2> QED
    BY <2>1
<1>2. a * m = b * m + k * m
  BY <1>1
<1>3. k * m \in Nat /\ b * m \in Nat
  BY <1>1
<1> QED
  BY <1>2, <1>3

\* Some cost is no more than that of any row, and max_cost is less than a sequence of
\* one instruction more than there are slots costs at it.
LEMMA Cheapest ==
    \E m \in Nat : (\A r \in Rows : m <= Table[r].cycles) /\ max_cost < (Slots + 1) * m
<1>1. \A r \in Rows : Table[r].cycles \in Nat
  <2>1. Table \in [1 .. Len(Table) -> [cycles : Nat \ {0}, variants : Nat \ {0}]]
    BY TableAssumption, LenProperties
  <2> QED
    BY <2>1 DEF Rows
<1>2. Rows # {}
  <2>1. Len(Table) \in Nat /\ DOMAIN Table = 1 .. Len(Table)
    BY TableAssumption, LenProperties
  <2>2. Len(Table) # 0
    BY TableAssumption, EmptySeq
  <2>3. 1 \in DOMAIN Table
    BY <2>1, <2>2
  <2> QED
    BY <2>3 DEF Rows
<1>3. PICK m \in {Table[r].cycles : r \in Rows} :
          \A n \in {Table[r].cycles : r \in Rows} : m <= n
  <2>1. {Table[r].cycles : r \in Rows} \subseteq Nat /\ {Table[r].cycles : r \in Rows} # {}
    BY <1>1, <1>2
  <2> QED
    BY <2>1, Least
<1>4. PICK r \in Rows : m = Table[r].cycles
  BY <1>3
<1> QED
  BY <1>1, <1>3, <1>4, CostAssumption DEF Rows

-----------------------------------------------------------------------------
(* The inductive invariant: what a run has written is in the right files   *)
(* too, and a run reads a file below max_cost.                             *)

Filed(p) == p.ins \in Seq(Instructions) /\ p.file = Cycles(p.ins)

IInv ==
    /\ pc \in {"new", "idle", "running"}
    /\ row \in Nat \ {0} /\ variant \in Nat
    /\ pc = "running" => target \in Targets
    /\ \A p \in DOMAIN disk : Filed(p)
    /\ \A p \in DOMAIN pending : Filed(p)

\* A record that is read costs what it did, though its operands lose their numbers.
LEMMA Decoded ==
    ASSUME NEW s \in Seq(Instructions)
    PROVE  /\ Decode(s).ins \in Seq(Instructions)
           /\ Len(Decode(s).ins) = Len(s)
           /\ Decode(s).cycles = Cycles(s)
           /\ Cycles(Decode(s).ins) = Cycles(s)
<1>1. PICK len \in Nat : len = Len(s) /\ DOMAIN s = 1 .. len
  BY LenProperties
<1>2. \A i \in 1 .. len : s[i] \in Instructions
  BY <1>1, ElementOfSeq
<1>3. PICK t : t = [i \in 1 .. len |-> instruction(s[i].row, 0)]
  OBVIOUS
<1>4. Decode(s) = [cycles |-> Cycles(s), ins |-> t]
  BY <1>1, <1>3 DEF Decode
<1>5. t \in [1 .. len -> Instructions] /\ \A i \in 1 .. len : s[i].row = t[i].row
  BY <1>2, <1>3 DEF instruction, Instructions
<1>6. t \in Seq(Instructions) /\ Len(t) = len
  <2>1. t \in Seq(Instructions)
    BY <1>1, <1>5, SeqDef
  <2>2. len \in Nat
    BY <1>1
  <2>3. Len(t) = len
    BY <1>3, <2>2
  <2> QED
    BY <2>1, <2>3
<1>7. Cycles(s) = Cycles(t)
  BY <1>1, <1>5, <1>6, CyclesOfRows
<1> QED
  BY <1>1, <1>4, <1>6, <1>7

\* What a run writes of a record: with a cost that has a file there is a slot left.
LEMMA ExtendedFits ==
    ASSUME NEW s \in Seq(Instructions), row \in Rows, variant \in Nat, HasFile(s)
    PROVE  /\ Filed([file |-> Extended(s).cycles, ins |-> Extended(s).ins])
           /\ Extended(s).cycles = Cycles(s) + Table[row].cycles
           /\ Extended(s).ins = Append(Decode(s).ins, instruction(row, variant))
<1>1. PICK d : d = Decode(s)
  OBVIOUS
<1>2. PICK x : x = instruction(row, variant)
  OBVIOUS
<1>3. x \in Instructions /\ x.row = row
  BY <1>2 DEF instruction, Instructions
<1>4. /\ d.ins \in Seq(Instructions) /\ Len(d.ins) = Len(s)
      /\ d.cycles = Cycles(s) /\ Cycles(d.ins) = Cycles(s)
  BY <1>1, Decoded
<1>5. PICK m \in Nat : (\A r \in Rows : m <= Table[r].cycles) /\ max_cost < (Slots + 1) * m
  BY Cheapest
<1>6. PICK k \in Nat, c \in Nat : k = Len(s) /\ c = Cycles(s) /\ k * m <= c
  BY <1>5, CyclesAtLeast, LenProperties
<1>7. PICK y \in Nat : y = Table[row].cycles /\ m <= y
  <2>1. Table \in [1 .. Len(Table) -> [cycles : Nat \ {0}, variants : Nat \ {0}]]
    BY TableAssumption, LenProperties
  <2> QED
    BY <1>5, <2>1 DEF Rows
<1>8. Extended(s) = [cycles |-> c + y, ins |-> IF k < Slots THEN Append(d.ins, x) ELSE d.ins]
  BY <1>1, <1>2, <1>3, <1>4, <1>6, <1>7 DEF Extended, Add
<1>9. c + y <= max_cost
  BY <1>8 DEF HasFile
<1>10. k < Slots
  <2>1. (k + 1) * m = k * m + m /\ k * m \in Nat /\ (Slots + 1) * m \in Nat
    BY <1>5, <1>6, CostAssumption
  <2>2. (k + 1) * m < (Slots + 1) * m
    <3>1. k * m <= c /\ m <= y /\ c + y <= max_cost /\ max_cost < (Slots + 1) * m
      BY <1>5, <1>6, <1>7, <1>9
    <3>2. max_cost \in Nat /\ c \in Nat /\ y \in Nat /\ m \in Nat
      BY <1>5, <1>6, <1>7, TableAssumption
    <3>3. PICK a \in Nat, b \in Nat : a = k * m /\ b = (Slots + 1) * m
      BY <2>1
    <3>4. a + m < b
      BY <3>1, <3>2, <3>3
    <3> QED
      BY <2>1, <3>3, <3>4
  <2>3. k + 1 \in Nat /\ Slots + 1 \in Nat /\ Slots \in Nat
    BY CostAssumption
  <2>4. k + 1 < Slots + 1
    BY <1>5, <2>2, <2>3, LessByFactor
  <2> QED
    BY <2>3, <2>4
<1>11. PICK t : t = Append(d.ins, x)
  OBVIOUS
<1>12. t \in Seq(Instructions) /\ Cycles(t) = c + y
  BY <1>3, <1>4, <1>6, <1>7, <1>11, AppendProperties, CyclesOfAppend
<1>13. Filed([file |-> Extended(s).cycles, ins |-> Extended(s).ins])
  BY <1>8, <1>10, <1>11, <1>12 DEF Filed
<1>14. /\ Extended(s).cycles = Cycles(s) + Table[row].cycles
       /\ Extended(s).ins = Append(Decode(s).ins, instruction(row, variant))
  BY <1>1, <1>2, <1>6, <1>7, <1>8, <1>10
<1> QED
  BY <1>13, <1>14

\* At first there are no files.
LEMMA InitInvariant == Init => IInv
BY DEF Init, IInv, EmptyBag, SetToBag

\* The command "init" puts the single instructions into the files of their costs.
LEMMA InitializePreserves ==
    ASSUME IInv, Initialize
    PROVE  IInv'
<1>1. DOMAIN disk' = {[file |-> 0, ins |-> <<>>]} \cup Singles
  BY DEF Initialize, SetToBag
<1>2. Filed([file |-> 0, ins |-> <<>>])
  <2>1. <<>> \in Seq(Instructions) /\ Len(<<>>) = 0
    OBVIOUS
  <2>2. PICK f : Sums(f, 0, <<>>) /\ Cycles(<<>>) = f[0]
    BY <2>1, CyclesSum
  <2>3. f[0] = 0
    BY <2>2 DEF Sums, Upto
  <2> QED
    BY <2>1, <2>2, <2>3 DEF Filed
<1>3. ASSUME NEW p \in Singles PROVE Filed(p)
  <2>1. PICK r \in Rows : p \in {[file |-> Table[r].cycles, ins |-> <<instruction(r, n)>>] :
                                  n \in 0 .. Table[r].variants - 1}
    BY <1>3 DEF Singles
  <2>2. PICK n \in 0 .. Table[r].variants - 1 :
          p = [file |-> Table[r].cycles, ins |-> <<instruction(r, n)>>]
    BY <2>1
  <2>3. n \in Nat /\ Table[r].cycles \in Nat
    <3>1. Table \in [1 .. Len(Table) -> [cycles : Nat \ {0}, variants : Nat \ {0}]]
      BY TableAssumption, LenProperties
    <3> QED
      BY <2>2, <3>1 DEF Rows
  <2>4. PICK x : x = instruction(r, n)
    OBVIOUS
  <2>5. x \in Instructions /\ x.row = r
    BY <2>1, <2>3, <2>4 DEF instruction, Instructions
  <2>6. <<x>> \in Seq(Instructions) /\ Append(<<>>, x) = <<x>> /\ <<>> \in Seq(Instructions)
    BY <2>5
  <2>7. Cycles(<<x>>) = Cycles(<<>>) + Table[r].cycles
    BY <2>5, <2>6, CyclesOfAppend
  <2>8. Cycles(<<>>) = 0
    BY <1>2 DEF Filed
  <2> QED
    BY <2>2, <2>3, <2>4, <2>6, <2>7, <2>8 DEF Filed
<1> QED
  BY <1>1, <1>2, <1>3 DEF IInv, Initialize

\* A run reads a cost that is a target.
LEMMA StartPreserves ==
    ASSUME IInv, Start
    PROVE  IInv'
<1>1. target' \in Targets
  <2>1. Targets \ ended \subseteq Nat /\ Targets \ ended # {}
    BY TableAssumption DEF Start, Targets
  <2>2. \E m \in Targets \ ended : \A n \in Targets \ ended : m <= n
    BY <2>1, Least
  <2> QED
    BY <2>2 DEF Start, Min
<1> QED
  BY <1>1 DEF IInv, Start, EmptyBag, SetToBag

\* What a pass writes goes into the file of its new cost.
LEMMA PassPreserves ==
    ASSUME IInv, Pass
    PROVE  IInv'
<1>1. DOMAIN pending' = DOMAIN pending \cup {Output(p) : p \in Records}
  <2>1. DOMAIN Outputs = {Output(p) : p \in Records}
    BY DEF Outputs
  <2>2. pending' = pending (+) Outputs
    BY DEF Pass
  <2>3. DOMAIN (pending (+) Outputs) = DOMAIN pending \cup DOMAIN Outputs
    BY DEF (+)
  <2> QED
    BY <2>1, <2>2, <2>3
<1>2. ASSUME NEW p \in Records
      PROVE  Filed(Output(p))
  <2>1. p.ins \in Seq(Instructions)
    BY DEF IInv, Records, BagToSet, Filed
  <2>2. row \in Rows /\ variant \in Nat /\ HasFile(p.ins)
    BY DEF IInv, Pass
  <2> QED
    BY <2>1, <2>2, ExtendedFits DEF Output
<1>3. \A p \in DOMAIN pending' : Filed(p)
  BY <1>1, <1>2 DEF IInv
<1>4. row' \in Nat \ {0} /\ variant' \in Nat
  <2>1. row \in Nat \ {0} /\ variant \in Nat
    BY DEF IInv
  <2>2. \/ variant' = variant + 1 /\ row' = row
        \/ variant' = 0 /\ row' = row + 1
    BY DEF Pass
  <2> QED
    BY <2>1, <2>2
<1> QED
  BY <1>3, <1>4 DEF IInv, Pass

\* What is written of a run is part of what it had to write.
LEMMA ClosePreserves ==
    ASSUME IInv, NEW written, DOMAIN written \subseteq DOMAIN pending, Close(written)
    PROVE  IInv'
<1>1. DOMAIN disk' = DOMAIN disk \cup DOMAIN written
  BY DEF Close, (+)
<1>2. DOMAIN pending' = {}
  BY DEF Close, EmptyBag, SetToBag
<1> QED
  BY <1>1, <1>2 DEF IInv, Close

\* What is left of a bag has nothing else.
LEMMA PartsWithin ==
    ASSUME NEW bag, NEW part \in Parts(bag)
    PROVE  DOMAIN part \subseteq DOMAIN bag
BY DEF Parts

\* The inductive invariant holds in every state.
THEOREM Invariant == Spec => []IInv
<1>1. IInv /\ [Next]_vars => IInv'
  <2> SUFFICES ASSUME IInv, [Next]_vars PROVE IInv'
    OBVIOUS
  <2>1. CASE Initialize
    BY <2>1, InitializePreserves
  <2>2. CASE Start
    BY <2>2, StartPreserves
  <2>3. CASE Pass
    BY <2>3, PassPreserves
  <2>4. CASE Finish
    BY <2>4, ClosePreserves DEF Finish
  <2>5. CASE Abort
    BY <2>5, PartsWithin, ClosePreserves DEF Abort
  <2>6. CASE Kill
    BY <2>6, PartsWithin, ClosePreserves DEF Kill
  <2>7. CASE UNCHANGED vars
    BY <2>7 DEF vars, IInv
  <2> QED
    BY <2>1, <2>2, <2>3, <2>4, <2>5, <2>6, <2>7 DEF Next
<1> QED
  BY <1>1, InitInvariant, PTL DEF Spec

\* A record is in the file of its cost, and no instruction was dropped from it,
\* whatever runs were made or killed (instructions2.h:193-204,
\* enumerator2.cpp:213-215, 307).
THEOREM RecordsByCost == Spec => []CostRight
<1>1. IInv => CostRight
  BY DEF IInv, CostRight, Filed, BagToSet
<1> QED
  BY <1>1, Invariant, PTL

-----------------------------------------------------------------------------
(* Sequences of rows, and the record that holds one with a number for its  *)
(* last operand.                                                           *)

\* The rows of the table, and what they hold.
LEMMA TableFacts ==
    /\ Rows = 1 .. Len(Table) /\ Len(Table) \in Nat
    /\ \A r \in Rows : Table[r].cycles \in Nat \ {0} /\ Table[r].variants \in Nat \ {0}
<1>1. Table \in [1 .. Len(Table) -> [cycles : Nat \ {0}, variants : Nat \ {0}]]
  BY TableAssumption, LenProperties
<1>2. Len(Table) \in Nat
  BY TableAssumption, LenProperties
<1> QED
  BY <1>1, <1>2 DEF Rows

CostOf(s) == Cycles(Rebuilt(s, 0))

\* A sequence of rows has a row at each place.
LEMMA ShapeFacts ==
    ASSUME NEW s \in Seq(Rows)
    PROVE  /\ Len(s) \in Nat /\ DOMAIN s = 1 .. Len(s)
           /\ \A i \in 1 .. Len(s) : s[i] \in Rows
BY LenProperties, ElementOfSeq

\* A row that is appended to a sequence of rows.
LEMMA AppendFacts ==
    ASSUME NEW s \in Seq(Rows), NEW r \in Rows
    PROVE  /\ Append(s, r) \in Seq(Rows) /\ Append(s, r) # <<>>
           /\ Len(Append(s, r)) = Len(s) + 1
           /\ DOMAIN Append(s, r) = 1 .. Len(s) + 1
           /\ \A i \in 1 .. Len(s) : Append(s, r)[i] = s[i]
           /\ Append(s, r)[Len(s) + 1] = r
BY AppendProperties, ShapeFacts

\* A rebuilt sequence has the rows it is made of.
LEMMA RebuiltFacts ==
    ASSUME NEW s \in Seq(Rows), NEW n \in Nat
    PROVE  /\ Rebuilt(s, n) \in Seq(Instructions)
           /\ Len(Rebuilt(s, n)) = Len(s) /\ DOMAIN Rebuilt(s, n) = 1 .. Len(s)
           /\ \A i \in 1 .. Len(s) :
                Rebuilt(s, n)[i] = instruction(s[i], IF i = Len(s) THEN n ELSE 0)
<1>1. PICK len \in Nat : len = Len(s) /\ DOMAIN s = 1 .. len /\ \A i \in 1 .. len : s[i] \in Rows
  BY ShapeFacts
<1>2. PICK t : t = [i \in 1 .. len |-> instruction(s[i], IF i = len THEN n ELSE 0)]
  OBVIOUS
<1>3. t = Rebuilt(s, n)
  BY <1>1, <1>2 DEF Rebuilt
<1>4. t \in [1 .. len -> Instructions]
  BY <1>1, <1>2 DEF instruction, Instructions
<1>5. t \in Seq(Instructions)
  BY <1>4, SeqDef
<1>6. DOMAIN t = 1 .. len
  BY <1>2
<1>7. Len(t) = len
  BY <1>5, <1>6, LenProperties
<1> QED
  BY <1>1, <1>2, <1>3, <1>5, <1>6, <1>7

\* An instruction is its row and its number.
LEMMA InstructionFacts ==
    \A r, n, q, m : /\ instruction(r, n).row = r /\ instruction(r, n).number = n
                    /\ instruction(r, n) = instruction(q, m) => r = q /\ n = m
BY DEF instruction

\* With one more row, what was rebuilt before has the number 0 everywhere.
LEMMA RebuiltAppend ==
    ASSUME NEW s \in Seq(Rows), NEW r \in Rows, NEW n \in Nat
    PROVE  Rebuilt(Append(s, r), n) = Append(Rebuilt(s, 0), instruction(r, n))
<1>1. PICK x, z, a : x = instruction(r, n) /\ z = Rebuilt(s, 0) /\ a = Append(s, r)
  OBVIOUS
<1>2. PICK len \in Nat : len = Len(s)
  BY ShapeFacts
<1>3. x \in Instructions
  BY <1>1 DEF instruction, Instructions
<1>4. /\ z \in Seq(Instructions) /\ Len(z) = len
      /\ \A i \in 1 .. len : z[i] = instruction(s[i], 0)
  BY <1>1, <1>2, RebuiltFacts
<1>5. /\ Append(z, x) \in Seq(Instructions) /\ Len(Append(z, x)) = len + 1
      /\ \A i \in 1 .. len : Append(z, x)[i] = z[i]
      /\ Append(z, x)[len + 1] = x
  BY <1>3, <1>4, AppendProperties
<1>6. /\ a \in Seq(Rows) /\ Len(a) = len + 1
      /\ \A i \in 1 .. len : a[i] = s[i]
      /\ a[len + 1] = r
  BY <1>1, <1>2, AppendFacts
<1>7. /\ Rebuilt(a, n) \in Seq(Instructions) /\ Len(Rebuilt(a, n)) = len + 1
      /\ \A i \in 1 .. len + 1 :
            Rebuilt(a, n)[i] = instruction(a[i], IF i = len + 1 THEN n ELSE 0)
  BY <1>6, RebuiltFacts
<1>8. ASSUME NEW i \in 1 .. len + 1 PROVE Rebuilt(a, n)[i] = Append(z, x)[i]
  <2>1. CASE i = len + 1
    BY <1>1, <1>5, <1>6, <1>7, <2>1
  <2>2. CASE i # len + 1
    <3>1. i \in 1 .. len
      BY <2>2
    <3> QED
      BY <1>4, <1>5, <1>6, <1>7, <2>2, <3>1
  <2> QED
    BY <2>1, <2>2
<1>9. PICK u, v : u = Rebuilt(a, n) /\ v = Append(z, x)
  OBVIOUS
<1>10. u \in Seq(Instructions) /\ v \in Seq(Instructions) /\ Len(u) = Len(v)
         /\ \A i \in 1 .. Len(u) : u[i] = v[i]
  BY <1>5, <1>7, <1>8, <1>9
<1>11. u = v
  BY <1>10, SeqEqual
<1> QED
  BY <1>1, <1>9, <1>11

\* A record that is read back has its rows, and the number 0 everywhere.
LEMMA DecodeRebuilt ==
    ASSUME NEW s \in Seq(Rows), NEW n \in Nat
    PROVE  Decode(Rebuilt(s, n)).ins = Rebuilt(s, 0)
<1>1. PICK t : t = Rebuilt(s, n)
  OBVIOUS
<1>2. DOMAIN t = 1 .. Len(s) /\ \A i \in 1 .. Len(s) : t[i].row = s[i]
  BY <1>1, RebuiltFacts, InstructionFacts
<1>3. Decode(t).ins = [i \in 1 .. Len(s) |-> instruction(s[i], 0)]
  BY <1>2 DEF Decode
<1>4. Rebuilt(s, 0) = [i \in 1 .. Len(s) |-> instruction(s[i], 0)]
  BY ShapeFacts DEF Rebuilt
<1> QED
  BY <1>1, <1>3, <1>4

\* The cost of a sequence of rows: no number matters, and each row adds its own.
LEMMA CostFacts ==
    ASSUME NEW s \in Seq(Rows)
    PROVE  /\ CostOf(s) \in Nat
           /\ \A n \in Nat : Cycles(Rebuilt(s, n)) = CostOf(s)
           /\ \A r \in Rows : CostOf(Append(s, r)) = CostOf(s) + Table[r].cycles
           /\ s # <<>> => CostOf(s) # 0
           /\ s = <<>> => CostOf(s) = 0
<1>1. ASSUME NEW t \in Seq(Rows) PROVE CostOf(t) \in Nat
  <2>1. \A r \in Rows : 0 <= Table[r].cycles
    BY TableFacts
  <2>2. Rebuilt(t, 0) \in Seq(Instructions)
    BY RebuiltFacts
  <2> QED
    BY <2>1, <2>2, CyclesAtLeast DEF CostOf
<1>2. ASSUME NEW n \in Nat PROVE Cycles(Rebuilt(s, n)) = CostOf(s)
  <2>1. PICK u, v, len : u = Rebuilt(s, n) /\ v = Rebuilt(s, 0) /\ len = Len(s) /\ len \in Nat
    BY ShapeFacts
  <2>2. Len(u) = len /\ Len(v) = len /\ \A i \in 1 .. len : u[i].row = v[i].row
    BY <2>1, RebuiltFacts, InstructionFacts
  <2> QED
    BY <2>1, <2>2, CyclesOfRows DEF CostOf
<1>3. ASSUME NEW t \in Seq(Rows), NEW r \in Rows
      PROVE  CostOf(Append(t, r)) = CostOf(t) + Table[r].cycles
  <2>1. PICK x : x = instruction(r, 0)
    OBVIOUS
  <2>2. x \in Instructions /\ x.row = r
    BY <2>1 DEF instruction, Instructions
  <2>3. Rebuilt(t, 0) \in Seq(Instructions)
    BY RebuiltFacts
  <2>4. Cycles(Append(Rebuilt(t, 0), x)) = Cycles(Rebuilt(t, 0)) + Table[r].cycles
    BY <2>2, <2>3, CyclesOfAppend
  <2> QED
    BY <2>1, <2>4, RebuiltAppend DEF CostOf
<1>4. ASSUME s # <<>> PROVE CostOf(s) # 0
  <2>1. PICK t \in Seq(Rows), r \in Rows : s = Append(t, r)
    BY <1>4, SequenceEmptyOrAppend
  <2>2. CostOf(s) = CostOf(t) + Table[r].cycles
    BY <1>3, <2>1
  <2> QED
    BY <1>1, <2>2, TableFacts
<1>5. ASSUME s = <<>> PROVE CostOf(s) = 0
  <2>1. PICK z : z = Rebuilt(s, 0)
    OBVIOUS
  <2>2. Len(z) = 0
    BY <1>5, <2>1, RebuiltFacts
  <2>3. PICK f : Sums(f, 0, z) /\ Cycles(z) = f[0]
    BY <2>2, CyclesSum
  <2> QED
    BY <2>1, <2>3 DEF Sums, Upto, CostOf
<1> QED
  BY <1>1, <1>2, <1>3, <1>4, <1>5

Record(s, r, n) == [file |-> CostOf(s) + Table[r].cycles, ins |-> Rebuilt(Append(s, r), n)]

\* The record names the sequence.
LEMMA RecordInjective ==
    ASSUME NEW s \in Seq(Rows), NEW t \in Seq(Rows), NEW r \in Rows, NEW q \in Rows,
           NEW n \in Nat, NEW m \in Nat, Record(s, r, n) = Record(t, q, m)
    PROVE  s = t /\ r = q /\ n = m
<1>1. Rebuilt(Append(s, r), n) = Rebuilt(Append(t, q), m)
  BY DEF Record
<1>2. PICK a, b, x, y : /\ a = Rebuilt(s, 0) /\ b = Rebuilt(t, 0)
                        /\ x = instruction(r, n) /\ y = instruction(q, m)
  OBVIOUS
<1>3. a \in Seq(Instructions) /\ b \in Seq(Instructions)
  BY <1>2, RebuiltFacts
<1>4. x \in Instructions /\ y \in Instructions
  BY <1>2 DEF instruction, Instructions
<1>5. Append(a, x) = Append(b, y)
  BY <1>1, <1>2, RebuiltAppend
<1>6. a = b /\ x = y
  BY <1>3, <1>4, <1>5, AppendInjective
<1>7. r = q /\ n = m
  BY <1>2, <1>6 DEF instruction
<1>8. s = t
  <2>1. Len(s) = Len(t)
    BY <1>2, <1>6, RebuiltFacts
  <2>2. ASSUME NEW i \in 1 .. Len(s) PROVE s[i] = t[i]
    <3>1. a[i] = instruction(s[i], 0) /\ b[i] = instruction(t[i], 0)
      <4>1. /\ a[i] = instruction(s[i], IF i = Len(s) THEN 0 ELSE 0)
            /\ b[i] = instruction(t[i], IF i = Len(t) THEN 0 ELSE 0)
        BY <1>2, <2>1, RebuiltFacts
      <4> QED
        BY <4>1
    <3> QED
      BY <1>6, <3>1, InstructionFacts
  <2> QED
    BY <2>1, <2>2, SeqEqual
<1> QED
  BY <1>7, <1>8

-----------------------------------------------------------------------------
(* The ways to number the operands of a sequence of rows.                  *)

Numbers == UNION {0 .. Table[r].variants - 1 : r \in Rows}

Numberings(shape) ==
    {n \in [DOMAIN shape -> Numbers] : \A i \in DOMAIN shape : n[i] < Table[shape[i]].variants}

\* Weight counts the numberings.
LEMMA WeightIsNumberings == \A shape : Weight(shape) = Cardinality(Numberings(shape))
BY DEF Weight, Numberings, Numbers

\* The numbers of a row's operand.
LEMMA NumbersFacts ==
    \A r \in Rows : \A k : k \in 0 .. Table[r].variants - 1
                              <=> k \in Numbers /\ k < Table[r].variants
<1> SUFFICES ASSUME NEW r \in Rows, NEW k
             PROVE  k \in 0 .. Table[r].variants - 1
                      <=> k \in Numbers /\ k < Table[r].variants
  OBVIOUS
<1>1. PICK v \in Nat \ {0} : v = Table[r].variants
  BY TableFacts
<1>2. ASSUME k \in Numbers PROVE k \in Nat
  <2>1. PICK q \in Rows : k \in 0 .. Table[q].variants - 1
    BY <1>2 DEF Numbers
  <2>2. Table[q].variants \in Nat
    BY TableFacts
  <2> QED
    BY <2>1, <2>2
<1>3. 0 .. v - 1 \subseteq Numbers
  BY <1>1 DEF Numbers
<1> QED
  BY <1>1, <1>2, <1>3

\* The empty sequence can be numbered in one way.
LEMMA NumberingsEmpty ==
    IsFiniteSet(Numberings(<<>>)) /\ Cardinality(Numberings(<<>>)) = 1
<1>1. DOMAIN <<>> = {}
  OBVIOUS
<1>2. PICK e : e = [i \in {} |-> 0]
  OBVIOUS
<1>3. Numberings(<<>>) = {e}
  <2>1. \A n : n \in Numberings(<<>>) <=> n \in [{} -> Numbers]
    BY <1>1 DEF Numberings
  <2>2. \A n : n \in [{} -> Numbers] <=> n = e
    BY <1>2
  <2> QED
    BY <2>1, <2>2
<1> QED
  BY <1>3, FS_Singleton

\* One more operand, with each of its numbers.
LEMMA NumberingsAppend ==
    ASSUME NEW s \in Seq(Rows), NEW r \in Rows, IsFiniteSet(Numberings(s))
    PROVE  /\ IsFiniteSet(Numberings(Append(s, r)))
           /\ Cardinality(Numberings(Append(s, r)))
                = Cardinality(Numberings(s)) * Table[r].variants
<1>1. PICK len, v : len = Len(s) /\ len \in Nat /\ v = Table[r].variants /\ v \in Nat \ {0}
  BY ShapeFacts, TableFacts
<1>2. PICK a : a = Append(s, r)
  OBVIOUS
<1>3. /\ DOMAIN s = 1 .. len /\ DOMAIN a = 1 .. len + 1
      /\ \A i \in 1 .. len : a[i] = s[i] /\ s[i] \in Rows
      /\ a[len + 1] = r
  BY <1>1, <1>2, AppendFacts, ShapeFacts
<1>4. PICK A, B : A = Numberings(s) /\ B = Numberings(a)
  OBVIOUS
<1>5. \A n : n \in A <=> n \in [1 .. len -> Numbers]
                           /\ \A i \in 1 .. len : n[i] < Table[s[i]].variants
  BY <1>3, <1>4 DEF Numberings
<1>6. \A n : n \in B <=> n \in [1 .. len + 1 -> Numbers]
                           /\ \A i \in 1 .. len + 1 : n[i] < Table[a[i]].variants
  BY <1>3, <1>4 DEF Numberings
<1>7. PICK K : K = 0 .. v - 1
  OBVIOUS
<1>8. \A k : k \in K <=> k \in Numbers /\ k < v
  BY <1>1, <1>7, NumbersFacts
<1> DEFINE both(c) == [i \in 1 .. len + 1 |-> IF i = len + 1 THEN c[2] ELSE c[1][i]]
           h == [c \in A \X K |-> both(c)]
<1>9. ASSUME NEW n \in A, NEW k \in K PROVE both(<<n, k>>) \in B
  <2>1. n \in [1 .. len -> Numbers] /\ \A i \in 1 .. len : n[i] < Table[s[i]].variants
    BY <1>5
  <2>2. k \in Numbers /\ k < v
    BY <1>8
  <2>3. PICK b : b = both(<<n, k>>)
    OBVIOUS
  <2>4. b = [i \in 1 .. len + 1 |-> IF i = len + 1 THEN k ELSE n[i]]
    BY <2>3
  <2>5. \A i \in 1 .. len + 1 : i # len + 1 => i \in 1 .. len
    BY <1>1
  <2>6. b \in [1 .. len + 1 -> Numbers]
    BY <2>1, <2>2, <2>4, <2>5
  <2>7. ASSUME NEW i \in 1 .. len + 1 PROVE b[i] < Table[a[i]].variants
    <3>1. CASE i = len + 1
      BY <1>1, <1>3, <2>2, <2>4, <3>1
    <3>2. CASE i # len + 1
      BY <1>3, <2>1, <2>4, <2>5, <3>2
    <3> QED
      BY <3>1, <3>2
  <2> QED
    BY <1>6, <2>3, <2>6, <2>7
<1>10. h \in [A \X K -> B]
  BY <1>9
<1>11. ASSUME NEW c \in A \X K, NEW d \in A \X K, h[c] = h[d] PROVE c = d
  <2>1. PICK n, k, m, j : /\ c = <<n, k>> /\ d = <<m, j>>
                          /\ n \in A /\ k \in K /\ m \in A /\ j \in K
    OBVIOUS
  <2>2. both(<<n, k>>) = both(<<m, j>>)
    BY <1>11, <2>1
  <2>3. PICK b : b = both(<<n, k>>)
    OBVIOUS
  <2>4. /\ b = [i \in 1 .. len + 1 |-> IF i = len + 1 THEN k ELSE n[i]]
        /\ b = [i \in 1 .. len + 1 |-> IF i = len + 1 THEN j ELSE m[i]]
    BY <2>2, <2>3
  <2>5. len + 1 \in 1 .. len + 1 /\ \A i \in 1 .. len : i \in 1 .. len + 1 /\ i # len + 1
    BY <1>1
  <2>6. k = j /\ \A i \in 1 .. len : n[i] = m[i]
    BY <2>4, <2>5
  <2>7. n \in [1 .. len -> Numbers] /\ m \in [1 .. len -> Numbers]
    BY <1>5, <2>1
  <2>8. n = m
    <3>1. n = [i \in 1 .. len |-> n[i]] /\ m = [i \in 1 .. len |-> m[i]]
      BY <2>7
    <3> QED
      BY <2>6, <3>1
  <2> QED
    BY <2>1, <2>6, <2>8
<1>12. ASSUME NEW b \in B PROVE \E c \in A \X K : h[c] = b
  <2>1. b \in [1 .. len + 1 -> Numbers] /\ \A i \in 1 .. len + 1 : b[i] < Table[a[i]].variants
    BY <1>6
  <2>2. len + 1 \in 1 .. len + 1 /\ \A i \in 1 .. len : i \in 1 .. len + 1
    BY <1>1
  <2>3. PICK n, k : n = [i \in 1 .. len |-> b[i]] /\ k = b[len + 1]
    OBVIOUS
  <2>4. k \in K
    BY <1>1, <1>3, <1>8, <2>1, <2>2, <2>3
  <2>5. n \in A
    BY <1>3, <1>5, <2>1, <2>2, <2>3
  <2>6. \A i \in 1 .. len + 1 : i # len + 1 => i \in 1 .. len
    BY <1>1
  <2>7. b = [i \in 1 .. len + 1 |-> IF i = len + 1 THEN k ELSE n[i]]
    BY <2>1, <2>3, <2>6
  <2>8. both(<<n, k>>) = b
    BY <2>7
  <2>9. <<n, k>> \in A \X K
    BY <2>4, <2>5
  <2> QED
    BY <2>8, <2>9
<1> HIDE DEF h
<1>13. h \in Bijection(A \X K, B)
  BY <1>10, <1>11, <1>12, Fun_IsBij
<1>14. ExistsBijection(A \X K, B)
  BY <1>13 DEF ExistsBijection
<1>15. IsFiniteSet(K) /\ Cardinality(K) = v
  <2>1. PICK w \in Int : w = v - 1 /\ w >= 0
    BY <1>1
  <2>2. IsFiniteSet(0 .. w) /\ Cardinality(0 .. w) = w - 0 + 1
    BY <2>1, FS_Interval
  <2>3. w - 0 + 1 = v
    BY <1>1, <2>1
  <2> QED
    BY <1>7, <2>1, <2>2, <2>3
<1>16. IsFiniteSet(A)
  BY <1>4
<1>17. IsFiniteSet(A \X K) /\ Cardinality(A \X K) = Cardinality(A) * v
  BY <1>15, <1>16, FS_Product
<1>18. IsFiniteSet(B) /\ Cardinality(B) = Cardinality(A \X K)
  BY <1>14, <1>17, FS_Bijection
<1> QED
  BY <1>1, <1>2, <1>4, <1>17, <1>18

\* Every sequence can be numbered in finitely many ways, and in one at least.
LEMMA NumberingsFinite ==
    ASSUME NEW s \in Seq(Rows)
    PROVE  IsFiniteSet(Numberings(s)) /\ Cardinality(Numberings(s)) \in Nat \ {0}
<1> DEFINE Counted(t) == IsFiniteSet(Numberings(t)) /\ Cardinality(Numberings(t)) \in Nat \ {0}
           bad == {k \in Nat : \E t \in Seq(Rows) : Len(t) = k /\ ~Counted(t)}
<1>1. SUFFICES ASSUME bad # {} PROVE FALSE
  BY ShapeFacts
<1>2. PICK k \in bad : \A j \in bad : k <= j
  <2>1. bad \subseteq Nat
    OBVIOUS
  <2> HIDE DEF bad
  <2> QED
    BY <1>1, <2>1, Least
<1>3. PICK t \in Seq(Rows) : Len(t) = k /\ ~Counted(t)
  BY <1>2
<1>4. t # <<>>
  BY <1>3, NumberingsEmpty
<1>5. PICK u \in Seq(Rows), r \in Rows : t = Append(u, r)
  BY <1>4, SequenceEmptyOrAppend
<1>6. Len(u) \in Nat /\ Len(u) < k /\ k \in Nat
  BY <1>2, <1>3, <1>5, AppendFacts, ShapeFacts
<1>7. Counted(u)
  BY <1>2, <1>6
<1>8. PICK a, b : a = Cardinality(Numberings(u)) /\ b = Table[r].variants
                    /\ a \in Nat \ {0} /\ b \in Nat \ {0}
  BY <1>7, TableFacts
<1>9. IsFiniteSet(Numberings(t)) /\ Cardinality(Numberings(t)) = a * b
  BY <1>5, <1>7, <1>8, NumberingsAppend
<1>10. a * b \in Nat \ {0}
  BY <1>8
<1> QED
  BY <1>3, <1>9, <1>10

\* A row multiplies the weight by its variants.
LEMMA WeightFacts ==
    /\ Weight(<<>>) = 1
    /\ \A s \in Seq(Rows) : /\ Weight(s) \in Nat \ {0}
                            /\ \A r \in Rows :
                                 Weight(Append(s, r)) = Weight(s) * Table[r].variants
BY WeightIsNumberings, NumberingsEmpty, NumberingsFinite, NumberingsAppend

-----------------------------------------------------------------------------
(* The invariant of the files' contents: what each holds of every sequence.*)

HowOften(B, p) == IF p \in DOMAIN B THEN B[p] ELSE 0

IsBag(B) == IsFiniteSet(DOMAIN B) /\ \A p \in DOMAIN B : B[p] \in Nat \ {0}

NumbersOf(r) == 0 .. Table[r].variants - 1

Extends(p) == \E s \in Seq(Rows), r \in Rows : \E n \in NumbersOf(r) : p = Record(s, r, n)

\* The runs are made in the order of their targets.
RunInv ==
    /\ row \in 1 .. Len(Table) + 1 /\ variant \in Nat
    /\ row \in Rows => variant < Table[row].variants
    /\ kills \in Nat
    /\ ended \subseteq Targets
    /\ \A c \in ended, d \in Targets : d < c => d \in ended
    /\ pc = "new" => ended = {} /\ kills = 0
    /\ pc # "running" => DOMAIN pending = {}
    /\ pc = "running" => /\ target \in Targets \ ended
                         /\ \A d \in Targets : d < target => d \in ended

\* Files have sequences of rows, with one number.
FormInv ==
    /\ IsBag(disk) /\ IsBag(pending)
    /\ \A p \in DOMAIN disk : p = [file |-> 0, ins |-> <<>>] \/ Extends(p)
    /\ \A p \in DOMAIN pending : Extends(p)

\* A number of copies is as large as it has to be.
Enough(k, s) == k >= Weight(s) /\ (kills = 0 => k = Weight(s))

\* What the files have of a sequence is decided by the run on the cost of all but
\* its last instruction.
DiskHas(s, r, n) ==
    LET k == HowOften(disk, Record(s, r, n))
    IN  /\ CostOf(s) = 0 => k = 1
        /\ CostOf(s) \in ended /\ Safe(CostOf(s)) => Enough(k, s)
        /\ CostOf(s) # 0 /\ CostOf(s) \notin ended /\ kills = 0 => k = 0

Done(r, n) == r < row \/ (r = row /\ n < variant)

\* What the run has written.
PendingHas(s, r, n) ==
    LET k == HowOften(pending, Record(s, r, n))
    IN  /\ CostOf(s) = target /\ Safe(target) /\ Done(r, n) => Enough(k, s)
        /\ CostOf(s) # target \/ ~Done(r, n) => k = 0

DiskInv ==
    pc # "new" =>
        \A s \in Seq(Rows), r \in Rows : \A n \in NumbersOf(r) : DiskHas(s, r, n)

PendingInv ==
    pc = "running" =>
        \A s \in Seq(Rows), r \in Rows : \A n \in NumbersOf(r) : PendingHas(s, r, n)

FilesInv == RunInv /\ FormInv /\ DiskInv /\ PendingInv

-----------------------------------------------------------------------------
(* Bags.                                                                   *)

\* The image of a finite set is finite.
LEMMA ImageFinite ==
    ASSUME NEW S, IsFiniteSet(S), NEW f
    PROVE  IsFiniteSet({f[x] : x \in S})
<1> DEFINE g == [x \in S |-> f[x]]
<1>1. g \in Surjection(S, {f[x] : x \in S})
  BY Fun_IsSurj
<1> QED
  BY <1>1, FS_Surjection

\* How often an element is in a bag.
LEMMA HowOftenNat ==
    ASSUME NEW B, IsBag(B), NEW p
    PROVE  HowOften(B, p) \in Nat /\ (HowOften(B, p) # 0 <=> p \in DOMAIN B)
BY DEF HowOften, IsBag

\* In the union of two bags an element is as often as in both together.
LEMMA BagOfBoth ==
    ASSUME NEW A, IsBag(A), NEW B, IsBag(B), NEW C, C = A (+) B
    PROVE  /\ IsBag(C)
           /\ DOMAIN C = DOMAIN A \cup DOMAIN B
           /\ \A p : HowOften(C, p) = HowOften(A, p) + HowOften(B, p)
<1>1. /\ DOMAIN C = DOMAIN A \cup DOMAIN B
      /\ \A p \in DOMAIN C : C[p] = HowOften(A, p) + HowOften(B, p)
  BY DEF (+), HowOften
<1>2. IsFiniteSet(DOMAIN C)
  <2>1. IsFiniteSet(DOMAIN A) /\ IsFiniteSet(DOMAIN B)
    BY DEF IsBag
  <2>2. IsFiniteSet(DOMAIN A \cup DOMAIN B)
    BY <2>1, FS_Union
  <2> QED
    BY <1>1, <2>2
<1>3. \A p \in DOMAIN C : C[p] \in Nat \ {0}
  <2> SUFFICES ASSUME NEW p \in DOMAIN C PROVE C[p] \in Nat \ {0}
    OBVIOUS
  <2>1. /\ HowOften(A, p) \in Nat /\ (HowOften(A, p) # 0 <=> p \in DOMAIN A)
        /\ HowOften(B, p) \in Nat /\ (HowOften(B, p) # 0 <=> p \in DOMAIN B)
    BY HowOftenNat
  <2> QED
    BY <1>1, <2>1
<1>4. ASSUME NEW p PROVE HowOften(C, p) = HowOften(A, p) + HowOften(B, p)
  <2>1. CASE p \in DOMAIN C
    BY <1>1, <2>1 DEF HowOften
  <2>2. CASE p \notin DOMAIN C
    BY <1>1, <2>2 DEF HowOften
  <2> QED
    BY <2>1, <2>2
<1>5. IsBag(C)
  BY <1>2, <1>3 DEF IsBag
<1> QED
  BY <1>1, <1>4, <1>5

\* What is left of a bag has no element more often.
LEMMA PartOfBag ==
    ASSUME NEW B, IsBag(B), NEW part \in Parts(B)
    PROVE  /\ IsBag(part)
           /\ DOMAIN part \subseteq DOMAIN B
           /\ \A p : HowOften(part, p) <= HowOften(B, p)
<1>1. PICK most, n : /\ n \in [DOMAIN B -> 0 .. most] /\ \A p \in DOMAIN B : n[p] <= B[p]
                     /\ part = [p \in {q \in DOMAIN B : n[q] > 0} |-> n[p]]
  BY DEF Parts
<1>2. DOMAIN part = {q \in DOMAIN B : n[q] > 0} /\ \A p \in DOMAIN part : part[p] = n[p]
  BY <1>1
<1>3. \A p \in DOMAIN B : n[p] \in Int /\ B[p] \in Nat \ {0}
  BY <1>1 DEF IsBag
<1>4. IsFiniteSet(DOMAIN part)
  BY <1>2, FS_Subset DEF IsBag
<1>5. IsBag(part)
  BY <1>2, <1>3, <1>4 DEF IsBag
<1>6. ASSUME NEW p PROVE HowOften(part, p) <= HowOften(B, p)
  <2>1. CASE p \in DOMAIN part
    BY <1>1, <1>2, <2>1 DEF HowOften
  <2>2. CASE p \notin DOMAIN part
    BY <1>3, <2>2 DEF HowOften
  <2> QED
    BY <2>1, <2>2
<1> QED
  BY <1>2, <1>5, <1>6

\* An empty bag has nothing.
LEMMA EmptyBagFacts ==
    ASSUME NEW B, DOMAIN B = {}
    PROVE  IsBag(B) /\ \A p : HowOften(B, p) = 0
BY FS_EmptySet DEF IsBag, HowOften

-----------------------------------------------------------------------------
(* What a pass over the file writes.                                       *)

Passing == /\ IInv /\ FilesInv
           /\ pc = "running" /\ row \in Rows
           /\ \A p \in Records : HasFile(p.ins)

\* An operand's numbers are less than its variants.
LEMMA NumbersOfRow ==
    \A r \in Rows, n \in Nat : n \in NumbersOf(r) <=> n < Table[r].variants
BY TableFacts DEF NumbersOf

\* They are natural numbers.
LEMMA NumbersNat ==
    \A r \in Rows : NumbersOf(r) \subseteq Nat
BY TableFacts DEF NumbersOf

\* What is written of a record: its rows and one more.
LEMMA OutputOf ==
    ASSUME Passing, NEW u \in Seq(Rows), NEW q \in Rows, NEW m \in NumbersOf(q),
           Record(u, q, m) \in Records
    PROVE  /\ CostOf(Append(u, q)) = target
           /\ Output(Record(u, q, m)) = Record(Append(u, q), row, variant)
<1>1. PICK p, a : p = Record(u, q, m) /\ a = Append(u, q)
  OBVIOUS
<1>2. m \in Nat /\ row \in Rows /\ variant \in Nat
  BY NumbersNat DEF Passing, IInv
<1>3. a \in Seq(Rows) /\ CostOf(a) = CostOf(u) + Table[q].cycles
  BY <1>1, AppendFacts, CostFacts
<1>4. p.file = CostOf(a) /\ p.ins = Rebuilt(a, m)
  BY <1>1, <1>3 DEF Record
<1>5. p.file = target /\ HasFile(p.ins)
  BY <1>1 DEF Records, Passing
<1>6. p.ins \in Seq(Instructions) /\ Cycles(p.ins) = CostOf(a)
  BY <1>2, <1>3, <1>4, RebuiltFacts, CostFacts
<1>7. /\ Extended(p.ins).cycles = CostOf(a) + Table[row].cycles
      /\ Extended(p.ins).ins = Append(Decode(p.ins).ins, instruction(row, variant))
  BY <1>2, <1>5, <1>6, ExtendedFits
<1>8. Decode(p.ins).ins = Rebuilt(a, 0)
  BY <1>2, <1>3, <1>4, DecodeRebuilt
<1>9. Append(Rebuilt(a, 0), instruction(row, variant)) = Rebuilt(Append(a, row), variant)
  BY <1>2, <1>3, RebuiltAppend
<1>10. Output(p) = Record(a, row, variant)
  BY <1>7, <1>8, <1>9 DEF Output, Record
<1> QED
  BY <1>1, <1>4, <1>5, <1>10

\* All that a run reads are extensions.
LEMMA RecordsForm ==
    ASSUME Passing, NEW p \in Records
    PROVE  \E u \in Seq(Rows), q \in Rows : \E m \in NumbersOf(q) : p = Record(u, q, m)
<1>1. p \in DOMAIN disk /\ p.file = target
  BY DEF Records, BagToSet
<1>2. target # 0
  BY TableAssumption DEF Passing, IInv, Targets
<1>3. p # [file |-> 0, ins |-> <<>>]
  BY <1>1, <1>2
<1> QED
  BY <1>1, <1>3 DEF Passing, FilesInv, FormInv, Extends

Read == UNION {{p} \X (1 .. disk[p]) : p \in Records}

\* Outputs counts what has been read of each output.
LEMMA OutputsAre ==
    Outputs = [q \in {Output(p) : p \in Records} |-> Cardinality({c \in Read : Output(c[1]) = q})]
BY DEF Outputs, Read

\* What is read, record by record and copy by copy.
LEMMA ReadFacts ==
    ASSUME IsBag(disk)
    PROVE  /\ IsFiniteSet(Records) /\ IsFiniteSet(Read)
           /\ \A p \in Records : disk[p] \in Nat \ {0}
           /\ \A p, i : <<p, i>> \in Read <=> p \in Records /\ i \in 1 .. disk[p]
           /\ \A c \in Read : \E p \in Records : \E i \in 1 .. disk[p] : c = <<p, i>>
<1>1. \A p \in Records : p \in DOMAIN disk /\ disk[p] \in Nat \ {0}
  BY DEF Records, BagToSet, IsBag
<1>2. IsFiniteSet(Records)
  <2>1. Records \subseteq DOMAIN disk /\ IsFiniteSet(DOMAIN disk)
    BY <1>1 DEF IsBag
  <2> QED
    BY <2>1, FS_Subset
<1> DEFINE of(p) == {p} \X (1 .. disk[p])
           f == [p \in Records |-> of(p)]
<1>3. \A p \in Records : IsFiniteSet(of(p))
  <2> SUFFICES ASSUME NEW p \in Records PROVE IsFiniteSet(of(p))
    OBVIOUS
  <2>1. PICK k \in Int : k = disk[p]
    BY <1>1
  <2>2. IsFiniteSet(1 .. k)
    BY FS_Interval
  <2>3. IsFiniteSet({p})
    BY FS_Singleton
  <2> QED
    BY <2>1, <2>2, <2>3, FS_Product
<1>4. IsFiniteSet({f[p] : p \in Records})
  <2> HIDE DEF f
  <2> QED
    BY <1>2, ImageFinite
<1>5. \A T \in {f[p] : p \in Records} : IsFiniteSet(T)
  BY <1>3
<1>6. IsFiniteSet(UNION {f[p] : p \in Records})
  <2>1. PICK S : S = {f[p] : p \in Records}
    OBVIOUS
  <2>2. IsFiniteSet(UNION S)
    BY <1>4, <1>5, <2>1, FS_UNION
  <2> QED
    BY <2>1, <2>2
<1>7. Read = UNION {f[p] : p \in Records}
  BY DEF Read
<1>8. \A p, i : <<p, i>> \in Read <=> p \in Records /\ i \in 1 .. disk[p]
  BY DEF Read
<1>9. \A c \in Read : \E p \in Records : \E i \in 1 .. disk[p] : c = <<p, i>>
  BY DEF Read
<1> QED
  BY <1>1, <1>2, <1>6, <1>7, <1>8, <1>9

\* A pass writes finitely much.
LEMMA OutputsBag ==
    ASSUME IsBag(disk)
    PROVE  IsBag(Outputs)
<1> DEFINE f == [p \in Records |-> Output(p)]
<1>1. IsFiniteSet({f[p] : p \in Records})
  <2> HIDE DEF f
  <2> QED
    BY ReadFacts, ImageFinite
<1>2. {f[p] : p \in Records} = {Output(p) : p \in Records}
  OBVIOUS
<1>3. IsFiniteSet(DOMAIN Outputs) /\ DOMAIN Outputs = {Output(p) : p \in Records}
  BY <1>1, <1>2, OutputsAre
<1>4. ASSUME NEW q \in DOMAIN Outputs PROVE Outputs[q] \in Nat \ {0}
  <2>1. PICK C : C = {c \in Read : Output(c[1]) = q}
    OBVIOUS
  <2>2. IsFiniteSet(C)
    <3>1. C \subseteq Read /\ IsFiniteSet(Read)
      BY <2>1, ReadFacts
    <3> QED
      BY <3>1, FS_Subset
  <2>3. PICK p \in Records : q = Output(p)
    BY <1>3
  <2>4. <<p, 1>> \in Read
    <3>1. disk[p] \in Nat \ {0}
      BY ReadFacts
    <3>2. 1 \in 1 .. disk[p]
      BY <3>1
    <3> QED
      BY <3>2, ReadFacts
  <2>5. <<p, 1>> \in C
    BY <2>1, <2>3, <2>4
  <2>6. Cardinality(C) \in Nat \ {0}
    BY <2>2, <2>5, FS_EmptySet, FS_CardinalityType
  <2>7. Outputs[q] = Cardinality(C)
    BY <1>3, <2>1, OutputsAre
  <2> QED
    BY <2>6, <2>7
<1> QED
  BY <1>3, <1>4 DEF IsBag

\* Only sequences that cost as much as the file's are extended, by this operand.
LEMMA OutputsOther ==
    ASSUME Passing, NEW s \in Seq(Rows), NEW r \in Rows, NEW n \in NumbersOf(r),
           HowOften(Outputs, Record(s, r, n)) # 0
    PROVE  CostOf(s) = target /\ r = row /\ n = variant
<1>1. Record(s, r, n) \in DOMAIN Outputs
  BY DEF HowOften
<1>2. PICK p \in Records : Record(s, r, n) = Output(p)
  BY <1>1, OutputsAre
<1>3. PICK u \in Seq(Rows), q \in Rows : \E m \in NumbersOf(q) : p = Record(u, q, m)
  BY RecordsForm
<1>4. PICK m \in NumbersOf(q) : p = Record(u, q, m)
  BY <1>3
<1>5. /\ CostOf(Append(u, q)) = target
      /\ Output(p) = Record(Append(u, q), row, variant)
  BY <1>4, OutputOf
<1>6. PICK a \in Seq(Rows) : a = Append(u, q)
  BY AppendFacts
<1>7. row \in Rows /\ variant \in Nat /\ n \in Nat
  BY NumbersNat DEF Passing, IInv
<1>8. Record(s, r, n) = Record(a, row, variant)
  BY <1>2, <1>5, <1>6
<1>9. s = a /\ r = row /\ n = variant
  BY <1>7, <1>8, RecordInjective
<1> QED
  BY <1>5, <1>6, <1>9

\* A smaller cost is safe too.
LEMMA SafeBelow ==
    ASSUME NEW t \in Nat, NEW d \in Nat, d <= t, Safe(t)
    PROVE  Safe(d)
BY TableFacts, TableAssumption DEF Safe

\* All that the file holds of a sequence, and how often.
LEMMA ReadOf ==
    ASSUME Passing, Safe(target), NEW u \in Seq(Rows), NEW q \in Rows,
           CostOf(Append(u, q)) = target
    PROVE  \A m \in NumbersOf(q) : /\ Record(u, q, m) \in Records
                                   /\ Enough(disk[Record(u, q, m)], u)
<1>1. PICK t \in Nat, d \in Nat \ {0} : t = CostOf(u) /\ d = Table[q].cycles
  BY CostFacts, TableFacts
<1>2. target = t + d /\ target \in Nat /\ target <= max_cost /\ max_cost \in Nat
  BY <1>1, CostFacts, TableAssumption DEF Passing, IInv, Targets
<1>3. Safe(t)
  BY <1>1, <1>2, SafeBelow
<1>4. SUFFICES ASSUME NEW m \in NumbersOf(q)
               PROVE  /\ Record(u, q, m) \in Records
                      /\ Enough(disk[Record(u, q, m)], u)
  OBVIOUS
<1>5. PICK k : k = HowOften(disk, Record(u, q, m))
  OBVIOUS
<1>6. pc # "new"
  BY DEF Passing
<1>7. DiskHas(u, q, m)
  BY <1>6 DEF Passing, FilesInv, DiskInv
<1>8. Enough(k, u)
  <2>1. CASE t = 0
    <3>1. k = 1
      BY <1>1, <1>5, <1>7, <2>1 DEF DiskHas
    <3>2. u = <<>>
      BY <1>1, <2>1, CostFacts
    <3> QED
      BY <3>1, <3>2, WeightFacts DEF Enough
  <2>2. CASE t # 0
    <3>1. t \in Targets /\ t < target
      BY <1>1, <1>2, <2>2 DEF Targets
    <3>2. t \in ended
      BY <3>1 DEF Passing, FilesInv, RunInv
    <3> QED
      BY <1>1, <1>3, <1>5, <1>7, <3>2 DEF DiskHas
  <2> QED
    BY <2>1, <2>2
<1>9. Weight(u) \in Nat \ {0}
  BY WeightFacts
<1>10. Record(u, q, m) \in DOMAIN disk /\ k = disk[Record(u, q, m)]
  BY <1>5, <1>8, <1>9 DEF HowOften, Enough
<1>11. Record(u, q, m).file = target
  BY <1>1, <1>2 DEF Record
<1> QED
  BY <1>8, <1>10, <1>11 DEF Records, BagToSet

\* Every sequence that costs as much as the file's is extended, once for each time
\* that its last operand and those before it have been numbered.
LEMMA OutputsThis ==
    ASSUME Passing, Safe(target), NEW s \in Seq(Rows), CostOf(s) = target
    PROVE  Enough(HowOften(Outputs, Record(s, row, variant)), s)
<1>1. target # 0
  BY TableAssumption DEF Passing, IInv, Targets
<1>2. PICK u \in Seq(Rows), q \in Rows : s = Append(u, q)
  BY <1>1, CostFacts, SequenceEmptyOrAppend
<1>3. PICK w, v : w = Weight(u) /\ w \in Nat \ {0} /\ v = Table[q].variants /\ v \in Nat \ {0}
  BY WeightFacts, TableFacts
<1>4. Weight(s) = w * v
  BY <1>2, <1>3, WeightFacts
<1>5. PICK K, J : K = 0 .. v - 1 /\ J = 1 .. w
  OBVIOUS
<1>6. K = NumbersOf(q)
  BY <1>3, <1>5 DEF NumbersOf
<1>7. PICK of : of = [m \in K |-> Record(u, q, m)]
  OBVIOUS
<1>8. PICK out : out = Record(s, row, variant)
  OBVIOUS
<1>9. ASSUME NEW m \in K
      PROVE  /\ of[m] \in Records /\ Enough(disk[of[m]], u)
             /\ Output(of[m]) = out
  <2>1. of[m] = Record(u, q, m) /\ m \in NumbersOf(q)
    BY <1>6, <1>7
  <2>2. CostOf(Append(u, q)) = target
    BY <1>2
  <2>3. Record(u, q, m) \in Records /\ Enough(disk[Record(u, q, m)], u)
    BY <2>1, <2>2, ReadOf
  <2>4. Output(Record(u, q, m)) = Record(Append(u, q), row, variant)
    BY <2>1, <2>3, OutputOf
  <2> QED
    BY <1>2, <1>8, <2>1, <2>3, <2>4
<1>10. PICK C : C = {c \in Read : Output(c[1]) = out}
  OBVIOUS
<1>11. IsBag(disk)
  BY DEF Passing, FilesInv, FormInv
<1>12. IsFiniteSet(C)
  <2>1. C \subseteq Read /\ IsFiniteSet(Read)
    BY <1>10, <1>11, ReadFacts
  <2> QED
    BY <2>1, FS_Subset
<1> DEFINE g == [c \in K \X J |-> <<of[c[1]], c[2]>>]
<1>13. \A m \in K, j \in J : g[<<m, j>>] = <<of[m], j>>
  OBVIOUS
<1>14. ASSUME NEW m \in K, NEW j \in J PROVE <<of[m], j>> \in C
  <2>1. /\ of[m] \in Records /\ Enough(disk[of[m]], u) /\ Output(of[m]) = out
    BY <1>9
  <2>2. disk[of[m]] \in Nat \ {0}
    BY <1>11, <2>1, ReadFacts
  <2>3. j \in 1 .. disk[of[m]]
    BY <1>3, <1>5, <2>1, <2>2 DEF Enough
  <2>4. <<of[m], j>> \in Read
    BY <1>11, <2>1, <2>3, ReadFacts
  <2> QED
    BY <1>10, <2>1, <2>4
<1>15. g \in [K \X J -> C]
  BY <1>14
<1>16. ASSUME NEW m \in K, NEW n \in K, of[m] = of[n] PROVE m = n
  <2>1. m \in Nat /\ n \in Nat /\ Record(u, q, m) = Record(u, q, n)
    BY <1>3, <1>5, <1>7, <1>16
  <2> QED
    BY <2>1, RecordInjective
<1>17. ASSUME NEW c \in K \X J, NEW d \in K \X J, g[c] = g[d] PROVE c = d
  <2>1. PICK m, j, n, i : /\ c = <<m, j>> /\ d = <<n, i>>
                          /\ m \in K /\ j \in J /\ n \in K /\ i \in J
    OBVIOUS
  <2>2. <<of[m], j>> = <<of[n], i>>
    BY <1>13, <1>17, <2>1
  <2> QED
    BY <1>16, <2>1, <2>2
<1>18. ASSUME kills = 0, NEW c \in C PROVE \E b \in K \X J : g[b] = c
  <2>1. c \in Read /\ Output(c[1]) = out
    BY <1>10
  <2>2. PICK p \in Records : \E i \in 1 .. disk[p] : c = <<p, i>>
    BY <1>11, <2>1, ReadFacts
  <2>3. PICK i \in 1 .. disk[p] : c = <<p, i>>
    BY <2>2
  <2>4. PICK x \in Seq(Rows), y \in Rows : \E m \in NumbersOf(y) : p = Record(x, y, m)
    BY RecordsForm
  <2>5. PICK m \in NumbersOf(y) : p = Record(x, y, m)
    BY <2>4
  <2>6. Output(p) = Record(Append(x, y), row, variant)
    BY <2>5, OutputOf
  <2>7. PICK a \in Seq(Rows) : a = Append(x, y)
    BY AppendFacts
  <2>8. Record(s, row, variant) = Record(a, row, variant)
    BY <1>8, <2>1, <2>3, <2>6, <2>7
  <2>9. row \in Rows /\ variant \in Nat
    BY DEF Passing, IInv
  <2>10. s = a
    BY <2>8, <2>9, RecordInjective
  <2>11. u = x /\ q = y
    <3>1. Append(u, q) = Append(x, y)
      BY <1>2, <2>7, <2>10
    <3>2. /\ u \in Seq(Rows) /\ x \in Seq(Rows) /\ q \in Rows /\ y \in Rows
      BY <1>2, <2>4
    <3> QED
      BY <3>1, <3>2, AppendInjective
  <2>12. m \in K /\ p = of[m]
    BY <1>6, <1>7, <2>5, <2>11
  <2>13. disk[p] = w
    BY <1>3, <1>9, <1>18, <2>12 DEF Enough
  <2>14. i \in J
    BY <1>5, <2>13
  <2>15. g[<<m, i>>] = c /\ <<m, i>> \in K \X J
    BY <1>13, <2>3, <2>12, <2>14
  <2> QED
    BY <2>15
<1> HIDE DEF g
<1>19. g \in Injection(K \X J, C)
  BY <1>15, <1>17, Fun_IsInj
<1>20. IsFiniteSet(K \X J) /\ Cardinality(K \X J) = w * v
  <2>1. PICK k \in Int : k = v - 1 /\ k >= 0
    BY <1>3
  <2>2. IsFiniteSet(0 .. k) /\ Cardinality(0 .. k) = k - 0 + 1
    BY <2>1, FS_Interval
  <2>3. IsFiniteSet(K) /\ Cardinality(K) = v
    BY <1>3, <1>5, <2>1, <2>2
  <2>4. IsFiniteSet(1 .. w) /\ Cardinality(1 .. w) = w - 1 + 1
    <3>1. w \in Int /\ 1 \in Int /\ ~(1 > w)
      BY <1>3
    <3> QED
      BY <3>1, FS_Interval
  <2>5. IsFiniteSet(J) /\ Cardinality(J) = w
    BY <1>3, <1>5, <2>4
  <2>6. IsFiniteSet(K \X J) /\ Cardinality(K \X J) = v * w
    BY <2>3, <2>5, FS_Product
  <2> QED
    BY <1>3, <2>6
<1>21. /\ Cardinality(K \X J) <= Cardinality(C)
       /\ Cardinality(K \X J) = Cardinality(C) <=> g \in Surjection(K \X J, C)
  BY <1>12, <1>19, FS_Injection
<1>22. kills = 0 => Cardinality(K \X J) = Cardinality(C)
  <2> SUFFICES ASSUME kills = 0 PROVE Cardinality(K \X J) = Cardinality(C)
    OBVIOUS
  <2>1. g \in Surjection(K \X J, C)
    BY <1>15, <1>18, Fun_IsSurj
  <2> QED
    BY <1>21, <2>1
<1>23. HowOften(Outputs, out) = Cardinality(C)
  <2>1. 0 \in K
    BY <1>3, <1>5
  <2>2. of[0] \in Records /\ Output(of[0]) = out
    BY <1>9, <2>1
  <2>3. out \in DOMAIN Outputs /\ Outputs[out] = Cardinality(C)
    BY <1>10, <2>2, OutputsAre
  <2> QED
    BY <2>3 DEF HowOften
<1> QED
  BY <1>4, <1>8, <1>20, <1>21, <1>22, <1>23 DEF Enough

-----------------------------------------------------------------------------
(* Every step keeps the files complete.                                    *)

\* The empty bag is empty.
LEMMA NoBag ==
    DOMAIN EmptyBag = {}
BY DEF EmptyBag, SetToBag

\* At first nothing is asked of the files.
LEMMA InitFiles == Init => FilesInv
<1> SUFFICES ASSUME Init PROVE FilesInv
  OBVIOUS
<1>1. RunInv
  <2>1. Len(Table) \in Nat /\ 1 \in 1 .. Len(Table) + 1
    BY TableFacts
  <2>2. 1 \in Rows => 0 < Table[1].variants
    BY TableFacts
  <2> QED
    BY <2>1, <2>2, NoBag, TableFacts DEF Init, RunInv
<1>2. FormInv
  BY NoBag, EmptyBagFacts DEF Init, FormInv
<1> QED
  BY <1>1, <1>2 DEF Init, FilesInv, DiskInv, PendingInv

\* The empty sequence of rows is rebuilt as the empty sequence.
LEMMA RebuiltNone == Rebuilt(<<>>, 0) = <<>> /\ <<>> \in Seq(Rows)
<1>1. PICK z : z = Rebuilt(<<>>, 0)
  OBVIOUS
<1>2. <<>> \in Seq(Rows) /\ Len(<<>>) = 0
  OBVIOUS
<1>3. z \in Seq(Instructions) /\ Len(z) = 0
  BY <1>1, <1>2, RebuiltFacts
<1>4. z = <<>>
  BY <1>3
<1> QED
  BY <1>1, <1>2, <1>4

\* The single instructions extend the empty sequence.
LEMMA SinglesAre ==
    /\ \A p \in Singles : \E r \in Rows : \E n \in NumbersOf(r) : p = Record(<<>>, r, n)
    /\ \A r \in Rows : \A n \in NumbersOf(r) : Record(<<>>, r, n) \in Singles
    /\ IsFiniteSet(Singles)
<1>1. ASSUME NEW r \in Rows, NEW n \in NumbersOf(r)
      PROVE  [file |-> Table[r].cycles, ins |-> <<instruction(r, n)>>] = Record(<<>>, r, n)
  <2>1. n \in Nat /\ Table[r].cycles \in Nat
    BY NumbersNat, TableFacts
  <2>2. PICK x : x = instruction(r, n)
    OBVIOUS
  <2>3. Rebuilt(Append(<<>>, r), n) = Append(<<>>, x)
    BY <2>1, <2>2, RebuiltNone, RebuiltAppend
  <2>4. Append(<<>>, x) = <<x>>
    OBVIOUS
  <2>5. CostOf(<<>>) = 0
    BY RebuiltNone, CostFacts
  <2> QED
    BY <2>1, <2>2, <2>3, <2>4, <2>5 DEF Record
<1> DEFINE single(r, n) == [file |-> Table[r].cycles, ins |-> <<instruction(r, n)>>]
           of(r) == {single(r, n) : n \in NumbersOf(r)}
           f == [r \in Rows |-> of(r)]
<1>2. Singles = UNION {f[r] : r \in Rows}
  BY DEF Singles, NumbersOf
<1>3. ASSUME NEW r \in Rows PROVE IsFiniteSet(of(r))
  <2> DEFINE g == [n \in NumbersOf(r) |-> single(r, n)]
  <2>1. PICK k \in Int : k = Table[r].variants - 1
    BY TableFacts
  <2>2. IsFiniteSet(0 .. k)
    BY FS_Interval
  <2>3. IsFiniteSet(NumbersOf(r))
    BY <2>1, <2>2 DEF NumbersOf
  <2>4. of(r) = {g[n] : n \in NumbersOf(r)}
    OBVIOUS
  <2>5. IsFiniteSet({g[n] : n \in NumbersOf(r)})
    <3> HIDE DEF g
    <3> QED
      BY <2>3, ImageFinite
  <2> QED
    BY <2>4, <2>5
<1>4. IsFiniteSet(Singles)
  <2>1. IsFiniteSet(Rows)
    <3>1. PICK len \in Int : len = Len(Table) /\ Rows = 1 .. len
      BY TableFacts
    <3> QED
      BY <3>1, FS_Interval
  <2>2. PICK S : S = {f[r] : r \in Rows}
    OBVIOUS
  <2>3. IsFiniteSet(S)
    <3> HIDE DEF f
    <3> QED
      BY <2>1, <2>2, ImageFinite
  <2>4. \A T \in S : IsFiniteSet(T)
    BY <1>3, <2>2
  <2>5. IsFiniteSet(UNION S)
    BY <2>3, <2>4, FS_UNION
  <2> QED
    BY <1>2, <2>2, <2>5
<1>5. ASSUME NEW p \in Singles
      PROVE  \E r \in Rows : \E n \in NumbersOf(r) : p = Record(<<>>, r, n)
  <2>1. PICK r \in Rows : p \in of(r)
    BY DEF Singles, NumbersOf
  <2>2. PICK n \in NumbersOf(r) : p = single(r, n)
    BY <2>1
  <2> QED
    BY <1>1, <2>2
<1>6. ASSUME NEW r \in Rows, NEW n \in NumbersOf(r) PROVE Record(<<>>, r, n) \in Singles
  <2>1. single(r, n) \in Singles
    BY DEF Singles, NumbersOf
  <2> QED
    BY <1>1, <2>1
<1> QED
  BY <1>4, <1>5, <1>6

\* The command "init" leaves every single instruction once.
LEMMA InitializeFiles ==
    ASSUME FilesInv, Initialize
    PROVE  FilesInv'
<1>1. PICK none, S : none = [file |-> 0, ins |-> <<>>] /\ S = {none} \cup Singles
  OBVIOUS
<1>2. disk' = [p \in S |-> 1]
  BY <1>1 DEF Initialize, SetToBag
<1>3. RunInv'
  BY DEF FilesInv, RunInv, Initialize
<1>4. IsBag(disk')
  <2>1. IsFiniteSet({none})
    BY FS_Singleton
  <2>2. IsFiniteSet(S)
    BY <1>1, <2>1, SinglesAre, FS_Union
  <2> QED
    BY <1>2, <2>2 DEF IsBag
<1>5. \A p \in Singles : Extends(p)
  BY SinglesAre, RebuiltNone DEF Extends
<1>6. FormInv'
  <2>1. IsBag(pending') /\ \A p \in DOMAIN pending' : Extends(p)
    BY DEF FilesInv, FormInv, Initialize
  <2>2. \A p \in DOMAIN disk' : p = [file |-> 0, ins |-> <<>>] \/ Extends(p)
    BY <1>1, <1>2, <1>5
  <2> QED
    BY <1>4, <2>1, <2>2 DEF FormInv
<1>7. ASSUME NEW s \in Seq(Rows), NEW r \in Rows, NEW n \in NumbersOf(r)
      PROVE  DiskHas(s, r, n)'
  <2>1. PICK k, c, p : /\ k = HowOften(disk', Record(s, r, n)) /\ c = CostOf(s)
                       /\ p = Record(s, r, n)
    OBVIOUS
  <2>2. c \in Nat /\ Table[r].cycles \in Nat \ {0} /\ n \in Nat
    BY <2>1, CostFacts, TableFacts, NumbersNat
  <2>3. k = IF p \in S THEN 1 ELSE 0
    BY <1>2, <2>1 DEF HowOften
  <2>4. c = 0 => p \in Singles
    <3>1. c = 0 => s = <<>>
      BY <2>1, CostFacts
    <3> QED
      BY <2>1, <3>1, SinglesAre
  <2>5. p # none
    BY <1>1, <2>1, <2>2 DEF Record
  <2>6. ASSUME c # 0 PROVE p \notin Singles
    <3> SUFFICES ASSUME p \in Singles PROVE FALSE
      OBVIOUS
    <3>1. PICK q \in Rows : \E m \in NumbersOf(q) : p = Record(<<>>, q, m)
      BY SinglesAre
    <3>2. PICK m \in NumbersOf(q) : p = Record(<<>>, q, m)
      BY <3>1
    <3>3. PICK u \in Seq(Rows) : u = <<>>
      BY RebuiltNone
    <3>4. m \in Nat /\ Record(s, r, n) = Record(u, q, m)
      BY <2>1, <3>2, <3>3, NumbersNat
    <3>5. s = u
      BY <2>2, <3>4, RecordInjective
    <3> QED
      BY <2>1, <2>6, <3>3, <3>5, CostFacts
  <2>7. (c = 0 => k = 1) /\ (c # 0 => k = 0)
    BY <1>1, <2>3, <2>4, <2>5, <2>6
  <2>8. ended' = {}
    BY DEF Initialize, FilesInv, RunInv
  <2> QED
    BY <2>1, <2>7, <2>8 DEF DiskHas
<1>8. DiskInv'
  BY <1>7 DEF DiskInv
<1>9. PendingInv'
  BY DEF PendingInv, Initialize
<1> QED
  BY <1>3, <1>6, <1>8, <1>9 DEF FilesInv

\* A run starts on the smallest target that is left, with nothing written.
LEMMA StartFiles ==
    ASSUME IInv, FilesInv, Start
    PROVE  FilesInv'
<1>1. /\ target' \in Targets \ ended
      /\ \A d \in Targets : d < target' => d \in ended
  <2>1. Targets \ ended \subseteq Nat /\ Targets \ ended # {}
    BY TableAssumption DEF Start, Targets
  <2>2. \E m \in Targets \ ended : \A n \in Targets \ ended : m <= n
    BY <2>1, Least
  <2>3. target' \in Targets \ ended /\ \A n \in Targets \ ended : target' <= n
    BY <2>2 DEF Start, Min
  <2> QED
    BY <2>1, <2>3
<1>2. DOMAIN pending' = {}
  BY NoBag DEF Start
<1>3. RunInv'
  <2>1. Len(Table) \in Nat /\ 1 \in 1 .. Len(Table) + 1
    BY TableFacts
  <2>2. 1 \in Rows => 0 < Table[1].variants
    BY TableFacts
  <2> QED
    BY <1>1, <2>1, <2>2 DEF FilesInv, RunInv, Start
<1>4. FormInv'
  BY <1>2, EmptyBagFacts DEF FilesInv, FormInv, Start
<1>5. DiskInv'
  <2>1. ASSUME NEW s \in Seq(Rows), NEW r \in Rows, NEW n \in NumbersOf(r)
        PROVE  DiskHas(s, r, n)'
    <3>1. DiskHas(s, r, n)
      BY DEF FilesInv, DiskInv, Start
    <3> QED
      BY <3>1 DEF DiskHas, Start, Enough
  <2> QED
    BY <2>1 DEF DiskInv
<1>6. PendingInv'
  <2>1. ASSUME NEW s \in Seq(Rows), NEW r \in Rows, NEW n \in NumbersOf(r)
        PROVE  PendingHas(s, r, n)'
    <3>1. HowOften(pending', Record(s, r, n)) = 0
      BY <1>2, EmptyBagFacts
    <3>2. ~(Done(r, n)')
      <4>1. r \in Nat \ {0} /\ n \in Nat
        BY TableFacts, NumbersNat
      <4> QED
        BY <4>1 DEF Done, Start
    <3> QED
      BY <3>1, <3>2 DEF PendingHas
  <2> QED
    BY <2>1 DEF PendingInv
<1> QED
  BY <1>3, <1>4, <1>5, <1>6 DEF FilesInv

\* A pass is done with its instruction, and with no other.
LEMMA WhatIsDone ==
    ASSUME IInv, RunInv, Pass, NEW r \in Rows, NEW n \in NumbersOf(r)
    PROVE  /\ Done(r, n)' <=> Done(r, n) \/ (r = row /\ n = variant)
           /\ ~(Done(r, n) /\ r = row /\ n = variant)
<1>1. r \in Nat /\ n \in Nat /\ row \in Nat /\ variant \in Nat /\ row \in Rows
  BY TableFacts, NumbersNat DEF IInv, Pass
<1>2. n < Table[r].variants /\ Table[r].variants \in Nat
  BY <1>1, NumbersOfRow, TableFacts
<1>3. CASE variant + 1 < Table[row].variants
  <2>1. variant' = variant + 1 /\ row' = row
    BY <1>3 DEF Pass
  <2> QED
    BY <1>1, <2>1 DEF Done
<1>4. CASE ~(variant + 1 < Table[row].variants)
  <2>1. variant' = 0 /\ row' = row + 1
    BY <1>4 DEF Pass
  <2>2. r = row => n <= variant
    BY <1>1, <1>2, <1>4
  <2> QED
    BY <1>1, <2>1, <2>2 DEF Done
<1> QED
  BY <1>3, <1>4

\* A pass writes what it has to of its instruction, and nothing of another.
LEMMA PassFiles ==
    ASSUME IInv, FilesInv, Pass
    PROVE  FilesInv'
<1>1. Passing
  BY DEF Passing, Pass
<1>2. IsBag(disk) /\ IsBag(pending)
  BY DEF FilesInv, FormInv
<1>3. IsBag(Outputs)
  BY <1>2, OutputsBag
<1>4. /\ IsBag(pending')
      /\ DOMAIN pending' = DOMAIN pending \cup DOMAIN Outputs
      /\ \A p : HowOften(pending', p) = HowOften(pending, p) + HowOften(Outputs, p)
  <2>1. PICK more : more = Outputs
    OBVIOUS
  <2>2. pending' = pending (+) more /\ IsBag(more)
    BY <1>3, <2>1 DEF Pass
  <2>3. /\ IsBag(pending')
        /\ DOMAIN pending' = DOMAIN pending \cup DOMAIN more
        /\ \A p : HowOften(pending', p) = HowOften(pending, p) + HowOften(more, p)
    <3>1. PICK A, C : A = pending /\ C = pending' /\ IsBag(A) /\ C = A (+) more
      BY <1>2, <2>2
    <3>2. /\ IsBag(C)
          /\ DOMAIN C = DOMAIN A \cup DOMAIN more
          /\ \A p : HowOften(C, p) = HowOften(A, p) + HowOften(more, p)
      BY <2>2, <3>1, BagOfBoth
    <3> QED
      BY <3>1, <3>2
  <2> QED
    BY <2>1, <2>3
<1>5. RunInv'
  <2>1. row \in Nat /\ variant \in Nat /\ row \in 1 .. Len(Table) /\ Len(Table) \in Nat
    BY TableFacts DEF IInv, Pass
  <2>2. row' \in 1 .. Len(Table) + 1 /\ variant' \in Nat
    BY <2>1 DEF Pass
  <2>3. row' \in Rows => variant' < Table[row'].variants
    <3>1. CASE variant + 1 < Table[row].variants
      BY <3>1 DEF Pass
    <3>2. CASE ~(variant + 1 < Table[row].variants)
      <4>1. variant' = 0
        BY <3>2 DEF Pass
      <4> QED
        BY <4>1, TableFacts
    <3> QED
      BY <3>1, <3>2
  <2> QED
    BY <2>2, <2>3 DEF FilesInv, RunInv, Pass
<1>6. FormInv'
  <2>1. ASSUME NEW p \in DOMAIN Outputs PROVE Extends(p)
    <3>1. PICK c \in Records : p = Output(c)
      BY OutputsAre
    <3>2. PICK u \in Seq(Rows), q \in Rows : \E m \in NumbersOf(q) : c = Record(u, q, m)
      BY <1>1, RecordsForm
    <3>3. PICK m \in NumbersOf(q) : c = Record(u, q, m)
      BY <3>2
    <3>4. p = Record(Append(u, q), row, variant)
      BY <1>1, <3>1, <3>3, OutputOf
    <3>5. Append(u, q) \in Seq(Rows)
      BY AppendFacts
    <3>6. row \in Rows /\ variant \in NumbersOf(row)
      BY <1>1, NumbersOfRow DEF Passing, IInv, FilesInv, RunInv
    <3> QED
      BY <3>4, <3>5, <3>6 DEF Extends
  <2> QED
    BY <1>4, <2>1 DEF FilesInv, FormInv, Pass
<1>7. DiskInv'
  <2>1. ASSUME NEW s \in Seq(Rows), NEW r \in Rows, NEW n \in NumbersOf(r)
        PROVE  DiskHas(s, r, n)'
    <3>1. DiskHas(s, r, n)
      BY DEF FilesInv, DiskInv, Pass
    <3> QED
      BY <3>1 DEF DiskHas, Pass, Enough
  <2> QED
    BY <2>1 DEF DiskInv
<1>8. ASSUME NEW s \in Seq(Rows), NEW r \in Rows, NEW n \in NumbersOf(r)
      PROVE  PendingHas(s, r, n)'
  <2>1. PICK p, k, o, w : /\ p = Record(s, r, n)
                          /\ k = HowOften(pending, p) /\ o = HowOften(Outputs, p)
                          /\ w = Weight(s)
    OBVIOUS
  <2>2. k \in Nat /\ o \in Nat
    BY <1>2, <1>3, <2>1, HowOftenNat
  <2>3. HowOften(pending', p) = k + o
    BY <1>4, <2>1
  <2>4. PendingHas(s, r, n)
    BY <1>1 DEF Passing, FilesInv, PendingInv
  <2>5. /\ Done(r, n)' <=> Done(r, n) \/ (r = row /\ n = variant)
        /\ ~(Done(r, n) /\ r = row /\ n = variant)
    BY WhatIsDone DEF FilesInv
  <2>6. o # 0 => CostOf(s) = target /\ r = row /\ n = variant
    BY <1>1, <2>1, OutputsOther
  <2>7. target' = target /\ kills' = kills
    BY DEF Pass
  <2>8. CASE r = row /\ n = variant
    <3>1. ~Done(r, n)
      BY <2>5, <2>8
    <3>2. k = 0
      BY <2>1, <2>4, <3>1 DEF PendingHas
    <3>3. HowOften(pending', p) = o
      BY <2>2, <2>3, <3>2
    <3>4. CostOf(s) = target /\ Safe(target) => Enough(o, s)
      BY <1>1, <2>1, <2>8, OutputsThis
    <3>5. CostOf(s) # target => o = 0
      BY <2>6
    <3>6. Done(r, n)'
      BY <2>5, <2>8
    <3> QED
      BY <2>1, <2>7, <3>3, <3>4, <3>5, <3>6 DEF PendingHas, Enough
  <2>9. CASE ~(r = row /\ n = variant)
    <3>1. o = 0
      BY <2>6, <2>9
    <3>2. HowOften(pending', p) = k
      BY <2>2, <2>3, <3>1
    <3>3. Done(r, n)' <=> Done(r, n)
      BY <2>5, <2>9
    <3> QED
      BY <2>1, <2>4, <2>7, <3>2, <3>3 DEF PendingHas, Enough
  <2> QED
    BY <2>8, <2>9
<1>9. PendingInv'
  BY <1>8 DEF PendingInv
<1> QED
  BY <1>5, <1>6, <1>7, <1>9 DEF FilesInv

\* What the process leaves when it ends: its file is complete, or is one of which
\* nothing is asked, or it was killed.
LEMMA CloseFiles ==
    ASSUME IInv, FilesInv, pc = "running", NEW written, Close(written),
           IsBag(written), DOMAIN written \subseteq DOMAIN pending,
           \A p : HowOften(written, p) <= HowOften(pending, p),
           \/ /\ row \notin Rows /\ written = pending
              /\ ended' = ended \cup {target} /\ kills' = kills
           \/ ~Safe(target) /\ ended' = ended \cup {target} /\ kills' = kills
           \/ ended' = ended /\ kills' = kills + 1
    PROVE  FilesInv'
<1>1. IsBag(disk) /\ IsBag(pending)
  BY DEF FilesInv, FormInv
<1>2. /\ IsBag(disk')
      /\ DOMAIN disk' = DOMAIN disk \cup DOMAIN written
      /\ \A p : HowOften(disk', p) = HowOften(disk, p) + HowOften(written, p)
  <2>1. disk' = disk (+) written
    BY DEF Close
  <2> QED
    BY <1>1, <2>1, BagOfBoth
<1>3. DOMAIN pending' = {} /\ pc' = "idle" /\ row' = row /\ variant' = variant
  BY NoBag DEF Close
<1>4. kills \in Nat
  BY DEF FilesInv, RunInv
<1>5. target \in Targets \ ended
  BY DEF FilesInv, RunInv
<1>6. RunInv'
  <2>1. kills' \in Nat
    BY <1>4
  <2>2. ended' \subseteq Targets
    BY <1>5 DEF FilesInv, RunInv
  <2>3. \A c \in ended', d \in Targets : d < c => d \in ended'
    BY DEF FilesInv, RunInv
  <2>4. /\ row' \in 1 .. Len(Table) + 1 /\ variant' \in Nat
        /\ row' \in Rows => variant' < Table[row'].variants
    BY <1>3 DEF FilesInv, RunInv
  <2> QED
    BY <1>3, <2>1, <2>2, <2>3, <2>4 DEF RunInv
<1>7. FormInv'
  <2>1. \A p \in DOMAIN disk' : p = [file |-> 0, ins |-> <<>>] \/ Extends(p)
    BY <1>2 DEF FilesInv, FormInv
  <2>2. IsBag(pending') /\ \A p \in DOMAIN pending' : Extends(p)
    BY <1>3, EmptyBagFacts
  <2> QED
    BY <1>2, <2>1, <2>2 DEF FormInv
<1>8. ASSUME NEW s \in Seq(Rows), NEW r \in Rows, NEW n \in NumbersOf(r)
      PROVE  DiskHas(s, r, n)'
  <2>1. PICK p, k, h, c : /\ p = Record(s, r, n) /\ c = CostOf(s)
                          /\ k = HowOften(disk, p) /\ h = HowOften(written, p)
    OBVIOUS
  <2>2. k \in Nat /\ h \in Nat
    BY <1>1, <2>1, HowOftenNat
  <2>3. HowOften(disk', p) = k + h
    BY <1>2, <2>1
  <2>4. DiskHas(s, r, n) /\ PendingHas(s, r, n)
    BY DEF FilesInv, DiskInv, PendingInv
  <2>5. Weight(s) \in Nat \ {0}
    BY WeightFacts
  <2>6. c \in Nat /\ target # 0
    BY <1>5, <2>1, CostFacts, TableAssumption DEF Targets
  <2>7. c # target => h = 0
    <3>1. ASSUME c # target PROVE HowOften(pending, p) = 0
      BY <2>1, <2>4, <3>1 DEF PendingHas
    <3>2. h <= HowOften(pending, p)
      BY <2>1
    <3> QED
      BY <2>2, <3>1, <3>2
  <2>8. CASE c # target
    <3>1. h = 0 /\ HowOften(disk', p) = k
      BY <2>2, <2>3, <2>7, <2>8
    <3>2. c \in ended' <=> c \in ended
      BY <2>8
    <3>3. c = 0 => k = 1
      BY <2>1, <2>4 DEF DiskHas
    <3>4. c \in ended' /\ Safe(c) => k >= Weight(s) /\ (kills' = 0 => k = Weight(s))
      <4>1. c \in ended /\ Safe(c) => k >= Weight(s) /\ (kills = 0 => k = Weight(s))
        BY <2>1, <2>4 DEF DiskHas, Enough
      <4>2. kills' = 0 => kills = 0
        BY <1>4
      <4> QED
        BY <3>2, <4>1, <4>2
    <3>5. c # 0 /\ c \notin ended' /\ kills' = 0 => k = 0
      <4>1. c # 0 /\ c \notin ended /\ kills = 0 => k = 0
        BY <2>1, <2>4 DEF DiskHas
      <4>2. kills' = 0 => kills = 0
        BY <1>4
      <4> QED
        BY <3>2, <4>1, <4>2
    <3> QED
      BY <2>1, <3>1, <3>3, <3>4, <3>5 DEF DiskHas, Enough
  <2>9. CASE c = target
    <3>1. c # 0 /\ c \notin ended
      BY <1>5, <2>6, <2>9
    <3>2. kills = 0 => k = 0
      BY <2>1, <2>4, <3>1 DEF DiskHas
    <3>3. CASE /\ row \notin Rows /\ written = pending
               /\ ended' = ended \cup {target} /\ kills' = kills
      <4>1. Done(r, n)
        <5>1. row \in 1 .. Len(Table) + 1 /\ Rows = 1 .. Len(Table) /\ Len(Table) \in Nat
          BY TableFacts DEF FilesInv, RunInv
        <5>2. r < row
          BY <3>3, <5>1
        <5> QED
          BY <5>2 DEF Done
      <4>2. Safe(target) => h >= Weight(s) /\ (kills = 0 => h = Weight(s))
        BY <2>1, <2>4, <2>9, <3>3, <4>1 DEF PendingHas, Enough
      <4>3. Safe(c) => k + h >= Weight(s) /\ (kills' = 0 => k + h = Weight(s))
        BY <2>2, <2>5, <2>9, <3>2, <3>3, <4>2
      <4>4. c \in ended'
        BY <2>9, <3>3
      <4> QED
        BY <2>1, <2>3, <3>1, <4>3, <4>4 DEF DiskHas, Enough
    <3>4. CASE ~Safe(target) /\ ended' = ended \cup {target} /\ kills' = kills
      BY <2>1, <2>9, <3>1, <3>4 DEF DiskHas
    <3>5. CASE ended' = ended /\ kills' = kills + 1
      <4>1. kills' # 0
        BY <1>4, <3>5
      <4> QED
        BY <2>1, <3>1, <3>5, <4>1 DEF DiskHas
    <3> QED
      BY <3>3, <3>4, <3>5
  <2> QED
    BY <2>8, <2>9
<1>9. DiskInv'
  BY <1>8 DEF DiskInv
<1>10. PendingInv'
  BY <1>3 DEF PendingInv
<1> QED
  BY <1>6, <1>7, <1>9, <1>10 DEF FilesInv

\* A run that comes to its end has written all.
LEMMA FinishFiles ==
    ASSUME IInv, FilesInv, Finish
    PROVE  FilesInv'
<1>1. IsBag(pending)
  BY DEF FilesInv, FormInv
<1>2. \A p : HowOften(pending, p) <= HowOften(pending, p)
  BY <1>1, HowOftenNat
<1>3. /\ pc = "running" /\ row \notin Rows /\ Close(pending)
      /\ ended' = ended \cup {target} /\ kills' = kills
  BY DEF Finish
<1> QED
  BY <1>1, <1>2, <1>3, CloseFiles

\* A run that comes upon a cost without a file reads a cost to which nothing is to
\* be added safely.
LEMMA AbortFiles ==
    ASSUME IInv, FilesInv, Abort
    PROVE  FilesInv'
<1>1. PICK p \in Records : ~HasFile(p.ins)
  BY DEF Abort
<1>2. p.ins \in Seq(Instructions) /\ Cycles(p.ins) = target
  BY DEF Records, BagToSet, IInv, Filed
<1>3. Extended(p.ins).cycles = target + Table[row].cycles
  <2>1. Decode(p.ins).cycles = target
    BY <1>2, Decoded
  <2> QED
    BY <2>1, InstructionFacts DEF Extended, Add
<1>4. ~Safe(target)
  BY <1>1, <1>3 DEF Safe, HasFile, Abort
<1>5. PICK written \in Parts(pending) : Close(written)
  BY DEF Abort
<1>6. /\ IsBag(written) /\ DOMAIN written \subseteq DOMAIN pending
      /\ \A q : HowOften(written, q) <= HowOften(pending, q)
  BY PartOfBag DEF FilesInv, FormInv
<1>7. pc = "running" /\ ended' = ended \cup {target} /\ kills' = kills
  BY DEF Abort
<1> QED
  BY <1>4, <1>5, <1>6, <1>7, CloseFiles

\* A run that is killed takes nothing away that was in the files.
LEMMA KillFiles ==
    ASSUME IInv, FilesInv, Kill
    PROVE  FilesInv'
<1>1. PICK written \in Parts(pending) : Close(written)
  BY DEF Kill
<1>2. /\ IsBag(written) /\ DOMAIN written \subseteq DOMAIN pending
      /\ \A q : HowOften(written, q) <= HowOften(pending, q)
  BY PartOfBag DEF FilesInv, FormInv
<1>3. pc = "running" /\ ended' = ended /\ kills' = kills + 1
  BY DEF Kill
<1> QED
  BY <1>1, <1>2, <1>3, CloseFiles

\* The files are complete in every state.
THEOREM Complete == Spec => []FilesInv
<1>1. IInv /\ FilesInv /\ [Next]_vars => FilesInv'
  <2> SUFFICES ASSUME IInv, FilesInv, [Next]_vars PROVE FilesInv'
    OBVIOUS
  <2>1. CASE Initialize
    BY <2>1, InitializeFiles
  <2>2. CASE Start
    BY <2>2, StartFiles
  <2>3. CASE Pass
    BY <2>3, PassFiles
  <2>4. CASE Finish
    BY <2>4, FinishFiles
  <2>5. CASE Abort
    BY <2>5, AbortFiles
  <2>6. CASE Kill
    BY <2>6, KillFiles
  <2>7. CASE UNCHANGED vars
    BY <2>7 DEF vars, FilesInv, RunInv, FormInv, DiskInv, PendingInv, DiskHas, PendingHas,
                Enough, Done
  <2> QED
    BY <2>1, <2>2, <2>3, <2>4, <2>5, <2>6, <2>7 DEF Next
<1> QED
  BY <1>1, InitFiles, Invariant, PTL DEF Spec

-----------------------------------------------------------------------------
(* What that says of a cost whose predecessors have been run.              *)

\* The last row of a sequence, and the others.
LEMMA LastAndFront ==
    ASSUME NEW u \in Seq(Rows), NEW q \in Rows
    PROVE  Last(Append(u, q)) = q /\ Front(Append(u, q)) = u
<1>1. PICK a, len : a = Append(u, q) /\ len = Len(u)
  OBVIOUS
<1>2. /\ len \in Nat /\ u \in [1 .. len -> Rows]
      /\ a \in Seq(Rows) /\ Len(a) = len + 1
      /\ \A i \in 1 .. len : a[i] = u[i]
      /\ a[len + 1] = q
  BY <1>1, AppendFacts, ShapeFacts, LenProperties
<1>3. Last(a) = q
  BY <1>2 DEF Last
<1>4. Front(a) = SubSeq(a, 1, len)
  BY <1>2 DEF Front
<1>5. SubSeq(a, 1, len) = [i \in 1 .. len |-> a[i]]
  BY <1>2
<1>6. u = [i \in 1 .. len |-> u[i]]
  BY <1>2
<1>7. [i \in 1 .. len |-> a[i]] = [i \in 1 .. len |-> u[i]]
  BY <1>2
<1> QED
  BY <1>1, <1>3, <1>4, <1>5, <1>6, <1>7

\* All sequences of rows that have a file fit into the slots.
LEMMA ShapesFit ==
    ASSUME NEW c \in 0 .. max_cost, NEW s
    PROVE  s \in ShapesOf(c) <=> s \in Seq(Rows) /\ CostOf(s) = c
<1>1. Slots \in Nat \ {0} /\ max_cost \in Nat
  BY TableAssumption, CostAssumption
<1>2. ASSUME s \in ShapesOf(c) PROVE s \in Seq(Rows) /\ CostOf(s) = c
  <2>1. s \in SeqOf(Rows, Slots) /\ Cycles(Rebuilt(s, 0)) = c
    BY <1>2 DEF ShapesOf
  <2>2. PICK m \in 0 .. Slots : s \in [1 .. m -> Rows]
    BY <2>1 DEF SeqOf
  <2>3. s \in Seq(Rows)
    BY <1>1, <2>2, SeqDef
  <2> QED
    BY <2>1, <2>3 DEF CostOf
<1>3. ASSUME s \in Seq(Rows), CostOf(s) = c PROVE s \in ShapesOf(c)
  <2>1. PICK len, t : /\ len \in Nat /\ len = Len(s) /\ t = Rebuilt(s, 0)
                      /\ s \in [1 .. len -> Rows]
    BY <1>3, LenProperties
  <2>2. t \in Seq(Instructions) /\ Len(t) = len /\ Cycles(t) = c
    BY <1>3, <2>1, RebuiltFacts DEF CostOf
  <2>3. PICK m \in Nat : (\A r \in Rows : m <= Table[r].cycles) /\ max_cost < (Slots + 1) * m
    BY Cheapest
  <2>4. len * m <= c
    BY <2>2, <2>3, CyclesAtLeast
  <2>5. len * m < (Slots + 1) * m
    <3>1. PICK a \in Nat, b \in Nat : a = len * m /\ b = (Slots + 1) * m
      BY <1>1, <2>1, <2>3
    <3>2. a < b
      BY <1>1, <2>3, <2>4, <3>1
    <3> QED
      BY <3>1, <3>2
  <2>6. len < Slots + 1
    BY <1>1, <2>1, <2>3, <2>5, LessByFactor
  <2>7. len \in 0 .. Slots
    BY <1>1, <2>1, <2>6
  <2>8. s \in SeqOf(Rows, Slots)
    BY <2>1, <2>7 DEF SeqOf
  <2> QED
    BY <1>3, <2>8 DEF ShapesOf, CostOf
<1> QED
  BY <1>2, <1>3

\* When a cost's predecessors have been run, its file has every sequence of rows
\* that costs so much, with each number of its last operand, as often as the
\* operands before it can be numbered; with runs that were killed, at least as
\* often; and it has no other form of a sequence (enumerator2.cpp:265-320).
THEOREM EveryShapeInFile == Spec => []EveryShape
<1>1. IInv /\ FilesInv => EveryShape
  <2> SUFFICES ASSUME IInv, FilesInv,
                      NEW c \in 1 .. max_cost, Ready(c),
                      \A r \in Rows : Table[r].cycles < c => Safe(c - Table[r].cycles)
               PROVE  /\ \A shape \in ShapesOf(c) :
                           \A number \in 0 .. Table[Last(shape)].variants - 1 :
                             LET copies == Copies(c, Rebuilt(shape, number))
                             IN  /\ copies >= Weight(Front(shape))
                                 /\ kills = 0 => copies = Weight(Front(shape))
                      /\ \A p \in BagToSet(disk) :
                           p.file = c => p.ins = Rebuilt(Shape(p.ins), Last(p.ins).number)
    BY DEF EveryShape
  <2>1. c \in Nat \ {0} /\ c \in 0 .. max_cost /\ max_cost \in Nat
    BY TableAssumption
  <2>2. ASSUME NEW shape \in ShapesOf(c),
               NEW number \in 0 .. Table[Last(shape)].variants - 1
        PROVE  Enough(Copies(c, Rebuilt(shape, number)), Front(shape))
    <3>1. shape \in Seq(Rows) /\ CostOf(shape) = c
      BY <2>1, ShapesFit
    <3>2. PICK u \in Seq(Rows), q \in Rows : shape = Append(u, q)
      BY <2>1, <3>1, CostFacts, SequenceEmptyOrAppend
    <3>3. Last(shape) = q /\ Front(shape) = u
      BY <3>2, LastAndFront
    <3>4. number \in NumbersOf(q)
      BY <3>3 DEF NumbersOf
    <3>5. PICK t \in Nat, d \in Nat \ {0} : t = CostOf(u) /\ d = Table[q].cycles
      BY CostFacts, TableFacts
    <3>6. c = t + d
      BY <3>1, <3>2, <3>5, CostFacts
    <3>7. DiskHas(u, q, number)
      BY <3>4 DEF FilesInv, DiskInv, Ready
    <3>8. PICK k : k = HowOften(disk, Record(u, q, number))
      OBVIOUS
    <3>9. Copies(c, Rebuilt(shape, number)) = k
      <4>1. Record(u, q, number) = [file |-> c, ins |-> Rebuilt(shape, number)]
        BY <3>2, <3>5, <3>6 DEF Record
      <4> QED
        BY <3>8, <4>1 DEF Copies, HowOften
    <3>10. Enough(k, u)
      <4>1. CASE t = 0
        <5>1. k = 1
          BY <3>5, <3>7, <3>8, <4>1 DEF DiskHas
        <5>2. u = <<>>
          BY <3>5, <4>1, CostFacts
        <5> QED
          BY <5>1, <5>2, WeightFacts DEF Enough
      <4>2. CASE t # 0
        <5>1. d <= c /\ d < c /\ c - d = t
          BY <2>1, <3>5, <3>6, <4>2
        <5>2. t \in ended
          BY <3>5, <4>2, <5>1 DEF Ready
        <5>3. Safe(t)
          BY <3>5, <5>1
        <5> QED
          BY <3>5, <3>7, <3>8, <5>2, <5>3 DEF DiskHas
      <4> QED
        BY <4>1, <4>2
    <3> QED
      BY <3>3, <3>9, <3>10
  <2>3. ASSUME NEW p \in BagToSet(disk), p.file = c
        PROVE  p.ins = Rebuilt(Shape(p.ins), Last(p.ins).number)
    <3>1. p \in DOMAIN disk /\ p # [file |-> 0, ins |-> <<>>]
      BY <2>1, <2>3 DEF BagToSet
    <3>2. PICK u \in Seq(Rows), q \in Rows : \E m \in NumbersOf(q) : p = Record(u, q, m)
      BY <3>1 DEF FilesInv, FormInv, Extends
    <3>3. PICK m \in NumbersOf(q) : p = Record(u, q, m)
      BY <3>2
    <3>4. PICK a, len : a = Append(u, q) /\ len = Len(u) + 1
      OBVIOUS
    <3>5. /\ m \in Nat /\ a \in Seq(Rows) /\ Len(a) = len /\ len \in Nat \ {0}
          /\ a \in [1 .. len -> Rows]
      <4>1. Len(u) \in Nat
        BY ShapeFacts
      <4>2. a \in Seq(Rows) /\ Len(a) = len
        BY <3>4, AppendFacts
      <4>3. m \in Nat
        BY NumbersNat
      <4>4. a \in [1 .. len -> Rows]
        BY <4>2, LenProperties
      <4> QED
        BY <3>4, <4>1, <4>2, <4>3, <4>4
    <3>6. PICK t : t = p.ins
      OBVIOUS
    <3>7. t = Rebuilt(a, m)
      BY <3>3, <3>4, <3>6 DEF Record
    <3>8. /\ Len(t) = len /\ DOMAIN t = 1 .. len
          /\ \A i \in 1 .. len : t[i] = instruction(a[i], IF i = len THEN m ELSE 0)
      BY <3>5, <3>7, RebuiltFacts
    <3>9. Last(t).number = m
      BY <3>5, <3>8, InstructionFacts DEF Last
    <3>10. Shape(t) = a
      <4>1. Shape(t) = [i \in 1 .. len |-> t[i].row]
        BY <3>8 DEF Shape
      <4>2. \A i \in 1 .. len : t[i].row = a[i]
        BY <3>8, InstructionFacts
      <4>3. a = [i \in 1 .. len |-> a[i]]
        BY <3>5
      <4> QED
        BY <4>1, <4>2, <4>3
    <3> QED
      BY <3>6, <3>7, <3>9, <3>10
  <2> QED
    BY <2>2, <2>3 DEF Enough
<1> QED
  BY <1>1, Invariant, Complete, PTL
=============================================================================

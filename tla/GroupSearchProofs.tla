-------------------------- MODULE GroupSearchProofs -------------------------
(***************************************************************************)
(* What the search records is an optimization, whatever the sequences,     *)
(* their hashes and costs, the number of tasks, and the solver's answers.  *)
(*                                                                         *)
(* The search of enumerator.cpp does what Search says: when the solver is  *)
(* asked about a pair, it has been asked about every cheaper replacement   *)
(* of that original, and it is never asked about it after an answer.  The  *)
(* reasons are that a run holds all the sequences of its two hashes, that  *)
(* it is sorted, and that no sequence is in two tasks, runs or buckets.    *)
(***************************************************************************)
EXTENDS GroupSearch, WellFoundedInduction, NaturalsInduction,
        FiniteSetTheorems, SequenceTheorems, TLAPS

-----------------------------------------------------------------------------
(* Least elements, lower bounds and runs of equal cost.                    *)

LEMMA Least ==
    ASSUME NEW T, T \subseteq Nat, T # {}
    PROVE  \E m \in T : \A n \in T : m <= n
<1>1. PICK m \in T : \A n \in T : <<n, m>> \notin OpToRel(<, Nat)
  BY WFMin, NatLessThanWellFounded, Zenon
<1>2. \A n \in T : ~(n < m)
  BY <1>1, Zenon DEF OpToRel
<1> QED
  BY <1>2

\* lower_bound finds a position between begin() and end(), with smaller keys
\* before it and none at it.
LEMMA LowerBoundFacts ==
    ASSUME NEW f \in [Seqs -> 0 .. HashSpace - 1], NEW seq \in Seq(Seqs),
           NEW key \in Nat
    PROVE  LET p == LowerBound(f, seq, key)
           IN  /\ p \in 1 .. Len(seq) + 1
               /\ \A k \in 1 .. p - 1 : f[seq[k]] < key
               /\ p <= Len(seq) => f[seq[p]] >= key
<1> DEFINE T == {p \in 1 .. Len(seq) + 1 : p <= Len(seq) => f[seq[p]] >= key}
<1>1. Len(seq) \in Nat /\ \A k \in 1 .. Len(seq) : seq[k] \in Seqs /\ f[seq[k]] \in Nat
  BY HashAssumption, LenProperties, ElementOfSeq
<1>2. T \subseteq Nat /\ Len(seq) + 1 \in T
  BY <1>1
<1>3. PICK m \in T : \A n \in T : m <= n
  BY <1>2, Least
<1>4. \A k \in 1 .. m - 1 : f[seq[k]] < key
  BY <1>1, <1>3
<1> QED
  BY <1>3, <1>4 DEF LowerBound

\* A larger key has a lower bound no further left.
LEMMA LowerBoundMonotonic ==
    ASSUME NEW f \in [Seqs -> 0 .. HashSpace - 1], NEW seq \in Seq(Seqs),
           NEW low \in Nat, NEW high \in Nat, low <= high
    PROVE  LowerBound(f, seq, low) <= LowerBound(f, seq, high)
<1> DEFINE p == LowerBound(f, seq, low)
           q == LowerBound(f, seq, high)
<1>1. /\ p \in 1 .. Len(seq) + 1 /\ q \in 1 .. Len(seq) + 1
      /\ \A k \in 1 .. p - 1 : f[seq[k]] < low
      /\ q <= Len(seq) => f[seq[q]] >= high
  BY LowerBoundFacts
<1>2. Len(seq) \in Nat /\ \A k \in 1 .. Len(seq) : f[seq[k]] \in Nat
  BY HashAssumption, LenProperties, ElementOfSeq
<1> HIDE DEF p, q
<1>3. p <= q
  BY <1>1, <1>2
<1> QED
  BY <1>3 DEF p, q

\* The run of a cost begins at a position of the sequence.
LEMMA FirstWithCostFacts ==
    ASSUME NEW seq \in Seq(Seqs), NEW n \in 1 .. Len(seq)
    PROVE  LET k == FirstWithCost(seq, Cost[seq[n]])
           IN  /\ k \in 1 .. Len(seq)
               /\ Cost[seq[k]] = Cost[seq[n]]
               /\ k = 1 \/ Cost[seq[k - 1]] # Cost[seq[n]]
<1> DEFINE c == Cost[seq[n]]
           T == {k \in 1 .. Len(seq) : Cost[seq[k]] = c}
<1>1. Len(seq) \in Nat /\ DOMAIN seq = 1 .. Len(seq)
  BY LenProperties
<1>2. T \subseteq Nat /\ n \in T
  BY <1>1
<1>3. PICK m \in T : \A k \in T : m <= k
  BY <1>2, Least
<1>4. m = 1 \/ Cost[seq[m - 1]] # c
  BY <1>1, <1>3
<1> QED
  BY <1>1, <1>3, <1>4 DEF FirstWithCost

\* In a sequence sorted by cost, the positions before the run of a cost hold
\* strictly cheaper sequences.
LEMMA CheaperBeforeRun ==
    ASSUME NEW seq \in Seq(Seqs), InOrder(Cost, seq), NEW n \in 1 .. Len(seq),
           NEW k \in Nat \ {0}, k < FirstWithCost(seq, Cost[seq[n]])
    PROVE  k \in 1 .. Len(seq) /\ Cost[seq[k]] < Cost[seq[n]]
<1> DEFINE m == FirstWithCost(seq, Cost[seq[n]])
<1>1. /\ m \in 1 .. Len(seq) /\ Cost[seq[m]] = Cost[seq[n]]
      /\ m = 1 \/ Cost[seq[m - 1]] # Cost[seq[n]]
  BY FirstWithCostFacts
<1>2. /\ Len(seq) \in Nat /\ DOMAIN seq = 1 .. Len(seq)
      /\ \A l \in 1 .. Len(seq) : seq[l] \in Seqs /\ Cost[seq[l]] \in Nat
  BY LenProperties, ElementOfSeq, CostAssumption
<1>3. k < m
  OBVIOUS
<1> HIDE DEF m
<1>4. k \in 1 .. Len(seq) /\ m - 1 \in 1 .. Len(seq) /\ k <= m - 1
  BY <1>1, <1>2, <1>3
<1>5. Cost[seq[k]] <= Cost[seq[m - 1]] /\ Cost[seq[m - 1]] <= Cost[seq[m]]
  <2>1. Cost[seq[m - 1]] <= Cost[seq[m]]
    BY <1>1, <1>2, <1>4 DEF InOrder
  <2>2. CASE k = m - 1
    BY <1>2, <1>4, <2>1, <2>2
  <2>3. CASE k < m - 1
    BY <1>2, <1>4, <2>1, <2>3 DEF InOrder
  <2> QED
    BY <1>4, <2>2, <2>3
<1> QED
  BY <1>1, <1>2, <1>3, <1>4, <1>5

\* Reordering a sequence keeps its length and its elements.
LEMMA OrdersFacts ==
    ASSUME NEW seq \in Seq(Seqs), NEW new \in Orders(seq)
    PROVE  /\ new \in Seq(Seqs) /\ Len(new) = Len(seq)
           /\ \A k \in 1 .. Len(new) : \E l \in 1 .. Len(seq) : new[k] = seq[l]
<1>1. /\ Len(seq) \in Nat /\ DOMAIN seq = 1 .. Len(seq)
      /\ \A l \in 1 .. Len(seq) : seq[l] \in Seqs
  BY LenProperties, ElementOfSeq
<1>2. PICK p \in [1 .. Len(seq) -> 1 .. Len(seq)] :
        new = [k \in 1 .. Len(seq) |-> seq[p[k]]]
  BY <1>1 DEF Orders
<1>3. new \in [1 .. Len(seq) -> Seqs]
  BY <1>1, <1>2
<1>4. new \in Seq(Seqs)
  BY <1>1, <1>3, SeqDef
<1>5. Len(new) = Len(seq)
  BY <1>1, <1>3, <1>4, LenProperties
<1> QED
  BY <1>1, <1>2, <1>4, <1>5
-----------------------------------------------------------------------------
(* The ranges of the tasks.                                                *)

LEMMA Multiply == ASSUME NEW a \in Nat, NEW b \in Nat, NEW c \in Nat, a <= b
                  PROVE  a * c <= b * c /\ a * c \in Nat
OBVIOUS

LEMMA StepFacts == Step \in Nat /\ N_TASKS * Step <= HashSpace
BY HashAssumption, TaskAssumption DEF Step

LEMMA RangeFacts ==
    ASSUME NEW t \in Task
    PROVE  /\ HashMin(t) \in Nat /\ HashMax(t) \in Nat
           /\ HashMin(t) < HashSpace
           /\ HashMin(t) <= HashMax(t) /\ HashMax(t) <= HashSpace
<1>1. /\ t \in Nat /\ t + 1 \in Nat /\ t <= N_TASKS - 1 /\ N_TASKS - 1 \in Nat
      /\ Step \in Nat /\ HashSpace \in Nat \ {0}
  BY StepFacts, HashAssumption, TaskAssumption DEF Task
<1>2. t * Step <= (N_TASKS - 1) * Step /\ t * Step \in Nat
  BY <1>1, Multiply
<1>3. t * Step <= (t + 1) * Step /\ (t + 1) * Step = t * Step + Step
  BY <1>1
<1>4. (N_TASKS - 1) * Step + Step = N_TASKS * Step
  BY <1>1, TaskAssumption
<1>5. (N_TASKS - 1) * Step < HashSpace
  <2>1. (N_TASKS - 1) * Step \in Nat
    BY <1>1
  <2>2. CASE Step = 0
    BY <1>1, <2>2
  <2>3. CASE Step # 0
    BY <1>1, <1>4, <2>1, <2>3, StepFacts, TaskAssumption
  <2> QED
    BY <2>2, <2>3
<1>6. CASE t = N_TASKS - 1
  BY <1>1, <1>2, <1>5, <1>6 DEF HashMin, HashMax
<1>7. CASE t # N_TASKS - 1
  <2>1. t + 1 <= N_TASKS - 1
    BY <1>1, <1>7
  <2>2. (t + 1) * Step <= (N_TASKS - 1) * Step /\ (t + 1) * Step \in Nat
    BY <1>1, <2>1, Multiply
  <2>3. (N_TASKS - 1) * Step \in Nat
    BY <1>1
  <2> QED
    BY <1>1, <1>2, <1>3, <1>5, <1>7, <2>2, <2>3 DEF HashMin, HashMax
<1> QED
  BY <1>6, <1>7

\* Every hash is in the range of exactly one task.
EveryHashOnce ==
    \A h \in 0 .. HashSpace - 1 :
        \E t \in Task : \A u \in Task :
            h \in HashMin(u) .. HashMax(u) - 1 <=> u = t

\* No hash is left out and none is searched twice, for every size of the
\* hash space and number of tasks (enumerator.cpp:373-381).
LEMMA TasksPartitionHashes == EveryHashOnce
<1> SUFFICES ASSUME NEW h \in 0 .. HashSpace - 1
             PROVE  \E t \in Task : \A u \in Task :
                       h \in HashMin(u) .. HashMax(u) - 1 <=> u = t
  BY DEF EveryHashOnce
<1> DEFINE last == N_TASKS - 1
<1>1. last \in Task /\ last \in Nat /\ h \in Nat /\ h < HashSpace /\ Step \in Nat
  BY StepFacts, HashAssumption, TaskAssumption DEF Task
<1>2. \A u \in Task : u \in Nat /\ u <= last
  BY TaskAssumption DEF Task
<1>3. CASE last * Step <= h
  <2>1. h \in HashMin(last) .. HashMax(last) - 1
    BY <1>1, <1>3, RangeFacts, HashAssumption DEF HashMin, HashMax
  <2>2. ASSUME NEW u \in Task, u # last PROVE h >= HashMax(u)
    <3>1. u + 1 \in Nat /\ u + 1 <= last
      BY <1>2, <1>1, <2>2
    <3>2. (u + 1) * Step <= last * Step /\ (u + 1) * Step \in Nat
      BY <1>1, <3>1, Multiply
    <3> QED
      BY <1>1, <1>3, <2>2, <3>2 DEF HashMax
  <2>3. \A u \in Task : h \in HashMin(u) .. HashMax(u) - 1 => u = last
    BY <1>1, <2>2, RangeFacts
  <2> QED
    BY <1>1, <2>1, <2>3
<1>4. CASE h < last * Step
  <2>1. Step \in Nat \ {0}
    BY <1>1, <1>4
  <2> DEFINE t == h \div Step
  <2>2. t \in Nat /\ t * Step <= h /\ h < t * Step + Step
    BY <1>1, <2>1
  <2> HIDE DEF t
  <2>3. t < last
    <3> SUFFICES ASSUME last <= t PROVE FALSE
      BY <1>1, <2>2
    <3>1. last * Step <= t * Step /\ last * Step \in Nat
      BY <1>1, <2>2, Multiply
    <3> QED
      BY <1>1, <1>4, <2>2, <3>1
  <2>4. t \in Task
    BY <1>1, <2>2, <2>3 DEF Task
  <2>5. t * Step + Step = (t + 1) * Step
    BY <1>1, <2>2
  <2>6. h \in HashMin(t) .. HashMax(t) - 1
    BY <1>1, <2>2, <2>3, <2>4, <2>5, RangeFacts DEF HashMin, HashMax
  <2>7. ASSUME NEW u \in Task, u < t PROVE h >= HashMax(u)
    <3>1. u + 1 \in Nat /\ u + 1 <= t
      BY <1>2, <2>2, <2>7
    <3>2. (u + 1) * Step <= t * Step /\ (u + 1) * Step \in Nat
      BY <1>1, <2>2, <3>1, Multiply
    <3> QED
      BY <1>1, <1>2, <2>2, <2>3, <2>7, <3>2 DEF HashMax
  <2>8. ASSUME NEW u \in Task, t < u PROVE h < HashMin(u)
    <3>1. u \in Nat /\ t + 1 \in Nat /\ t + 1 <= u
      BY <1>2, <2>2, <2>8
    <3>2. (t + 1) * Step <= u * Step /\ (t + 1) * Step \in Nat
      BY <1>1, <2>2, <3>1, Multiply
    <3>3. u * Step \in Nat
      BY <1>1, <3>1
    <3> QED
      BY <1>1, <2>2, <2>5, <3>2, <3>3 DEF HashMin
  <2>9. \A u \in Task : h \in HashMin(u) .. HashMax(u) - 1 => u = t
    <3> SUFFICES ASSUME NEW u \in Task, h \in HashMin(u) .. HashMax(u) - 1 PROVE u = t
      OBVIOUS
    <3>1. ~(u < t) /\ ~(t < u)
      BY <1>1, <2>7, <2>8, RangeFacts
    <3> QED
      BY <1>2, <2>2, <3>1
  <2> QED
    BY <2>4, <2>6, <2>9
<1> QED
  BY <1>1, <1>3, <1>4

\* In a table in order, the positions from the lower bound of a key on are
\* those whose hash is not less.
LEMMA FromLowerBound ==
    ASSUME NEW seq \in Seq(Seqs), InOrder(Hash, seq), NEW key \in Nat,
           NEW p \in 1 .. Len(seq)
    PROVE  LowerBound(Hash, seq, key) <= p <=> key <= Hash[seq[p]]
<1> DEFINE b == LowerBound(Hash, seq, key)
<1>1. /\ b \in 1 .. Len(seq) + 1
      /\ \A k \in 1 .. b - 1 : Hash[seq[k]] < key
      /\ b <= Len(seq) => Hash[seq[b]] >= key
  BY LowerBoundFacts, HashAssumption
<1>2. /\ Len(seq) \in Nat /\ DOMAIN seq = 1 .. Len(seq)
      /\ \A k \in 1 .. Len(seq) : Hash[seq[k]] \in Nat
  BY HashAssumption, LenProperties, ElementOfSeq
<1> HIDE DEF b
<1>3. ASSUME p < b PROVE ~(key <= Hash[seq[p]])
  <2>1. p \in 1 .. b - 1 /\ b \in Nat /\ p \in Nat
    BY <1>1, <1>2, <1>3
  <2>2. Hash[seq[p]] < key /\ Hash[seq[p]] \in Nat
    BY <1>1, <1>2, <2>1
  <2> QED
    BY <1>3, <2>1, <2>2
<1>4. ASSUME b <= p PROVE key <= Hash[seq[p]]
  <2>1. b \in 1 .. Len(seq) /\ Hash[seq[b]] >= key
    BY <1>1, <1>2, <1>4
  <2>2. Hash[seq[b]] <= Hash[seq[p]]
    <3>1. CASE b = p
      BY <1>2, <2>1, <3>1
    <3>2. CASE b < p
      BY <1>2, <2>1, <3>2 DEF InOrder
    <3> QED
      BY <1>1, <1>4, <3>1, <3>2
  <2>3. key <= Hash[seq[p]]
    BY ONLY <1>2, <2>1, <2>2, key \in Nat, p \in 1 .. Len(seq)
  <2> QED
    BY <1>4, <2>3
<1>5. b \in Nat /\ p \in Nat
  BY <1>1, <1>2
<1> QED
  BY <1>3, <1>4, <1>5 DEF b

\* A task scans the positions whose hash is in its range, also when its range
\* ends at the bound that does not fit into a key.
LEMMA ScannedFacts ==
    ASSUME table \in Seq(Seqs), InOrder(Hash, table), NEW u \in Task,
           NEW p \in 1 .. Len(table)
    PROVE  p \in Scanned(u) <=> Hash[table[p]] \in HashMin(u) .. HashMax(u) - 1
<1>1. /\ Len(table) \in Nat /\ Hash[table[p]] \in Nat
      /\ Hash[table[p]] < HashSpace /\ HashSpace \in Nat
  BY HashAssumption, LenProperties, ElementOfSeq
<1>2. /\ HashMin(u) \in Nat /\ HashMax(u) \in Nat
      /\ HashMin(u) < HashSpace
      /\ HashMin(u) <= HashMax(u) /\ HashMax(u) <= HashSpace
  BY RangeFacts
<1>3. HashMin(u) % HashSpace = HashMin(u)
  BY <1>1, <1>2
<1>4. First(table, HashMin(u)) <= p <=> HashMin(u) <= Hash[table[p]]
  BY <1>2, <1>3, FromLowerBound DEF First
<1>5. PastLast(table, HashMax(u)) <= p <=> HashMax(u) <= Hash[table[p]]
  <2>1. CASE HashMax(u) = HashSpace
    BY <1>1, <2>1 DEF PastLast
  <2>2. CASE HashMax(u) # HashSpace
    <3>1. HashMax(u) % HashSpace = HashMax(u)
      BY <1>1, <1>2, <2>2
    <3> QED
      BY <1>2, <2>2, <3>1, FromLowerBound DEF PastLast
  <2> QED
    BY <2>1, <2>2
<1> DEFINE b(key) == LowerBound(Hash, table, key)
<1>6. \A key \in Nat : b(key) \in Int
  <2> SUFFICES ASSUME NEW key \in Nat PROVE b(key) \in Int
    OBVIOUS
  <2>1. b(key) \in 1 .. Len(table) + 1
    BY LowerBoundFacts, HashAssumption
  <2> QED
    BY <1>1, <2>1
<1>7. First(table, HashMin(u)) \in Int
  BY <1>2, <1>3, <1>6 DEF First
<1>8. PastLast(table, HashMax(u)) \in Int
  <2>1. CASE HashMax(u) = HashSpace
    BY <1>1, <2>1 DEF PastLast
  <2>2. CASE HashMax(u) # HashSpace
    <3>1. HashMax(u) % HashSpace = HashMax(u)
      BY <1>1, <1>2, <2>2
    <3> QED
      BY <1>2, <1>6, <2>2, <3>1 DEF PastLast
  <2> QED
    BY <2>1, <2>2
<1> QED
  BY <1>1, <1>2, <1>4, <1>5, <1>7, <1>8 DEF Scanned
-----------------------------------------------------------------------------
(* The inductive invariant.                                                *)

\* A worker stays inside its table, and its run has one hash.
FrameInv(k) ==
    LET f == frames[k]
    IN  /\ 1 <= f.it /\ f.it <= f.end /\ f.end <= Len(f.seq) + 1
        /\ \A m \in 1 .. Len(f.group) : Key(k, f.group[m]) = f.last

\* A run that was split has one hash of the caller's table too.
SplitInv ==
    depth = 2 =>
        /\ \A m \in 1 .. Len(frames[2].seq) : Hash[frames[2].seq[m]] = frames[1].last
        /\ \A m \in 1 .. Len(frames[2].group) : Hash[frames[2].group[m]] = frames[1].last

PcInv ==
    /\ depth <= 2
    /\ pc = "idle" <=> depth = 0
    /\ pc = "compare" => /\ depth = 2
                         /\ InOrder(Cost, group)
                         /\ i <= Len(group) /\ j >= 1

IInv == /\ TypeOK
        /\ \A k \in 1 .. depth : FrameInv(k)
        /\ SplitInv
        /\ PcInv
        /\ Sound
LEMMA InitIInv == Init => IInv
<1> SUFFICES ASSUME Init PROVE IInv
  OBVIOUS
<1>1. Cardinality(Seqs) \in Nat
  BY SeqAssumption, FS_CardinalityType
<1>2. table \in Seq(Seqs)
  BY <1>1, SeqDef DEF Init, Tables
<1>3. depth = 0 /\ optimizations = <<>> /\ timed_out = <<>> /\ frames = <<>>
  BY DEF Init, depth
<1>4. TypeOK
  BY <1>2, <1>3, EmptySeq DEF Init, TypeOK
<1>5. Sound
  BY <1>3 DEF Sound
<1> QED
  BY <1>3, <1>4, <1>5 DEF Init, IInv, SplitInv, PcInv

\* The innermost frame, while there is one.
LEMMA TopFacts ==
    ASSUME TypeOK, PcInv, pc # "idle"
    PROVE  /\ depth \in 1 .. 2 /\ depth = Len(frames)
           /\ top \in FrameType /\ group \in Seq(Seqs) /\ group = top.group
           /\ Len(group) \in Nat /\ DOMAIN group = 1 .. Len(group)
           /\ Len(top.seq) \in Nat /\ top.seq \in Seq(Seqs)
<1>1. Len(frames) \in Nat /\ depth = Len(frames)
  BY LenProperties DEF TypeOK, depth
<1>2. depth \in 1 .. 2
  BY <1>1 DEF PcInv
<1>3. top \in FrameType
  BY <1>1, <1>2, ElementOfSeq DEF TypeOK, top
<1>4. group \in Seq(Seqs) /\ top.seq \in Seq(Seqs) /\ group = top.group
  BY <1>3 DEF group, FrameType
<1> QED
  BY <1>1, <1>2, <1>3, <1>4, LenProperties

\* Replacing the innermost frame leaves the others alone.
LEMMA SetTopFacts ==
    ASSUME TypeOK, PcInv, pc # "idle", NEW f \in FrameType, frames' = SetTop(f)
    PROVE  /\ frames' \in Seq(FrameType) /\ depth' = depth
           /\ top' = f /\ group' = f.group /\ frames'[depth] = f
           /\ \A k \in 1 .. depth : k # depth => frames'[k] = frames[k]
<1>1. depth \in 1 .. 2 /\ depth = Len(frames) /\ frames \in Seq(FrameType)
  BY TopFacts DEF TypeOK
<1>2. /\ frames' \in Seq(FrameType) /\ Len(frames') = Len(frames)
      /\ \A k \in 1 .. Len(frames) : frames'[k] = IF k = depth THEN f ELSE frames[k]
  BY <1>1, ExceptSeq DEF SetTop
<1> QED
  BY <1>1, <1>2 DEF depth, top, group

\* The sequence the iterator is at.
LEMMA AtIterator ==
    ASSUME IInv, pc # "idle", ~AtEnd
    PROVE  /\ top.it \in 1 .. Len(top.seq) /\ top.seq[top.it] \in Seqs
           /\ top.it + 1 <= top.end
           /\ TopKey \in 0 .. HashSpace - 1 /\ TopKey = Key(depth, top.seq[top.it])
<1>1. /\ depth \in 1 .. 2 /\ top \in FrameType /\ Len(top.seq) \in Nat
      /\ top.seq \in Seq(Seqs)
  BY TopFacts DEF IInv
<1>2. 1 <= top.it /\ top.it <= top.end /\ top.end <= Len(top.seq) + 1
  BY <1>1 DEF IInv, FrameInv, top
<1>3. top.it \in 1 .. Len(top.seq) /\ top.it + 1 <= top.end
  BY <1>1, <1>2 DEF AtEnd, FrameType
<1>4. top.seq[top.it] \in Seqs
  BY <1>1, <1>3, ElementOfSeq
<1> QED
  BY <1>3, <1>4, HashAssumption DEF TopKey, Key

LEMMA StartTaskStep ==
    ASSUME IInv, NEW t \in Task, StartTask(t)
    PROVE  IInv'
<1> DEFINE first == First(table, HashMin(t))
           end == PastLast(table, HashMax(t))
<1>1. table \in Seq(Seqs) /\ Len(table) \in Nat
  BY LenProperties DEF IInv, TypeOK
<1>2. /\ HashMin(t) \in Nat /\ HashMax(t) \in Nat /\ HashSpace \in Nat \ {0}
      /\ HashMin(t) < HashSpace
      /\ HashMin(t) <= HashMax(t) /\ HashMax(t) <= HashSpace
  BY RangeFacts, HashAssumption
<1>3. HashMin(t) % HashSpace = HashMin(t)
  BY <1>2
<1>4. HashMax(t) # HashSpace => HashMax(t) % HashSpace = HashMax(t)
  BY <1>2
<1>5. first = LowerBound(Hash, table, HashMin(t)) /\ first \in 1 .. Len(table) + 1
  BY <1>1, <1>2, <1>3, LowerBoundFacts, HashAssumption DEF First
<1>7. end \in 1 .. Len(table) + 1 /\ first <= end
  <2>1. CASE HashMax(t) = HashSpace
    BY <1>1, <1>5, <2>1 DEF PastLast
  <2>2. CASE HashMax(t) # HashSpace
    <3>1. end = LowerBound(Hash, table, HashMax(t))
      BY <1>4, <2>2 DEF PastLast
    <3>2. end \in 1 .. Len(table) + 1
      BY <1>1, <1>2, <3>1, LowerBoundFacts, HashAssumption
    <3>3. LowerBound(Hash, table, HashMin(t)) <= LowerBound(Hash, table, HashMax(t))
      BY <1>1, <1>2, LowerBoundMonotonic, HashAssumption
    <3> QED
      BY <1>5, <3>1, <3>2, <3>3
  <2> QED
    BY <2>1, <2>2
<1> HIDE DEF first, end
<1> DEFINE f == Frame(table, first, end)
<1>8. /\ frames' = <<f>> /\ f \in FrameType
      /\ f.seq = table /\ f.it = first /\ f.end = end /\ f.group = <<>>
  <2>1. frames' = <<f>>
    BY DEF StartTask, first, end
  <2>2. -1 \in -1 .. HashSpace - 1 /\ <<>> \in Seq(Seqs) /\ first \in Nat /\ end \in Nat
    BY <1>1, <1>2, <1>5, <1>7, EmptySeq
  <2> QED
    BY <1>1, <2>1, <2>2 DEF Frame, FrameType
<1> HIDE DEF f
<1>9. /\ frames' \in Seq(FrameType) /\ depth' = 1 /\ frames'[1] = f
  BY <1>8 DEF depth
<1>10. FrameInv(1)'
  BY <1>5, <1>7, <1>8, <1>9 DEF FrameInv
<1>11. TypeOK'
  BY <1>9 DEF IInv, TypeOK, StartTask
<1>12. SplitInv' /\ PcInv'
  BY <1>9 DEF SplitInv, PcInv, StartTask
<1>13. Sound'
  BY DEF IInv, Sound, StartTask
<1> QED
  BY <1>9, <1>10, <1>11, <1>12, <1>13 DEF IInv
\* A step that leaves the frames alone leaves what is said of them.
LEMMA FramesUnchanged ==
    ASSUME IInv, frames' = frames
    PROVE  /\ (\A k \in 1 .. depth : FrameInv(k))' /\ SplitInv'
           /\ depth' = depth /\ top' = top /\ group' = group
<1>1. depth' = depth
  BY DEF depth
<1> QED
  BY <1>1 DEF IInv, FrameInv, SplitInv, top, group

\* A step that records nothing keeps the record sound.
LEMMA SoundUnchanged ==
    ASSUME IInv, optimizations' = optimizations
    PROVE  Sound'
BY DEF IInv, Sound

LEMMA ExtendStep == ASSUME IInv, Extend PROVE IInv'
<1> DEFINE f == [top EXCEPT !.it = @ + 1, !.group = Append(@, top.seq[top.it])]
<1>1. pc = "scan" /\ ~AtEnd /\ TopKey = top.last /\ frames' = SetTop(f)
  BY DEF Extend, SameRun
<1>2. /\ depth \in 1 .. 2 /\ top \in FrameType /\ group \in Seq(Seqs)
      /\ group = top.group /\ Len(group) \in Nat /\ depth = Len(frames)
  BY <1>1, TopFacts DEF IInv
<1>3. /\ top.it \in 1 .. Len(top.seq) /\ top.seq[top.it] \in Seqs
      /\ top.it + 1 <= top.end /\ TopKey = Key(depth, top.seq[top.it])
  BY <1>1, AtIterator
<1>4. /\ f.seq = top.seq /\ f.it = top.it + 1 /\ f.end = top.end
      /\ f.last = top.last /\ f.group = Append(group, top.seq[top.it])
      /\ f \in FrameType
  <2>1. Append(group, top.seq[top.it]) \in Seq(Seqs)
    BY <1>2, <1>3, AppendProperties
  <2>2. top.it + 1 \in Nat
    BY <1>2 DEF FrameType
  <2> QED
    BY <1>2, <2>1, <2>2 DEF FrameType
<1>5. /\ Len(f.group) = Len(group) + 1
      /\ \A m \in 1 .. Len(group) : f.group[m] = group[m]
      /\ f.group[Len(group) + 1] = top.seq[top.it]
  BY <1>2, <1>3, <1>4, AppendProperties
<1> HIDE DEF f
<1>6. /\ frames' \in Seq(FrameType) /\ depth' = depth /\ frames'[depth] = f
      /\ \A k \in 1 .. depth : k # depth => frames'[k] = frames[k]
  BY <1>1, <1>4, SetTopFacts DEF IInv
<1>7. /\ 1 <= top.it /\ top.end <= Len(top.seq) + 1 /\ top = frames[depth]
      /\ \A m \in 1 .. Len(group) : Key(depth, group[m]) = top.last
  BY <1>2 DEF IInv, FrameInv, top, group
<1>8. \A m \in 1 .. Len(f.group) : Key(depth, f.group[m]) = f.last
  <2> SUFFICES ASSUME NEW m \in 1 .. Len(group) + 1
               PROVE  Key(depth, f.group[m]) = f.last
    BY <1>5
  <2>1. CASE m <= Len(group)
    BY <1>2, <1>4, <1>5, <1>7, <2>1
  <2>2. CASE m = Len(group) + 1
    BY <1>1, <1>3, <1>4, <1>5, <2>2
  <2> QED
    BY <1>2, <2>1, <2>2
<1>9. ASSUME NEW k \in 1 .. depth' PROVE FrameInv(k)'
  <2>1. CASE k = depth
    <3>1. 1 <= f.it /\ f.it <= f.end /\ f.end <= Len(f.seq) + 1
      <4>1. top.it \in Nat /\ top.end \in Nat /\ Len(top.seq) \in Nat
        BY <1>2, LenProperties DEF FrameType
      <4> QED
        BY <1>3, <1>4, <1>7, <4>1
    <3>2. frames'[k] = f /\ \A m \in 1 .. Len(f.group) : Key(k, f.group[m]) = f.last
      BY <1>6, <1>8, <2>1
    <3> QED
      BY <3>1, <3>2 DEF FrameInv, Key
  <2>2. CASE k # depth
    BY <1>6, <2>2 DEF FrameInv, IInv
  <2> QED
    BY <2>1, <2>2
<1>10. SplitInv'
  <2> SUFFICES ASSUME depth = 2 PROVE SplitInv'
    BY <1>6 DEF SplitInv
  <2>1. frames'[1] = frames[1] /\ frames'[2] = f /\ top = frames[2]
    BY <1>6, <1>7
  <2>2. \A m \in 1 .. Len(f.group) : Hash[f.group[m]] = frames[1].last
    <3>1. /\ \A m \in 1 .. Len(group) : Hash[group[m]] = frames[1].last
          /\ Hash[top.seq[top.it]] = frames[1].last
      BY <1>2, <1>3, <2>1 DEF IInv, SplitInv
    <3> SUFFICES ASSUME NEW m \in 1 .. Len(group) + 1
                 PROVE  Hash[f.group[m]] = frames[1].last
      BY <1>5
    <3>2. CASE m <= Len(group)
      BY <1>2, <1>5, <3>1, <3>2
    <3>3. CASE m = Len(group) + 1
      BY <1>5, <3>1, <3>3
    <3> QED
      BY <1>2, <3>2, <3>3
  <2> QED
    BY <1>4, <2>1, <2>2 DEF IInv, SplitInv
<1>11. TypeOK' /\ PcInv' /\ Sound'
  BY <1>1, <1>6, SoundUnchanged DEF IInv, TypeOK, PcInv, Extend
<1> QED
  BY <1>9, <1>10, <1>11 DEF IInv

LEMMA NextRunStep == ASSUME IInv, NextRun PROVE IInv'
<1> DEFINE f == [top EXCEPT !.it = @ + 1, !.last = TopKey,
                            !.group = <<top.seq[top.it]>>]
<1>1. pc = "return" /\ ~AtEnd /\ frames' = SetTop(f)
  BY DEF NextRun
<1>2. /\ depth \in 1 .. 2 /\ top \in FrameType /\ depth = Len(frames)
  BY <1>1, TopFacts DEF IInv
<1>3. /\ top.it \in 1 .. Len(top.seq) /\ top.seq[top.it] \in Seqs
      /\ top.it + 1 <= top.end /\ TopKey \in 0 .. HashSpace - 1
      /\ TopKey = Key(depth, top.seq[top.it])
  BY <1>1, AtIterator
<1>4. <<top.seq[top.it]>> \in Seq(Seqs) /\ TopKey \in -1 .. HashSpace - 1
  BY <1>3, HashAssumption
<1>5. /\ f.seq = top.seq /\ f.it = top.it + 1 /\ f.end = top.end
      /\ f.last = TopKey /\ f.group = <<top.seq[top.it]>>
      /\ f \in FrameType
  <2>1. top.it + 1 \in Nat
    BY <1>2 DEF FrameType
  <2> QED
    BY <1>2, <1>4, <2>1 DEF FrameType
<1>6. Len(f.group) = 1 /\ f.group[1] = top.seq[top.it]
  BY <1>5
<1> HIDE DEF f
<1>7. /\ frames' \in Seq(FrameType) /\ depth' = depth /\ frames'[depth] = f
      /\ \A k \in 1 .. depth : k # depth => frames'[k] = frames[k]
  BY <1>1, <1>5, SetTopFacts DEF IInv
<1>8. 1 <= top.it /\ top.end <= Len(top.seq) + 1 /\ top = frames[depth]
  BY <1>2 DEF IInv, FrameInv, top
<1>9. ASSUME NEW k \in 1 .. depth' PROVE FrameInv(k)'
  <2>1. CASE k = depth
    <3>1. 1 <= f.it /\ f.it <= f.end /\ f.end <= Len(f.seq) + 1
      <4>1. top.it \in Nat /\ top.end \in Nat /\ Len(top.seq) \in Nat
        BY <1>2, LenProperties DEF FrameType
      <4> QED
        BY <1>3, <1>5, <1>8, <4>1
    <3>2. frames'[k] = f /\ \A m \in 1 .. Len(f.group) : Key(k, f.group[m]) = f.last
      BY <1>3, <1>5, <1>6, <1>7, <2>1
    <3> QED
      BY <3>1, <3>2 DEF FrameInv, Key
  <2>2. CASE k # depth
    BY <1>7, <2>2 DEF FrameInv, IInv
  <2> QED
    BY <2>1, <2>2
<1>10. SplitInv'
  <2> SUFFICES ASSUME depth = 2 PROVE SplitInv'
    BY <1>7 DEF SplitInv
  <2>1. frames'[1] = frames[1] /\ frames'[2] = f /\ top = frames[2]
    BY <1>7, <1>8
  <2>2. \A m \in 1 .. Len(f.group) : Hash[f.group[m]] = frames[1].last
    BY <1>3, <1>6, <2>1 DEF IInv, SplitInv
  <2> QED
    BY <1>5, <2>1, <2>2 DEF IInv, SplitInv
<1>11. TypeOK' /\ PcInv' /\ Sound'
  BY <1>1, <1>7, SoundUnchanged DEF IInv, TypeOK, PcInv, NextRun
<1> QED
  BY <1>9, <1>10, <1>11 DEF IInv

LEMMA WorkerDoneStep == ASSUME IInv, WorkerDone PROVE IInv'
<1>1. pc = "return" /\ frames' = SubSeq(frames, 1, depth - 1)
  BY DEF WorkerDone
<1>2. depth \in 1 .. 2 /\ depth = Len(frames) /\ frames \in Seq(FrameType)
  BY <1>1, TopFacts DEF IInv, TypeOK
<1>3. \A k \in 1 .. depth - 1 : frames[k] \in FrameType
  BY <1>2, ElementOfSeq
<1>4. /\ frames' \in Seq(FrameType) /\ Len(frames') = depth - 1
      /\ \A k \in 1 .. depth - 1 : frames'[k] = frames[k]
  <2>1. 1 \in Int /\ depth - 1 \in Int
    BY <1>2
  <2>2. /\ SubSeq(frames, 1, depth - 1) \in Seq(FrameType)
        /\ Len(SubSeq(frames, 1, depth - 1)) =
             IF 1 <= depth - 1 THEN depth - 1 - 1 + 1 ELSE 0
        /\ \A k \in 1 .. depth - 1 - 1 + 1 :
             SubSeq(frames, 1, depth - 1)[k] = frames[1 + k - 1]
    BY <1>3, <2>1, SubSeqProperties
  <2> QED
    BY <1>1, <1>2, <2>2
<1>5. depth' = depth - 1
  BY <1>4 DEF depth
<1>6. (\A k \in 1 .. depth : FrameInv(k))'
  BY <1>2, <1>4, <1>5 DEF IInv, FrameInv
<1>7. TypeOK' /\ SplitInv' /\ PcInv' /\ Sound'
  BY <1>2, <1>4, <1>5, SoundUnchanged DEF IInv, TypeOK, SplitInv, PcInv, WorkerDone
<1> QED
  BY <1>6, <1>7 DEF IInv

LEMMA SplitStep == ASSUME IInv, Split PROVE IInv'
<1>1. pc = "process" /\ depth = 1
  BY DEF Split
<1>2. /\ top \in FrameType /\ group \in Seq(Seqs) /\ group = top.group
      /\ depth = Len(frames) /\ frames \in Seq(FrameType)
  BY <1>1, TopFacts DEF IInv, TypeOK
<1>3. PICK buckets \in Orders(group) :
        frames' = Append(frames, Frame(buckets, 1, Len(buckets) + 1))
  BY DEF Split
<1>4. /\ buckets \in Seq(Seqs) /\ Len(buckets) \in Nat
      /\ \A k \in 1 .. Len(buckets) : \E l \in 1 .. Len(group) : buckets[k] = group[l]
  BY <1>2, OrdersFacts, LenProperties
<1> DEFINE f == Frame(buckets, 1, Len(buckets) + 1)
<1>5. /\ f.seq = buckets /\ f.it = 1 /\ f.end = Len(buckets) + 1 /\ f.group = <<>>
      /\ f \in FrameType
  <2>1. -1 \in -1 .. HashSpace - 1 /\ <<>> \in Seq(Seqs)
    BY HashAssumption, EmptySeq
  <2> QED
    BY <1>4, <2>1 DEF Frame, FrameType
<1> HIDE DEF f
<1>6. /\ frames' \in Seq(FrameType) /\ Len(frames') = 2
      /\ frames'[1] = frames[1] /\ frames'[2] = f
  <2>1. frames' = Append(frames, f)
    BY <1>3 DEF f
  <2>2. /\ Append(frames, f) \in Seq(FrameType)
        /\ Len(Append(frames, f)) = Len(frames) + 1
        /\ \A k \in 1 .. Len(frames) : Append(frames, f)[k] = frames[k]
        /\ Append(frames, f)[Len(frames) + 1] = f
    BY <1>2, <1>5, AppendProperties
  <2>3. Len(frames) = 1
    BY <1>1 DEF depth
  <2>4. /\ Append(frames, f)[1] = frames[1] /\ Append(frames, f)[2] = f
        /\ Len(Append(frames, f)) = 2
    BY <2>2, <2>3
  <2> QED
    BY <2>1, <2>2, <2>4
<1>7. depth' = 2 /\ top = frames[1]
  BY <1>1, <1>6 DEF depth, top
<1>8. \A m \in 1 .. Len(group) : Hash[group[m]] = frames[1].last
  BY <1>1, <1>2, <1>7 DEF IInv, FrameInv, Key
<1>9. FrameInv(1)' /\ FrameInv(2)'
  <2>1. FrameInv(1)'
    BY <1>1, <1>6 DEF IInv, FrameInv
  <2>2. FrameInv(2)'
    BY <1>4, <1>5, <1>6, EmptySeq DEF FrameInv
  <2> QED
    BY <2>1, <2>2
<1>10. SplitInv'
  BY <1>4, <1>5, <1>6, <1>8, EmptySeq DEF SplitInv
<1>11. TypeOK' /\ PcInv' /\ Sound'
  BY <1>1, <1>6, <1>7, SoundUnchanged DEF IInv, TypeOK, PcInv, Split
<1>12. \A k \in 1 .. depth' : k = 1 \/ k = 2
  BY <1>7
<1> QED
  BY <1>9, <1>10, <1>11, <1>12 DEF IInv

LEMMA SortStep == ASSUME IInv, Sort PROVE IInv'
<1>1. pc = "process" /\ depth = 2
  BY DEF Sort
<1>2. /\ top \in FrameType /\ group \in Seq(Seqs) /\ group = top.group
      /\ Len(group) \in Nat /\ top = frames[2]
  BY <1>1, TopFacts DEF IInv, top
<1>3. PICK sorted \in Orders(group) :
        InOrder(Cost, sorted) /\ frames' = SetTop([top EXCEPT !.group = sorted])
  BY DEF Sort
<1>4. /\ sorted \in Seq(Seqs) /\ Len(sorted) = Len(group)
      /\ \A k \in 1 .. Len(sorted) : \E l \in 1 .. Len(group) : sorted[k] = group[l]
  BY <1>2, OrdersFacts
<1> DEFINE f == [top EXCEPT !.group = sorted]
<1>5. /\ f.seq = top.seq /\ f.it = top.it /\ f.end = top.end /\ f.last = top.last
      /\ f.group = sorted /\ f \in FrameType
  BY <1>2, <1>4 DEF FrameType
<1>6. frames' = SetTop(f)
  BY <1>3
<1> HIDE DEF f
<1>7. /\ frames' \in Seq(FrameType) /\ depth' = 2 /\ frames'[2] = f
      /\ frames'[1] = frames[1] /\ group' = sorted
  BY <1>1, <1>5, <1>6, SetTopFacts DEF IInv
<1>8. FrameInv(1)' /\ FrameInv(2)'
  <2>1. FrameInv(1) /\ FrameInv(2)
    BY <1>1 DEF IInv
  <2>2. FrameInv(1)'
    BY <1>7, <2>1 DEF FrameInv
  <2>3. \A m \in 1 .. Len(sorted) : Key(2, sorted[m]) = top.last
    BY <1>2, <1>4, <2>1 DEF FrameInv
  <2>4. FrameInv(2)'
    BY <1>2, <1>5, <1>7, <2>1, <2>3 DEF FrameInv
  <2> QED
    BY <2>2, <2>4
<1>9. SplitInv'
  <2>1. /\ \A m \in 1 .. Len(group) : Hash[group[m]] = frames[1].last
        /\ \A m \in 1 .. Len(top.seq) : Hash[top.seq[m]] = frames[1].last
    BY <1>1, <1>2 DEF IInv, SplitInv
  <2>2. \A m \in 1 .. Len(sorted) : Hash[sorted[m]] = frames[1].last
    BY <1>4, <2>1
  <2> QED
    BY <1>5, <1>7, <2>1, <2>2 DEF SplitInv
<1>10. TypeOK' /\ PcInv' /\ Sound'
  BY <1>1, <1>2, <1>3, <1>4, <1>7, SoundUnchanged DEF IInv, TypeOK, PcInv, Sort
<1>11. \A k \in 1 .. depth' : k = 1 \/ k = 2
  BY <1>7
<1> QED
  BY <1>8, <1>9, <1>10, <1>11 DEF IInv

\* The pair at hand, when its turn to be compared has come.
LEMMA PairAtHand ==
    ASSUME IInv, Comparing
    PROVE  /\ i \in 1 .. Len(group) /\ j \in 1 .. Len(group)
           /\ group[i] \in Canonical /\ group[i] \in Seqs /\ group[j] \in Seqs
           /\ Cost[group[j]] < Cost[group[i]]
           /\ Hash[group[i]] = Hash[group[j]] /\ Rehash[group[i]] = Rehash[group[j]]
<1>1. pc = "compare" /\ i > 0 /\ group[i] \in Canonical /\ j < Limit
  BY DEF Comparing
<1>2. /\ depth = 2 /\ InOrder(Cost, group) /\ i <= Len(group) /\ j >= 1
      /\ i \in Nat /\ j \in Nat
  BY <1>1 DEF IInv, PcInv, TypeOK
<1>3. /\ group \in Seq(Seqs) /\ Len(group) \in Nat
      /\ group = frames[2].group
  BY <1>1, <1>2, TopFacts DEF IInv, top
<1>4. i \in 1 .. Len(group) /\ j \in Nat \ {0}
  BY <1>1, <1>2, <1>3
<1>5. j \in 1 .. Len(group) /\ Cost[group[j]] < Cost[group[i]]
  BY <1>1, <1>2, <1>3, <1>4, CheaperBeforeRun DEF Limit
<1>6. group[i] \in Seqs /\ group[j] \in Seqs
  BY <1>3, <1>4, <1>5, ElementOfSeq
<1>7. \A m \in 1 .. Len(group) : /\ Rehash[group[m]] = frames[2].last
                                 /\ Hash[group[m]] = frames[1].last
  BY <1>2, <1>3 DEF IInv, FrameInv, SplitInv, Key
<1> QED
  BY <1>1, <1>4, <1>5, <1>6, <1>7

LEMMA CompareStep == ASSUME IInv, Compare PROVE IInv'
<1> DEFINE s == group[i]
           r == group[j]
<1>1. /\ Comparing /\ PossibleByMasks(s, r)
      /\ frames' = frames /\ pc' = pc /\ table' = table /\ pending' = pending
      /\ i' \in {i, i - 1} /\ j' \in {1, j + 1}
  BY DEF Compare, NextOriginal, NextCandidate
<1>2. /\ i \in 1 .. Len(group) /\ j \in 1 .. Len(group)
      /\ s \in Canonical /\ s \in Seqs /\ r \in Seqs /\ Cost[r] < Cost[s]
      /\ Hash[s] = Hash[r] /\ Rehash[s] = Rehash[r]
  BY <1>1, PairAtHand
<1>3. \/ optimizations' = optimizations
      \/ optimizations' = Append(optimizations, <<s, r>>) /\ IsOptimization(s, r)
  <2>1. PICK answer \in equivalent(s, r) :
          \/ answer = "unsat" /\ optimizations' = Append(optimizations, <<s, r>>)
          \/ answer # "unsat" /\ optimizations' = optimizations
    BY DEF Compare
  <2>2. answer = "unsat" => Meaning[s] = Meaning[r]
    BY DEF equivalent
  <2> QED
    BY <1>1, <1>2, <2>1, <2>2 DEF IsOptimization, PossibleByMasks
<1>4. timed_out' = timed_out \/ timed_out' = Append(timed_out, <<s, r>>)
  BY DEF Compare
<1>5. <<s, r>> \in Seqs \X Seqs
  BY <1>2
<1> HIDE DEF s, r
<1>6. /\ optimizations \in Seq(Seqs \X Seqs) /\ timed_out \in Seq(Seqs \X Seqs)
      /\ Len(optimizations) \in Nat /\ DOMAIN optimizations = 1 .. Len(optimizations)
  BY LenProperties DEF IInv, TypeOK
<1>7. optimizations' \in Seq(Seqs \X Seqs) /\ timed_out' \in Seq(Seqs \X Seqs)
  <2>1. /\ Append(optimizations, <<s, r>>) \in Seq(Seqs \X Seqs)
        /\ Append(timed_out, <<s, r>>) \in Seq(Seqs \X Seqs)
    BY <1>5, <1>6, AppendProperties
  <2> QED
    BY <1>3, <1>4, <1>6, <2>1
<1>8. Sound'
  <2>1. CASE optimizations' = optimizations
    BY <2>1, SoundUnchanged
  <2>2. CASE optimizations' = Append(optimizations, <<s, r>>) /\ IsOptimization(s, r)
    <3>1. /\ Len(optimizations') = Len(optimizations) + 1
          /\ DOMAIN optimizations' = 1 .. Len(optimizations) + 1
          /\ \A k \in 1 .. Len(optimizations) : optimizations'[k] = optimizations[k]
          /\ optimizations'[Len(optimizations) + 1] = <<s, r>>
      BY <1>5, <1>6, <1>7, <2>2, AppendProperties, LenProperties
    <3> SUFFICES ASSUME NEW k \in 1 .. Len(optimizations) + 1
                 PROVE  IsOptimization(optimizations'[k][1], optimizations'[k][2])
      BY <3>1 DEF Sound, IsOptimization
    <3>2. CASE k <= Len(optimizations)
      BY <1>6, <3>1, <3>2 DEF IInv, Sound
    <3>3. CASE k = Len(optimizations) + 1
      BY <2>2, <3>1, <3>3
    <3> QED
      BY <1>6, <3>2, <3>3
  <2> QED
    BY <1>3, <2>1, <2>2
<1>9. TypeOK'
  BY <1>1, <1>2, <1>7 DEF IInv, TypeOK
<1>10. PcInv'
  <2>1. i' <= Len(group) /\ j' >= 1
    BY <1>1, <1>2
  <2> QED
    BY <1>1, <2>1, FramesUnchanged DEF IInv, PcInv, Comparing
<1> QED
  BY <1>1, <1>8, <1>9, <1>10, FramesUnchanged DEF IInv

LEMMA Inductive == IInv /\ [Next]_vars => IInv'
<1> SUFFICES ASSUME IInv, [Next]_vars PROVE IInv'
  OBVIOUS
<1>1. CASE RunComplete
  BY <1>1, FramesUnchanged, SoundUnchanged DEF RunComplete, IInv, TypeOK, PcInv
<1>2. CASE Skip
  BY <1>2, FramesUnchanged, SoundUnchanged DEF Skip, IInv, TypeOK, PcInv
<1>3. CASE SkipOriginal
  <2>1. i' \in Nat /\ i' <= i /\ j' = 1 /\ i \in Nat /\ frames' = frames
    BY <1>3 DEF SkipOriginal, NextOriginal, IInv, TypeOK
  <2>2. pc = "compare" /\ Len(group) \in Nat
    BY <1>3, TopFacts DEF SkipOriginal, IInv
  <2> QED
    BY <1>3, <2>1, <2>2, FramesUnchanged, SoundUnchanged
       DEF SkipOriginal, IInv, TypeOK, PcInv
<1>4. CASE SkipMasked
  BY <1>4, FramesUnchanged, SoundUnchanged
     DEF SkipMasked, NextCandidate, Comparing, IInv, TypeOK, PcInv
<1>5. CASE Compared
  BY <1>5, FramesUnchanged, SoundUnchanged DEF Compared, IInv, TypeOK, PcInv
<1>6. CASE UNCHANGED vars
  BY <1>6, FramesUnchanged, SoundUnchanged DEF vars, IInv, TypeOK, PcInv
<1> QED
  BY <1>1, <1>2, <1>3, <1>4, <1>5, <1>6, StartTaskStep, ExtendStep, NextRunStep,
     WorkerDoneStep, SplitStep, SortStep, CompareStep
     DEF Next, Scan, Process, Ended

LEMMA Invariance == Spec => []IInv
BY InitIInv, Inductive, PTL DEF Spec

\* Every variable keeps its type (enumerator.cpp:226-361).
THEOREM TypeCorrect == Spec => []TypeOK
<1>1. IInv => TypeOK
  BY DEF IInv
<1> QED
  BY <1>1, Invariance, PTL

\* The tasks share the table out run by run, whatever the number of tasks and
\* of hashes, divisible or not (enumerator.cpp:337-338, 370-381).
THEOREM RunsAreWhole == Spec => []OneTaskPerRun
<1> DEFINE T == table \in Seq(Seqs) /\ InOrder(Hash, table)
<1>1. Init => T
  <2> SUFFICES ASSUME Init PROVE T
    OBVIOUS
  <2>1. table \in Seq(Seqs)
    BY InitIInv DEF IInv, TypeOK
  <2> QED
    BY <2>1 DEF Init, Tables
<1>2. T /\ [Next]_vars => T'
  BY DEF Next, vars, StartTask, Scan, Extend, RunComplete, NextRun, WorkerDone,
         Process, Skip, Split, Sort, SkipOriginal, SkipMasked, Compare, Compared, Ended
<1>3. T => OneTaskPerRun
  <2> SUFFICES ASSUME T, NEW h \in 0 .. HashSpace - 1
               PROVE  \E t \in Task : \A p \in DOMAIN table, u \in Task :
                         Hash[table[p]] = h => (p \in Scanned(u) <=> u = t)
    BY DEF OneTaskPerRun
  <2>1. PICK t \in Task : \A u \in Task : h \in HashMin(u) .. HashMax(u) - 1 <=> u = t
    BY TasksPartitionHashes DEF EveryHashOnce
  <2>2. DOMAIN table = 1 .. Len(table)
    BY LenProperties
  <2> QED
    BY <2>1, <2>2, ScannedFacts
<1> QED
  BY <1>1, <1>2, <1>3, PTL DEF Spec

\* Everything recorded is an equivalent and strictly cheaper replacement of a
\* canonical sequence, over its operands (enumerator.cpp:297-332).
THEOREM OptimizationsAreSound == Spec => []Sound
<1>1. IInv => Sound
  BY DEF IInv
<1> QED
  BY <1>1, Invariance, PTL

-----------------------------------------------------------------------------
(* The refinement of Search.                                               *)

Elements(seq) == {seq[k] : k \in 1 .. Len(seq)}
Distinct(seq) == \A k, l \in 1 .. Len(seq) : seq[k] = seq[l] => k = l

-----------------------------------------------------------------------------
(* Orders of a sequence.                                                   *)

\* What maps the numbers up to n to different ones of them reaches them all.
LEMMA InjectionReachesAll ==
    ASSUME NEW n \in Nat, NEW p \in [1 .. n -> 1 .. n],
           \A k, l \in 1 .. n : p[k] = p[l] => k = l, NEW y \in 1 .. n
    PROVE  \E k \in 1 .. n : p[k] = y
<1> SUFFICES ASSUME \A k \in 1 .. n : p[k] # y PROVE FALSE
  OBVIOUS
<1> DEFINE S == 1 .. n
           T == S \ {y}
<1>1. IsFiniteSet(S) /\ Cardinality(S) = n
  BY FS_Interval
<1>2. IsFiniteSet(T) /\ Cardinality(T) = n - 1
  BY <1>1, FS_RemoveElement
<1>3. Cardinality(T) < Cardinality(S)
  BY <1>1, <1>2
<1>4. p \in [S -> T]
  OBVIOUS
<1>5. \A k, l \in S : p[k] = p[l] => k = l
  OBVIOUS
<1> HIDE DEF S, T
<1>6. \E k, l \in S : k # l /\ p[k] = p[l]
  <2>1. IsFiniteSet(S) /\ IsFiniteSet(T)
    BY <1>1, <1>2
  <2> QED
    BY ONLY <1>3, <1>4, <2>1, FS_PigeonHole, Zenon
<1> QED
  BY <1>5, <1>6

\* An order of a sequence has the same elements, and as often.
LEMMA OrdersKeepElements ==
    ASSUME NEW seq \in Seq(Seqs), NEW new \in Orders(seq)
    PROVE  /\ Elements(new) = Elements(seq)
           /\ Distinct(seq) => Distinct(new)
<1>1. /\ Len(seq) \in Nat /\ DOMAIN seq = 1 .. Len(seq)
      /\ \A l \in 1 .. Len(seq) : seq[l] \in Seqs
  BY LenProperties, ElementOfSeq
<1>2. PICK p \in [1 .. Len(seq) -> 1 .. Len(seq)] :
        /\ \A k, l \in 1 .. Len(seq) : p[k] = p[l] => k = l
        /\ new = [k \in 1 .. Len(seq) |-> seq[p[k]]]
  BY <1>1 DEF Orders
<1>3. Len(new) = Len(seq)
  BY OrdersFacts
<1>4. \A y \in 1 .. Len(seq) : \E k \in 1 .. Len(seq) : p[k] = y
  BY <1>1, <1>2, InjectionReachesAll
<1>5. \A k \in 1 .. Len(seq) : new[k] = seq[p[k]] /\ p[k] \in 1 .. Len(seq)
  BY <1>2
<1>6. Elements(new) = Elements(seq)
  <2>1. ASSUME NEW k \in 1 .. Len(seq) PROVE seq[k] \in Elements(new)
    <3>1. PICK l \in 1 .. Len(seq) : p[l] = k
      BY <1>4
    <3>2. new[l] = seq[k] /\ l \in 1 .. Len(new)
      BY <1>3, <1>5, <3>1
    <3> QED
      BY <3>2 DEF Elements
  <2>2. ASSUME NEW k \in 1 .. Len(new) PROVE new[k] \in Elements(seq)
    BY <1>3, <1>5 DEF Elements
  <2> QED
    BY <2>1, <2>2 DEF Elements
<1>7. ASSUME Distinct(seq) PROVE Distinct(new)
  <2> SUFFICES ASSUME NEW k \in 1 .. Len(seq), NEW l \in 1 .. Len(seq), new[k] = new[l]
               PROVE  k = l
    BY <1>3 DEF Distinct
  <2>1. seq[p[k]] = seq[p[l]]
    BY <1>5
  <2>2. p[k] = p[l]
    BY <1>5, <1>7, <2>1 DEF Distinct
  <2> QED
    BY <1>2, <2>2
<1> QED
  BY <1>6, <1>7

-----------------------------------------------------------------------------
(* One call of process_hashes_worker.                                      *)

\* The keys of the sequences before a position are less than those from it on.
Cut(k, f, c) ==
    \A p, q \in 1 .. Len(f.seq) : p < c /\ c <= q => Key(k, f.seq[p]) < Key(k, f.seq[q])

\* A worker whose table is in order and whose run holds what it has passed of
\* one key, once.
Shape(k, f) ==
    /\ 1 <= f.it /\ f.it <= f.end /\ f.end <= Len(f.seq) + 1
    /\ Distinct(f.seq) /\ Distinct(f.group)
    /\ \A p, q \in 1 .. Len(f.seq) : p < q => Key(k, f.seq[p]) <= Key(k, f.seq[q])
    /\ Cut(k, f, f.end)
    /\ \A m \in 1 .. Len(f.group) :
         /\ Key(k, f.group[m]) = f.last
         /\ \E p \in 1 .. Len(f.seq) : p < f.it /\ f.seq[p] = f.group[m]
    /\ \A p \in 1 .. Len(f.seq) :
         p < f.it /\ Key(k, f.seq[p]) = f.last => f.seq[p] \in Elements(f.group)

\* Between two runs, or within the run of the last key.
AtRun(k, f) ==
    Cut(k, f, f.it) \/ (f.it > 1 /\ Key(k, f.seq[f.it - 1]) = f.last)

LEMMA FrameFacts ==
    ASSUME NEW f \in FrameType
    PROVE  /\ f.seq \in Seq(Seqs) /\ Len(f.seq) \in Nat
           /\ f.group \in Seq(Seqs) /\ Len(f.group) \in Nat
           /\ f.it \in Nat /\ f.end \in Nat
           /\ \A p \in 1 .. Len(f.seq) : f.seq[p] \in Seqs
           /\ \A m \in 1 .. Len(f.group) : f.group[m] \in Seqs
<1>1. f.seq \in Seq(Seqs) /\ f.group \in Seq(Seqs) /\ f.it \in Nat /\ f.end \in Nat
  BY DEF FrameType
<1> QED
  BY <1>1, LenProperties, ElementOfSeq

LEMMA KeyType ==
    ASSUME NEW k, NEW s \in Seqs
    PROVE  Key(k, s) \in Nat /\ Key(k, s) \in 0 .. HashSpace - 1
BY HashAssumption DEF Key

\* The next sequence has the key of the run.
LEMMA ShapeExtend ==
    ASSUME NEW k, NEW f \in FrameType, Shape(k, f), f.it # f.end,
           Key(k, f.seq[f.it]) = f.last,
           NEW g \in FrameType, g.seq = f.seq, g.it = f.it + 1, g.end = f.end,
           g.last = f.last, g.group = Append(f.group, f.seq[f.it])
    PROVE  /\ Shape(k, g) /\ AtRun(k, g)
           /\ Elements(g.group) = Elements(f.group) \cup {f.seq[f.it]}
<1> DEFINE x == f.seq[f.it]
<1>1. /\ Len(f.seq) \in Nat /\ Len(f.group) \in Nat /\ f.it \in Nat /\ f.end \in Nat
      /\ f.group \in Seq(Seqs)
      /\ \A p \in 1 .. Len(f.seq) : f.seq[p] \in Seqs
  BY FrameFacts
<1>2. f.it \in 1 .. Len(f.seq) /\ f.it + 1 <= f.end /\ x \in Seqs
  BY <1>1 DEF Shape
<1>3. /\ Len(g.group) = Len(f.group) + 1
      /\ \A m \in 1 .. Len(f.group) : g.group[m] = f.group[m]
      /\ g.group[Len(f.group) + 1] = x
  BY <1>1, <1>2, AppendProperties
<1>4. \A m \in 1 .. Len(g.group) :
        m \in 1 .. Len(f.group) \/ m = Len(f.group) + 1
  BY <1>1, <1>3
<1>5. Elements(g.group) = Elements(f.group) \cup {x}
  <2>1. ASSUME NEW m \in 1 .. Len(g.group) PROVE g.group[m] \in Elements(f.group) \cup {x}
    BY <1>3, <1>4 DEF Elements
  <2>2. ASSUME NEW m \in 1 .. Len(f.group) PROVE f.group[m] \in Elements(g.group)
    <3>1. m \in 1 .. Len(g.group) /\ g.group[m] = f.group[m]
      BY <1>1, <1>3
    <3> QED
      BY <3>1 DEF Elements
  <2>3. x \in Elements(g.group)
    <3>1. Len(f.group) + 1 \in 1 .. Len(g.group)
      BY <1>1, <1>3
    <3> QED
      BY <1>3, <3>1 DEF Elements
  <2> QED
    BY <2>1, <2>2, <2>3 DEF Elements
<1>6. \A m \in 1 .. Len(f.group) : f.group[m] # x
  <2> SUFFICES ASSUME NEW m \in 1 .. Len(f.group), f.group[m] = x PROVE FALSE
    OBVIOUS
  <2>1. PICK p \in 1 .. Len(f.seq) : p < f.it /\ f.seq[p] = f.group[m]
    BY DEF Shape
  <2>2. p = f.it
    BY <1>2, <2>1 DEF Shape, Distinct
  <2> QED
    BY <1>1, <2>1, <2>2
<1>7. Distinct(g.group)
  <2> SUFFICES ASSUME NEW m \in 1 .. Len(g.group), NEW n \in 1 .. Len(g.group),
                      g.group[m] = g.group[n]
               PROVE  m = n
    BY DEF Distinct
  <2> QED
    BY <1>3, <1>4, <1>6 DEF Shape, Distinct
<1>8. \A m \in 1 .. Len(g.group) :
        /\ Key(k, g.group[m]) = g.last
        /\ \E p \in 1 .. Len(g.seq) : p < g.it /\ g.seq[p] = g.group[m]
  <2> SUFFICES ASSUME NEW m \in 1 .. Len(g.group)
               PROVE  /\ Key(k, g.group[m]) = f.last
                      /\ \E p \in 1 .. Len(f.seq) : p < f.it + 1 /\ f.seq[p] = g.group[m]
    OBVIOUS
  <2>1. CASE m \in 1 .. Len(f.group)
    <3>1. PICK p \in 1 .. Len(f.seq) : p < f.it /\ f.seq[p] = f.group[m]
      BY <2>1 DEF Shape
    <3>2. p < f.it + 1
      BY <1>1, <3>1
    <3> QED
      BY <1>3, <2>1, <3>1, <3>2 DEF Shape
  <2>2. CASE m = Len(f.group) + 1
    <3>1. f.it < f.it + 1
      BY <1>1
    <3> QED
      BY <1>2, <1>3, <2>2, <3>1
  <2> QED
    BY <1>4, <2>1, <2>2
<1>9. \A p \in 1 .. Len(g.seq) :
        p < g.it /\ Key(k, g.seq[p]) = g.last => g.seq[p] \in Elements(g.group)
  <2> SUFFICES ASSUME NEW p \in 1 .. Len(f.seq), p < f.it + 1, Key(k, f.seq[p]) = f.last
               PROVE  f.seq[p] \in Elements(f.group) \cup {x}
    BY <1>5
  <2>1. p < f.it \/ p = f.it
    BY <1>1
  <2> QED
    BY <2>1 DEF Shape
<1>10. Shape(k, g)
  <2>1. Cut(k, g, g.end)
    BY DEF Shape, Cut
  <2>2. 1 <= g.it /\ g.it <= g.end /\ g.end <= Len(g.seq) + 1
    BY <1>1, <1>2 DEF Shape
  <2> QED
    BY <1>7, <1>8, <1>9, <2>1, <2>2 DEF Shape
<1>11. AtRun(k, g)
  <2>1. g.it > 1 /\ g.it - 1 = f.it
    BY <1>1, <1>2
  <2> QED
    BY <2>1 DEF AtRun
<1> QED
  BY <1>5, <1>10, <1>11

\* The run is complete where the key changes or the worker's part ends.
LEMMA RunIsCut ==
    ASSUME NEW k, NEW f \in FrameType, Shape(k, f), AtRun(k, f),
           f.it = f.end \/ Key(k, f.seq[f.it]) # f.last
    PROVE  Cut(k, f, f.it)
<1>1. CASE Cut(k, f, f.it)
  BY <1>1
<1>2. CASE f.it = f.end
  BY <1>2 DEF Shape
<1>3. CASE /\ f.it > 1 /\ Key(k, f.seq[f.it - 1]) = f.last
           /\ f.it # f.end /\ Key(k, f.seq[f.it]) # f.last
  <2>1. /\ Len(f.seq) \in Nat /\ f.it \in Nat /\ f.end \in Nat
        /\ \A p \in 1 .. Len(f.seq) : Key(k, f.seq[p]) \in Nat
    BY FrameFacts, KeyType
  <2>2. f.it \in 1 .. Len(f.seq) /\ f.it - 1 \in 1 .. Len(f.seq)
    BY <1>3, <2>1 DEF Shape
  <2> SUFFICES ASSUME NEW p \in 1 .. Len(f.seq), NEW q \in 1 .. Len(f.seq),
                      p < f.it, f.it <= q
               PROVE  Key(k, f.seq[p]) < Key(k, f.seq[q])
    BY DEF Cut
  <2>3. p = f.it - 1 \/ p < f.it - 1
    BY <2>1
  <2>4. Key(k, f.seq[p]) <= Key(k, f.seq[f.it - 1])
    <3>1. CASE p = f.it - 1
      BY <2>1, <2>2, <3>1
    <3>2. CASE p < f.it - 1
      BY <2>2, <3>2 DEF Shape
    <3> QED
      BY <2>3, <3>1, <3>2
  <2>5. q = f.it \/ f.it < q
    BY <2>1
  <2>6. Key(k, f.seq[f.it]) <= Key(k, f.seq[q])
    <3>1. CASE q = f.it
      BY <2>1, <2>2, <3>1
    <3>2. CASE f.it < q
      BY <2>2, <3>2 DEF Shape
    <3> QED
      BY <2>5, <3>1, <3>2
  <2>7. f.it - 1 < f.it
    BY <2>1
  <2>8. Key(k, f.seq[f.it - 1]) <= Key(k, f.seq[f.it])
    BY <2>2, <2>7 DEF Shape
  <2>9. Key(k, f.seq[f.it - 1]) < Key(k, f.seq[f.it])
    BY <1>3, <2>1, <2>2, <2>8
  <2> QED
    BY <2>1, <2>2, <2>4, <2>6, <2>9
<1> QED
  BY <1>1, <1>2, <1>3 DEF AtRun

\* Then it holds every sequence that has its key.
LEMMA RunIsWhole ==
    ASSUME NEW k, NEW f \in FrameType, Shape(k, f), Cut(k, f, f.it),
           Len(f.group) # 0, NEW p \in 1 .. Len(f.seq), Key(k, f.seq[p]) = f.last
    PROVE  f.seq[p] \in Elements(f.group)
<1>1. /\ Len(f.seq) \in Nat /\ f.it \in Nat /\ Len(f.group) \in Nat
      /\ \A q \in 1 .. Len(f.seq) : Key(k, f.seq[q]) \in Nat
  BY FrameFacts, KeyType
<1>2. 1 \in 1 .. Len(f.group)
  BY <1>1
<1>3. PICK q \in 1 .. Len(f.seq) : q < f.it /\ f.seq[q] = f.group[1]
  BY <1>2 DEF Shape
<1>4. Key(k, f.seq[q]) = f.last
  BY <1>2, <1>3 DEF Shape
<1>5. ~(f.it <= p)
  <2> SUFFICES ASSUME f.it <= p PROVE FALSE
    OBVIOUS
  <2>1. Key(k, f.seq[q]) < Key(k, f.seq[p])
    BY <1>3 DEF Cut
  <2> QED
    BY <1>1, <1>4, <2>1
<1>6. p < f.it
  BY <1>1, <1>5
<1> QED
  BY <1>6 DEF Shape

\* The next run begins with the sequence at the iterator.
LEMMA ShapeNextRun ==
    ASSUME NEW k, NEW f \in FrameType, Shape(k, f), Cut(k, f, f.it), f.it # f.end,
           NEW g \in FrameType, g.seq = f.seq, g.it = f.it + 1, g.end = f.end,
           g.last = Key(k, f.seq[f.it]), g.group = <<f.seq[f.it]>>
    PROVE  Shape(k, g) /\ AtRun(k, g) /\ Elements(g.group) = {f.seq[f.it]}
<1> DEFINE x == f.seq[f.it]
<1>1. /\ Len(f.seq) \in Nat /\ f.it \in Nat /\ f.end \in Nat
      /\ \A p \in 1 .. Len(f.seq) : Key(k, f.seq[p]) \in Nat
  BY FrameFacts, KeyType
<1>2. f.it \in 1 .. Len(f.seq) /\ f.it + 1 <= f.end
  BY <1>1 DEF Shape
<1>3. Len(g.group) = 1 /\ g.group[1] = x
  OBVIOUS
<1>4. Elements(g.group) = {x}
  BY <1>3 DEF Elements
<1>5. Distinct(g.group)
  BY <1>3 DEF Distinct
<1>6. \A m \in 1 .. Len(g.group) :
        /\ Key(k, g.group[m]) = g.last
        /\ \E p \in 1 .. Len(g.seq) : p < g.it /\ g.seq[p] = g.group[m]
  <2>1. f.it < g.it
    BY <1>1
  <2> QED
    BY <1>2, <1>3, <2>1
<1>7. ASSUME NEW p \in 1 .. Len(g.seq), p < g.it, Key(k, g.seq[p]) = g.last
      PROVE  g.seq[p] \in Elements(g.group)
  <2>1. p = f.it \/ p < f.it
    BY <1>1, <1>7
  <2>2. ~(p < f.it)
    <3> SUFFICES ASSUME p < f.it PROVE FALSE
      OBVIOUS
    <3>1. f.it <= f.it
      BY <1>1
    <3>2. Key(k, f.seq[p]) < Key(k, x)
      BY <1>2, <1>7, <3>1 DEF Cut
    <3> QED
      BY <1>1, <1>2, <1>7, <3>2
  <2> QED
    BY <1>4, <2>1, <2>2
<1>8. Shape(k, g)
  <2>1. Cut(k, g, g.end)
    BY DEF Shape, Cut
  <2>2. 1 <= g.it /\ g.it <= g.end /\ g.end <= Len(g.seq) + 1
    BY <1>1, <1>2 DEF Shape
  <2> QED
    BY <1>5, <1>6, <1>7, <2>1, <2>2 DEF Shape
<1>9. AtRun(k, g)
  <2>1. g.it > 1 /\ g.it - 1 = f.it
    BY <1>1, <1>2
  <2> QED
    BY <2>1 DEF AtRun
<1> QED
  BY <1>4, <1>8, <1>9

\* The order of the run is of no consequence.
LEMMA ShapeReordered ==
    ASSUME NEW k, NEW f \in FrameType, Shape(k, f), NEW g \in FrameType,
           g.seq = f.seq, g.it = f.it, g.end = f.end, g.last = f.last,
           g.group \in Orders(f.group)
    PROVE  Shape(k, g) /\ Elements(g.group) = Elements(f.group)
<1>1. f.group \in Seq(Seqs)
  BY FrameFacts
<1>2. /\ Elements(g.group) = Elements(f.group)
      /\ Distinct(g.group)
  BY <1>1, OrdersKeepElements DEF Shape
<1>3. \A m \in 1 .. Len(g.group) : \E l \in 1 .. Len(f.group) : g.group[m] = f.group[l]
  BY <1>1, OrdersFacts
<1>4. \A m \in 1 .. Len(g.group) :
        /\ Key(k, g.group[m]) = g.last
        /\ \E p \in 1 .. Len(g.seq) : p < g.it /\ g.seq[p] = g.group[m]
  <2> SUFFICES ASSUME NEW m \in 1 .. Len(g.group)
               PROVE  /\ Key(k, g.group[m]) = f.last
                      /\ \E p \in 1 .. Len(f.seq) : p < f.it /\ f.seq[p] = g.group[m]
    OBVIOUS
  <2>1. PICK l \in 1 .. Len(f.group) : g.group[m] = f.group[l]
    BY <1>3
  <2> QED
    BY <2>1 DEF Shape
<1>5. Cut(k, g, g.end)
  BY DEF Shape, Cut
<1> QED
  BY <1>2, <1>4, <1>5 DEF Shape

LEMMA FirstFrame ==
    ASSUME table \in Seq(Seqs), Distinct(table), InOrder(Hash, table), NEW t \in Task,
           NEW f \in FrameType,
           f = Frame(table, First(table, HashMin(t)), PastLast(table, HashMax(t))),
           1 <= f.it, f.it <= f.end, f.end <= Len(table) + 1
    PROVE  /\ Shape(1, f) /\ AtRun(1, f)
           /\ \A p \in 1 .. Len(table) : f.it <= p /\ p < f.end <=> p \in Scanned(t)
<1>1. /\ f.seq = table /\ f.last = -1 /\ f.group = <<>>
      /\ f.it = First(table, HashMin(t)) /\ f.end = PastLast(table, HashMax(t))
  BY DEF Frame
<1>2. /\ Len(table) \in Nat /\ DOMAIN table = 1 .. Len(table)
      /\ f.it \in Nat /\ f.end \in Nat
      /\ \A p \in 1 .. Len(table) : table[p] \in Seqs /\ Hash[table[p]] \in Nat
  BY <1>1, FrameFacts, HashAssumption, LenProperties, ElementOfSeq
<1>3. \A p \in 1 .. Len(table) : f.it <= p /\ p < f.end <=> p \in Scanned(t)
  BY <1>1, <1>2 DEF Scanned
<1>4. /\ HashMin(t) \in Nat /\ HashMax(t) \in Nat /\ HashSpace \in Nat
      /\ HashMin(t) < HashSpace /\ HashMax(t) <= HashSpace
      /\ HashMin(t) % HashSpace = HashMin(t)
  <2>1. /\ HashMin(t) \in Nat /\ HashMax(t) \in Nat /\ HashSpace \in Nat
        /\ HashMin(t) < HashSpace /\ HashMax(t) <= HashSpace
    BY RangeFacts, HashAssumption
  <2> QED
    BY <2>1
<1>5. \A p \in 1 .. Len(table) : f.it <= p <=> HashMin(t) <= Hash[table[p]]
  BY <1>1, <1>4, FromLowerBound DEF First
<1>6. \A p \in 1 .. Len(table) : f.end <= p <=> HashMax(t) <= Hash[table[p]]
  <2>1. CASE HashMax(t) = HashSpace
    <3>1. \A p \in 1 .. Len(table) : Hash[table[p]] < HashSpace
      BY <1>2, HashAssumption
    <3> QED
      BY <1>1, <1>2, <1>4, <2>1, <3>1 DEF PastLast
  <2>2. CASE HashMax(t) # HashSpace
    <3>1. HashMax(t) % HashSpace = HashMax(t)
      BY <1>4, <2>2
    <3> QED
      BY <1>1, <1>4, <2>2, <3>1, FromLowerBound DEF PastLast
  <2> QED
    BY <2>1, <2>2
<1>7. Cut(1, f, f.it)
  <2> SUFFICES ASSUME NEW p \in 1 .. Len(table), NEW q \in 1 .. Len(table), p < f.it, f.it <= q
               PROVE  Hash[table[p]] < Hash[table[q]]
    BY <1>1 DEF Cut, Key
  <2>1. ~(HashMin(t) <= Hash[table[p]]) /\ HashMin(t) <= Hash[table[q]]
    BY <1>2, <1>5
  <2> QED
    BY <1>2, <1>4, <2>1
<1>8. Cut(1, f, f.end)
  <2> SUFFICES ASSUME NEW p \in 1 .. Len(table), NEW q \in 1 .. Len(table), p < f.end, f.end <= q
               PROVE  Hash[table[p]] < Hash[table[q]]
    BY <1>1 DEF Cut, Key
  <2>1. ~(HashMax(t) <= Hash[table[p]]) /\ HashMax(t) <= Hash[table[q]]
    BY <1>2, <1>6
  <2> QED
    BY <1>2, <1>4, <2>1
<1>9. Shape(1, f)
  <2>1. Len(f.group) = 0 /\ Distinct(f.group)
    BY <1>1 DEF Distinct
  <2>2. \A p, q \in 1 .. Len(f.seq) : p < q => Key(1, f.seq[p]) <= Key(1, f.seq[q])
    BY <1>1, <1>2 DEF InOrder, Key
  <2>3. \A p \in 1 .. Len(f.seq) : Key(1, f.seq[p]) # f.last
    <3>1. \A n \in Nat : n # -1
      OBVIOUS
    <3> QED
      BY <1>1, <1>2, <3>1 DEF Key
  <2> QED
    BY <1>1, <1>8, <2>1, <2>2, <2>3 DEF Shape
<1> QED
  BY <1>3, <1>7, <1>9 DEF AtRun

\* The table that try_split makes of a run.
LEMMA SplitFrame ==
    ASSUME NEW seq \in Seq(Seqs), Distinct(seq), NEW buckets \in Orders(seq),
           InOrder(Rehash, buckets), NEW f \in FrameType,
           f = Frame(buckets, 1, Len(buckets) + 1)
    PROVE  Shape(2, f) /\ AtRun(2, f) /\ Elements(f.seq) = Elements(seq)
<1>1. f.seq = buckets /\ f.last = -1 /\ f.group = <<>> /\ f.it = 1 /\ f.end = Len(buckets) + 1
  BY DEF Frame
<1>2. buckets \in Seq(Seqs) /\ Elements(buckets) = Elements(seq) /\ Distinct(buckets)
  BY OrdersFacts, OrdersKeepElements
<1>3. /\ Len(buckets) \in Nat /\ DOMAIN buckets = 1 .. Len(buckets)
      /\ \A p \in 1 .. Len(buckets) : buckets[p] \in Seqs /\ Rehash[buckets[p]] \in Nat
  BY <1>2, HashAssumption, LenProperties, ElementOfSeq
<1>4. Cut(2, f, f.it) /\ Cut(2, f, f.end)
  BY <1>1, <1>3 DEF Cut
<1>5. Len(f.group) = 0 /\ Distinct(f.group)
  BY <1>1 DEF Distinct
<1>6. \A p, q \in 1 .. Len(f.seq) : p < q => Key(2, f.seq[p]) <= Key(2, f.seq[q])
  <2> SUFFICES ASSUME NEW p \in 1 .. Len(buckets), NEW q \in 1 .. Len(buckets), p < q
               PROVE  Rehash[buckets[p]] <= Rehash[buckets[q]]
    BY <1>1 DEF Key
  <2> QED
    BY <1>3 DEF InOrder
<1>7. \A p \in 1 .. Len(f.seq) : ~(p < f.it)
  BY <1>1, <1>3
<1>8. 1 <= f.it /\ f.it <= f.end /\ f.end <= Len(f.seq) + 1
  BY <1>1, <1>3
<1>9. Shape(2, f)
  BY <1>1, <1>2, <1>4, <1>5, <1>6, <1>7, <1>8 DEF Shape
<1> QED
  BY <1>1, <1>2, <1>4, <1>9 DEF AtRun

-----------------------------------------------------------------------------
(* The inductive invariant.                                                *)

TableInv == Distinct(table) /\ InOrder(Hash, table)

RunsInv ==
    \A k \in 1 .. depth :
        /\ Shape(k, frames[k])
        /\ IF k = depth /\ pc = "scan" THEN AtRun(k, frames[k])
                                       ELSE Cut(k, frames[k], frames[k].it)

\* The second call works on the run of the first.
NestInv ==
    /\ depth >= 1 => frames[1].seq = table
    /\ depth = 2 => /\ Elements(frames[2].seq) = Elements(frames[1].group)
                    /\ Len(frames[1].group) # 0

InTask(t, s) == \E p \in 1 .. Len(table) : p \in Scanned(t) /\ table[p] = s

\* What the first call has, and what it still gets to, is of a task that was taken.
TaskInv ==
    depth >= 1 => \E t \in Task \ pending :
        /\ \A p \in 1 .. Len(table) :
             frames[1].it <= p /\ p < frames[1].end => p \in Scanned(t)
        /\ \A s \in Elements(frames[1].group) : InTask(t, s)

\* The sequences that the solver was asked about replacements of, with an answer
\* or without one.
Touched == {p[1] : p \in PairsOf(optimizations)} \cup {p[1] : p \in PairsOf(timed_out)}

\* Nothing is known yet of what comes later: the other tasks, the rest of the
\* tables, and the run that is being collected.
UntouchedInv ==
    /\ \A t \in pending, s \in Seqs : InTask(t, s) => s \notin Touched
    /\ \A k \in 1 .. depth : \A p \in 1 .. Len(frames[k].seq) :
         frames[k].it <= p /\ p < frames[k].end => frames[k].seq[p] \notin Touched
    /\ pc \in {"scan", "process"} => \A s \in Elements(group) : s \notin Touched

Better(s, r) ==
    Cost[r] < Cost[s] /\ Operands[r] \subseteq Operands[s] /\ Meaning[r] = Meaning[s]

\* Nor of the rest of the run that is being compared; of the original at hand the
\* candidates before j are known.
CompareInv ==
    pc = "compare" =>
        /\ \A m \in 1 .. Len(group) : m < i => group[m] \notin Touched
        /\ i > 0 =>
             /\ \A p \in PairsOf(optimizations) : p[1] # group[i]
             /\ \A p \in PairsOf(timed_out) :
                  p[1] = group[i] => \E m \in 1 .. Len(group) : m < j /\ p[2] = group[m]
             /\ \A m \in 1 .. Len(group) :
                  m < j /\ Better(group[i], group[m])
                    => <<group[i], group[m]>> \in PairsOf(timed_out)

JInv == /\ IInv
        /\ TableInv /\ RunsInv /\ NestInv /\ TaskInv
        /\ UntouchedInv /\ CompareInv
        /\ OnePerOriginal

-----------------------------------------------------------------------------
(* The initial states, and the steps that leave the frames alone.          *)

LEMMA InitJInv == Init => JInv
<1> SUFFICES ASSUME Init PROVE JInv
  OBVIOUS
<1>1. IInv
  BY InitIInv
<1>2. Cardinality(Seqs) \in Nat
  BY SeqAssumption, FS_CardinalityType
<1>3. /\ table \in [1 .. Cardinality(Seqs) -> Seqs] /\ InOrder(Hash, table)
      /\ \A s \in Seqs : \E k \in DOMAIN table : table[k] = s
  BY DEF Init, Tables
<1>4. table \in Seq(Seqs) /\ Len(table) = Cardinality(Seqs)
  BY <1>2, <1>3, SeqDef, LenProperties
<1>5. Distinct(table)
  <2> DEFINE S == 1 .. Cardinality(Seqs)
  <2>1. IsFiniteSet(S) /\ Cardinality(S) = Cardinality(Seqs)
    BY <1>2, FS_Interval
  <2>2. \A s \in Seqs : \E k \in S : table[k] = s
    BY <1>3
  <2>3. table \in [S -> Seqs]
    BY <1>3
  <2> HIDE DEF S
  <2>4. table \in Surjection(S, Seqs)
    BY <2>2, <2>3 DEF Surjection
  <2>5. table \in Injection(S, Seqs)
    BY ONLY <2>1, <2>4, FS_SurjSameCardinalityImpliesInj, Zenon
  <2>6. \A k, l \in S : table[k] = table[l] => k = l
    BY <2>3, <2>5 DEF Injection, IsInjective
  <2> QED
    BY <1>4, <2>6 DEF Distinct, S
<1>6. /\ depth = 0 /\ pc = "idle" /\ DOMAIN optimizations = {} /\ DOMAIN timed_out = {}
  BY DEF Init, depth
<1>7. PairsOf(optimizations) = {} /\ PairsOf(timed_out) = {} /\ Touched = {}
  BY <1>6 DEF PairsOf, Touched
<1>8. RunsInv /\ NestInv /\ TaskInv
  BY <1>6 DEF RunsInv, NestInv, TaskInv
<1>9. UntouchedInv /\ CompareInv /\ OnePerOriginal
  BY <1>6, <1>7 DEF UntouchedInv, CompareInv, OnePerOriginal
<1> QED
  BY <1>1, <1>3, <1>5, <1>8, <1>9 DEF JInv, TableInv

LEMMA DepthFacts ==
    ASSUME IInv
    PROVE  /\ depth = Len(frames) /\ depth \in {0, 1, 2} /\ (pc = "idle" <=> depth = 0)
           /\ \A k \in 1 .. depth : frames[k] \in FrameType
<1>1. depth = Len(frames) /\ Len(frames) \in Nat
  BY LenProperties DEF IInv, TypeOK, depth
<1>2. depth \in {0, 1, 2}
  BY <1>1 DEF IInv, PcInv
<1> QED
  BY <1>1, <1>2, ElementOfSeq DEF IInv, TypeOK, PcInv

\* A step that records nothing.
LEMMA NothingTouched ==
    ASSUME JInv, optimizations' = optimizations, timed_out' = timed_out
    PROVE  /\ Touched' = Touched /\ OnePerOriginal'
           /\ PairsOf(optimizations)' = PairsOf(optimizations)
           /\ PairsOf(timed_out)' = PairsOf(timed_out)
BY DEF JInv, Touched, PairsOf, OnePerOriginal

LEMMA FramesKept ==
    ASSUME JInv, frames' = frames, table' = table, pending' = pending
    PROVE  /\ TableInv' /\ NestInv' /\ TaskInv'
           /\ depth' = depth /\ group' = group /\ top' = top
<1>1. depth' = depth /\ group' = group /\ top' = top
  BY DEF depth, group, top
<1>2. TableInv' /\ NestInv'
  BY <1>1 DEF JInv, TableInv, NestInv
<1>3. \A t : Scanned(t)' = Scanned(t)
  BY DEF Scanned, First, PastLast
<1>4. \A t, s : InTask(t, s)' <=> InTask(t, s)
  BY <1>3 DEF InTask
<1>5. TaskInv'
  BY <1>1, <1>3, <1>4 DEF JInv, TaskInv
<1> QED
  BY <1>1, <1>2, <1>5

LEMMA RunsKept ==
    ASSUME JInv, frames' = frames, pc # "scan", pc' # "scan"
    PROVE  RunsInv'
<1>1. depth' = depth
  BY DEF depth
<1> QED
  BY <1>1 DEF JInv, RunsInv

\* A step that neither records nor takes on anything.
LEMMA UntouchedKept ==
    ASSUME JInv, optimizations' = optimizations, timed_out' = timed_out,
           frames' = frames, table' = table, pending' = pending,
           pc' \in {"scan", "process"} => pc \in {"scan", "process"}
    PROVE  UntouchedInv'
<1>1. Touched' = Touched /\ depth' = depth /\ group' = group
  BY NothingTouched, FramesKept
<1>2. \A t, s : InTask(t, s)' <=> InTask(t, s)
  BY DEF InTask, Scanned, First, PastLast
<1> QED
  BY <1>1, <1>2 DEF JInv, UntouchedInv

LEMMA RunCompleteStep == ASSUME JInv, RunComplete PROVE JInv'
<1>1. /\ pc = "scan" /\ ~SameRun /\ pc' = "process"
      /\ frames' = frames /\ table' = table /\ pending' = pending
      /\ optimizations' = optimizations /\ timed_out' = timed_out
  BY DEF RunComplete
<1>2. IInv'
  BY Inductive DEF JInv, Next, Scan
<1>3. depth' = depth /\ TableInv' /\ NestInv' /\ TaskInv'
  BY <1>1, FramesKept
<1>4. RunsInv'
  <2>1. depth \in 1 .. 2 /\ \A k \in 1 .. depth : frames[k] \in FrameType
    BY <1>1, DepthFacts DEF JInv
  <2>2. Cut(depth, top, top.it)
    <3>1. AtEnd \/ TopKey # top.last
      BY <1>1 DEF SameRun
    <3>2. Shape(depth, top) /\ AtRun(depth, top) /\ top \in FrameType
      BY <1>1, <2>1 DEF JInv, RunsInv, top
    <3> QED
      BY <3>1, <3>2, RunIsCut DEF AtEnd, TopKey
  <2>3. ASSUME NEW k \in 1 .. depth PROVE Cut(k, frames[k], frames[k].it)
    <3>1. CASE k = depth
      BY <2>2, <3>1 DEF top
    <3>2. CASE k # depth
      BY <3>2 DEF JInv, RunsInv
    <3> QED
      BY <3>1, <3>2
  <2> QED
    BY <1>1, <1>3, <2>3 DEF JInv, RunsInv
<1>5. UntouchedInv' /\ OnePerOriginal'
  BY <1>1, UntouchedKept, NothingTouched
<1>6. CompareInv'
  BY <1>1 DEF CompareInv
<1> QED
  BY <1>2, <1>3, <1>4, <1>5, <1>6 DEF JInv

LEMMA SkipStep == ASSUME JInv, Skip \/ Compared PROVE JInv'
<1>1. /\ pc \in {"process", "compare"} /\ pc' = "return"
      /\ frames' = frames /\ table' = table /\ pending' = pending
      /\ optimizations' = optimizations /\ timed_out' = timed_out
  BY DEF Skip, Compared
<1>2. IInv'
  BY Inductive DEF JInv, Next, Process
<1>3. CompareInv'
  BY <1>1 DEF CompareInv
<1> QED
  BY <1>1, <1>2, <1>3, FramesKept, RunsKept, UntouchedKept, NothingTouched DEF JInv

\* The loop goes on to the next original, with nothing recorded of the rest.
LEMMA SkipOriginalStep == ASSUME JInv, SkipOriginal PROVE JInv'
<1>1. /\ pc = "compare" /\ pc' = pc /\ i > 0 /\ i' = i - 1 /\ j' = 1
      /\ frames' = frames /\ table' = table /\ pending' = pending
      /\ optimizations' = optimizations /\ timed_out' = timed_out
  BY DEF SkipOriginal, NextOriginal
<1>2. IInv'
  BY Inductive DEF JInv, Next, Process
<1>3. i \in Nat /\ i <= Len(group) /\ Len(group) \in Nat
  BY <1>1, TopFacts DEF JInv, IInv, TypeOK, PcInv
<1>4. /\ \A m \in 1 .. Len(group) : m < i => group[m] \notin Touched
      /\ group' = group /\ Touched' = Touched
      /\ PairsOf(optimizations)' = PairsOf(optimizations)
      /\ PairsOf(timed_out)' = PairsOf(timed_out)
  BY <1>1, FramesKept, NothingTouched DEF JInv, CompareInv
<1>5. \A m \in 1 .. Len(group) : m < i - 1 => m < i
  BY <1>3
<1>6. \A m \in 1 .. Len(group) : ~(m < 1)
  BY <1>3
<1>7. i - 1 > 0 => i - 1 \in 1 .. Len(group) /\ i - 1 < i
  BY <1>3
<1>8. i - 1 > 0 => group[i - 1] \notin Touched
  BY <1>4, <1>7
<1>9. CompareInv'
  BY <1>1, <1>4, <1>5, <1>6, <1>8 DEF CompareInv, Touched
<1> QED
  BY <1>1, <1>2, <1>9, FramesKept, RunsKept, UntouchedKept, NothingTouched DEF JInv

\* A candidate over other operands cannot be a replacement.
LEMMA SkipMaskedStep == ASSUME JInv, SkipMasked PROVE JInv'
<1>1. /\ Comparing /\ pc = "compare" /\ pc' = pc /\ i' = i /\ i > 0 /\ j' = j + 1
      /\ ~PossibleByMasks(group[i], group[j])
      /\ frames' = frames /\ table' = table /\ pending' = pending
      /\ optimizations' = optimizations /\ timed_out' = timed_out
  BY DEF SkipMasked, NextCandidate, Comparing
<1>2. IInv'
  BY Inductive DEF JInv, Next, Process
<1>3. j \in Nat /\ Len(group) \in Nat
  BY <1>1, TopFacts DEF JInv, IInv, TypeOK
<1>4. group' = group /\ Touched' = Touched
      /\ PairsOf(optimizations)' = PairsOf(optimizations)
      /\ PairsOf(timed_out)' = PairsOf(timed_out)
  BY <1>1, FramesKept, NothingTouched
<1>5. \A m \in 1 .. Len(group) : m < j + 1 <=> m < j \/ m = j
  BY <1>3
<1>6. ~Better(group[i], group[j])
  BY <1>1 DEF Better, PossibleByMasks
<1>7. CompareInv'
  <2>1. CompareInv
    BY DEF JInv
  <2> QED
    BY <1>1, <1>4, <1>5, <1>6, <2>1 DEF CompareInv
<1> QED
  BY <1>1, <1>2, <1>7, FramesKept, RunsKept, UntouchedKept, NothingTouched DEF JInv

-----------------------------------------------------------------------------
(* The solver's answer.                                                    *)

LEMMA PairsOfAppend ==
    ASSUME NEW T, NEW list \in Seq(T), NEW x \in T
    PROVE  PairsOf(Append(list, x)) = PairsOf(list) \cup {x}
<1>1. /\ Len(list) \in Nat /\ DOMAIN list = 1 .. Len(list)
      /\ Append(list, x) \in Seq(T) /\ Len(Append(list, x)) = Len(list) + 1
      /\ \A k \in 1 .. Len(list) : Append(list, x)[k] = list[k]
      /\ Append(list, x)[Len(list) + 1] = x
  BY LenProperties, AppendProperties
<1>2. DOMAIN Append(list, x) = 1 .. Len(list) + 1
  BY <1>1, LenProperties
<1>3. \A k \in 1 .. Len(list) + 1 : k \in 1 .. Len(list) \/ k = Len(list) + 1
  BY <1>1
<1>4. ASSUME NEW k \in 1 .. Len(list) + 1 PROVE Append(list, x)[k] \in PairsOf(list) \cup {x}
  BY <1>1, <1>3 DEF PairsOf
<1>5. ASSUME NEW k \in 1 .. Len(list) PROVE list[k] \in PairsOf(Append(list, x))
  <2>1. k \in 1 .. Len(list) + 1
    BY <1>1
  <2> QED
    BY <1>1, <1>2, <2>1 DEF PairsOf
<1>6. x \in PairsOf(Append(list, x))
  <2>1. Len(list) + 1 \in 1 .. Len(list) + 1
    BY <1>1
  <2> QED
    BY <1>1, <1>2, <2>1 DEF PairsOf
<1>7. PairsOf(Append(list, x)) \subseteq PairsOf(list) \cup {x}
  BY <1>2, <1>4 DEF PairsOf
<1>8. PairsOf(list) \subseteq PairsOf(Append(list, x))
  BY <1>1, <1>5 DEF PairsOf
<1> QED
  BY <1>6, <1>7, <1>8

\* What is in a run does not come again.
LEMMA RunIsBehind ==
    ASSUME NEW k, NEW f \in FrameType, Shape(k, f), NEW s \in Elements(f.group),
           NEW q \in 1 .. Len(f.seq), f.it <= q
    PROVE  f.seq[q] # s
<1>1. PICK m \in 1 .. Len(f.group) : s = f.group[m]
  BY DEF Elements
<1>2. PICK p \in 1 .. Len(f.seq) : p < f.it /\ f.seq[p] = s
  BY <1>1 DEF Shape
<1>3. p # q
  BY <1>2, FrameFacts
<1> QED
  BY <1>2, <1>3 DEF Shape, Distinct

\* No sequence is in two tasks.
LEMMA TasksApart ==
    ASSUME table \in Seq(Seqs), TableInv, NEW t \in Task, NEW u \in Task,
           NEW s, InTask(t, s), InTask(u, s)
    PROVE  t = u
<1>1. PICK p \in 1 .. Len(table) : p \in Scanned(t) /\ table[p] = s
  BY DEF InTask
<1>2. PICK q \in 1 .. Len(table) : q \in Scanned(u) /\ table[q] = s
  BY DEF InTask
<1>3. p = q
  BY <1>1, <1>2 DEF TableInv, Distinct
<1>4. /\ Hash[table[p]] \in HashMin(t) .. HashMax(t) - 1
      /\ Hash[table[p]] \in HashMin(u) .. HashMax(u) - 1
  BY <1>1, <1>2, <1>3, ScannedFacts DEF TableInv
<1>5. Hash[table[p]] \in 0 .. HashSpace - 1
  BY <1>1, ElementOfSeq, HashAssumption
<1> QED
  BY <1>4, <1>5, TasksPartitionHashes DEF EveryHashOnce

\* The run being compared, and the call that found it.
LEMMA ComparingFacts ==
    ASSUME JInv, pc = "compare"
    PROVE  /\ depth = 2 /\ group = frames[2].group /\ frames[1].seq = table
           /\ frames[1] \in FrameType /\ frames[2] \in FrameType
           /\ Shape(1, frames[1]) /\ Cut(1, frames[1], frames[1].it)
           /\ Shape(2, frames[2]) /\ Cut(2, frames[2], frames[2].it)
           /\ Elements(frames[2].seq) = Elements(frames[1].group)
           /\ Len(frames[1].group) # 0
           /\ Elements(group) \subseteq Elements(frames[1].group)
<1>1. /\ depth = 2 /\ group = frames[2].group
      /\ frames[1] \in FrameType /\ frames[2] \in FrameType
  BY DepthFacts DEF JInv, IInv, PcInv, group, top
<1>2. /\ Shape(1, frames[1]) /\ Cut(1, frames[1], frames[1].it)
      /\ Shape(2, frames[2]) /\ Cut(2, frames[2], frames[2].it)
  BY <1>1 DEF JInv, RunsInv
<1>3. /\ frames[1].seq = table /\ Elements(frames[2].seq) = Elements(frames[1].group)
      /\ Len(frames[1].group) # 0
  BY <1>1 DEF JInv, NestInv
<1>4. Elements(group) \subseteq Elements(frames[2].seq)
  <2> SUFFICES ASSUME NEW m \in 1 .. Len(group) PROVE group[m] \in Elements(frames[2].seq)
    BY DEF Elements
  <2>1. PICK p \in 1 .. Len(frames[2].seq) : frames[2].seq[p] = group[m]
    BY <1>1, <1>2 DEF Shape
  <2> QED
    BY <2>1 DEF Elements
<1> QED
  BY <1>1, <1>2, <1>3, <1>4

\* The original at hand is nowhere that is still to come.
LEMMA OriginalIsBehind ==
    ASSUME JInv, pc = "compare", NEW s \in Elements(group)
    PROVE  /\ \A t \in pending : ~InTask(t, s)
           /\ \A k \in 1 .. depth : \A p \in 1 .. Len(frames[k].seq) :
                frames[k].it <= p => frames[k].seq[p] # s
<1>1. /\ depth = 2 /\ group = frames[2].group
      /\ frames[1] \in FrameType /\ frames[2] \in FrameType
      /\ Shape(1, frames[1]) /\ Shape(2, frames[2])
      /\ Elements(group) \subseteq Elements(frames[1].group)
  BY ComparingFacts
<1>2. PICK t \in Task \ pending : \A r \in Elements(frames[1].group) : InTask(t, r)
  BY <1>1 DEF JInv, TaskInv
<1>3. ASSUME NEW u \in pending, InTask(u, s) PROVE FALSE
  <2>1. u \in Task /\ table \in Seq(Seqs) /\ TableInv
    BY DEF JInv, IInv, TypeOK
  <2>2. InTask(t, s)
    BY <1>1, <1>2
  <2>3. t = u
    BY <1>3, <2>1, <2>2, TasksApart
  <2> QED
    BY <2>3
<1>4. ASSUME NEW k \in 1 .. depth, NEW p \in 1 .. Len(frames[k].seq), frames[k].it <= p
      PROVE  frames[k].seq[p] # s
  <2>1. CASE k = 1
    BY <1>1, <1>4, <2>1, RunIsBehind
  <2>2. CASE k = 2
    BY <1>1, <1>4, <2>2, RunIsBehind
  <2> QED
    BY <1>1, <2>1, <2>2
<1> QED
  BY <1>3, <1>4

\* What an answer adds to the record.
LEMMA AnswerFacts ==
    ASSUME JInv, Compare
    PROVE  LET s == group[i]
               r == group[j]
           IN  \/ /\ optimizations' = Append(optimizations, <<s, r>>)
                  /\ PairsOf(optimizations)' = PairsOf(optimizations) \cup {<<s, r>>}
                  /\ PairsOf(timed_out)' = PairsOf(timed_out)
                  /\ Meaning[s] = Meaning[r]
                  /\ NextOriginal
               \/ /\ PairsOf(timed_out)' = PairsOf(timed_out) \cup {<<s, r>>}
                  /\ optimizations' = optimizations
                  /\ NextCandidate
               \/ /\ timed_out' = timed_out /\ optimizations' = optimizations
                  /\ Meaning[s] # Meaning[r]
                  /\ NextCandidate
<1> DEFINE s == group[i]
           r == group[j]
<1>1. <<s, r>> \in Seqs \X Seqs
  BY PairAtHand DEF JInv, Compare
<1>2. optimizations \in Seq(Seqs \X Seqs) /\ timed_out \in Seq(Seqs \X Seqs)
  BY DEF JInv, IInv, TypeOK
<1> HIDE DEF s, r
<1>3. /\ PairsOf(Append(optimizations, <<s, r>>)) = PairsOf(optimizations) \cup {<<s, r>>}
      /\ PairsOf(Append(timed_out, <<s, r>>)) = PairsOf(timed_out) \cup {<<s, r>>}
  <2> DEFINE T == Seqs \X Seqs
             x == <<s, r>>
  <2>1. x \in T /\ optimizations \in Seq(T) /\ timed_out \in Seq(T)
    BY <1>1, <1>2
  <2> HIDE DEF T, x
  <2>2. /\ PairsOf(Append(optimizations, x)) = PairsOf(optimizations) \cup {x}
        /\ PairsOf(Append(timed_out, x)) = PairsOf(timed_out) \cup {x}
    BY <2>1, PairsOfAppend
  <2> QED
    BY <2>2 DEF x
<1>4. PICK answer \in equivalent(s, r) :
        \/ /\ answer = "unsat"
           /\ optimizations' = Append(optimizations, <<s, r>>)
           /\ NextOriginal /\ timed_out' = timed_out
        \/ /\ answer = "unknown"
           /\ timed_out' = Append(timed_out, <<s, r>>)
           /\ NextCandidate /\ optimizations' = optimizations
        \/ /\ answer = "sat"
           /\ NextCandidate /\ optimizations' = optimizations /\ timed_out' = timed_out
  BY DEF Compare, s, r
<1>5. /\ answer = "unsat" => Meaning[s] = Meaning[r]
      /\ answer = "sat" => Meaning[s] # Meaning[r]
  BY DEF equivalent
<1>6. CASE answer = "unsat"
  <2>1. /\ optimizations' = Append(optimizations, <<s, r>>)
        /\ NextOriginal /\ timed_out' = timed_out
    BY <1>4, <1>6
  <2>2. /\ PairsOf(optimizations)' = PairsOf(optimizations) \cup {<<s, r>>}
        /\ PairsOf(timed_out)' = PairsOf(timed_out)
    BY <1>3, <2>1 DEF PairsOf
  <2> QED
    BY <1>5, <1>6, <2>1, <2>2 DEF s, r
<1>7. CASE answer = "unknown"
  <2>1. /\ timed_out' = Append(timed_out, <<s, r>>)
        /\ NextCandidate /\ optimizations' = optimizations
    BY <1>4, <1>7
  <2>2. PairsOf(timed_out)' = PairsOf(timed_out) \cup {<<s, r>>}
    BY <1>3, <2>1 DEF PairsOf
  <2> QED
    BY <2>1, <2>2 DEF s, r
<1>8. CASE answer = "sat"
  BY <1>4, <1>5, <1>8 DEF s, r
<1> QED
  BY <1>4, <1>6, <1>7, <1>8

LEMMA CompareInvStep == ASSUME JInv, Compare PROVE CompareInv'
<1> DEFINE s == group[i]
           r == group[j]
<1>1. /\ pc = "compare" /\ pc' = "compare" /\ i > 0 /\ frames' = frames /\ table' = table
      /\ pending' = pending
  BY DEF Compare, Comparing
<1>2. i \in 1 .. Len(group) /\ j \in 1 .. Len(group) /\ Len(group) \in Nat
  BY <1>1, PairAtHand, TopFacts DEF JInv, IInv, Compare
<1>3. Distinct(group) /\ group' = group
  BY <1>1, ComparingFacts, FramesKept DEF Shape
<1>4. /\ \A m \in 1 .. Len(group) : m < i => group[m] \notin Touched
      /\ \A p \in PairsOf(optimizations) : p[1] # s
      /\ \A p \in PairsOf(timed_out) :
           p[1] = s => \E m \in 1 .. Len(group) : m < j /\ p[2] = group[m]
      /\ \A m \in 1 .. Len(group) :
           m < j /\ Better(s, group[m]) => <<s, group[m]>> \in PairsOf(timed_out)
  BY <1>1 DEF JInv, CompareInv
<1>5. \A m \in 1 .. Len(group) : m < i => group[m] # s
  BY <1>2, <1>3 DEF Distinct
<1>6. CASE /\ PairsOf(optimizations)' = PairsOf(optimizations) \cup {<<s, r>>}
           /\ PairsOf(timed_out)' = PairsOf(timed_out)
           /\ NextOriginal
  <2>1. i' = i - 1 /\ j' = 1
    BY <1>6 DEF NextOriginal
  <2>2. \A m \in 1 .. Len(group) : m < i => group[m] \notin Touched'
    BY <1>4, <1>5, <1>6 DEF Touched
  <2>3. /\ \A m \in 1 .. Len(group) : m < i - 1 => m < i
        /\ \A m \in 1 .. Len(group) : ~(m < 1)
        /\ i - 1 > 0 => i - 1 \in 1 .. Len(group) /\ i - 1 < i
    BY <1>2
  <2>4. i' > 0 => group'[i'] \notin Touched'
    BY <1>3, <2>1, <2>2, <2>3
  <2> QED
    BY <1>3, <2>1, <2>2, <2>3, <2>4 DEF CompareInv, Touched
<1>7. \A m \in 1 .. Len(group) : m < j + 1 <=> m < j \/ m = j
  BY <1>2
<1>8. CASE /\ PairsOf(timed_out)' = PairsOf(timed_out) \cup {<<s, r>>}
           /\ optimizations' = optimizations
           /\ NextCandidate
  <2>1. i' = i /\ j' = j + 1 /\ PairsOf(optimizations)' = PairsOf(optimizations)
    BY <1>8 DEF NextCandidate, PairsOf
  <2>2. \A m \in 1 .. Len(group) : m < i => group[m] \notin Touched'
    BY <1>4, <1>5, <1>8, <2>1 DEF Touched
  <2>3. \A p \in PairsOf(timed_out)' :
          p[1] = s => \E m \in 1 .. Len(group) : m < j + 1 /\ p[2] = group[m]
    <3> SUFFICES ASSUME NEW p \in PairsOf(timed_out) \cup {<<s, r>>}, p[1] = s
                 PROVE  \E m \in 1 .. Len(group) : m < j + 1 /\ p[2] = group[m]
      BY <1>8
    <3>1. CASE p \in PairsOf(timed_out)
      BY <1>4, <1>7, <3>1
    <3>2. CASE p = <<s, r>>
      BY <1>2, <1>7, <3>2
    <3> QED
      BY <3>1, <3>2
  <2>4. \A m \in 1 .. Len(group) :
          m < j + 1 /\ Better(s, group[m]) => <<s, group[m]>> \in PairsOf(timed_out)'
    BY <1>4, <1>7, <1>8
  <2> QED
    BY <1>3, <1>4, <2>1, <2>2, <2>3, <2>4 DEF CompareInv
<1>9. CASE /\ timed_out' = timed_out /\ optimizations' = optimizations
           /\ Meaning[s] # Meaning[r]
           /\ NextCandidate
  <2>1. /\ i' = i /\ j' = j + 1 /\ PairsOf(optimizations)' = PairsOf(optimizations)
        /\ PairsOf(timed_out)' = PairsOf(timed_out) /\ Touched' = Touched
    BY <1>9, NothingTouched DEF NextCandidate
  <2>2. ~Better(s, r)
    BY <1>9 DEF Better
  <2> QED
    BY <1>3, <1>4, <1>7, <2>1, <2>2 DEF CompareInv
<1> QED
  BY <1>6, <1>8, <1>9, AnswerFacts

LEMMA CompareStepJ == ASSUME JInv, Compare PROVE JInv'
<1> DEFINE s == group[i]
           r == group[j]
<1>1. /\ pc = "compare" /\ pc' = "compare" /\ frames' = frames /\ table' = table
      /\ pending' = pending /\ Comparing
  BY DEF Compare, Comparing
<1>2. IInv'
  BY Inductive DEF JInv, Next, Process
<1>3. Touched' \subseteq Touched \cup {s}
  <2>1. /\ PairsOf(optimizations)' \subseteq PairsOf(optimizations) \cup {<<s, r>>}
        /\ PairsOf(timed_out)' \subseteq PairsOf(timed_out) \cup {<<s, r>>}
    BY AnswerFacts DEF PairsOf
  <2> QED
    BY <2>1 DEF Touched
<1>4. s \in Elements(group)
  BY <1>1, PairAtHand DEF JInv, Elements
<1>5. UntouchedInv'
  <2>1. depth' = depth /\ group' = group
    BY <1>1, FramesKept
  <2>2. \A t, q : InTask(t, q)' <=> InTask(t, q)
    BY <1>1 DEF InTask, Scanned, First, PastLast
  <2>3. /\ \A t \in pending : ~InTask(t, s)
        /\ \A k \in 1 .. depth : \A p \in 1 .. Len(frames[k].seq) :
             frames[k].it <= p => frames[k].seq[p] # s
    BY <1>1, <1>4, OriginalIsBehind
  <2>4. UntouchedInv
    BY DEF JInv
  <2>5. \A t \in pending, q \in Seqs : InTask(t, q) => q \notin Touched'
    BY <1>3, <2>3, <2>4 DEF UntouchedInv
  <2>6. \A k \in 1 .. depth : \A p \in 1 .. Len(frames[k].seq) :
          frames[k].it <= p /\ p < frames[k].end => frames[k].seq[p] \notin Touched'
    BY <1>3, <2>3, <2>4 DEF UntouchedInv
  <2> QED
    BY <1>1, <2>1, <2>2, <2>5, <2>6 DEF UntouchedInv
<1>6. OnePerOriginal'
  <2>1. CASE optimizations' = optimizations
    BY <2>1 DEF JInv, OnePerOriginal
  <2>2. CASE optimizations' = Append(optimizations, <<s, r>>)
    <3>1. \A p \in PairsOf(optimizations) : p[1] # s
      BY <1>1 DEF JInv, CompareInv, Comparing
    <3>2. /\ Len(optimizations) \in Nat /\ DOMAIN optimizations = 1 .. Len(optimizations)
          /\ optimizations \in Seq(Seqs \X Seqs)
      BY LenProperties DEF JInv, IInv, TypeOK
    <3>3. <<s, r>> \in Seqs \X Seqs
      BY <1>1, PairAtHand DEF JInv
    <3>4. /\ optimizations' \in Seq(Seqs \X Seqs)
          /\ Len(optimizations') = Len(optimizations) + 1
          /\ \A k \in 1 .. Len(optimizations) : optimizations'[k] = optimizations[k]
          /\ optimizations'[Len(optimizations) + 1] = <<s, r>>
      BY <2>2, <3>2, <3>3, AppendProperties
    <3>5. DOMAIN optimizations' = 1 .. Len(optimizations) + 1
      BY <3>4, LenProperties
    <3>6. \A k \in 1 .. Len(optimizations) : optimizations[k][1] # s
      BY <3>1, <3>2 DEF PairsOf
    <3>7. \A k \in 1 .. Len(optimizations) + 1 :
            k \in 1 .. Len(optimizations) \/ k = Len(optimizations) + 1
      BY <3>2
    <3> SUFFICES ASSUME NEW k \in 1 .. Len(optimizations) + 1,
                        NEW l \in 1 .. Len(optimizations) + 1,
                        optimizations'[k][1] = optimizations'[l][1]
                 PROVE  k = l
      BY <3>5 DEF OnePerOriginal
    <3>8. optimizations'[Len(optimizations) + 1][1] = s
      BY <3>4
    <3> HIDE DEF s, r
    <3>9. CASE k \in 1 .. Len(optimizations) /\ l \in 1 .. Len(optimizations)
      BY <3>2, <3>4, <3>9 DEF JInv, OnePerOriginal
    <3> QED
      BY <3>4, <3>6, <3>7, <3>8, <3>9
  <2> QED
    BY <2>1, <2>2, AnswerFacts
<1> QED
  BY <1>1, <1>2, <1>5, <1>6, CompareInvStep, FramesKept, RunsKept DEF JInv

-----------------------------------------------------------------------------
(* The steps that change the frames.                                       *)

\* The innermost frame passes one sequence.
LEMMA AdvanceStep ==
    ASSUME JInv, pc # "idle", ~AtEnd, NEW g \in FrameType, frames' = SetTop(g),
           g.seq = top.seq, g.it = top.it + 1, g.end = top.end,
           Shape(depth, g), AtRun(depth, g),
           \A e \in Elements(g.group) :
             e = top.seq[top.it] \/ (pc = "scan" /\ e \in Elements(group)),
           pc' = "scan", table' = table, pending' = pending,
           optimizations' = optimizations, timed_out' = timed_out
    PROVE  /\ TableInv' /\ RunsInv' /\ NestInv' /\ TaskInv'
           /\ UntouchedInv' /\ CompareInv' /\ OnePerOriginal'
<1> DEFINE x == top.seq[top.it]
<1>1. /\ depth \in 1 .. 2 /\ top = frames[depth] /\ group = top.group
      /\ \A k \in 1 .. depth : frames[k] \in FrameType
  BY DepthFacts DEF JInv, top, group
<1>2. /\ depth' = depth /\ group' = g.group /\ frames'[depth] = g
      /\ \A k \in 1 .. depth : k # depth => frames'[k] = frames[k]
  BY SetTopFacts DEF JInv, IInv
<1>3. /\ top.it \in Nat /\ top.end \in Nat /\ Len(top.seq) \in Nat
      /\ top.it \in 1 .. Len(top.seq) /\ top.it < top.end
  BY <1>1, AtIterator, FrameFacts DEF JInv
<1>4. RunsInv'
  <2>1. RunsInv
    BY DEF JInv
  <2>2. ASSUME NEW k \in 1 .. depth
        PROVE  /\ Shape(k, frames'[k])
               /\ IF k = depth THEN AtRun(k, frames'[k])
                               ELSE Cut(k, frames'[k], frames'[k].it)
    <3>1. CASE k = depth
      BY <1>2, <3>1
    <3>2. CASE k # depth
      BY <1>2, <2>1, <3>2 DEF RunsInv
    <3> QED
      BY <3>1, <3>2
  <2> QED
    BY <1>2, <2>2 DEF RunsInv
<1>5. NestInv'
  <2>1. CASE depth = 1
    BY <1>1, <1>2, <2>1 DEF JInv, NestInv
  <2>2. CASE depth = 2
    BY <1>1, <1>2, <2>2 DEF JInv, NestInv
  <2> QED
    BY <1>1, <2>1, <2>2
<1>6. \A t, s : Scanned(t)' = Scanned(t) /\ (InTask(t, s)' <=> InTask(t, s))
  BY DEF InTask, Scanned, First, PastLast
<1>7. TaskInv'
  <2>1. CASE depth = 1
    <3>1. frames[1].seq = table /\ frames[1] = top /\ frames'[1] = g
      BY <1>1, <1>2, <2>1 DEF JInv, NestInv
    <3>2. PICK t \in Task \ pending :
            /\ \A p \in 1 .. Len(table) :
                 frames[1].it <= p /\ p < frames[1].end => p \in Scanned(t)
            /\ \A s \in Elements(frames[1].group) : InTask(t, s)
      BY <2>1 DEF JInv, TaskInv
    <3>3. InTask(t, x)
      <4>1. top.it \in 1 .. Len(table) /\ top.it \in Scanned(t)
        BY <1>3, <3>1, <3>2
      <4> QED
        BY <3>1, <4>1 DEF InTask
    <3>4. \A s \in Elements(g.group) : InTask(t, s)
      BY <1>1, <3>1, <3>2, <3>3
    <3>5. \A p \in 1 .. Len(table) : g.it <= p /\ p < g.end => p \in Scanned(t)
      <4> SUFFICES ASSUME NEW p \in 1 .. Len(table), g.it <= p, p < g.end
                   PROVE  p \in Scanned(t)
        OBVIOUS
      <4>1. top.it <= p /\ p < top.end
        BY <1>3, FrameFacts
      <4> QED
        BY <3>1, <3>2, <4>1
    <3> QED
      BY <1>2, <1>6, <2>1, <3>1, <3>4, <3>5 DEF TaskInv
  <2>2. CASE depth = 2
    <3>1. frames'[1] = frames[1]
      BY <1>2, <2>2
    <3> QED
      BY <1>2, <1>6, <2>2, <3>1 DEF JInv, TaskInv
  <2> QED
    BY <1>1, <2>1, <2>2
<1>8. UntouchedInv'
  <2>1. UntouchedInv /\ Touched' = Touched
    BY NothingTouched DEF JInv
  <2>2. x \notin Touched
    <3>1. top.it <= top.it
      BY <1>3
    <3> QED
      BY <1>1, <1>3, <2>1, <3>1 DEF UntouchedInv
  <2>3. \A s \in Elements(g.group) : s \notin Touched
    BY <2>1, <2>2 DEF UntouchedInv
  <2>4. \A p \in 1 .. Len(g.seq) : g.it <= p /\ p < g.end => g.seq[p] \notin Touched
    <3> SUFFICES ASSUME NEW p \in 1 .. Len(top.seq), top.it + 1 <= p, p < top.end
                 PROVE  top.seq[p] \notin Touched
      OBVIOUS
    <3>1. top.it <= p
      BY <1>3
    <3> QED
      BY <1>1, <2>1, <3>1 DEF UntouchedInv
  <2>5. ASSUME NEW k \in 1 .. depth, NEW p \in 1 .. Len(frames'[k].seq),
               frames'[k].it <= p, p < frames'[k].end
        PROVE  frames'[k].seq[p] \notin Touched
    <3>1. CASE k = depth
      BY <1>2, <2>4, <2>5, <3>1
    <3>2. CASE k # depth
      BY <1>2, <2>1, <2>5, <3>2 DEF UntouchedInv
    <3> QED
      BY <3>1, <3>2
  <2> QED
    BY <1>2, <1>6, <2>1, <2>3, <2>5 DEF UntouchedInv
<1>9. TableInv' /\ CompareInv' /\ OnePerOriginal'
  BY NothingTouched DEF JInv, TableInv, CompareInv
<1> QED
  BY <1>4, <1>5, <1>7, <1>8, <1>9

LEMMA ExtendStepJ == ASSUME JInv, Extend PROVE JInv'
<1> DEFINE g == [top EXCEPT !.it = @ + 1, !.group = Append(@, top.seq[top.it])]
<1>1. /\ pc = "scan" /\ pc' = "scan" /\ ~AtEnd /\ TopKey = top.last /\ frames' = SetTop(g)
      /\ table' = table /\ pending' = pending
      /\ optimizations' = optimizations /\ timed_out' = timed_out
  BY DEF Extend, SameRun
<1>2. /\ depth \in 1 .. 2 /\ top = frames[depth] /\ top \in FrameType
      /\ group = top.group /\ Shape(depth, top)
  BY <1>1, DepthFacts DEF JInv, RunsInv, top, group
<1>3. /\ top.seq[top.it] \in Seqs /\ TopKey = Key(depth, top.seq[top.it])
      /\ group \in Seq(Seqs) /\ top.it \in Nat
  BY <1>1, <1>2, AtIterator, FrameFacts DEF JInv
<1>4. /\ g.seq = top.seq /\ g.it = top.it + 1 /\ g.end = top.end /\ g.last = top.last
      /\ g.group = Append(top.group, top.seq[top.it]) /\ g \in FrameType
  <2>1. Append(top.group, top.seq[top.it]) \in Seq(Seqs) /\ top.it + 1 \in Nat
    BY <1>2, <1>3, AppendProperties
  <2> QED
    BY <1>2, <2>1 DEF FrameType
<1> HIDE DEF g
<1>5. /\ Shape(depth, g) /\ AtRun(depth, g)
      /\ Elements(g.group) = Elements(group) \cup {top.seq[top.it]}
  <2>1. top.it # top.end /\ Key(depth, top.seq[top.it]) = top.last
    BY <1>1, <1>3 DEF AtEnd
  <2>2. /\ Shape(depth, g) /\ AtRun(depth, g)
        /\ Elements(g.group) = Elements(top.group) \cup {top.seq[top.it]}
    BY <1>2, <1>4, <2>1, ShapeExtend
  <2> QED
    BY <1>2, <2>2
<1>6. IInv'
  BY Inductive DEF JInv, Next, Scan
<1> QED
  BY <1>1, <1>4, <1>5, <1>6, AdvanceStep DEF JInv

LEMMA NextRunStepJ == ASSUME JInv, NextRun PROVE JInv'
<1> DEFINE g == [top EXCEPT !.it = @ + 1, !.last = TopKey, !.group = <<top.seq[top.it]>>]
<1>1. /\ pc = "return" /\ pc' = "scan" /\ ~AtEnd /\ frames' = SetTop(g)
      /\ table' = table /\ pending' = pending
      /\ optimizations' = optimizations /\ timed_out' = timed_out
  BY DEF NextRun
<1>2. /\ depth \in 1 .. 2 /\ top = frames[depth] /\ top \in FrameType
      /\ Shape(depth, top) /\ Cut(depth, top, top.it)
  BY <1>1, DepthFacts DEF JInv, RunsInv, top
<1>3. /\ top.seq[top.it] \in Seqs /\ TopKey = Key(depth, top.seq[top.it])
      /\ TopKey \in -1 .. HashSpace - 1 /\ top.it \in Nat
  BY <1>1, <1>2, AtIterator, FrameFacts, HashAssumption DEF JInv
<1>4. /\ g.seq = top.seq /\ g.it = top.it + 1 /\ g.end = top.end /\ g.last = TopKey
      /\ g.group = <<top.seq[top.it]>> /\ g \in FrameType
  <2>1. <<top.seq[top.it]>> \in Seq(Seqs) /\ top.it + 1 \in Nat
    BY <1>3
  <2> QED
    BY <1>2, <1>3, <2>1 DEF FrameType
<1> HIDE DEF g
<1>5. /\ Shape(depth, g) /\ AtRun(depth, g)
      /\ Elements(g.group) = {top.seq[top.it]}
  BY <1>1, <1>2, <1>3, <1>4, ShapeNextRun DEF AtEnd
<1>6. IInv'
  BY Inductive DEF JInv, Next, Scan
<1> QED
  BY <1>1, <1>4, <1>5, <1>6, AdvanceStep DEF JInv

LEMMA StartTaskStepJ == ASSUME JInv, NEW t \in Task, StartTask(t) PROVE JInv'
<1> DEFINE f == Frame(table, First(table, HashMin(t)), PastLast(table, HashMax(t)))
<1>1. /\ pc = "idle" /\ pc' = "scan" /\ t \in pending /\ pending' = pending \ {t}
      /\ frames' = <<f>> /\ table' = table
      /\ optimizations' = optimizations /\ timed_out' = timed_out
  BY DEF StartTask
<1>2. IInv'
  BY Inductive DEF JInv, Next
<1>3. Len(frames') = 1 /\ frames'[1] = f
  BY <1>1
<1> HIDE DEF f
<1>4. /\ depth' = 1 /\ f \in FrameType /\ group' = f.group
      /\ 1 <= f.it /\ f.it <= f.end /\ f.end <= Len(f.seq) + 1
  <2>1. depth' = 1
    BY <1>3 DEF depth
  <2>2. f \in FrameType
    <3>1. frames' \in Seq(FrameType)
      BY <1>2 DEF IInv, TypeOK
    <3>2. frames'[1] \in FrameType
      BY <1>3, <3>1, ElementOfSeq
    <3> QED
      BY <1>3, <3>2
  <2>3. (FrameInv(1))'
    BY <1>2, <2>1 DEF IInv
  <2> QED
    BY <1>3, <2>1, <2>2, <2>3 DEF FrameInv, group, top
<1>5. f.seq = table /\ f.group = <<>>
  BY DEF f, Frame
<1>6. table \in Seq(Seqs) /\ TableInv /\ Len(table) \in Nat
  BY LenProperties DEF JInv, IInv, TypeOK
<1>7. /\ Shape(1, f) /\ AtRun(1, f)
      /\ \A p \in 1 .. Len(table) : f.it <= p /\ p < f.end <=> p \in Scanned(t)
  <2>1. f = Frame(table, First(table, HashMin(t)), PastLast(table, HashMax(t)))
    BY DEF f
  <2> QED
    BY <1>4, <1>5, <1>6, <2>1, FirstFrame DEF TableInv
<1>8. Elements(f.group) = {}
  BY <1>5 DEF Elements
<1>9. RunsInv'
  BY <1>1, <1>3, <1>4, <1>7 DEF RunsInv
<1>10. NestInv'
  BY <1>1, <1>3, <1>4, <1>5 DEF NestInv
<1>11. \A u, s : Scanned(u)' = Scanned(u) /\ (InTask(u, s)' <=> InTask(u, s))
  BY <1>1 DEF InTask, Scanned, First, PastLast
<1>12. TaskInv'
  <2>1. t \in Task \ pending'
    BY <1>1
  <2> QED
    BY <1>1, <1>3, <1>4, <1>7, <1>8, <1>11, <2>1 DEF TaskInv
<1>13. UntouchedInv'
  <2>1. UntouchedInv /\ Touched' = Touched
    BY <1>1, NothingTouched DEF JInv
  <2>2. ASSUME NEW p \in 1 .. Len(f.seq), f.it <= p, p < f.end PROVE f.seq[p] \notin Touched
    <3>1. InTask(t, f.seq[p])
      BY <1>5, <1>7, <2>2 DEF InTask
    <3>2. f.seq[p] \in Seqs
      BY <1>4, <2>2, FrameFacts
    <3> QED
      BY <1>1, <2>1, <3>1, <3>2 DEF UntouchedInv
  <2>3. \A u \in pending', s \in Seqs : InTask(u, s) => s \notin Touched
    BY <1>1, <2>1 DEF UntouchedInv
  <2> QED
    BY <1>3, <1>4, <1>8, <1>11, <2>1, <2>2, <2>3 DEF UntouchedInv
<1>14. TableInv' /\ CompareInv' /\ OnePerOriginal'
  BY <1>1, NothingTouched DEF JInv, TableInv, CompareInv
<1> QED
  BY <1>2, <1>9, <1>10, <1>12, <1>13, <1>14 DEF JInv

LEMMA WorkerDoneStepJ == ASSUME JInv, WorkerDone PROVE JInv'
<1>1. /\ pc = "return" /\ frames' = SubSeq(frames, 1, depth - 1)
      /\ pc' = IF depth = 1 THEN "idle" ELSE "return"
      /\ table' = table /\ pending' = pending
      /\ optimizations' = optimizations /\ timed_out' = timed_out
  BY DEF WorkerDone
<1>2. IInv'
  BY Inductive DEF JInv, Next, Scan
<1>3. depth \in 1 .. 2 /\ depth = Len(frames) /\ frames \in Seq(FrameType)
  BY <1>1, DepthFacts DEF JInv, IInv, TypeOK
<1>4. /\ Len(frames') = depth - 1
      /\ \A k \in 1 .. depth - 1 : frames'[k] = frames[k]
  <2>1. \A k \in 1 .. depth - 1 : frames[k] \in FrameType
    BY <1>3, ElementOfSeq
  <2>2. 1 \in Int /\ depth - 1 \in Int
    BY <1>3
  <2>3. /\ Len(SubSeq(frames, 1, depth - 1)) =
             IF 1 <= depth - 1 THEN depth - 1 - 1 + 1 ELSE 0
        /\ \A k \in 1 .. depth - 1 - 1 + 1 :
             SubSeq(frames, 1, depth - 1)[k] = frames[1 + k - 1]
    BY <2>1, <2>2, SubSeqProperties
  <2> QED
    BY <1>1, <1>3, <2>3
<1>5. depth' = depth - 1 /\ \A k \in 1 .. depth' : k \in 1 .. depth /\ k # depth
  BY <1>3, <1>4 DEF depth
<1>6. RunsInv'
  BY <1>1, <1>4, <1>5 DEF JInv, RunsInv
<1>7. \A u, s : Scanned(u)' = Scanned(u) /\ (InTask(u, s)' <=> InTask(u, s))
  BY <1>1 DEF InTask, Scanned, First, PastLast
<1>8. NestInv' /\ TaskInv'
  <2>1. CASE depth = 1
    BY <1>5, <2>1 DEF NestInv, TaskInv
  <2>2. CASE depth = 2
    <3>1. depth' = 1 /\ frames'[1] = frames[1]
      BY <1>4, <1>5, <2>2
    <3> QED
      BY <1>1, <1>7, <2>2, <3>1 DEF JInv, NestInv, TaskInv
  <2> QED
    BY <1>3, <2>1, <2>2
<1>9. UntouchedInv'
  <2>1. UntouchedInv /\ Touched' = Touched
    BY <1>1, NothingTouched DEF JInv
  <2>2. pc' \notin {"scan", "process"}
    BY <1>1
  <2> QED
    BY <1>1, <1>4, <1>5, <1>7, <2>1, <2>2 DEF UntouchedInv
<1>10. TableInv' /\ CompareInv' /\ OnePerOriginal'
  BY <1>1, NothingTouched DEF JInv, TableInv, CompareInv
<1> QED
  BY <1>2, <1>6, <1>8, <1>9, <1>10 DEF JInv


\* The run goes into a table of its own.
LEMMA SplitStepJ == ASSUME JInv, Split PROVE JInv'
<1>1. /\ pc = "process" /\ pc' = "scan" /\ ~Hopeless /\ depth = 1
      /\ table' = table /\ pending' = pending
      /\ optimizations' = optimizations /\ timed_out' = timed_out
  BY DEF Split
<1>2. PICK buckets \in Orders(group) :
        /\ InOrder(Rehash, buckets)
        /\ frames' = Append(frames, Frame(buckets, 1, Len(buckets) + 1))
  BY DEF Split, Stable
<1> DEFINE f == Frame(buckets, 1, Len(buckets) + 1)
<1>3. IInv'
  BY Inductive DEF JInv, Next, Process
<1>4. /\ frames[1] \in FrameType /\ group = frames[1].group /\ Len(frames) = 1
      /\ frames \in Seq(FrameType)
  BY <1>1, DepthFacts DEF JInv, IInv, TypeOK, depth, group, top
<1>5. /\ group \in Seq(Seqs) /\ Len(group) \in Nat /\ Len(group) # 0 /\ Distinct(group)
      /\ Shape(1, frames[1]) /\ Cut(1, frames[1], frames[1].it) /\ frames[1].seq = table
  BY <1>1, <1>4, FrameFacts DEF JInv, RunsInv, NestInv, Shape, Hopeless
<1>6. f \in FrameType
  <2>1. buckets \in Seq(Seqs) /\ Len(buckets) \in Nat
    BY <1>5, OrdersFacts, LenProperties
  <2> QED
    BY <2>1, HashAssumption, EmptySeq DEF Frame, FrameType
<1>7. f.it = 1 /\ f.end = Len(buckets) + 1 /\ f.group = <<>> /\ f.seq = buckets
  BY DEF Frame
<1>8. Shape(2, f) /\ AtRun(2, f) /\ Elements(f.seq) = Elements(group)
  BY <1>2, <1>5, <1>6, SplitFrame
<1>9. frames' = Append(frames, f)
  BY <1>2
<1> HIDE DEF f
<1>10. /\ Len(frames') = 2 /\ frames'[1] = frames[1] /\ frames'[2] = f
  BY <1>4, <1>6, <1>9, AppendProperties
<1>11. depth' = 2 /\ group' = f.group /\ Elements(f.group) = {}
  BY <1>7, <1>10 DEF depth, group, top, Elements
<1>12. RunsInv'
  BY <1>1, <1>5, <1>8, <1>10, <1>11 DEF RunsInv
<1>13. NestInv'
  BY <1>1, <1>4, <1>5, <1>8, <1>10, <1>11 DEF NestInv
<1>14. \A t, s : Scanned(t)' = Scanned(t) /\ (InTask(t, s)' <=> InTask(t, s))
  BY <1>1 DEF InTask, Scanned, First, PastLast
<1>15. TaskInv'
  BY <1>1, <1>10, <1>11, <1>14 DEF JInv, TaskInv
<1>16. UntouchedInv'
  <2>1. UntouchedInv /\ Touched' = Touched
    BY <1>1, NothingTouched DEF JInv
  <2>2. \A s \in Elements(group) : s \notin Touched
    BY <1>1, <2>1 DEF UntouchedInv
  <2>3. \A p \in 1 .. Len(f.seq) : f.seq[p] \notin Touched
    BY <1>8, <2>2 DEF Elements
  <2>4. \A p \in 1 .. Len(frames[1].seq) :
          frames[1].it <= p /\ p < frames[1].end => frames[1].seq[p] \notin Touched
    BY <1>1, <2>1 DEF UntouchedInv
  <2>5. \A k \in 1 .. 2 : \A p \in 1 .. Len(frames'[k].seq) :
          frames'[k].it <= p /\ p < frames'[k].end => frames'[k].seq[p] \notin Touched
    BY <1>10, <2>3, <2>4
  <2> QED
    BY <1>1, <1>11, <1>14, <2>1, <2>5 DEF UntouchedInv
<1>17. TableInv' /\ CompareInv' /\ OnePerOriginal'
  BY <1>1, NothingTouched DEF JInv, TableInv, CompareInv
<1> QED
  BY <1>3, <1>12, <1>13, <1>15, <1>16, <1>17 DEF JInv

\* The comparisons begin: nothing is known of any sequence of the run.
LEMMA SortStepJ == ASSUME JInv, Sort PROVE JInv'
<1>1. /\ pc = "process" /\ pc' = "compare" /\ depth = 2 /\ j' = 1
      /\ table' = table /\ pending' = pending
      /\ optimizations' = optimizations /\ timed_out' = timed_out
  BY DEF Sort
<1>2. PICK sorted \in Orders(group) : frames' = SetTop([top EXCEPT !.group = sorted])
  BY DEF Sort
<1> DEFINE g == [top EXCEPT !.group = sorted]
<1>3. IInv'
  BY Inductive DEF JInv, Next, Process
<1>4. /\ top = frames[2] /\ top \in FrameType /\ frames[1] \in FrameType /\ group = top.group
      /\ group \in Seq(Seqs)
      /\ Shape(2, top) /\ Cut(2, top, top.it)
  BY <1>1, DepthFacts, FrameFacts DEF JInv, RunsInv, top, group
<1>5. /\ g \in FrameType /\ g.seq = top.seq /\ g.it = top.it /\ g.end = top.end
      /\ g.last = top.last /\ g.group = sorted
  <2>1. sorted \in Seq(Seqs)
    BY <1>4, OrdersFacts
  <2> QED
    BY <1>4, <2>1 DEF FrameType
<1>6. frames' = SetTop(g)
  BY <1>2
<1> HIDE DEF g
<1>7. Shape(2, g) /\ Elements(sorted) = Elements(group) /\ Cut(2, g, g.it)
  <2>1. g.group \in Orders(top.group)
    BY <1>2, <1>4, <1>5
  <2>2. Shape(2, g) /\ Elements(g.group) = Elements(top.group)
    BY <1>4, <1>5, <2>1, ShapeReordered
  <2> QED
    BY <1>4, <1>5, <2>2 DEF Cut
<1>8. /\ depth' = 2 /\ group' = sorted /\ frames'[2] = g /\ frames'[1] = frames[1]
  BY <1>1, <1>5, <1>6, SetTopFacts DEF JInv, IInv
<1>9. RunsInv'
  <2>1. Shape(1, frames[1]) /\ Cut(1, frames[1], frames[1].it)
    BY <1>1 DEF JInv, RunsInv
  <2> QED
    BY <1>1, <1>7, <1>8, <2>1 DEF RunsInv
<1>10. NestInv'
  BY <1>1, <1>4, <1>5, <1>8 DEF JInv, NestInv
<1>11. \A t, s : Scanned(t)' = Scanned(t) /\ (InTask(t, s)' <=> InTask(t, s))
  BY <1>1 DEF InTask, Scanned, First, PastLast
<1>12. TaskInv'
  BY <1>1, <1>8, <1>11 DEF JInv, TaskInv
<1>13. /\ UntouchedInv /\ Touched' = Touched
       /\ PairsOf(optimizations)' = PairsOf(optimizations)
       /\ PairsOf(timed_out)' = PairsOf(timed_out)
  BY <1>1, NothingTouched DEF JInv
<1>14. UntouchedInv'
  <2>1. \A k \in 1 .. 2 : /\ frames'[k].seq = frames[k].seq /\ frames'[k].it = frames[k].it
                          /\ frames'[k].end = frames[k].end
    BY <1>4, <1>5, <1>8
  <2> QED
    BY <1>1, <1>8, <1>11, <1>13, <2>1 DEF UntouchedInv
<1>15. \A m \in 1 .. Len(sorted) : sorted[m] \notin Touched
  <2>1. \A s \in Elements(group) : s \notin Touched
    BY <1>1, <1>13 DEF UntouchedInv
  <2> QED
    BY <1>7, <2>1 DEF Elements
<1>16. CompareInv'
  <2>1. i' \in Nat /\ i' <= Len(group') /\ Len(sorted) \in Nat
    BY <1>1, <1>3, <1>4, <1>8, OrdersFacts, LenProperties DEF IInv, TypeOK, PcInv
  <2>2. i' > 0 => sorted[i'] \notin Touched
    BY <1>8, <1>15, <2>1
  <2>3. \A m \in 1 .. Len(sorted) : ~(m < 1)
    BY <2>1
  <2> QED
    BY <1>1, <1>8, <1>13, <1>15, <2>2, <2>3 DEF CompareInv, Touched
<1>17. TableInv' /\ OnePerOriginal'
  BY <1>1, NothingTouched DEF JInv, TableInv
<1> QED
  BY <1>3, <1>9, <1>10, <1>12, <1>14, <1>16, <1>17 DEF JInv

-----------------------------------------------------------------------------
(* What follows.                                                           *)

LEMMA JInductive == JInv /\ [Next]_vars => JInv'
<1> SUFFICES ASSUME JInv, [Next]_vars PROVE JInv'
  OBVIOUS
<1>1. CASE UNCHANGED vars
  <2>1. /\ frames' = frames /\ table' = table /\ pending' = pending /\ pc' = pc
        /\ i' = i /\ j' = j /\ optimizations' = optimizations /\ timed_out' = timed_out
    BY <1>1 DEF vars
  <2>2. IInv'
    BY <1>1, Inductive DEF JInv
  <2>3. RunsInv' /\ CompareInv'
    BY <2>1, FramesKept, NothingTouched DEF JInv, RunsInv, CompareInv
  <2> QED
    BY <2>1, <2>2, <2>3, FramesKept, UntouchedKept, NothingTouched DEF JInv
<1>2. ASSUME NEW t \in Task, StartTask(t) PROVE JInv'
  BY <1>2, StartTaskStepJ
<1>3. CASE Scan
  BY <1>3, ExtendStepJ, RunCompleteStep, NextRunStepJ, WorkerDoneStepJ DEF Scan
<1>4. CASE Process
  BY <1>4, SkipStep, SplitStepJ, SortStepJ, SkipOriginalStep, SkipMaskedStep, CompareStepJ
     DEF Process
<1> QED
  BY <1>1, <1>2, <1>3, <1>4 DEF Next, Ended

LEMMA JInvariance == Spec => []JInv
BY InitJInv, JInductive, PTL DEF Spec

\* However the tasks are ordered, no sequence is replaced twice
\* (enumerator.cpp:321-327, 373-381).
THEOREM OneReplacement == Spec => []OnePerOriginal
BY JInvariance, PTL DEF JInv

\* The runs hold every sequence that has both hashes of the one at hand.
LEMMA SameHashesInRun ==
    ASSUME JInv, pc = "compare", NEW s \in Elements(group), NEW q \in PairsOf(table),
           Hash[q] = Hash[s], Rehash[q] = Rehash[s]
    PROVE  q \in Elements(group)
<1>1. /\ depth = 2 /\ group = frames[2].group /\ frames[1].seq = table
      /\ frames[1] \in FrameType /\ frames[2] \in FrameType
      /\ Shape(1, frames[1]) /\ Cut(1, frames[1], frames[1].it)
      /\ Shape(2, frames[2]) /\ Cut(2, frames[2], frames[2].it)
      /\ Elements(frames[2].seq) = Elements(frames[1].group)
      /\ Len(frames[1].group) # 0
      /\ Elements(group) \subseteq Elements(frames[1].group)
  BY ComparingFacts
<1>2. PICK p \in 1 .. Len(table) : table[p] = q
  BY LenProperties DEF JInv, IInv, TypeOK, PairsOf
<1>3. q \in Elements(frames[1].group)
  <2>1. PICK m \in 1 .. Len(frames[1].group) : frames[1].group[m] = s
    BY <1>1 DEF Elements
  <2>2. Hash[s] = frames[1].last
    BY <1>1, <2>1 DEF Shape, Key
  <2>3. Key(1, frames[1].seq[p]) = frames[1].last
    BY <1>1, <1>2, <2>2 DEF Key
  <2> QED
    BY <1>1, <1>2, <2>3, RunIsWhole
<1>4. PICK n \in 1 .. Len(frames[2].seq) : frames[2].seq[n] = q
  BY <1>1, <1>3 DEF Elements
<1>5. PICK m \in 1 .. Len(group) : group[m] = s
  BY DEF Elements
<1>6. Rehash[s] = frames[2].last
  BY <1>1, <1>5 DEF Shape, Key
<1>7. Key(2, frames[2].seq[n]) = frames[2].last
  BY <1>4, <1>6 DEF Key
<1>8. Len(frames[2].group) # 0
  BY <1>1, <1>5, FrameFacts
<1> QED
  BY <1>1, <1>4, <1>7, <1>8, RunIsWhole

LEMMA RunFromTable ==
    ASSUME JInv, pc = "compare", NEW s \in Elements(group)
    PROVE  s \in PairsOf(table)
<1>1. /\ frames[1].seq = table /\ Shape(1, frames[1])
      /\ s \in Elements(frames[1].group)
  BY ComparingFacts
<1>2. PICK m \in 1 .. Len(frames[1].group) : frames[1].group[m] = s
  BY <1>1 DEF Elements
<1>3. PICK p \in 1 .. Len(table) : table[p] = s
  BY <1>1, <1>2 DEF Shape
<1> QED
  BY <1>3, LenProperties DEF JInv, IInv, TypeOK, PairsOf

\* When the solver is asked, Search lets it be asked.
LEMMA MayAsk ==
    ASSUME JInv, Compare
    PROVE  LET s == group[i]
               r == group[j]
           IN  /\ s \in PairsOf(table) /\ r \in Abstract!Candidates(s)
               /\ Abstract!Asked(s, r)
<1> DEFINE s == group[i]
           r == group[j]
<1>1. /\ pc = "compare" /\ i > 0 /\ Comparing /\ Operands[r] \subseteq Operands[s]
  BY DEF Compare, Comparing, PossibleByMasks
<1>2. /\ i \in 1 .. Len(group) /\ j \in 1 .. Len(group)
      /\ s \in Canonical /\ s \in Seqs /\ r \in Seqs
      /\ Cost[r] < Cost[s] /\ Hash[r] = Hash[s] /\ Rehash[r] = Rehash[s]
  BY <1>1, PairAtHand DEF JInv
<1>3. s \in Elements(group) /\ r \in Elements(group)
  BY <1>2 DEF Elements
<1>4. s \in PairsOf(table) /\ r \in PairsOf(table)
  BY <1>1, <1>3, RunFromTable
<1>5. r \in Abstract!Candidates(s)
  BY <1>1, <1>2, <1>4 DEF Abstract!Candidates
<1>6. /\ \A p \in PairsOf(optimizations) : p[1] # s
      /\ \A p \in PairsOf(timed_out) :
           p[1] = s => \E m \in 1 .. Len(group) : m < j /\ p[2] = group[m]
      /\ \A m \in 1 .. Len(group) :
           m < j /\ Better(s, group[m]) => <<s, group[m]>> \in PairsOf(timed_out)
  BY <1>1 DEF JInv, CompareInv
<1>7. Distinct(group) /\ InOrder(Cost, group) /\ Len(group) \in Nat /\ DOMAIN group = 1 .. Len(group)
  BY <1>1, ComparingFacts, TopFacts DEF Shape, JInv, IInv, PcInv
<1>8. Abstract!Undecided(s)
  BY <1>2, <1>4, <1>6 DEF Abstract!Undecided
<1>9. <<s, r>> \notin PairsOf(timed_out)
  <2> SUFFICES ASSUME <<s, r>> \in PairsOf(timed_out) PROVE FALSE
    OBVIOUS
  <2>1. PICK m \in 1 .. Len(group) : m < j /\ r = group[m]
    BY <1>6
  <2>2. m = j
    BY <1>2, <1>7, <2>1 DEF Distinct
  <2> QED
    BY <1>2, <2>1, <2>2
<1>10. ASSUME NEW q \in Abstract!Replacements(s), Cost[q] < Cost[r]
       PROVE  <<s, q>> \in PairsOf(timed_out)
  <2>1. /\ q \in PairsOf(table) /\ Hash[q] = Hash[s] /\ Rehash[q] = Rehash[s]
        /\ Cost[q] < Cost[s] /\ Operands[q] \subseteq Operands[s] /\ Meaning[q] = Meaning[s]
    BY DEF Abstract!Replacements, Abstract!Candidates
  <2>2. q \in Elements(group)
    BY <1>1, <1>3, <2>1, SameHashesInRun
  <2>3. PICK m \in 1 .. Len(group) : group[m] = q
    BY <2>2 DEF Elements
  <2>4. Cost[q] \in Nat /\ Cost[r] \in Nat
    <3>1. group \in Seq(Seqs)
      BY <1>1, TopFacts DEF JInv, IInv
    <3> QED
      BY <1>2, <2>3, <3>1, ElementOfSeq, CostAssumption
  <2>5. ~(j < m) /\ j # m
    BY <1>2, <1>7, <1>10, <2>3, <2>4 DEF InOrder
  <2>6. m < j
    BY <1>2, <2>5
  <2> QED
    BY <1>6, <2>1, <2>3, <2>6 DEF Better
<1>11. Abstract!Asked(s, r)
  BY <1>8, <1>9, <1>10 DEF Abstract!Asked
<1> QED
  BY <1>4, <1>5, <1>11

\* An answer is a step of Search, or tells it nothing.
LEMMA CompareIsAStep ==
    ASSUME JInv, Compare
    PROVE  [Abstract!Next]_(Abstract!vars)
<1> DEFINE s == group[i]
           r == group[j]
<1>1. s \in PairsOf(table) /\ r \in Abstract!Candidates(s) /\ Abstract!Asked(s, r)
  BY MayAsk
<1>2. PairsOf(table)' = PairsOf(table)
  BY DEF Compare, PairsOf
<1>3. CASE /\ PairsOf(optimizations)' = PairsOf(optimizations) \cup {<<s, r>>}
           /\ PairsOf(timed_out)' = PairsOf(timed_out)
           /\ Meaning[s] = Meaning[r]
  <2>1. r \in Abstract!Replacements(s)
    BY <1>1, <1>3 DEF Abstract!Replacements
  <2>2. Abstract!Report(s, r)
    BY <1>1, <1>2, <1>3, <2>1 DEF Abstract!Report
  <2> QED
    BY <1>1, <2>2 DEF Abstract!Next
<1>4. CASE /\ PairsOf(timed_out)' = PairsOf(timed_out) \cup {<<s, r>>}
           /\ PairsOf(optimizations)' = PairsOf(optimizations)
  <2>1. Abstract!GiveUp(s, r)
    BY <1>1, <1>2, <1>4 DEF Abstract!GiveUp
  <2> QED
    BY <1>1, <2>1 DEF Abstract!Next
<1>5. CASE /\ PairsOf(timed_out)' = PairsOf(timed_out)
           /\ PairsOf(optimizations)' = PairsOf(optimizations)
  BY <1>2, <1>5 DEF Abstract!vars
<1> QED
  BY <1>3, <1>4, <1>5, AnswerFacts DEF PairsOf

LEMMA StepMapsToStep == JInv /\ [Next]_vars => [Abstract!Next]_(Abstract!vars)
<1> SUFFICES ASSUME JInv, [Next]_vars PROVE [Abstract!Next]_(Abstract!vars)
  OBVIOUS
<1>1. CASE Compare
  BY <1>1, CompareIsAStep
<1>2. CASE optimizations' = optimizations /\ timed_out' = timed_out /\ table' = table
  BY <1>2 DEF Abstract!vars, PairsOf
<1> QED
  BY <1>1, <1>2
     DEF Next, vars, StartTask, Scan, Extend, RunComplete, NextRun, WorkerDone, Process, Skip,
         Split, Sort, SkipOriginal, SkipMasked, Compared, Ended

LEMMA InitMapsToInit == Init => Abstract!Init
<1> SUFFICES ASSUME Init PROVE Abstract!Init
  OBVIOUS
<1>1. DOMAIN optimizations = {} /\ DOMAIN timed_out = {}
  BY DEF Init
<1> QED
  BY <1>1 DEF PairsOf, Abstract!Init

\* Every behaviour of the loops of enumerator.cpp is one of the specification that
\* knows no loops: a pair is reported only when the solver confirmed it and had given
\* up on every cheaper replacement (enumerator.cpp:226-361).
THEOREM SearchImplemented == Spec => Abstract!Safety
BY InitMapsToInit, StepMapsToStep, JInvariance, PTL DEF Spec, Abstract!Safety

\* The answers that Search allows keep what is reported the best.
LEMMA BestStaysBest ==
    ASSUME Abstract!BestReported, [Abstract!Next]_(Abstract!vars)
    PROVE  Abstract!BestReported'
<1>1. CASE UNCHANGED Abstract!vars
  BY <1>1 DEF Abstract!vars, Abstract!BestReported, Abstract!Replacements, Abstract!Candidates
<1>2. ASSUME NEW s \in PairsOf(table), NEW r \in Abstract!Candidates(s),
             Abstract!Report(s, r) \/ Abstract!GiveUp(s, r)
      PROVE  Abstract!BestReported'
  <2>1. /\ PairsOf(table)' = PairsOf(table)
        /\ PairsOf(timed_out) \subseteq PairsOf(timed_out)'
        /\ PairsOf(optimizations)' \subseteq PairsOf(optimizations) \cup {<<s, r>>}
        /\ PairsOf(optimizations)' = PairsOf(optimizations) \/ Abstract!Asked(s, r)
    BY <1>2 DEF Abstract!Report, Abstract!GiveUp
  <2>2. \A t : Abstract!Replacements(t)' = Abstract!Replacements(t)
    BY <2>1 DEF Abstract!Replacements, Abstract!Candidates
  <2>3. ASSUME NEW p \in PairsOf(optimizations)', NEW q \in Abstract!Replacements(p[1]),
               Cost[q] < Cost[p[2]]
        PROVE  <<p[1], q>> \in PairsOf(timed_out)
    <3>1. CASE p \in PairsOf(optimizations)
      BY <2>3, <3>1 DEF Abstract!BestReported
    <3>2. CASE p = <<s, r>> /\ Abstract!Asked(s, r)
      <4>1. p[1] = s /\ p[2] = r
        BY <3>2
      <4> QED
        BY <2>3, <3>2, <4>1 DEF Abstract!Asked
    <3> QED
      BY <2>1, <3>1, <3>2
  <2> QED
    BY <2>1, <2>2, <2>3 DEF Abstract!BestReported
<1> QED
  BY <1>1, <1>2 DEF Abstract!Next

\* So the replacement found for a sequence is the cheapest there is in the whole
\* table, or the solver gave up on those that are cheaper (enumerator.cpp:297-331).
THEOREM BestFound == Spec => []Abstract!BestReported
<1>1. Abstract!Init => Abstract!BestReported
  BY DEF Abstract!Init, Abstract!BestReported
<1>2. Abstract!BestReported /\ [Abstract!Next]_(Abstract!vars) => Abstract!BestReported'
  BY BestStaysBest
<1> QED
  BY <1>1, <1>2, SearchImplemented, PTL DEF Abstract!Safety
=============================================================================

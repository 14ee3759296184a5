------------------------------ MODULE Pipeline -------------------------------
(***************************************************************************)
(* main of enumerator.cpp: enumerate the sequences of up to two opcodes    *)
(* and search them, then enumerate those of up to three, without the ones  *)
(* that contain a sequence already found not to be optimal, and search     *)
(* again.                                                                  *)
(*                                                                         *)
(* What the search asks of a sequence is computed here from the opcodes:   *)
(* its hashes by random machines, its meaning by the abstract machine, its *)
(* cost in floats and its operands.  A search is that of module Search,    *)
(* which GroupSearch implements, taking the originals one by one.          *)
(***************************************************************************)
EXTENDS OperandNames, Machine, SequencesExt, Bits

CONSTANTS
    Tried,          \* the opcodes that are tried
    Seeds,          \* of the machines of enumerate_worker
    SplitSeeds,     \* of those of try_split
    Valuations,     \* of the unknowns, under which meanings are compared
    MaxTimeouts     \* how often the solver gives up in one search

Concrete == INSTANCE RandomMachine
Symbolic == INSTANCE AbstractMachine WITH Memory <- Concrete!read

ASSUME TriedAssumption == Tried \subseteq opcodes

\* operation_costs[op] would insert a cost of 0 for an opcode that is not in
\* the map, while other threads read it.
ASSUME CostsKnown == opcodes \cup {zero} \subseteq DOMAIN operation_costs

VARIABLES
    round,          \* 1 or 2, by the call of enumerate_concurrent
    pending,        \* the opcodes whose enumeration task has not run
    combined_buckets,
    undone,         \* the canonical sequences that the search has not got to
    found,          \* the optimizations in the threads' contexts
    timed_out,      \* the pairs that this search gave up on
    printed,        \* those that searches before it gave up on
    optimizations,
    non_optimal

results == <<printed, optimizations, non_optimal>>
vars    == <<round, pending, combined_buckets, undone, found, timed_out, results>>

-----------------------------------------------------------------------------
(* What is asked of a sequence.                                            *)

Sequence == UNION {[1 .. n -> Tried] : n \in 1 .. max_length}

\* The hashes of a sequence on some machines, exclusively or-ed.
Xored(h, k) == <<BitXor(h[1], k[1]), BitXor(h[2], k[2])>>

HashBy(machines, s) ==
    LET ran(machine) == FoldLeft(LAMBDA m, o : Concrete!Emulator!RunOpcode(m, o), machine, s)
    IN  FoldSet(LAMBDA m, h : Xored(h, Concrete!hash(ran(m))), <<0, 0>>, machines)

HashesBy(seeds) ==
    LET machines == {Concrete!random_machine(seed) : seed \in seeds}
    IN  [s \in Sequence |-> HashBy(machines, s)] @@ <<>>

Hash   == HashesBy(Seeds)
Rehash == HashesBy(SplitSeeds)

Changed(m) == {w \in DOMAIN m.memory : m.memory[w] # Concrete!read(m.valuation, w)}

Final(m) ==
    [f \in Register \cup Flag \cup {"exit"} |-> m[f].v]
        @@ [memory |-> [w \in Changed(m) |-> m.memory[w]]]

\* The state that a sequence leaves the abstract machine in.
MeaningOf(s, machine) ==
    Final(FoldLeft(LAMBDA m, o : Symbolic!Emulator!RunOpcode(m, o), machine, s))

Meaning ==
    LET machines == {Symbolic!abstract_machine(v) : v \in Valuations}
    IN  [s \in Sequence |-> [m \in machines |-> MeaningOf(s, m)]] @@ <<>>

-----------------------------------------------------------------------------
(* Costs are floats: 24 bits and an exponent.  Up to 32 cycles they are    *)
(* multiples of Unit = 2^-22 of a cycle.                                   *)

Unit == 2^22

Ulp(n) == CASE n < 4 * Unit -> 1 [] n < 8 * Unit -> 2 [] n < 16 * Unit -> 4 [] OTHER -> 8

\* To the nearest multiple of the last place, ties to the even one.
Rounded(n) ==
    LET ulp  == Ulp(n)
        down == n \div ulp
        rest == n % ulp
    IN  IF 2 * rest > ulp \/ (2 * rest = ulp /\ down % 2 = 1) THEN (down + 1) * ulp
        ELSE down * ulp

\* The float nearest to a cost in tenths.
AsFloat(tenths) == LET ulp == Ulp((tenths * Unit) \div 10)
                   IN  ulp * ((2 * tenths * (Unit \div ulp) + 10) \div 20)

\* Wrong: the last slot is not counted.
cycles_but_last(ops) ==
    FoldLeft(LAMBDA sum, o : Rounded(sum + AsFloat(operation_costs[o])), 0,
             IF Len(ops) = max_length THEN Front(ops) ELSE ops)

cycles(ops) == FoldLeft(LAMBDA sum, o : Rounded(sum + AsFloat(operation_costs[o])), 0, ops)

Cost == [s \in Sequence |-> cycles(s)] @@ <<>>

\* The bits of operand_mask.
Mask(o) ==
    CASE o.val \in {0, 4}     -> {0}
      [] o.val \in {1, 5}     -> {1}
      [] o.val = 6            -> {0, 1}
      [] o.val \in {2, 3, 14} -> {}
      [] OTHER                -> {o.val}

operand_mask(ops) == UNION {Mask(ops[i]) : i \in DOMAIN ops}

Operands == [s \in Sequence |-> operand_mask(s)] @@ <<>>

-----------------------------------------------------------------------------
CanonicalSequence == {s \in Sequence : is_canonical(s)}

Process ==
    INSTANCE Search WITH
        table <- combined_buckets, optimizations <- found,
        Canonical <- CanonicalSequence

depth == IF round = 1 THEN 2 ELSE 3

Init ==
    /\ round = 1
    /\ pending = Tried
    /\ combined_buckets = {} /\ undone = {}
    /\ found = {} /\ timed_out = {}
    /\ printed = {} /\ optimizations = {} /\ non_optimal = {}

\* The sequences that begin with op, unless they begin with one that is known.
Enumerated(op) ==
    {s \in Sequence :
        /\ Len(s) <= depth
        /\ s[1] = op
        /\ \A n \in DOMAIN s : ~in(SubSeq(s, 1, n), non_optimal)}

\* A task of enumerate_concurrent; after the last one, the search begins.
Enumerate(op) ==
    /\ op \in pending
    /\ pending' = pending \ {op}
    /\ combined_buckets' = combined_buckets \cup Enumerated(op)
    /\ undone' = IF pending' = {} THEN combined_buckets' \cap CanonicalSequence ELSE {}
    /\ UNCHANGED <<round, found, timed_out, results>>

-----------------------------------------------------------------------------
Searching == pending = {} /\ undone # {}

original == CHOOSE s \in undone : TRUE

\* Its replacements that the solver has not given up on.
Left == {r \in Process!Replacements(original) : <<original, r>> \notin timed_out}

\* The solver finds the cheapest of them; or gives up on it.
Replaced ==
    /\ Searching
    /\ Left # {}
    /\ LET r == CHOOSE r \in Left : \A q \in Left : Cost[r] <= Cost[q]
       IN  \/ /\ Process!Report(original, r)
              /\ undone' = undone \ {original}
           \/ /\ Cardinality(timed_out) < MaxTimeouts
              /\ Process!GiveUp(original, r)
              /\ UNCHANGED undone
    /\ UNCHANGED <<round, pending, combined_buckets, results>>

Kept ==
    /\ Searching
    /\ Left = {}
    /\ undone' = undone \ {original}
    /\ UNCHANGED <<round, pending, combined_buckets, found, timed_out, results>>

\* process_hashes_concurrent has returned.
Searched ==
    /\ pending = {} /\ undone = {} /\ combined_buckets # {}
    /\ optimizations' = optimizations \cup found
    /\ printed' = printed \cup timed_out
    /\ found' = {} /\ timed_out' = {}

\* Wrong: what the sequences are replaced with is not enumerated any more.
OriginalsSwapped(pairs) == {p[2] : p \in pairs}

Originals(pairs) == {p[1] : p \in pairs}

\* The second call of enumerate_concurrent, with an empty table.
Again ==
    /\ round = 1
    /\ Searched
    /\ non_optimal' = Originals(optimizations')
    /\ round' = 2
    /\ pending' = Tried
    /\ combined_buckets' = {}
    /\ UNCHANGED undone

Finish ==
    /\ round = 2
    /\ Searched
    /\ round' = 3
    /\ UNCHANGED <<pending, combined_buckets, undone, non_optimal>>

Done == round = 3 /\ UNCHANGED vars

Next == (\E op \in Tried : Enumerate(op)) \/ Replaced \/ Kept \/ Again \/ Finish \/ Done

Spec == Init /\ [][Next]_vars

-----------------------------------------------------------------------------
Tenths ==
    [s \in Sequence |-> FoldLeft(LAMBDA sum, o : sum + operation_costs[o], 0, s)] @@ <<>>

\* What could replace each sequence.
Better ==
    [s \in Sequence |->
        {r \in Sequence : /\ Tenths[r] < Tenths[s]
                          /\ Operands[r] \subseteq Operands[s]
                          /\ Meaning[r] = Meaning[s]}] @@ <<>>

\* A part of s is, under other names, known not to be optimal.
HasKnownPart(s) ==
    \E i, j \in DOMAIN s : i <= j /\ canonicalize(SubSeq(s, i, j)) \in non_optimal

\* Every canonical sequence that something is better than is reported, with a
\* replacement no dearer than any other sequence could be, unless a part of it was
\* already reported or the solver gave up on it.  The table lacks the sequences
\* with a known part, and costs are rounded; neither loses a replacement
\* (enumerator.cpp:33-39, 141-161, 411-444).
NothingLost ==
    round = 3 =>
        \A s \in CanonicalSequence :
            Better[s] # {} =>
                \/ \E p \in optimizations :
                      p[1] = s /\ \A r \in Better[s] : Tenths[p[2]] <= Tenths[r]
                \/ HasKnownPart(s)
                \/ \E p \in printed : p[1] = s

\* A sequence that was passed over has a better one in the table: the chain of
\* its replacements does not end at one that was passed over too
\* (enumerator.cpp:143-149).
PassedOverIsReplaceable ==
    round = 3 =>
        \A s \in Sequence \ combined_buckets : Better[s] \cap combined_buckets # {}

\* What is reported never costs more than what it is to replace.  It may cost the
\* same: the sum of the floats of three costs depends on their order, and then
\* permutations of a sequence are reported as optimizations of each other
\* (enumerator.cpp:33-39).
NeverDearer == \A p \in found : Tenths[p[2]] <= Tenths[p[1]]
=============================================================================

---------------------------- MODULE GroupSearch -----------------------------
(***************************************************************************)
(* The search for optimizations of enumerator.cpp: the hash space is cut   *)
(* into tasks (process_hashes_concurrent), a task scans its part of the    *)
(* table of hashed sequences and collects runs of equal hashes             *)
(* (process_hashes_worker), a run is hashed again with 130 more machines   *)
(* and scanned in the same way, and the runs that are left are sorted by   *)
(* cost and compared pairwise by the solver (process_sequences).           *)
(*                                                                         *)
(* The tasks share nothing but the table, which they only read, and        *)
(* WorkQueue shows that each takes effect once; so here they run one after *)
(* the other in any order.  An instruction sequence is an element of Seqs, *)
(* known by what the search asks of it.                                    *)
(***************************************************************************)
EXTENDS Integers, Sequences, FiniteSets

CONSTANTS
    Seqs,           \* the enumerated instruction sequences
    Hash,           \* Hash[s]: the key of s in combined_buckets
    Rehash,         \* Rehash[s]: its hash on the 130 machines of try_split
    Cost,           \* Cost[s]: cycles(s), in tenths
    Operands,       \* Operands[s]: operand_mask(s), as the set of its bits
    Canonical,      \* the sequences is_canonical accepts
    Meaning,        \* equal for s and r iff they are equivalent
    HashSpace,      \* how many hashes there are (2^32)
    N_TASKS         \* how many tasks the hash space is cut into (1024)

ASSUME HashAssumption ==
    /\ HashSpace \in Nat \ {0}
    /\ Hash \in [Seqs -> 0 .. HashSpace - 1]
    /\ Rehash \in [Seqs -> 0 .. HashSpace - 1]
ASSUME CostAssumption == Cost \in [Seqs -> Nat \ {0}]
ASSUME SeqAssumption ==
    /\ IsFiniteSet(Seqs)
    /\ Canonical \subseteq Seqs
    /\ Operands \in [Seqs -> SUBSET Nat]
    /\ DOMAIN Meaning = Seqs
ASSUME TaskAssumption == N_TASKS \in Nat \ {0}

Task == 0 .. N_TASKS - 1

VARIABLES
    table,          \* combined_buckets, in the order of its iterator
    pending,        \* the tasks that have not started
    frames,         \* the process_hashes_worker calls in progress, innermost last
    pc,             \* where the innermost one is
    i, j,           \* process_sequences: the pair being compared
    optimizations,  \* the pairs <<original, replacement>> found
    timed_out       \* the pairs the solver gave up on

vars == <<table, pending, frames, pc, i, j, optimizations, timed_out>>

-----------------------------------------------------------------------------
(* Tables, ranges and costs.                                               *)

\* The key of a sequence: in the table of the caller, or after rehashing.
Key(depth, s) == IF depth = 1 THEN Hash[s] ELSE Rehash[s]

InOrder(f, seq) == \A k, l \in DOMAIN seq : k < l => f[seq[k]] <= f[seq[l]]

\* The orders of the elements of a sequence.
Orders(seq) ==
    {[k \in DOMAIN seq |-> seq[p[k]]] :
        p \in {q \in [DOMAIN seq -> DOMAIN seq] :
                 \A k, l \in DOMAIN seq : q[k] = q[l] => k = l}}

\* A multimap keeps the order of insertion among equal keys.
Stable(f, new, old) ==
    /\ InOrder(f, new)
    /\ \A k, l \in DOMAIN new : k < l /\ f[new[k]] = f[new[l]] =>
         \E a, b \in DOMAIN old : a < b /\ old[a] = new[k] /\ old[b] = new[l]

\* std::multimap::lower_bound: the first position whose key is not less.
LowerBound(f, seq, key) ==
    CHOOSE p \in 1 .. Len(seq) + 1 :
        /\ \A k \in 1 .. p - 1 : f[seq[k]] < key
        /\ p <= Len(seq) => f[seq[p]] >= key

\* The hashes of a task.  The keys are uint32_t and the bounds uint64_t: the
\* bound 2^32 is wrapped to 0 when it is passed to lower_bound.
Step      == HashSpace \div N_TASKS
HashMin(t) == t * Step

\* Wrong: the last task forgets the remainder of the division.
HashMaxWithoutRest(t) == (t + 1) * Step

HashMax(t) == IF t = N_TASKS - 1 THEN HashSpace ELSE (t + 1) * Step

First(seq, low)  == LowerBound(Hash, seq, low % HashSpace)
PastLast(seq, high) == IF high = HashSpace
                       THEN Len(seq) + 1
                       ELSE LowerBound(Hash, seq, high % HashSpace)

\* int l = cycles(sequences[0]), compared with the float costs of them all.
SameCosts(seq) ==
    LET l == (Cost[seq[1]] \div 10) * 10
    IN  \A k \in DOMAIN seq : Cost[seq[k]] = l

\* seq_cycles[c]: where the run of cost c begins in sequences.
FirstWithCost(seq, c) ==
    CHOOSE k \in DOMAIN seq :
        Cost[seq[k]] = c /\ (k = 1 \/ Cost[seq[k - 1]] # c)

\* is_possible_optimization_by_operand_masks
PossibleByMasks(original, candidate) == Operands[candidate] \subseteq Operands[original]

\* What the solver may answer: the truth, or unknown after its timeout.
equivalent(s, r) == {IF Meaning[s] = Meaning[r] THEN "unsat" ELSE "sat", "unknown"}

-----------------------------------------------------------------------------
\* Wrong: the initial "last" is not outside the hashes on either side.
FrameLastTooBig(seq, first, end) ==
    [seq |-> seq, it |-> first, end |-> end, last |-> HashSpace, group |-> <<>>]

\* A call of process_hashes_worker over part of a table: its iterator, the
\* hash of the run it is collecting, and the run.
Frame(seq, first, end) ==
    [seq |-> seq, it |-> first, end |-> end, last |-> -1, group |-> <<>>]

depth   == Len(frames)
top     == frames[depth]
group   == top.group
TopKey  == Key(depth, top.seq[top.it])
AtEnd   == top.it = top.end
SameRun == ~AtEnd /\ TopKey = top.last

SetTop(frame) == [frames EXCEPT ![depth] = frame]

Tables == {o \in [1 .. Cardinality(Seqs) -> Seqs] :
             InOrder(Hash, o) /\ \A s \in Seqs : \E k \in DOMAIN o : o[k] = s}

Init ==
    /\ table \in Tables
    /\ pending = Task
    /\ frames = <<>>
    /\ pc = "idle"
    /\ i = 0 /\ j = 0
    /\ optimizations = <<>>
    /\ timed_out = <<>>

\* A worker thread takes a task and calls process_hashes_worker.
StartTask(t) ==
    /\ pc = "idle"
    /\ t \in pending
    /\ pending' = pending \ {t}
    /\ frames' = <<Frame(table, First(table, HashMin(t)), PastLast(table, HashMax(t)))>>
    /\ pc' = "scan"
    /\ UNCHANGED <<table, i, j, optimizations, timed_out>>

-----------------------------------------------------------------------------
(* process_hashes_worker                                                   *)

\* The next sequence has the hash of the run.
Extend ==
    /\ pc = "scan"
    /\ SameRun
    /\ frames' = SetTop([top EXCEPT !.it = @ + 1, !.group = Append(@, top.seq[top.it])])
    /\ UNCHANGED <<table, pending, pc, i, j, optimizations, timed_out>>

\* The run is complete, at another hash or at the end: process_sequences.
RunComplete ==
    /\ pc = "scan"
    /\ ~SameRun
    /\ pc' = "process"
    /\ UNCHANGED <<table, pending, frames, i, j, optimizations, timed_out>>

\* process_sequences has returned: begin the next run.
NextRun ==
    /\ pc = "return"
    /\ ~AtEnd
    /\ frames' = SetTop([top EXCEPT !.it = @ + 1, !.last = TopKey,
                                    !.group = <<top.seq[top.it]>>])
    /\ pc' = "scan"
    /\ UNCHANGED <<table, pending, i, j, optimizations, timed_out>>

\* process_sequences has returned and there is nothing left: return to the
\* thread, or to the process_sequences call that split a run, which returns
\* too.
WorkerDone ==
    /\ pc = "return"
    /\ AtEnd
    /\ frames' = SubSeq(frames, 1, depth - 1)
    /\ pc' = IF depth = 1 THEN "idle" ELSE "return"
    /\ UNCHANGED <<table, pending, i, j, optimizations, timed_out>>

-----------------------------------------------------------------------------
(* process_sequences                                                       *)

Hopeless == Len(group) <= 1 \/ SameCosts(group)

Skip ==
    /\ pc = "process"
    /\ Hopeless
    /\ pc' = "return"
    /\ UNCHANGED <<table, pending, frames, i, j, optimizations, timed_out>>

\* try_split: the run goes into a table of its own under the 130-machine hash.
Split ==
    /\ pc = "process"
    /\ ~Hopeless
    /\ depth = 1
    /\ \E buckets \in Orders(group) :
         /\ Stable(Rehash, buckets, group)
         /\ frames' = Append(frames, Frame(buckets, 1, Len(buckets) + 1))
    /\ pc' = "scan"
    /\ UNCHANGED <<table, pending, i, j, optimizations, timed_out>>

\* Wrong: the run is compared as it comes from the table.
SortNothing ==
    /\ pc = "process"
    /\ ~Hopeless
    /\ depth = 2
    /\ i' = Len(group)
    /\ j' = 1
    /\ pc' = "compare"
    /\ UNCHANGED <<table, pending, frames, optimizations, timed_out>>

\* std::sort by cost, which leaves equal costs in any order; then compare
\* from the most expensive sequence down.
Sort ==
    /\ pc = "process"
    /\ ~Hopeless
    /\ depth = 2
    /\ \E sorted \in Orders(group) :
         /\ InOrder(Cost, sorted)
         /\ frames' = SetTop([top EXCEPT !.group = sorted])
    /\ i' = Len(group)
    /\ j' = 1
    /\ pc' = "compare"
    /\ UNCHANGED <<table, pending, optimizations, timed_out>>

\* The loop over i moves on: continue, break, or no candidate left.
NextOriginal == i' = i - 1 /\ j' = 1
NextCandidate == j' = j + 1 /\ UNCHANGED i

\* Wrong: one candidate of the same cost is let in.
LimitOneMore == FirstWithCost(group, Cost[group[i]]) + 1

Limit == FirstWithCost(group, Cost[group[i]])

SkipOriginal ==
    /\ pc = "compare"
    /\ i > 0
    /\ group[i] \notin Canonical \/ j >= Limit
    /\ NextOriginal
    /\ UNCHANGED <<table, pending, frames, pc, optimizations, timed_out>>

Comparing == pc = "compare" /\ i > 0 /\ group[i] \in Canonical /\ j < Limit

\* Wrong: continue without going on to the next candidate.
SkipMaskedForEver ==
    /\ Comparing
    /\ ~PossibleByMasks(group[i], group[j])
    /\ UNCHANGED vars

SkipMasked ==
    /\ Comparing
    /\ ~PossibleByMasks(group[i], group[j])
    /\ NextCandidate
    /\ UNCHANGED <<table, pending, frames, pc, optimizations, timed_out>>

\* Wrong: no break after a success.
CompareOn ==
    /\ Comparing
    /\ PossibleByMasks(group[i], group[j])
    /\ \E answer \in equivalent(group[i], group[j]) :
         /\ optimizations' = IF answer = "unsat"
                             THEN Append(optimizations, <<group[i], group[j]>>)
                             ELSE optimizations
         /\ timed_out' = IF answer = "unknown"
                         THEN Append(timed_out, <<group[i], group[j]>>)
                         ELSE timed_out
    /\ NextCandidate
    /\ UNCHANGED <<table, pending, frames, pc>>

\* equivalent(): unsat is an optimization and ends the loop over j, unknown
\* is remembered, sat is passed over.
Compare ==
    /\ Comparing
    /\ PossibleByMasks(group[i], group[j])
    /\ \E answer \in equivalent(group[i], group[j]) :
         \/ /\ answer = "unsat"
            /\ optimizations' = Append(optimizations, <<group[i], group[j]>>)
            /\ NextOriginal
            /\ UNCHANGED timed_out
         \/ /\ answer = "unknown"
            /\ timed_out' = Append(timed_out, <<group[i], group[j]>>)
            /\ NextCandidate
            /\ UNCHANGED optimizations
         \/ /\ answer = "sat"
            /\ NextCandidate
            /\ UNCHANGED <<optimizations, timed_out>>
    /\ UNCHANGED <<table, pending, frames, pc>>

Compared ==
    /\ pc = "compare"
    /\ i = 0
    /\ j' = 0
    /\ pc' = "return"
    /\ UNCHANGED <<table, pending, frames, i, optimizations, timed_out>>

Ended == pc = "idle" /\ pending = {} /\ UNCHANGED vars

-----------------------------------------------------------------------------
Scan    == Extend \/ RunComplete \/ NextRun \/ WorkerDone
Process == Skip \/ Split \/ Sort \/ SkipOriginal \/ SkipMasked \/ Compare \/ Compared

Next == (\E t \in Task : StartTask(t)) \/ Scan \/ Process \/ Ended

Spec == Init /\ [][Next]_vars

\* The thread runs, and the solver's timeout makes every query answer.
FairSpec == Spec /\ WF_vars(Next)

-----------------------------------------------------------------------------
FrameType == [seq : Seq(Seqs), it : Nat, end : Nat,
              last : -1 .. HashSpace - 1, group : Seq(Seqs)]

TypeOK ==
    /\ table \in Seq(Seqs)
    /\ pending \subseteq Task
    /\ frames \in Seq(FrameType)
    /\ pc \in {"idle", "scan", "process", "compare", "return"}
    /\ i \in Nat
    /\ j \in Nat
    /\ optimizations \in Seq(Seqs \X Seqs)
    /\ timed_out \in Seq(Seqs \X Seqs)

\* What an optimization found is: the original is canonical and the
\* replacement equivalent, strictly cheaper, and over operands the original
\* has; both are in the same run of both hashes (enumerator.cpp:297-332).
IsOptimization(s, r) ==
    /\ s \in Canonical
    /\ Meaning[r] = Meaning[s]
    /\ Cost[r] < Cost[s]
    /\ Operands[r] \subseteq Operands[s]
    /\ Hash[r] = Hash[s] /\ Rehash[r] = Rehash[s]

\* Every pair recorded is an optimization.
Sound == \A k \in DOMAIN optimizations :
            IsOptimization(optimizations[k][1], optimizations[k][2])

\* A sequence is replaced at most once: the loop over its candidates ends at
\* the first success, and no two tasks or runs hold the same sequence
\* (enumerator.cpp:321-327, 373-381).
OnePerOriginal ==
    \A k, l \in DOMAIN optimizations :
        optimizations[k][1] = optimizations[l][1] => k = l

\* The search finds what Search promises, step by step: at any time a pair is
\* reported only when all the cheaper replacements have been asked about, and in
\* the end nothing is left that was not (enumerator.cpp:226-361).
PairsOf(list) == {list[k] : k \in DOMAIN list}

Abstract ==
    INSTANCE Search WITH
        table <- PairsOf(table), optimizations <- PairsOf(optimizations),
        timed_out <- PairsOf(timed_out)

ImplementsSearch == Abstract!Spec

\* The search ends.
Terminates == <>(pc = "idle" /\ pending = {})

\* The positions of the table that a task scans.
Scanned(t) == First(table, HashMin(t)) .. PastLast(table, HashMax(t)) - 1

\* All the sequences of a hash are scanned by one task and by no other: no run
\* is cut in two, done twice or forgotten (enumerator.cpp:337-338, 370-381).
OneTaskPerRun ==
    \A h \in 0 .. HashSpace - 1 :
        \E t \in Task : \A p \in DOMAIN table, u \in Task :
            Hash[table[p]] = h => (p \in Scanned(u) <=> u = t)
=============================================================================

# A TLA+ model of the 6502 enumerator

The repository holds the parts of a peephole superoptimizer for the 6502: it
enumerates short instruction sequences, runs each on machines with random
initial states, groups the sequences by a hash of the results, and asks Z3
whether a cheaper sequence of a group may replace a dearer one.  This directory
models those parts in TLA+, checks the models with TLC and proves some of the
results with TLAPS.  Paths such as `queue.h` are relative to the repository.

There are two generations of the program:

* **v1** (`enumerator.cpp`, `emulator.h`, `opcode.h`, `operations.h`,
  `queue.h`) keeps everything in memory, works on several threads, and has the
  solver pipeline.  At this commit it does not compile: the machines it uses
  now include `instructions2.h`, whose `instruction_seq` clashes with that of
  `emulator.h`, and run v2's `instruction` (`random_machine.h:79-82`,
  `abstract_machine.h:92-99`), where v1 passes its opcodes
  (`enumerator.cpp:152, 257-289`).  It is modelled as it is written, with its
  opcodes run by its own `emulator.h`.
* **v2** (`enumerator2.cpp`, `emulator2.h`, `instructions2.h`, `radix-sort.h`)
  keeps its sequences in files, one for each cost, and is run by hand once for
  each cost.  It has no threads, and does not yet ask the solver: nothing calls
  its `canBeDifferent`.

The machines (`random_machine.h`, `abstract_machine.h`) belong to both;
`cycles.cpp` is a separate program that counts sequences by cost.

## Inventory

| Component | State it keeps | Operations | What is hard |
|---|---|---|---|
| work queue (`queue.h`, its callers) | task list, index, mutex, a store per thread | `add`, `get_task`, `thread_worker`, `run`, merge | interleavings, the join, exceptions in tasks |
| optimization search (`enumerator.cpp:210-409`) | table of hashed sequences, position of the scan, the current run, results | `process_hashes_concurrent`, `process_hashes_worker`, `process_sequences`, `equivalent` | boundaries of ranges and runs, order of equal costs, solver timeouts |
| `main` of v1 (`enumerator.cpp:25-208, 411-444`) | the two tables, the set of non-optimal sequences | enumerate, search, enumerate again, search again | what pruning, masks, hashes and costs in floats may lose |
| operand names and pruning (`emulator.h:14-177`, `enumerator.cpp:102-171`) | the current sequence, the set of known non-optimal ones | `append`, `canonicalize`, `in`, `is_canonical`, `enumerate_recursive` | two definitions of "canonical" that must agree |
| opcodes and costs of v1 (`opcode.h`, `operations.h`) | none | the packing into a byte for each part, costs, texts | tables that repeat each other, maps that insert what they do not find |
| instruction semantics of v1 (`emulator.h:181-497`) | none of its own | `instruction` | must do what v2's does |
| instruction table (`instructions2.h`) | none | variants, `add`, packing into 16 bits | two enumerations of the same modes |
| instruction semantics (`emulator2.h`) | none of its own | `instruction` | written once for concrete and symbolic machines of different widths |
| random machine (`random_machine.h`) | registers, flags, written addresses, exit | read, write, exits, `hash` | fixed arrays, guard after an exit, what the hash covers |
| abstract machine (`abstract_machine.h`) | expressions for the same | the same | must agree with the concrete one |
| Z3 expressions (`include/z3++.h`, `include/z3_api.h`) | none | the operators the machines use | sorts, signed comparisons, implicit conversions |
| Z3 objects (`include/z3++.h`) | contexts, counts of references, frames of the solver | copy, assign, destroy, `push`, `add`, `check`, `pop` | exceptions between two steps |
| fingerprints (`enumerator2.cpp:19-114`, `fnv.h`) | none | `hash`, `canBeDifferent` | collisions, equivalent sequences with different hashes |
| enumeration by cost (`enumerator2.cpp:203-323`) | one file per cost | `init`, a run on a target cost | reruns, kills, costs without a file, decoding of records |
| record files, `view`, `get_hashes` (`enumerator2.cpp:116-201, 252-264`) | bytes of a file, a buffer not yet written | write, flush, append, read in chunks | records cut in two, the end of a file |
| radix sort (`radix-sort.h`) | the file and two pairs of temporary files | `radix_sort` | end of file, leftovers, kills |
| count by cost (`cycles.cpp`) | a priority queue | `main` | filled while it is emptied; 8-bit costs |
| `files.cpp`, `optimize.cpp`, `6502-emu.smt2`, the other headers of Z3 | -- | -- | not modelled, see below |

How they interact.  `main` of v1 enumerates sequences of length 2 on the queue
(pruned by nothing), searches the table on the queue, puts the originals of the
optimizations found into the set of non-optimal sequences, and does both again
for length 3.  A task of the enumeration hashes each sequence on random
machines and stores it with the cost; a task of the search scans one range of
hashes, splits a run of equal hashes by a second hash, and asks the solver about
pairs, which runs both sequences on abstract machines.  A run of v2 sorts its
file, then for each instruction reads it through, rebuilds every sequence,
hashes the extension on 16 random machines, and appends it to the file of its
cost.  Queue, search and enumeration share only the values that one returns and
the next takes; within the queue, threads share the index, the mutex and the
task list.  Each thread has a Z3 context of its own.

## Modules

| Module | Models | How it corresponds |
|---|---|---|
| `TaskPool` | what the callers expect of the queue | abstract: a task takes effect once, the answer comes after all of them, or the call fails |
| `WorkQueue` | `queue.h`, `enumerator.cpp:180-200, 389-399` | one action per step another thread can see: lock, read of `i`, write of `i`, unlock, run or throw; spawn, join and merge of the caller |
| `Search` | what the search promises | abstract: originals are asked about their candidates in the order of their costs, until the solver confirms one |
| `GroupSearch` | `enumerator.cpp:226-409` | `frames` is the stack of scans: a scan of the table and, inside it, that of the rehashed run; `i`, `j` are the loops of `process_sequences`; `Orders` leaves open what `std::sort` and `multimap` leave open |
| `GroupSearchProofs` | | theorems |
| `Pipeline` | `main` of v1 and the tasks it queues | one action per phase of a round; sums of costs are floats, rounded to 24 bits at each addition; the searches are instances of the same search |
| `OperandNames` | `emulator.h:14-177` | operands, `append`, `canonicalize`, `in` |
| `Canonical` | `enumerator.cpp:102-171` | `path` is the argument of `enumerate_recursive` |
| `CanonicalProofs` | | theorems |
| `Opcodes`, `OpcodeNames` | `opcode.h`, `operations.h` | the opcodes grouped by their modes; costs; texts of a report |
| `Emulator1` | `emulator.h:181-497` | v1's modes and operands; the operations are those of `Emulator` |
| `Instructions` | `instructions2.h` | the 159 rows, grouped by what the instructions share |
| `Encoding` | packing, record and display of an instruction, `cycles.cpp`'s enumeration | functions to and from bytes |
| `Machine` | what both machines share | a machine is a record; words and bytes are cut to their width |
| `Bits` | `&`, `\|` and `^` of C++ | sums over the binary digits of three bytes |
| `RandomMachine`, `AbstractMachine` | the two machines | the first computes its 32-bit hashes exactly, in 16-bit halves; the second is the value and the sort of the solver's expressions under a valuation; in both, `assign` is assignment under the guard `E` |
| `Emulator` | `emulator2.h` | `Run(m, ins)`; `read`, `write`, `assign`, `branch`, the exits and the operators on values are constants, as `machine` is a template parameter |
| `Lockstep` | both machines on one sequence | instantiates the emulators of both generations on each machine, with the random machine as the valuation of the abstract one; `before` keeps the states that were passed |
| `LockstepProofs` | | theorems |
| `Fnv` | `fnv.h` | 64-bit FNV-1a, in 16-bit quarters |
| `Fingerprint` | `hash`, `canBeDifferent` | two sequences that grow independently, each on all test machines and under all valuations |
| `Z3Api`, `Z3Expr` | functions of Z3's API; the operators of `z3++.h` written with them | an expression is its value and its sort; a call whose sorts do not fit has no value |
| `Z3Laws` | | what the program takes for granted of those operators, as assumptions that TLC evaluates |
| `Z3Objects` | `context`, `expr`, `params`, `solver` as `equivalent` and `process_sequences` use them | `handles` are the C++ objects alive, `calls` the functions that run; an action for each operator, copy, assignment, end of an object and call of the solver, most of which may throw |
| `Z3ObjectsProofs` | | theorems |
| `Frontier` | `enumerator2.cpp:203-323`, `instruction_seq::add` | `disk` is a bag of records; a run is a sequence of passes, one for each variant of an instruction, and then a commit, an uncaught exception or a kill |
| `FrontierProofs` | | theorems |
| `RecordFile` | files of records, `view`, `get_hashes` | a file is a sequence of bytes; a kill leaves any prefix of what was being written; the sort is what `RadixSort` does, in one step, with the rank of each record in place of its passes |
| `RecordFileProofs` | | theorems |
| `RadixSort` | `radix-sort.h` | one action per buffer, one per opening of files, and a kill that leaves some prefix of what was being written; a key is its bits, the split of a chunk a recursive function along it |
| `RadixSortProofs` | | theorems |
| `CycleQueue` | `cycles.cpp` | one action per turn of the loop |
| `QueueProofs` | | theorems about both queues, `WorkQueue` and `CycleQueue` |

`MC*` modules give the constants their values.  Definitions whose comment begins
with "Wrong:" are the faults that a property was tried against: with the
definition below it replaced by this one, TLC finds that property violated.

The models of the machines were also compared with the program itself: a small
driver was compiled against `random_machine.h` and `emulator2.h`.  On all
134,162 pairs of instructions and seeds 0xFFFFFFFF and 0x12345678, the registers,
flags, exit, memory and hash of `RandomMachine`, and the state of
`AbstractMachine`, are those of the compiled machine.  The rows of
`instructions` are the 159 rows of the source, each with the same cost and size.

## Runs

| Run | Question | Bounds | Distinct states |
|---|---|---|---|
| `queue` | Do tasks take effect once, is the merge safe, can a partial result be taken for a whole one, does the call return, is the queue a pool? | 3 threads, 4 tasks of which 2 may throw: two workers compete while the caller works, and there are more tasks than threads | 10,354 |
| `group_search` | Is every pair found an optimization, is there one per sequence, is every run searched by one task, is the scan the abstract search? | 7 sequences in 2 runs, one at the last hash; 2 tasks over 7 hashes, so that they do not divide evenly (the 1024 tasks of the program do divide 2^32) | 160,992 |
| `pipeline` | What do two rounds of `main` lose, and can they report something dearer? | 6 opcodes, sequences of up to 3; 2 machines for the first hash and 2 of 130 for the second; 8 valuations (with fewer, some bytes that ORA reads are not told apart); one timeout in each search | 9,756 |
| `canonical` | Is there one representative of each class, is pruning justified, what is never missed? | all sequences of 3 (the code's length) over 11 opcodes with 10 operands; one known sequence | 52,657 |
| `lockstep` | Do both machines and both generations agree, do the sorts of expressions fit, does an exit freeze a machine, is arithmetic right, does a pull give back what was pushed? | all instructions, and JMPI, with every constant, in sequences of 2, and sequences of 4 over 13 instructions on the stack, with its pointer at 0 and 255; the all-ones seed and one other | 196,198 |
| `indirect` | Does the symbolic machine follow a pointer to where it points? It does not (see below). | one instruction | -- |
| `fingerprint` | What does the same fingerprint mean? | all pairs of sequences of up to 2 of 13 instructions, 2 machines, 4 valuations of which 2 make addresses coincide | 33,489 |
| `z3` | Are the objects' references counted, and is each query asked alone, whatever throws? | one thread (a context is never shared), 2 terms, 3 handles in a call, an exception in any call | 5,626 |
| `frontier` | Are records in the right file, is every shape enumerated? | 2 instructions of costs 2 and 3, one with 2 variants, up to cost 7 in 3 slots (as in the code, the slots just suffice), 1 kill | 81,437 |
| `record_file` | Is what is read what was written, and does `get_hashes` find it? | records of 3 bytes, chunks of 2 records, up to 4 records in all, 1 kill | 603,285 |
| `radix_sort` | Is the result sorted, stable and complete; what does a kill leave; does it end? | files of 0 to 4 records with buffers of 2 (empty, partial, exact, two exact), keys of 1 to 3 bits (both parities of the last pass) | 233,041 |
| `cycle_queue` | Is the count that of the recurrence? | the program's table, limits 20, 30, 40, 41 and 50; the counts are also those the source reports (`cycles.cpp:376-385`) | 82,237 |

In `lockstep`, two instructions reach every pair of an instruction and the state
another one left, an exit followed by anything included; that its properties
hold for other seeds and longer sequences is proved (`LockstepProofs`).  In `fingerprint`, `Equivalent` is equivalence under the
valuations of the run, a superset of the solver's; `HashRuleInOrder` is then
stronger than needed.  In `pipeline`, the order of replacements of the same cost
and that of the originals is one that `CHOOSE` picks: `group_search` has all of
them, but costs that are whole numbers.  The bounds that have a name are constants of
the configurations, `MaxKills`, `MaxTimeouts`, `MaxRecords`, `MaxTerms`,
`MaxBits` and `MaxLength` among them.

Some runs evaluate assumptions along with their states: `cycle_queue` the
reported counts (`AsReported`), `pipeline` that all opcodes have a cost
(`CostsKnown`; the map would insert a zero while other threads read it),
`canonical` the names of opcodes (`OpcodesHaveTexts`, for the same reason),
`record_file` that packings and records can be read back (`Encoding`), `z3` the
laws of the operators (`Z3Laws`), `fingerprint` known values of the hash (`Fnv`).

Deadlock is checked in `queue`, `group_search`, `radix_sort`, `cycle_queue` and
`pipeline`, whose modules have an action for having ended.  `canonical`,
`fingerprint`, `frontier`, `lockstep`, `indirect` and `record_file` stop where a
bound is reached, and in `z3` a thread that an exception has ended has nothing
left to do.

Fairness: `WorkQueue` assumes that the operating system lets every thread that
can run do so (weak fairness for each thread), and that tasks end;
`std::mutex` need not be fair, and weak fairness of `Lock` is enough, as each
worker takes the mutex finitely often.  `GroupSearch` and `RadixSort` are
sequential: the thread runs.  In `GroupSearch` a query always answers, because
the solver has a timeout of a second (`enumerator.cpp:245`); this is also why
`Search` may ask that each original is answered.  In `RadixSort` fairness is on
the program's own steps, not on the kill.

### Where the program and its documents disagree

`indirect` is a run in which TLC shows one of them:

* `z3++.h` has no `operator<<` for an expression and an integer.  `expr << 8`
  converts the expression to `bool` (`include/z3++.h:450`) and is the integer
  256.  So `X_INDIRECT`, `INDIRECT_Y` and JMPI (`emulator2.h:26-34, 249-253`,
  `emulator.h:251-264`) have, on the abstract machine, an address whose high byte
  is 1 whatever the pointer holds.  All sequences agree on that, but the solver
  is asked about another machine than the hashes are taken of.

The models follow the code where it differs in these, too.  Most are stated by a
property that holds of the code as it is, and says where the document's does not:

* The cost of a sequence is a sum of floats (`enumerator.cpp:33-39`) that depends
  on the order of its instructions; costs of 4, 4.1 and 5.1 are an example.
  Permutations of such instructions are then reported as optimizations of each
  other, against `README.md:41` and the comment at `enumerator.cpp:240`.
  `NeverDearer` allows equal costs for this reason, and no more.
* Pruning misses a pair that begins with C0+C1, because both C0 and C1 may be
  called C0 after it (`emulator.h:172`, `README.md:40`): `NoKnownPair`.
* A branch of the abstract machine leaves with the bare target
  (`abstract_machine.h:209-213`), where its comment and the random machine add
  0x10000.  A branch to address 0 is then no exit, and one to 1 is an RTS.
* A run rebuilds sequences with operand number 0 (`enumerator2.cpp:304-309`), so
  that all operands but the last are lost (`ideas.txt:18-19`): `EveryShape`.
* A run that gets to a result above `max_cost` ends there, by an exception
  (`enumerator2.cpp:214`, `ideas.txt:22`): the condition `Safe` of `EveryShape`.
* Equivalent sequences may have different hashes, against
  `random_machine.h:214-217`: written pairs are hashed in the order of the first
  writes, and a byte that is written back is compared with 32 bits of hash
  (`random_machine.h:237-240`).  `HashRuleInOrder` is the part that does hold.
* A record that a kill cuts in two shifts all those appended later, and the sort
  fills up its last record with bytes that its buffer had before.  `get_hashes`
  gives one record more for a hash of 0 and for the last one: `ReadBack`,
  `FoundOnce`.  On a file that does not exist its loop does not end.
* `X_INDIRECT` follows two pointers (`emulator2.h:29`), against
  `instructions2.h:80-81`.
* JSR is in the table, and does nothing; `README.md:28` says it is not supported.
* PLA and TSX do not set the sign and zero flags, as they do on a 6502.
* The generations differ in costs (AbsoluteX read and written 60 and 70, STA
  AbsoluteX and AbsoluteY 41 and 50, STA IndirectY 51 and 60), v1 has no CMP
  AbsoluteY, and v2's table no JMPI, which `cycles.cpp` calls JSRI.

In `z3++.h`, on paths that the program does not take: `optimize` and `fixedpoint`
have no copy members, `func_decl::operator()(int)` and `solver::to_smt2` keep an
object whose only owner is gone, some operators do not look for an error, and
`<`, `>` and `/` of bit vectors are the signed ones (the machines rightly use
`uge`).

## Proofs

`QueueProofs` proves, of `WorkQueue`, for every number of threads and tasks and every set of
tasks that may throw, `TypeOK`, `ExactlyOnce`, `NoRaceOnStores`, `CompleteResult` and
the implementation of `TaskPool`.  It assumes at least one thread
(`hardware_concurrency` may answer 0: then the code's array has size -1).  None of
the properties is inductive alone.  The invariant `IInv` adds who may be in which
state (`RolesInv`), that the mutex is held exactly inside `get_task`
(`MutexInv`: it makes the read and the write of `i` one step), what is known
before and after `run` (`PhaseInv`, `BirthInv`), that a fetched task is the
current `i` and a thread without a task has seen the end (`ItemInv`), what
joining and merging have reached (`JoinInv`), and that after an exception one
thread is still in its task (`FailInv`).  There is one lemma for each part, with a step for each
action.  For the implementation, a task is pending as long as no store and not
the result has it; `RunTask` maps to `Complete`, `Throw` to `Fail`, the end of the
merge to `Return`, everything else to a stutter.

`GroupSearchProofs` proves `TypeOK`, `Sound` and `OneTaskPerRun` for every set
of sequences, every hash, cost and meaning, every number of tasks and every
answer of the solver.  `OneTaskPerRun` needs that the ranges of the tasks
partition the hash space also when it does not divide (`TasksPartitionHashes`) and
that `lower_bound` cuts the table between two hashes.  For `Sound`, the invariant
says of each frame that its group is a piece of its sequence with one key; a
frame inside another has the outer key too, and after the sort every position
before `Limit` is strictly cheaper.

It also proves, with the same assumptions, `OnePerOriginal` and
that the scan implements the safety part of `Search`: only the step that records
a comparison maps to one of its steps, a confirmed replacement to `Report` and
the rest to `GiveUp` or a stutter.  It follows that a reported replacement is
the cheapest one that the solver did not give up on, in the whole table and not
only in the group at hand (`BestFound`).  The invariant `JInv` says that a run holds
all sequences of its hash, or of its two hashes (`Shape`, `Cut`, `AtRun`), that an inner
scan works on the run of the outer one (`NestInv`), that no sequence is in two
runs, and that nothing is recorded yet of what comes later, in this task or in
another (`TaskInv`, `UntouchedInv`), and that all candidates before `j` were
asked about (`CompareInv`).  TLC has checked `JInv` on all states of the instance of
`group_search`.  The liveness part of `ImplementsSearch` stays with TLC.

Of `CycleQueue`, `QueueProofs` proves `InCostOrder` and `Counted` for every table and limit.  For
the first, everything in the queue costs at least what left it last, and costs only
grow, as the limit is below the width of a cost.  For the second, the invariant is that
what has been counted and what the sequences in the queue still stand for, each
`CountUpTo` of the rest of its limit, add up to `CountUpTo` of the limit
(`CountInv`).  A turn of the loop takes one sequence out and puts in its extensions,
which are counted by kinds of rows, while the recurrence counts by their costs:
both are the number of rows with some property, summed over its parts
(`TotalByFibers`).  The sums of the community modules are folds, whose laws are
proved here by the least number of elements for which they would fail.

`RadixSortProofs` proves `LowBitsSorted`, `SortedAtEnd` and `Recoverable` for every
file, length of key, size of buffer and content of the temporary files.  While a
pass reads, the invariant says, the pair it writes is a stable split of what it has
read of the other one (`Reading`), and that other one is the file in order of the
bits before (`Between`, `Source`); while the result is copied, the file is a beginning of
the pair (`Copying`), and before that it is the input (`Untouched`).  `Recoverable` then
needs no argument of its own: some part of the invariant names a whole copy in each
phase.  The split of a chunk is a recursive function; that it splits is proved for the
least number of records for which it would not.

`FrontierProofs` proves `CostRight` and `EveryShape` for every table, limit, number of
slots and number of kills.  For `CostRight` the invariant is that files and what a run
has written hold records of the right cost, and that a run reads only files that have a
cost.  That no instruction is dropped and no cost wraps around rests on
`CostAssumption`: costs are between 20 and 70, `max_cost` is 140
(`enumerator2.cpp:17`), a cost is a byte and a sequence has 7 slots
(`instructions2.h:181-204`), so that what costs no more than `max_cost` fits; in
particular `ShapesOf` misses no sequence for want of slots (`ShapesFit`).  `CycleQueue`
has the same assumption (`WidthAssumption`).

`EveryShape` speaks of files whose predecessors are complete; the invariant `FilesInv`
says for every sequence of rows, row and number how often the files, and what the run has
written, have its record: what decides is the run on the cost of all but the last row.
Before that run has ended there is none, unless a run was killed; after it, as many as
its operands can be numbered in (`Weight`); and within it, those of the instructions
that are done (`DiskHas`, `PendingHas`, `Done`).  It is inductive only because runs are
made in the order of their targets, so that a run reads files in which the same holds
already (`RunInv`, `ReadOf`).  A pass writes a record once for each copy of what it
extends; the copies are those of one sequence, with each number of the operand that is
lost, and no other record becomes the same (`OutputsThis`, `OutputsOther`,
`RecordInjective`), so that the weight grows by the variants of that row
(`NumberingsAppend`).  A run that meets a cost without a file leaves its target unsafe
(`AbortFiles`), and one that is killed can only add.

`RecordFileProofs` proves `ReadBack` and `FoundOnce` for records and chunks of
every size and any number of writers, kills, sorts and readers.  The invariant says that
the bytes on the disk and in the stream's buffer begin with those of the records
written, with nothing after them unless a record was cut (`Logged`); that a reader is
between two records until it is at the end, and has what is before (`Viewing`); and that
get_hashes has counted the records of its hash up to the one it read last, all
of which but the last have no greater hash (`Searched`, `SearchedAll`).  The last is
what makes it work for one hash after another, and needs the order of the
sort.  That the sort neither loses nor doubles a record, orders them by their
hashes and is stable is `ByHashSorts`: a record's rank grows with the order, so ranks
are different, and each place is taken.

`Z3ObjectsProofs` proves `CountsHold` and `QueryIsAlone` for any terms and any
bound on the handles of a call, with an exception in any call.  The invariant
says which object is where: which handles each call found, and in what order
the members of `process_hashes_thread_context` lie below them (`Placed`,
`Places`, `Stacked`); that the time limit was set before the solver was first
used (`InTime`); and that each object has one reference for each handle and
each assertion that holds it (`Balanced`).  Every function of the API and every
member of a class is then shown to move that balance on both sides alike, and
popping a frame or destroying a solver, which releases a list of terms one by
one, by the least number of terms for which it would not.  It assumes that a term is
not an object of another kind (`TermsAreNoSolvers`, `NullIsNoTerm`), as addresses
are not.

`CanonicalProofs` proves the three properties of `Canonical` for any opcodes tried,
any `max_length` and any sets of non-optimal sequences.  The invariant only says that the
path is a sequence of instructions that `in` let through; the work is in the operators.  The
numbers that `canonicalize` gives to the operands seen so far are one-to-one, so they
extend to a permutation of all names, and it renames (`CanonicalizeIsRenaming`).  A
renaming leaves the number of an operand as it is, as its first use stays where it was
(`SameIndex`, `CanonicalStays`).  `is_canonical` accepts its fixed points, since
the operands it has seen are always an interval (`SeenIsInterval`,
`CanonicalIsFixed`), and two renamings make one (`RenamedTwice`), so that a part of the
path that is found among the non-optimal sequences is a renaming of it (`InIsSound`).
`OneIsCanonical` sums up: two canonical sequences that are renamings of each other are
the same, unless C0+C1 is the first constant used.  Assumed are that `max_length` is a natural number
(`LengthAssumption`), that what is tried are opcodes of the table (`TriedAssumption`) and that
no optimization has an empty original (`NonOptimalAssumption`).

`LockstepProofs` proves the seven properties of `Lockstep` for any seeds, any program and
any length that fits an `instruction_seq` (`SeedsAssumption`, `LengthAssumption`).  The
invariant `IInv` says that the two machines correspond (`Both`): the abstract one has
thrown nothing and each of its fields has its sort, each field of the concrete one fits
its width, and, as long as the sequence is `Direct`, both have the same registers, flags,
memory and exit.  The values that an instruction computes correspond likewise: a number
that C++ has promoted may be negative or too long, and its expression is the number cut to
the width of its sort (`IntVal`, `ByteVal`, `WordVal`, `TruthVal`).  There is a lemma for
each operator of the emulator, which says that it keeps this (`IntOperators`,
`WordOperators`, `Conversions` and others), one for each of its functions, and one for
each instruction (`Moves`), in the order of `Execute`.  The bitwise operators need that
they work digit by digit, so that cutting their operands does not change what is kept of
the result (`AndLow`, `OrLow`, `XorLow`).  `Direct` cannot be left out: through a pointer, and after
a branch to address 0, the machines do differ (see above).  But that sorts fit and that an
exit freezes both machines (`SortsAreKept`, `ExitFreezes`) holds without it: whether the
values have to be the same is a parameter of `Both` and of every lemma.
`SumsAreRight` compares the two ways in which the emulator writes a sum, with bits of carry and
overflow taken from exclusive ors, with the integers.  For `PulledIsPushed` the invariant
`History` says of each state that was passed that what was pushed there is still
below the stack pointer while only registers and flags have changed (`Kept`), and that packing
the flags into a byte and unpacking them gives the same flags.  `OpcodesAreInstructions` is
`GenerationsAgree`: an opcode of v1 and its instruction of v2 find the same operand
(`ConcreteAddresses`, `SymbolicAddresses` and the lemmas after them), pointers included, and v1's mask on an
indexed address of the zero page takes nothing away (`IndexedAlike`).

The assumptions on constants are evaluated in the runs, and the invariants that have
several parts (`IInv`, `JInv`, `FilesInv`) were checked on all states of the instances before
they were proved.  `ByHash` and the recursive functions above are proved about as
they are defined, and not by an induction theorem: those of the library take an
operator as a parameter, which the provers cannot instantiate.

Only model-checked: liveness, which needs ENABLED; and the properties of `Fingerprint` and
`Pipeline`.  That a hash tells states apart is true of the seeds and sequences of the run
and not of all, since a hash has collisions; that equivalent sequences have the same
one needs that they follow no pointer, which is a matter of the program they are taken from.  What
two rounds lose depends on which costs, hashes and meanings the opcodes have: it is false for
other tables.

## What is left out

Not modelled:

* `files.cpp` creates 65536 empty files that no other program opens.
  `optimize.cpp` is an enumeration and a comment.  `6502-emu.smt2` is an
  experiment that the programs do not use.
* Reals, floating point, strings, sets, quantifiers, models, tactics, fixed points
  and optimization in the headers of Z3, none of which the program uses.  What is
  behind the C API is external: a query answers truthfully, or `unknown`.

Left out of what is modelled:

* In `GroupSearch` tasks run one after another.  Each has its own store, and
  `WorkQueue` implements a pool in which a task takes effect in one step.
* `simplify`, which keeps the value of an expression; 14 of the 16 machines of a
  fingerprint, and most of the 130 of the second hash.
* A kill during the sort of a run is in `RadixSort`, not in `Frontier`.  A second
  sort after a kill may overwrite the only copy, as nothing tells the
  program of the first one.  A run on target 0 doubles what `init` wrote, and is
  not in `Frontier`.
* An `add` that throws leaves the queue's mutex locked; no caller uses a queue
  again after an exception.
* The decimal mode of ADC and SBC, which the emulator does not have.

## Plan

Written in this order: queue and search with their proofs, since they decide
which optimizations are reported; the machines, since both generations rest on
them; the file-based enumeration; `main` of v1 on top of the search and the
operand names; the bytes of files; Z3 as far as the program uses it; and the
refinement of the search.  The parts that keep something
on a disk, the objects of the solver, the pruning by names and at last the two
machines were then proved about.  What remains would be to prove `HashRuleInOrder` for
programs without pointers, from `MachinesAgree`.

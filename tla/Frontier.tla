------------------------------ MODULE Frontier ------------------------------
(***************************************************************************)
(* enumerator2.cpp: the enumeration of sequences by cost, in files.        *)
(* "init" writes the empty sequence and the single instructions; a run on  *)
(* a target cost reads that cost's file and appends every sequence in it,  *)
(* extended by every instruction, to the file of the new cost.  The runs   *)
(* are made by hand, the smallest unread file first (ideas.txt:13, 31).    *)
(*                                                                         *)
(* A file is a bag of sequences; the hash that a record also holds is a    *)
(* function of its sequence, and the order in which the sort leaves them   *)
(* (RadixSort) is of no consequence here.  A run may be killed after the   *)
(* sort: then any part of what it has written may be missing.              *)
(***************************************************************************)
EXTENDS Naturals, Sequences, FiniteSets, SequencesExt, Bags

CONSTANTS
    Table,          \* instructions[]: the cost and the variants of each row
    max_cost,
    Slots,          \* how many instructions an instruction_seq holds (7)
    MaxKills        \* bound on how often a run is killed

ASSUME TableAssumption == /\ Table \in Seq([cycles : Nat \ {0}, variants : Nat \ {0}])
                          /\ Table # <<>>
                          /\ max_cost \in Nat

\* A cost is a uint8_t, and the slots hold what costs no more than max_cost:
\* with the table of instructions2.h the costs are 20 to 70, and max_cost is 140.
ASSUME CostAssumption ==
    /\ Slots \in Nat \ {0}
    /\ \A r \in DOMAIN Table : /\ max_cost + Table[r].cycles < 256
                              /\ max_cost < (Slots + 1) * Table[r].cycles

VARIABLES
    disk,           \* the records of all files, each with the cost of its file
    pc,             \* "new", "idle" or "running"
    target, row, variant,   \* the run: its file and the instruction it is at
    pending,        \* what the run has written so far
    ended,          \* the targets whose run has come to an end by itself
    kills           \* how many runs were killed

vars == <<disk, pc, target, row, variant, pending, ended, kills>>

Rows    == DOMAIN Table
Targets == 1 .. max_cost

-----------------------------------------------------------------------------
instruction(r, n) == [row |-> r, number |-> n]

Cycles(ins) ==
    LET sum[i \in 0 .. Len(ins)] ==
          IF i = 0 THEN 0 ELSE sum[i - 1] + Table[ins[i].row].cycles
    IN  sum[Len(ins)]

\* Wrong: the last slot is not used.
AddOneSlotLess(seq, ins) ==
    [cycles |-> seq.cycles + Table[ins.row].cycles,
     ins    |-> IF Len(seq.ins) < Slots - 1 THEN Append(seq.ins, ins) ELSE seq.ins]

\* instruction_seq::add; with all slots taken only the cost grows.
Add(seq, ins) ==
    [cycles |-> seq.cycles + Table[ins.row].cycles,
     ins    |-> IF Len(seq.ins) < Slots THEN Append(seq.ins, ins) ELSE seq.ins]

\* How a run reads a record: the rows of the table are added, not the
\* instructions of the record, so that every operand gets number 0.
Decode(record) ==
    [cycles |-> Cycles(record),
     ins    |-> [i \in DOMAIN record |-> instruction(record[i].row, 0)]]

Init ==
    /\ disk = EmptyBag
    /\ pc = "new"
    /\ target = 0 /\ row = 1 /\ variant = 0
    /\ pending = EmptyBag
    /\ ended = {}
    /\ kills = 0

Singles ==
    UNION {{[file |-> Table[r].cycles, ins |-> <<instruction(r, n)>>] :
              n \in 0 .. Table[r].variants - 1} : r \in Rows}

\* The command "init": the empty sequence and the single instructions.
Initialize ==
    /\ pc = "new"
    /\ disk' = SetToBag({[file |-> 0, ins |-> << >>]} \cup Singles)
    /\ pc' = "idle"
    /\ UNCHANGED <<target, row, variant, pending, ended, kills>>

\* A run on the smallest target that has not been run to its end.
Start ==
    /\ pc = "idle"
    /\ Targets \ ended # {}
    /\ target' = Min(Targets \ ended)
    /\ pc' = "running"
    /\ row' = 1 /\ variant' = 0
    /\ pending' = EmptyBag
    /\ UNCHANGED <<disk, ended, kills>>

Records == {p \in BagToSet(disk) : p.file = target}

Extended(ins) == Add(Decode(ins), instruction(row, variant))

\* Whether get_file finds a file for the new cost.
HasFile(ins) == Extended(ins).cycles <= max_cost

\* What is written of a record.
Output(p) == [file |-> Extended(p.ins).cycles, ins |-> Extended(p.ins).ins]

\* The file has a record as often as it has been written, and each is extended.
Outputs ==
    LET read == UNION {{p} \X (1 .. disk[p]) : p \in Records}
    IN  [q \in {Output(p) : p \in Records} |->
            Cardinality({c \in read : Output(c[1]) = q})]

\* Wrong: the file is read only once.
PassNoRewind ==
    /\ pc = "running"
    /\ row \in Rows
    /\ \A p \in Records : HasFile(p.ins)
    /\ pending' = IF variant > 0 THEN pending ELSE pending (+) Outputs
    /\ IF variant + 1 < Table[row].variants
       THEN variant' = variant + 1 /\ UNCHANGED row
       ELSE variant' = 0 /\ row' = row + 1
    /\ UNCHANGED <<disk, pc, target, ended, kills>>

\* One variant of an instruction, added to each sequence in the file.
Pass ==
    /\ pc = "running"
    /\ row \in Rows
    /\ \A p \in Records : HasFile(p.ins)
    /\ pending' = pending (+) Outputs
    /\ IF variant + 1 < Table[row].variants
       THEN variant' = variant + 1 /\ UNCHANGED row
       ELSE variant' = 0 /\ row' = row + 1
    /\ UNCHANGED <<disk, pc, target, ended, kills>>

\* What a bag may be left with.
Parts(bag) ==
    LET most == Max({bag[p] : p \in DOMAIN bag} \cup {0})
        kept == {n \in [DOMAIN bag -> 0 .. most] : \A p \in DOMAIN bag : n[p] <= bag[p]}
    IN  {[p \in {q \in DOMAIN bag : n[q] > 0} |-> n[p]] : n \in kept}

\* The process ends, and the files have got what was written of the records.
Close(written) ==
    /\ disk' = disk (+) written
    /\ pending' = EmptyBag
    /\ pc' = "idle"
    /\ UNCHANGED <<target, row, variant>>

Finish ==
    /\ pc = "running"
    /\ row \notin Rows
    /\ Close(pending)
    /\ ended' = ended \cup {target}
    /\ UNCHANGED kills

\* There is no file for the new cost: at() throws, nothing catches it, and
\* what has not been flushed is lost.
Abort ==
    /\ pc = "running"
    /\ row \in Rows
    /\ \E p \in Records : ~HasFile(p.ins)
    /\ \E written \in Parts(pending) : Close(written)
    /\ ended' = ended \cup {target}
    /\ UNCHANGED kills

\* The run is killed; it is repeated.
Kill ==
    /\ pc = "running"
    /\ kills < MaxKills
    /\ \E written \in Parts(pending) : Close(written)
    /\ kills' = kills + 1
    /\ UNCHANGED ended

Next == Initialize \/ Start \/ Pass \/ Finish \/ Abort \/ Kill

Spec == Init /\ [][Next]_vars

-----------------------------------------------------------------------------
Shape(ins) == [i \in DOMAIN ins |-> ins[i].row]

\* A sequence of a shape that the last run can have written: the operands before
\* the last have lost their numbers.
Rebuilt(shape, number) ==
    [i \in DOMAIN shape |-> instruction(shape[i], IF i = Len(shape) THEN number ELSE 0)]

\* The sequences of rows that cost c, in as many slots as there are.
ShapesOf(c) == {shape \in SeqOf(Rows, Slots) : Cycles(Rebuilt(shape, 0)) = c}

\* How many ways there are to number the operands of a shape.
Weight(shape) ==
    LET numbers == UNION {0 .. Table[r].variants - 1 : r \in Rows}
    IN  Cardinality({n \in [DOMAIN shape -> numbers] :
                        \A i \in DOMAIN shape : n[i] < Table[shape[i]].variants})

Copies(c, ins) ==
    LET record == [file |-> c, ins |-> ins]
    IN  IF record \in DOMAIN disk THEN disk[record] ELSE 0

\* Everything that can be extended to a sequence of cost c has been run.
Ready(c) ==
    /\ pc # "new"
    /\ \A r \in Rows : Table[r].cycles <= c => c - Table[r].cycles \in ended \cup {0}

\* A record is in the file of its cost, over all the runs that have rewritten
\* its sequence, and no instruction was dropped because the slots of
\* instruction_seq were full: sequences up to max_cost fit
\* (instructions2.h:193-204, enumerator2.cpp:213-215, 307).
CostRight == \A p \in BagToSet(disk) : p.file = Cycles(p.ins)

\* Every extension of a sequence of cost t has a file.
Safe(t) == \A r \in Rows : t + Table[r].cycles <= max_cost

\* When a cost's predecessors have been run, its file has every sequence of
\* rows, with each number of its last operand, once for every choice of the
\* numbers before it, though all of these are read as 0; unless one of those runs
\* came upon a cost that has no file.  A run that was killed and repeated can
\* only have doubled some (enumerator2.cpp:265-320).
EveryShape ==
    \A c \in 1 .. max_cost :
        /\ Ready(c)
        /\ \A r \in Rows : Table[r].cycles < c => Safe(c - Table[r].cycles)
        => /\ \A shape \in ShapesOf(c) : \A number \in 0 .. Table[Last(shape)].variants - 1 :
                 LET copies == Copies(c, Rebuilt(shape, number))
                 IN  /\ copies >= Weight(Front(shape))
                     /\ kills = 0 => copies = Weight(Front(shape))
           /\ \A p \in BagToSet(disk) :
                 p.file = c => p.ins = Rebuilt(Shape(p.ins), Last(p.ins).number)
=============================================================================

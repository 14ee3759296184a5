----------------------------- MODULE CycleQueue -----------------------------
(***************************************************************************)
(* cycles.cpp: the count of the sequences up to a cost, by a priority      *)
(* queue that gives the cheapest sequence first and takes back each of its *)
(* extensions that is not too expensive.                                   *)
(*                                                                         *)
(* Of an instruction_seq the loop looks at the cost, the size and how many *)
(* of its slots are taken; the queue is a bag of these, for the sequences  *)
(* that have the same are interchangeable.  The code does not say which    *)
(* comes first of those of the same cost and size.                         *)
(***************************************************************************)
EXTENDS Naturals, FiniteSets, Bags, Functions, TLC

Known == INSTANCE Instructions

CONSTANTS
    Table,          \* the rows of instructions[]
    Limits,         \* what max may be: the costs up to which sequences are counted
    Slots,          \* how many instructions an instruction_seq holds (7)
    Modulus         \* of the costs and sizes (256)

ASSUME TableAssumption ==
    /\ IsFiniteSet(Table)
    /\ \A r \in Table : r.cycles \in Nat \ {0} /\ r.bytes \in Nat
    /\ Limits \subseteq Nat
    /\ Slots \in Nat /\ Modulus \in Nat \ {0}

\* Without these, costs wrap around or instructions are dropped.
ASSUME WidthAssumption ==
    \A m \in Limits, r \in Table : /\ m + r.cycles < Modulus
                                   /\ m < (Slots + 1) * r.cycles

VARIABLES
    max,            \* a const int of the program
    queue,          \* the sequences in the queue
    last,           \* the one taken from it last
    count

countVars == <<max, queue, last, count>>

\* instructions[] is the table of instructions2.h, without the constants.
instructions == {r \in Known!instructions : r.mode # "CONSTANT"}

Cheaper(a, b) ==
    a.cycles < b.cycles \/ (a.cycles = b.cycles /\ a.bytes < b.bytes)

\* What the loop sees of a row; those of one kind are the same to it.
Kind(r) == [cycles |-> r.cycles, bytes |-> r.bytes]
Kinds   == {Kind(r) : r \in Table}

\* Wrong: the table is sorted by size.
SmallerRow(k, l) == k.bytes < l.bytes

\* The order that std::sort brings the table in.
EarlierRow(k, l) == Cheaper(k, l)

EmptySeq == [cycles |-> 0, bytes |-> 0, length |-> 0]

add(seq, r) ==
    [cycles |-> (seq.cycles + r.cycles) % Modulus,
     bytes  |-> (seq.bytes + r.bytes) % Modulus,
     length |-> IF seq.length < Slots THEN seq.length + 1 ELSE seq.length]

CountInit ==
    /\ max \in Limits
    /\ queue = SetToBag({EmptySeq})
    /\ last = EmptySeq
    /\ count = 0

\* The loop over the table gets to a row if none up to it costs too much.
Reached(top) ==
    {k \in Kinds : \A l \in Kinds : ~EarlierRow(k, l) => add(top, l).cycles <= max}

Extensions(top) ==
    [s \in {add(top, k) : k \in Reached(top)} |->
        Cardinality({r \in Table : Kind(r) \in Reached(top) /\ add(top, r) = s})]

\* Wrong: the order of the queue is that of the sizes.
FirstBySize(top) == \A s \in BagToSet(queue) : top.bytes <= s.bytes

First(top) == \A s \in BagToSet(queue) : ~Cheaper(s, top)

Pop ==
    \E top \in BagToSet(queue) :
        /\ First(top)
        /\ queue' = (queue (-) SetToBag({top})) (+) Extensions(top)
        /\ last' = top
        /\ count' = count + 1
        /\ UNCHANGED max

CountEnded == queue = EmptyBag /\ UNCHANGED countVars

CountNext == Pop \/ CountEnded

CountSpec == CountInit /\ [][CountNext]_countVars

-----------------------------------------------------------------------------
\* How many sequences cost no more than limit: the empty one, and after each
\* first instruction those that cost no more than the rest.
CountUpTo[limit \in Nat] ==
    LET costs == {r.cycles : r \in Table}
        rows(c) == Cardinality({r \in Table : r.cycles = c})
    IN  1 + SumFunction([c \in {c \in costs : c <= limit} |-> rows(c) * CountUpTo[limit - c]])

\* The numbers that the program has printed for other values of max.
reported ==
    20 :> 33 @@ 30 :> 59 @@ 40 :> 1112 @@ 50 :> 2864 @@ 60 :> 38131 @@ 70 :> 127453
      @@ 80 :> 1331766 @@ 90 :> 5398634 @@ 100 :> 47382564 @@ 110 :> 221727071

\* Sequences leave the queue in the order of their costs, the cheaper sizes
\* first, though it is filled while it is emptied (cycles.cpp:351, 358-371).
InCostOrder == [][~Cheaper(last', last)]_countVars

\* In the end every sequence up to max has been counted once, though the loop
\* over the table is left at the first that costs too much
\* (cycles.cpp:346-349, 363-370).
Counted == queue = EmptyBag => count = CountUpTo[max]
=============================================================================

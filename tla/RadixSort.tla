----------------------------- MODULE RadixSort ------------------------------
(***************************************************************************)
(* radix_sort of radix-sort.h, which enumerator2.cpp:273 calls on a result *)
(* file before it extends the sequences in it.  The file is distributed by *)
(* bit 0 into a pair of temporary files, each pass distributes the pair by *)
(* the next bit into a second pair, the two pairs taking turns, and the    *)
(* last pair is copied back over the file.  Everything is read in chunks.  *)
(*                                                                         *)
(* A record is told from every other, also from one with the same bytes,   *)
(* so that the order of equal keys can be spoken of.  The process may be   *)
(* killed anywhere: the files that are open for writing then hold some     *)
(* beginning of what was written to them.                                  *)
(***************************************************************************)
EXTENDS Naturals, Sequences, SequencesExt

CONSTANTS
    Record,         \* the records
    Key,            \* Key[r][b]: bit b of the key
    Chunk,          \* how many records a buffer holds (256)
    MaxBits,        \* the largest "bits" considered (hash_size_used * 8 = 64)
    Inputs          \* the contents the file may have

ASSUME SizeAssumption   == Chunk \in Nat \ {0} /\ MaxBits \in Nat \ {0}
ASSUME RecordAssumption == Key \in [Record -> [0 .. MaxBits - 1 -> {0, 1}]]
ASSUME InputAssumption  == \A s \in Inputs : s \in Seq(Record) /\ IsInjective(s)

VARIABLES
    input,          \* what the file held at the call
    present,        \* whether there is a file
    bits,           \* the argument of the call
    file,           \* the file
    out,            \* out[k][b]: the temporary file of pair k for bit value b
    pc, bit,        \* the phase, and the bit of the pass
    from, pos       \* the stream being read, and the position in it

vars == <<input, present, bits, file, out, pc, bit, from, pos>>

\* What is in the temporary files before is left over from another file.
Init ==
    /\ input \in Inputs
    /\ present \in {TRUE, input # <<>>}
    /\ bits \in 1 .. MaxBits
    /\ file = input
    /\ \E left \in Inputs : out = [k \in {0, 1} |-> [b \in {0, 1} |-> left]]
    /\ pc = "open"
    /\ bit = 0
    /\ from = 0
    /\ pos = 0

-----------------------------------------------------------------------------
Bit(r, b) == Key[r][b]

\* Wrong: always the first pair.
FirstPair(b) == 0

\* The pair a pass writes; the next pass reads it.
PairOfPass(b) == b % 2

\* Wrong: even and odd exchanged.
OtherPair == bits % 2

\* The pair the last pass wrote, by the parity of bits.
LastPair == IF bits % 2 = 1 THEN 0 ELSE 1

Stream == CASE pc = "copy"             -> out[LastPair][from]
            [] pc = "read" /\ bit = 0  -> file
            [] OTHER                   -> out[PairOfPass(bit + 1)][from]

\* What read() puts into the buffer.
Rest  == Len(Stream) - pos
Data  == SubSeq(Stream, pos + 1, pos + IF Rest < Chunk THEN Rest ELSE Chunk)

\* Wrong: a read of nothing is not seen as the end.
EofSeenLate == 0 < Rest /\ Rest < Chunk

\* eof is seen only by a read that asks for more than there is.
Eof == Rest < Chunk

\* Only the first pass reads a single stream.
LastStream == from = 1 \/ (pc = "read" /\ bit = 0)

\* The loop over the records of a buffer: those with a value of a bit are
\* written, one after the other.
WithBit(seq, b, value) ==
    LET kept[n \in 0 .. Len(seq)] ==
          IF n = 0 THEN <<>>
          ELSE IF Bit(seq[n], b) = value THEN Append(kept[n - 1], seq[n])
          ELSE kept[n - 1]
    IN  kept[Len(seq)]

\* Wrong: the temporary files are opened for appending.
OpenPassAppending ==
    /\ pc = "open"
    /\ bit < bits
    /\ pc' = "read"
    /\ from' = 0 /\ pos' = 0
    /\ UNCHANGED <<input, present, bits, file, out, bit>>

\* A pass truncates the pair it writes.
OpenPass ==
    /\ pc = "open"
    /\ bit < bits
    /\ out' = [out EXCEPT ![PairOfPass(bit)] = [b \in {0, 1} |-> <<>>]]
    /\ pc' = "read"
    /\ from' = 0 /\ pos' = 0
    /\ UNCHANGED <<input, present, bits, file, bit>>

\* A chunk is distributed by the bit of the pass.
ReadChunk ==
    /\ pc = "read"
    /\ bit = 0 => present
    /\ out' = [out EXCEPT ![PairOfPass(bit)] =
                 [b \in {0, 1} |-> @[b] \o WithBit(Data, bit, b)]]
    /\ IF Eof /\ LastStream
       THEN pc' = "open" /\ bit' = bit + 1 /\ UNCHANGED <<from, pos>>
       ELSE /\ from' = IF Eof THEN 1 ELSE from
            /\ pos' = IF Eof THEN 0 ELSE pos + Len(Data)
            /\ UNCHANGED <<pc, bit>>
    /\ UNCHANGED <<input, present, bits, file>>

\* A stream that could not be opened fails without reaching its end: the
\* loop goes on for ever.
ReadNothing ==
    /\ pc = "read"
    /\ bit = 0 /\ ~present
    /\ UNCHANGED vars

\* The file is truncated, to be written again from the last pair.
OpenFinal ==
    /\ pc = "open"
    /\ bit = bits
    /\ file' = <<>>
    /\ pc' = "copy"
    /\ from' = 0 /\ pos' = 0
    /\ UNCHANGED <<input, present, bits, out, bit>>

CopyChunk ==
    /\ pc = "copy"
    /\ file' = file \o Data
    /\ IF Eof /\ LastStream
       THEN pc' = "done" /\ UNCHANGED <<from, pos>>
       ELSE /\ from' = IF Eof THEN 1 ELSE from
            /\ pos' = IF Eof THEN 0 ELSE pos + Len(Data)
            /\ UNCHANGED pc
    /\ UNCHANGED <<input, present, bits, out, bit>>

Ended == pc \in {"done", "crashed"} /\ UNCHANGED vars

\* The process is killed; files open for writing lose what was not flushed.
Crash ==
    /\ \/ /\ pc = "open"
          /\ UNCHANGED <<file, out>>
       \/ /\ pc = "read"
          /\ \E p \in Prefixes(out[PairOfPass(bit)][0]),
                q \in Prefixes(out[PairOfPass(bit)][1]) :
                out' = [out EXCEPT ![PairOfPass(bit)] =
                          [b \in {0, 1} |-> IF b = 0 THEN p ELSE q]]
          /\ UNCHANGED file
       \/ /\ pc = "copy"
          /\ file' \in Prefixes(file)
          /\ UNCHANGED out
    /\ pc' = "crashed"
    /\ UNCHANGED <<input, present, bits, bit, from, pos>>

Step == OpenPass \/ ReadChunk \/ ReadNothing \/ OpenFinal \/ CopyChunk

Next == Step \/ Crash \/ Ended

Spec == Init /\ [][Next]_vars

\* The program runs until it ends or is killed.
FairSpec == Spec /\ WF_vars(Step)

-----------------------------------------------------------------------------
\* The reference.  The order of the low n bits of two keys is decided by the
\* highest bit in which they differ.
Lower(r, s, n) ==
    \E b \in 0 .. n - 1 : /\ Bit(r, b) < Bit(s, b)
                          /\ \A c \in b + 1 .. n - 1 : Bit(r, c) = Bit(s, c)

Same(r, s, n) == \A b \in 0 .. n - 1 : Bit(r, b) = Bit(s, b)

\* Which of two positions of the file comes first.
Before(i, j, n) ==
    Lower(input[i], input[j], n) \/ (Same(input[i], input[j], n) /\ i < j)

Whole(seq) == Len(seq) = Len(input) /\ ToSet(seq) = ToSet(input)

\* The records of the file in the order of their low n bits, equal ones in the
\* order of the file.
StablySorted(seq, n) ==
    /\ Whole(seq)
    /\ \A p, q \in DOMAIN seq : p < q =>
          \E i, j \in DOMAIN input :
              seq[p] = input[i] /\ seq[q] = input[j] /\ Before(i, j, n)

Pair(k) == out[k][0] \o out[k][1]

\* Between two passes, the pair written last is the file in order of the bits
\* seen so far, equal keys in the order of the file (radix-sort.h:39-71).
LowBitsSorted ==
    pc = "open" /\ bit > 0 => StablySorted(Pair(PairOfPass(bit - 1)), bit)

\* The call ends with the file sorted, nothing lost, doubled or left over
\* from an earlier call, for every length and number of bits
\* (radix-sort.h:73-91).
SortedAtEnd == pc = "done" => StablySorted(file, bits)

\* Whenever the process is killed, the file or one of the pairs holds every
\* record once (radix-sort.h:41-45, 74-76).
Recoverable == Whole(file) \/ \E k \in {0, 1} : Whole(Pair(k))

\* If there is a file the call ends, also when its length is a multiple of
\* the buffer's (radix-sort.h:24, 46, 59, 78, 85).
Terminates == present => <>(pc \in {"done", "crashed"})
=============================================================================

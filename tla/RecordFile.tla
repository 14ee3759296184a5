----------------------------- MODULE RecordFile ------------------------------
(***************************************************************************)
(* The bytes of a file of results, enumerator2.cpp:116-178: records of one *)
(* size, without a mark between them, that a stream writes a few bytes at  *)
(* a time.  They are read in chunks of whole records, by "view" and by a   *)
(* run, sorted by RadixSort, and searched for a hash by get_hashes.        *)
(*                                                                         *)
(* The first byte of a record stands for its hash and the others for its   *)
(* instructions.  What a buffer holds before it is filled is any bytes.    *)
(***************************************************************************)
EXTENDS Naturals, Sequences, FiniteSets, FiniteSetsExt

CONSTANTS
    Records,        \* what is written: sequences of bytes
    total_size,     \* the length of each of them
    ChunkRecords,   \* how many of them are read at once (256)
    Garbage,        \* the bytes that may be in a buffer before it is filled
    MaxRecords,     \* bound on the records that are written
    MaxKills        \* bound on how often a writer is killed

ASSUME SizeAssumption ==
    /\ total_size \in Nat \ {0} /\ ChunkRecords \in Nat \ {0}
    /\ Records \subseteq [1 .. total_size -> Nat]
    /\ Garbage \subseteq Nat /\ Garbage # {}

VARIABLES
    file,           \* the bytes on the disk
    out,            \* the bytes in the buffer of hash_output_file
    pc,             \* "closed", "writing", "viewing", "finding" or "found"
    pos, eof,       \* the stream that reads
    seen,           \* the records "view" or a run has got from it
    last,           \* hash_input_file: the hash read last
    buffer,         \* of the get_hashes in progress
    hash, result,   \* its argument and its result
    sorted,         \* whether the file has been sorted since it was written
    log,            \* the records written, but for those lost before a cut
    cut,            \* whether the end of a record has been lost
    kills

writing == <<file, out, sorted, log, cut, kills>>
finding == <<last, buffer, hash, result>>
vars    == <<writing, finding, pc, pos, eof, seen>>

Init ==
    /\ file = <<>> /\ out = <<>> /\ sorted = FALSE
    /\ log = <<>> /\ cut = FALSE /\ kills = 0
    /\ pc = "closed"
    /\ pos = 0 /\ eof = FALSE /\ seen = <<>>
    /\ last = 0 /\ buffer = <<>> /\ hash = 0 /\ result = <<>>

-----------------------------------------------------------------------------
\* A run opens the file to append to it.
Open ==
    /\ pc = "closed"
    /\ pc' = "writing"
    /\ sorted' = FALSE
    /\ UNCHANGED <<file, out, log, cut, kills, finding, pos, eof, seen>>

\* write_hash and write_instructions.
Write(record) ==
    /\ pc = "writing"
    /\ Len(file) + Len(out) < MaxRecords * total_size
    /\ out' = out \o record
    /\ log' = IF cut THEN log ELSE Append(log, record)
    /\ UNCHANGED <<file, sorted, cut, kills, finding, pc, pos, eof, seen>>

\* The stream's buffer is full, at any byte.
Flush ==
    /\ pc = "writing"
    /\ \E n \in 1 .. Len(out) :
         /\ file' = file \o SubSeq(out, 1, n)
         /\ out' = SubSeq(out, n + 1, Len(out))
    /\ UNCHANGED <<sorted, log, cut, kills, finding, pc, pos, eof, seen>>

Close ==
    /\ pc = "writing"
    /\ file' = file \o out
    /\ out' = <<>>
    /\ pc' = "closed"
    /\ UNCHANGED <<sorted, log, cut, kills, finding, pos, eof, seen>>

\* The writer is killed, and what is in its buffer is lost.
Kill ==
    /\ pc = "writing"
    /\ kills < MaxKills
    /\ kills' = kills + 1
    /\ out' = <<>>
    /\ log' = IF cut THEN log ELSE SubSeq(log, 1, Len(file) \div total_size)
    /\ cut' = (cut \/ Len(file) % total_size # 0)
    /\ pc' = "closed"
    /\ UNCHANGED <<file, sorted, finding, pos, eof, seen>>

-----------------------------------------------------------------------------
\* Wrong: another record is taken at the end of the bytes.
PiecesOneMore(data, stale) ==
    [k \in 1 .. Len(data) \div total_size + 1 |->
        SubSeq(data \o stale, (k - 1) * total_size + 1, k * total_size)]

\* The records in what was read: the end of the last one may be stale.
Pieces(data, stale) ==
    [k \in 1 .. (Len(data) + total_size - 1) \div total_size |->
        SubSeq(data \o stale, (k - 1) * total_size + 1, k * total_size)]

Stale == [1 .. total_size -> Garbage]

\* "view" or a run opens the file to read it.
View ==
    /\ pc = "closed"
    /\ pc' = "viewing"
    /\ UNCHANGED <<writing, finding, pos, eof, seen>>

ReadChunk ==
    /\ pc = "viewing"
    /\ ~eof
    /\ LET data == SubSeq(file, pos + 1, Min({pos + ChunkRecords * total_size, Len(file)}))
       IN  /\ \E stale \in Stale : seen' = seen \o Pieces(data, stale)
           /\ pos' = pos + Len(data)
           /\ eof' = (Len(data) < ChunkRecords * total_size)
    /\ UNCHANGED <<writing, finding, pc>>

\* The stream that reads is closed.
Viewed ==
    /\ \/ pc = "viewing" /\ eof
       \/ pc = "found"
    /\ pos' = 0 /\ eof' = FALSE /\ seen' = <<>>
    /\ last' = 0 /\ buffer' = <<>> /\ hash' = 0 /\ result' = <<>>
    /\ pc' = "closed"
    /\ UNCHANGED writing

BytesOf(records) ==
    [b \in 1 .. Len(records) * total_size |->
        records[1 + ((b - 1) \div total_size)][1 + ((b - 1) % total_size)]]

\* Record j comes before record k; those of one hash stay in their order.
Earlier(records, j, k) ==
    \/ records[j][1] < records[k][1]
    \/ records[j][1] = records[k][1] /\ j < k

Rank(records, k) == Cardinality({j \in DOMAIN records : ~Earlier(records, k, j)})

ByHash(records) ==
    [n \in DOMAIN records |-> records[CHOOSE k \in DOMAIN records : Rank(records, k) = n]]

\* What RadixSort makes of the file, whose last record is whole again.
Sort ==
    /\ pc = "closed"
    /\ ~sorted
    /\ \E stale \in Stale :
         /\ file' = BytesOf(ByHash(Pieces(file, stale)))
         /\ log' = ByHash(IF cut THEN Pieces(file, stale) ELSE log)
    /\ sorted' = TRUE
    /\ cut' = FALSE
    /\ UNCHANGED <<out, kills, finding, pc, pos, eof, seen>>

-----------------------------------------------------------------------------
Hashes == 0 .. Max({r[1] : r \in Records})

\* get_hashes(h): "each hash argument must be greater than the last".
GetHashes(h) ==
    /\ pc \in {"closed", "found"}
    /\ sorted
    /\ pc = "found" => h > hash
    /\ pc' = "finding"
    /\ hash' = h
    /\ result' = IF last = h THEN <<last>> ELSE <<>>
    /\ buffer' \in Stale
    /\ UNCHANGED <<writing, last, pos, eof, seen>>

\* Wrong: the loop ends at the first record that has the hash.
MoreLess == ~eof /\ last < hash

More == ~eof /\ last <= hash

\* One more record: a read at the end of the file leaves the buffer as it is.
ReadRecord ==
    /\ pc = "finding"
    /\ More
    /\ LET data == SubSeq(file, pos + 1, Min({pos + total_size, Len(file)}))
       IN  /\ buffer' = data \o SubSeq(buffer, Len(data) + 1, total_size)
           /\ pos' = pos + Len(data)
           /\ eof' = (Len(data) < total_size)
    /\ last' = buffer'[1]
    /\ result' = IF last' = hash THEN Append(result, last') ELSE result
    /\ UNCHANGED <<writing, pc, seen, hash>>

Found ==
    /\ pc = "finding"
    /\ ~More
    /\ pc' = "found"
    /\ UNCHANGED <<writing, finding, pos, eof, seen>>

Next ==
    \/ Open \/ (\E r \in Records : Write(r)) \/ Flush \/ Close \/ Kill
    \/ View \/ ReadChunk \/ Viewed \/ Sort
    \/ (\E h \in Hashes : GetHashes(h)) \/ ReadRecord \/ Found

Spec == Init /\ [][Next]_vars

-----------------------------------------------------------------------------
\* What is read are the records that were written, in their order, each once,
\* wherever the chunks and the flushes end; after a kill, at least those that
\* were whole.  A record that was cut shifts all that are appended after it, and
\* its own end is made up (enumerator2.cpp:125-140, 257-263, 289-294).
ReadBack ==
    pc = "viewing" /\ eof =>
        /\ SubSeq(seen, 1, Len(log)) = log
        /\ ~cut => Len(seen) = Len(log)

Holding(h) ==
    {k \in 1 .. Len(file) \div total_size : file[(k - 1) * total_size + 1] = h}

\* get_hashes misses no record of a hash that it is asked for; it gives each of
\* them once, but a hash of 0, which it begins with, and one that it comes to
\* the end of the file with (enumerator2.cpp:151-177).
FoundOnce ==
    pc = "found" =>
        /\ Len(result) >= Cardinality(Holding(hash))
        /\ ~eof /\ hash # 0 => Len(result) = Cardinality(Holding(hash))
=============================================================================

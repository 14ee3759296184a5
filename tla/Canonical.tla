----------------------------- MODULE Canonical ------------------------------
(***************************************************************************)
(* The recursion of enumerate_recursive over the names of operands: which  *)
(* sequences it gets to when some are known to be not optimal, and that    *)
(* the canonical ones among them stand for all.                            *)
(***************************************************************************)
EXTENDS OperandNames

CONSTANTS
    Tried,          \* the opcodes that are tried
    NonOptimal      \* the sets that non_optimal may be

ASSUME TriedAssumption == Tried \subseteq opcodes

\* The originals of optimizations are not empty.
ASSUME NonOptimalAssumption == \A set \in NonOptimal : <<>> \notin set

VARIABLES
    path,           \* the sequence that enumerate_recursive is at
    non_optimal     \* canonical sequences that an optimization was found for

vars == <<path, non_optimal>>

-----------------------------------------------------------------------------
Init ==
    /\ path = <<>>
    /\ non_optimal \in NonOptimal

\* One more instruction, unless that is known not to be worth while.
Enumerate(op) ==
    /\ Len(path) < max_length
    /\ ~in(append(path, op), non_optimal)
    /\ path' = append(path, op)
    /\ UNCHANGED non_optimal

Next == \E op \in Tried : Enumerate(op)

Spec == Init /\ [][Next]_vars

-----------------------------------------------------------------------------
Abs == abs_start .. zp_start - 1
Zp  == zp_start .. zp_start + 3

Same(S)  == [s \in S |-> s]
AbsNames == Bijection(Abs, Abs)
ZpNames  == Bijection(Zp, Zp)

\* The sequence with its operands renamed by a permutation of the absolute
\* addresses, one of the zero page addresses, and exchanging C0 and C1 or not.
Renamed(ops, p, q, swap) ==
    [i \in DOMAIN ops |->
        LET val == ops[i].val
        IN  [ops[i] EXCEPT !.val =
               CASE ops[i].mode \in AbsModes -> p[val]
                 [] ops[i].mode \in ZpModes -> q[val]
                 [] swap /\ val \in {0, 4} -> val + 1
                 [] swap /\ val \in {1, 5} -> val - 1
                 [] OTHER -> val]]

IsRenaming(s, t) ==
    \E p \in AbsNames, q \in ZpNames, swap \in BOOLEAN :
        Renamed(s, p, q, swap) = t

\* C0+C1 is the first of the constants: both C0 and C1 are used at once.
SumFirst(ops) ==
    \E i \in DOMAIN ops :
        /\ ops[i].mode = "Immediate" /\ ops[i].val = 6
        /\ Seen(ops, {"Immediate"}, i) \cap (C0Values \cup C1Values) = {}

\* canonicalize picks one sequence out of each class of sequences that are
\* renamings of each other, the one is_canonical accepts: none of them is lost
\* by giving the solver only canonical sequences (emulator.h:46-139,
\* enumerator.cpp:102-137, 300).  After C0+C1 has been used first, C0 and C1 are
\* not told apart by the order of their uses, and there are two.
OnePerClass ==
    /\ IsRenaming(path, canonicalize(path))
    /\ \A p \in AbsNames :
          canonicalize(Renamed(path, p, Same(Zp), FALSE)) = canonicalize(path)
    /\ \A q \in ZpNames :
          canonicalize(Renamed(path, Same(Abs), q, FALSE)) = canonicalize(path)
    /\ ~SumFirst(path) =>
          canonicalize(Renamed(path, Same(Abs), Same(Zp), TRUE)) = canonicalize(path)
    /\ is_canonical(path) <=> canonicalize(path) = path

\* A sequence is passed over only if instructions in a row of it are a
\* renaming of a sequence that is not optimal (emulator.h:166-177).
PruneIsSound ==
    \A op \in Tried :
        LET new == append(path, op)
        IN  in(new, non_optimal) =>
              \E i, j \in DOMAIN new, s \in non_optimal :
                  i <= j /\ IsRenaming(SubSeq(new, i, j), s)

\* Nothing is enumerated that is, or in which two instructions in a row are, a
\* renaming of a sequence that is not optimal (enumerator.cpp:143-149), but for
\* pairs that begin with C0+C1.
NoKnownPair ==
    /\ canonicalize(path) \notin non_optimal
    /\ \A i \in 1 .. Len(path) - 1 :
          LET pair == SubSeq(path, i, i + 1)
          IN  ~SumFirst(pair) => canonicalize(pair) \notin non_optimal
=============================================================================

---------------------------- MODULE MCRadixSort -----------------------------
(***************************************************************************)
(* Four records, two of them with the same key, in every order and number. *)
(***************************************************************************)
EXTENDS RadixSort

MCRecord == 1 .. 4
MCBits(key) == [b \in 0 .. 2 |-> (key \div 2 ^ b) % 2]
MCKey    == [r \in MCRecord |-> MCBits(<<6, 1, 6, 3>>[r])]
MCInputs == {s \in UNION {[1 .. n -> MCRecord] : n \in 0 .. 4} : IsInjective(s)}
=============================================================================

--------------------------- MODULE MCGroupSearch ----------------------------
(***************************************************************************)
(* Seven sequences in two runs, one at the last hash of all.  In the first *)
(* run a, b and c are equivalent and d, as cheap as a, is not.  In the     *)
(* second, f and g are equivalent and differ by less than a cycle, and e   *)
(* collides with them on the first hash only.                              *)
(***************************************************************************)
EXTENDS GroupSearch

MCSeqs == {"a", "b", "c", "d", "e", "f", "g"}
Table(a, b, c, d, e, f, g) ==
    [s \in MCSeqs |-> CASE s = "a" -> a [] s = "b" -> b [] s = "c" -> c
                        [] s = "d" -> d [] s = "e" -> e [] s = "f" -> f
                        [] s = "g" -> g]

MCHash      == Table(2, 2, 2, 2, 6, 6, 6)
MCRehash    == Table(3, 3, 3, 3, 5, 0, 0)
MCCost      == Table(20, 40, 51, 20, 20, 40, 41)
MCOperands  == Table({7, 8}, {7}, {7, 8}, {7}, {}, {}, {})
MCCanonical == {"b", "c", "d", "e", "g"}
MCMeaning   == Table(1, 1, 1, 2, 3, 3, 3)
=============================================================================

------------------------------- MODULE Search --------------------------------
(***************************************************************************)
(* What the search of enumerator.cpp promises about a table of sequences,  *)
(* without its tasks, runs and loops: each canonical sequence gets one     *)
(* replacement, the cheapest that the solver confirms, unless the solver   *)
(* gives up.  GroupSearch is how the program does it.                      *)
(***************************************************************************)
EXTENDS Naturals

CONSTANTS
    Hash, Rehash,   \* of each sequence, as in GroupSearch
    Cost,
    Operands,
    Canonical,
    Meaning

VARIABLES
    table,          \* the sequences that are searched
    optimizations,  \* the pairs <<original, replacement>> found
    timed_out       \* the pairs the solver gave up on

vars == <<table, optimizations, timed_out>>

Init == optimizations = {} /\ timed_out = {}

\* Wrong: whatever it costs.
CandidatesOfAnyCost(s) ==
    {r \in table : /\ Hash[r] = Hash[s] /\ Rehash[r] = Rehash[s]
                   /\ r # s
                   /\ Operands[r] \subseteq Operands[s]}

\* What s is compared with.
Candidates(s) ==
    {r \in table : /\ Hash[r] = Hash[s] /\ Rehash[r] = Rehash[s]
                   /\ Cost[r] < Cost[s]
                   /\ Operands[r] \subseteq Operands[s]}

Replacements(s) == {r \in Candidates(s) : Meaning[r] = Meaning[s]}

Undecided(s) == s \in table \cap Canonical /\ \A p \in optimizations : p[1] # s

\* The solver is asked about r: it has not been before, and has given up on all
\* the replacements that cost less.
Asked(s, r) ==
    /\ Undecided(s)
    /\ <<s, r>> \notin timed_out
    /\ \A q \in Replacements(s) : Cost[q] < Cost[r] => <<s, q>> \in timed_out

Report(s, r) ==
    /\ r \in Replacements(s)
    /\ Asked(s, r)
    /\ optimizations' = optimizations \cup {<<s, r>>}
    /\ UNCHANGED <<table, timed_out>>

GiveUp(s, r) ==
    /\ r \in Candidates(s)
    /\ Asked(s, r)
    /\ timed_out' = timed_out \cup {<<s, r>>}
    /\ UNCHANGED <<table, optimizations>>

\* An answer about s that it has a replacement for, or might have.
Answer(s) == \E r \in Replacements(s) : Report(s, r) \/ GiveUp(s, r)

Next == \E s \in table : \E r \in Candidates(s) : Report(s, r) \/ GiveUp(s, r)

\* No pair is reported, or given up, that should not be.
Safety == Init /\ [][Next]_vars

\* And in the end there is nothing left to find out.
Spec == Safety /\ \A s \in Canonical : WF_vars(Answer(s))

-----------------------------------------------------------------------------
\* Nothing in the table is cheaper than what is reported and could stand for the
\* original as well, unless the solver gave up on it (enumerator.cpp:297-331).
BestReported ==
    \A p \in optimizations : \A q \in Replacements(p[1]) :
        Cost[q] < Cost[p[2]] => <<p[1], q>> \in timed_out
==============================================================================

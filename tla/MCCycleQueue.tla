---------------------------- MODULE MCCycleQueue ----------------------------
(***************************************************************************)
(* The table of the program, with limits that a count of a few thousand    *)
(* sequences gets to, and one between two costs.                           *)
(***************************************************************************)
EXTENDS CycleQueue

\* The numbers that the program has printed for other limits, most of them
\* further than it can be followed, are those of the recurrence
\* (cycles.cpp:376-385).
ASSUME AsReported == \A limit \in DOMAIN reported : CountUpTo[limit] = reported[limit]

MCLimits == {20, 30, 40, 41, 50}
=============================================================================

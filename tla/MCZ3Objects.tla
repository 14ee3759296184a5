---------------------------- MODULE MCZ3Objects ----------------------------
(***************************************************************************)
(* Two terms, so that handles are to the same object and to different      *)
(* ones, and three handles of them in each call.  The laws of the          *)
(* operators are checked along with it.                                    *)
(***************************************************************************)
EXTENDS Z3Objects, Z3Laws

CONSTANTS t1, t2

MCTerm == {t1, t2}
=============================================================================

----------------------------- MODULE MCFrontier -----------------------------
(***************************************************************************)
(* Two instructions, one with two variants.  As in the code the slots hold *)
(* every sequence up to max_cost, and none could be spared.                *)
(***************************************************************************)
EXTENDS Frontier

MCTable == <<[cycles |-> 2, variants |-> 2], [cycles |-> 3, variants |-> 1]>>
=============================================================================

------------------------------ MODULE TaskPool ------------------------------
(***************************************************************************)
(* What the callers of work_queue (enumerate_concurrent and                *)
(* process_hashes_concurrent in enumerator.cpp) expect of it: every task   *)
(* they added runs exactly once, in any order and in any parallel          *)
(* interleaving, and the call returns with the results of all of them, or  *)
(* the call never returns normally because a task failed.                  *)
(***************************************************************************)
EXTENDS Naturals

CONSTANT Task       \* the tasks added before the pool is run

VARIABLES
    pending,        \* the tasks whose effect has not happened yet
    result          \* "none", then "all" (returned) or "failed"

poolVars == <<pending, result>>

PoolTypeOK == /\ pending \subseteq Task
              /\ result \in {"none", "all", "failed"}

PoolInit == /\ pending = Task
            /\ result = "none"

\* One task takes effect; it never takes effect again.
Complete(k) == /\ result = "none"
               /\ k \in pending
               /\ pending' = pending \ {k}
               /\ UNCHANGED result

\* The call returns the results of all the tasks.
Return == /\ result = "none"
          /\ pending = {}
          /\ result' = "all"
          /\ UNCHANGED pending

\* A task failed, which can only be one that has not taken effect.
Fail == /\ result = "none"
        /\ pending # {}
        /\ result' = "failed"
        /\ UNCHANGED pending

PoolNext == \/ \E k \in Task : Complete(k)
            \/ Return
            \/ Fail

PoolSpec == PoolInit /\ [][PoolNext]_poolVars
=============================================================================

----------------------------- MODULE QueueProofs -----------------------------
(***************************************************************************)
(* The two queues of the program.  Safety of the work queue of queue.h,    *)
(* for every number of threads, every number of tasks and every set of     *)
(* throwing tasks; and the priority queue of cycles.cpp, which gives the   *)
(* sequences in the order of their costs and each of them once, for every  *)
(* table and limit whose costs fit into a byte.                            *)
(***************************************************************************)
EXTENDS WorkQueue, CycleQueue, FiniteSetTheorems, FunctionTheorems, WellFoundedInduction,
        TLAPS

Others == Thread \ {Caller}

-----------------------------------------------------------------------------
(* The inductive invariant, in named parts.                                *)

\* Only the calling thread goes through the caller's states.
RolesInv == /\ pc[Caller] \in CallerStates
            /\ \A t \in Others : pc[t] \in WorkerStates

\* The mutex is held exactly inside get_task.
MutexInv == \A t \in Thread : pc[t] \in GetTask <=> mutex = t

\* Nothing is handed out before run() and nothing is added after it.
PhaseInv ==
    /\ i <= size
    /\ pc[Caller] = "add"  => i = 0 /\ step = 0
    /\ pc[Caller] # "add"  => size = N_TASKS
    /\ pc[Caller] \in {"poll", "run"} \cup GetTask => step = 0
    /\ pc[Caller] \notin {"merge", "end"} => combined = Empty

\* Threads are born in the order of their index and all are by the end of
\* the spawn loop.
BirthInv ==
    /\ pc[Caller] = "add"   => \A t \in Others : pc[t] = "unborn"
    /\ pc[Caller] = "spawn" => /\ step <= Caller
                               /\ \A t \in Others : t >= step => pc[t] = "unborn"

\* What get_task left in item, and what its "nothing left" answer means.
ItemInv ==
    \A t \in Thread :
        /\ pc[t] = "run" => item[t] # NoTask
        /\ pc[t] = "fetched" => item[t] = i /\ i < size
        /\ InFlight(t, item[t]) /\ item[t] # NoTask => item[t] < i
        /\ pc[t] = "unlock" /\ item[t] = NoTask => i = N_TASKS
        /\ pc[t] \in {"done", "join", "merge", "end"} => i = N_TASKS

\* Threads joined have ended; the merge comes after all of them, and the
\* stores merged are empty.
JoinInv ==
    /\ pc[Caller] = "join" => /\ step <= Caller
                              /\ \A t \in Others : t < step => pc[t] = "done"
    /\ pc[Caller] \in {"merge", "end"} => \A t \in Others : pc[t] = "done"
    /\ pc[Caller] = "merge" => \A t \in Thread : t < step => stores[t] = Empty
    /\ pc[Caller] = "end" => \A t \in Thread : stores[t] = Empty

\* When the program has been ended by an exception, the thread it came from
\* is still where it was thrown.
FailInv == outcome # "ok" => \E t \in Thread : pc[t] = "run"

ControlInv == TypeOK /\ RolesInv /\ MutexInv /\ PhaseInv /\ BirthInv /\ ItemInv

IInv == ControlInv /\ JoinInv /\ FailInv /\ ExactlyOnce

-----------------------------------------------------------------------------
(* The inductive invariant holds initially and every step keeps it.        *)

LEMMA ConstantFacts ==
    /\ Caller \in Thread /\ Caller \in Nat /\ N_THREADS = Caller + 1
    /\ NoOwner \notin Thread
    /\ NoTask \notin Task
    /\ \A t : t \in Thread <=> t \in Nat /\ t <= Caller
    /\ \A t : t \in Others <=> t \in Nat /\ t < Caller
    /\ \A k : k \in Task <=> k \in Nat /\ k < N_TASKS
BY ThreadsAssumption, TasksAssumption
   DEF Caller, Thread, Task, NoOwner, NoTask, Others

LEMMA EmptyFacts == /\ Empty \in [Task -> Nat]
                    /\ \A k \in Task : Empty[k] = 0
BY DEF Empty

\* One more effect of task k changes the count of k alone.
LEMMA WithTaskFacts ==
    ASSUME NEW store \in [Task -> Nat], NEW k \in Task
    PROVE  /\ WithTask(store, k) \in [Task -> Nat]
           /\ WithTask(store, k)[k] = store[k] + 1
           /\ \A l \in Task \ {k} : WithTask(store, k)[l] = store[l]
BY DEF WithTask

\* Merging adds the counts, task by task.
LEMMA MergedWithFacts ==
    ASSUME NEW all \in [Task -> Nat], NEW store \in [Task -> Nat]
    PROVE  /\ MergedWith(all, store) \in [Task -> Nat]
           /\ \A k \in Task : MergedWith(all, store)[k] = all[k] + store[k]
BY DEF MergedWith

\* One round of the merge moves the effects of one store into the result.
LEMMA MergeFacts ==
    ASSUME combined \in [Task -> Nat], stores \in [Thread -> [Task -> Nat]],
           step \in Thread, combined' = MergedWith(combined, stores[step]),
           stores' = [stores EXCEPT ![step] = Empty], NEW k \in Task
    PROVE  /\ combined'[k] = combined[k] + stores[step][k]
           /\ stores'[step][k] = 0
           /\ \A t \in Thread \ {step} : stores'[t][k] = stores[t][k]
<1>1. stores[step] \in [Task -> Nat]
  OBVIOUS
<1>2. combined'[k] = combined[k] + stores[step][k]
  BY <1>1, MergedWithFacts
<1>3. stores'[step] = Empty
  OBVIOUS
<1>4. stores'[step][k] = 0
  BY <1>3, EmptyFacts
<1> QED
  BY <1>2, <1>4

LEMMA InitIInv == Init => IInv
<1> SUFFICES ASSUME Init PROVE IInv
  OBVIOUS
<1> USE ConstantFacts, EmptyFacts, TasksAssumption DEF Init
<1>1. TypeOK
  <2>1. pc \in [Thread -> WorkerStates \cup CallerStates]
    BY DEF WorkerStates, CallerStates, GetTask
  <2>2. stores \in [Thread -> [Task -> Nat]] /\ item \in [Thread -> Task \cup {NoTask}]
    OBVIOUS
  <2>3. /\ size \in 0 .. N_TASKS /\ i \in 0 .. N_TASKS
        /\ step \in 0 .. N_THREADS
    OBVIOUS
  <2>4. /\ running \in BOOLEAN /\ mutex \in Thread \cup {NoOwner}
        /\ outcome \in {"ok", "caught", "terminated"}
    OBVIOUS
  <2>5. combined \in [Task -> Nat]
    OBVIOUS
  <2> HIDE DEF Init
  <2> QED
    BY <2>1, <2>2, <2>3, <2>4, <2>5 DEF TypeOK
<1>2. RolesInv /\ MutexInv /\ PhaseInv /\ BirthInv
  BY DEF RolesInv, MutexInv, PhaseInv, BirthInv, WorkerStates, GetTask, CallerStates,
         Others
<1>3. ItemInv /\ JoinInv
  BY DEF ItemInv, JoinInv, InFlight
<1>4. FailInv
  BY DEF FailInv
<1>5. ExactlyOnce
  BY DEF ExactlyOnce, Nowhere, Holds, InFlight
<1> QED
  BY <1>1, <1>2, <1>3, <1>4, <1>5 DEF IInv, ControlInv

LEMMA TypeStep == IInv /\ [Next]_vars => TypeOK'
<1> SUFFICES ASSUME IInv, [Next]_vars PROVE TypeOK'
  OBVIOUS
<1> USE ConstantFacts, TasksAssumption DEF IInv, ControlInv, TypeOK, Goto
<1>1. CASE Add
  BY <1>1 DEF Add, PhaseInv
<1>2. CASE Run
  <2>1. stores' \in [Thread -> [Task -> Nat]]
    BY <1>2, EmptyFacts DEF Run
  <2>2. pc' \in [Thread -> WorkerStates \cup CallerStates]
    BY <1>2 DEF Run, CallerStates
  <2> QED
    BY <1>2, <2>1, <2>2 DEF Run
<1>3. CASE Spawn
  <2>1. step \in Thread /\ step' \in 0 .. N_THREADS
    BY <1>3 DEF Spawn
  <2> QED
    BY <1>3, <2>1 DEF Spawn, WorkerStates
<1>4. CASE Spawned
  BY <1>4 DEF Spawned, CallerStates
<1>5. CASE Join
  BY <1>5 DEF Join
<1>6. CASE Joined
  BY <1>6 DEF Joined, CallerStates
<1>7. CASE Merge
  <2>1. step \in Thread /\ step' \in 0 .. N_THREADS
    BY <1>7 DEF Merge
  <2>2. stores' \in [Thread -> [Task -> Nat]]
    BY <1>7, <2>1, EmptyFacts DEF Merge
  <2>3. combined' \in [Task -> Nat]
    BY <1>7, <2>1, MergedWithFacts DEF Merge
  <2> QED
    BY <1>7, <2>1, <2>2, <2>3 DEF Merge
<1>8. CASE Merged
  BY <1>8 DEF Merged, CallerStates
<1>9. ASSUME NEW t \in Thread, Lock(t) PROVE TypeOK'
  BY <1>9 DEF Lock, WorkerStates, GetTask
<1>10. ASSUME NEW t \in Thread, Fetch(t) PROVE TypeOK'
  <2>1. item' \in [Thread -> Task \cup {NoTask}]
    BY <1>10 DEF Fetch
  <2> QED
    BY <1>10, <2>1 DEF Fetch, WorkerStates, GetTask
<1>15. ASSUME NEW t \in Thread, Advance(t) PROVE TypeOK'
  <2>1. i' \in 0 .. N_TASKS
    BY <1>15 DEF Advance, ItemInv
  <2> QED
    BY <1>15, <2>1 DEF Advance, WorkerStates, GetTask
<1>11. ASSUME NEW t \in Thread, Unlock(t) PROVE TypeOK'
  BY <1>11 DEF Unlock, WorkerStates, CallerStates
<1>12. ASSUME NEW t \in Thread, RunTask(t) PROVE TypeOK'
  <2>1. item[t] \in Task
    BY <1>12 DEF RunTask, ItemInv
  <2>2. stores' \in [Thread -> [Task -> Nat]]
    BY <1>12, <2>1, WithTaskFacts DEF RunTask
  <2> QED
    BY <1>12, <2>2 DEF RunTask, WorkerStates
<1>13. ASSUME NEW t \in Thread, Throw(t) PROVE TypeOK'
  BY <1>13 DEF Throw
<1>14. CASE UNCHANGED vars
  BY <1>14 DEF vars
<1> QED
  BY <1>1, <1>2, <1>3, <1>4, <1>5, <1>6, <1>7, <1>8, <1>9, <1>10, <1>11,
     <1>12, <1>13, <1>14, <1>15 DEF Next, Live, CallerStep, Work, Ended

LEMMA RolesStep == IInv /\ [Next]_vars => RolesInv'
<1> SUFFICES ASSUME IInv, [Next]_vars PROVE RolesInv'
  OBVIOUS
<1> USE ConstantFacts DEF IInv, ControlInv, TypeOK, RolesInv, Goto, WorkerStates, CallerStates, GetTask, Others
<1>1. CASE Add
  BY <1>1 DEF Add
<1>2. CASE Run
  BY <1>2 DEF Run
<1>3. CASE Spawn
  BY <1>3 DEF Spawn, BirthInv
<1>4. CASE Spawned
  BY <1>4 DEF Spawned
<1>5. CASE Join
  BY <1>5 DEF Join
<1>6. CASE Joined
  BY <1>6 DEF Joined
<1>7. CASE Merge
  BY <1>7 DEF Merge
<1>8. CASE Merged
  BY <1>8 DEF Merged
<1>9. ASSUME NEW t \in Thread, Lock(t) PROVE RolesInv'
  BY <1>9 DEF Lock
<1>10. ASSUME NEW t \in Thread, Fetch(t) PROVE RolesInv'
  BY <1>10 DEF Fetch
<1>15. ASSUME NEW t \in Thread, Advance(t) PROVE RolesInv'
  BY <1>15 DEF Advance
<1>11. ASSUME NEW t \in Thread, Unlock(t) PROVE RolesInv'
  BY <1>11 DEF Unlock
<1>12. ASSUME NEW t \in Thread, RunTask(t) PROVE RolesInv'
  BY <1>12 DEF RunTask
<1>13. ASSUME NEW t \in Thread, Throw(t) PROVE RolesInv'
  BY <1>13 DEF Throw
<1>14. CASE UNCHANGED vars
  BY <1>14 DEF vars
<1> QED
  BY <1>1, <1>2, <1>3, <1>4, <1>5, <1>6, <1>7, <1>8, <1>9, <1>10, <1>11,
     <1>12, <1>13, <1>14, <1>15 DEF Next, Live, CallerStep, Work, Ended

LEMMA MutexStep == IInv /\ [Next]_vars => MutexInv'
<1> SUFFICES ASSUME IInv, [Next]_vars PROVE MutexInv'
  OBVIOUS
<1> USE ConstantFacts DEF IInv, ControlInv, TypeOK, MutexInv, Goto, GetTask
<1>1. CASE Add
  BY <1>1 DEF Add
<1>2. CASE Run
  BY <1>2 DEF Run
<1>3. CASE Spawn
  BY <1>3 DEF Spawn, BirthInv
<1>4. CASE Spawned
  BY <1>4 DEF Spawned
<1>5. CASE Join
  BY <1>5 DEF Join
<1>6. CASE Joined
  BY <1>6 DEF Joined
<1>7. CASE Merge
  BY <1>7 DEF Merge
<1>8. CASE Merged
  BY <1>8 DEF Merged
<1>9. ASSUME NEW t \in Thread, Lock(t) PROVE MutexInv'
  BY <1>9 DEF Lock
<1>10. ASSUME NEW t \in Thread, Fetch(t) PROVE MutexInv'
  BY <1>10 DEF Fetch
<1>15. ASSUME NEW t \in Thread, Advance(t) PROVE MutexInv'
  BY <1>15 DEF Advance
<1>11. ASSUME NEW t \in Thread, Unlock(t) PROVE MutexInv'
  BY <1>11 DEF Unlock
<1>12. ASSUME NEW t \in Thread, RunTask(t) PROVE MutexInv'
  BY <1>12 DEF RunTask
<1>13. ASSUME NEW t \in Thread, Throw(t) PROVE MutexInv'
  BY <1>13 DEF Throw
<1>14. CASE UNCHANGED vars
  BY <1>14 DEF vars
<1> QED
  BY <1>1, <1>2, <1>3, <1>4, <1>5, <1>6, <1>7, <1>8, <1>9, <1>10, <1>11,
     <1>12, <1>13, <1>14, <1>15 DEF Next, Live, CallerStep, Work, Ended

LEMMA PhaseStep == IInv /\ [Next]_vars => PhaseInv'
<1> SUFFICES ASSUME IInv, [Next]_vars PROVE PhaseInv'
  OBVIOUS
<1> USE ConstantFacts DEF IInv, ControlInv, TypeOK, PhaseInv, Goto, RolesInv, WorkerStates, GetTask, Others
<1>1. CASE Add
  BY <1>1 DEF Add
<1>2. CASE Run
  BY <1>2 DEF Run
<1>3. CASE Spawn
  BY <1>3 DEF Spawn, BirthInv
<1>4. CASE Spawned
  BY <1>4 DEF Spawned
<1>5. CASE Join
  BY <1>5 DEF Join
<1>6. CASE Joined
  BY <1>6 DEF Joined
<1>7. CASE Merge
  BY <1>7 DEF Merge
<1>8. CASE Merged
  BY <1>8 DEF Merged
<1>9. ASSUME NEW t \in Thread, Lock(t) PROVE PhaseInv'
  BY <1>9 DEF Lock
<1>10. ASSUME NEW t \in Thread, Fetch(t) PROVE PhaseInv'
  BY <1>10 DEF Fetch, BirthInv
<1>15. ASSUME NEW t \in Thread, Advance(t) PROVE PhaseInv'
  BY <1>15 DEF Advance, ItemInv, BirthInv
<1>11. ASSUME NEW t \in Thread, Unlock(t) PROVE PhaseInv'
  BY <1>11 DEF Unlock
<1>12. ASSUME NEW t \in Thread, RunTask(t) PROVE PhaseInv'
  BY <1>12 DEF RunTask
<1>13. ASSUME NEW t \in Thread, Throw(t) PROVE PhaseInv'
  BY <1>13 DEF Throw
<1>14. CASE UNCHANGED vars
  BY <1>14 DEF vars
<1> QED
  BY <1>1, <1>2, <1>3, <1>4, <1>5, <1>6, <1>7, <1>8, <1>9, <1>10, <1>11,
     <1>12, <1>13, <1>14, <1>15 DEF Next, Live, CallerStep, Work, Ended

LEMMA BirthStep == IInv /\ [Next]_vars => BirthInv'
<1> SUFFICES ASSUME IInv, [Next]_vars PROVE BirthInv'
  OBVIOUS
<1> USE ConstantFacts DEF IInv, ControlInv, TypeOK, BirthInv, Goto, RolesInv, WorkerStates, CallerStates, GetTask, Others
<1>1. CASE Add
  BY <1>1 DEF Add
<1>2. CASE Run
  BY <1>2 DEF Run, PhaseInv
<1>3. CASE Spawn
  BY <1>3 DEF Spawn
<1>4. CASE Spawned
  BY <1>4 DEF Spawned
<1>5. CASE Join
  BY <1>5 DEF Join
<1>6. CASE Joined
  BY <1>6 DEF Joined
<1>7. CASE Merge
  BY <1>7 DEF Merge
<1>8. CASE Merged
  BY <1>8 DEF Merged
<1>9. ASSUME NEW t \in Thread, Lock(t) PROVE BirthInv'
  BY <1>9 DEF Lock
<1>10. ASSUME NEW t \in Thread, Fetch(t) PROVE BirthInv'
  BY <1>10 DEF Fetch
<1>15. ASSUME NEW t \in Thread, Advance(t) PROVE BirthInv'
  BY <1>15 DEF Advance, MutexInv
<1>11. ASSUME NEW t \in Thread, Unlock(t) PROVE BirthInv'
  BY <1>11 DEF Unlock
<1>12. ASSUME NEW t \in Thread, RunTask(t) PROVE BirthInv'
  BY <1>12 DEF RunTask
<1>13. ASSUME NEW t \in Thread, Throw(t) PROVE BirthInv'
  BY <1>13 DEF Throw
<1>14. CASE UNCHANGED vars
  BY <1>14 DEF vars
<1> QED
  BY <1>1, <1>2, <1>3, <1>4, <1>5, <1>6, <1>7, <1>8, <1>9, <1>10, <1>11,
     <1>12, <1>13, <1>14, <1>15 DEF Next, Live, CallerStep, Work, Ended

LEMMA ItemStep == IInv /\ [Next]_vars => ItemInv'
<1> SUFFICES ASSUME IInv, [Next]_vars PROVE ItemInv'
  OBVIOUS
<1> USE ConstantFacts DEF IInv, ControlInv, TypeOK, ItemInv, InFlight, Goto
<1>1. CASE Add
  BY <1>1 DEF Add
<1>2. CASE Run
  BY <1>2 DEF Run
<1>3. CASE Spawn
  BY <1>3 DEF Spawn
<1>4. CASE Spawned
  BY <1>4 DEF Spawned
<1>5. CASE Join
  BY <1>5 DEF Join
<1>6. CASE Joined
  BY <1>6 DEF Joined
<1>7. CASE Merge
  BY <1>7 DEF Merge
<1>8. CASE Merged
  BY <1>8 DEF Merged
<1>9. ASSUME NEW t \in Thread, Lock(t) PROVE ItemInv'
  BY <1>9 DEF Lock
<1>10. ASSUME NEW t \in Thread, Fetch(t) PROVE ItemInv'
  <2>1. \A u \in Thread \ {t} : pc'[u] = pc[u] /\ item'[u] = item[u]
    BY <1>10 DEF Fetch
  <2>2. i' = i /\ size' = size
    BY <1>10 DEF Fetch
  <2>3. CASE i < size
    <3>1. item'[t] = i /\ pc'[t] = "fetched"
      BY <1>10, <2>3 DEF Fetch
    <3> QED
      BY <2>1, <2>2, <2>3, <3>1
  <2>4. CASE i >= size
    <3>1. item'[t] = NoTask /\ pc'[t] = "unlock"
      BY <1>10, <2>4 DEF Fetch
    <3>2. pc[t] # "unborn" /\ pc[t] # "add"
      BY <1>10 DEF Fetch
    <3>3. pc[Caller] # "add"
      BY <3>2 DEF BirthInv, Others
    <3>4. i = N_TASKS
      BY <2>4, <3>3, TasksAssumption DEF PhaseInv
    <3> QED
      BY <2>1, <2>2, <3>1, <3>4
  <2> QED
    BY <2>3, <2>4
<1>15. ASSUME NEW t \in Thread, Advance(t) PROVE ItemInv'
  <2>1. \A u \in Thread \ {t} : pc'[u] = pc[u]
    BY <1>15 DEF Advance
  <2>2. /\ pc'[t] = "unlock" /\ item[t] = i /\ i < size /\ item' = item
        /\ i' = i + 1 /\ size' = size
    BY <1>15 DEF Advance
  <2>3. i < N_TASKS /\ i \in Task /\ i # NoTask
    BY <2>2, TasksAssumption
  <2>4. \A u \in Thread \ {t} : pc[u] # "fetched"
    BY <1>15 DEF Advance, MutexInv, GetTask
  <2>5. \A u \in Thread \ {t} :
          /\ InFlight(u, item[u]) /\ item[u] # NoTask => item[u] < i + 1
          /\ pc[u] \notin {"done", "join", "merge", "end"}
          /\ ~(pc[u] = "unlock" /\ item[u] = NoTask)
    BY <2>3
  <2> QED
    BY <2>1, <2>2, <2>3, <2>4, <2>5
<1>11. ASSUME NEW t \in Thread, Unlock(t) PROVE ItemInv'
  BY <1>11 DEF Unlock
<1>12. ASSUME NEW t \in Thread, RunTask(t) PROVE ItemInv'
  BY <1>12 DEF RunTask
<1>13. ASSUME NEW t \in Thread, Throw(t) PROVE ItemInv'
  BY <1>13 DEF Throw
<1>14. CASE UNCHANGED vars
  BY <1>14 DEF vars
<1> QED
  BY <1>1, <1>2, <1>3, <1>4, <1>5, <1>6, <1>7, <1>8, <1>9, <1>10, <1>11,
     <1>12, <1>13, <1>14, <1>15 DEF Next, Live, CallerStep, Work, Ended

LEMMA JoinStep == IInv /\ [Next]_vars => JoinInv'
<1> SUFFICES ASSUME IInv, [Next]_vars PROVE JoinInv'
  OBVIOUS
<1> USE ConstantFacts, EmptyFacts DEF IInv, ControlInv, TypeOK, JoinInv, Goto
<1>1. CASE Add
  BY <1>1 DEF Add
<1>2. CASE Run
  BY <1>2 DEF Run
<1>3. CASE Spawn
  BY <1>3 DEF Spawn
<1>4. CASE Spawned
  BY <1>4 DEF Spawned
<1>5. CASE Join
  <2>1. pc' = pc /\ stores' = stores /\ step' = step + 1 /\ step < Caller
    BY <1>5 DEF Join
  <2>2. \A t \in Others : t < step' => pc[t] = "done"
    <3> SUFFICES ASSUME NEW t \in Others, t < step' PROVE pc[t] = "done"
      OBVIOUS
    <3>1. CASE t = step
      BY <1>5, <3>1 DEF Join
    <3>2. CASE t # step
      <4>1. t < step
        BY <2>1, <3>2 DEF Others
      <4> QED
        BY <1>5, <4>1 DEF Join
    <3> QED
      BY <3>1, <3>2
  <2> QED
    BY <1>5, <2>1, <2>2 DEF Join
<1>6. CASE Joined
  BY <1>6 DEF Joined
<1>7. CASE Merge
  BY <1>7 DEF Merge
<1>8. CASE Merged
  BY <1>8 DEF Merged
<1>9. ASSUME NEW t \in Thread, Lock(t) PROVE JoinInv'
  BY <1>9 DEF Lock
<1>10. ASSUME NEW t \in Thread, Fetch(t) PROVE JoinInv'
  BY <1>10 DEF Fetch
<1>15. ASSUME NEW t \in Thread, Advance(t) PROVE JoinInv'
  BY <1>15 DEF Advance, MutexInv
<1>11. ASSUME NEW t \in Thread, Unlock(t) PROVE JoinInv'
  BY <1>11 DEF Unlock, PhaseInv, GetTask
<1>12. ASSUME NEW t \in Thread, RunTask(t) PROVE JoinInv'
  BY <1>12 DEF RunTask
<1>13. ASSUME NEW t \in Thread, Throw(t) PROVE JoinInv'
  BY <1>13 DEF Throw
<1>14. CASE UNCHANGED vars
  BY <1>14 DEF vars
<1> QED
  BY <1>1, <1>2, <1>3, <1>4, <1>5, <1>6, <1>7, <1>8, <1>9, <1>10, <1>11,
     <1>12, <1>13, <1>14, <1>15 DEF Next, Live, CallerStep, Work, Ended

LEMMA FailStep == IInv /\ [Next]_vars => FailInv'
<1> SUFFICES ASSUME IInv, [Next]_vars, outcome' # "ok" PROVE (\E t \in Thread : pc[t] = "run")'
  BY DEF FailInv
<1>1. CASE CallerStep /\ outcome = "ok"
  BY <1>1 DEF CallerStep, Add, Run, Spawn, Spawned, Join, Joined, Merge, Merged
<1>2. ASSUME NEW t \in Thread, Throw(t) PROVE (\E u \in Thread : pc[u] = "run")'
  BY <1>2 DEF Throw
<1>3. ASSUME NEW t \in Thread, Work(t), ~Throw(t), outcome = "ok" PROVE FALSE
  BY <1>3 DEF Work, Lock, Fetch, Advance, Unlock, RunTask
<1>4. CASE UNCHANGED vars
  BY <1>4 DEF IInv, FailInv, vars
<1> QED
  BY <1>1, <1>2, <1>3, <1>4 DEF Next, Live, Ended

\* Where the effect of a task is does not depend on anything but the stores,
\* what is in flight, the merged result and i.
LEMMA SamePlace ==
    ASSUME NEW k \in Task, k < i' <=> k < i, combined'[k] = combined[k],
           \A t \in Thread : /\ stores'[t][k] = stores[t][k]
                             /\ InFlight(t, k)' <=> InFlight(t, k),
           IF k < i THEN InResult(k) \/ WithOneThread(k) ELSE Nowhere(k)
    PROVE  (IF k < i THEN InResult(k) \/ WithOneThread(k) ELSE Nowhere(k))'
<1>1. \A t \in Thread : Holds(t, k)' <=> Holds(t, k)
  BY DEF Holds
<1>2. InResult(k)' <=> InResult(k)
  BY <1>1 DEF InResult
<1>3. Nowhere(k)' <=> Nowhere(k)
  BY <1>1 DEF Nowhere
<1>4. WithOneThread(k)' <=> WithOneThread(k)
  BY <1>1 DEF WithOneThread
<1> QED
  BY <1>2, <1>3, <1>4

LEMMA SamePlaces ==
    ASSUME ExactlyOnce, i' = i, combined' = combined,
           \A t \in Thread : \A k \in Task :
               /\ stores'[t][k] = stores[t][k]
               /\ InFlight(t, k)' <=> InFlight(t, k)
    PROVE  ExactlyOnce'
BY SamePlace DEF ExactlyOnce

LEMMA ExactlyOnceStep == IInv /\ [Next]_vars => ExactlyOnce'
<1> SUFFICES ASSUME IInv, [Next]_vars PROVE ExactlyOnce'
  OBVIOUS
<1> USE ConstantFacts, EmptyFacts, TasksAssumption DEF IInv, ControlInv, TypeOK, Goto
<1>1. CASE Add
  BY <1>1, SamePlaces DEF Add, InFlight
<1>2. CASE Run
  <2>1. i' = 0 /\ combined' = Empty /\ \A t \in Thread : stores'[t] = Empty
    BY <1>2 DEF Run, PhaseInv
  <2>2. \A t \in Thread : pc'[t] \notin {"unlock", "run"}
    BY <1>2 DEF Run, BirthInv, Others
  <2> QED
    BY <2>1, <2>2 DEF ExactlyOnce, Nowhere, Holds, InFlight
<1>3. CASE Spawn
  <2>1. pc[step] = "unborn"
    BY <1>3 DEF Spawn, BirthInv
  <2> QED
    BY <1>3, <2>1, SamePlaces DEF Spawn, InFlight
<1>4. CASE Spawned
  BY <1>4, SamePlaces DEF Spawned, InFlight
<1>5. CASE Join
  BY <1>5, SamePlaces DEF Join, InFlight
<1>6. CASE Joined
  BY <1>6, SamePlaces DEF Joined, InFlight
<1>7. CASE Merge
  <2>1. /\ step \in Thread /\ pc' = pc /\ item' = item /\ i' = i
        /\ stores' = [stores EXCEPT ![step] = Empty]
        /\ combined' = MergedWith(combined, stores[step])
    BY <1>7 DEF Merge
  <2>2. \A t \in Thread, k \in Task : ~InFlight(t, k) /\ ~InFlight(t, k)'
    BY <1>7, <2>1 DEF Merge, InFlight, JoinInv, Others
  <2>3. \A k \in Task :
          /\ combined'[k] = combined[k] + stores[step][k]
          /\ stores'[step][k] = 0
          /\ \A t \in Thread \ {step} : stores'[t][k] = stores[t][k]
    BY <2>1, MergeFacts
  <2> SUFFICES ASSUME NEW k \in Task PROVE k < i' /\ (InResult(k)' \/ WithOneThread(k)')
    BY DEF ExactlyOnce
  <2>4. k < i /\ k < i'
    BY <1>7, <2>1 DEF Merge, ItemInv
  <2>5. \A t \in Thread : stores[t][k] \in Nat
    OBVIOUS
  <2>6. CASE InResult(k)
    <3>1. combined[k] = 1 /\ \A t \in Thread : stores[t][k] = 0
      BY <2>5, <2>6 DEF InResult, Holds
    <3>2. combined'[k] = 1 /\ \A t \in Thread : stores'[t][k] = 0
      BY <2>1, <2>3, <3>1
    <3> QED
      BY <2>2, <2>4, <3>2 DEF InResult, Holds
  <2>7. CASE WithOneThread(k)
    <3> PICK t \in Thread : /\ Holds(t, k)
                            /\ stores[t][k] <= IF InFlight(t, k) THEN 0 ELSE 1
                            /\ \A u \in Thread \ {t} : ~Holds(u, k)
      BY <2>7 DEF WithOneThread
    <3>1. /\ combined[k] = 0 /\ stores[t][k] = 1
          /\ \A u \in Thread \ {t} : stores[u][k] = 0
      BY <2>2, <2>5, <2>7 DEF WithOneThread, Holds
    <3>2. CASE t = step
      <4>1. combined'[k] = 1 /\ \A u \in Thread : stores'[u][k] = 0
        BY <2>1, <2>3, <3>1, <3>2
      <4> QED
        BY <2>2, <2>4, <4>1 DEF InResult, Holds
    <3>3. CASE t # step
      <4>1. /\ combined'[k] = 0 /\ stores'[t][k] = 1
            /\ \A u \in Thread \ {t} : stores'[u][k] = 0
        BY <2>1, <2>3, <3>1, <3>3
      <4>2. Holds(t, k)' /\ \A u \in Thread \ {t} : ~Holds(u, k)'
        BY <2>2, <4>1 DEF Holds
      <4> QED
        BY <2>2, <2>4, <4>1, <4>2 DEF WithOneThread
    <3> QED
      BY <3>2, <3>3
  <2> QED
    BY <2>4, <2>6, <2>7 DEF ExactlyOnce
<1>8. CASE Merged
  BY <1>8, SamePlaces DEF Merged, InFlight
<1>9. ASSUME NEW t \in Thread, Lock(t) PROVE ExactlyOnce'
  BY <1>9, SamePlaces DEF Lock, InFlight
<1>10. ASSUME NEW t \in Thread, Fetch(t) PROVE ExactlyOnce'
  <2>1. /\ pc[t] = "locked" /\ pc'[t] \in {"fetched", "unlock"}
        /\ pc'[t] = "unlock" => item'[t] = NoTask
        /\ \A u \in Thread \ {t} : pc'[u] = pc[u] /\ item'[u] = item[u]
        /\ stores' = stores /\ combined' = combined /\ i' = i
    BY <1>10 DEF Fetch
  <2> QED
    BY <2>1, SamePlaces DEF InFlight
<1>15. ASSUME NEW t \in Thread, Advance(t) PROVE ExactlyOnce'
  <2>1. /\ pc[t] = "fetched" /\ pc'[t] = "unlock"
        /\ \A u \in Thread \ {t} : pc'[u] = pc[u]
        /\ item' = item /\ stores' = stores /\ combined' = combined
    BY <1>15 DEF Advance
  <2>2. i' = i + 1 /\ item[t] = i /\ i < size
    BY <1>15 DEF Advance, ItemInv
  <2>3. i \in Task
    BY <2>2
  <2> SUFFICES ASSUME NEW k \in Task
               PROVE (IF k < i THEN InResult(k) \/ WithOneThread(k) ELSE Nowhere(k))'
    BY DEF ExactlyOnce
  <2>4. CASE k = i
    <3>1. combined[k] = 0 /\ \A u \in Thread : ~Holds(u, k)
      BY <2>4 DEF ExactlyOnce, Nowhere
    <3>2. /\ InFlight(t, k)'
          /\ \A u \in Thread \ {t} : InFlight(u, k)' <=> InFlight(u, k)
      BY <2>1, <2>2, <2>4 DEF InFlight
    <3>3. /\ stores'[t][k] <= 0 /\ Holds(t, k)'
          /\ \A u \in Thread \ {t} : ~Holds(u, k)'
      BY <2>1, <3>1, <3>2 DEF Holds
    <3>4. WithOneThread(k)'
      BY <2>1, <3>1, <3>2, <3>3 DEF WithOneThread
    <3> QED
      BY <2>2, <2>4, <3>4
  <2>5. CASE k # i
    <3>1. k < i' <=> k < i
      BY <2>2, <2>5
    <3>2. \A u \in Thread : InFlight(u, k)' <=> InFlight(u, k)
      BY <2>1, <2>2, <2>5 DEF InFlight
    <3> QED
      BY <2>1, <3>1, <3>2, SamePlace DEF ExactlyOnce
  <2> QED
    BY <2>4, <2>5
<1>11. ASSUME NEW t \in Thread, Unlock(t) PROVE ExactlyOnce'
  BY <1>11, SamePlaces DEF Unlock, InFlight
<1>12. ASSUME NEW t \in Thread, RunTask(t) PROVE ExactlyOnce'
  <2> PICK k \in Task : k = item[t]
    BY <1>12 DEF RunTask, ItemInv
  <2>1. k < i /\ InFlight(t, k)
    BY <1>12 DEF RunTask, ItemInv, InFlight
  <2>2. /\ i' = i /\ combined' = combined /\ item' = item /\ pc'[t] = "poll"
        /\ \A u \in Thread \ {t} : pc'[u] = pc[u] /\ stores'[u] = stores[u]
        /\ stores'[t] = WithTask(stores[t], k)
    BY <1>12 DEF RunTask
  <2>3. WithOneThread(k)
    BY <2>1 DEF ExactlyOnce, InResult, Holds
  <2>4. /\ combined[k] = 0 /\ stores[t][k] = 0
        /\ \A u \in Thread \ {t} : ~Holds(u, k)
    BY <2>1, <2>3 DEF WithOneThread, Holds
  <2>5. stores'[t][k] = 1 /\ \A l \in Task \ {k} : stores'[t][l] = stores[t][l]
    <3>1. stores[t] \in [Task -> Nat]
      OBVIOUS
    <3>2. /\ WithTask(stores[t], k)[k] = stores[t][k] + 1
          /\ \A l \in Task \ {k} : WithTask(stores[t], k)[l] = stores[t][l]
      BY <3>1, WithTaskFacts
    <3> QED
      BY <2>2, <2>4, <3>2
  <2> SUFFICES ASSUME NEW l \in Task
               PROVE (IF l < i THEN InResult(l) \/ WithOneThread(l) ELSE Nowhere(l))'
    BY DEF ExactlyOnce
  <2>6. CASE l = k
    <3>1. /\ Holds(t, k)' /\ ~InFlight(t, k)'
          /\ \A u \in Thread \ {t} : ~Holds(u, k)'
      BY <2>2, <2>4, <2>5 DEF Holds, InFlight
    <3>2. WithOneThread(k)'
      <4>1. combined'[k] = 0
        BY <2>2, <2>4
      <4>2. stores'[t][k] <= 1
        BY <2>5
      <4> QED
        BY <3>1, <4>1, <4>2 DEF WithOneThread
    <3> QED
      BY <2>1, <2>2, <2>6, <3>2
  <2>7. CASE l # k
    <3>1. \A u \in Thread : /\ stores'[u][l] = stores[u][l]
                            /\ InFlight(u, l)' <=> InFlight(u, l)
      BY <2>2, <2>5, <2>7 DEF InFlight
    <3> QED
      BY <2>2, <3>1, SamePlace DEF ExactlyOnce
  <2> QED
    BY <2>6, <2>7
<1>13. ASSUME NEW t \in Thread, Throw(t) PROVE ExactlyOnce'
  BY <1>13, SamePlaces DEF Throw, InFlight
<1>14. CASE UNCHANGED vars
  BY <1>14, SamePlaces DEF vars, InFlight
<1> QED
  BY <1>1, <1>2, <1>3, <1>4, <1>5, <1>6, <1>7, <1>8, <1>9, <1>10, <1>11,
     <1>12, <1>13, <1>14, <1>15 DEF Next, Live, CallerStep, Work, Ended

LEMMA Inductive == IInv /\ [Next]_vars => IInv'
BY TypeStep, RolesStep, MutexStep, PhaseStep, BirthStep, ItemStep, JoinStep,
   FailStep, ExactlyOnceStep DEF IInv, ControlInv

LEMMA Invariance == Spec => []IInv
BY InitIInv, Inductive, PTL DEF Spec

-----------------------------------------------------------------------------
(* The results.                                                            *)

\* Every variable keeps its type; in particular get_task never indexes past
\* the end of vec (queue.h:29-30).
THEOREM TypeCorrect == Spec => []TypeOK
<1>1. IInv => TypeOK
  BY DEF IInv, ControlInv
<1> QED
  BY <1>1, Invariance, PTL

\* However the threads interleave, a task handed out is in one place, once
\* (queue.h:25-42).
THEOREM EveryTaskOnce == Spec => []ExactlyOnce
<1>1. IInv => ExactlyOnce
  BY DEF IInv
<1> QED
  BY <1>1, Invariance, PTL

\* The caller reads the stores only when no thread can still write them
\* (queue.h:53-55, enumerator.cpp:192-199).
THEOREM StoresAreQuiet == Spec => []NoRaceOnStores
<1>1. IInv => NoRaceOnStores
  BY DEF IInv, JoinInv, NoRaceOnStores, Others
<1> QED
  BY <1>1, Invariance, PTL

\* The merged result is whole: every task once, and no exception was thrown
\* (enumerator.cpp:192-200).
THEOREM ResultIsWhole == Spec => []CompleteResult
<1>1. IInv => CompleteResult
  <2> SUFFICES ASSUME IInv, pc[Caller] = "end"
               PROVE  outcome = "ok" /\ \A k \in Task : combined[k] = 1
    BY DEF CompleteResult
  <2> USE ConstantFacts, EmptyFacts DEF IInv, ControlInv
  <2>1. i = N_TASKS
    BY DEF ItemInv
  <2>2. \A t \in Thread : \A k \in Task : ~Holds(t, k)
    BY DEF JoinInv, Holds, InFlight, Others
  <2>3. \A k \in Task : combined[k] = 1
    BY <2>1, <2>2 DEF ExactlyOnce, InResult, WithOneThread
  <2>4. outcome = "ok"
    BY DEF JoinInv, FailInv, Others
  <2> QED
    BY <2>3, <2>4
<1> QED
  BY <1>1, Invariance, PTL
-----------------------------------------------------------------------------
(* The queue implements the abstract pool: tasks take effect one by one,   *)
(* each once, and the answer comes after all of them or after a failure.   *)

LEMMA InitMapsToInit == Init => Pool!PoolInit
<1> SUFFICES ASSUME Init PROVE Pool!PoolInit
  OBVIOUS
<1>1. Unfinished = Task
  BY EmptyFacts DEF Init, Unfinished
<1>2. Answer = "none"
  BY ConstantFacts DEF Init, Answer
<1> QED
  BY <1>1, <1>2 DEF Pool!PoolInit

\* A step that moves no effect and neither ends nor fails is a stutter.
LEMMA Stutter ==
    ASSUME stores' = stores, combined' = combined, outcome' = outcome,
           pc'[Caller] = "end" <=> pc[Caller] = "end"
    PROVE  Unfinished' = Unfinished /\ Answer' = Answer
BY DEF Unfinished, Answer

\* A task in flight has taken no effect anywhere.
LEMMA InFlightIsUnfinished ==
    ASSUME IInv, NEW t \in Thread, NEW k \in Task, InFlight(t, k)
    PROVE  combined[k] = 0 /\ \A u \in Thread : stores[u][k] = 0
<1> USE ConstantFacts DEF IInv, ControlInv, TypeOK
<1>1. k < i
  BY DEF InFlight, ItemInv
<1>2. WithOneThread(k)
  BY <1>1 DEF ExactlyOnce, InResult, Holds
<1>3. combined[k] = 0 /\ stores[t][k] <= 0 /\ \A u \in Thread \ {t} : ~(stores[u][k] > 0)
  BY <1>2 DEF WithOneThread, Holds
<1>4. \A u \in Thread : stores[u][k] \in Nat
  OBVIOUS
<1> QED
  BY <1>3, <1>4

LEMMA StepMapsToStep == IInv /\ [Next]_vars => [Pool!PoolNext]_Pool!poolVars
<1> SUFFICES ASSUME IInv, [Next]_vars
             PROVE  \/ Unfinished' = Unfinished /\ Answer' = Answer
                    \/ \E k \in Task : Pool!Complete(k)
                    \/ Pool!Return
                    \/ Pool!Fail
  BY DEF Pool!PoolNext, Pool!poolVars
<1> USE ConstantFacts, EmptyFacts DEF IInv, ControlInv, TypeOK, Goto
<1>1. CASE Add
  BY <1>1, Stutter DEF Add
<1>2. CASE Run
  <2>1. \A k \in Task : Nowhere(k)
    BY <1>2 DEF Run, PhaseInv, ExactlyOnce
  <2>2. Unfinished = Task /\ Unfinished' = Task
    BY <1>2, <2>1 DEF Run, Unfinished, Nowhere, Holds
  <2>3. Answer' = Answer
    BY <1>2 DEF Run, Answer
  <2> QED
    BY <2>2, <2>3
<1>3. CASE Spawn
  <2>1. pc'[Caller] = pc[Caller]
    BY <1>3 DEF Spawn
  <2> QED
    BY <1>3, <2>1, Stutter DEF Spawn
<1>4. CASE Spawned
  BY <1>4, Stutter DEF Spawned
<1>5. CASE Join
  BY <1>5, Stutter DEF Join
<1>6. CASE Joined
  BY <1>6, Stutter DEF Joined
<1>7. CASE Merge
  <2>1. /\ step \in Thread /\ pc' = pc /\ outcome' = outcome
        /\ stores' = [stores EXCEPT ![step] = Empty]
        /\ combined' = MergedWith(combined, stores[step])
    BY <1>7 DEF Merge
  <2>2. \A k \in Task :
          /\ combined'[k] = combined[k] + stores[step][k]
          /\ stores'[step][k] = 0
          /\ \A t \in Thread \ {step} : stores'[t][k] = stores[t][k]
    BY <2>1, MergeFacts
  <2>3. \A k \in Task : combined[k] \in Nat /\ stores[step][k] \in Nat
    BY <2>1
  <2>4. \A k \in Task : combined'[k] = 0 <=> combined[k] = 0 /\ stores[step][k] = 0
    BY <2>2, <2>3
  <2>5. Unfinished' = Unfinished
    BY <2>1, <2>2, <2>4 DEF Unfinished
  <2>6. Answer' = Answer
    BY <2>1 DEF Answer
  <2> QED
    BY <2>5, <2>6
<1>8. CASE Merged /\ outcome = "ok"
  <2>1. \A k \in Task : combined[k] = 1
    <3>1. i = N_TASKS
      BY <1>8 DEF Merged, ItemInv
    <3>2. \A k \in Task : ~WithOneThread(k)
      BY <1>8 DEF Merged, JoinInv, WithOneThread, Holds, InFlight, Others
    <3> QED
      BY <3>1, <3>2 DEF ExactlyOnce, InResult
  <2>2. Unfinished = {} /\ Unfinished' = {}
    BY <1>8, <2>1 DEF Merged, Unfinished
  <2>3. Answer = "none" /\ Answer' = "all"
    BY <1>8 DEF Merged, Answer
  <2> QED
    BY <2>2, <2>3 DEF Pool!Return
<1>9. ASSUME NEW t \in Thread, Lock(t) PROVE Unfinished' = Unfinished /\ Answer' = Answer
  BY <1>9, Stutter DEF Lock
<1>10. ASSUME NEW t \in Thread, Fetch(t) PROVE Unfinished' = Unfinished /\ Answer' = Answer
  BY <1>10, Stutter DEF Fetch
<1>15. ASSUME NEW t \in Thread, Advance(t) PROVE Unfinished' = Unfinished /\ Answer' = Answer
  BY <1>15, Stutter DEF Advance
<1>11. ASSUME NEW t \in Thread, Unlock(t) PROVE Unfinished' = Unfinished /\ Answer' = Answer
  BY <1>11, Stutter DEF Unlock
<1>12. ASSUME NEW t \in Thread, RunTask(t), outcome = "ok"
       PROVE  \E k \in Task : Pool!Complete(k)
  <2> PICK k \in Task : k = item[t]
    BY <1>12 DEF RunTask, ItemInv
  <2>1. /\ combined' = combined /\ pc'[t] = "poll"
        /\ pc[t] = "run" /\ outcome' = outcome
        /\ \A u \in Thread \ {t} : stores'[u] = stores[u] /\ pc'[u] = pc[u]
        /\ stores'[t] = WithTask(stores[t], k)
    BY <1>12 DEF RunTask
  <2>2. combined[k] = 0 /\ \A u \in Thread : stores[u][k] = 0
    <3>1. InFlight(t, k)
      BY <2>1 DEF InFlight
    <3> QED
      BY <3>1, InFlightIsUnfinished
  <2>3. stores[t] \in [Task -> Nat]
    OBVIOUS
  <2>4. /\ stores'[t][k] = stores[t][k] + 1
        /\ \A l \in Task \ {k} : stores'[t][l] = stores[t][l]
    <3>0. k \in Task
      OBVIOUS
    <3>1. /\ WithTask(stores[t], k)[k] = stores[t][k] + 1
          /\ \A l \in Task \ {k} : WithTask(stores[t], k)[l] = stores[t][l]
      BY ONLY <2>3, <3>0, WithTaskFacts
    <3> QED
      BY <2>1, <3>1
  <2>5. k \in Unfinished /\ Unfinished' = Unfinished \ {k}
    <3>1. k \in Unfinished
      BY <2>2 DEF Unfinished
    <3>2. k \notin Unfinished'
      BY <2>2, <2>4 DEF Unfinished
    <3>3. \A l \in Task \ {k} : l \in Unfinished' <=> l \in Unfinished
      BY <2>1, <2>4 DEF Unfinished
    <3>4. Unfinished \subseteq Task /\ Unfinished' \subseteq Task
      BY DEF Unfinished
    <3> HIDE DEF Unfinished
    <3> QED
      BY <3>1, <3>2, <3>3, <3>4
  <2>6. Answer = "none" /\ Answer' = "none"
    <3>1. pc[Caller] # "end" /\ pc'[Caller] # "end"
      BY <2>1 DEF JoinInv, Others
    <3> QED
      BY <1>12, <2>1, <3>1 DEF Answer
  <2>7. Pool!Complete(k)
    BY <2>5, <2>6 DEF Pool!Complete
  <2> QED
    BY <2>7
<1>13. ASSUME NEW t \in Thread, Throw(t), outcome = "ok" PROVE Pool!Fail
  <2> PICK k \in Task : k = item[t]
    BY <1>13 DEF Throw, ItemInv
  <2>1. InFlight(t, k)
    BY <1>13 DEF Throw, InFlight
  <2>2. combined[k] = 0 /\ \A u \in Thread : stores[u][k] = 0
    BY <2>1, InFlightIsUnfinished
  <2>3. Unfinished # {} /\ Unfinished' = Unfinished
    BY <1>13, <2>2 DEF Throw, Unfinished
  <2>4. pc[Caller] # "end"
    BY <1>13 DEF Throw, JoinInv, Others
  <2>5. Answer = "none" /\ Answer' = "failed"
    BY <1>13, <2>4 DEF Throw, Answer
  <2> QED
    BY <2>3, <2>5 DEF Pool!Fail
<1>14. CASE UNCHANGED vars
  BY <1>14, Stutter DEF vars
<1> QED
  BY <1>1, <1>2, <1>3, <1>4, <1>5, <1>6, <1>7, <1>8, <1>9, <1>10, <1>11,
     <1>12, <1>13, <1>14, <1>15 DEF Next, Live, CallerStep, Work, Ended

\* Every run of the work queue is a run of the abstract pool
\* (queue.h:17-57, enumerator.cpp:192-200).
THEOREM QueueImplementsPool == Spec => ImplementsPool
BY InitMapsToInit, StepMapsToStep, Invariance, PTL
   DEF Spec, ImplementsPool, Pool!PoolSpec

-----------------------------------------------------------------------------
(* The priority queue.                                                     *)

-----------------------------------------------------------------------------
(* Sums over a finite set: SumFunctionOnSet, step by step.                  *)

\* Each set of numbers has a least one.
LEMMA Least ==
    ASSUME NEW T, T \subseteq Nat, T # {}
    PROVE  \E m \in T : \A n \in T : m <= n
<1>1. PICK m \in T : \A n \in T : <<n, m>> \notin OpToRel(<, Nat)
  BY WFMin, NatLessThanWellFounded, Zenon
<1>2. \A n \in T : ~(n < m)
  BY <1>1, Zenon DEF OpToRel
<1> QED
  BY <1>2

\* A part of a finite set that is smallest among those with a property.
LEMMA Smallest ==
    ASSUME NEW S, IsFiniteSet(S), NEW bad, bad \subseteq SUBSET S, bad # {}
    PROVE  \E u \in bad : \A w \in SUBSET u : w # u => w \notin bad
<1>1. \A u \in SUBSET S : IsFiniteSet(u) /\ Cardinality(u) \in Nat
  BY FS_Subset, FS_CardinalityType
<1> DEFINE sizes == {Cardinality(u) : u \in bad}
<1>2. sizes \subseteq Nat /\ sizes # {}
  BY <1>1
<1>3. PICK m \in sizes : \A n \in sizes : m <= n
  BY <1>2, Least
<1>4. PICK u \in bad : m = Cardinality(u)
  BY <1>3
<1>5. ASSUME NEW w \in SUBSET u, w # u, w \in bad PROVE FALSE
  <2>1. Cardinality(w) <= Cardinality(u) /\ Cardinality(w) # Cardinality(u)
    BY <1>1, <1>5, FS_Subset
  <2>2. m <= Cardinality(w)
    BY <1>3, <1>5
  <2> QED
    BY <1>1, <1>4, <1>5, <2>1, <2>2
<1> QED
  BY <1>4, <1>5

Some(s) == CHOOSE x \in s : TRUE

SumRule(h, g, S) ==
    h = [s \in SUBSET S |-> IF s = {} THEN 0 ELSE g[Some(s)] + h[s \ {Some(s)}]]

\* SumFunctionOnSet is what the rule determines.
LEMMA SumIsByRule ==
    ASSUME NEW g, NEW S
    PROVE  SumFunctionOnSet(g, S) = (CHOOSE h : SumRule(h, g, S))[S]
BY DEF SumFunctionOnSet, FoldFunctionOnSet, MapThenFoldSet, SumRule, Some

LEMMA SumRuleAt ==
    ASSUME NEW g, NEW S, NEW h, SumRule(h, g, S)
    PROVE  /\ h[{}] = 0
           /\ \A s \in SUBSET S : s # {} => h[s] = g[Some(s)] + h[s \ {Some(s)}]
BY DEF SumRule

\* The rule determines the sums.
LEMMA SumRuleUnique ==
    ASSUME NEW S, IsFiniteSet(S), NEW g, NEW h, NEW k,
           SumRule(h, g, S), SumRule(k, g, S)
    PROVE  h = k
<1> DEFINE bad == {u \in SUBSET S : h[u] # k[u]}
<1>1. SUFFICES bad = {}
  <2>1. h = [s \in SUBSET S |-> h[s]] /\ k = [s \in SUBSET S |-> k[s]]
    BY DEF SumRule
  <2> QED
    BY <1>1, <2>1
<1>2. SUFFICES ASSUME bad # {} PROVE FALSE
  OBVIOUS
<1>3. PICK u \in bad : \A w \in SUBSET u : w # u => w \notin bad
  <2>1. bad \subseteq SUBSET S
    OBVIOUS
  <2> HIDE DEF bad
  <2> QED
    BY <1>2, <2>1, Smallest
<1>4. u # {}
  BY <1>3, SumRuleAt
<1>5. Some(u) \in u
  BY <1>4 DEF Some
<1>6. h[u \ {Some(u)}] = k[u \ {Some(u)}]
  BY <1>3, <1>5
<1>7. u \in SUBSET S /\ h[u] # k[u]
  BY <1>3
<1> QED
  BY <1>4, <1>6, <1>7, SumRuleAt

\* For a part of a set it gives what it gives for the set.
LEMMA SumRulePart ==
    ASSUME NEW S, IsFiniteSet(S), NEW T \in SUBSET S, NEW g, NEW h, NEW k,
           SumRule(h, g, S), SumRule(k, g, T)
    PROVE  \A u \in SUBSET T : k[u] = h[u]
<1> DEFINE r == [s \in SUBSET T |-> h[s]]
<1>1. \A s \in SUBSET T : s # {} => s \ {Some(s)} \in SUBSET T /\ s \in SUBSET S
  OBVIOUS
<1>2. ASSUME NEW s \in SUBSET T
      PROVE  r[s] = IF s = {} THEN 0 ELSE g[Some(s)] + r[s \ {Some(s)}]
  <2>1. CASE s = {}
    BY <2>1, SumRuleAt
  <2>2. CASE s # {}
    <3>1. PICK v \in SUBSET T : v = s \ {Some(s)}
      BY <1>1, <2>2
    <3>2. h[s] = g[Some(s)] + h[v]
      BY <1>1, <2>2, <3>1, SumRuleAt
    <3> QED
      BY <2>2, <3>1, <3>2
  <2> QED
    BY <2>1, <2>2
<1>3. SumRule(r, g, T)
  BY <1>2 DEF SumRule
<1>4. IsFiniteSet(T)
  BY FS_Subset
<1>5. k = r
  BY <1>3, <1>4, SumRuleUnique
<1> QED
  BY <1>5

\* There are such sums, since each only needs those over smaller sets.
LEMMA SumRuleExists ==
    ASSUME NEW S, IsFiniteSet(S), NEW g
    PROVE  \E h : SumRule(h, g, S)
<1> DEFINE bad == {u \in SUBSET S : ~\E h : SumRule(h, g, u)}
<1>1. SUFFICES ASSUME bad # {} PROVE FALSE
  OBVIOUS
<1>2. PICK u \in bad : \A w \in SUBSET u : w # u => w \notin bad
  <2>1. bad \subseteq SUBSET S
    OBVIOUS
  <2> HIDE DEF bad
  <2> QED
    BY <1>1, <2>1, Smallest
<1> DEFINE sums(w) == CHOOSE h : SumRule(h, g, w)
<1>3. \A w \in SUBSET u : w # u => SumRule(sums(w), g, w) /\ IsFiniteSet(w)
  BY <1>2, FS_Subset
<1> HIDE DEF sums
<1> DEFINE k == [w \in SUBSET u |->
                   IF w = {} THEN 0 ELSE g[Some(w)] + sums(w \ {Some(w)})[w \ {Some(w)}]]
<1>4. ASSUME NEW v \in SUBSET u, v # u
      PROVE  k[v] = sums(v)[v]
  <2>1. SumRule(sums(v), g, v) /\ IsFiniteSet(v)
    BY <1>3, <1>4
  <2>2. CASE v = {}
    BY <2>1, <2>2, SumRuleAt
  <2>3. CASE v # {}
    <3>1. PICK w : w = v \ {Some(v)}
      OBVIOUS
    <3>2. Some(v) \in v
      BY <2>3 DEF Some
    <3>3. w \in SUBSET v /\ w \in SUBSET u /\ w # u
      BY <1>4, <3>1, <3>2
    <3>4. SumRule(sums(w), g, w)
      BY <1>3, <3>3
    <3>5. sums(w)[w] = sums(v)[w]
      BY <2>1, <3>3, <3>4, SumRulePart
    <3>6. sums(v)[v] = g[Some(v)] + sums(v)[w]
      BY <2>1, <2>3, <3>1, SumRuleAt
    <3> QED
      BY <2>3, <3>1, <3>5, <3>6
  <2> QED
    BY <2>2, <2>3
<1>5. ASSUME NEW w \in SUBSET u, w # {}
      PROVE  k[w] = g[Some(w)] + k[w \ {Some(w)}]
  <2>1. Some(w) \in w
    BY <1>5 DEF Some
  <2>2. w \ {Some(w)} \in SUBSET u /\ w \ {Some(w)} # u
    BY <2>1
  <2> QED
    BY <1>4, <1>5, <2>2
<1>6. k = [w \in SUBSET u |-> IF w = {} THEN 0 ELSE g[Some(w)] + k[w \ {Some(w)}]]
  BY <1>5
<1>7. SumRule(k, g, u)
  BY <1>6 DEF SumRule
<1> QED
  BY <1>2, <1>7

\* The sum over no element, and over one more.
LEMMA SumStep ==
    ASSUME NEW S, IsFiniteSet(S), NEW g
    PROVE  /\ SumFunctionOnSet(g, {}) = 0
           /\ S # {} => SumFunctionOnSet(g, S)
                          = g[Some(S)] + SumFunctionOnSet(g, S \ {Some(S)})
<1> DEFINE sums(w) == CHOOSE h : SumRule(h, g, w)
<1>1. \A w : IsFiniteSet(w) => SumRule(sums(w), g, w)
  BY SumRuleExists
<1>2. \A w : SumFunctionOnSet(g, w) = sums(w)[w]
  BY SumIsByRule
<1> HIDE DEF sums
<1>3. SumFunctionOnSet(g, {}) = 0
  BY <1>1, <1>2, FS_EmptySet, SumRuleAt
<1>4. ASSUME S # {}
      PROVE  SumFunctionOnSet(g, S) = g[Some(S)] + SumFunctionOnSet(g, S \ {Some(S)})
  <2>1. PICK w : w = S \ {Some(S)}
    OBVIOUS
  <2>2. IsFiniteSet(w) /\ w \in SUBSET S
    BY <2>1, FS_Subset
  <2>3. sums(w)[w] = sums(S)[w]
    BY <1>1, <2>2, SumRulePart
  <2>4. sums(S)[S] = g[Some(S)] + sums(S)[w]
    BY <1>1, <1>4, <2>1, SumRuleAt
  <2> QED
    BY <1>2, <2>1, <2>3, <2>4
<1> QED
  BY <1>3, <1>4

-----------------------------------------------------------------------------
(* Sums of natural numbers.                                                 *)

Total(g, S) == SumFunctionOnSet(g, S)

OnNats(g, S) == \A x \in S : g[x] \in Nat

\* The sum over no element, and over one more that the definition chooses.
LEMMA TotalEmpty == \A g : Total(g, {}) = 0
BY SumStep, FS_EmptySet DEF Total

LEMMA TotalStep ==
    ASSUME NEW S, IsFiniteSet(S), NEW g, S # {}
    PROVE  Some(S) \in S /\ Total(g, S) = g[Some(S)] + Total(g, S \ {Some(S)})
BY SumStep DEF Total, Some

\* Sums of numbers are numbers.
LEMMA TotalNat ==
    ASSUME NEW S, IsFiniteSet(S), NEW g, OnNats(g, S)
    PROVE  Total(g, S) \in Nat
<1> DEFINE bad == {u \in SUBSET S : Total(g, u) \notin Nat}
<1>1. SUFFICES ASSUME bad # {} PROVE FALSE
  OBVIOUS
<1>2. PICK u \in bad : \A w \in SUBSET u : w # u => w \notin bad
  <2>1. bad \subseteq SUBSET S
    OBVIOUS
  <2> HIDE DEF bad
  <2> QED
    BY <1>1, <2>1, Smallest
<1>3. u \in SUBSET S /\ Total(g, u) \notin Nat /\ IsFiniteSet(u)
  BY <1>2, FS_Subset
<1>4. u # {}
  BY <1>3, TotalEmpty
<1>5. PICK x \in u : Total(g, u) = g[x] + Total(g, u \ {x})
  BY <1>3, <1>4, TotalStep
<1>6. PICK w : w = u \ {x}
  OBVIOUS
<1>7. Total(g, w) \in Nat
  BY <1>2, <1>3, <1>5, <1>6
<1>8. g[x] \in Nat
  BY <1>3, <1>5 DEF OnNats
<1> QED
  BY <1>3, <1>5, <1>6, <1>7, <1>8

\* The sum does not depend on the order.
LEMMA TotalRemove ==
    ASSUME NEW S, IsFiniteSet(S), NEW g, OnNats(g, S), NEW y \in S
    PROVE  Total(g, S) = g[y] + Total(g, S \ {y})
<1> DEFINE bad == {u \in SUBSET S : ~\A z \in u : Total(g, u) = g[z] + Total(g, u \ {z})}
<1>1. SUFFICES ASSUME bad # {} PROVE FALSE
  OBVIOUS
<1>2. PICK u \in bad : \A w \in SUBSET u : w # u => w \notin bad
  <2>1. bad \subseteq SUBSET S
    OBVIOUS
  <2> HIDE DEF bad
  <2> QED
    BY <1>1, <2>1, Smallest
<1>3. u \in SUBSET S /\ IsFiniteSet(u)
  BY <1>2, FS_Subset
<1>4. PICK z \in u : Total(g, u) # g[z] + Total(g, u \ {z})
  BY <1>2
<1>5. PICK x \in u : x = Some(u) /\ Total(g, u) = g[x] + Total(g, u \ {x})
  BY <1>3, <1>4, TotalStep
<1>6. x # z
  BY <1>4, <1>5
<1>7. PICK v, w, b : v = u \ {x} /\ w = u \ {z} /\ b = (u \ {x}) \ {z}
  OBVIOUS
<1>8. /\ v \in SUBSET u /\ v # u /\ z \in v /\ v \ {z} = b
      /\ w \in SUBSET u /\ w # u /\ x \in w /\ w \ {x} = b
      /\ b \in SUBSET u
  BY <1>4, <1>5, <1>6, <1>7
<1>9. v \notin bad /\ w \notin bad /\ v \in SUBSET S /\ w \in SUBSET S /\ b \in SUBSET S
  BY <1>2, <1>3, <1>8
<1>10. Total(g, v) = g[z] + Total(g, b) /\ Total(g, w) = g[x] + Total(g, b)
  BY <1>8, <1>9
<1>11. /\ g[x] \in Nat /\ g[z] \in Nat
  BY <1>3, <1>4, <1>5 DEF OnNats
<1>12. Total(g, b) \in Nat
  <2>1. IsFiniteSet(b) /\ OnNats(g, b)
    BY <1>9, FS_Subset DEF OnNats
  <2> QED
    BY <2>1, TotalNat
<1> QED
  BY <1>4, <1>5, <1>7, <1>10, <1>11, <1>12

\* Sums of the same numbers.
LEMMA TotalSame ==
    ASSUME NEW S, IsFiniteSet(S), NEW g, NEW h, \A x \in S : g[x] = h[x]
    PROVE  Total(g, S) = Total(h, S)
<1> DEFINE bad == {u \in SUBSET S : Total(g, u) # Total(h, u)}
<1>1. SUFFICES ASSUME bad # {} PROVE FALSE
  OBVIOUS
<1>2. PICK u \in bad : \A w \in SUBSET u : w # u => w \notin bad
  <2>1. bad \subseteq SUBSET S
    OBVIOUS
  <2> HIDE DEF bad
  <2> QED
    BY <1>1, <2>1, Smallest
<1>3. u \in SUBSET S /\ IsFiniteSet(u) /\ Total(g, u) # Total(h, u)
  BY <1>2, FS_Subset
<1>4. u # {}
  BY <1>3, TotalEmpty
<1>5. PICK x \in u : /\ Total(g, u) = g[x] + Total(g, u \ {x})
                     /\ Total(h, u) = h[x] + Total(h, u \ {x})
  <2>1. /\ Some(u) \in u
        /\ Total(g, u) = g[Some(u)] + Total(g, u \ {Some(u)})
        /\ Total(h, u) = h[Some(u)] + Total(h, u \ {Some(u)})
    BY <1>3, <1>4, TotalStep
  <2> QED
    BY <2>1
<1>6. PICK w : w = u \ {x}
  OBVIOUS
<1>7. Total(g, w) = Total(h, w)
  BY <1>2, <1>3, <1>5, <1>6
<1>8. g[x] = h[x]
  BY <1>3, <1>5
<1> QED
  BY <1>3, <1>5, <1>6, <1>7, <1>8

\* The sum of sums.
LEMMA TotalAdd ==
    ASSUME NEW S, IsFiniteSet(S), NEW f, NEW g, NEW h, OnNats(g, S), OnNats(h, S),
           \A x \in S : f[x] = g[x] + h[x]
    PROVE  Total(f, S) = Total(g, S) + Total(h, S)
<1> DEFINE bad == {u \in SUBSET S : Total(f, u) # Total(g, u) + Total(h, u)}
<1>1. SUFFICES ASSUME bad # {} PROVE FALSE
  OBVIOUS
<1>2. PICK u \in bad : \A w \in SUBSET u : w # u => w \notin bad
  <2>1. bad \subseteq SUBSET S
    OBVIOUS
  <2> HIDE DEF bad
  <2> QED
    BY <1>1, <2>1, Smallest
<1>3. u \in SUBSET S /\ IsFiniteSet(u) /\ Total(f, u) # Total(g, u) + Total(h, u)
  BY <1>2, FS_Subset
<1>4. u # {}
  BY <1>3, TotalEmpty
<1>5. OnNats(g, u) /\ OnNats(h, u) /\ OnNats(f, u)
  BY <1>3 DEF OnNats
<1>6. PICK x \in u : x = Some(u)
  BY <1>3, <1>4, TotalStep
<1>7. PICK w : w = u \ {x}
  OBVIOUS
<1>8. /\ Total(f, u) = f[x] + Total(f, w)
      /\ Total(g, u) = g[x] + Total(g, w)
      /\ Total(h, u) = h[x] + Total(h, w)
  BY <1>3, <1>5, <1>6, <1>7, TotalRemove
<1>9. Total(f, w) = Total(g, w) + Total(h, w)
  BY <1>2, <1>3, <1>6, <1>7
<1>10. Total(g, w) \in Nat /\ Total(h, w) \in Nat
  <2>1. IsFiniteSet(w) /\ OnNats(g, w) /\ OnNats(h, w)
    BY <1>3, <1>5, <1>7, FS_Subset DEF OnNats
  <2> QED
    BY <2>1, TotalNat
<1>11. f[x] = g[x] + h[x] /\ g[x] \in Nat /\ h[x] \in Nat
  BY <1>3, <1>5 DEF OnNats
<1> QED
  BY <1>3, <1>8, <1>9, <1>10, <1>11

\* What adds nothing may be left out.
LEMMA TotalPart ==
    ASSUME NEW S, IsFiniteSet(S), NEW T \in SUBSET S, NEW g, OnNats(g, T),
           \A x \in S : x \notin T => g[x] = 0
    PROVE  Total(g, S) = Total(g, T)
<1> DEFINE bad == {u \in SUBSET (S \ T) : Total(g, T \cup u) # Total(g, T)}
<1>1. SUFFICES ASSUME bad # {} PROVE FALSE
  <2>1. PICK u \in SUBSET (S \ T) : T \cup u = S
    OBVIOUS
  <2>2. u \notin bad
    BY <1>1
  <2> QED
    BY <2>1, <2>2
<1>2. PICK u \in bad : \A w \in SUBSET u : w # u => w \notin bad
  <2>1. bad \subseteq SUBSET (S \ T) /\ IsFiniteSet(S \ T)
    BY FS_Subset
  <2> HIDE DEF bad
  <2> QED
    BY <1>1, <2>1, Smallest
<1>3. u \in SUBSET (S \ T) /\ Total(g, T \cup u) # Total(g, T)
  BY <1>2
<1>4. T \cup {} = T
  OBVIOUS
<1>5. PICK x : x \in u
  BY <1>3, <1>4
<1>6. PICK w, v : w = u \ {x} /\ v = T \cup u
  OBVIOUS
<1>7. v \ {x} = T \cup w /\ x \in v /\ v \in SUBSET S /\ w \in SUBSET u /\ w # u
        /\ w \in SUBSET (S \ T)
  BY <1>3, <1>5, <1>6
<1>8. IsFiniteSet(v) /\ OnNats(g, v)
  BY <1>7, FS_Subset DEF OnNats
<1>9. Total(g, v) = g[x] + Total(g, T \cup w)
  BY <1>7, <1>8, TotalRemove
<1>10. g[x] = 0
  BY <1>3, <1>5
<1>11. Total(g, T \cup w) = Total(g, T)
  BY <1>2, <1>7
<1>12. Total(g, T) \in Nat
  BY FS_Subset, TotalNat
<1> QED
  BY <1>3, <1>6, <1>9, <1>10, <1>11, <1>12

Fiber(R, h, s) == {r \in R : h[r] = s}

\* A sum over the rows, and the same by what they are mapped to.
LEMMA TotalByFibers ==
    ASSUME NEW R, IsFiniteSet(R), NEW D, IsFiniteSet(D), NEW h \in [R -> D],
           NEW f \in [D -> Nat]
    PROVE  Total([s \in D |-> Cardinality(Fiber(R, h, s)) * f[s]], D)
             = Total([r \in R |-> f[h[r]]], R)
<1> DEFINE byFiber(u) == [s \in D |-> Cardinality(Fiber(u, h, s)) * f[s]]
           g == [r \in R |-> f[h[r]]]
           bad == {u \in SUBSET R : Total(byFiber(u), D) # Total(g, u)}
<1>1. \A u \in SUBSET R, s \in D : Cardinality(Fiber(u, h, s)) \in Nat
  <2> SUFFICES ASSUME NEW u \in SUBSET R, NEW s \in D
               PROVE  Cardinality(Fiber(u, h, s)) \in Nat
    OBVIOUS
  <2>1. Fiber(u, h, s) \in SUBSET R
    BY DEF Fiber
  <2> QED
    BY <2>1, FS_Subset, FS_CardinalityType
<1>2. \A u \in SUBSET R : OnNats(byFiber(u), D)
  <2> SUFFICES ASSUME NEW u \in SUBSET R, NEW s \in D
               PROVE  Cardinality(Fiber(u, h, s)) * f[s] \in Nat
    BY DEF OnNats
  <2>1. Cardinality(Fiber(u, h, s)) \in Nat /\ f[s] \in Nat
    BY <1>1
  <2>2. \A a, b \in Nat : a * b \in Nat
    OBVIOUS
  <2> HIDE DEF bad
  <2> QED
    BY <2>1, <2>2
<1>3. SUFFICES ASSUME bad # {} PROVE FALSE
  <2>1. R \notin bad
    BY <1>3
  <2> QED
    BY <2>1
<1>4. PICK u \in bad : \A w \in SUBSET u : w # u => w \notin bad
  <2>1. bad \subseteq SUBSET R
    OBVIOUS
  <2> HIDE DEF bad
  <2> QED
    BY <1>3, <2>1, Smallest
<1>5. u \in SUBSET R /\ Total(byFiber(u), D) # Total(g, u) /\ IsFiniteSet(u)
  BY <1>4, FS_Subset
<1>6. u # {}
  <2> SUFFICES ASSUME u = {} PROVE FALSE
    OBVIOUS
  <2>1. \A s \in D : byFiber(u)[s] = 0
    <3> SUFFICES ASSUME NEW s \in D PROVE Cardinality(Fiber(u, h, s)) * f[s] = 0
      OBVIOUS
    <3>1. Fiber(u, h, s) = {}
      BY DEF Fiber
    <3>2. Cardinality(Fiber(u, h, s)) = 0 /\ f[s] \in Nat
      BY <3>1, FS_EmptySet
    <3> QED
      BY <3>2
  <2>2. PICK k : k = byFiber(u)
    OBVIOUS
  <2>3. Total(k, D) = Total(k, {})
    <3>1. OnNats(k, {}) /\ \A s \in D : s \notin {} => k[s] = 0
      BY <2>1, <2>2 DEF OnNats
    <3> QED
      BY <3>1, TotalPart
  <2> QED
    BY <1>5, <2>2, <2>3, TotalEmpty
<1>7. PICK x : x \in u
  BY <1>6
<1>8. PICK w : w = u \ {x}
  OBVIOUS
<1>9. w \in SUBSET u /\ w # u /\ w \in SUBSET R /\ x \in R /\ u \in SUBSET R
  BY <1>5, <1>7, <1>8
<1>10. Total(byFiber(w), D) = Total(g, w)
  BY <1>4, <1>9
<1>11. PICK y \in D : y = h[x]
  BY <1>9
<1>12. PICK a, b, k : /\ a = byFiber(w) /\ b = byFiber(u)
                      /\ k = [s \in D |-> IF s = y THEN f[y] ELSE 0]
  OBVIOUS
<1>13. ASSUME NEW s \in D PROVE b[s] = a[s] + k[s]
  <2>1. /\ b[s] = Cardinality(Fiber(u, h, s)) * f[s]
        /\ a[s] = Cardinality(Fiber(w, h, s)) * f[s]
    BY <1>12
  <2>2. PICK p, q \in Nat : p = Cardinality(Fiber(u, h, s)) /\ q = Cardinality(Fiber(w, h, s))
    BY <1>1, <1>9
  <2>3. CASE s = y
    <3>1. Fiber(u, h, s) = Fiber(w, h, s) \cup {x} /\ x \notin Fiber(w, h, s)
      BY <1>7, <1>8, <1>11, <2>3 DEF Fiber
    <3>2. IsFiniteSet(Fiber(w, h, s))
      <4>1. Fiber(w, h, s) \in SUBSET R
        BY <1>9 DEF Fiber
      <4> QED
        BY <4>1, FS_Subset
    <3>3. p = q + 1
      BY <2>2, <3>1, <3>2, FS_AddElement
    <3>4. PICK e \in Nat : e = f[s]
      OBVIOUS
    <3>5. (q + 1) * e = q * e + e
      BY <2>2, <3>4
    <3>6. k[s] = e
      BY <1>12, <2>3, <3>4
    <3> QED
      BY <2>1, <2>2, <3>3, <3>4, <3>5, <3>6
  <2>4. CASE s # y
    <3>1. Fiber(u, h, s) = Fiber(w, h, s)
      BY <1>7, <1>8, <1>11, <2>4 DEF Fiber
    <3>2. k[s] = 0 /\ a[s] \in Nat /\ b[s] = a[s]
      <4>1. a[s] \in Nat
        BY <1>2, <1>9, <1>12 DEF OnNats
      <4> QED
        BY <1>12, <2>1, <2>4, <3>1, <4>1
    <3> QED
      BY <3>2
  <2> QED
    BY <2>3, <2>4
<1>14. OnNats(a, D) /\ OnNats(b, D)
  BY <1>2, <1>9, <1>12
<1>15. OnNats(k, D) /\ k[y] = f[y] /\ OnNats(k, {y}) /\ \A s \in D : s \notin {y} => k[s] = 0
  BY <1>11, <1>12 DEF OnNats
<1>16. Total(b, D) = Total(a, D) + Total(k, D)
  BY <1>13, <1>14, <1>15, TotalAdd
<1>17. Total(k, D) = Total(k, {y})
  BY <1>15, TotalPart
<1>18. Total(k, {y}) = k[y] + Total(k, {})
  <2>1. IsFiniteSet({y}) /\ {y} \ {y} = {} /\ y \in {y}
    BY FS_Singleton
  <2>2. Total(k, {y}) = k[y] + Total(k, {y} \ {y})
    BY <1>15, <2>1, TotalRemove
  <2> QED
    BY <2>1, <2>2
<1>19. Total(g, u) = g[x] + Total(g, w)
  <2>1. OnNats(g, u)
    BY <1>5 DEF OnNats
  <2>2. PICK gg : gg = g
    OBVIOUS
  <2> HIDE DEF g
  <2> QED
    BY <1>5, <1>7, <1>8, <2>1, TotalRemove
<1>20. g[x] = f[y] /\ f[y] \in Nat
  BY <1>9, <1>11
<1>21. Total(a, D) \in Nat /\ Total(k, {}) = 0
  BY <1>14, TotalNat, TotalEmpty
<1>22. Total(b, D) # Total(g, u) /\ Total(a, D) = Total(g, w)
  BY <1>5, <1>10, <1>12
<1> QED
  BY <1>15, <1>16, <1>17, <1>18, <1>19, <1>20, <1>21, <1>22

-----------------------------------------------------------------------------
(* The recurrence.                                                          *)

Costs     == {r.cycles : r \in Table}
RowsOf(c) == Cardinality({r \in Table : r.cycles = c})
Within(l) == {c \in Costs : c <= l}

\* What the recurrence makes of the counts in f.
CountBy(f, l) == 1 + Total([c \in Within(l) |-> RowsOf(c) * f[l - c]], Within(l))

CountRule(f, n) == \A l \in 0 .. n : f[l] = CountBy(f, l)

\* There are finitely many costs, and none of them is 0.
LEMMA CostsFacts ==
    /\ IsFiniteSet(Costs)
    /\ \A c \in Costs : c \in Nat \ {0} /\ RowsOf(c) \in Nat
    /\ \A l \in Nat : IsFiniteSet(Within(l)) /\ \A c \in Within(l) : l - c \in 0 .. l - 1
<1>1. IsFiniteSet(Costs)
  <2> DEFINE g == [r \in Table |-> r.cycles]
  <2>1. g \in Surjection(Table, Costs)
    BY Fun_IsSurj DEF Costs
  <2> QED
    BY <2>1, TableAssumption, FS_Surjection
<1>2. ASSUME NEW c \in Costs PROVE c \in Nat \ {0} /\ RowsOf(c) \in Nat
  <2>1. {r \in Table : r.cycles = c} \in SUBSET Table
    OBVIOUS
  <2>2. RowsOf(c) \in Nat
    BY <2>1, TableAssumption, FS_Subset, FS_CardinalityType DEF RowsOf
  <2> QED
    BY <2>2, TableAssumption DEF Costs
<1>3. ASSUME NEW l \in Nat
      PROVE  IsFiniteSet(Within(l)) /\ \A c \in Within(l) : l - c \in 0 .. l - 1
  BY <1>1, <1>2, FS_Subset DEF Within
<1> QED
  BY <1>1, <1>2, <1>3

\* It only looks at smaller limits.
LEMMA CountBySame ==
    ASSUME NEW l \in Nat, NEW f, NEW g, \A k \in 0 .. l - 1 : f[k] = g[k]
    PROVE  CountBy(f, l) = CountBy(g, l)
<1>1. PICK a, b : /\ a = [c \in Within(l) |-> RowsOf(c) * f[l - c]]
                  /\ b = [c \in Within(l) |-> RowsOf(c) * g[l - c]]
  OBVIOUS
<1>2. \A c \in Within(l) : a[c] = b[c]
  BY <1>1, CostsFacts
<1>3. Total(a, Within(l)) = Total(b, Within(l))
  BY <1>2, CostsFacts, TotalSame
<1> QED
  BY <1>1, <1>3 DEF CountBy

\* The recurrence determines the counts up to each limit, and there are some.
LEMMA CountRuleUnique ==
    ASSUME NEW n \in Nat, NEW f, NEW g, CountRule(f, n), CountRule(g, n)
    PROVE  \A l \in 0 .. n : f[l] = g[l]
<1> DEFINE bad == {l \in 0 .. n : f[l] # g[l]}
<1>1. SUFFICES ASSUME bad # {} PROVE FALSE
  OBVIOUS
<1>2. PICK l \in bad : \A k \in bad : l <= k
  <2>1. bad \subseteq Nat
    OBVIOUS
  <2> HIDE DEF bad
  <2> QED
    BY <1>1, <2>1, Least
<1>3. l \in 0 .. n /\ f[l] # g[l] /\ l \in Nat
  BY <1>2
<1>4. \A k \in 0 .. l - 1 : f[k] = g[k]
  BY <1>2, <1>3
<1>5. CountBy(f, l) = CountBy(g, l)
  BY <1>3, <1>4, CountBySame
<1> QED
  BY <1>3, <1>5 DEF CountRule

LEMMA CountRuleExists ==
    ASSUME NEW n \in Nat
    PROVE  \E f : CountRule(f, n)
<1> DEFINE bad == {l \in Nat : ~\E f : CountRule(f, l)}
<1>1. SUFFICES ASSUME bad # {} PROVE FALSE
  OBVIOUS
<1>2. PICK m \in bad : \A k \in bad : m <= k
  <2>1. bad \subseteq Nat
    OBVIOUS
  <2> HIDE DEF bad
  <2> QED
    BY <1>1, <2>1, Least
<1>3. m \in Nat /\ ~\E f : CountRule(f, m)
  BY <1>2
<1>4. PICK f : CountRule(f, m - 1)
  <2>1. CASE m = 0
    <3>1. CountRule([l \in {} |-> 0], m - 1)
      BY <2>1 DEF CountRule
    <3> QED
      BY <3>1
  <2>2. CASE m # 0
    <3>1. m - 1 \in Nat /\ m - 1 \notin bad
      BY <1>2, <1>3, <2>2
    <3> QED
      BY <3>1
  <2> QED
    BY <2>1, <2>2
<1>5. PICK g : g = [l \in 0 .. m |-> IF l = m THEN CountBy(f, m) ELSE f[l]]
  OBVIOUS
<1>6. \A l \in 0 .. m - 1 : g[l] = f[l]
  BY <1>3, <1>5
<1>7. ASSUME NEW l \in 0 .. m PROVE g[l] = CountBy(g, l)
  <2>1. CountBy(f, l) = CountBy(g, l)
    <3>1. l \in Nat /\ \A k \in 0 .. l - 1 : f[k] = g[k]
      BY <1>3, <1>6
    <3> QED
      BY <3>1, CountBySame
  <2>2. g[l] = CountBy(f, l)
    BY <1>3, <1>4, <1>5 DEF CountRule
  <2> QED
    BY <2>1, <2>2
<1> QED
  BY <1>3, <1>7 DEF CountRule

\* CountUpTo is what the recurrence says.
LEMMA CountUpToFacts ==
    \A l \in Nat : CountUpTo[l] = CountBy(CountUpTo, l) /\ CountUpTo[l] \in Nat
<1> DEFINE counts(n) == CHOOSE f : CountRule(f, n)
           F == [l \in Nat |-> counts(l)[l]]
<1>1. \A n \in Nat : CountRule(counts(n), n)
  BY CountRuleExists
<1> HIDE DEF counts
<1>2. ASSUME NEW l \in Nat PROVE F[l] = CountBy(F, l)
  <2>1. ASSUME NEW k \in 0 .. l - 1 PROVE counts(l)[k] = F[k]
    <3>1. k \in Nat /\ k \in 0 .. k /\ CountRule(counts(k), k) /\ CountRule(counts(l), k)
      BY <1>1 DEF CountRule
    <3>2. counts(k)[k] = counts(l)[k]
      BY <3>1, CountRuleUnique
    <3> QED
      BY <3>1, <3>2
  <2>2. PICK f : f = F
    OBVIOUS
  <2>3. CountBy(counts(l), l) = CountBy(f, l)
    BY <2>1, <2>2, CountBySame
  <2>4. counts(l)[l] = CountBy(counts(l), l)
    BY <1>1 DEF CountRule
  <2> QED
    BY <2>2, <2>3, <2>4
<1>3. F = [l \in Nat |-> CountBy(F, l)]
  BY <1>2
<1>4. CountUpTo = CHOOSE f : f = [l \in Nat |-> CountBy(f, l)]
  BY DEF CountUpTo, CountBy, SumFunction, Total, Within, Costs, RowsOf
<1>5. CountUpTo = [l \in Nat |-> CountBy(CountUpTo, l)]
  <2> HIDE DEF F
  <2> QED
    BY <1>3, <1>4
<1>6. \A l \in Nat : CountUpTo[l] = CountBy(CountUpTo, l)
  BY <1>5
<1> DEFINE bad == {l \in Nat : CountUpTo[l] \notin Nat}
<1>7. SUFFICES ASSUME bad # {} PROVE FALSE
  BY <1>6
<1>8. PICK m \in bad : \A k \in bad : m <= k
  <2>1. bad \subseteq Nat
    OBVIOUS
  <2> HIDE DEF bad
  <2> QED
    BY <1>7, <2>1, Least
<1>9. m \in Nat /\ CountUpTo[m] \notin Nat /\ \A k \in 0 .. m - 1 : CountUpTo[k] \in Nat
  BY <1>8
<1>10. PICK a : a = [c \in Within(m) |-> RowsOf(c) * CountUpTo[m - c]]
  OBVIOUS
<1>11. OnNats(a, Within(m))
  <2> SUFFICES ASSUME NEW c \in Within(m) PROVE RowsOf(c) * CountUpTo[m - c] \in Nat
    BY <1>10 DEF OnNats
  <2>1. PICK p, q \in Nat : p = RowsOf(c) /\ q = CountUpTo[m - c]
    BY <1>9, CostsFacts DEF Within
  <2> QED
    BY <2>1
<1>12. Total(a, Within(m)) \in Nat
  BY <1>9, <1>11, CostsFacts, TotalNat
<1> QED
  BY <1>6, <1>9, <1>10, <1>12 DEF CountBy

-----------------------------------------------------------------------------
(* A step of the queue.                                                     *)

\* The rows by which something of cost max - l is extended.
RowsWithin(l) == {r \in Table : r.cycles <= l}

LEMMA RowsWithinFinite ==
    \A l : RowsWithin(l) \in SUBSET Table /\ IsFiniteSet(RowsWithin(l))
BY TableAssumption, FS_Subset DEF RowsWithin

\* The recurrence, with a term for each row.
LEMMA CountByRow ==
    ASSUME NEW l \in Nat
    PROVE  CountUpTo[l] = 1 + Total([r \in RowsWithin(l) |-> CountUpTo[l - r.cycles]],
                                    RowsWithin(l))
<1>1. PICK R, D : R = RowsWithin(l) /\ D = Within(l)
  OBVIOUS
<1>2. IsFiniteSet(R) /\ IsFiniteSet(D)
  BY <1>1, RowsWithinFinite, CostsFacts
<1>3. PICK h : h = [r \in R |-> r.cycles]
  OBVIOUS
<1>4. h \in [R -> D]
  BY <1>1, <1>3 DEF RowsWithin, Within, Costs
<1>5. PICK f : f = [c \in D |-> CountUpTo[l - c]]
  OBVIOUS
<1>6. f \in [D -> Nat]
  BY <1>1, <1>5, CostsFacts, CountUpToFacts
<1>7. Total([c \in D |-> Cardinality(Fiber(R, h, c)) * f[c]], D)
         = Total([r \in R |-> f[h[r]]], R)
  BY <1>2, <1>4, <1>6, TotalByFibers
<1>8. ASSUME NEW c \in D PROVE Fiber(R, h, c) = {r \in Table : r.cycles = c}
  BY <1>1, <1>3 DEF Fiber, RowsWithin, Within
<1>9. [c \in D |-> Cardinality(Fiber(R, h, c)) * f[c]]
         = [c \in D |-> RowsOf(c) * CountUpTo[l - c]]
  BY <1>5, <1>8 DEF RowsOf
<1>10. [r \in R |-> f[h[r]]] = [r \in R |-> CountUpTo[l - r.cycles]]
  BY <1>3, <1>4, <1>5
<1> QED
  BY <1>1, <1>7, <1>9, <1>10, CountUpToFacts DEF CountBy

\* A row is reached if it alone costs not too much, as the table is sorted by cost.
LEMMA ReachedMeans ==
    ASSUME max \in Limits, NEW top, top.cycles \in Nat, top.cycles <= max, NEW r \in Table
    PROVE  /\ Kind(r) \in Reached(top) <=> r.cycles <= max - top.cycles
           /\ r.cycles <= max - top.cycles =>
                 add(top, r).cycles = top.cycles + r.cycles
<1>1. max \in Nat /\ Modulus \in Nat \ {0}
  BY TableAssumption
<1>2. \A k \in Kinds : /\ k.cycles \in Nat /\ k.bytes \in Nat
                       /\ add(top, k).cycles = IF top.cycles + k.cycles < Modulus
                                               THEN top.cycles + k.cycles
                                               ELSE (top.cycles + k.cycles) % Modulus
                       /\ top.cycles + k.cycles < Modulus
  <2> SUFFICES ASSUME NEW k \in Kinds
               PROVE  /\ k.cycles \in Nat /\ k.bytes \in Nat
                      /\ add(top, k).cycles = IF top.cycles + k.cycles < Modulus
                                              THEN top.cycles + k.cycles
                                              ELSE (top.cycles + k.cycles) % Modulus
                      /\ top.cycles + k.cycles < Modulus
    OBVIOUS
  <2>1. PICK q \in Table : k = Kind(q)
    BY DEF Kinds
  <2>2. k.cycles = q.cycles /\ k.bytes = q.bytes
    BY <2>1 DEF Kind
  <2>3. q.cycles \in Nat /\ q.bytes \in Nat /\ max + q.cycles < Modulus
    BY TableAssumption, WidthAssumption
  <2>4. add(top, k).cycles = (top.cycles + k.cycles) % Modulus
    BY DEF add
  <2>5. (top.cycles + k.cycles) % Modulus = top.cycles + k.cycles
    BY <1>1, <2>2, <2>3
  <2> QED
    BY <1>1, <2>2, <2>3, <2>4, <2>5
<1>3. \A k \in Kinds : add(top, k).cycles = top.cycles + k.cycles
  BY <1>2
<1>4. Kind(r) \in Kinds /\ Kind(r).cycles = r.cycles
  BY DEF Kinds, Kind
<1>5. add(top, r) = add(top, Kind(r))
  BY DEF add, Kind
<1>6. PICK k \in Kinds : k = Kind(r)
  BY <1>4
<1>7. k.cycles = r.cycles /\ k.cycles \in Nat
  BY <1>2, <1>4, <1>6
<1>8. ASSUME k \in Reached(top) PROVE r.cycles <= max - top.cycles
  <2>1. ~EarlierRow(k, k)
    BY <1>2 DEF EarlierRow, Cheaper
  <2>2. add(top, k).cycles <= max
    BY <1>8, <2>1 DEF Reached
  <2> QED
    BY <1>1, <1>3, <1>7, <2>2
<1>9. ASSUME r.cycles <= max - top.cycles PROVE k \in Reached(top)
  <2> SUFFICES ASSUME NEW l \in Kinds, ~EarlierRow(k, l) PROVE add(top, l).cycles <= max
    BY DEF Reached
  <2>1. l.cycles <= k.cycles
    BY <1>2 DEF EarlierRow, Cheaper
  <2> QED
    BY <1>1, <1>2, <1>3, <1>7, <1>9, <2>1
<1> QED
  BY <1>3, <1>4, <1>5, <1>6, <1>7, <1>8, <1>9

\* An extension that is put into the queue costs more than what it extends.
LEMMA ExtensionsCostMore ==
    ASSUME max \in Limits, NEW top, top.cycles \in Nat, top.bytes \in Nat,
           top.cycles <= max, NEW s \in DOMAIN Extensions(top)
    PROVE  /\ s.cycles \in Nat /\ s.bytes \in Nat
           /\ s.cycles <= max
           /\ top.cycles < s.cycles
<1>1. PICK k \in Reached(top) : s = add(top, k)
  BY DEF Extensions
<1>2. k \in Kinds /\ (~EarlierRow(k, k) => add(top, k).cycles <= max)
  BY <1>1 DEF Reached
<1>3. PICK r \in Table : k = Kind(r)
  BY <1>2 DEF Kinds
<1>4. /\ r.cycles \in Nat \ {0} /\ r.bytes \in Nat /\ max \in Nat
      /\ Modulus \in Nat \ {0} /\ max + r.cycles < Modulus
  BY TableAssumption, WidthAssumption
<1>5. k.cycles = r.cycles /\ k.bytes = r.bytes
  BY <1>3 DEF Kind
<1>6. /\ s.cycles = (top.cycles + r.cycles) % Modulus
      /\ s.bytes = (top.bytes + r.bytes) % Modulus
  BY <1>1, <1>5 DEF add
<1>7. ~EarlierRow(k, k)
  BY <1>4, <1>5 DEF EarlierRow, Cheaper
<1>8. s.cycles <= max
  BY <1>1, <1>2, <1>7
<1>9. (top.cycles + r.cycles) % Modulus = top.cycles + r.cycles
  BY <1>4
<1>10. s.bytes \in Nat
  BY <1>4, <1>6
<1> QED
  BY <1>4, <1>6, <1>8, <1>9, <1>10

\* What the extensions of a sequence still count for: all that begins with it, but
\* for itself.
LEMMA ExtensionsCount ==
    ASSUME max \in Limits, NEW top, top.cycles \in Nat, top.bytes \in Nat, top.cycles <= max
    PROVE  LET D == DOMAIN Extensions(top)
           IN  /\ IsFiniteSet(D)
               /\ \A s \in D : Extensions(top)[s] \in Nat \ {0}
               /\ 1 + Total([s \in D |-> Extensions(top)[s] * CountUpTo[max - s.cycles]], D)
                    = CountUpTo[max - top.cycles]
<1>1. max \in Nat
  BY TableAssumption
<1>2. PICK l \in Nat : l = max - top.cycles
  BY <1>1
<1>3. PICK R, D : R = RowsWithin(l) /\ D = DOMAIN Extensions(top)
  OBVIOUS
<1>4. R \in SUBSET Table /\ IsFiniteSet(R)
  BY <1>3, RowsWithinFinite
<1>5. \A r \in Table : Kind(r) \in Reached(top) <=> r \in R
  BY <1>2, <1>3, ReachedMeans DEF RowsWithin
<1>6. D = {add(top, k) : k \in Reached(top)}
  BY <1>3 DEF Extensions
<1>7. \A r \in Table : add(top, r) = add(top, Kind(r))
  BY DEF add, Kind
<1>8. PICK h : h = [r \in R |-> add(top, r)]
  OBVIOUS
<1>9. h \in [R -> D]
  BY <1>4, <1>5, <1>6, <1>7, <1>8
<1>10. ASSUME NEW s \in D PROVE \E r \in R : h[r] = s
  <2>1. PICK k \in Reached(top) : s = add(top, k)
    BY <1>6
  <2>2. PICK r \in Table : k = Kind(r)
    BY DEF Reached, Kinds
  <2> QED
    BY <1>5, <1>7, <1>8, <2>1, <2>2
<1>11. h \in Surjection(R, D)
  BY <1>9, <1>10, Fun_IsSurj
<1>12. IsFiniteSet(D)
  BY <1>4, <1>11, FS_Surjection
<1>13. ASSUME NEW s \in D
       PROVE  /\ Extensions(top)[s] = Cardinality(Fiber(R, h, s))
              /\ Extensions(top)[s] \in Nat \ {0}
  <2>1. Fiber(R, h, s) = {r \in Table : Kind(r) \in Reached(top) /\ add(top, r) = s}
    BY <1>4, <1>5, <1>8 DEF Fiber
  <2>2. Extensions(top)[s] = Cardinality(Fiber(R, h, s))
    BY <1>6, <2>1 DEF Extensions
  <2>3. Fiber(R, h, s) \in SUBSET R /\ Fiber(R, h, s) # {}
    BY <1>10 DEF Fiber
  <2> QED
    BY <1>4, <2>2, <2>3, FS_Subset, FS_CardinalityType, FS_EmptySet
<1>14. ASSUME NEW s \in D
       PROVE  s.cycles \in Nat /\ s.cycles <= max
  BY <1>3, ExtensionsCostMore
<1>15. PICK f : f = [s \in D |-> CountUpTo[max - s.cycles]]
  OBVIOUS
<1>16. f \in [D -> Nat]
  BY <1>1, <1>14, <1>15, CountUpToFacts
<1>17. Total([s \in D |-> Cardinality(Fiber(R, h, s)) * f[s]], D)
         = Total([r \in R |-> f[h[r]]], R)
  BY <1>4, <1>9, <1>12, <1>16, TotalByFibers
<1>18. [s \in D |-> Cardinality(Fiber(R, h, s)) * f[s]]
         = [s \in D |-> Extensions(top)[s] * CountUpTo[max - s.cycles]]
  BY <1>13, <1>15
<1>19. ASSUME NEW r \in R PROVE f[h[r]] = CountUpTo[l - r.cycles]
  <2>1. f[h[r]] = CountUpTo[max - h[r].cycles]
    BY <1>9, <1>15
  <2>2. r \in Table /\ r.cycles <= max - top.cycles
    BY <1>2, <1>3, <1>4 DEF RowsWithin
  <2>3. h[r].cycles = top.cycles + r.cycles /\ r.cycles \in Nat
    BY <1>8, <2>2, ReachedMeans, TableAssumption
  <2>4. max - h[r].cycles = l - r.cycles
    BY <1>1, <1>2, <2>3
  <2> QED
    BY <2>1, <2>4
<1>20. [r \in R |-> f[h[r]]] = [r \in R |-> CountUpTo[l - r.cycles]]
  BY <1>19
<1>21. CountUpTo[l] = 1 + Total([r \in R |-> f[h[r]]], R)
  BY <1>3, <1>20, CountByRow
<1> QED
  BY <1>2, <1>3, <1>12, <1>13, <1>17, <1>18, <1>21

-----------------------------------------------------------------------------
(* The invariant.                                                           *)

\* How many sequences the queue still counts for: those that begin with one in it.
Pending ==
    Total([s \in DOMAIN queue |-> queue[s] * CountUpTo[max - s.cycles]], DOMAIN queue)

\* What the queue holds is no cheaper than what has left it, and what is extended
\* costs no more than max: the cost of an extension does not wrap around.
OrderInv ==
    /\ max \in Limits
    /\ last.cycles \in Nat /\ last.bytes \in Nat
    /\ \A s \in DOMAIN queue :
         /\ s.cycles \in Nat /\ s.bytes \in Nat
         /\ s.cycles <= max
         /\ ~Cheaper(s, last)

\* What has been counted and what the queue counts for are all.
CountInv ==
    /\ count \in Nat
    /\ IsFiniteSet(DOMAIN queue)
    /\ \A s \in DOMAIN queue : queue[s] \in Nat \ {0}
    /\ count + Pending = CountUpTo[max]

CountIInv == OrderInv /\ CountInv

\* After a step, what is in the queue was there before or extends what has left.
LEMMA QueueAfterPop ==
    ASSUME NEW top \in DOMAIN queue,
           queue' = (queue (-) SetToBag({top})) (+) Extensions(top)
    PROVE  DOMAIN queue' \subseteq DOMAIN queue \cup DOMAIN Extensions(top)
<1> DEFINE rest == queue (-) SetToBag({top})
<1>1. DOMAIN rest \subseteq DOMAIN queue
  BY DEF (-), BagToSet
<1>2. DOMAIN (rest (+) Extensions(top)) = DOMAIN rest \cup DOMAIN Extensions(top)
  BY DEF (+), BagToSet
<1> QED
  BY <1>1, <1>2

Copies(B, s) == IF s \in DOMAIN B THEN B[s] ELSE 0

\* It is there as often as before, once less or as often as it is an extension.
LEMMA CopiesAfterPop ==
    ASSUME NEW Q, \A s \in DOMAIN Q : Q[s] \in Nat \ {0},
           NEW E, \A s \in DOMAIN E : E[s] \in Nat \ {0},
           NEW top \in DOMAIN Q, NEW N, N = (Q (-) SetToBag({top})) (+) E
    PROVE  /\ \A s \in DOMAIN N : N[s] \in Nat \ {0}
           /\ \A s : Copies(N, s) + (IF s = top THEN 1 ELSE 0) = Copies(Q, s) + Copies(E, s)
<1>1. PICK one : one = SetToBag({top})
  OBVIOUS
<1>2. DOMAIN one = {top} /\ one[top] = 1
  BY <1>1 DEF SetToBag
<1>3. PICK rest : rest = Q (-) one
  OBVIOUS
<1>4. PICK all : all = [e \in DOMAIN Q |-> IF e \in DOMAIN one THEN Q[e] - one[e] ELSE Q[e]]
  OBVIOUS
<1>5. rest = [e \in {d \in DOMAIN all : all[d] > 0} |-> all[e]]
  BY <1>3, <1>4, Zenon DEF (-)
<1>6. /\ \A s \in DOMAIN rest : rest[s] \in Nat \ {0}
      /\ \A s : Copies(rest, s) + (IF s = top THEN 1 ELSE 0) = Copies(Q, s)
  <2>1. \A s \in DOMAIN Q : all[s] = Q[s] - (IF s = top THEN 1 ELSE 0) /\ all[s] \in Nat
    BY <1>2, <1>4
  <2>2. DOMAIN all = DOMAIN Q /\ DOMAIN rest = {d \in DOMAIN Q : all[d] > 0}
        /\ \A s \in DOMAIN rest : rest[s] = all[s]
    BY <1>4, <1>5
  <2>3. \A s \in DOMAIN rest : rest[s] \in Nat \ {0}
    BY <2>1, <2>2
  <2>4. ASSUME NEW s PROVE Copies(rest, s) + (IF s = top THEN 1 ELSE 0) = Copies(Q, s)
    <3>1. CASE s \in DOMAIN rest
      BY <2>1, <2>2, <3>1 DEF Copies
    <3>2. CASE s \in DOMAIN Q /\ s \notin DOMAIN rest
      <4>1. all[s] = 0
        BY <2>1, <2>2, <3>2
      <4>2. s = top /\ Q[s] = 1
        BY <2>1, <3>2, <4>1
      <4> QED
        BY <3>2, <4>2 DEF Copies
    <3>3. CASE s \notin DOMAIN Q
      BY <2>2, <3>3 DEF Copies
    <3> QED
      BY <3>1, <3>2, <3>3
  <2> QED
    BY <2>3, <2>4
<1>7. /\ DOMAIN N = DOMAIN rest \cup DOMAIN E
      /\ \A s \in DOMAIN N : N[s] = Copies(rest, s) + Copies(E, s)
  BY <1>1, <1>3 DEF (+), Copies
<1>8. \A s \in DOMAIN N : N[s] \in Nat \ {0}
  BY <1>6, <1>7 DEF Copies
<1>9. ASSUME NEW s PROVE Copies(N, s) = Copies(rest, s) + Copies(E, s)
  BY <1>7 DEF Copies
<1>10. ASSUME NEW s
       PROVE  Copies(N, s) + (IF s = top THEN 1 ELSE 0) = Copies(Q, s) + Copies(E, s)
  <2>1. PICK a, b, c, d : a = Copies(N, s) /\ b = Copies(rest, s) /\ c = Copies(E, s)
                          /\ d = Copies(Q, s)
    OBVIOUS
  <2>2. a = b + c
    BY <1>9, <2>1
  <2>3. b + (IF s = top THEN 1 ELSE 0) = d
    BY <1>6, <2>1
  <2>4. b \in Nat /\ c \in Nat /\ d \in Nat
    BY <1>6, <2>1 DEF Copies
  <2>5. a + (IF s = top THEN 1 ELSE 0) = d + c
    BY <2>2, <2>3, <2>4
  <2> QED
    BY <2>1, <2>5
<1> QED
  BY <1>8, <1>10

BagTotal(B, w) == Total([s \in DOMAIN B |-> B[s] * w[s]], DOMAIN B)

Weighted(B, U, w) == [s \in U |-> Copies(B, s) * w[s]]

LEMMA TimesNat ==
    /\ \A a, b \in Nat : a * b \in Nat
    /\ \A b \in Nat : 0 * b = 0 /\ 1 * b = b
    /\ \A a, b, c \in Nat : (a + b) * c = a * c + b * c
OBVIOUS

\* Sums over a bag and over more elements than it has.
LEMMA WeightedFacts ==
    ASSUME NEW B, \A s \in DOMAIN B : B[s] \in Nat \ {0},
           NEW U, IsFiniteSet(U), DOMAIN B \subseteq U, NEW w, \A s \in U : w[s] \in Nat
    PROVE  /\ OnNats(Weighted(B, U, w), U)
           /\ BagTotal(B, w) = Total(Weighted(B, U, w), U)
<1>1. \A s : Copies(B, s) \in Nat
  BY DEF Copies
<1>2. OnNats(Weighted(B, U, w), U)
  <2> SUFFICES ASSUME NEW s \in U PROVE Copies(B, s) * w[s] \in Nat
    BY DEF OnNats, Weighted
  <2> QED
    BY <1>1, TimesNat
<1>3. PICK D, g : D = DOMAIN B /\ g = [s \in D |-> B[s] * w[s]]
  OBVIOUS
<1>4. PICK k : k = Weighted(B, U, w)
  OBVIOUS
<1>5. \A s \in D : g[s] = k[s]
  BY <1>3, <1>4 DEF Weighted, Copies
<1>6. ASSUME NEW s \in U, s \notin D PROVE k[s] = 0
  BY <1>3, <1>4, <1>6, TimesNat DEF Weighted, Copies
<1>7. IsFiniteSet(D) /\ D \in SUBSET U /\ OnNats(k, D)
  BY <1>2, <1>3, <1>4, FS_Subset DEF OnNats
<1>8. Total(g, D) = Total(k, D)
  BY <1>5, <1>7, TotalSame
<1>9. Total(k, U) = Total(k, D)
  BY <1>6, <1>7, TotalPart
<1> QED
  BY <1>2, <1>3, <1>4, <1>8, <1>9 DEF BagTotal

\* One is taken from a queue, and its extensions come in.
Popped(Q, E, top, N) ==
    /\ \A s \in DOMAIN Q : Q[s] \in Nat \ {0}
    /\ \A s \in DOMAIN E : E[s] \in Nat \ {0}
    /\ IsFiniteSet(DOMAIN Q) /\ IsFiniteSet(DOMAIN E)
    /\ top \in DOMAIN Q
    /\ N = (Q (-) SetToBag({top})) (+) E
    /\ DOMAIN N \subseteq DOMAIN Q \cup DOMAIN E

\* The sum over a queue when one is taken and its extensions come in.
LEMMA TotalAfterPop ==
    ASSUME NEW Q, NEW E, NEW top, NEW N, Popped(Q, E, top, N),
           NEW w, OnNats(w, DOMAIN Q \cup DOMAIN E)
    PROVE  /\ BagTotal(N, w) + w[top] = BagTotal(Q, w) + BagTotal(E, w)
           /\ BagTotal(N, w) \in Nat
           /\ BagTotal(Q, w) \in Nat
           /\ BagTotal(E, w) \in Nat
<1>1. PICK U : U = DOMAIN Q \cup DOMAIN E
  OBVIOUS
<1>2. IsFiniteSet(U) /\ top \in U /\ \A s \in U : w[s] \in Nat
  BY <1>1, FS_Union DEF Popped, OnNats
<1>3. DOMAIN N \subseteq U /\ DOMAIN Q \subseteq U /\ DOMAIN E \subseteq U
  BY <1>1 DEF Popped
<1>4. /\ \A s \in DOMAIN N : N[s] \in Nat \ {0}
      /\ \A s : Copies(N, s) + (IF s = top THEN 1 ELSE 0) = Copies(Q, s) + Copies(E, s)
  BY CopiesAfterPop DEF Popped
<1>5. PICK n, q, e : n = Weighted(N, U, w) /\ q = Weighted(Q, U, w) /\ e = Weighted(E, U, w)
  OBVIOUS
<1>6. /\ OnNats(n, U)
      /\ BagTotal(N, w) = Total(n, U)
  BY <1>3, <1>2, <1>4, <1>5, WeightedFacts
<1>7. /\ OnNats(q, U)
      /\ BagTotal(Q, w) = Total(q, U)
  BY <1>3, <1>2, <1>5, WeightedFacts DEF Popped
<1>8. /\ OnNats(e, U)
      /\ BagTotal(E, w) = Total(e, U)
  BY <1>3, <1>2, <1>5, WeightedFacts DEF Popped
<1>9. PICK t, all : /\ t = [s \in U |-> IF s = top THEN w[s] ELSE 0]
                    /\ all = [s \in U |-> q[s] + e[s]]
  OBVIOUS
<1>10. OnNats(t, U) /\ OnNats(t, {top}) /\ t[top] = w[top]
        /\ \A s \in U : s \notin {top} => t[s] = 0
  BY <1>2, <1>9 DEF OnNats
<1>11. ASSUME NEW s \in U PROVE all[s] = n[s] + t[s]
  <2>1. PICK a, b, c, d : /\ a = Copies(N, s) /\ b = Copies(Q, s)
                          /\ c = Copies(E, s) /\ d = w[s]
    OBVIOUS
  <2>2. a \in Nat /\ b \in Nat /\ c \in Nat /\ d \in Nat
    BY <1>2, <1>4, <2>1 DEF Copies, Popped
  <2>3. n[s] = a * d /\ q[s] = b * d /\ e[s] = c * d /\ all[s] = q[s] + e[s]
    BY <1>5, <1>9, <2>1 DEF Weighted
  <2>4. (b + c) * d = b * d + c * d
    BY <2>2, TimesNat
  <2>5. CASE s = top
    <3>1. a + 1 = b + c
      BY <1>4, <2>1, <2>5
    <3>2. (a + 1) * d = a * d + 1 * d /\ 1 * d = d
      BY <2>2, TimesNat
    <3>3. t[s] = d
      BY <1>9, <2>1, <2>5
    <3> QED
      BY <2>3, <2>4, <3>1, <3>2, <3>3
  <2>6. CASE s # top
    <3>1. a + 0 = b + c
      BY <1>4, <2>1, <2>6
    <3>2. a * d \in Nat
      BY <2>2, TimesNat
    <3>3. t[s] = 0 /\ a = b + c
      BY <1>9, <2>2, <2>6, <3>1
    <3> QED
      BY <2>3, <2>4, <3>2, <3>3
  <2> QED
    BY <2>5, <2>6
<1>12. Total(all, U) = Total(n, U) + Total(t, U)
  BY <1>2, <1>6, <1>10, <1>11, TotalAdd
<1>13. Total(all, U) = Total(q, U) + Total(e, U)
  <2>1. \A s \in U : all[s] = q[s] + e[s]
    BY <1>9
  <2> QED
    BY <1>2, <1>7, <1>8, <2>1, TotalAdd
<1>14. Total(t, U) = w[top]
  <2>1. Total(t, U) = Total(t, {top})
    BY <1>2, <1>10, TotalPart
  <2>2. IsFiniteSet({top}) /\ {top} \ {top} = {}
    BY FS_Singleton
  <2>3. Total(t, {top}) = t[top] + Total(t, {top} \ {top})
    BY <1>10, <2>2, TotalRemove
  <2>4. Total(t, {}) = 0 /\ w[top] \in Nat
    BY <1>2, TotalEmpty
  <2> QED
    BY <1>10, <2>1, <2>2, <2>3, <2>4
<1>15. Total(n, U) \in Nat /\ Total(q, U) \in Nat /\ Total(e, U) \in Nat
  BY <1>2, <1>6, <1>7, <1>8, TotalNat
<1> QED
  BY <1>6, <1>7, <1>8, <1>12, <1>13, <1>14, <1>15

\* At first the queue has the empty sequence, which everything extends.
LEMMA InitCountIInv == CountInit => CountIInv
<1> SUFFICES ASSUME CountInit PROVE CountIInv
  OBVIOUS
<1>1. DOMAIN queue = {EmptySeq} /\ queue[EmptySeq] = 1 /\ count = 0
  BY DEF CountInit, SetToBag
<1>2. EmptySeq.cycles = 0 /\ EmptySeq.bytes = 0 /\ last = EmptySeq /\ max \in Nat /\ max \in Limits
  BY TableAssumption DEF CountInit, EmptySeq
<1>3. OrderInv
  BY <1>1, <1>2 DEF OrderInv, Cheaper
<1>4. Pending = CountUpTo[max]
  <2>1. PICK S, g : S = {EmptySeq} /\ g = [s \in S |-> queue[s] * CountUpTo[max - s.cycles]]
    OBVIOUS
  <2>2. IsFiniteSet(S) /\ S \ {EmptySeq} = {} /\ EmptySeq \in S
    BY <2>1, FS_Singleton
  <2>3. g[EmptySeq] = CountUpTo[max] /\ CountUpTo[max] \in Nat
    <3>1. g[EmptySeq] = 1 * CountUpTo[max - 0]
      BY <1>1, <1>2, <2>1
    <3>2. max - 0 = max /\ CountUpTo[max] \in Nat
      BY <1>2, CountUpToFacts
    <3> QED
      BY <3>1, <3>2
  <2>4. Total(g, S) = g[EmptySeq] + Total(g, S \ {EmptySeq})
    <3>1. OnNats(g, S)
      BY <2>1, <2>3 DEF OnNats
    <3> QED
      BY <2>2, <3>1, TotalRemove
  <2>5. Total(g, {}) = 0
    BY TotalEmpty
  <2>6. Pending = Total(g, S)
    BY <1>1, <2>1 DEF Pending
  <2> QED
    BY <2>2, <2>3, <2>4, <2>5, <2>6
<1>5. CountInv
  <2>1. CountUpTo[max] \in Nat
    BY <1>2, CountUpToFacts
  <2>2. count + Pending = CountUpTo[max] /\ count \in Nat
    BY <1>1, <1>4, <2>1
  <2>3. IsFiniteSet(DOMAIN queue) /\ \A s \in DOMAIN queue : queue[s] \in Nat \ {0}
    BY <1>1, FS_Singleton
  <2> QED
    BY <2>2, <2>3 DEF CountInv
<1> QED
  BY <1>3, <1>5 DEF CountIInv

\* What a step takes from the queue is no cheaper than what was taken before.
LEMMA PopInOrder ==
    ASSUME OrderInv, Pop
    PROVE  OrderInv' /\ ~Cheaper(last', last)
<1>1. PICK top \in DOMAIN queue :
        /\ First(top)
        /\ queue' = (queue (-) SetToBag({top})) (+) Extensions(top)
        /\ last' = top /\ max' = max
  BY DEF Pop, BagToSet
<1>2. /\ top.cycles \in Nat /\ top.bytes \in Nat /\ top.cycles <= max
      /\ ~Cheaper(top, last) /\ max \in Limits
  BY <1>1 DEF OrderInv
<1>3. ASSUME NEW s \in DOMAIN queue'
      PROVE  /\ s.cycles \in Nat /\ s.bytes \in Nat
             /\ s.cycles <= max /\ ~Cheaper(s, top)
  <2>1. CASE s \in DOMAIN queue
    BY <1>1, <2>1 DEF OrderInv, First, BagToSet
  <2>2. CASE s \in DOMAIN Extensions(top)
    BY <1>2, <2>2, ExtensionsCostMore DEF Cheaper
  <2> QED
    BY <1>1, <2>1, <2>2, QueueAfterPop
<1> QED
  BY <1>1, <1>2, <1>3 DEF OrderInv

\* It counts what it takes, and leaves the rest to be counted.
LEMMA PopCounts ==
    ASSUME CountIInv, Pop
    PROVE  CountInv'
<1>1. PICK top \in DOMAIN queue :
        /\ queue' = (queue (-) SetToBag({top})) (+) Extensions(top)
        /\ max' = max /\ count' = count + 1
  BY DEF Pop, BagToSet
<1>2. /\ top.cycles \in Nat /\ top.bytes \in Nat /\ top.cycles <= max
      /\ max \in Limits /\ max \in Nat
  BY <1>1, TableAssumption DEF CountIInv, OrderInv
<1>3. PICK Q, E, N : Q = queue /\ E = Extensions(top) /\ N = queue'
  OBVIOUS
<1>4. /\ \A s \in DOMAIN Q : Q[s] \in Nat \ {0}
      /\ IsFiniteSet(DOMAIN Q) /\ top \in DOMAIN Q
      /\ N = (Q (-) SetToBag({top})) (+) E
  BY <1>1, <1>3 DEF CountIInv, CountInv
<1>5. /\ IsFiniteSet(DOMAIN E)
      /\ \A s \in DOMAIN E : E[s] \in Nat \ {0}
      /\ 1 + Total([s \in DOMAIN E |-> E[s] * CountUpTo[max - s.cycles]], DOMAIN E)
           = CountUpTo[max - top.cycles]
  BY <1>2, <1>3, ExtensionsCount
<1>6. DOMAIN N \subseteq DOMAIN Q \cup DOMAIN E
  BY <1>1, <1>3, QueueAfterPop
<1>7. ASSUME NEW s \in DOMAIN Q \cup DOMAIN E
      PROVE  s.cycles \in Nat /\ s.cycles <= max
  <2>1. CASE s \in DOMAIN Q
    BY <1>3, <2>1 DEF CountIInv, OrderInv
  <2>2. CASE s \in DOMAIN E
    BY <1>2, <1>3, <2>2, ExtensionsCostMore
  <2> QED
    BY <2>1, <2>2
<1>8. PICK w : w = [s \in DOMAIN Q \cup DOMAIN E |-> CountUpTo[max - s.cycles]]
  OBVIOUS
<1>9. \A s \in DOMAIN Q \cup DOMAIN E : w[s] = CountUpTo[max - s.cycles] /\ w[s] \in Nat
  BY <1>2, <1>7, <1>8, CountUpToFacts
<1>10. PICK n, q, e : /\ n = BagTotal(N, w)
                      /\ q = BagTotal(Q, w)
                      /\ e = BagTotal(E, w)
  OBVIOUS
<1>11. n + w[top] = q + e /\ n \in Nat /\ q \in Nat /\ e \in Nat
  <2>1. Popped(Q, E, top, N)
    BY <1>4, <1>5, <1>6 DEF Popped
  <2>2. OnNats(w, DOMAIN Q \cup DOMAIN E)
    BY <1>9 DEF OnNats
  <2>3. BagTotal(N, w) + w[top] = BagTotal(Q, w) + BagTotal(E, w)
    BY <2>1, <2>2, TotalAfterPop
  <2>4. BagTotal(N, w) \in Nat /\ BagTotal(Q, w) \in Nat /\ BagTotal(E, w) \in Nat
    BY <2>1, <2>2, TotalAfterPop
  <2> QED
    BY <1>10, <2>3, <2>4
<1>12. 1 + e = w[top]
  <2>1. [s \in DOMAIN E |-> E[s] * w[s]]
          = [s \in DOMAIN E |-> E[s] * CountUpTo[max - s.cycles]]
    BY <1>9
  <2> QED
    BY <1>4, <1>5, <1>9, <1>10, <2>1 DEF BagTotal
<1>13. Pending = q
  <2>1. [s \in DOMAIN Q |-> Q[s] * w[s]]
          = [s \in DOMAIN Q |-> Q[s] * CountUpTo[max - s.cycles]]
    BY <1>9
  <2> QED
    BY <1>3, <1>10, <2>1 DEF Pending, BagTotal
<1>14. Pending' = n
  <2>1. [s \in DOMAIN N |-> N[s] * w[s]]
          = [s \in DOMAIN N |-> N[s] * CountUpTo[max - s.cycles]]
    BY <1>6, <1>9
  <2> QED
    BY <1>1, <1>3, <1>10, <2>1 DEF Pending, BagTotal
<1>15. count' + Pending' = CountUpTo[max]
  <2>1. count \in Nat /\ count + q = CountUpTo[max]
    BY <1>13 DEF CountIInv, CountInv
  <2> QED
    BY <1>1, <1>11, <1>12, <1>14, <2>1
<1>16. \A s \in DOMAIN N : N[s] \in Nat \ {0}
  BY <1>4, <1>5, CopiesAfterPop
<1>17. IsFiniteSet(DOMAIN N)
  <2>1. IsFiniteSet(DOMAIN Q \cup DOMAIN E)
    BY <1>4, <1>5, FS_Union
  <2> QED
    BY <1>6, <2>1, FS_Subset
<1>18. count' \in Nat
  BY <1>1 DEF CountIInv, CountInv
<1> QED
  BY <1>1, <1>3, <1>15, <1>16, <1>17, <1>18 DEF CountInv

LEMMA CountInductive == CountIInv /\ [CountNext]_countVars => CountIInv'
<1> SUFFICES ASSUME CountIInv, [CountNext]_countVars PROVE CountIInv'
  OBVIOUS
<1>1. CASE UNCHANGED countVars
  <2>1. OrderInv'
    BY <1>1 DEF countVars, CountIInv, OrderInv
  <2>2. Pending' = Pending
    BY <1>1 DEF countVars, Pending
  <2>3. CountInv'
    BY <1>1, <2>2 DEF countVars, CountIInv, CountInv
  <2> QED
    BY <2>1, <2>3 DEF CountIInv
<1> QED
  BY <1>1, PopInOrder, PopCounts DEF CountNext, CountEnded, CountIInv

\* Sequences leave the queue in the order of their costs, the cheaper sizes
\* first, though it is filled while it is emptied (cycles.cpp:351, 358-371).
THEOREM CheapestFirst == CountSpec => InCostOrder
<1>1. CountIInv /\ [CountNext]_countVars => [~Cheaper(last', last)]_countVars
  BY PopInOrder DEF CountNext, CountEnded, CountIInv
<1> QED
  BY <1>1, InitCountIInv, CountInductive, PTL DEF CountSpec, InCostOrder

\* When the queue is empty, every sequence up to max has been counted once
\* (cycles.cpp:346-349, 363-370).
THEOREM EverySequenceOnce == CountSpec => []Counted
<1>1. CountIInv => Counted
  <2> SUFFICES ASSUME CountIInv, queue = EmptyBag PROVE count = CountUpTo[max]
    BY DEF Counted
  <2>1. DOMAIN queue = {}
    BY DEF EmptyBag, SetToBag
  <2>2. Pending = 0
    BY <2>1, TotalEmpty DEF Pending
  <2> QED
    BY <2>2 DEF CountIInv, CountInv
<1> QED
  BY <1>1, InitCountIInv, CountInductive, PTL DEF CountSpec
=============================================================================

----------------------------- MODULE WorkQueue ------------------------------
(***************************************************************************)
(* The work queue of queue.h together with what its callers in             *)
(* enumerator.cpp do around it: add the tasks, run them on N_THREADS       *)
(* threads, join, and merge the per-thread stores into one result.         *)
(*                                                                         *)
(* A thread is named by the index of its store: 0 .. N_THREADS - 2 are the *)
(* spawned std::threads and N_THREADS - 1 is the calling thread, which     *)
(* works too.  A task is named by its position in vec.  What a task does   *)
(* to its store is abstracted to "it ran": stores[t][k] counts how often   *)
(* the effect of task k is in the store of thread t.                       *)
(***************************************************************************)
EXTENDS Integers

CONSTANTS
    N_THREADS,      \* std::thread::hardware_concurrency()
    N_TASKS,        \* how many tasks the caller adds before run()
    MayThrow        \* the tasks that may end in an exception (z3::exception)

Thread == 0 .. N_THREADS - 1
Caller == N_THREADS - 1
Task   == 0 .. N_TASKS - 1
NoTask == -1
NoOwner == -1

ASSUME ThreadsAssumption == N_THREADS \in Nat \ {0}
ASSUME TasksAssumption   == N_TASKS \in Nat
ASSUME ThrowAssumption   == MayThrow \subseteq Task

VARIABLES
    size,       \* vec.size()
    i,          \* the next position of vec to hand out
    running,    \* set by run(), never reset
    mutex,      \* the thread holding the mutex, or NoOwner
    pc,         \* where each thread is
    item,       \* get_task's *out, or NoTask when it returned false
    stores,     \* stores[t][k]: effects of task k in the store of thread t
    step,       \* threads spawned, then joined, then stores merged
    combined,   \* the caller's merged result
    outcome     \* "ok", "caught" by main's handler, or "terminated"

vars == <<size, i, running, mutex, pc, item, stores, step, combined, outcome>>

Empty == [k \in Task |-> 0]

\* The store after one more effect of task k.
WithTask(store, k) == [store EXCEPT ![k] = @ + 1]

\* Wrong: the last store replaces what was merged.
MergedReplacing(all, store) == store

\* What the caller has after taking one more store in.
MergedWith(all, store) == [k \in Task |-> all[k] + store[k]]

GetTask == {"locked", "fetched", "unlock"}      \* inside get_task
WorkerStates == {"unborn", "poll", "run", "done"} \cup GetTask
CallerStates == {"add", "spawn", "poll", "run", "join", "merge", "end"} \cup GetTask

TypeOK ==
    /\ size \in 0 .. N_TASKS
    /\ i \in 0 .. N_TASKS
    /\ running \in BOOLEAN
    /\ mutex \in Thread \cup {NoOwner}
    /\ pc \in [Thread -> WorkerStates \cup CallerStates]
    /\ item \in [Thread -> Task \cup {NoTask}]
    /\ stores \in [Thread -> [Task -> Nat]]
    /\ step \in 0 .. N_THREADS
    /\ combined \in [Task -> Nat]
    /\ outcome \in {"ok", "caught", "terminated"}

Init ==
    /\ size = 0
    /\ i = 0
    /\ running = FALSE
    /\ mutex = NoOwner
    /\ pc = [t \in Thread |-> IF t = Caller THEN "add" ELSE "unborn"]
    /\ item = [t \in Thread |-> NoTask]
    /\ stores = [t \in Thread |-> Empty]
    /\ step = 0
    /\ combined = Empty
    /\ outcome = "ok"

Goto(t, state) == pc' = [pc EXCEPT ![t] = state]

-----------------------------------------------------------------------------
(* The caller before the threads exist.                                    *)

\* add(): lock, refuse when running, push_back, unlock.  Only the caller
\* exists, so the four steps cannot be told apart.
Add ==
    /\ pc[Caller] = "add"
    /\ ~running
    /\ mutex = NoOwner
    /\ size < N_TASKS
    /\ size' = size + 1
    /\ UNCHANGED <<i, running, mutex, pc, item, stores, step, combined, outcome>>

\* run() begins: running = true, one fresh store per thread.
Run ==
    /\ pc[Caller] = "add"
    /\ size = N_TASKS
    /\ running' = TRUE
    /\ stores' = [t \in Thread |-> Empty]
    /\ Goto(Caller, "spawn")
    /\ UNCHANGED <<size, i, mutex, item, step, combined, outcome>>

\* threads[step] = std::thread(...): it starts at once, while the caller
\* is still creating the others.
Spawn ==
    /\ pc[Caller] = "spawn"
    /\ step < Caller
    /\ Goto(step, "poll")
    /\ step' = step + 1
    /\ UNCHANGED <<size, i, running, mutex, item, stores, combined, outcome>>

\* The caller becomes the last worker.
Spawned ==
    /\ pc[Caller] = "spawn"
    /\ step = Caller
    /\ Goto(Caller, "poll")
    /\ step' = 0
    /\ UNCHANGED <<size, i, running, mutex, item, stores, combined, outcome>>

-----------------------------------------------------------------------------
(* thread_worker(): while (get_task(&f)) f(store).                         *)

\* Wrong: get_task without mutex.lock().
LockNothing(t) ==
    /\ pc[t] = "poll"
    /\ Goto(t, "locked")
    /\ UNCHANGED <<size, i, running, mutex, item, stores, step, combined, outcome>>

\* get_task: mutex.lock() blocks until the mutex is free.
Lock(t) ==
    /\ pc[t] = "poll"
    /\ mutex = NoOwner
    /\ mutex' = t
    /\ Goto(t, "locked")
    /\ UNCHANGED <<size, i, running, item, stores, step, combined, outcome>>

\* Wrong: i <= vec.size().
FetchPastEnd(t) ==
    /\ pc[t] = "locked"
    /\ \/ /\ i <= size
          /\ item' = [item EXCEPT ![t] = i]
          /\ Goto(t, "fetched")
       \/ /\ i > size
          /\ item' = [item EXCEPT ![t] = NoTask]
          /\ Goto(t, "unlock")
    /\ UNCHANGED <<size, i, running, mutex, stores, step, combined, outcome>>

\* get_task under the mutex, the read of i: vec[i] is taken, or nothing is
\* left.
Fetch(t) ==
    /\ pc[t] = "locked"
    /\ \/ /\ i < size
          /\ item' = [item EXCEPT ![t] = i]
          /\ Goto(t, "fetched")
       \/ /\ i >= size
          /\ item' = [item EXCEPT ![t] = NoTask]
          /\ Goto(t, "unlock")
    /\ UNCHANGED <<size, i, running, mutex, stores, step, combined, outcome>>

\* The write of i++: one more than what this thread read.  Only the mutex
\* keeps another thread out between the two.
Advance(t) ==
    /\ pc[t] = "fetched"
    /\ i' = item[t] + 1
    /\ Goto(t, "unlock")
    /\ UNCHANGED <<size, running, mutex, item, stores, step, combined, outcome>>

\* Wrong: the worker polls again when there was no task.
UnlockAndPoll(t) ==
    /\ pc[t] = "unlock"
    /\ mutex' = NoOwner
    /\ Goto(t, IF item[t] # NoTask THEN "run" ELSE "poll")
    /\ UNCHANGED <<size, i, running, item, stores, step, combined, outcome>>

\* get_task: mutex.unlock() and the return to thread_worker's loop, which
\* ends when there was no task.
Unlock(t) ==
    /\ pc[t] = "unlock"
    /\ mutex' = NoOwner
    /\ Goto(t, IF item[t] # NoTask THEN "run"
               ELSE IF t = Caller THEN "join" ELSE "done")
    /\ UNCHANGED <<size, i, running, item, stores, step, combined, outcome>>

\* f(store): the task runs to its end and its effect is in the store.
RunTask(t) ==
    /\ pc[t] = "run"
    /\ stores' = [stores EXCEPT ![t] = WithTask(@, item[t])]
    /\ Goto(t, "poll")
    /\ UNCHANGED <<size, i, running, mutex, item, step, combined, outcome>>

\* Wrong: the worker swallows the exception and goes on.
ThrowIgnored(t) ==
    /\ pc[t] = "run"
    /\ item[t] \in MayThrow
    /\ Goto(t, "poll")
    /\ UNCHANGED <<size, i, running, mutex, item, stores, step, combined, outcome>>

\* f(store) throws.  In a spawned thread nothing catches it.  In the caller
\* it leaves run(), whose array still holds joinable std::threads (their
\* destructor ends the program) unless N_THREADS = 1, when main's handler
\* is reached.
Throw(t) ==
    /\ pc[t] = "run"
    /\ item[t] \in MayThrow
    /\ outcome' = IF t = Caller /\ N_THREADS = 1 THEN "caught"
                                                 ELSE "terminated"
    /\ UNCHANGED <<size, i, running, mutex, pc, item, stores, step, combined>>

-----------------------------------------------------------------------------
(* The caller after its own share of the work.                             *)

\* Wrong: the thread is detached instead of joined.
JoinNothing ==
    /\ pc[Caller] = "join"
    /\ step < Caller
    /\ step' = step + 1
    /\ UNCHANGED <<size, i, running, mutex, pc, item, stores, combined, outcome>>

\* threads[step].join()
Join ==
    /\ pc[Caller] = "join"
    /\ step < Caller
    /\ pc[step] = "done"
    /\ step' = step + 1
    /\ UNCHANGED <<size, i, running, mutex, pc, item, stores, combined, outcome>>

\* run() returns.
Joined ==
    /\ pc[Caller] = "join"
    /\ step = Caller
    /\ Goto(Caller, "merge")
    /\ step' = 0
    /\ UNCHANGED <<size, i, running, mutex, item, stores, combined, outcome>>

\* One round of the caller's merge loop over queue.stores.
Merge ==
    /\ pc[Caller] = "merge"
    /\ step < N_THREADS
    /\ combined' = MergedWith(combined, stores[step])
    /\ stores' = [stores EXCEPT ![step] = Empty]
    /\ step' = step + 1
    /\ UNCHANGED <<size, i, running, mutex, pc, item, outcome>>

Merged ==
    /\ pc[Caller] = "merge"
    /\ step = N_THREADS
    /\ Goto(Caller, "end")
    /\ UNCHANGED <<size, i, running, mutex, item, stores, step, combined, outcome>>

\* The program has ended, in one way or the other.
Ended ==
    /\ pc[Caller] = "end" \/ outcome # "ok"
    /\ UNCHANGED vars

-----------------------------------------------------------------------------
Work(t) == \/ Lock(t) \/ Fetch(t) \/ Advance(t) \/ Unlock(t)
           \/ RunTask(t) \/ Throw(t)

CallerStep == \/ Add \/ Run \/ Spawn \/ Spawned
              \/ Join \/ Joined \/ Merge \/ Merged

Live(A) == outcome = "ok" /\ A

Next == \/ Live(CallerStep)
        \/ \E t \in Thread : Live(Work(t))
        \/ Ended

\* The operating system runs every thread that can run; a task ends, with its
\* effect or with an exception.
Fairness == /\ WF_vars(Live(CallerStep))
            /\ \A t \in Thread : WF_vars(Live(Work(t)))

Spec == Init /\ [][Next]_vars

FairSpec == Spec /\ Fairness
-----------------------------------------------------------------------------
\* Task k is in the hands of thread t: fetched, its effect not yet stored.
InFlight(t, k) == pc[t] \in {"unlock", "run"} /\ item[t] = k

\* Thread t is answerable for task k.
Holds(t, k) == stores[t][k] > 0 \/ InFlight(t, k)

\* The places a task's effect can be in: no store has it, the merged result
\* has it once, or one thread answers for it, once.
Nowhere(k)  == combined[k] = 0 /\ \A t \in Thread : ~Holds(t, k)
InResult(k) == combined[k] = 1 /\ \A t \in Thread : ~Holds(t, k)
WithOneThread(k) ==
    /\ combined[k] = 0
    /\ \E t \in Thread : /\ Holds(t, k)
                         /\ stores[t][k] <= IF InFlight(t, k) THEN 0 ELSE 1
                         /\ \A u \in Thread \ {t} : ~Holds(u, k)

\* A task handed out by get_task is with exactly one thread, or merged, and
\* it is there once; a task not handed out is nowhere.  No interleaving of
\* the threads' get_task calls duplicates or loses a task (queue.h:25-34).
ExactlyOnce == \A k \in Task : IF k < i THEN InResult(k) \/ WithOneThread(k)
                                        ELSE Nowhere(k)

\* When the caller merges, every other thread has ended: no store is read
\* while a thread may still write it (queue.h:53-55, enumerator.cpp:192-199).
NoRaceOnStores ==
    pc[Caller] \in {"merge", "end"} =>
        \A t \in Thread \ {Caller} : pc[t] = "done"

\* The merged result holds the effect of every task once, and the caller
\* never gets that far when a task threw: no partial result is taken for a
\* whole one (enumerator.cpp:192-200, 383-399, 441).
CompleteResult ==
    pc[Caller] = "end" => outcome = "ok" /\ \A k \in Task : combined[k] = 1

\* The call returns, or an exception has ended the program: no thread waits
\* for ever on the mutex or in join (queue.h:25-56).
Terminates == <>(pc[Caller] = "end" \/ outcome # "ok")

\* The queue implements the pool its callers expect (TaskPool): a task has
\* taken effect once it is in a store or in the merged result, and the answer
\* is there when the merge has ended or the program has failed.
Unfinished == {k \in Task : combined[k] = 0 /\ \A t \in Thread : stores[t][k] = 0}

Answer == IF outcome # "ok" THEN "failed"
          ELSE IF pc[Caller] = "end" THEN "all" ELSE "none"

Pool == INSTANCE TaskPool WITH pending <- Unfinished, result <- Answer

ImplementsPool == Pool!PoolSpec
=============================================================================

----------------------------- MODULE WorkerPool -----------------------------
(***************************************************************************)
(* A kernel worker pool (kernel/worker.c): its creation with threads that   *)
(* run before it is complete, the bounded queue of items, workers that      *)
(* block on the pool when it is empty, drain and shutdown.                  *)
(*                                                                          *)
(* A step is one section under pool->lock (interrupts are off in it), or    *)
(* one call outside it.  Tasks may be switched between any two steps: the   *)
(* wake-up of worker_pool_submit follows the section that queued the item.  *)
(*                                                                          *)
(* Abstractions.  queue, head, tail and count are a sequence.  An item is   *)
(* named for the caller or the request that queued it; no code reads the    *)
(* name.  A yield of a blocked worker that returns at once, because nothing *)
(* else is ready, finds the pool as it left it: a stuttering step.          *)
(* Statistics are left out.                                                 *)
(***************************************************************************)
EXTENDS Naturals, Sequences, FiniteSets

CONSTANTS
    Threads,      \* the worker tasks, thread_count of them
    Callers,      \* tasks that call the pool
    QueueMax,     \* WORKER_QUEUE_MAX
    NoItem

ASSUME PoolAssumption == QueueMax \in Nat \ {0} /\ IsFiniteSet(Threads)

VARIABLES
    pool,         \* "none", "creating", "open": counted in pool_count
    running,      \* pool->running
    queue,        \* queued items
    active,       \* pool->active_threads
    at,           \* where each worker is
    item,         \* the worker's copy of its item
    pc,           \* where each caller is
    owed          \* history: items a drain has to see finished

poolVars == <<pool, running, queue, active, at, item>>

PoolInit ==
    /\ pool = "none"
    /\ running = FALSE
    /\ queue = <<>>
    /\ active = 0
    /\ at = [t \in Threads |-> "none"]
    /\ item = [t \in Threads |-> NoItem]
    /\ pc = [c \in Callers |-> "idle"]
    /\ owed = [c \in Callers |-> {}]

Goto(c, to) == pc' = [pc EXCEPT ![c] = to]
Move(t, to) == at' = [at EXCEPT ![t] = to]

-----------------------------------------------------------------------------
(* worker_pool_create *)

CreateBegin(c) ==
    /\ pool = "none"
    /\ pool' = "creating"
    /\ running' = TRUE
    /\ queue' = <<>>
    /\ active' = 0
    /\ Goto(c, "create")
    /\ UNCHANGED <<at, item, owed>>

\* The new task is in the run queue at once.
CreateThread(c, t) ==
    /\ pc[c] = "create"
    /\ at[t] = "none"
    /\ Move(t, "look")
    /\ UNCHANGED <<pool, running, queue, active, item, pc, owed>>

\* One task could not be created: those that were are killed.
CreateFails(c) ==
    /\ pc[c] = "create"
    /\ \E t \in Threads : at[t] = "none"
    /\ pool' = "none"
    /\ running' = FALSE
    /\ at' = [t \in Threads |-> "none"]
    /\ Goto(c, "idle")
    /\ UNCHANGED <<queue, active, item, owed>>

CreateEnd(c, to) ==
    /\ pc[c] = "create"
    /\ \A t \in Threads : at[t] # "none"
    /\ pool' = "open"
    /\ Goto(c, to)
    /\ UNCHANGED <<running, queue, active, at, item, owed>>

-----------------------------------------------------------------------------
(* worker_thread_entry *)

Exit(t) ==
    /\ at[t] = "look" /\ ~running
    /\ Move(t, "gone")
    /\ UNCHANGED <<pool, running, queue, active, item, pc, owed>>

\* task_block under the lock, then task_yield.
Block(t) ==
    /\ at[t] = "look" /\ running
    /\ queue = <<>>
    /\ Move(t, "blocked")
    /\ UNCHANGED <<pool, running, queue, active, item, pc, owed>>

Resume(t) ==
    /\ at[t] = "woken"
    /\ Move(t, "look")
    /\ UNCHANGED <<pool, running, queue, active, item, pc, owed>>

\* Mutant of Take: the worker counts itself active after the unlock.
TakeUncounted(t) ==
    /\ at[t] = "look" /\ running
    /\ queue # <<>>
    /\ item' = [item EXCEPT ![t] = Head(queue)]
    /\ queue' = Tail(queue)
    /\ Move(t, "run")
    /\ UNCHANGED <<pool, running, active, pc, owed>>

Take(t) ==
    /\ at[t] = "look" /\ running
    /\ queue # <<>>
    /\ item' = [item EXCEPT ![t] = Head(queue)]
    /\ queue' = Tail(queue)
    /\ active' = active + 1
    /\ Move(t, "run")
    /\ UNCHANGED <<pool, running, pc, owed>>

\* The function of t's item returned.
Returned(t) ==
    /\ Move(t, "leave")
    /\ owed' = [c \in Callers |-> owed[c] \ {item[t]}]

Leave(t) ==
    /\ at[t] = "leave"
    /\ active' = IF active > 0 THEN active - 1 ELSE 0
    /\ item' = [item EXCEPT ![t] = NoItem]
    /\ Move(t, "look")
    /\ UNCHANGED <<pool, running, queue, pc, owed>>

-----------------------------------------------------------------------------
(* worker_pool_submit, worker_pool_drain and worker_pool_shutdown *)

Accepts == pool = "open" /\ Len(queue) < QueueMax

\* Mutant of Enqueue: nobody is woken.
EnqueueQuiet(c, i) ==
    /\ Accepts
    /\ queue' = Append(queue, i)
    /\ Goto(c, "idle")
    /\ UNCHANGED <<pool, running, active, at, item, owed>>

Enqueue(c, i) ==
    /\ Accepts
    /\ queue' = Append(queue, i)
    /\ Goto(c, "wake")
    /\ UNCHANGED <<pool, running, active, at, item, owed>>

\* task_unblock_channel
Wake(c) ==
    /\ pc[c] = "wake"
    /\ at' = [t \in Threads |-> IF at[t] = "blocked" THEN "woken" ELSE at[t]]
    /\ Goto(c, "idle")
    /\ UNCHANGED <<pool, running, queue, active, item, owed>>

Held == {item[t] : t \in {u \in Threads : at[u] \in {"run", "exec"}}}
Queued == {queue[k] : k \in DOMAIN queue}

DrainCall(c) ==
    /\ pc[c] = "idle" /\ pool = "open"
    /\ owed' = [owed EXCEPT ![c] = Queued \union Held]
    /\ Goto(c, "drain")
    /\ UNCHANGED poolVars

DrainReturn(c) ==
    /\ pc[c] = "drain"
    /\ queue = <<>> /\ active = 0
    /\ Goto(c, "idle")
    /\ UNCHANGED <<poolVars, owed>>

Shutdown(c) ==
    /\ pc[c] = "idle" /\ pool = "open"
    /\ running' = FALSE
    /\ Goto(c, "wake")
    /\ UNCHANGED <<pool, queue, active, at, item, owed>>

-----------------------------------------------------------------------------
(* Properties *)

\* worker_pool_drain returns only when every item that was queued or running
\* when it was called has been run to its end, whichever worker took it.
DrainWaits ==
    [][\A c \in Callers : pc[c] = "drain" /\ pc'[c] # "drain" => owed[c] = {}]_<<pc, owed>>
=============================================================================

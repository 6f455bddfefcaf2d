------------------------------ MODULE Processes ------------------------------
(***************************************************************************)
(* Tasks, the run queue and processes of the CapyOS desktop: task.c,       *)
(* scheduler.c, process.c and the system calls that drive them.            *)
(*                                                                         *)
(* Task slot Main is the kernel's own thread (shell or desktop loop); it   *)
(* polls services, which sweeps orphans with interrupts enabled, it        *)
(* launches and closes capygfx with interrupts masked, and between frames  *)
(* it sleeps.  Every other task is the main thread of a process.  A system *)
(* call runs with interrupts masked, so it is one step up to its next      *)
(* task_yield; a timer tick hits ring 3 and the kernel's thread.           *)
(*                                                                         *)
(* Abstractions.  A pid or an address space is a name: a fresh one is the  *)
(* least that nothing refers to.  All tasks have TASK_PRIORITY_NORMAL, so  *)
(* the PRIORITY policy picks as round robin does.  The quantum and wake    *)
(* ticks are choices of the timer.  scheduler_start is never called: there *)
(* is no idle task.  Allocation of an address space or a stack succeeds,   *)
(* ELF images load.  Descriptors, exit codes and the kernel's worker tasks *)
(* are left out.                                                           *)
(***************************************************************************)
EXTENDS Naturals, Sequences, FiniteSets

CONSTANTS
    NT,             \* TASK_MAX_COUNT
    NP,             \* PROCESS_MAX
    Timer,          \* does a timer interrupt reach scheduler_tick?
    WaitAny         \* do processes wait for pids that are not their children's?

ASSUME ProcessesAssumption ==
    /\ NT \in Nat \ {0} /\ NP \in Nat \ {0}
    /\ Timer \in BOOLEAN /\ WaitAny \in BOOLEAN

VARIABLES
    task,       \* task_table
    runq,       \* the run queue
    cur,        \* current_task
    proc,       \* proc_table
    spaces,     \* address spaces that exist
    wait,       \* per task: the process_wait it is in
    sweep       \* the process_reap_orphans of the kernel's thread

vars == <<task, runq, cur, proc, spaces, wait, sweep>>

Tasks == 1..NT
Procs == 1..NP
Names == 1..(NT + 2 * NP + 1)
Main  == 1

NoWait  == [slot |-> 0, pid |-> 0]
NoSweep == [i |-> 0, step |-> "none", goal |-> "none"]

UnusedTask == [state |-> "unused", pid |-> 0, space |-> 0]
UnusedProc == [state |-> "unused", pid |-> 0, thread |-> 0, space |-> 0,
               own |-> 0, parent |-> 0, kids |-> {}]

Least(S) == CHOOSE n \in S : \A m \in S : n <= m

Init ==
    /\ task = [t \in Tasks |->
                 IF t = Main THEN [state |-> "running", pid |-> 1, space |-> 0]
                 ELSE UnusedTask]
    /\ runq = <<Main>>
    /\ cur = Main
    /\ proc = [p \in Procs |-> UnusedProc]
    /\ spaces = {}
    /\ wait = [t \in Tasks |-> NoWait]
    /\ sweep = NoSweep

-----------------------------------------------------------------------------
(* scheduler.c *)

\* scheduler_pick_next_for_current: the first ready task after c, cyclically.
Pick(T, q, c) ==
    LET k     == CHOOSE i \in DOMAIN q : q[i] = c
        after == SubSeq(q, k + 1, Len(q)) \o SubSeq(q, 1, k - 1)
        ready == {i \in DOMAIN after : T[after[i]].state = "ready"}
    IN  IF ready = {} THEN 0 ELSE after[Least(ready)]

\* schedule(): with nothing ready the current task goes on, whatever its state.
Schedule(T, q) ==
    LET n == Pick(T, q, cur)
    IN  IF n = 0 THEN task' = T /\ cur' = cur
        ELSE /\ task' = [T EXCEPT ![cur].state = IF @ = "running" THEN "ready" ELSE @,
                                  ![n].state = "running"]
             /\ cur' = n

\* The current task is in its own code, ring 3 or the kernel's loop.
InUser == cur # Main /\ task[cur].state = "running" /\ wait[cur] = NoWait
InKernel == cur = Main /\ sweep = NoSweep

\* Interrupts are masked in a system call and in the kernel's cli sections.
Interruptible ==
    /\ task[cur].state = "running"
    /\ wait[cur] = NoWait
    /\ cur = Main => sweep.goal # "spawn"

Sleeping == {t \in Tasks : task[t].state = "sleeping"}
Wake(woken) ==
    [t \in Tasks |-> IF t \in woken THEN [task[t] EXCEPT !.state = "ready"] ELSE task[t]]

\* Tasks that exited go back to the table; their slots are free for new tasks.
Zombies == {t \in Tasks : task[t].state = "zombie" /\ t # cur}
Without(q, S) ==
    LET kept == {i \in DOMAIN q : q[i] \notin S}
    IN  [k \in 1..Cardinality(kept) |->
            q[CHOOSE i \in kept : Cardinality({j \in kept : j < i}) = k - 1]]

\* scheduler_tick: sleepers, zombies, and the end of a quantum.
Tick(woken, expired) ==
    /\ Timer /\ Interruptible
    /\ LET T == [t \in Tasks |-> IF t \in Zombies THEN UnusedTask ELSE Wake(woken)[t]]
           q == Without(runq, Zombies)
       IN  /\ runq' = q
           /\ IF expired THEN Schedule(T, q) ELSE task' = T /\ cur' = cur
    /\ UNCHANGED <<proc, spaces, wait, sweep>>

\* scheduler_tick under scheduler_preempt_disable: only the sleepers.
TickGuarded(woken) ==
    /\ Timer /\ Interruptible
    /\ cur = Main
    /\ task' = Wake(woken)
    /\ UNCHANGED <<runq, cur, proc, spaces, wait, sweep>>

Yield ==
    /\ InUser \/ InKernel
    /\ Schedule(task, runq)
    /\ UNCHANGED <<runq, proc, spaces, wait, sweep>>

\* task_sleep, by sys_sleep or by the desktop's frame delay: a yield, unless the
\* timer runs and another task is ready.
Sleep ==
    /\ InUser \/ InKernel
    /\ Timer
    /\ \E t \in Tasks \ {cur} : task[t].state = "ready"
    /\ Schedule([task EXCEPT ![cur].state = "sleeping"], runq)
    /\ UNCHANGED <<runq, proc, spaces, wait, sweep>>

-----------------------------------------------------------------------------
(* process.c *)

\* process_current: the first process whose main thread is the current task.
Current ==
    LET mine == {p \in Procs : proc[p].state # "unused" /\ proc[p].thread = cur}
    IN  IF mine = {} THEN 0 ELSE Least(mine)

FreeTasks == {t \in Tasks : task[t].state = "unused"}
FreeProcs == {p \in Procs : proc[p].state = "unused"}

TaskPids == {task[t].pid : t \in Tasks} \union {proc[p].own : p \in Procs}
ProcPids == {proc[p].pid : p \in Procs} \union {wait[t].pid : t \in Tasks}
Spaces   == {task[t].space : t \in Tasks} \union {proc[p].space : p \in Procs} \union spaces
Fresh(used) == Least(Names \ used)

\* process_create_with_parent, the address space it gets (process_fork's clone
\* or a new one) and scheduler_add.
Create(parent) ==
    /\ FreeTasks # {} /\ FreeProcs # {}
    /\ LET t == Least(FreeTasks)
           p == Least(FreeProcs)
           s == Fresh(Spaces)
           n == Fresh(TaskPids)
           new == [state |-> "live", pid |-> Fresh(ProcPids), thread |-> t,
                   space |-> s, own |-> n, parent |-> parent, kids |-> {}]
       IN  /\ task' = [task EXCEPT ![t] = [state |-> "ready", pid |-> n, space |-> s]]
           /\ runq' = Append(runq, t)
           /\ proc' = [q \in Procs |->
                         IF q = p THEN new
                         ELSE IF q = parent THEN [proc[q] EXCEPT !.kids = @ \union {p}]
                         ELSE proc[q]]
           /\ spaces' = spaces \union {s}
           /\ wait' = [wait EXCEPT ![t] = NoWait]

\* A task_kill that reaches only tasks that can run.
VictimAwake(t) == IF t \in Tasks \ {cur} /\ task[t].state = "ready" THEN {t} ELSE {}

\* task_kill of the task that occupies slot t now: the current task is refused,
\* a free slot ignored.
Victim(t) == IF t \in Tasks \ {cur} /\ task[t].state # "unused" THEN {t} ELSE {}

\* A task_kill without scheduler_remove.
KillTasksQueued(S) ==
    /\ task' = [t \in Tasks |-> IF t \in S THEN UnusedTask ELSE task[t]]
    /\ runq' = runq

\* The tasks of S are gone, and with them the calls they were in.
KillTasks(S) ==
    /\ task' = [t \in Tasks |-> IF t \in S THEN UnusedTask ELSE task[t]]
    /\ runq' = Without(runq, S)
WaitsWithout(S) == [t \in Tasks |-> IF t \in S THEN NoWait ELSE wait[t]]

\* Teardown deferred for as long as there is an address space.
ActiveNonNull(p) == proc[p].space # 0

Active(p) == proc[p].space # 0 /\ proc[p].space = task[cur].space

\* A teardown that leaves the process in its parent's list.
DetachedListed(p) ==
    [q \in Procs |->
        IF q = p THEN [proc[q] EXCEPT !.parent = 0, !.kids = {}]
        ELSE [proc[q] EXCEPT !.parent = IF q \in proc[p].kids THEN 0 ELSE @]]

\* A teardown that does not orphan the children.
DetachedOnly(p) ==
    [q \in Procs |->
        IF q = p THEN [proc[q] EXCEPT !.parent = 0, !.kids = {}]
        ELSE [proc[q] EXCEPT !.kids = IF q = proc[p].parent THEN @ \ {p} ELSE @]]

\* The process leaves the tree: its children are orphans, its parent forgets it.
Detached(p) ==
    [q \in Procs |->
        IF q = p THEN [proc[q] EXCEPT !.parent = 0, !.kids = {}]
        ELSE [proc[q] EXCEPT !.parent = IF q \in proc[p].kids THEN 0 ELSE @,
                             !.kids = IF q = proc[p].parent THEN @ \ {p} ELSE @]]

\* A process_destroy without task_kill.
DestroyKeepsThread(p) ==
    /\ KillTasks({})
    /\ spaces' = spaces \ {proc[p].space}
    /\ proc' = [Detached(p) EXCEPT ![p] = UnusedProc]

\* process_destroy as a whole.
Destroy(p) ==
    /\ KillTasks(Victim(proc[p].thread))
    /\ spaces' = spaces \ {proc[p].space}
    /\ proc' = [Detached(p) EXCEPT ![p] = UnusedProc]

\* sys_fork
Fork ==
    /\ InUser
    /\ Current # 0
    /\ Create(Current)
    /\ UNCHANGED <<cur, sweep>>

\* An exec that forgets the old address space.
ExecLeaks ==
    /\ InUser
    /\ Current # 0
    /\ LET s == Fresh(Spaces)
       IN  /\ spaces' = spaces \union {s}
           /\ proc' = [proc EXCEPT ![Current].space = s]
           /\ task' = [task EXCEPT ![cur].space = s]
    /\ UNCHANGED <<runq, cur, wait, sweep>>

\* sys_exec: process_exec_replace gives the process another address space.
Exec ==
    /\ InUser
    /\ Current # 0
    /\ LET s == Fresh(Spaces)
       IN  /\ spaces' = (spaces \ {proc[Current].space}) \union {s}
           /\ proc' = [proc EXCEPT ![Current].space = s]
           /\ task' = [task EXCEPT ![cur].space = s]
    /\ UNCHANGED <<runq, cur, wait, sweep>>

\* process_exit, by sys_exit or by a fault that kills the process.
Exit ==
    /\ InUser
    /\ Current # 0
    /\ proc' = [proc EXCEPT ![Current].state = "zombie"]
    /\ Schedule([task EXCEPT ![cur].state = "zombie"], runq)
    /\ UNCHANGED <<runq, spaces, wait, sweep>>

\* sys_wait for the process in slot c; process_by_pid found it.
Wait(c) ==
    /\ InUser
    /\ Current # 0
    /\ IF WaitAny THEN proc[c].state # "unused" /\ c # Current ELSE c \in proc[Current].kids
    /\ wait' = [wait EXCEPT ![cur] = [slot |-> c, pid |-> proc[c].pid]]
    /\ UNCHANGED <<task, runq, cur, proc, spaces, sweep>>

\* process_wait's loop: yield until the slot holds a zombie, then reap it.
WaitYield ==
    /\ task[cur].state = "running" /\ wait[cur] # NoWait
    /\ \/ proc[wait[cur].slot].state # "zombie"
       \/ Active(wait[cur].slot)
    /\ Schedule(task, runq)
    /\ UNCHANGED <<runq, proc, spaces, wait, sweep>>

WaitReap ==
    /\ task[cur].state = "running" /\ wait[cur] # NoWait
    /\ proc[wait[cur].slot].state = "zombie"
    /\ ~Active(wait[cur].slot)
    /\ Destroy(wait[cur].slot)
    /\ wait' = WaitsWithout({cur} \union Victim(proc[wait[cur].slot].thread))
    /\ UNCHANGED <<cur, sweep>>

-----------------------------------------------------------------------------
(* The kernel's own thread *)

\* capygfx_find_live_process: the first live process.  Children carry the name of
\* the process they were forked from, so every process of the desktop matches.
Live == {p \in Procs : proc[p].state = "live"}
Target(p) == Live # {} /\ p = Least(Live)

\* kernel_close_capygfx_desktop and its process_kill: a zombie without its thread,
\* destroyed at once when no parent will wait for it.
Kill(p) ==
    /\ InKernel
    /\ Target(p)
    /\ IF proc[p].parent = 0 THEN Destroy(p)
       ELSE /\ KillTasks(Victim(proc[p].thread))
            /\ proc' = [proc EXCEPT ![p].state = "zombie", ![p].thread = 0]
            /\ UNCHANGED spaces
    /\ wait' = WaitsWithout(Victim(proc[p].thread))
    /\ UNCHANGED <<cur, sweep>>

\* A sweep that does not look at the first slot.
SweepStartLate(goal) ==
    /\ InKernel
    /\ sweep' = [i |-> 2, step |-> "look", goal |-> goal]
    /\ UNCHANGED <<task, runq, cur, proc, spaces, wait>>

\* process_reap_orphans: from the service poll, or before a spawn.
SweepStart(goal) ==
    /\ InKernel
    /\ sweep' = [i |-> 1, step |-> "look", goal |-> goal]
    /\ UNCHANGED <<task, runq, cur, proc, spaces, wait>>

\* A sweep of every zombie, whether or not a parent will wait for it.
OrphanAny(p) == proc[p].state = "zombie"

Orphan(p) == proc[p].state = "zombie" /\ proc[p].parent = 0

\* A sweep that advances twice.
NextSlotSkips == [sweep EXCEPT !.i = @ + 2, !.step = "look"]

NextSlot == [sweep EXCEPT !.i = @ + 1, !.step = "look"]

SweepSkip ==
    /\ cur = Main /\ sweep.step = "look" /\ sweep.i \in Procs
    /\ ~Orphan(sweep.i) \/ Active(sweep.i)
    /\ sweep' = NextSlot
    /\ UNCHANGED <<task, runq, cur, proc, spaces, wait>>

\* process_destroy, one step per resource: a tick may come in between.
SweepDetach ==
    /\ cur = Main /\ sweep.step = "look" /\ sweep.i \in Procs
    /\ Orphan(sweep.i) /\ ~Active(sweep.i)
    /\ proc' = Detached(sweep.i)
    /\ sweep' = [sweep EXCEPT !.step = "thread"]
    /\ UNCHANGED <<task, runq, cur, spaces, wait>>

SweepThread ==
    /\ cur = Main /\ sweep.step = "thread"
    /\ KillTasks(Victim(proc[sweep.i].thread))
    /\ wait' = WaitsWithout(Victim(proc[sweep.i].thread))
    /\ proc' = [proc EXCEPT ![sweep.i].thread = 0]
    /\ sweep' = [sweep EXCEPT !.step = "space"]
    /\ UNCHANGED <<cur, spaces>>

SweepSpace ==
    /\ cur = Main /\ sweep.step = "space"
    /\ spaces' = spaces \ {proc[sweep.i].space}
    /\ proc' = [proc EXCEPT ![sweep.i].space = 0]
    /\ sweep' = [sweep EXCEPT !.step = "free"]
    /\ UNCHANGED <<task, runq, cur, wait>>

SweepFree ==
    /\ cur = Main /\ sweep.step = "free"
    /\ proc' = [proc EXCEPT ![sweep.i] = UnusedProc]
    /\ sweep' = NextSlot
    /\ UNCHANGED <<task, runq, cur, spaces, wait>>

SweepDone == cur = Main /\ sweep.i = NP + 1

\* A live process is focused instead, a full table refuses.
CanSpawn == Live = {} /\ FreeTasks # {} /\ FreeProcs # {}

SweepEnd ==
    /\ SweepDone
    /\ sweep.goal = "poll" \/ ~CanSpawn
    /\ sweep' = NoSweep
    /\ UNCHANGED <<task, runq, cur, proc, spaces, wait>>

\* kernel_spawn_capygfx_desktop: a root process, after the sweep.
Spawn ==
    /\ SweepDone /\ sweep.goal = "spawn"
    /\ CanSpawn
    /\ Create(0)
    /\ sweep' = NoSweep
    /\ UNCHANGED cur

-----------------------------------------------------------------------------
Sweep ==
    \/ SweepSkip \/ SweepDetach \/ SweepThread \/ SweepSpace \/ SweepFree \/ SweepEnd

Next ==
    \/ \E woken \in SUBSET Sleeping :
          Tick(woken, TRUE) \/ Tick(woken, FALSE) \/ TickGuarded(woken)
    \/ Yield \/ Sleep
    \/ Fork \/ Exec \/ Exit
    \/ \E c \in Procs : Wait(c)
    \/ WaitYield \/ WaitReap
    \/ \E p \in Procs : Kill(p)
    \/ SweepStart("poll") \/ SweepStart("spawn")
    \/ Sweep \/ Spawn

Spec == Init /\ [][Next]_vars

\* The timer interrupt keeps coming whenever interrupts are enabled, the kernel's
\* loop keeps polling and its sweep advances when it has the processor, and a
\* system call, which nothing interrupts, goes on.
FairSpec ==
    /\ Spec
    /\ SF_vars(Tick(Sleeping, TRUE))
    /\ WF_vars(WaitYield \/ WaitReap)
    /\ SF_vars(SweepStart("poll"))
    /\ SF_vars(Sweep \/ Spawn)

-----------------------------------------------------------------------------
(* Properties *)

TypeOK ==
    /\ task \in [Tasks -> [state : {"unused", "ready", "running", "sleeping", "zombie"},
                           pid : Names \union {0}, space : Names \union {0}]]
    /\ runq \in Seq(Tasks)
    /\ cur \in Tasks
    /\ proc \in [Procs -> [state : {"unused", "live", "zombie"}, pid : Names \union {0},
                           thread : Tasks \union {0}, space : Names \union {0},
                           own : Names \union {0}, parent : Procs \union {0},
                           kids : SUBSET Procs]]
    /\ spaces \subseteq Names
    /\ wait \in [Tasks -> [slot : Procs \union {0}, pid : Names \union {0}]]
    /\ sweep \in [i : 0..(NP + 1), step : {"none", "look", "thread", "space", "free"},
                  goal : {"none", "poll", "spawn"}]

\* The run queue of scheduler.c lists every task once and no free slot, and
\* exactly the current task has the processor, whatever kills, ticks and exits
\* interleave: scheduler_pick_next never hands the processor to a freed stack.
QueueSound ==
    /\ \A i, k \in DOMAIN runq : runq[i] = runq[k] => i = k
    /\ {runq[i] : i \in DOMAIN runq} = {t \in Tasks : task[t].state # "unused"}
    /\ \A t \in Tasks : task[t].state = "running" => t = cur
    /\ task[cur].state \in {"running", "zombie"}

\* The tables of tasks and processes are well formed and the queue agrees with
\* them.
TablesSound == TypeOK /\ QueueSound

\* process.h: whoever is on a children list is in use and names the owner of the
\* list, in use too, as its parent, at every preemption of a teardown: process_wait
\* and the sweep never follow a list into a slot that was given back.
ListsSound ==
    \A p, q \in Procs :
        q \in proc[p].kids =>
            /\ proc[p].state # "unused" /\ proc[q].state # "unused"
            /\ proc[q].parent = p

\* No task that may still run has lost its address space: process_destroy,
\* process_kill and the orphan sweep never free page tables that a later context
\* switch loads.
SpacesLive ==
    \A t \in Tasks :
        task[t].state \in {"ready", "running", "sleeping"} =>
            task[t].space \in spaces \union {0}

\* Every address space belongs to a process: none is leaked when processes exit,
\* are killed, replaced or swept.
SpacesOwned == spaces \subseteq {proc[p].space : p \in Procs}

\* Page tables live exactly as long as somebody needs them: never freed under a
\* task that may run, never leaked by an exit, a kill, an exec or a sweep.
SpacesSound == SpacesLive /\ SpacesOwned

\* sys_wait: as long as a task waits, the slot still holds the process it named.
WaitNamed ==
    \A t \in Tasks :
        wait[t] # NoWait =>
            /\ proc[wait[t].slot].state # "unused"
            /\ proc[wait[t].slot].pid = wait[t].pid

\* process.c, lines 421-423: destroying a process stops its own main thread, which
\* may be dead already: the thread pointer never leads to another task.
OwnThread ==
    \A p \in Procs :
        proc[p].state # "unused" /\ proc[p].thread # 0 =>
            \/ task[proc[p].thread].state = "unused"
            \/ task[proc[p].thread].pid = proc[p].own

\* A system call acts for the process whose main thread issued it.
CallerKnown ==
    InUser => Current # 0 /\ proc[Current].own = task[cur].pid

\* process.h: the children lists and the parent pointers agree, and no process
\* hangs on a slot that was given back.
TreeConsistent ==
    \A p, q \in Procs :
        /\ q \in proc[p].kids <=> (proc[q].parent = p /\ proc[q].state # "unused")
        /\ q \in proc[p].kids => proc[p].state # "unused"

\* The reuse of a dead thread's task slot is the only way to a wrong tree or a
\* system call for somebody else's process: as long as every main_thread is the
\* process's own, process_current finds the caller, and the lists and the parent
\* pointers agree, wherever the tick preempts a teardown.
OwnThreadsSuffice == []OwnThread => [](TreeConsistent /\ CallerKnown)

\* task.c, lines 224-233: whoever spins or halts with interrupts masked, in
\* process_wait or after process_exit, leaves the processor to a task that is
\* ready: no sleeper waits for a tick that cannot come.
NeverStuck ==
    \/ Interruptible
    \/ cur = Main
    \/ wait[cur] # NoWait /\ proc[wait[cur].slot].state = "zombie"
    \/ \E t \in Tasks \ {cur} : task[t].state = "ready"

\* A zombie nobody will wait for gives its slot back, unless the machine stops.
OrphansReaped == \A p \in Procs : Orphan(p) ~> (~Orphan(p) \/ ~NeverStuck)

\* A wait for a process that has exited ends, or the waiting task is killed.
WaitEnds ==
    \A t \in Tasks :
        (wait[t] # NoWait /\ proc[wait[t].slot].state = "zombie") ~>
            (wait[t] = NoWait \/ ~NeverStuck)

\* A process that has exited is reaped, by its waiting parent or by the sweep,
\* unless somebody halts with interrupts masked while all others sleep.
ReapingEnds == OrphansReaped /\ WaitEnds

=============================================================================

---------------------------- MODULE CapyAIAsync ----------------------------
(***************************************************************************)
(* The asynchronous CapyAI service (services/capyai/capyai_async.c): one   *)
(* request slot, served by a worker pool of its own, created on first use. *)
(*                                                                         *)
(* Clients submit, poll and detach by job number; a worker runs the        *)
(* request it finds in the slot.  The slot is claimed under g_async.lock   *)
(* before the item is queued, so the two can part: the queue may refuse,   *)
(* the client may detach, another client may ask in between.               *)
(*                                                                         *)
(* The other callers are kernel tasks that use the pool themselves.  The   *)
(* service asks for one worker; nothing here depends on their number.      *)
(* Calls that return an error without changing anything are left out.      *)
(***************************************************************************)
EXTENDS WorkerPool

CONSTANTS
    Clients,      \* the callers that use the service
    MaxJobs,      \* bound on the requests accepted
    Nobody, NoAnswer

ASSUME ServiceAssumption ==
    /\ Clients \subseteq Callers /\ MaxJobs \in Nat
    /\ Nobody \notin Callers
    /\ \A n \in 1..MaxJobs : n \notin Callers

VARIABLES
    service,      \* "none", "creating", "ready": initializing and initialized
    slot,         \* g_async.state, current_job_id, detached, request, response
    next,         \* next_job_id
    local,        \* job_id inside capyai_async_submit
    mine,         \* the job number a client was given last
    answer,       \* the response a client received last
    snap,         \* request and job_id a worker copied
    asker,        \* history: who asked for each job
    runs,         \* history: how often each job was run
    refused       \* history: jobs capyai_async_submit refused

slotVars == <<service, slot, next, snap>>
clientVars == <<local, mine, answer>>
history == <<asker, runs, refused>>
vars == <<poolVars, pc, owed, slotVars, clientVars, history>>

Users == Callers \ Clients
Jobs == 1..MaxJobs

Free == [state |-> "idle", job |-> 0, owner |-> Nobody, detached |-> 0,
         response |-> NoAnswer]
NoSnap == [job |-> 0, owner |-> Nobody]

Init ==
    /\ PoolInit
    /\ service = "none"
    /\ slot = Free
    /\ next = 1
    /\ local = [c \in Clients |-> 0]
    /\ mine = [c \in Clients |-> 0]
    /\ answer = [c \in Clients |-> NoAnswer]
    /\ snap = [t \in Threads |-> NoSnap]
    /\ asker = [j \in Jobs |-> Nobody]
    /\ runs = [j \in Jobs |-> 0]
    /\ refused = {}

-----------------------------------------------------------------------------
(* capyai_async_init, called by the first submit *)

InitBegin(c) ==
    /\ pc[c] = "idle" /\ service = "none"
    /\ CreateBegin(c)
    /\ service' = "creating"
    /\ UNCHANGED <<slot, next, snap, clientVars, history>>

InitThread(c, t) ==
    /\ CreateThread(c, t)
    /\ UNCHANGED <<slotVars, clientVars, history>>

InitFails(c) ==
    /\ CreateFails(c)
    /\ service' = "none"
    /\ UNCHANGED <<slot, next, snap, clientVars, history>>

InitEnd(c) ==
    /\ CreateEnd(c, "submit")
    /\ service' = "ready"
    /\ UNCHANGED <<slot, next, snap, clientVars, history>>

-----------------------------------------------------------------------------
(* capyai_async_submit *)

Submit(c) ==
    /\ pc[c] = "submit" \/ (pc[c] = "idle" /\ service = "ready")
    /\ slot.state = "idle"
    /\ next <= MaxJobs
    /\ slot' = [slot EXCEPT !.state = "queued", !.job = next, !.owner = c,
                            !.detached = 0]
    /\ next' = next + 1
    /\ local' = [local EXCEPT ![c] = next]
    /\ asker' = [asker EXCEPT ![next] = c]
    /\ Goto(c, "push")
    /\ UNCHANGED <<poolVars, owed, service, snap, mine, answer, runs, refused>>

\* Another client was faster than the one that created the pool.
SubmitBusy(c) ==
    /\ pc[c] = "submit"
    /\ slot.state # "idle" \/ next > MaxJobs
    /\ Goto(c, "idle")
    /\ UNCHANGED <<poolVars, owed, slotVars, clientVars, history>>

Push(c) ==
    /\ pc[c] = "push"
    /\ \/ /\ Enqueue(c, local[c])
          /\ mine' = [mine EXCEPT ![c] = local[c]]
       \/ /\ ~Accepts
          /\ Goto(c, "revert")
          /\ UNCHANGED <<poolVars, owed, mine>>
    /\ UNCHANGED <<slotVars, local, answer, history>>

\* The queue refused the item: the slot is given back if it still is this job's.
Revert(c) ==
    /\ pc[c] = "revert"
    /\ slot' = IF slot.job = local[c] /\ slot.state = "queued"
               THEN [slot EXCEPT !.state = "idle", !.job = 0, !.owner = Nobody]
               ELSE slot
    /\ refused' = refused \union {local[c]}
    /\ Goto(c, "idle")
    /\ UNCHANGED <<poolVars, owed, service, next, snap, clientVars, asker, runs>>

SubmitWakes(c) ==
    /\ Wake(c)
    /\ UNCHANGED <<slotVars, clientVars, history>>

-----------------------------------------------------------------------------
(* capyai_async_poll and capyai_async_detach *)

Finished == slot.state \in {"done", "failed"}
Asks(c) == pc[c] = "idle" /\ mine[c] # 0 /\ slot.job = mine[c]

\* Mutant of Poll: any finished response will do.
PollAny(c) ==
    /\ pc[c] = "idle" /\ mine[c] # 0
    /\ Finished
    /\ answer' = [answer EXCEPT ![c] = slot.response]
    /\ slot' = Free
    /\ UNCHANGED <<poolVars, pc, owed, service, next, snap, local, mine, history>>

Poll(c) ==
    /\ Asks(c)
    /\ Finished
    /\ answer' = [answer EXCEPT ![c] = slot.response]
    /\ slot' = Free
    /\ UNCHANGED <<poolVars, pc, owed, service, next, snap, local, mine, history>>

\* Mutant of Detach: the slot is free at once, whatever its item does.
DetachFrees(c) ==
    /\ Asks(c)
    /\ slot' = Free
    /\ UNCHANGED <<poolVars, pc, owed, service, next, snap, clientVars, history>>

\* A job that has not finished is run, and its response discarded.
Detach(c) ==
    /\ Asks(c)
    /\ slot' = IF Finished THEN Free ELSE [slot EXCEPT !.detached = 1]
    /\ UNCHANGED <<poolVars, pc, owed, service, next, snap, clientVars, history>>

-----------------------------------------------------------------------------
(* capyai_async_worker *)

Claim(t) ==
    /\ at[t] = "run" /\ item[t] \in Jobs
    /\ IF slot.state = "queued"
       THEN /\ snap' = [snap EXCEPT ![t] = [job |-> slot.job, owner |-> slot.owner]]
            /\ runs' = [runs EXCEPT ![slot.job] = @ + 1]
            /\ slot' = [slot EXCEPT !.state = "running"]
            /\ Move(t, "exec")
            /\ UNCHANGED owed
       ELSE Returned(t) /\ UNCHANGED <<slot, snap, runs>>
    /\ UNCHANGED <<pool, running, queue, active, item, pc, service, next, clientVars,
                   asker, refused>>

\* Mutant of Publish: a detached job's response is kept for its client.
PublishKeeps(t, status) ==
    /\ at[t] = "exec"
    /\ slot' =
         IF slot.job # snap[t].job THEN slot
         ELSE [slot EXCEPT !.state = status,
                           !.response = [job |-> snap[t].job, owner |-> snap[t].owner]]
    /\ snap' = [snap EXCEPT ![t] = NoSnap]
    /\ Returned(t)
    /\ UNCHANGED <<pool, running, queue, active, item, pc, service, next, clientVars, history>>

Publish(t, status) ==
    /\ at[t] = "exec"
    /\ slot' =
         IF slot.job # snap[t].job THEN slot
         ELSE IF slot.detached = 1 THEN Free
         ELSE [slot EXCEPT !.state = status,
                           !.response = [job |-> snap[t].job, owner |-> snap[t].owner]]
    /\ snap' = [snap EXCEPT ![t] = NoSnap]
    /\ Returned(t)
    /\ UNCHANGED <<pool, running, queue, active, item, pc, service, next, clientVars, history>>

-----------------------------------------------------------------------------
(* Workers and the pool's other callers *)

RunUser(t) ==
    /\ at[t] = "run" /\ item[t] \in Users
    /\ Returned(t)
    /\ UNCHANGED <<pool, running, queue, active, item, pc>>

Worker(t) ==
    /\ Exit(t) \/ Block(t) \/ Resume(t) \/ Take(t) \/ Leave(t) \/ RunUser(t)
    /\ UNCHANGED <<slotVars, clientVars, history>>

\* A user has one item in the pool at a time.
UserSubmit(u) ==
    /\ pc[u] = "idle"
    /\ u \notin Queued \union {item[t] : t \in Threads}
    /\ Enqueue(u, u)

User(u) ==
    /\ UserSubmit(u) \/ Wake(u) \/ DrainCall(u) \/ DrainReturn(u) \/ Shutdown(u)
    /\ UNCHANGED <<slotVars, clientVars, history>>

-----------------------------------------------------------------------------
InCall(c) ==
    \/ \E t \in Threads : InitThread(c, t)
    \/ InitEnd(c) \/ SubmitBusy(c) \/ Push(c) \/ Revert(c) \/ SubmitWakes(c)

Runs(t) ==
    \/ Worker(t) \/ Claim(t)
    \/ \E status \in {"done", "failed"} : Publish(t, status)

Next ==
    \/ \E c \in Clients : \/ InitBegin(c) \/ InitFails(c) \/ Submit(c) \/ InCall(c)
                          \/ Poll(c) \/ Detach(c)
    \/ \E t \in Threads : Runs(t)
    \/ \E u \in Users : User(u)

Spec == Init /\ [][Next]_vars

\* A ready task is scheduled again (round robin), and calls and requests end.
FairSpec ==
    /\ Spec
    /\ \A t \in Threads : WF_vars(Runs(t))
    /\ \A c \in Clients : WF_vars(InCall(c)) /\ WF_vars(Submit(c) /\ pc[c] = "submit")
    /\ \A u \in Users : WF_vars(Wake(u) /\ UNCHANGED <<slotVars, clientVars, history>>)

-----------------------------------------------------------------------------
(* Properties *)

Answers == [job : Jobs, owner : Clients]

TypeOK ==
    /\ pool \in {"none", "creating", "open"} /\ service \in {"none", "creating", "ready"}
    /\ queue \in Seq(Jobs \union Users) /\ Len(queue) <= QueueMax
    /\ at \in [Threads -> {"none", "look", "blocked", "woken", "run", "exec", "leave", "gone"}]
    /\ item \in [Threads -> Jobs \union Users \union {NoItem}]
    /\ pc \in [Callers -> {"idle", "create", "submit", "push", "revert", "wake", "drain"}]
    /\ slot \in [state : {"idle", "queued", "running", "done", "failed"},
                 job : Jobs \union {0}, owner : Clients \union {Nobody},
                 detached : {0, 1}, response : Answers \union {NoAnswer}]
    /\ next \in 1..(MaxJobs + 1)
    /\ local \in [Clients -> Jobs \union {0}] /\ mine \in [Clients -> Jobs \union {0}]
    /\ answer \in [Clients -> Answers \union {NoAnswer}]
    /\ snap \in [Threads -> [job : Jobs \union {0}, owner : Clients \union {Nobody}]]
    /\ asker \in [Jobs -> Clients \union {Nobody}] /\ runs \in [Jobs -> Nat]
    /\ refused \subseteq Jobs

\* A client only ever receives the response to a request of its own, though
\* slot and worker serve one client after the other.
AnswersOwn ==
    \A c \in Clients : answer[c] # NoAnswer =>
        answer[c].owner = c /\ asker[answer[c].job] = c

\* A request runs at most once, and not at all when capyai_async_submit
\* refused it: no item left in the queue runs a request it was not queued for.
RunsOnce ==
    /\ \A j \in Jobs : runs[j] <= 1
    /\ \A j \in refused : runs[j] = 0

\* An accepted request is taken from the queue and finished while the pool
\* runs: no wake-up is lost between a worker that blocks and a submit.
JobEnds ==
    /\ slot.state = "queued" ~> (slot.state # "queued" \/ ~running)
    /\ slot.state = "running" ~> slot.state # "running"

\* A client that goes away does not keep the slot: it is free for others again.
DetachedFrees == slot.detached = 1 ~> (slot.state = "idle" \/ ~running)

\* A request comes to its end whether or not its client stays.
RequestsEnd == JobEnds /\ DetachedFrees
=============================================================================

------------------------- MODULE CapyAIAsyncProofs -------------------------
(* For any number of workers, clients and pool users, any queue length and   *)
(* any number of requests: each client receives answers to its own requests  *)
(* only, and no request runs twice or after it was refused.                  *)
(*                                                                           *)
(* The argument: an item that is queued or taken for a request means that    *)
(* the slot still is queued for that very request and its submit is past the *)
(* queue; there is one such item; and there is one worker executing when the *)
(* slot says running.                                                        *)
EXTENDS CapyAIAsync, FiniteSetTheorems, TLAPS

\* c claimed the slot and has not queued its item, or could not.
Claiming(c) == pc[c] \in {"push", "revert"}

\* t has taken the item of a request and not looked at the slot yet.
Taken(t) == at[t] = "run" /\ item[t] \in Jobs

SlotInv ==
    /\ slot.state = "idle" <=> slot.job = 0
    /\ slot.job # 0 => /\ slot.job < next /\ slot.owner \in Clients
                       /\ asker[slot.job] = slot.owner
    /\ Finished => slot.response = [job |-> slot.job, owner |-> slot.owner]

ClaimInv ==
    \A c \in Clients : Claiming(c) =>
        slot.state = "queued" /\ slot.job = local[c] /\ slot.owner = c

QueueInv ==
    \A k \in DOMAIN queue : queue[k] \in Jobs =>
        /\ slot.state = "queued" /\ slot.job = queue[k]
        /\ \A c \in Clients : ~Claiming(c)
        /\ \A t \in Threads : ~Taken(t)
        /\ \A l \in DOMAIN queue : queue[l] \in Jobs => l = k

TakenInv ==
    \A t \in Threads : Taken(t) =>
        /\ slot.state = "queued" /\ slot.job = item[t]
        /\ \A c \in Clients : ~Claiming(c)
        /\ \A u \in Threads : Taken(u) => u = t

ExecInv ==
    \A t \in Threads : at[t] = "exec" =>
        /\ slot.state = "running"
        /\ snap[t].job = slot.job /\ snap[t].owner = slot.owner
        /\ \A u \in Threads : at[u] = "exec" => u = t

RunInv ==
    /\ \A j \in Jobs : j >= next => runs[j] = 0
    /\ slot.state = "queued" => runs[slot.job] = 0
    /\ \A j \in refused : j < next /\ slot.job # j

ClientInv ==
    \A c \in Clients :
        /\ mine[c] # 0 => mine[c] < next /\ asker[mine[c]] = c
        /\ answer[c] # NoAnswer => answer[c].job < next

IInv == /\ TypeOK /\ SlotInv /\ ClaimInv /\ QueueInv /\ TakenInv /\ ExecInv
        /\ RunInv /\ ClientInv /\ RunsOnce /\ AnswersOwn

-----------------------------------------------------------------------------
(* Steps that touch neither the slot nor the clients *)

LEMMA InitIInv == Init => IInv
<1> SUFFICES ASSUME Init PROVE IInv
  OBVIOUS
<1> USE DEF Init, PoolInit, Free, NoSnap
<1>1. TypeOK
  BY PoolAssumption, ServiceAssumption DEF TypeOK, Jobs, Users, Answers
<1>2. SlotInv /\ ClaimInv /\ QueueInv /\ TakenInv /\ ExecInv
  BY ServiceAssumption DEF SlotInv, Finished, ClaimInv, Claiming, QueueInv, TakenInv, Taken, ExecInv
<1>3. RunInv /\ ClientInv /\ RunsOnce /\ AnswersOwn
  BY DEF RunInv, ClientInv, RunsOnce, AnswersOwn, Jobs
<1> QED  BY <1>1, <1>2, <1>3 DEF IInv

\* A step that queues no request's item, takes none and starts no claim.
LEMMA QuietStep ==
    ASSUME IInv, TypeOK',
           UNCHANGED <<slot, next, snap, clientVars, history>>,
           \A c \in Clients : Claiming(c)' => Claiming(c),
           \A k \in DOMAIN queue' : queue'[k] \in Jobs =>
               k \in DOMAIN queue /\ queue'[k] = queue[k],
           \A t \in Threads : Taken(t)' => Taken(t) /\ item'[t] = item[t],
           \A t \in Threads : at'[t] = "exec" => at[t] = "exec"
    PROVE  IInv'
<1>0. /\ UNCHANGED <<slot, next, snap, local, mine, answer, asker, runs, refused>>
  BY DEF clientVars, history
<1>1. SlotInv' /\ RunInv' /\ ClientInv' /\ RunsOnce' /\ AnswersOwn'
  BY <1>0 DEF IInv, SlotInv, Finished, RunInv, ClientInv, RunsOnce, AnswersOwn
<1>2. ClaimInv'
  BY <1>0 DEF IInv, ClaimInv
<1>3. QueueInv'
  BY <1>0 DEF IInv, QueueInv
<1>4. TakenInv'
  BY <1>0 DEF IInv, TakenInv
<1>5. ExecInv'
  BY <1>0 DEF IInv, ExecInv
<1> QED  BY <1>1, <1>2, <1>3, <1>4, <1>5 DEF IInv

LEMMA EmptyQueue == <<>> \in Seq(Jobs \union Users) /\ Len(<<>>) <= QueueMax
BY PoolAssumption

LEMMA InitSteps ==
    ASSUME IInv, NEW c \in Clients,
           InitBegin(c) \/ (\E t \in Threads : InitThread(c, t)) \/ InitFails(c) \/ InitEnd(c)
    PROVE  IInv'
<1>1. c \in Callers
  BY ServiceAssumption
<1> USE <1>1 DEF IInv, InitBegin, InitThread, InitFails, InitEnd, CreateBegin, CreateThread,
        CreateFails, CreateEnd, Goto, Move, slotVars, clientVars, history
<1>2. TypeOK'
  <2>1. /\ pool' \in {"none", "creating", "open"} /\ service' \in {"none", "creating", "ready"}
        /\ pc' \in [Callers -> {"idle", "create", "submit", "push", "revert", "wake", "drain"}]
    BY DEF TypeOK
  <2>2. at' \in [Threads -> {"none", "look", "blocked", "woken", "run", "exec", "leave", "gone"}]
    <3>1. \/ at' = at
          \/ \E t \in Threads : at' = [at EXCEPT ![t] = "look"]
          \/ at' = [t \in Threads |-> "none"]
      OBVIOUS
    <3> QED  BY <3>1 DEF TypeOK
  <2>3. queue' \in Seq(Jobs \union Users) /\ Len(queue') <= QueueMax
    <3>1. queue' = queue \/ queue' = <<>>
      OBVIOUS
    <3> QED  BY <3>1, EmptyQueue DEF TypeOK
  <2> QED  BY <2>1, <2>2, <2>3 DEF TypeOK
<1>3. \A d \in Clients : Claiming(d)' => Claiming(d)
  BY ServiceAssumption DEF TypeOK, Claiming
<1>4. queue' = queue \/ queue' = <<>>
  OBVIOUS
<1>5. \A t \in Threads : /\ Taken(t)' => Taken(t) /\ item'[t] = item[t]
                         /\ at'[t] = "exec" => at[t] = "exec"
  BY DEF TypeOK, Taken
<1>6. UNCHANGED <<slot, next, snap, clientVars, history>>
  OBVIOUS
<1> QED  BY <1>2, <1>3, <1>4, <1>5, <1>6, QuietStep

\* What the worker's steps other than Take leave alone.
LEMMA WorkerQuiet ==
    ASSUME IInv, NEW t \in Threads,
           Exit(t) \/ Block(t) \/ Resume(t) \/ Leave(t) \/ RunUser(t),
           UNCHANGED <<slotVars, clientVars, history>>
    PROVE  IInv'
<1> USE DEF IInv, Exit, Block, Resume, Leave, RunUser, Returned, Move,
        slotVars, clientVars, history
<1>2. TypeOK'
  <2>1. /\ at' \in [Threads -> {"none", "look", "blocked", "woken", "run", "exec", "leave", "gone"}]
        /\ item' \in [Threads -> Jobs \union Users \union {NoItem}]
    BY DEF TypeOK
  <2> QED  BY <2>1 DEF TypeOK
<1>3. pc' = pc /\ queue' = queue
  OBVIOUS
<1>5. \A u \in Threads : /\ Taken(u)' => Taken(u) /\ item'[u] = item[u]
                         /\ at'[u] = "exec" => at[u] = "exec"
  BY DEF TypeOK, Taken
<1>6. UNCHANGED <<slot, next, snap, clientVars, history>>
  OBVIOUS
<1> QED  BY <1>2, <1>3, <1>5, <1>6, QuietStep DEF Claiming

LEMMA WakeStep ==
    ASSUME IInv, NEW c \in Callers, Wake(c), UNCHANGED <<slotVars, clientVars, history>>
    PROVE  IInv'
<1> USE DEF IInv, Wake, Goto, slotVars, clientVars, history
<1>2. TypeOK'
  BY DEF TypeOK
<1>3. \A d \in Clients : Claiming(d)' => Claiming(d)
  BY ServiceAssumption DEF TypeOK, Claiming
<1>5. \A u \in Threads : /\ Taken(u)' => Taken(u) /\ item'[u] = item[u]
                         /\ at'[u] = "exec" => at[u] = "exec"
  BY DEF TypeOK, Taken
<1>6. UNCHANGED <<slot, next, snap, clientVars, history>>
  OBVIOUS
<1> QED  BY <1>2, <1>3, <1>5, <1>6, QuietStep

LEMMA UserStep ==
    ASSUME IInv, NEW u \in Users, User(u)
    PROVE  IInv'
<1>0. /\ u \in Callers /\ u \notin Jobs /\ u \notin Clients
      /\ UNCHANGED <<slotVars, clientVars, history>>
  BY ServiceAssumption DEF Users, Jobs, User
<1>1. CASE UserSubmit(u)
  <2> USE <1>1 DEF UserSubmit, Enqueue, Accepts, Goto, slotVars
  <2>1. /\ queue' = Append(queue, u) /\ queue \in Seq(Jobs \union Users)
        /\ Len(queue) < QueueMax /\ at' = at /\ item' = item
    BY DEF IInv, TypeOK
  <2>2. queue' \in Seq(Jobs \union Users) /\ Len(queue') <= QueueMax
    BY <2>1, PoolAssumption
  <2>3. TypeOK'
    BY <1>0, <2>2 DEF IInv, TypeOK, clientVars, history
  <2>4. \A d \in Clients : Claiming(d)' => Claiming(d)
    BY <1>0, ServiceAssumption DEF IInv, TypeOK, Claiming
  <2>5. \A k \in DOMAIN queue' : queue'[k] \in Jobs => k \in DOMAIN queue /\ queue'[k] = queue[k]
    BY <1>0, <2>1
  <2>6. \A t \in Threads : Taken(t)' => Taken(t) /\ item'[t] = item[t]
    BY <2>1 DEF Taken
  <2> QED  BY <1>0, <2>1, <2>3, <2>4, <2>5, <2>6, QuietStep
<1>2. CASE Wake(u)
  BY <1>0, <1>2, WakeStep
<1>3. CASE DrainCall(u) \/ DrainReturn(u) \/ Shutdown(u)
  <2> USE <1>3 DEF DrainCall, DrainReturn, Shutdown, Goto, slotVars, poolVars
  <2>1. TypeOK'
    BY <1>0, ZenonT(60) DEF IInv, TypeOK, clientVars, history
  <2>2. \A d \in Clients : Claiming(d)' => Claiming(d)
    BY <1>0, ServiceAssumption DEF IInv, TypeOK, Claiming
  <2>3. queue' = queue /\ at' = at /\ item' = item
    OBVIOUS
  <2>4. \A t \in Threads : Taken(t)' => Taken(t) /\ item'[t] = item[t]
    BY <2>3 DEF Taken
  <2> QED  BY <1>0, <2>1, <2>2, <2>3, <2>4, QuietStep
<1> QED  BY <1>1, <1>2, <1>3 DEF User

-----------------------------------------------------------------------------
(* The life of a request *)

\* The item leaves the queue for the worker's hand; the slot waits for it.
LEMMA TakeStep ==
    ASSUME IInv, NEW t \in Threads, Take(t), UNCHANGED <<slotVars, clientVars, history>>
    PROVE  IInv'
<1>0. /\ TypeOK /\ SlotInv /\ ClaimInv /\ QueueInv /\ TakenInv /\ ExecInv
      /\ queue # <<>> /\ queue' = Tail(queue) /\ pc' = pc /\ at[t] = "look"
      /\ at' = [at EXCEPT ![t] = "run"] /\ item' = [item EXCEPT ![t] = Head(queue)]
      /\ pool' = pool
      /\ UNCHANGED <<service, slot, next, snap, local, mine, answer, asker, runs, refused>>
  BY DEF IInv, Take, Move, slotVars, clientVars, history
<1>1. /\ queue \in Seq(Jobs \union Users) /\ Len(queue) <= QueueMax
      /\ at \in [Threads -> {"none", "look", "blocked", "woken", "run", "exec", "leave", "gone"}]
      /\ item \in [Threads -> Jobs \union Users \union {NoItem}]
  BY <1>0 DEF TypeOK
<1>2. /\ queue' \in Seq(Jobs \union Users) /\ Len(queue') <= QueueMax
      /\ Head(queue) = queue[1] /\ 1 \in DOMAIN queue /\ queue[1] \in Jobs \union Users
      /\ \A k \in DOMAIN queue' : k + 1 \in DOMAIN queue /\ queue'[k] = queue[k + 1] /\ k \in Nat /\ k > 0
  BY <1>0, <1>1, PoolAssumption
<1>3. /\ at'[t] = "run" /\ item'[t] = queue[1]
      /\ \A u \in Threads \ {t} : at'[u] = at[u] /\ item'[u] = item[u]
      /\ at' \in [Threads -> {"none", "look", "blocked", "woken", "run", "exec", "leave", "gone"}]
      /\ item' \in [Threads -> Jobs \union Users \union {NoItem}]
  BY <1>0, <1>1, <1>2
<1>4. TypeOK'
  BY <1>0, <1>2, <1>3 DEF TypeOK
<1>5. SlotInv' /\ RunInv' /\ ClientInv' /\ RunsOnce' /\ AnswersOwn' /\ ClaimInv'
  BY <1>0 DEF IInv, SlotInv, Finished, RunInv, ClientInv, RunsOnce, AnswersOwn, ClaimInv, Claiming
<1>6. \A u \in Threads \ {t} : Taken(u)' <=> Taken(u)
  BY <1>3 DEF Taken
<1>7. Taken(t)' <=> queue[1] \in Jobs
  BY <1>3 DEF Taken
<1>8. \A c \in Clients : Claiming(c)' <=> Claiming(c)
  BY <1>0 DEF Claiming
<1>9. TakenInv'
  <2> SUFFICES ASSUME NEW u \in Threads, Taken(u)'
               PROVE  /\ slot.state = "queued" /\ slot.job = item'[u]
                      /\ \A c \in Clients : ~Claiming(c)
                      /\ \A v \in Threads : Taken(v)' => v = u
    BY <1>0, <1>8 DEF TakenInv
  <2>1. CASE queue[1] \in Jobs
    <3>1. /\ slot.state = "queued" /\ slot.job = queue[1]
          /\ \A c \in Clients : ~Claiming(c)
          /\ \A v \in Threads : ~Taken(v)
      BY <2>1, <1>0, <1>2 DEF QueueInv
    <3> QED  BY <3>1, <1>3, <1>6
  <2>2. CASE queue[1] \notin Jobs
    BY <2>2, <1>0, <1>3, <1>6, <1>7 DEF TakenInv
  <2> QED  BY <2>1, <2>2
<1>10. QueueInv'
  <2> SUFFICES ASSUME NEW k \in DOMAIN queue', queue'[k] \in Jobs
               PROVE  /\ slot.state = "queued" /\ slot.job = queue'[k]
                      /\ \A c \in Clients : ~Claiming(c)
                      /\ \A v \in Threads : ~Taken(v)'
                      /\ \A l \in DOMAIN queue' : queue'[l] \in Jobs => l = k
    BY <1>0, <1>8 DEF QueueInv
  <2>1. /\ slot.state = "queued" /\ slot.job = queue[k + 1]
        /\ \A c \in Clients : ~Claiming(c)
        /\ \A v \in Threads : ~Taken(v)
        /\ \A l \in DOMAIN queue : queue[l] \in Jobs => l = k + 1
    BY <1>0, <1>2 DEF QueueInv
  <2>2. queue[1] \notin Jobs
    BY <1>2, <2>1
  <2>3. \A l \in DOMAIN queue' : queue'[l] \in Jobs => l = k
    BY <1>2, <2>1
  <2> QED  BY <1>2, <1>6, <1>7, <2>1, <2>2, <2>3
<1>11. ExecInv'
  BY <1>0, <1>3 DEF ExecInv
<1> QED  BY <1>4, <1>5, <1>9, <1>10, <1>11 DEF IInv

\* An idle slot has no item and no worker: the new request is the only one.
LEMMA SubmitStep ==
    ASSUME IInv, NEW c \in Clients, Submit(c)
    PROVE  IInv'
<1>0. /\ TypeOK /\ SlotInv /\ ClaimInv /\ QueueInv /\ TakenInv /\ ExecInv /\ RunInv /\ ClientInv
      /\ RunsOnce /\ AnswersOwn
      /\ slot.state = "idle" /\ next <= MaxJobs
      /\ slot' = [slot EXCEPT !.state = "queued", !.job = next, !.owner = c, !.detached = 0]
      /\ next' = next + 1 /\ local' = [local EXCEPT ![c] = next]
      /\ asker' = [asker EXCEPT ![next] = c] /\ pc' = [pc EXCEPT ![c] = "push"]
      /\ UNCHANGED <<pool, running, queue, at, item, service, snap, mine, answer, runs, refused>>
      /\ c \in Callers
  BY ServiceAssumption DEF IInv, Submit, Goto, poolVars
<1>1. next \in Jobs /\ next' \in 1..(MaxJobs + 1) /\ MaxJobs \in Nat
  BY <1>0, ServiceAssumption DEF TypeOK, Jobs
<1>2. TypeOK'
  <2>1. slot' \in [state : {"idle", "queued", "running", "done", "failed"},
                   job : Jobs \union {0}, owner : Clients \union {Nobody},
                   detached : {0, 1}, response : Answers \union {NoAnswer}]
    BY <1>0, <1>1 DEF TypeOK
  <2>2. /\ local' \in [Clients -> Jobs \union {0}] /\ asker' \in [Jobs -> Clients \union {Nobody}]
        /\ pc' \in [Callers -> {"idle", "create", "submit", "push", "revert", "wake", "drain"}]
    BY <1>0, <1>1 DEF TypeOK
  <2> QED  BY <1>0, <1>1, <2>1, <2>2 DEF TypeOK
<1>3. /\ slot'.state = "queued" /\ slot'.job = next /\ slot'.owner = c
      /\ asker'[next] = c /\ local'[c] = next /\ next # 0
      /\ \A j \in Jobs : j < next => asker'[j] = asker[j]
  BY <1>0, <1>1 DEF TypeOK, Jobs
<1>4. SlotInv'
  BY <1>0, <1>1, <1>3 DEF SlotInv, Finished, Jobs
<1>5. /\ \A d \in Clients : ~Claiming(d)
      /\ \A k \in DOMAIN queue : queue[k] \notin Jobs
      /\ \A t \in Threads : ~Taken(t) /\ at[t] # "exec"
  BY <1>0 DEF ClaimInv, QueueInv, TakenInv, ExecInv
<1>6. \A d \in Clients : Claiming(d)' => d = c
  BY <1>0, <1>5 DEF Claiming, TypeOK
<1>7. ClaimInv' /\ QueueInv' /\ TakenInv' /\ ExecInv'
  BY <1>0, <1>3, <1>5, <1>6 DEF ClaimInv, QueueInv, TakenInv, ExecInv, Taken
<1>8. RunInv' /\ RunsOnce'
  BY <1>0, <1>1, <1>3 DEF RunInv, RunsOnce, Jobs, TypeOK
<1>9. ClientInv' /\ AnswersOwn'
  <2>1. \A d \in Clients : mine[d] # 0 => mine[d] \in Jobs /\ mine[d] < next /\ asker[mine[d]] = d
    BY <1>0 DEF ClientInv, TypeOK
  <2>2. \A d \in Clients : answer[d] # NoAnswer => answer[d].job \in Jobs /\ answer[d].job < next
    BY <1>0 DEF ClientInv, TypeOK, Answers
  <2>3. \A j \in Jobs : j < next => j < next'
    BY <1>0, <1>1 DEF Jobs
  <2>4. ClientInv'
    BY <1>0, <1>3, <2>1, <2>2, <2>3 DEF ClientInv
  <2>5. AnswersOwn'
    BY <1>0, <1>3, <2>2 DEF AnswersOwn
  <2> QED  BY <2>4, <2>5
<1> QED  BY <1>2, <1>4, <1>7, <1>8, <1>9 DEF IInv

\* The claim becomes an item, the only one of a request.
LEMMA PushStep ==
    ASSUME IInv, NEW c \in Clients, Push(c)
    PROVE  IInv'
<1>0. /\ TypeOK /\ SlotInv /\ ClaimInv /\ QueueInv /\ TakenInv /\ ExecInv /\ RunInv /\ ClientInv
      /\ RunsOnce /\ AnswersOwn
      /\ pc[c] = "push" /\ c \in Callers
      /\ UNCHANGED <<service, slot, next, snap, local, answer, asker, runs, refused>>
  BY ServiceAssumption DEF IInv, Push, slotVars, history
<1>1. /\ slot.state = "queued" /\ slot.job = local[c] /\ slot.owner = c
      /\ \A d \in Clients : Claiming(d) => d = c
  BY <1>0 DEF ClaimInv, Claiming
<1>2. /\ local[c] \in Jobs /\ local[c] # 0 /\ local[c] < next /\ asker[local[c]] = c
  BY <1>0, <1>1 DEF SlotInv, TypeOK
<1>3. /\ \A k \in DOMAIN queue : queue[k] \notin Jobs
      /\ \A t \in Threads : ~Taken(t)
  BY <1>0 DEF QueueInv, TakenInv, Claiming
<1>4. CASE ~Accepts /\ Goto(c, "revert") /\ UNCHANGED <<poolVars, owed, mine>>
  <2>1. TypeOK'
    BY <1>0, <1>4 DEF TypeOK, Goto, poolVars
  <2>2. \A d \in Clients : Claiming(d)' => Claiming(d)
    BY <1>0, <1>4 DEF TypeOK, Goto, Claiming
  <2> QED  BY <1>0, <1>4, <2>1, <2>2, QuietStep DEF poolVars, clientVars, history, Taken
<1>5. CASE Enqueue(c, local[c]) /\ mine' = [mine EXCEPT ![c] = local[c]]
  <2>0. /\ queue' = Append(queue, local[c]) /\ Len(queue) < QueueMax
        /\ pc' = [pc EXCEPT ![c] = "wake"] /\ pool' = pool /\ at' = at /\ item' = item
    BY <1>5 DEF Enqueue, Accepts, Goto
  <2>1. /\ queue' \in Seq(Jobs \union Users) /\ Len(queue') <= QueueMax
        /\ DOMAIN queue' = 1..(Len(queue) + 1) /\ DOMAIN queue = 1..Len(queue)
        /\ Len(queue) \in Nat
        /\ queue'[Len(queue) + 1] = local[c]
        /\ \A k \in DOMAIN queue : queue'[k] = queue[k]
    BY <1>0, <1>2, <2>0, PoolAssumption DEF TypeOK
  <2>2. /\ pc' \in [Callers -> {"idle", "create", "submit", "push", "revert", "wake", "drain"}]
        /\ mine' \in [Clients -> Jobs \union {0}]
    BY <1>0, <1>2, <1>5, <2>0 DEF TypeOK
  <2>3. TypeOK'
    BY <1>0, <2>0, <2>1, <2>2 DEF TypeOK
  <2>4. \A d \in Clients : ~Claiming(d)'
    BY <1>0, <1>1, <2>0 DEF Claiming, TypeOK
  <2>5. \A t \in Threads : ~Taken(t)'
    BY <1>3, <2>0 DEF Taken
  <2>6. \A k \in DOMAIN queue' : queue'[k] \in Jobs => k = Len(queue) + 1
    BY <1>3, <2>1
  <2>7. QueueInv' /\ TakenInv' /\ ClaimInv'
    BY <1>0, <1>1, <2>1, <2>4, <2>5, <2>6 DEF QueueInv, TakenInv, ClaimInv
  <2>8. SlotInv' /\ ExecInv' /\ RunInv' /\ RunsOnce' /\ AnswersOwn'
    BY <1>0, <2>0 DEF SlotInv, Finished, ExecInv, RunInv, RunsOnce, AnswersOwn
  <2>9. ClientInv'
    BY <1>0, <1>2, <1>5 DEF ClientInv, TypeOK
  <2> QED  BY <2>3, <2>7, <2>8, <2>9 DEF IInv
<1> QED  BY <1>4, <1>5 DEF Push

\* The slot ends: no item, no claim and no worker was left for it.
LEMMA FreedStep ==
    ASSUME IInv, TypeOK',
           \A d \in Clients : ~Claiming(d)',
           \A k \in DOMAIN queue' : queue'[k] \notin Jobs,
           \A t \in Threads : ~Taken(t)' /\ at'[t] # "exec",
           slot'.state = "idle", slot'.job = 0, next' = next,
           RunInv', ClientInv', RunsOnce', AnswersOwn'
    PROVE  IInv'
<1>1. SlotInv'
  BY DEF SlotInv, Finished
<1>2. ClaimInv' /\ QueueInv' /\ TakenInv' /\ ExecInv'
  BY DEF ClaimInv, QueueInv, TakenInv, ExecInv
<1> QED  BY <1>1, <1>2 DEF IInv

LEMMA RevertStep ==
    ASSUME IInv, NEW c \in Clients, Revert(c)
    PROVE  IInv'
<1>0. /\ TypeOK /\ SlotInv /\ ClaimInv /\ QueueInv /\ TakenInv /\ ExecInv /\ RunInv /\ ClientInv
      /\ RunsOnce /\ AnswersOwn
      /\ pc[c] = "revert" /\ c \in Callers /\ Claiming(c)
      /\ refused' = refused \union {local[c]} /\ pc' = [pc EXCEPT ![c] = "idle"]
      /\ UNCHANGED <<pool, queue, at, item, service, next, snap, local, mine, answer, asker, runs>>
  BY ServiceAssumption DEF IInv, Revert, Claiming, Goto, poolVars, clientVars
<1>1. /\ slot.state = "queued" /\ slot.job = local[c] /\ slot.owner = c
      /\ \A d \in Clients : Claiming(d) => d = c
  BY <1>0 DEF ClaimInv
<1>2. /\ local[c] \in Jobs /\ local[c] # 0 /\ local[c] < next /\ runs[local[c]] = 0
  BY <1>0, <1>1 DEF SlotInv, TypeOK, RunInv
<1>3. slot' = [slot EXCEPT !.state = "idle", !.job = 0, !.owner = Nobody]
  BY <1>1 DEF Revert
<1>4. slot' \in [state : {"idle", "queued", "running", "done", "failed"},
                 job : Jobs \union {0}, owner : Clients \union {Nobody},
                 detached : {0, 1}, response : Answers \union {NoAnswer}]
      /\ slot'.state = "idle" /\ slot'.job = 0
  BY <1>0, <1>3 DEF TypeOK
<1>5. TypeOK'
  BY <1>0, <1>2, <1>4 DEF TypeOK
<1>6. /\ \A k \in DOMAIN queue : queue[k] \notin Jobs
      /\ \A t \in Threads : ~Taken(t)' /\ at'[t] # "exec"
  BY <1>0, <1>1 DEF QueueInv, TakenInv, ExecInv, Taken
<1>7. \A d \in Clients : ~Claiming(d)'
  BY <1>0, <1>1 DEF Claiming, TypeOK
<1>8. RunInv' /\ RunsOnce'
  BY <1>0, <1>2, <1>4 DEF RunInv, RunsOnce, TypeOK, Jobs
<1>9. ClientInv' /\ AnswersOwn'
  BY <1>0 DEF ClientInv, AnswersOwn
<1> QED  BY <1>0, <1>4, <1>5, <1>6, <1>7, <1>8, <1>9, FreedStep

\* A finished response is in the slot, with the number and owner of its job.
LEMMA PollStep ==
    ASSUME IInv, NEW c \in Clients, Poll(c) \/ (Detach(c) /\ Finished)
    PROVE  IInv'
<1>0. /\ TypeOK /\ SlotInv /\ ClaimInv /\ QueueInv /\ TakenInv /\ ExecInv /\ RunInv /\ ClientInv
      /\ RunsOnce /\ AnswersOwn
      /\ mine[c] # 0 /\ slot.job = mine[c] /\ slot' = Free
      /\ slot.state # "queued" /\ slot.state # "running" /\ slot.state # "idle"
      /\ \/ answer' = [answer EXCEPT ![c] = slot.response]
         \/ answer' = answer
      /\ UNCHANGED <<pool, queue, at, item, pc, service, next, snap, local, mine, asker, runs, refused>>
  BY DEF IInv, Poll, Detach, Asks, Finished, poolVars, clientVars, history
<1>1. /\ slot.response = [job |-> slot.job, owner |-> slot.owner]
      /\ slot.job \in Jobs /\ slot.job < next
      /\ asker[slot.job] = slot.owner /\ slot.owner = c
  BY <1>0 DEF SlotInv, Finished, ClientInv, TypeOK, Poll, Detach
<1>2. /\ slot' \in [state : {"idle", "queued", "running", "done", "failed"},
                    job : Jobs \union {0}, owner : Clients \union {Nobody},
                    detached : {0, 1}, response : Answers \union {NoAnswer}]
      /\ slot'.state = "idle" /\ slot'.job = 0
  BY <1>0 DEF Free
<1>3. /\ slot.response \in Answers /\ answer' \in [Clients -> Answers \union {NoAnswer}]
  BY <1>0, <1>1 DEF TypeOK, Answers
<1>4. TypeOK'
  BY <1>0, <1>2, <1>3 DEF TypeOK
<1>5. /\ \A k \in DOMAIN queue : queue[k] \notin Jobs
      /\ \A t \in Threads : ~Taken(t)' /\ at'[t] # "exec"
      /\ \A d \in Clients : ~Claiming(d)'
  BY <1>0 DEF QueueInv, TakenInv, ExecInv, ClaimInv, Taken, Claiming
<1>6. RunInv' /\ RunsOnce'
  BY <1>0, <1>2 DEF RunInv, RunsOnce, TypeOK, Jobs
<1>7. \A d \in Clients : answer'[d] # NoAnswer =>
        answer'[d].job < next /\ answer'[d].owner = d /\ asker[answer'[d].job] = d
  <2> SUFFICES ASSUME NEW d \in Clients, answer'[d] # NoAnswer
               PROVE  answer'[d].job < next /\ answer'[d].owner = d /\ asker[answer'[d].job] = d
    OBVIOUS
  <2>1. answer'[d] = answer[d] \/ (d = c /\ answer'[d] = slot.response)
    BY <1>0 DEF TypeOK
  <2> QED  BY <2>1, <1>0, <1>1 DEF ClientInv, AnswersOwn
<1>8. ClientInv' /\ AnswersOwn'
  BY <1>0, <1>7 DEF ClientInv, AnswersOwn
<1> QED  BY <1>0, <1>2, <1>4, <1>5, <1>6, <1>8, FreedStep

LEMMA DetachStep ==
    ASSUME IInv, NEW c \in Clients, Detach(c), ~Finished
    PROVE  IInv'
<1>0. /\ TypeOK /\ SlotInv /\ ClaimInv /\ QueueInv /\ TakenInv /\ ExecInv /\ RunInv /\ ClientInv
      /\ RunsOnce /\ AnswersOwn
      /\ slot' = [slot EXCEPT !.detached = 1]
      /\ UNCHANGED <<pool, queue, at, item, pc, service, next, snap, local, mine, answer,
                     asker, runs, refused>>
  BY DEF IInv, Detach, poolVars, clientVars, history
<1>1. /\ slot' \in [state : {"idle", "queued", "running", "done", "failed"},
                    job : Jobs \union {0}, owner : Clients \union {Nobody},
                    detached : {0, 1}, response : Answers \union {NoAnswer}]
      /\ slot'.state = slot.state /\ slot'.job = slot.job /\ slot'.owner = slot.owner
      /\ slot'.response = slot.response
  BY <1>0 DEF TypeOK
<1>2. TypeOK'
  BY <1>0, <1>1 DEF TypeOK
<1>3. SlotInv' /\ ClaimInv' /\ QueueInv' /\ TakenInv' /\ ExecInv'
  BY <1>0, <1>1 DEF SlotInv, Finished, ClaimInv, Claiming, QueueInv, TakenInv, Taken, ExecInv
<1>4. RunInv' /\ ClientInv' /\ RunsOnce' /\ AnswersOwn'
  BY <1>0, <1>1 DEF RunInv, ClientInv, RunsOnce, AnswersOwn
<1> QED  BY <1>2, <1>3, <1>4 DEF IInv

\* The worker that took the item finds the request the item was queued for.
LEMMA ClaimStep ==
    ASSUME IInv, NEW t \in Threads, Claim(t)
    PROVE  IInv'
<1>0. /\ TypeOK /\ SlotInv /\ ClaimInv /\ QueueInv /\ TakenInv /\ ExecInv /\ RunInv /\ ClientInv
      /\ RunsOnce /\ AnswersOwn /\ Taken(t)
      /\ UNCHANGED <<pool, queue, item, pc, service, next, local, mine, answer, asker, refused>>
  BY DEF IInv, Claim, Taken, clientVars
<1>1. /\ slot.state = "queued" /\ slot.job = item[t] /\ slot.job \in Jobs /\ slot.job # 0
      /\ \A c \in Clients : ~Claiming(c)
      /\ \A u \in Threads : Taken(u) => u = t
  BY <1>0 DEF TakenInv, Taken, Jobs
<1>2. /\ snap' = [snap EXCEPT ![t] = [job |-> slot.job, owner |-> slot.owner]]
      /\ runs' = [runs EXCEPT ![slot.job] = @ + 1]
      /\ slot' = [slot EXCEPT !.state = "running"]
      /\ at' = [at EXCEPT ![t] = "exec"]
  BY <1>1 DEF Claim, Move
<1>3. /\ slot' \in [state : {"idle", "queued", "running", "done", "failed"},
                    job : Jobs \union {0}, owner : Clients \union {Nobody},
                    detached : {0, 1}, response : Answers \union {NoAnswer}]
      /\ slot'.state = "running" /\ slot'.job = slot.job /\ slot'.owner = slot.owner
  BY <1>0, <1>2 DEF TypeOK
<1>4. /\ snap' \in [Threads -> [job : Jobs \union {0}, owner : Clients \union {Nobody}]]
      /\ snap'[t].job = slot.job /\ snap'[t].owner = slot.owner
      /\ \A u \in Threads \ {t} : snap'[u] = snap[u]
  <2>1. slot.job \in Jobs \union {0} /\ slot.owner \in Clients \union {Nobody}
    BY <1>0 DEF TypeOK
  <2> QED  BY <1>0, <1>2, <2>1 DEF TypeOK
<1>5. /\ at' \in [Threads -> {"none", "look", "blocked", "woken", "run", "exec", "leave", "gone"}]
      /\ at'[t] = "exec" /\ \A u \in Threads \ {t} : at'[u] = at[u]
  BY <1>0, <1>2 DEF TypeOK
<1>6. /\ runs' \in [Jobs -> Nat] /\ runs'[slot.job] = 1
      /\ \A j \in Jobs : j # slot.job => runs'[j] = runs[j]
  BY <1>0, <1>1, <1>2 DEF TypeOK, RunInv
<1>7. TypeOK'
  BY <1>0, <1>3, <1>4, <1>5, <1>6 DEF TypeOK
<1>8. SlotInv'
  BY <1>0, <1>1, <1>3 DEF SlotInv, Finished
<1>9. /\ \A u \in Threads : ~Taken(u)'
      /\ \A k \in DOMAIN queue : queue[k] \notin Jobs
      /\ \A c \in Clients : ~Claiming(c)'
      /\ \A u \in Threads : at'[u] = "exec" => u = t
  BY <1>0, <1>1, <1>5 DEF Taken, QueueInv, Claiming, ExecInv
<1>10. ClaimInv' /\ QueueInv' /\ TakenInv' /\ ExecInv'
  BY <1>0, <1>3, <1>4, <1>9 DEF ClaimInv, QueueInv, TakenInv, ExecInv
<1>11. RunInv' /\ RunsOnce'
  <2>1. slot.job < next /\ slot.job \notin refused
    BY <1>0, <1>1 DEF SlotInv, RunInv
  <2>2. RunInv'
    BY <1>0, <1>1, <1>3, <1>6, <2>1 DEF RunInv, TypeOK, Jobs
  <2>3. /\ \A j \in Jobs : runs'[j] <= 1
        /\ \A j \in refused : j \in Jobs /\ runs'[j] = 0
    <3>1. \A j \in Jobs : j = slot.job \/ runs'[j] = runs[j]
      BY <1>6
    <3>2. \A j \in Jobs : runs[j] <= 1
      BY <1>0 DEF RunsOnce
    <3>3. \A j \in Jobs : runs'[j] <= 1
      BY <1>6, <3>1, <3>2
    <3>4. \A j \in refused : j \in Jobs /\ j # slot.job /\ runs[j] = 0
      BY <1>0, <2>1 DEF RunsOnce, TypeOK
    <3> QED  BY <3>1, <3>3, <3>4
  <2> QED  BY <1>0, <2>2, <2>3 DEF RunsOnce
<1>12. ClientInv' /\ AnswersOwn'
  BY <1>0 DEF ClientInv, AnswersOwn
<1> QED  BY <1>7, <1>8, <1>10, <1>11, <1>12 DEF IInv

\* The worker that executed finds its own job in the slot.
LEMMA PublishStep ==
    ASSUME IInv, NEW t \in Threads, NEW status \in {"done", "failed"}, Publish(t, status)
    PROVE  IInv'
<1>0. /\ TypeOK /\ SlotInv /\ ClaimInv /\ QueueInv /\ TakenInv /\ ExecInv /\ RunInv /\ ClientInv
      /\ RunsOnce /\ AnswersOwn /\ at[t] = "exec"
      /\ snap' = [snap EXCEPT ![t] = NoSnap] /\ at' = [at EXCEPT ![t] = "leave"]
      /\ UNCHANGED <<pool, queue, item, pc, service, next, local, mine, answer, asker, runs, refused>>
  BY DEF IInv, Publish, Returned, Move, clientVars, history
<1>1. /\ slot.state = "running" /\ snap[t].job = slot.job /\ snap[t].owner = slot.owner
      /\ slot.job \in Jobs /\ slot.job # 0 /\ slot.owner \in Clients
      /\ \A u \in Threads : at[u] = "exec" => u = t
  BY <1>0 DEF ExecInv, SlotInv, TypeOK
<1>2. /\ snap' \in [Threads -> [job : Jobs \union {0}, owner : Clients \union {Nobody}]]
      /\ at' \in [Threads -> {"none", "look", "blocked", "woken", "run", "exec", "leave", "gone"}]
      /\ at'[t] = "leave" /\ \A u \in Threads \ {t} : at'[u] = at[u]
  BY <1>0 DEF TypeOK, NoSnap
<1>3. /\ \A u \in Threads : ~Taken(u)' /\ at'[u] # "exec"
      /\ \A k \in DOMAIN queue' : queue'[k] \notin Jobs
      /\ \A c \in Clients : ~Claiming(c)'
  <2>1. \A u \in Threads : ~Taken(u)
    BY <1>0, <1>1 DEF TakenInv
  <2> QED  BY <1>0, <1>1, <1>2, <2>1 DEF Taken, QueueInv, ClaimInv, Claiming
<1>4. ClientInv' /\ AnswersOwn' /\ RunsOnce'
  BY <1>0 DEF ClientInv, AnswersOwn, RunsOnce
<1>5. CASE slot.detached = 1
  <2>1. slot' = Free
    BY <1>1, <1>5 DEF Publish
  <2>2. /\ slot' \in [state : {"idle", "queued", "running", "done", "failed"},
                      job : Jobs \union {0}, owner : Clients \union {Nobody},
                      detached : {0, 1}, response : Answers \union {NoAnswer}]
        /\ slot'.state = "idle" /\ slot'.job = 0
    BY <2>1 DEF Free
  <2>3. TypeOK'
    BY <1>0, <1>2, <2>2 DEF TypeOK
  <2>4. RunInv'
    BY <1>0, <2>2 DEF RunInv, TypeOK, Jobs
  <2> QED  BY <1>0, <1>3, <1>4, <2>2, <2>3, <2>4, FreedStep
<1>6. CASE slot.detached # 1
  <2>1. slot' = [slot EXCEPT !.state = status,
                             !.response = [job |-> snap[t].job, owner |-> snap[t].owner]]
    BY <1>1, <1>6 DEF Publish
  <2>2. /\ slot' \in [state : {"idle", "queued", "running", "done", "failed"},
                      job : Jobs \union {0}, owner : Clients \union {Nobody},
                      detached : {0, 1}, response : Answers \union {NoAnswer}]
        /\ slot'.state = status /\ slot'.job = slot.job /\ slot'.owner = slot.owner
        /\ slot'.response = [job |-> slot.job, owner |-> slot.owner]
    <3>1. [job |-> snap[t].job, owner |-> snap[t].owner] \in Answers
      BY <1>1 DEF Answers
    <3> QED  BY <1>0, <1>1, <2>1, <3>1 DEF TypeOK
  <2>3. TypeOK'
    BY <1>0, <1>2, <2>2 DEF TypeOK
  <2>4. SlotInv'
    BY <1>0, <1>1, <2>2 DEF SlotInv
  <2>5. ClaimInv' /\ QueueInv' /\ TakenInv' /\ ExecInv'
    BY <1>3 DEF ClaimInv, QueueInv, TakenInv, ExecInv
  <2>6. RunInv'
    BY <1>0, <2>2 DEF RunInv
  <2> QED  BY <1>4, <2>3, <2>4, <2>5, <2>6 DEF IInv
<1> QED  BY <1>5, <1>6

LEMMA BusyStep ==
    ASSUME IInv, NEW c \in Clients, SubmitBusy(c)
    PROVE  IInv'
<1> USE DEF IInv, SubmitBusy, Goto, slotVars, clientVars, history, poolVars
<1>1. TypeOK'
  BY DEF TypeOK
<1>2. \A d \in Clients : Claiming(d)' => Claiming(d)
  BY ServiceAssumption DEF TypeOK, Claiming
<1>3. \A u \in Threads : Taken(u)' => Taken(u) /\ item'[u] = item[u]
  BY DEF Taken
<1>4. UNCHANGED <<slot, next, snap, clientVars, history, queue, at>>
  OBVIOUS
<1> QED  BY <1>1, <1>2, <1>3, <1>4, QuietStep

-----------------------------------------------------------------------------
LEMMA NextStep == IInv /\ [Next]_vars => IInv'
<1> SUFFICES ASSUME IInv, [Next]_vars PROVE IInv'
  OBVIOUS
<1>1. ASSUME NEW c \in Clients,
             InitBegin(c) \/ InitFails(c) \/ Submit(c) \/ InCall(c) \/ Poll(c) \/ Detach(c)
      PROVE  IInv'
  <2>0. c \in Callers
    BY ServiceAssumption
  <2>1. CASE InitBegin(c) \/ InitFails(c)
    BY <2>1, InitSteps
  <2>2. CASE Submit(c)
    BY <2>2, SubmitStep
  <2>3. CASE InCall(c)
    <3>1. CASE (\E t \in Threads : InitThread(c, t)) \/ InitEnd(c)
      BY <3>1, InitSteps
    <3>2. CASE SubmitBusy(c)
      BY <3>2, BusyStep
    <3>3. CASE Push(c)
      BY <3>3, PushStep
    <3>4. CASE Revert(c)
      BY <3>4, RevertStep
    <3>5. CASE SubmitWakes(c)
      BY <2>0, <3>5, WakeStep DEF SubmitWakes
    <3> QED  BY <2>3, <3>1, <3>2, <3>3, <3>4, <3>5 DEF InCall
  <2>4. CASE Poll(c) \/ (Detach(c) /\ Finished)
    BY <2>4, PollStep
  <2>5. CASE Detach(c) /\ ~Finished
    BY <2>5, DetachStep
  <2> QED  BY <1>1, <2>1, <2>2, <2>3, <2>4, <2>5
<1>2. ASSUME NEW t \in Threads, Runs(t) PROVE IInv'
  <2>1. CASE Take(t) /\ UNCHANGED <<slotVars, clientVars, history>>
    BY <2>1, TakeStep
  <2>2. CASE /\ Exit(t) \/ Block(t) \/ Resume(t) \/ Leave(t) \/ RunUser(t)
             /\ UNCHANGED <<slotVars, clientVars, history>>
    BY <2>2, WorkerQuiet
  <2>3. CASE Claim(t)
    BY <2>3, ClaimStep
  <2>4. CASE \E status \in {"done", "failed"} : Publish(t, status)
    BY <2>4, PublishStep
  <2> QED  BY <1>2, <2>1, <2>2, <2>3, <2>4 DEF Runs, Worker
<1>3. ASSUME NEW u \in Users, User(u) PROVE IInv'
  BY <1>3, UserStep
<1>4. CASE UNCHANGED vars
  <2>1. TypeOK'
    BY <1>4 DEF IInv, TypeOK, vars, poolVars, slotVars, clientVars, history
  <2>2. UNCHANGED <<slot, next, snap, clientVars, history, queue, at, item, pc>>
    BY <1>4 DEF vars, poolVars, slotVars
  <2> QED  BY <2>1, <2>2, QuietStep DEF Claiming, Taken
<1> QED  BY <1>1, <1>2, <1>3, <1>4 DEF Next

LEMMA ServiceInductive == Spec => []IInv
BY InitIInv, NextStep, PTL DEF Spec

-----------------------------------------------------------------------------
(* Draining: active_threads counts the workers between taking an item and     *)
(* leaving it, so a pool with an empty queue and no active thread owes        *)
(* nothing to a caller that waits.                                            *)

Busy == {t \in Threads : at[t] \in {"run", "exec", "leave"}}

DrainInv ==
    /\ owed \in [Callers -> SUBSET (Jobs \union Users \union {NoItem})]
    /\ active = Cardinality(Busy)
    /\ pool # "open" => queue = <<>> /\ Busy = {}
    /\ \A c \in Callers : pc[c] = "create" =>
           pool = "creating" /\ \A d \in Callers : pc[d] = "create" => d = c
    /\ \A c \in Callers : pc[c] = "drain" => owed[c] \subseteq Queued \union Held

LEMMA FiniteBusy == IsFiniteSet(Busy)
BY PoolAssumption, FS_Subset DEF Busy

LEMMA FiniteBusyNext == IsFiniteSet(Busy')
BY PoolAssumption, FS_Subset DEF Busy

LEMMA InitDrain == Init => DrainInv
<1> SUFFICES ASSUME Init PROVE DrainInv
  OBVIOUS
<1> USE DEF Init, PoolInit
<1>1. Busy = {}
  BY DEF Busy
<1>2. active = Cardinality(Busy)
  BY <1>1, FS_EmptySet
<1> QED  BY <1>1, <1>2 DEF DrainInv

\* A step that takes, finishes and drops no item, and starts no creation or drain.
LEMMA QuietDrain ==
    ASSUME DrainInv, UNCHANGED <<pool, active, owed>>, Busy' = Busy, Held' = Held,
           Queued \subseteq Queued', pool # "open" => queue' = queue,
           \A c \in Callers : /\ pc'[c] = "create" => pc[c] = "create"
                              /\ pc'[c] = "drain" => pc[c] = "drain"
    PROVE  DrainInv'
<1>1. \A c \in Callers : pc'[c] = "drain" => owed'[c] \subseteq Queued' \union Held'
  BY DEF DrainInv
<1>2. \A c \in Callers : pc'[c] = "create" =>
          pool' = "creating" /\ \A d \in Callers : pc'[d] = "create" => d = c
  BY DEF DrainInv
<1>3. /\ active' = Cardinality(Busy') /\ (pool' # "open" => queue' = <<>> /\ Busy' = {})
      /\ owed' \in [Callers -> SUBSET (Jobs \union Users \union {NoItem})]
  BY DEF DrainInv
<1> QED  BY <1>1, <1>2, <1>3 DEF DrainInv

\* A step of the callers that leaves the workers where they are.
LEMMA CallerDrain ==
    ASSUME DrainInv, UNCHANGED <<pool, active, owed, at, item>>,
           queue' = queue \/ (pool = "open" /\ \E i : queue' = Append(queue, i)),
           queue \in Seq(Jobs \union Users),
           \A c \in Callers : /\ pc'[c] = "create" => pc[c] = "create"
                              /\ pc'[c] = "drain" => pc[c] = "drain"
    PROVE  DrainInv'
<1>1. Busy' = Busy /\ Held' = Held
  BY DEF Busy, Held
<1>2. Queued \subseteq Queued'
  <2>1. CASE queue' = queue
    BY <2>1 DEF Queued
  <2>2. CASE \E i : queue' = Append(queue, i)
    <3>1. \A k \in DOMAIN queue : k \in DOMAIN queue' /\ queue'[k] = queue[k]
      BY <2>2
    <3> QED  BY <3>1 DEF Queued
  <2> QED  BY <2>1, <2>2
<1> QED  BY <1>1, <1>2, QuietDrain

\* One creation at a time, of a pool without items and busy workers.
LEMMA CreateDrain ==
    ASSUME IInv, DrainInv, NEW c \in Clients,
           InitBegin(c) \/ (\E t \in Threads : InitThread(c, t)) \/ InitFails(c) \/ InitEnd(c)
    PROVE  DrainInv'
<1>0. c \in Callers /\ pc \in [Callers -> {"idle", "create", "submit", "push", "revert", "wake", "drain"}]
      /\ at \in [Threads -> {"none", "look", "blocked", "woken", "run", "exec", "leave", "gone"}]
  BY ServiceAssumption DEF IInv, TypeOK
<1>1. CASE InitBegin(c)
  <2>1. /\ pool = "none" /\ pool' = "creating" /\ queue' = <<>> /\ active' = 0
        /\ pc' = [pc EXCEPT ![c] = "create"] /\ UNCHANGED <<at, item, owed>>
        /\ pc[c] = "idle"
    BY <1>1 DEF InitBegin, CreateBegin, Goto
  <2>2. queue = <<>> /\ Busy = {} /\ \A d \in Callers : pc[d] # "create"
    BY <2>1 DEF DrainInv
  <2>3. Busy' = Busy /\ Held' = Held /\ Queued' = Queued
    BY <2>1, <2>2 DEF Busy, Held, Queued
  <2>4. active' = Cardinality(Busy')
    BY <2>1, <2>2, <2>3, FS_EmptySet
  <2>5. \A d \in Callers : /\ pc'[d] = "create" => d = c
                           /\ pc'[d] = "drain" => pc[d] = "drain"
    BY <1>0, <2>1, <2>2
  <2> QED  BY <2>1, <2>2, <2>3, <2>4, <2>5 DEF DrainInv
<1>2. ASSUME NEW t \in Threads, InitThread(c, t) PROVE DrainInv'
  <2>1. /\ at[t] = "none" /\ at' = [at EXCEPT ![t] = "look"]
        /\ UNCHANGED <<pool, active, owed, item, queue, pc>>
    BY <1>2 DEF InitThread, CreateThread, Move
  <2>2. Busy' = Busy /\ Held' = Held /\ Queued' = Queued
    BY <1>0, <2>1 DEF Busy, Held, Queued
  <2> QED  BY <2>1, <2>2, QuietDrain
<1>3. CASE InitFails(c)
  <2>1. /\ pc[c] = "create" /\ pool' = "none" /\ at' = [t \in Threads |-> "none"]
        /\ pc' = [pc EXCEPT ![c] = "idle"] /\ UNCHANGED <<queue, active, item, owed>>
    BY <1>3 DEF InitFails, CreateFails, Goto
  <2>2. /\ pool = "creating" /\ queue = <<>> /\ Busy = {}
        /\ \A d \in Callers : pc[d] = "create" => d = c
    BY <1>0, <2>1 DEF DrainInv
  <2>3. Busy' = {} /\ Queued' = Queued
    BY <2>1 DEF Busy, Queued
  <2>4. Held = {}
    BY <2>2 DEF Held, Busy
  <2>5. \A d \in Callers : /\ pc'[d] # "create"
                           /\ pc'[d] = "drain" => pc[d] = "drain"
    BY <1>0, <2>1, <2>2
  <2>6. active' = Cardinality(Busy')
    BY <2>1, <2>2, <2>3 DEF DrainInv
  <2> QED  BY <2>1, <2>2, <2>3, <2>4, <2>5, <2>6 DEF DrainInv
<1>4. CASE InitEnd(c)
  <2>1. /\ pc[c] = "create" /\ pool' = "open" /\ pc' = [pc EXCEPT ![c] = "submit"]
        /\ UNCHANGED <<queue, active, at, item, owed>>
    BY <1>4 DEF InitEnd, CreateEnd, Goto
  <2>2. \A d \in Callers : pc[d] = "create" => d = c
    BY <1>0, <2>1 DEF DrainInv
  <2>3. Busy' = Busy /\ Held' = Held /\ Queued' = Queued
    BY <2>1 DEF Busy, Held, Queued
  <2>4. \A d \in Callers : /\ pc'[d] # "create"
                           /\ pc'[d] = "drain" => pc[d] = "drain"
    BY <1>0, <2>1, <2>2
  <2> QED  BY <2>1, <2>3, <2>4 DEF DrainInv
<1> QED  BY <1>1, <1>2, <1>3, <1>4

\* The item moves from the queue to the worker, which counts itself active.
LEMMA TakeDrain ==
    ASSUME IInv, DrainInv, NEW t \in Threads, Take(t)
    PROVE  DrainInv'
<1>0. /\ queue \in Seq(Jobs \union Users) /\ item \in [Threads -> Jobs \union Users \union {NoItem}]
      /\ at \in [Threads -> {"none", "look", "blocked", "woken", "run", "exec", "leave", "gone"}]
  BY DEF IInv, TypeOK
<1>1. /\ at[t] = "look" /\ queue # <<>> /\ at' = [at EXCEPT ![t] = "run"]
      /\ item' = [item EXCEPT ![t] = Head(queue)] /\ queue' = Tail(queue)
      /\ active' = active + 1 /\ UNCHANGED <<pool, pc, owed>>
  BY DEF Take, Move
<1>2. t \notin Busy /\ Busy' = Busy \union {t}
  BY <1>0, <1>1 DEF Busy
<1>3. active' = Cardinality(Busy')
  <2>1. Cardinality(Busy \union {t}) = Cardinality(Busy) + 1
    BY <1>2, FiniteBusy, FS_AddElement
  <2> QED  BY <1>1, <1>2, <2>1 DEF DrainInv
<1>4. Queued \union Held \subseteq Queued' \union Held'
  <2>1. item'[t] = queue[1] /\ at'[t] = "run"
        /\ \A u \in Threads \ {t} : at'[u] = at[u] /\ item'[u] = item[u]
    BY <1>0, <1>1
  <2>2. Held \subseteq Held' /\ queue[1] \in Held'
    BY <1>1, <2>1 DEF Held
  <2>3. \A k \in DOMAIN queue : k = 1 \/ (k - 1 \in DOMAIN queue' /\ queue'[k - 1] = queue[k])
    BY <1>0, <1>1
  <2>4. Queued \subseteq Queued' \union {queue[1]}
    BY <2>3 DEF Queued
  <2> QED  BY <2>2, <2>4
<1>5. pool = "open"
  BY <1>1 DEF DrainInv
<1> QED  BY <1>1, <1>3, <1>4, <1>5 DEF DrainInv

\* The function of the item returned: the item is owed to nobody any more.
LEMMA ReturnedDrain ==
    ASSUME IInv, DrainInv, NEW t \in Threads, at[t] \in {"run", "exec"}, Returned(t),
           UNCHANGED <<pool, queue, active, item, pc>>
    PROVE  DrainInv'
<1>0. /\ at \in [Threads -> {"none", "look", "blocked", "woken", "run", "exec", "leave", "gone"}]
      /\ at' = [at EXCEPT ![t] = "leave"] /\ owed' = [c \in Callers |-> owed[c] \ {item[t]}]
  BY DEF IInv, TypeOK, Returned, Move
<1>1. Busy' = Busy
  BY <1>0 DEF Busy
<1>2. Held \subseteq Held' \union {item[t]} /\ Queued' = Queued
  BY <1>0 DEF Held, Queued
<1>3. \A c \in Callers : pc'[c] = "drain" => owed'[c] \subseteq Queued' \union Held'
  BY <1>0, <1>2 DEF DrainInv
<1>4. owed' \in [Callers -> SUBSET (Jobs \union Users \union {NoItem})]
  BY <1>0 DEF DrainInv
<1> QED  BY <1>1, <1>3, <1>4 DEF DrainInv

LEMMA LeaveDrain ==
    ASSUME IInv, DrainInv, NEW t \in Threads, Leave(t)
    PROVE  DrainInv'
<1>0. /\ at \in [Threads -> {"none", "look", "blocked", "woken", "run", "exec", "leave", "gone"}]
      /\ item \in [Threads -> Jobs \union Users \union {NoItem}]
      /\ at[t] = "leave" /\ at' = [at EXCEPT ![t] = "look"]
      /\ item' = [item EXCEPT ![t] = NoItem] /\ UNCHANGED <<pool, queue, pc, owed>>
      /\ active' = IF active > 0 THEN active - 1 ELSE 0
  BY DEF IInv, TypeOK, Leave, Move
<1>1. t \in Busy /\ Busy' = Busy \ {t}
  BY <1>0 DEF Busy
<1>2. active' = Cardinality(Busy')
  <2>1. Cardinality(Busy \ {t}) = Cardinality(Busy) - 1
    BY <1>1, FiniteBusy, FS_RemoveElement
  <2>2. Cardinality(Busy) \in Nat /\ Cardinality(Busy') \in Nat
    BY FiniteBusy, FiniteBusyNext, FS_CardinalityType
  <2> QED  BY <1>0, <1>1, <2>1, <2>2 DEF DrainInv
<1>3. Held' = Held /\ Queued' = Queued
  BY <1>0 DEF Held, Queued
<1>4. pool # "open" => Busy' = {}
  BY <1>1 DEF DrainInv
<1> QED  BY <1>0, <1>2, <1>3, <1>4 DEF DrainInv

\* Steps of a worker around an item, and the wake-up, leave the items alone.
LEMMA IdleDrain ==
    ASSUME IInv, DrainInv,
           (\E t \in Threads : Exit(t) \/ Block(t) \/ Resume(t)) \/ (\E c \in Callers : Wake(c))
    PROVE  DrainInv'
<1>0. /\ at \in [Threads -> {"none", "look", "blocked", "woken", "run", "exec", "leave", "gone"}]
      /\ pc \in [Callers -> {"idle", "create", "submit", "push", "revert", "wake", "drain"}]
      /\ UNCHANGED <<pool, active, owed, item, queue>>
  BY DEF IInv, TypeOK, Exit, Block, Resume, Wake
<1>1. \A u \in Threads : at'[u] = at[u]
                         \/ (at[u] \in {"look", "woken", "blocked"} /\ at'[u] \in {"gone", "blocked", "look", "woken"})
  BY <1>0 DEF Exit, Block, Resume, Wake, Move
<1>2. Busy' = Busy /\ Held' = Held /\ Queued' = Queued
  BY <1>0, <1>1 DEF Busy, Held, Queued
<1>3. \A c \in Callers : /\ pc'[c] = "create" => pc[c] = "create"
                         /\ pc'[c] = "drain" => pc[c] = "drain"
  BY <1>0 DEF Exit, Block, Resume, Wake, Goto
<1> QED  BY <1>0, <1>2, <1>3, QuietDrain

LEMMA ClaimDrain ==
    ASSUME IInv, DrainInv, NEW t \in Threads, Claim(t)
    PROVE  DrainInv'
<1>1. CASE slot.state = "queued"
  <2>1. /\ at \in [Threads -> {"none", "look", "blocked", "woken", "run", "exec", "leave", "gone"}]
        /\ at[t] = "run" /\ at' = [at EXCEPT ![t] = "exec"]
        /\ UNCHANGED <<pool, active, owed, item, queue, pc>>
    BY <1>1 DEF IInv, TypeOK, Claim, Move
  <2>2. Busy' = Busy /\ Held' = Held /\ Queued' = Queued
    BY <2>1 DEF Busy, Held, Queued
  <2> QED  BY <2>1, <2>2, QuietDrain
<1>2. CASE slot.state # "queued"
  BY <1>2, ReturnedDrain DEF Claim
<1> QED  BY <1>1, <1>2

LEMMA UserDrain ==
    ASSUME IInv, DrainInv, NEW u \in Users, User(u)
    PROVE  DrainInv'
<1>0. /\ u \in Callers /\ queue \in Seq(Jobs \union Users)
      /\ pc \in [Callers -> {"idle", "create", "submit", "push", "revert", "wake", "drain"}]
      /\ item \in [Threads -> Jobs \union Users \union {NoItem}]
  BY DEF IInv, TypeOK, Users
<1>1. CASE UserSubmit(u) \/ DrainReturn(u) \/ Shutdown(u)
  <2>1. /\ UNCHANGED <<pool, active, owed, at, item>>
        /\ queue' = queue \/ (pool = "open" /\ \E i : queue' = Append(queue, i))
        /\ pc' = [pc EXCEPT ![u] = "wake"] \/ pc' = [pc EXCEPT ![u] = "idle"]
    BY <1>1 DEF UserSubmit, Enqueue, Accepts, DrainReturn, Shutdown, Goto, poolVars
  <2>2. \A c \in Callers : /\ pc'[c] = "create" => pc[c] = "create"
                           /\ pc'[c] = "drain" => pc[c] = "drain"
    BY <1>0, <2>1
  <2> QED  BY <1>0, <2>1, <2>2, CallerDrain
<1>2. CASE Wake(u)
  BY <1>0, <1>2, IdleDrain
<1>3. CASE DrainCall(u)
  <2>1. /\ pool = "open" /\ owed' = [owed EXCEPT ![u] = Queued \union Held]
        /\ pc' = [pc EXCEPT ![u] = "drain"]
        /\ UNCHANGED <<pool, running, queue, active, at, item>>
    BY <1>3 DEF DrainCall, Goto, poolVars
  <2>2. Busy' = Busy /\ Held' = Held /\ Queued' = Queued
    BY <2>1 DEF Busy, Held, Queued
  <2>3. Queued \union Held \subseteq Jobs \union Users \union {NoItem}
    BY <1>0 DEF Queued, Held
  <2>4. owed' \in [Callers -> SUBSET (Jobs \union Users \union {NoItem})]
    BY <1>0, <2>1, <2>3 DEF DrainInv
  <2>5. \A c \in Callers : pc'[c] = "drain" => owed'[c] \subseteq Queued' \union Held'
    BY <1>0, <2>1, <2>2 DEF DrainInv
  <2>6. \A c \in Callers : pc[c] # "create" /\ pc'[c] # "create"
    BY <1>0, <2>1 DEF DrainInv
  <2> QED  BY <2>1, <2>2, <2>4, <2>5, <2>6 DEF DrainInv
<1> QED  BY <1>1, <1>2, <1>3 DEF User

LEMMA NextDrain == IInv /\ DrainInv /\ [Next]_vars => DrainInv'
<1> SUFFICES ASSUME IInv, DrainInv, [Next]_vars PROVE DrainInv'
  OBVIOUS
<1>0. /\ queue \in Seq(Jobs \union Users)
      /\ pc \in [Callers -> {"idle", "create", "submit", "push", "revert", "wake", "drain"}]
  BY DEF IInv, TypeOK
<1>1. ASSUME NEW c \in Clients,
             InitBegin(c) \/ InitFails(c) \/ Submit(c) \/ InCall(c) \/ Poll(c) \/ Detach(c)
      PROVE  DrainInv'
  <2>0. c \in Callers
    BY ServiceAssumption
  <2>1. CASE InitBegin(c) \/ InitFails(c) \/ (\E t \in Threads : InitThread(c, t)) \/ InitEnd(c)
    BY <2>1, CreateDrain
  <2>2. CASE Submit(c) \/ SubmitBusy(c) \/ Push(c) \/ Revert(c) \/ Poll(c) \/ Detach(c)
    <3>1. /\ UNCHANGED <<pool, active, owed, at, item>>
          /\ queue' = queue \/ (pool = "open" /\ \E i : queue' = Append(queue, i))
          /\ pc' = pc \/ \E to \in {"push", "idle", "revert", "wake"} : pc' = [pc EXCEPT ![c] = to]
      BY <2>2 DEF Submit, SubmitBusy, Push, Revert, Poll, Detach, Enqueue, Accepts, Goto, poolVars
    <3>2. \A d \in Callers : /\ pc'[d] = "create" => pc[d] = "create"
                             /\ pc'[d] = "drain" => pc[d] = "drain"
      BY <1>0, <2>0, <3>1
    <3> QED  BY <1>0, <3>1, <3>2, CallerDrain
  <2>3. CASE SubmitWakes(c)
    BY <2>0, <2>3, IdleDrain DEF SubmitWakes
  <2> QED  BY <1>1, <2>1, <2>2, <2>3 DEF InCall
<1>2. ASSUME NEW t \in Threads, Runs(t) PROVE DrainInv'
  <2>1. CASE Take(t)
    BY <2>1, TakeDrain
  <2>2. CASE Leave(t)
    BY <2>2, LeaveDrain
  <2>3. CASE RunUser(t)
    BY <2>3, ReturnedDrain DEF RunUser
  <2>4. CASE Exit(t) \/ Block(t) \/ Resume(t)
    BY <2>4, IdleDrain
  <2>5. CASE Claim(t)
    BY <2>5, ClaimDrain
  <2>6. CASE \E status \in {"done", "failed"} : Publish(t, status)
    BY <2>6, ReturnedDrain DEF Publish
  <2> QED  BY <1>2, <2>1, <2>2, <2>3, <2>4, <2>5, <2>6 DEF Runs, Worker
<1>3. ASSUME NEW u \in Users, User(u) PROVE DrainInv'
  BY <1>3, UserDrain
<1>4. CASE UNCHANGED vars
  <2>1. UNCHANGED <<pool, active, owed, at, item, queue, pc>>
    BY <1>4 DEF vars, poolVars
  <2> QED  BY <1>0, <2>1, CallerDrain
<1> QED  BY <1>1, <1>2, <1>3, <1>4 DEF Next

\* Only worker_pool_drain's own return ends it, and it finds nothing owed.
LEMMA DrainStep ==
    IInv /\ DrainInv /\ [Next]_vars =>
        \A c \in Callers : pc[c] = "drain" /\ pc'[c] # "drain" => owed[c] = {}
<1> SUFFICES ASSUME IInv, DrainInv, [Next]_vars, NEW c \in Callers,
                    pc[c] = "drain", pc'[c] # "drain"
             PROVE  owed[c] = {}
  OBVIOUS
<1>0. pc \in [Callers -> {"idle", "create", "submit", "push", "revert", "wake", "drain"}]
  BY DEF IInv, TypeOK
<1>1. ASSUME NEW d \in Clients,
             InitBegin(d) \/ InitFails(d) \/ Submit(d) \/ InCall(d) \/ Poll(d) \/ Detach(d)
      PROVE  FALSE
  <2>1. d \in Callers
    BY ServiceAssumption
  <2>2. pc' = pc \/ (pc[d] # "drain" /\ \E to : pc' = [pc EXCEPT ![d] = to])
    BY <1>1 DEF InitBegin, InitFails, InitThread, InitEnd, Submit, InCall, Poll, Detach, SubmitBusy,
       Push, Revert, SubmitWakes, CreateBegin, CreateFails, CreateThread, CreateEnd, Enqueue, Wake, Goto
  <2> QED  BY <1>0, <2>1, <2>2
<1>2. ASSUME NEW t \in Threads, Runs(t) PROVE FALSE
  BY <1>2 DEF Runs, Worker, Take, Leave, RunUser, Exit, Block, Resume, Claim, Publish
<1>3. ASSUME NEW u \in Users, User(u) PROVE owed[c] = {}
  <2>0. u \in Callers
    BY DEF Users
  <2>1. CASE UserSubmit(u) \/ Wake(u) \/ DrainCall(u) \/ Shutdown(u)
    <3>1. pc[u] # "drain" /\ \E to : pc' = [pc EXCEPT ![u] = to]
      BY <2>1 DEF UserSubmit, Enqueue, Wake, DrainCall, Shutdown, Goto
    <3> QED  BY <1>0, <2>0, <3>1
  <2>2. CASE DrainReturn(u)
    <3>1. queue = <<>> /\ active = 0
      BY <2>2 DEF DrainReturn
    <3>2. Busy = {}
      BY <3>1, FiniteBusy, FS_EmptySet DEF DrainInv
    <3>3. Held = {} /\ Queued = {}
      BY <3>1, <3>2 DEF Held, Busy, Queued
    <3> QED  BY <3>3 DEF DrainInv
  <2> QED  BY <1>3, <2>1, <2>2 DEF User
<1>4. CASE UNCHANGED vars
  BY <1>4 DEF vars
<1> QED  BY <1>1, <1>2, <1>3, <1>4 DEF Next

-----------------------------------------------------------------------------
(* The theorems *)

\* The slot, the queue and the workers' copies stay well formed, and the queue
\* within WORKER_QUEUE_MAX.
THEOREM ServiceTyped == Spec => []TypeOK
<1>1. IInv => TypeOK  BY DEF IInv
<1> QED  BY <1>1, ServiceInductive, PTL

\* capyai_async_poll never hands a client the answer to another's request.
THEOREM AnswersAreOwn == Spec => []AnswersOwn
<1>1. IInv => AnswersOwn  BY DEF IInv
<1> QED  BY <1>1, ServiceInductive, PTL

\* capyai_async_worker never runs a request a second time, nor one whose
\* capyai_async_submit returned an error.
THEOREM RequestsRunOnce == Spec => []RunsOnce
<1>1. IInv => RunsOnce  BY DEF IInv
<1> QED  BY <1>1, ServiceInductive, PTL

\* worker_pool_drain returns only when every item that was queued or running
\* when it was called has been run to its end: active_threads, counted under
\* the lock in worker_thread_entry, misses no worker with an item.
THEOREM DrainsWait == Spec => DrainWaits
<1>1. Init => DrainInv
  BY InitDrain
<1>2. IInv /\ DrainInv /\ [Next]_vars => DrainInv'
  BY NextDrain
<1>3. IInv /\ DrainInv /\ [Next]_vars =>
        [\A c \in Callers : pc[c] = "drain" /\ pc'[c] # "drain" => owed[c] = {}]_<<pc, owed>>
  BY DrainStep
<1> QED  BY <1>1, <1>2, <1>3, ServiceInductive, PTL DEF Spec, DrainWaits
=============================================================================

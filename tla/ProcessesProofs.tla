-------------------------- MODULE ProcessesProofs --------------------------
(***************************************************************************)
(* Proofs about Processes for tables of any size.                          *)
(*                                                                         *)
(* Where processes wait for their own children only, with or without the   *)
(* timer: the run queue and the tables agree, no task that may run loses   *)
(* its address space and none is leaked, a wait keeps naming the process   *)
(* it was called for, and no children list leads to a slot that was given  *)
(* back.  For as long as no process has another's thread: the process tree *)
(* is consistent and a system call acts for the process that issued it.    *)
(***************************************************************************)
EXTENDS Processes, FiniteSetTheorems, SequenceTheorems, WellFoundedInduction, TLAPS

TaskRecs == [state : {"unused", "ready", "running", "sleeping", "zombie"},
             pid : Names \union {0}, space : Names \union {0}]
ProcRecs == [state : {"unused", "live", "zombie"}, pid : Names \union {0},
             thread : Tasks \union {0}, space : Names \union {0},
             own : Names \union {0}, parent : Procs \union {0}, kids : SUBSET Procs]

-----------------------------------------------------------------------------
(* The invariant *)

\* A task that a context switch may load.
Alive(t) == task[t].state \in {"ready", "running", "sleeping"}

\* The kernel's thread does not exit.
QueueInv ==
    /\ QueueSound
    /\ Alive(Main) /\ task[Main].space = 0

\* No process has the kernel's thread, and a free slot holds nothing.
SlotInv ==
    \A p \in Procs :
        /\ proc[p].thread # Main
        /\ proc[p].state = "unused" =>
               /\ proc[p].thread = 0 /\ proc[p].space = 0
               /\ proc[p].parent = 0 /\ proc[p].kids = {}

\* The half of TreeConsistent that survives the timer.
KidsInv ==
    \A p \in Procs : \A c \in proc[p].kids :
        proc[c].parent = p /\ proc[c].state # "unused"

\* Each space has one process, and a task that may run has the space of a
\* process with that thread, be it the one the task was created for or not.
SpaceInv ==
    /\ \A p \in Procs : proc[p].space \in spaces \union {0}
    /\ \A p, q \in Procs : proc[p].space = proc[q].space => p = q \/ proc[p].space = 0
    /\ SpacesOwned
    /\ \A t \in Tasks \ {Main} : Alive(t) =>
           \E p \in Procs : /\ proc[p].thread = t /\ proc[p].space = task[t].space
                            /\ proc[p].space # 0

\* The sweep has detached the process for which t waits and will kill t next.
Parted(t) ==
    /\ sweep.step = "thread" /\ proc[sweep.i].thread = t
    /\ wait[t].slot # sweep.i /\ proc[wait[t].slot].parent = 0

\* Who waits waits for a child of a process whose thread it is: nobody else can
\* destroy that child.
WaitInv ==
    \A t \in Tasks : wait[t] # NoWait =>
        /\ task[t].state \in {"ready", "running"}
        /\ wait[t].slot \in Procs
        /\ proc[wait[t].slot].state # "unused" /\ proc[wait[t].slot].pid = wait[t].pid
        /\ \/ \E p \in Procs : proc[p].thread = t /\ wait[t].slot \in proc[p].kids
           \/ Parted(t)

\* What is left of the process that the sweep is destroying.
SweepInv ==
    /\ sweep.step = "none" <=> sweep = NoSweep
    /\ sweep.step = "look" => sweep.i > 0
    /\ sweep.step \in {"thread", "space", "free"} =>
           sweep.i \in Procs /\ proc[sweep.i].state = "zombie" /\ proc[sweep.i].parent = 0
    /\ sweep.step \in {"space", "free"} => proc[sweep.i].thread = 0
    /\ sweep.step = "free" => proc[sweep.i].space = 0

IInv == TypeOK /\ QueueInv /\ SlotInv /\ KidsInv /\ SpaceInv /\ WaitInv /\ SweepInv

-----------------------------------------------------------------------------
(* Least elements, names that are free, and the run queue *)

\* A set of numbers that is not empty has a smallest one.
LEMMA LeastIn ==
    ASSUME NEW S, S \subseteq Nat, S # {}
    PROVE  Least(S) \in S /\ \A m \in S : Least(S) <= m
<1>1. \E i \in S : \A j \in S : ~(j < i)
  <2>1. PICK i \in S : \A j \in S : <<j, i>> \notin OpToRel(<, Nat)
    BY NatLessThanWellFounded, WFMin, Zenon
  <2>2. \A j \in S : ~(j < i)
    BY <2>1 DEF OpToRel
  <2> QED  BY <2>2, Zenon
<1>2. \E i \in S : \A j \in S : i <= j
  BY <1>1
<1> QED  BY <1>2 DEF Least

\* The slots of both tables cannot use up all names.
LEMMA NamesLeft ==
    ASSUME NEW f \in [Tasks -> Nat], NEW g \in [Procs -> Nat],
           NEW used, used \subseteq {f[t] : t \in Tasks} \union {g[p] : p \in Procs}
    PROVE  Fresh(used) \in Names \ used
<1> DEFINE all == {f[t] : t \in Tasks} \union {g[p] : p \in Procs}
           h == [i \in 1..(NT + NP) |-> IF i <= NT THEN f[i] ELSE g[i - NT]]
<1>0. NT \in Nat /\ NP \in Nat
  BY ProcessesAssumption
<1>1. \A i \in 1..(NT + NP) : h[i] \in all
  <2> SUFFICES ASSUME NEW i \in 1..(NT + NP) PROVE h[i] \in all
    OBVIOUS
  <2>1. CASE i <= NT
    BY <1>0, <2>1 DEF Tasks
  <2>2. CASE ~(i <= NT)
    <3>1. i - NT \in Procs /\ h[i] = g[i - NT]
      BY <1>0, <2>2 DEF Procs
    <3> QED  BY <3>1
  <2> QED  BY <2>1, <2>2
<1>2. \A y \in all : \E i \in 1..(NT + NP) : h[i] = y
  <2> SUFFICES ASSUME NEW y \in all PROVE \E i \in 1..(NT + NP) : h[i] = y
    OBVIOUS
  <2>1. ASSUME NEW t \in Tasks, y = f[t] PROVE \E i \in 1..(NT + NP) : h[i] = y
    BY <1>0, <2>1 DEF Tasks
  <2>2. ASSUME NEW p \in Procs, y = g[p] PROVE \E i \in 1..(NT + NP) : h[i] = y
    <3>1. p + NT \in 1..(NT + NP) /\ h[p + NT] = g[p]
      BY <1>0 DEF Procs
    <3> QED  BY <2>2, <3>1
  <2> QED  BY <2>1, <2>2
<1>3. h \in Surjection(1..(NT + NP), all)
  <2>1. h \in [1..(NT + NP) -> all]
    BY <1>1
  <2> HIDE DEF h, all
  <2> QED  BY <1>2, <2>1 DEF Surjection
<1>4. Cardinality(all) <= NT + NP /\ IsFiniteSet(all)
  <2>1. IsFiniteSet(1..(NT + NP)) /\ Cardinality(1..(NT + NP)) = NT + NP
    BY <1>0, FS_Interval
  <2> HIDE DEF h, all
  <2> QED  BY <1>0, <1>3, <2>1, FS_Surjection
<1>5. Names \ used # {}
  <2> SUFFICES ASSUME Names \subseteq used PROVE FALSE
    OBVIOUS
  <2>1. Names \in SUBSET all
    OBVIOUS
  <2>2. Cardinality(Names) = NT + 2 * NP + 1
    BY <1>0, FS_Interval DEF Names
  <2>3. Cardinality(Names) <= Cardinality(all) /\ Cardinality(all) \in Nat
    <3> HIDE DEF all
    <3> QED  BY <1>4, <2>1, FS_Subset, FS_CardinalityType
  <2> HIDE DEF all
  <2> QED  BY <1>0, <1>4, <2>2, <2>3
<1>6. Names \ used \subseteq Nat
  BY DEF Names
<1> QED  BY <1>5, <1>6, LeastIn DEF Fresh

-----------------------------------------------------------------------------
(* Unlinking tasks from the run queue *)

\* How many positions of K stand before i.
Rank(K, i) == Cardinality({j \in K : j < i})

LEMMA RankFacts ==
    ASSUME NEW n \in Nat, NEW K \in SUBSET (1..n)
    PROVE  /\ Cardinality(K) \in Nat
           /\ \A i \in K : Rank(K, i) \in 0..(Cardinality(K) - 1)
           /\ \A i, j \in K : i < j => Rank(K, i) < Rank(K, j)
<1>1. IsFiniteSet(K)
  <2>1. IsFiniteSet(1..n)
    BY FS_Interval
  <2> QED  BY <2>1, FS_Subset
<1>2. Cardinality(K) \in Nat
  BY <1>1, FS_CardinalityType
<1>3. ASSUME NEW i \in K, NEW S \in SUBSET K, i \in S, {j \in K : j < i} \subseteq S
      PROVE  Rank(K, i) \in Nat /\ Rank(K, i) + 1 <= Cardinality(S) /\ Cardinality(S) \in Nat
  <2> DEFINE B == {j \in K : j < i}
  <2>1. IsFiniteSet(B) /\ IsFiniteSet(S)
    BY <1>1, FS_Subset
  <2>2. i \notin B
    OBVIOUS
  <2>3. Cardinality(B \cup {i}) = Cardinality(B) + 1
    <3> HIDE DEF B
    <3> QED  BY <2>1, <2>2, FS_AddElement
  <2>4. B \cup {i} \in SUBSET S
    BY <1>3
  <2>5. Cardinality(B \cup {i}) <= Cardinality(S)
    <3> HIDE DEF B
    <3> QED  BY <2>1, <2>4, FS_Subset
  <2>6. Cardinality(B) \in Nat /\ Cardinality(S) \in Nat
    <3> HIDE DEF B
    <3> QED  BY <2>1, FS_CardinalityType
  <2>7. Rank(K, i) = Cardinality(B)
    BY DEF Rank
  <2> HIDE DEF B
  <2> QED  BY <2>3, <2>5, <2>6, <2>7
<1>4. \A i \in K : Rank(K, i) \in 0..(Cardinality(K) - 1)
  <2> SUFFICES ASSUME NEW i \in K PROVE Rank(K, i) \in 0..(Cardinality(K) - 1)
    OBVIOUS
  <2>1. K \in SUBSET K /\ {j \in K : j < i} \subseteq K
    OBVIOUS
  <2>2. Rank(K, i) \in Nat /\ Rank(K, i) + 1 <= Cardinality(K)
    BY <1>3, <2>1
  <2> QED  BY <1>2, <2>2
<1>5. \A i, j \in K : i < j => Rank(K, i) < Rank(K, j)
  <2> SUFFICES ASSUME NEW i \in K, NEW j \in K, i < j PROVE Rank(K, i) < Rank(K, j)
    OBVIOUS
  <2>1. /\ {m \in K : m < j} \in SUBSET K /\ i \in {m \in K : m < j}
        /\ {m \in K : m < i} \subseteq {m \in K : m < j}
    <3>1. \A m \in K : m \in Nat
      OBVIOUS
    <3>2. \A m \in K : m < i => m < j
      BY <3>1
    <3> QED  BY <3>2
  <2>2. Rank(K, i) \in Nat /\ Rank(K, i) + 1 <= Cardinality({m \in K : m < j})
        /\ Cardinality({m \in K : m < j}) \in Nat
    BY <1>3, <2>1
  <2> QED  BY <2>2 DEF Rank
<1> QED  BY <1>2, <1>4, <1>5

\* Every rank below the number of positions is some position's: otherwise take
\* the smallest that is not, and the position after the one of the rank below.
LEMMA RankOnto ==
    ASSUME NEW n \in Nat, NEW K \in SUBSET (1..n)
    PROVE  \A k \in 1..Cardinality(K) : \E i \in K : Rank(K, i) = k - 1
<1> DEFINE Bad == {k \in 1..Cardinality(K) : \A i \in K : Rank(K, i) # k - 1}
<1> SUFFICES ASSUME Bad # {} PROVE FALSE
  OBVIOUS
<1>0. IsFiniteSet(K) /\ Cardinality(K) \in Nat
  <2>1. IsFiniteSet(1..n)
    BY FS_Interval
  <2> QED  BY <2>1, FS_Subset, RankFacts
<1>1. PICK k \in Bad : \A m \in Bad : k <= m
  <2>1. Bad \subseteq Nat
    OBVIOUS
  <2> HIDE DEF Bad
  <2> QED  BY <2>1, LeastIn
<1>2. k \in 1..Cardinality(K) /\ \A i \in K : Rank(K, i) # k - 1
  OBVIOUS
\* The positions of a smaller rank, and the first of the others.
<1>3. \E L \in SUBSET K : /\ Cardinality(L) = k - 1
                          /\ \A i \in L, j \in K \ L : i < j
  <2>1. CASE k = 1
    <3>1. Cardinality({}) = k - 1
      BY <2>1, FS_EmptySet
    <3> QED  BY <3>1
  <2>2. CASE k # 1
    <3>1. k - 1 \in 1..Cardinality(K) /\ k - 1 \notin Bad
      BY <1>0, <1>1, <1>2, <2>2
    <3>2. PICK i \in K : Rank(K, i) = k - 2
      BY <3>1
    <3> DEFINE B == {j \in K : j < i}
    <3>3. IsFiniteSet(B) /\ i \notin B /\ Cardinality(B) = k - 2
      BY <1>0, <3>2, FS_Subset DEF Rank
    <3>4. Cardinality(B \cup {i}) = k - 1
      <4>1. k \in Nat
        BY <1>0, <1>2
      <4> HIDE DEF B, Bad
      <4>2. Cardinality(B \cup {i}) = Cardinality(B) + 1
        BY <3>3, FS_AddElement
      <4> QED  BY <3>3, <4>1, <4>2
    <3>5. \A a \in B \cup {i}, b \in K \ (B \cup {i}) : a < b
      <4>1. \A b \in K \ (B \cup {i}) : i < b /\ b \in Nat
        OBVIOUS
      <4>2. \A a \in B \cup {i} : a <= i /\ a \in Nat
        OBVIOUS
      <4> HIDE DEF B
      <4>3. i \in Nat
        OBVIOUS
      <4> QED  BY <4>1, <4>2, <4>3
    <3>6. B \cup {i} \in SUBSET K
      OBVIOUS
    <3> HIDE DEF B
    <3> QED  BY <3>4, <3>5, <3>6
  <2> QED  BY <2>1, <2>2
<1>4. PICK L \in SUBSET K : Cardinality(L) = k - 1 /\ \A i \in L, j \in K \ L : i < j
  BY <1>3
<1>5. K \ L # {} /\ K \ L \subseteq Nat
  <2>1. K \subseteq L => K = L
    OBVIOUS
  <2> QED  BY <1>0, <1>2, <1>4, <2>1
<1>6. PICK m \in K \ L : \A j \in K \ L : m <= j
  BY <1>5, LeastIn
<1>7. {j \in K : j < m} = L
  <2>1. \A j \in K : j < m => j \in L
    BY <1>6
  <2>2. \A j \in L : j < m
    BY <1>4, <1>6
  <2> QED  BY <2>1, <2>2
<1> QED  BY <1>2, <1>4, <1>6, <1>7 DEF Rank

\* What Without keeps: the same tasks but those of S, each as often as before.
LEMMA WithoutFacts ==
    ASSUME NEW q \in Seq(Tasks), NEW S, \A i, k \in DOMAIN q : q[i] = q[k] => i = k
    PROVE  /\ Without(q, S) \in Seq(Tasks)
           /\ \A i, k \in DOMAIN Without(q, S) : Without(q, S)[i] = Without(q, S)[k] => i = k
           /\ {Without(q, S)[i] : i \in DOMAIN Without(q, S)} = {q[i] : i \in DOMAIN q} \ S
<1> DEFINE K == {i \in DOMAIN q : q[i] \notin S}
           at(k) == CHOOSE i \in K : Rank(K, i) = k - 1
           w == Without(q, S)
<1>0. Len(q) \in Nat /\ K \in SUBSET (1..Len(q)) /\ DOMAIN q = 1..Len(q)
  OBVIOUS
<1>1. /\ Cardinality(K) \in Nat
      /\ \A i \in K : Rank(K, i) \in 0..(Cardinality(K) - 1)
      /\ \A k \in 1..Cardinality(K) : \E i \in K : Rank(K, i) = k - 1
      /\ \A i, j \in K : i < j => Rank(K, i) < Rank(K, j)
  <2> HIDE DEF K
  <2> QED  BY <1>0, RankFacts, RankOnto
<1>2. w = [k \in 1..Cardinality(K) |-> q[at(k)]]
  BY DEF Without, Rank
<1>3. \A k \in 1..Cardinality(K) : at(k) \in K /\ Rank(K, at(k)) = k - 1
  BY <1>1
<1>4. \A i, j \in K : Rank(K, i) = Rank(K, j) => i = j
  <2>1. \A i, j \in K : i \in Nat /\ j \in Nat
    BY <1>0
  <2> HIDE DEF K
  <2> QED  BY <1>1, <2>1
<1>5. \A i \in K : Rank(K, i) + 1 \in 1..Cardinality(K) /\ at(Rank(K, i) + 1) = i
  <2> SUFFICES ASSUME NEW i \in K
               PROVE  Rank(K, i) + 1 \in 1..Cardinality(K) /\ at(Rank(K, i) + 1) = i
    OBVIOUS
  <2>1. Rank(K, i) + 1 \in 1..Cardinality(K) /\ (Rank(K, i) + 1) - 1 = Rank(K, i)
    BY <1>1
  <2>2. at(Rank(K, i) + 1) \in K /\ Rank(K, at(Rank(K, i) + 1)) = Rank(K, i)
    BY <1>3, <2>1
  <2> HIDE DEF at, K
  <2> QED  BY <1>4, <2>1, <2>2
<1>6. \A i \in K : q[i] \in Tasks /\ q[i] \notin S /\ i \in DOMAIN q
  OBVIOUS
<1>7. \A i \in DOMAIN q : q[i] \in S \/ i \in K
  OBVIOUS
<1> HIDE DEF at, K, w
<1>8. w \in Seq(Tasks) /\ DOMAIN w = 1..Cardinality(K)
  <2>1. \A k \in 1..Cardinality(K) : q[at(k)] \in Tasks
    BY <1>3, <1>6
  <2> QED  BY <1>1, <1>2, <2>1
<1>9. \A i, k \in DOMAIN w : w[i] = w[k] => i = k
  <2> SUFFICES ASSUME NEW i \in 1..Cardinality(K), NEW k \in 1..Cardinality(K), w[i] = w[k]
               PROVE  i = k
    BY <1>8
  <2>1. q[at(i)] = q[at(k)] /\ at(i) \in K /\ at(k) \in K
    BY <1>2, <1>3
  <2>2. at(i) = at(k)
    BY <1>6, <2>1
  <2> QED  BY <1>1, <1>3, <2>2
<1>10. {w[i] : i \in DOMAIN w} = {q[i] : i \in DOMAIN q} \ S
  <2>1. \A k \in DOMAIN w : w[k] \in {q[i] : i \in DOMAIN q} \ S
    BY <1>2, <1>3, <1>6, <1>8
  <2>2. \A i \in DOMAIN q : q[i] \notin S => \E k \in DOMAIN w : w[k] = q[i]
    BY <1>2, <1>5, <1>7, <1>8
  <2> QED  BY <2>1, <2>2
<1> QED  BY <1>8, <1>9, <1>10 DEF w

-----------------------------------------------------------------------------
(* schedule() *)

\* scheduler_pick_next_for_current finds a ready task of the queue, and one if
\* there is any besides the current task.
LEMMA PickFacts ==
    ASSUME NEW q \in Seq(Tasks), NEW c, NEW k0 \in DOMAIN q, q[k0] = c, NEW T
    PROVE  /\ Pick(T, q, c) # 0 =>
                  /\ \E i \in DOMAIN q : q[i] = Pick(T, q, c)
                  /\ T[Pick(T, q, c)].state = "ready"
           /\ \A i \in DOMAIN q : q[i] # c /\ T[q[i]].state = "ready" => Pick(T, q, c) # 0
<1> DEFINE k == CHOOSE i \in DOMAIN q : q[i] = c
           n == Len(q)
           a == SubSeq(q, k + 1, n)
           b == SubSeq(q, 1, k - 1)
           after == a \o b
           ready == {i \in DOMAIN after : T[after[i]].state = "ready"}
<1>1. k \in 1..n /\ q[k] = c /\ n \in Nat /\ DOMAIN q = 1..n
  OBVIOUS
<1> HIDE DEF k
<1>2. /\ a \in Seq(Tasks) /\ Len(a) = n - k
      /\ \A i \in 1..(n - k) : a[i] = q[k + i]
  <2>1. k + 1 \in Int /\ n \in Int /\ \A i \in (k + 1)..n : q[i] \in Tasks
    BY <1>1
  <2>2. /\ a \in Seq(Tasks) /\ Len(a) = IF k + 1 <= n THEN n - (k + 1) + 1 ELSE 0
        /\ \A i \in 1..(n - (k + 1) + 1) : a[i] = q[(k + 1) + i - 1]
    BY <2>1, SubSeqProperties
  <2> HIDE DEF a, n
  <2>3. n - (k + 1) + 1 = n - k /\ \A i \in 1..(n - k) : (k + 1) + i - 1 = k + i
    BY <1>1
  <2> QED  BY <1>1, <2>2, <2>3
<1>3. /\ b \in Seq(Tasks) /\ Len(b) = k - 1
      /\ \A i \in 1..(k - 1) : b[i] = q[i]
  <2>1. \A i \in 1..(k - 1) : q[i] \in Tasks
    BY <1>1
  <2> QED  BY <1>1, <2>1, SubSeqProperties
<1> HIDE DEF a, b
<1>4. /\ after \in Seq(Tasks) /\ Len(after) = n - 1
      /\ \A i \in 1..(n - 1) : after[i] = IF i <= n - k THEN a[i] ELSE b[i - (n - k)]
  <2>1. /\ after \in Seq(Tasks) /\ Len(after) = Len(a) + Len(b)
        /\ \A i \in 1..(Len(a) + Len(b)) : after[i] = IF i <= Len(a) THEN a[i] ELSE b[i - Len(a)]
    BY <1>2, <1>3, ConcatProperties
  <2> HIDE DEF after, n
  <2> QED  BY <1>1, <1>2, <1>3, <2>1
<1> HIDE DEF after
<1>5. DOMAIN after = 1..(n - 1)
  BY <1>4
<1>6. \A i \in 1..(n - 1) : \E m \in 1..n : after[i] = q[m]
  <2> SUFFICES ASSUME NEW i \in 1..(n - 1) PROVE \E m \in 1..n : after[i] = q[m]
    OBVIOUS
  <2>1. CASE i <= n - k
    <3>1. after[i] = q[k + i] /\ k + i \in 1..n
      BY <1>1, <1>2, <1>4, <2>1
    <3> QED  BY <3>1
  <2>2. CASE ~(i <= n - k)
    <3>1. i - (n - k) \in 1..(k - 1) /\ i - (n - k) \in 1..n
      BY <1>1, <2>2
    <3>2. after[i] = q[i - (n - k)]
      BY <1>3, <1>4, <2>2, <3>1
    <3> QED  BY <3>1, <3>2
  <2> QED  BY <2>1, <2>2
<1>7. \A m \in 1..n : m = k \/ \E i \in 1..(n - 1) : after[i] = q[m]
  <2> SUFFICES ASSUME NEW m \in 1..n, m # k PROVE \E i \in 1..(n - 1) : after[i] = q[m]
    OBVIOUS
  <2>1. CASE m > k
    <3>1. m - k \in 1..(n - 1) /\ m - k \in 1..(n - k) /\ k + (m - k) = m
      BY <1>1, <2>1
    <3>2. after[m - k] = q[m]
      BY <1>1, <1>2, <1>4, <3>1
    <3> QED  BY <3>1, <3>2
  <2>2. CASE ~(m > k)
    <3>1. m + (n - k) \in 1..(n - 1) /\ m \in 1..(k - 1) /\ ~(m + (n - k) <= n - k)
          /\ (m + (n - k)) - (n - k) = m
      BY <1>1, <2>2
    <3>2. after[m + (n - k)] = q[m]
      BY <1>3, <1>4, <3>1
    <3> QED  BY <3>1, <3>2
  <2> QED  BY <2>1, <2>2
<1>8. Pick(T, q, c) = IF ready = {} THEN 0 ELSE after[Least(ready)]
  BY DEF Pick, k, a, b, after
<1>9. ready \subseteq Nat /\ (ready # {} => Least(ready) \in ready)
  <2>1. ready \subseteq Nat
    BY <1>1, <1>5
  <2> HIDE DEF ready
  <2> QED  BY <2>1, LeastIn
<1>10. ready # {} => /\ Pick(T, q, c) = after[Least(ready)]
                     /\ Least(ready) \in 1..(n - 1)
                     /\ T[after[Least(ready)]].state = "ready"
                     /\ after[Least(ready)] \in Tasks
  BY <1>4, <1>5, <1>8, <1>9
<1>11. \A i \in DOMAIN q : q[i] # c /\ T[q[i]].state = "ready" => ready # {}
  BY <1>1, <1>5, <1>7
<1>12. \A t \in Tasks : t # 0
  BY DEF Tasks
<1> HIDE DEF ready
<1> QED  BY <1>1, <1>6, <1>8, <1>10, <1>11, <1>12

LEMMA MainIsTask == Main \in Tasks /\ Main # 0 /\ 0 \notin Tasks /\ 0 \notin Procs /\ 0 \notin Names
BY ProcessesAssumption DEF Main, Tasks, Procs, Names

\* The variables of schedule() and of the queue, typed.
TasksTyped == task \in [Tasks -> TaskRecs] /\ runq \in Seq(Tasks) /\ cur \in Tasks

LEMMA TypedParts ==
    TypeOK <=> /\ TasksTyped
               /\ proc \in [Procs -> ProcRecs] /\ spaces \subseteq Names
               /\ wait \in [Tasks -> [slot : Procs \union {0}, pid : Names \union {0}]]
               /\ sweep \in [i : 0..(NP + 1), step : {"none", "look", "thread", "space", "free"},
                             goal : {"none", "poll", "spawn"}]
BY DEF TypeOK, TasksTyped, TaskRecs, ProcRecs

\* schedule() over a table and a queue that agree: a ready task gets the
\* processor, or the current one keeps it.
LEMMA ScheduleStep ==
    ASSUME NEW T \in [Tasks -> TaskRecs], NEW q \in Seq(Tasks), cur \in Tasks,
           \A i, k \in DOMAIN q : q[i] = q[k] => i = k,
           {q[i] : i \in DOMAIN q} = {t \in Tasks : T[t].state # "unused"},
           \A t \in Tasks : T[t].state = "running" => t = cur,
           T[cur].state \in {"running", "zombie"} \/
               (T[cur].state = "sleeping" /\ \E t \in Tasks \ {cur} : T[t].state = "ready"),
           T[Main].state \in {"ready", "running", "sleeping"}, T[Main].space = 0,
           Schedule(T, q), runq' = q
    PROVE  /\ TasksTyped' /\ QueueInv'
           /\ \A t \in Tasks : /\ task'[t].space = T[t].space /\ task'[t].pid = T[t].pid
                               /\ \/ task'[t].state = T[t].state
                                  \/ {task'[t].state, T[t].state} \subseteq {"ready", "running"}
<1> DEFINE n == Pick(T, q, cur)
<1>0. Main \in Tasks /\ Main # 0
  BY MainIsTask
<1>1. PICK k0 \in DOMAIN q : q[k0] = cur
  <2>1. cur \in {t \in Tasks : T[t].state # "unused"}
    OBVIOUS
  <2> QED  BY <2>1
<1>2. /\ n # 0 => (\E i \in DOMAIN q : q[i] = n) /\ T[n].state = "ready"
      /\ \A i \in DOMAIN q : q[i] # cur /\ T[q[i]].state = "ready" => n # 0
  BY <1>1, PickFacts
<1> HIDE DEF n
<1>3. n # 0 => n \in Tasks /\ n # cur /\ T[n].state = "ready"
  BY <1>2
<1>4. T[cur].state = "sleeping" => n # 0
  <2> SUFFICES ASSUME T[cur].state = "sleeping" PROVE n # 0
    OBVIOUS
  <2>1. PICK t \in Tasks \ {cur} : T[t].state = "ready"
    OBVIOUS
  <2>2. t \in {u \in Tasks : T[u].state # "unused"}
    BY <2>1
  <2>3. \E i \in DOMAIN q : q[i] = t
    BY <2>2
  <2> QED  BY <1>2, <2>1, <2>3
<1>5. \A t \in Tasks : T[t] \in TaskRecs
  OBVIOUS
<1>6. CASE n = 0
  <2>1. task' = T /\ cur' = cur
    BY <1>6 DEF Schedule, n
  <2>2. T[cur].state \in {"running", "zombie"}
    BY <1>4, <1>6
  <2>3. TasksTyped'
    BY <2>1 DEF TasksTyped
  <2>4. QueueInv'
    BY <2>1, <2>2 DEF QueueInv, QueueSound, Alive
  <2> QED  BY <2>1, <2>3, <2>4
<1>7. CASE n # 0
  <2>1. /\ task' = [T EXCEPT ![cur].state = IF @ = "running" THEN "ready" ELSE @,
                             ![n].state = "running"]
        /\ cur' = n
    BY <1>7 DEF Schedule, n
  <2>2. n \in Tasks /\ n # cur /\ T[n].state = "ready"
    BY <1>3, <1>7
  <2>3. /\ task'[n] = [T[n] EXCEPT !.state = "running"]
        /\ task'[cur] = [T[cur] EXCEPT !.state = IF @ = "running" THEN "ready" ELSE @]
        /\ \A t \in Tasks \ {n, cur} : task'[t] = T[t]
        /\ task' \in [Tasks -> TaskRecs]
    <3> DEFINE A == [T[cur] EXCEPT !.state = IF @ = "running" THEN "ready" ELSE @]
               B == [T[n] EXCEPT !.state = "running"]
    <3>1. A \in TaskRecs /\ B \in TaskRecs
      BY <1>5, <2>2 DEF TaskRecs
    <3>2. task' = [T EXCEPT ![cur] = A, ![n] = B]
      BY <2>1, <2>2
    <3> HIDE DEF A, B
    <3>3. task'[n] = B /\ task'[cur] = A /\ \A t \in Tasks \ {n, cur} : task'[t] = T[t]
      BY <2>2, <3>2
    <3>4. task' \in [Tasks -> TaskRecs]
      BY <2>2, <3>1, <3>2
    <3> QED  BY <3>3, <3>4 DEF A, B
  <2>4. \A t \in Tasks : /\ task'[t].space = T[t].space /\ task'[t].pid = T[t].pid
                         /\ \/ task'[t].state = T[t].state
                            \/ {task'[t].state, T[t].state} \subseteq {"ready", "running"}
    BY <1>5, <2>2, <2>3 DEF TaskRecs
  <2>5. /\ task'[n].state = "running" /\ task'[cur].state # "running"
        /\ \A t \in Tasks \ {n, cur} : task'[t].state # "running"
    BY <1>5, <2>2, <2>3 DEF TaskRecs
  <2>6. {t \in Tasks : task'[t].state # "unused"} = {t \in Tasks : T[t].state # "unused"}
    BY <2>4
  <2>7. TasksTyped'
    BY <2>1, <2>2, <2>3 DEF TasksTyped
  <2>8. Alive(Main)' /\ task'[Main].space = 0
    BY <1>0, <2>4 DEF Alive
  <2>9. QueueSound'
    <3>1. \A t \in Tasks : task'[t].state = "running" => t = n
      BY <2>5
    <3>2. {runq'[i] : i \in DOMAIN runq'} = {t \in Tasks : task'[t].state # "unused"}
      BY <2>6
    <3>3. \A i, k \in DOMAIN runq' : runq'[i] = runq'[k] => i = k
      OBVIOUS
    <3> QED  BY <2>1, <2>5, <3>1, <3>2, <3>3 DEF QueueSound
  <2>10. QueueInv'
    BY <2>1, <2>5, <2>8, <2>9 DEF QueueInv
  <2> QED  BY <2>4, <2>7, <2>10
<1> QED  BY <1>6, <1>7

\* A step of the scheduler alone.
LEMMA TasksOnly ==
    ASSUME IInv, UNCHANGED <<proc, spaces, wait, sweep>>, TasksTyped', QueueInv',
           \A t \in Tasks : /\ Alive(t)' => Alive(t) /\ task'[t].space = task[t].space
                            /\ wait[t] # NoWait => task'[t].state \in {"ready", "running"}
    PROVE  IInv'
<1>1. TypeOK'
  BY TypedParts DEF IInv, TypeOK, TasksTyped, TaskRecs
<1>2. SlotInv' /\ KidsInv' /\ SweepInv'
  BY DEF IInv, SlotInv, KidsInv, SweepInv
<1>3. SpaceInv'
  BY DEF IInv, SpaceInv, SpacesOwned
<1>4. WaitInv'
  BY DEF IInv, WaitInv, Parted
<1> QED  BY <1>1, <1>2, <1>3, <1>4 DEF IInv

\* What schedule() needs of a table that differs from task in states only.
LEMMA ScheduleOnly ==
    ASSUME IInv, UNCHANGED <<proc, spaces, wait, sweep>>,
           NEW T \in [Tasks -> TaskRecs], NEW q \in Seq(Tasks),
           \A i, k \in DOMAIN q : q[i] = q[k] => i = k,
           {q[i] : i \in DOMAIN q} = {t \in Tasks : T[t].state # "unused"},
           \A t \in Tasks : T[t].state = "running" => t = cur,
           T[cur].state \in {"running", "zombie"} \/
               (T[cur].state = "sleeping" /\ \E t \in Tasks \ {cur} : T[t].state = "ready"),
           T[Main].state \in {"ready", "running", "sleeping"}, T[Main].space = 0,
           \A t \in Tasks : /\ T[t].state \in {"ready", "running", "sleeping"} =>
                                   Alive(t) /\ T[t].space = task[t].space
                            /\ wait[t] # NoWait => T[t].state \in {"ready", "running"},
           Schedule(T, q), runq' = q
    PROVE  IInv'
<1>1. cur \in Tasks
  BY DEF IInv, TypeOK
<1>2. /\ TasksTyped' /\ QueueInv'
      /\ \A t \in Tasks : /\ task'[t].space = T[t].space
                          /\ \/ task'[t].state = T[t].state
                             \/ {task'[t].state, T[t].state} \subseteq {"ready", "running"}
  BY <1>1, ScheduleStep
<1>3. \A t \in Tasks : /\ Alive(t)' => Alive(t) /\ task'[t].space = task[t].space
                       /\ wait[t] # NoWait => task'[t].state \in {"ready", "running"}
  BY <1>2, ZenonT(60) DEF Alive
<1> QED  BY <1>2, <1>3, TasksOnly

\* The facts about queue and table that every step starts from.
LEMMA QueueFacts ==
    ASSUME IInv
    PROVE  /\ task \in [Tasks -> TaskRecs] /\ runq \in Seq(Tasks) /\ cur \in Tasks
           /\ \A t \in Tasks : task[t] \in TaskRecs
           /\ \A i, k \in DOMAIN runq : runq[i] = runq[k] => i = k
           /\ {runq[i] : i \in DOMAIN runq} = {t \in Tasks : task[t].state # "unused"}
           /\ \A t \in Tasks : task[t].state = "running" => t = cur
           /\ task[cur].state \in {"running", "zombie"} /\ (cur = Main => task[cur].state = "running")
           /\ task[Main].state \in {"ready", "running", "sleeping"} /\ task[Main].space = 0
           /\ Main \in Tasks
           /\ \A t \in Tasks : wait[t] # NoWait => task[t].state \in {"ready", "running"}
BY MainIsTask, TypedParts DEF IInv, TasksTyped, QueueInv, QueueSound, Alive, WaitInv

LEMMA YieldStep ==
    ASSUME IInv, Yield \/ WaitYield
    PROVE  IInv'
<1>1. Schedule(task, runq) /\ UNCHANGED <<runq, proc, spaces, wait, sweep>>
  BY DEF Yield, WaitYield
<1> QED  BY <1>1, QueueFacts, ScheduleOnly DEF Alive

LEMMA SleepStep ==
    ASSUME IInv, Sleep
    PROVE  IInv'
<1> DEFINE T == [task EXCEPT ![cur].state = "sleeping"]
<1>1. /\ Schedule(T, runq) /\ UNCHANGED <<runq, proc, spaces, wait, sweep>>
      /\ wait[cur] = NoWait /\ task[cur].state = "running"
      /\ \E t \in Tasks \ {cur} : task[t].state = "ready"
  <2>1. wait[Main] = NoWait
    BY MainIsTask DEF IInv, WaitInv, SlotInv, Parted, SweepInv
  <2> QED  BY <2>1, QueueFacts DEF Sleep, InUser, InKernel
<1>2. /\ T \in [Tasks -> TaskRecs] /\ T[cur].state = "sleeping" /\ T[cur].space = task[cur].space
      /\ \A t \in Tasks \ {cur} : T[t] = task[t]
  BY QueueFacts DEF TaskRecs
<1> HIDE DEF T
<1>3. {t \in Tasks : T[t].state # "unused"} = {t \in Tasks : task[t].state # "unused"}
  BY <1>2, QueueFacts
<1>4. \A t \in Tasks : /\ T[t].state \in {"ready", "running", "sleeping"} =>
                              Alive(t) /\ T[t].space = task[t].space
                       /\ wait[t] # NoWait => T[t].state \in {"ready", "running"}
                       /\ T[t].state = "running" => t = cur
  BY <1>1, <1>2, QueueFacts DEF Alive
<1>5. /\ T[Main].state \in {"ready", "running", "sleeping"} /\ T[Main].space = 0
      /\ \E t \in Tasks \ {cur} : T[t].state = "ready"
  BY <1>1, <1>2, QueueFacts
<1> QED  BY <1>1, <1>2, <1>3, <1>4, <1>5, QueueFacts, ScheduleOnly

\* A tick frees the tasks that exited and wakes sleepers; the queue loses the
\* freed ones.
LEMMA TickStep ==
    ASSUME IInv, NEW woken \in SUBSET Sleeping, NEW expired \in BOOLEAN, Tick(woken, expired)
    PROVE  IInv'
<1> DEFINE T == [t \in Tasks |-> IF t \in Zombies THEN UnusedTask ELSE Wake(woken)[t]]
           q == Without(runq, Zombies)
<1>0. /\ UNCHANGED <<proc, spaces, wait, sweep>> /\ runq' = q
      /\ Schedule(T, q) \/ (task' = T /\ cur' = cur)
  BY DEF Tick
<1>1. UnusedTask \in TaskRecs /\ UnusedTask.state = "unused"
  BY DEF UnusedTask, TaskRecs
<1>2. \A t \in Tasks :
        \/ t \in Zombies /\ task[t].state = "zombie" /\ t # cur /\ T[t] = UnusedTask
        \/ t \notin Zombies /\ t \notin woken /\ T[t] = task[t]
        \/ t \notin Zombies /\ task[t].state = "sleeping" /\ T[t] = [task[t] EXCEPT !.state = "ready"]
  BY DEF Zombies, Wake, Sleeping
<1>3. T \in [Tasks -> TaskRecs]
  <2>1. \A t \in Tasks : T[t] \in TaskRecs
    <3> SUFFICES ASSUME NEW t \in Tasks PROVE T[t] \in TaskRecs
      OBVIOUS
    <3>1. task[t] \in TaskRecs /\ [task[t] EXCEPT !.state = "ready"] \in TaskRecs
      BY QueueFacts DEF TaskRecs
    <3> HIDE DEF T
    <3> QED  BY <1>1, <1>2, <3>1
  <2> QED  BY <2>1
<1>4. /\ q \in Seq(Tasks) /\ \A i, k \in DOMAIN q : q[i] = q[k] => i = k
      /\ {q[i] : i \in DOMAIN q} = {runq[i] : i \in DOMAIN runq} \ Zombies
  BY QueueFacts, WithoutFacts
<1> HIDE DEF T, q
<1>5. {q[i] : i \in DOMAIN q} = {t \in Tasks : T[t].state # "unused"}
  <2>1. \A t \in Tasks : T[t].state # "unused" <=> (task[t].state # "unused" /\ t \notin Zombies)
    BY <1>1, <1>2, QueueFacts DEF TaskRecs
  <2> QED  BY <1>4, <2>1, QueueFacts
<1>6. \A t \in Tasks : /\ T[t].state \in {"ready", "running", "sleeping"} =>
                              Alive(t) /\ T[t].space = task[t].space
                       /\ wait[t] # NoWait => T[t].state \in {"ready", "running"}
                       /\ T[t].state = "running" => t = cur
  BY <1>1, <1>2, QueueFacts, ZenonT(60) DEF Alive, TaskRecs
<1>7. /\ T[Main].state \in {"ready", "running", "sleeping"} /\ T[Main].space = 0
      /\ T[cur].state = "running"
  <2>1. task[cur].state = "running"
    BY DEF Tick, Interruptible
  <2> QED  BY <1>1, <1>2, <2>1, QueueFacts, ZenonT(60) DEF TaskRecs
<1>8. CASE Schedule(T, q)
  BY <1>0, <1>3, <1>4, <1>5, <1>6, <1>7, <1>8, ScheduleOnly
<1>9. CASE task' = T /\ cur' = cur
  <2>1. TasksTyped'
    BY <1>0, <1>3, <1>4, <1>9, QueueFacts DEF TasksTyped
  <2>2. QueueInv'
    BY <1>0, <1>4, <1>5, <1>6, <1>7, <1>9, QueueFacts DEF QueueInv, QueueSound, Alive
  <2>3. \A t \in Tasks : /\ Alive(t)' => Alive(t) /\ task'[t].space = task[t].space
                         /\ wait[t] # NoWait => task'[t].state \in {"ready", "running"}
    BY <1>6, <1>9 DEF Alive
  <2> QED  BY <1>0, <2>1, <2>2, <2>3, TasksOnly
<1> QED  BY <1>0, <1>8, <1>9

LEMMA TickGuardedStep ==
    ASSUME IInv, NEW woken \in SUBSET Sleeping, TickGuarded(woken)
    PROVE  IInv'
<1>0. task' = Wake(woken) /\ UNCHANGED <<runq, cur, proc, spaces, wait, sweep>>
  BY DEF TickGuarded
<1>1. \A t \in Tasks :
        \/ task'[t] = task[t]
        \/ task[t].state = "sleeping" /\ task'[t] = [task[t] EXCEPT !.state = "ready"]
  BY <1>0 DEF Wake, Sleeping
<1>2. task' \in [Tasks -> TaskRecs]
  <2>1. \A t \in Tasks : task'[t] \in TaskRecs
    BY <1>1, QueueFacts, ZenonT(60) DEF TaskRecs
  <2> QED  BY <1>0, <2>1 DEF Wake
<1>3. \A t \in Tasks : /\ task'[t].state = task[t].state \/ (task[t].state = "sleeping" /\ task'[t].state = "ready")
                       /\ task'[t].space = task[t].space
  BY <1>1, QueueFacts, ZenonT(60) DEF TaskRecs
<1>4. {t \in Tasks : task'[t].state # "unused"} = {t \in Tasks : task[t].state # "unused"}
  BY <1>3
<1>5. QueueInv'
  BY <1>0, <1>3, <1>4, QueueFacts DEF QueueInv, QueueSound, Alive
<1>6. \A t \in Tasks : /\ Alive(t)' => Alive(t) /\ task'[t].space = task[t].space
                       /\ wait[t] # NoWait => task'[t].state \in {"ready", "running"}
  BY <1>3, QueueFacts DEF Alive
<1>7. TasksTyped'
  BY <1>0, <1>2, QueueFacts DEF TasksTyped
<1> QED  BY <1>0, <1>5, <1>6, <1>7, TasksOnly

-----------------------------------------------------------------------------
(* System calls of a process *)

LEMMA ProcFacts ==
    ASSUME IInv
    PROVE  /\ proc \in [Procs -> ProcRecs] /\ spaces \subseteq Names
           /\ wait \in [Tasks -> [slot : Procs \union {0}, pid : Names \union {0}]]
           /\ \A p \in Procs :
                 /\ proc[p] \in ProcRecs
                 /\ proc[p].state \in {"unused", "live", "zombie"} /\ proc[p].pid \in Names \union {0}
                 /\ proc[p].thread \in Tasks \union {0} /\ proc[p].space \in Names \union {0}
                 /\ proc[p].own \in Names \union {0} /\ proc[p].parent \in Procs \union {0}
                 /\ proc[p].kids \subseteq Procs
BY TypedParts DEF IInv, ProcRecs

LEMMA CurrentFacts ==
    ASSUME IInv, Current # 0
    PROVE  Current \in Procs /\ proc[Current].state # "unused" /\ proc[Current].thread = cur
<1> DEFINE mine == {p \in Procs : proc[p].state # "unused" /\ proc[p].thread = cur}
<1>1. mine \subseteq Nat /\ mine # {} /\ Current = Least(mine)
  BY DEF Current, Procs
<1>2. Least(mine) \in mine
  <2> HIDE DEF mine
  <2> QED  BY <1>1, LeastIn
<1> QED  BY <1>1, <1>2

\* Steps of the sweep between two slots.
LEMMA SweepMoves ==
    ASSUME IInv, UNCHANGED <<task, runq, cur, proc, spaces, wait>>,
           sweep.step \in {"none", "look"}, sweep'.step \in {"none", "look"},
           sweep' \in [i : 0..(NP + 1), step : {"none", "look", "thread", "space", "free"},
                       goal : {"none", "poll", "spawn"}],
           sweep'.step = "none" <=> sweep' = NoSweep, sweep'.step = "look" => sweep'.i > 0
    PROVE  IInv'
<1>1. TypeOK'
  BY DEF IInv, TypeOK
<1>2. QueueInv' /\ SlotInv' /\ KidsInv'
  BY DEF IInv, QueueInv, QueueSound, Alive, SlotInv, KidsInv
<1>3. SpaceInv'
  BY DEF IInv, SpaceInv, SpacesOwned, Alive
<1>4. WaitInv'
  BY DEF IInv, WaitInv, Parted
<1>5. SweepInv'
  BY DEF SweepInv
<1> QED  BY <1>1, <1>2, <1>3, <1>4, <1>5 DEF IInv

LEMMA WaitStep ==
    ASSUME IInv, ~WaitAny, NEW c \in Procs, Wait(c)
    PROVE  IInv'
<1>0. /\ wait' = [wait EXCEPT ![cur] = [slot |-> c, pid |-> proc[c].pid]]
      /\ Current # 0 /\ c \in proc[Current].kids
      /\ UNCHANGED <<task, runq, cur, proc, spaces, sweep>>
  BY DEF Wait
<1>1. /\ Current \in Procs /\ proc[Current].thread = cur /\ cur \in Tasks
      /\ task[cur].state = "running"
  BY <1>0, CurrentFacts, QueueFacts DEF Wait, InUser
<1>2. proc[c].state # "unused" /\ proc[c].pid \in Names \union {0}
  BY <1>0, <1>1, ProcFacts DEF IInv, KidsInv
<1>3. /\ wait' \in [Tasks -> [slot : Procs \union {0}, pid : Names \union {0}]]
      /\ wait'[cur] = [slot |-> c, pid |-> proc[c].pid]
      /\ \A t \in Tasks \ {cur} : wait'[t] = wait[t]
  BY <1>0, <1>1, <1>2, ProcFacts
<1>4. TypeOK'
  BY <1>0, <1>3 DEF IInv, TypeOK
<1>5. QueueInv' /\ SlotInv' /\ KidsInv' /\ SweepInv'
  BY <1>0 DEF IInv, QueueInv, QueueSound, Alive, SlotInv, KidsInv, SweepInv
<1>6. SpaceInv'
  BY <1>0 DEF IInv, SpaceInv, SpacesOwned, Alive
<1>7. WaitInv'
  BY <1>0, <1>1, <1>2, <1>3 DEF IInv, WaitInv, Parted
<1> QED  BY <1>4, <1>5, <1>6, <1>7 DEF IInv

\* process_exit: the process and its thread are zombies, all else stays.
LEMMA ExitStep ==
    ASSUME IInv, Exit
    PROVE  IInv'
<1> DEFINE T == [task EXCEPT ![cur].state = "zombie"]
           p == Current
<1>0. /\ cur # Main /\ wait[cur] = NoWait /\ p # 0
      /\ proc' = [proc EXCEPT ![p].state = "zombie"] /\ Schedule(T, runq)
      /\ UNCHANGED <<runq, spaces, wait, sweep>>
  BY DEF Exit, InUser
<1>1. p \in Procs /\ proc[p].state # "unused" /\ proc[p].thread = cur
  BY <1>0, CurrentFacts
<1> HIDE DEF p
<1>2. /\ T \in [Tasks -> TaskRecs] /\ T[cur].state = "zombie" /\ T[cur].space = task[cur].space
      /\ \A t \in Tasks \ {cur} : T[t] = task[t]
  BY QueueFacts DEF TaskRecs
<1> HIDE DEF T
<1>3. {t \in Tasks : T[t].state # "unused"} = {t \in Tasks : task[t].state # "unused"}
  BY <1>2, QueueFacts
<1>4. \A t \in Tasks : T[t].state = "running" => t = cur
  BY <1>2, QueueFacts
<1>5. T[Main].state \in {"ready", "running", "sleeping"} /\ T[Main].space = 0
  BY <1>0, <1>2, QueueFacts
<1>6. /\ TasksTyped' /\ QueueInv'
      /\ \A t \in Tasks : /\ task'[t].space = T[t].space
                          /\ \/ task'[t].state = T[t].state
                             \/ {task'[t].state, T[t].state} \subseteq {"ready", "running"}
  BY <1>0, <1>2, <1>3, <1>4, <1>5, QueueFacts, ScheduleStep
<1>7. \A t \in Tasks : /\ Alive(t)' => Alive(t) /\ task'[t].space = task[t].space
                       /\ wait[t] # NoWait => task'[t].state \in {"ready", "running"}
  BY <1>0, <1>2, <1>6, QueueFacts, ZenonT(60) DEF Alive
<1>8. /\ proc' \in [Procs -> ProcRecs] /\ proc'[p].state = "zombie"
      /\ \A q \in Procs : /\ proc'[q].pid = proc[q].pid /\ proc'[q].thread = proc[q].thread
                          /\ proc'[q].space = proc[q].space /\ proc'[q].own = proc[q].own
                          /\ proc'[q].parent = proc[q].parent /\ proc'[q].kids = proc[q].kids
                          /\ proc'[q].state = proc[q].state \/ proc'[q].state = "zombie"
                          /\ proc'[q].state = "unused" <=> proc[q].state = "unused"
  BY <1>0, <1>1, ProcFacts DEF ProcRecs
<1>9. TypeOK'
  <2>1. TypeOK
    BY DEF IInv
  <2> QED  BY <1>0, <1>6, <1>8, <2>1, TypedParts DEF TypeOK, TasksTyped, TaskRecs, ProcRecs
<1>10. SlotInv' /\ SweepInv'
  BY <1>0, <1>8 DEF IInv, SlotInv, SweepInv
<1>11. KidsInv'
  BY <1>8, ProcFacts DEF IInv, KidsInv
<1>12. SpaceInv'
  <2>1. {proc'[q].space : q \in Procs} = {proc[q].space : q \in Procs}
    BY <1>8
  <2> QED  BY <1>0, <1>7, <1>8, <2>1 DEF IInv, SpaceInv, SpacesOwned
<1>13. WaitInv'
  <2>1. \A t \in Tasks : wait[t] # NoWait => (Parted(t) => Parted(t)')
    BY <1>0, <1>8 DEF IInv, WaitInv, SweepInv, Parted
  <2> QED  BY <1>0, <1>7, <1>8, <2>1 DEF IInv, WaitInv
<1> QED  BY <1>6, <1>9, <1>10, <1>11, <1>12, <1>13 DEF IInv

\* An address space that nobody has.
LEMMA FreshSpace ==
    ASSUME IInv
    PROVE  /\ Fresh(Spaces) \in Names
           /\ \A t \in Tasks : task[t].space # Fresh(Spaces)
           /\ \A p \in Procs : proc[p].space # Fresh(Spaces)
           /\ Fresh(Spaces) \notin spaces /\ Fresh(Spaces) # 0
<1> DEFINE f == [t \in Tasks |-> task[t].space]
           g == [p \in Procs |-> proc[p].space]
<1>1. f \in [Tasks -> Nat] /\ g \in [Procs -> Nat]
  <2>1. \A t \in Tasks : task[t].space \in Nat
    BY QueueFacts DEF TaskRecs, Names
  <2>2. \A p \in Procs : proc[p].space \in Nat
    BY ProcFacts DEF Names
  <2> QED  BY <2>1, <2>2
<1>2. spaces \subseteq {proc[p].space : p \in Procs}
  BY DEF IInv, SpaceInv, SpacesOwned
<1>3. Spaces \subseteq {f[t] : t \in Tasks} \union {g[p] : p \in Procs}
  BY <1>2 DEF Spaces
<1>4. Fresh(Spaces) \in Names \ Spaces
  <2> HIDE DEF f, g
  <2> QED  BY <1>1, <1>3, NamesLeft
<1> QED  BY <1>4, MainIsTask DEF Spaces

\* process_exec_replace: the process and its thread change to the new space
\* together, and the old one goes.
LEMMA ExecStep ==
    ASSUME IInv, Exec
    PROVE  IInv'
<1> DEFINE s == Fresh(Spaces)
           p == Current
<1>0. /\ cur # Main /\ p # 0
      /\ spaces' = (spaces \ {proc[p].space}) \union {s}
      /\ proc' = [proc EXCEPT ![p].space = s]
      /\ task' = [task EXCEPT ![cur].space = s]
      /\ UNCHANGED <<runq, cur, wait, sweep>>
  BY DEF Exec, InUser
<1>1. p \in Procs /\ proc[p].state # "unused" /\ proc[p].thread = cur
  BY <1>0, CurrentFacts
<1>2. /\ s \in Names /\ s \notin spaces /\ s # 0
      /\ \A t \in Tasks : task[t].space # s
      /\ \A q \in Procs : proc[q].space # s
  BY FreshSpace
<1> HIDE DEF p, s
<1>3. /\ task' \in [Tasks -> TaskRecs] /\ task'[cur].space = s
      /\ \A t \in Tasks : task'[t].state = task[t].state /\ (t # cur => task'[t].space = task[t].space)
  BY <1>0, <1>2, QueueFacts DEF TaskRecs
<1>4. /\ proc' \in [Procs -> ProcRecs] /\ proc'[p].space = s
      /\ \A q \in Procs : /\ proc'[q].pid = proc[q].pid /\ proc'[q].thread = proc[q].thread
                          /\ q # p => proc'[q].space = proc[q].space
                          /\ proc'[q].own = proc[q].own /\ proc'[q].state = proc[q].state
                          /\ proc'[q].parent = proc[q].parent /\ proc'[q].kids = proc[q].kids
  BY <1>0, <1>1, <1>2, ProcFacts DEF ProcRecs
<1>5. TypeOK'
  <2>1. TypeOK
    BY DEF IInv
  <2>2. spaces' \subseteq Names /\ TasksTyped'
    BY <1>0, <1>2, <1>3, ProcFacts, QueueFacts DEF TasksTyped
  <2> QED  BY <1>0, <1>4, <2>1, <2>2, TypedParts DEF TypeOK, TasksTyped, TaskRecs, ProcRecs
<1>6. QueueInv'
  <2>1. {t \in Tasks : task'[t].state # "unused"} = {t \in Tasks : task[t].state # "unused"}
    BY <1>3
  <2> QED  BY <1>0, <1>3, <2>1, QueueFacts DEF QueueInv, QueueSound, Alive
<1>7. SlotInv' /\ SweepInv'
  <2>1. sweep.step \in {"space", "free"} => sweep.i # p
    BY <1>1, QueueFacts, MainIsTask DEF IInv, SweepInv
  <2> QED  BY <1>0, <1>1, <1>4, <2>1 DEF IInv, SlotInv, SweepInv
<1>8. KidsInv'
  BY <1>4, ProcFacts DEF IInv, KidsInv
<1>9. SpaceInv'
  <2>1. \A q \in Procs \ {p} : proc[q].space \in spaces' \union {0} /\ (proc[q].space = proc[p].space => proc[q].space = 0)
    BY <1>0, <1>1 DEF IInv, SpaceInv
  <2>2. \A q \in Procs : proc'[q].space \in spaces' \union {0}
    BY <1>0, <1>4, <2>1
  <2>3. \A q, r \in Procs : proc'[q].space = proc'[r].space => q = r \/ proc'[q].space = 0
    BY <1>2, <1>4 DEF IInv, SpaceInv
  <2>4. SpacesOwned'
    <3>1. \A x \in spaces' : \E q \in Procs : proc'[q].space = x
      <4> SUFFICES ASSUME NEW x \in spaces', x # s PROVE \E q \in Procs : proc'[q].space = x
        BY <1>1, <1>4
      <4>1. x \in spaces /\ x # proc[p].space
        BY <1>0
      <4>2. PICK q \in Procs : proc[q].space = x
        BY <4>1 DEF IInv, SpaceInv, SpacesOwned
      <4> QED  BY <1>4, <4>1, <4>2
    <3> QED  BY <3>1 DEF SpacesOwned
  <2>5. \A t \in Tasks \ {Main} : Alive(t)' =>
           \E q \in Procs : proc'[q].thread = t /\ proc'[q].space = task'[t].space /\ proc'[q].space # 0
    <3> SUFFICES ASSUME NEW t \in Tasks \ {Main}, Alive(t)'
                 PROVE  \E q \in Procs : proc'[q].thread = t /\ proc'[q].space = task'[t].space /\ proc'[q].space # 0
      OBVIOUS
    <3>1. CASE t = cur
      BY <1>1, <1>2, <1>3, <1>4, <3>1
    <3>2. CASE t # cur
      <4>1. PICK q \in Procs : proc[q].thread = t /\ proc[q].space = task[t].space /\ proc[q].space # 0
        BY <1>3 DEF IInv, SpaceInv, Alive
      <4> QED  BY <1>1, <1>3, <1>4, <3>2, <4>1
    <3> QED  BY <3>1, <3>2
  <2> QED  BY <2>2, <2>3, <2>4, <2>5 DEF SpaceInv
<1>10. WaitInv'
  <2>1. \A t \in Tasks : wait[t] # NoWait => (Parted(t) => Parted(t)')
    BY <1>0, <1>4 DEF IInv, WaitInv, SweepInv, Parted
  <2> QED  BY <1>0, <1>3, <1>4, <2>1 DEF IInv, WaitInv
<1> QED  BY <1>5, <1>6, <1>7, <1>8, <1>9, <1>10 DEF IInv

LEMMA FreshPids ==
    ASSUME IInv
    PROVE  /\ Fresh(TaskPids) \in Names /\ Fresh(ProcPids) \in Names
           /\ \A t \in Tasks : task[t].pid # Fresh(TaskPids)
           /\ \A p \in Procs : proc[p].own # Fresh(TaskPids)
<1>1. Fresh(TaskPids) \in Names \ TaskPids
  <2> DEFINE f == [t \in Tasks |-> task[t].pid]
             g == [p \in Procs |-> proc[p].own]
  <2>1. \A t \in Tasks : task[t].pid \in Nat
    BY QueueFacts DEF TaskRecs, Names
  <2>2. \A p \in Procs : proc[p].own \in Nat
    BY ProcFacts DEF Names
  <2>3. f \in [Tasks -> Nat] /\ g \in [Procs -> Nat]
    BY <2>1, <2>2
  <2>4. TaskPids \subseteq {f[t] : t \in Tasks} \union {g[p] : p \in Procs}
    BY DEF TaskPids
  <2> HIDE DEF f, g
  <2> QED  BY <2>3, <2>4, NamesLeft
<1>2. Fresh(ProcPids) \in Names \ ProcPids
  <2> DEFINE f == [t \in Tasks |-> wait[t].pid]
             g == [p \in Procs |-> proc[p].pid]
  <2>1. \A t \in Tasks : wait[t].pid \in Nat
    BY ProcFacts DEF Names
  <2>2. \A p \in Procs : proc[p].pid \in Nat
    BY ProcFacts DEF Names
  <2>3. f \in [Tasks -> Nat] /\ g \in [Procs -> Nat]
    BY <2>1, <2>2
  <2>4. ProcPids \subseteq {f[t] : t \in Tasks} \union {g[p] : p \in Procs}
    BY DEF ProcPids
  <2> HIDE DEF f, g
  <2> QED  BY <2>3, <2>4, NamesLeft
<1> QED  BY <1>1, <1>2 DEF TaskPids

\* What Create makes of the tables: a task and a process in free slots, and the
\* new child of the parent.
Created(parent, t, p, s) ==
    /\ t \in Tasks /\ p \in Procs /\ s \in Names
    /\ task[t].state = "unused" /\ proc[p].state = "unused"
    /\ \A u \in Tasks : task[u].space # s
    /\ \A q \in Procs : proc[q].space # s
    /\ s \notin spaces /\ s # 0
    /\ task' \in [Tasks -> TaskRecs] /\ runq' = Append(runq, t)
    /\ task'[t].state = "ready" /\ task'[t].space = s /\ task'[t].pid = proc'[p].own
    /\ \A u \in Tasks \ {t} : task'[u] = task[u]
    /\ proc' \in [Procs -> ProcRecs]
    /\ proc'[p].state = "live" /\ proc'[p].thread = t /\ proc'[p].space = s
    /\ proc'[p].parent = parent /\ proc'[p].kids = {}
    /\ \A q \in Procs \ {p} :
          /\ proc'[q].state = proc[q].state /\ proc'[q].pid = proc[q].pid
          /\ proc'[q].thread = proc[q].thread /\ proc'[q].space = proc[q].space
          /\ proc'[q].own = proc[q].own /\ proc'[q].parent = proc[q].parent
          /\ proc'[q].kids = IF q = parent THEN proc[q].kids \union {p} ELSE proc[q].kids
    /\ spaces' = spaces \union {s}
    /\ wait' = [wait EXCEPT ![t] = NoWait]
    /\ \A u \in Tasks : task[u].pid # task'[t].pid
    /\ \A q \in Procs : proc[q].own # task'[t].pid

LEMMA CreateFacts ==
    ASSUME IInv, NEW parent \in Procs \union {0}, Create(parent)
    PROVE  \E t, p, s : Created(parent, t, p, s)
<1> DEFINE t == Least(FreeTasks)
           p == Least(FreeProcs)
           s == Fresh(Spaces)
           n == Fresh(TaskPids)
           new == [state |-> "live", pid |-> Fresh(ProcPids), thread |-> t,
                   space |-> s, own |-> n, parent |-> parent, kids |-> {}]
           tr == [state |-> "ready", pid |-> n, space |-> s]
<1>1. /\ task' = [task EXCEPT ![t] = tr]
      /\ runq' = Append(runq, t)
      /\ proc' = [q \in Procs |->
                    IF q = p THEN new
                    ELSE IF q = parent THEN [proc[q] EXCEPT !.kids = @ \union {p}]
                    ELSE proc[q]]
      /\ spaces' = spaces \union {s}
      /\ wait' = [wait EXCEPT ![t] = NoWait]
  BY DEF Create
<1>2. t \in Tasks /\ task[t].state = "unused"
  <2>1. FreeTasks \subseteq Nat /\ FreeTasks # {}
    BY DEF FreeTasks, Tasks, Create
  <2>2. t \in FreeTasks
    BY <2>1, LeastIn
  <2> QED  BY <2>2 DEF FreeTasks
<1>3. p \in Procs /\ proc[p].state = "unused"
  <2>1. FreeProcs \subseteq Nat /\ FreeProcs # {}
    BY DEF FreeProcs, Procs, Create
  <2>2. p \in FreeProcs
    BY <2>1, LeastIn
  <2> QED  BY <2>2 DEF FreeProcs
<1>4. /\ s \in Names /\ s \notin spaces /\ s # 0
      /\ \A u \in Tasks : task[u].space # s
      /\ \A q \in Procs : proc[q].space # s
  BY FreshSpace
<1>5. /\ n \in Names /\ Fresh(ProcPids) \in Names
      /\ \A u \in Tasks : task[u].pid # n
      /\ \A q \in Procs : proc[q].own # n
  BY FreshPids
<1> HIDE DEF t, p, s, n
<1>6. new \in ProcRecs /\ tr \in TaskRecs
  BY <1>2, <1>4, <1>5 DEF ProcRecs, TaskRecs
<1>7. /\ task' \in [Tasks -> TaskRecs] /\ task'[t] = tr
      /\ \A u \in Tasks \ {t} : task'[u] = task[u]
  <2> HIDE DEF tr
  <2> QED  BY <1>1, <1>2, <1>6, QueueFacts
<1>8. /\ proc'[p] = new
      /\ \A q \in Procs \ {p} :
            proc'[q] = IF q = parent THEN [proc[q] EXCEPT !.kids = @ \union {p}] ELSE proc[q]
  <2> HIDE DEF new
  <2> QED  BY <1>1, <1>3
<1>9. \A q \in Procs \ {p} :
          /\ proc'[q] \in ProcRecs
          /\ proc'[q].state = proc[q].state /\ proc'[q].pid = proc[q].pid
          /\ proc'[q].thread = proc[q].thread /\ proc'[q].space = proc[q].space
          /\ proc'[q].own = proc[q].own /\ proc'[q].parent = proc[q].parent
          /\ proc'[q].kids = IF q = parent THEN proc[q].kids \union {p} ELSE proc[q].kids
  <2> HIDE DEF new
  <2> SUFFICES ASSUME NEW q \in Procs \ {p}
               PROVE  /\ proc'[q] \in ProcRecs
                      /\ proc'[q].state = proc[q].state /\ proc'[q].pid = proc[q].pid
                      /\ proc'[q].thread = proc[q].thread /\ proc'[q].space = proc[q].space
                      /\ proc'[q].own = proc[q].own /\ proc'[q].parent = proc[q].parent
                      /\ proc'[q].kids = IF q = parent THEN proc[q].kids \union {p} ELSE proc[q].kids
    OBVIOUS
  <2>1. proc[q] \in ProcRecs /\ p \in Procs
    BY <1>3, ProcFacts
  <2>2. CASE q = parent
    <3>1. proc'[q] = [proc[q] EXCEPT !.kids = proc[q].kids \union {p}]
      BY <1>8, <2>2
    <3> QED  BY <2>1, <2>2, <3>1 DEF ProcRecs
  <2>3. CASE q # parent
    <3>1. proc'[q] = proc[q]
      BY <1>8, <2>3
    <3> QED  BY <2>1, <2>3, <3>1
  <2> QED  BY <2>2, <2>3
<1>10. proc' \in [Procs -> ProcRecs]
  <2>1. \A q \in Procs : proc'[q] \in ProcRecs
    BY <1>6, <1>8, <1>9
  <2> HIDE DEF new
  <2> QED  BY <1>1, <2>1
<1>11. Created(parent, t, p, s)
  BY <1>1, <1>2, <1>3, <1>4, <1>5, <1>7, <1>8, <1>9, <1>10 DEF Created
<1> QED  BY <1>11

\* fork and spawn: the new process owns the new space and has the new task.
LEMMA CreateStep ==
    ASSUME IInv, NEW parent \in Procs \union {0}, Create(parent), cur' = cur,
           parent # 0 => proc[parent].state # "unused",
           sweep' = sweep \/ (sweep' = NoSweep /\ sweep.step = "look")
    PROVE  IInv'
<1>1. PICK t, p, s : Created(parent, t, p, s)
  BY CreateFacts
<1>2. /\ t \in Tasks /\ p \in Procs /\ s \in Names /\ p # parent
      /\ task[t].state = "unused" /\ proc[p].state = "unused" /\ t # cur /\ t # Main
      /\ s \notin spaces /\ s # 0
      /\ \A q \in Procs : proc[q].space # s
      /\ proc[p].kids = {} /\ proc[p].space = 0 /\ proc[p].thread = 0
  BY <1>1, QueueFacts, MainIsTask DEF Created, IInv, SlotInv
<1>3. /\ task' \in [Tasks -> TaskRecs] /\ runq' = Append(runq, t)
      /\ task'[t].state = "ready" /\ task'[t].space = s
      /\ \A u \in Tasks \ {t} : task'[u] = task[u]
      /\ proc' \in [Procs -> ProcRecs]
      /\ proc'[p].state = "live" /\ proc'[p].thread = t /\ proc'[p].space = s
      /\ proc'[p].parent = parent /\ proc'[p].kids = {}
      /\ spaces' = spaces \union {s}
      /\ wait' = [wait EXCEPT ![t] = NoWait]
  BY <1>1 DEF Created
<1>4. \A q \in Procs \ {p} :
          /\ proc'[q].state = proc[q].state /\ proc'[q].pid = proc[q].pid
          /\ proc'[q].thread = proc[q].thread /\ proc'[q].space = proc[q].space
          /\ proc'[q].own = proc[q].own /\ proc'[q].parent = proc[q].parent
          /\ proc'[q].kids = IF q = parent THEN proc[q].kids \union {p} ELSE proc[q].kids
  BY <1>1 DEF Created
<1>5. /\ wait' \in [Tasks -> [slot : Procs \union {0}, pid : Names \union {0}]]
      /\ wait'[t] = NoWait /\ wait[t] = NoWait /\ \A u \in Tasks : wait'[u] = wait[u]
  BY <1>2, <1>3, ProcFacts DEF NoWait, IInv, WaitInv
<1>6. TypeOK'
  <2>1. TypeOK
    BY DEF IInv
  <2>2. runq' \in Seq(Tasks) /\ spaces' \subseteq Names /\ TasksTyped'
    BY <1>2, <1>3, ProcFacts, QueueFacts DEF TasksTyped
  <2>3. sweep' \in [i : 0..(NP + 1), step : {"none", "look", "thread", "space", "free"},
                    goal : {"none", "poll", "spawn"}]
    BY <2>1, ProcessesAssumption DEF TypeOK, NoSweep
  <2> QED  BY <1>3, <1>5, <2>2, <2>3, TypedParts DEF TypeOK, TasksTyped, TaskRecs, ProcRecs
<1>7. QueueInv'
  <2>1. /\ DOMAIN runq' = 1..(Len(runq) + 1) /\ DOMAIN runq = 1..Len(runq) /\ Len(runq) \in Nat
        /\ runq'[Len(runq) + 1] = t
        /\ \A i \in 1..Len(runq) : runq'[i] = runq[i]
    BY <1>2, <1>3, QueueFacts
  <2>2. \A i \in 1..Len(runq) : runq[i] # t /\ runq[i] \in {u \in Tasks : task[u].state # "unused"}
    BY <1>2, <2>1, QueueFacts
  <2>3. \A i, k \in DOMAIN runq' : runq'[i] = runq'[k] => i = k
    BY <2>1, <2>2, QueueFacts
  <2>4. {runq'[i] : i \in DOMAIN runq'} = {u \in Tasks : task'[u].state # "unused"}
    <3>1. \A i \in DOMAIN runq' : runq'[i] \in {u \in Tasks : task'[u].state # "unused"}
      BY <1>2, <1>3, <2>1, <2>2
    <3>2. ASSUME NEW u \in Tasks, task'[u].state # "unused"
          PROVE  \E i \in DOMAIN runq' : runq'[i] = u
      <4>1. CASE u = t
        BY <2>1, <4>1
      <4>2. CASE u # t
        <5>1. u \in {runq[i] : i \in DOMAIN runq}
          BY <1>3, <3>2, <4>2, QueueFacts
        <5> QED  BY <2>1, <5>1
      <4> QED  BY <4>1, <4>2
    <3> QED  BY <3>1, <3>2
  <2>5. \A u \in Tasks : task'[u].state = "running" => u = cur
    BY <1>3, QueueFacts
  <2> QED  BY <1>2, <1>3, <2>3, <2>4, <2>5, QueueFacts DEF QueueInv, QueueSound, Alive
<1>8. SlotInv'
  <2> SUFFICES ASSUME NEW q \in Procs
               PROVE  /\ proc'[q].thread # Main
                      /\ proc'[q].state = "unused" =>
                             /\ proc'[q].thread = 0 /\ proc'[q].space = 0
                             /\ proc'[q].parent = 0 /\ proc'[q].kids = {}
    BY DEF SlotInv
  <2>1. CASE q = p
    BY <1>2, <1>3, <2>1
  <2>2. CASE q # p
    <3>1. /\ proc'[q].state = proc[q].state /\ proc'[q].thread = proc[q].thread
          /\ proc'[q].space = proc[q].space /\ proc'[q].parent = proc[q].parent
          /\ proc[q].state = "unused" => proc'[q].kids = proc[q].kids
      BY <1>4, <2>2, MainIsTask
    <3> QED  BY <3>1 DEF IInv, SlotInv
  <2> QED  BY <2>1, <2>2
<1>9. \A q \in Procs : p \notin proc[q].kids
  BY <1>2 DEF IInv, KidsInv
<1>10. KidsInv'
  <2> SUFFICES ASSUME NEW q \in Procs, NEW c \in proc'[q].kids
               PROVE  proc'[c].parent = q /\ proc'[c].state # "unused"
    BY DEF KidsInv
  <2>1. CASE c = p
    <3>1. q = parent
      BY <1>3, <1>4, <1>9, <2>1
    <3> QED  BY <1>3, <2>1, <3>1
  <2>2. CASE c # p
    <3>1. q # p
      BY <1>3
    <3>2. proc'[q].kids \subseteq proc[q].kids \union {p}
      BY <1>4, <3>1
    <3>3. c \in proc[q].kids /\ c \in Procs
      BY <2>2, <3>2, ProcFacts
    <3> QED  BY <1>4, <2>2, <3>3 DEF IInv, KidsInv
  <2> QED  BY <2>1, <2>2
<1>11. SpaceInv'
  <2>1. \A q \in Procs : proc'[q].space \in spaces' \union {0}
    BY <1>3, <1>4 DEF IInv, SpaceInv
  <2>2. \A q, r \in Procs : proc'[q].space = proc'[r].space => q = r \/ proc'[q].space = 0
    <3>1. \A q \in Procs \ {p} : proc'[q].space = proc[q].space /\ proc[q].space # s
      BY <1>2, <1>4
    <3>2. \A q, r \in Procs : proc[q].space = proc[r].space => q = r \/ proc[q].space = 0
      BY DEF IInv, SpaceInv
    <3>3. proc'[p].space = s
      BY <1>3
    <3> QED  BY <3>1, <3>2, <3>3
  <2>3. SpacesOwned'
    <3>1. \A x \in spaces : \E q \in Procs \ {p} : proc[q].space = x
      BY <1>2, ProcFacts, MainIsTask DEF IInv, SpaceInv, SpacesOwned
    <3>2. \A x \in spaces : \E q \in Procs : proc'[q].space = x
      BY <1>4, <3>1
    <3>3. \A x \in spaces' : \E q \in Procs : proc'[q].space = x
      <4>1. p \in Procs /\ proc'[p].space = s /\ spaces' = spaces \union {s}
        BY <1>2, <1>3
      <4> QED  BY <3>2, <4>1
    <3> QED  BY <3>3 DEF SpacesOwned
  <2>4. \A u \in Tasks \ {Main} : Alive(u)' =>
           \E q \in Procs : proc'[q].thread = u /\ proc'[q].space = task'[u].space /\ proc'[q].space # 0
    <3> SUFFICES ASSUME NEW u \in Tasks \ {Main}, Alive(u)'
                 PROVE  \E q \in Procs : proc'[q].thread = u /\ proc'[q].space = task'[u].space /\ proc'[q].space # 0
      OBVIOUS
    <3>1. CASE u = t
      BY <1>2, <1>3, <3>1
    <3>2. CASE u # t
      <4>1. PICK q \in Procs : proc[q].thread = u /\ proc[q].space = task[u].space /\ proc[q].space # 0
        BY <1>3, <3>2 DEF IInv, SpaceInv, Alive
      <4>2. q # p
        BY <1>2, <4>1, MainIsTask
      <4>3. proc'[q].thread = proc[q].thread /\ proc'[q].space = proc[q].space
        BY <1>4, <4>2
      <4> QED  BY <1>3, <3>2, <4>1, <4>3
    <3> QED  BY <3>1, <3>2
  <2> QED  BY <2>1, <2>2, <2>3, <2>4 DEF SpaceInv
<1>12. SweepInv'
  <2>1. sweep.step \in {"thread", "space", "free"} => sweep.i # p
    BY <1>2 DEF IInv, SweepInv
  <2>2. CASE sweep' = sweep
    <3>1. sweep.step \in {"thread", "space", "free"} =>
            /\ sweep.i \in Procs
            /\ proc'[sweep.i].state = proc[sweep.i].state /\ proc'[sweep.i].parent = proc[sweep.i].parent
            /\ proc'[sweep.i].thread = proc[sweep.i].thread /\ proc'[sweep.i].space = proc[sweep.i].space
      BY <1>4, <2>1 DEF IInv, SweepInv
    <3> QED  BY <2>2, <3>1 DEF IInv, SweepInv
  <2>3. CASE sweep' = NoSweep
    BY <2>3 DEF SweepInv, NoSweep
  <2> QED  BY <2>2, <2>3
<1>13. WaitInv'
  <2> SUFFICES ASSUME NEW u \in Tasks, wait[u] # NoWait
               PROVE  /\ task'[u].state \in {"ready", "running"}
                      /\ wait[u].slot \in Procs
                      /\ proc'[wait[u].slot].state # "unused" /\ proc'[wait[u].slot].pid = wait[u].pid
                      /\ \/ \E q \in Procs : proc'[q].thread = u /\ wait[u].slot \in proc'[q].kids
                         \/ Parted(u)'
    BY <1>5 DEF WaitInv
  <2>1. /\ u # t /\ wait[u].slot \in Procs /\ wait[u].slot # p
        /\ task[u].state \in {"ready", "running"}
        /\ proc[wait[u].slot].state # "unused" /\ proc[wait[u].slot].pid = wait[u].pid
        /\ \/ \E q \in Procs : proc[q].thread = u /\ wait[u].slot \in proc[q].kids
           \/ Parted(u)
    BY <1>2, <1>5 DEF IInv, WaitInv
  <2>2. CASE \E q \in Procs : proc[q].thread = u /\ wait[u].slot \in proc[q].kids
    <3>1. PICK q \in Procs : proc[q].thread = u /\ wait[u].slot \in proc[q].kids
      BY <2>2
    <3>2. q # p
      BY <1>2, <3>1
    <3> QED  BY <1>3, <1>4, <2>1, <3>1, <3>2, ZenonT(60)
  <2>3. CASE Parted(u)
    <3>1. sweep' = sweep /\ sweep.i \in Procs /\ sweep.i # p
      BY <1>2, <2>3 DEF Parted, IInv, SweepInv
    <3>2. /\ wait'[u] = wait[u] /\ proc'[sweep.i].thread = proc[sweep.i].thread
          /\ proc'[wait[u].slot].parent = proc[wait[u].slot].parent
      BY <1>4, <1>5, <2>1, <3>1
    <3>3. Parted(u)'
      BY <2>3, <3>1, <3>2 DEF Parted
    <3> QED  BY <1>3, <1>4, <2>1, <3>3
  <2> QED  BY <2>1, <2>2, <2>3
<1> QED  BY <1>6, <1>7, <1>8, <1>10, <1>11, <1>12, <1>13 DEF IInv

LEMMA ForkStep ==
    ASSUME IInv, Fork
    PROVE  IInv'
BY CurrentFacts, CreateStep DEF Fork

LEMMA SpawnStep ==
    ASSUME IInv, Spawn
    PROVE  IInv'
<1>1. sweep.i = NP + 1 /\ NP + 1 \notin Procs /\ NP + 1 # 0
  BY ProcessesAssumption DEF Spawn, SweepDone, Procs
<1>2. sweep.step = "look"
  BY <1>1 DEF IInv, TypeOK, SweepInv, NoSweep
<1> QED  BY <1>2, CreateStep DEF Spawn

-----------------------------------------------------------------------------
(* Destroying and killing *)

\* task_kill leaves the current task and the kernel's thread alone.
LEMMA VictimFacts ==
    ASSUME IInv, NEW p \in Procs
    PROVE  /\ Victim(proc[p].thread) \subseteq Tasks \ {cur, Main}
           /\ \A t \in Victim(proc[p].thread) : t = proc[p].thread
           /\ \A t \in Tasks : t = proc[p].thread =>
                 t \in Victim(proc[p].thread) \/ t = cur \/ task[t].state = "unused"
BY DEF Victim, IInv, SlotInv

LEMMA KillStep ==
    ASSUME IInv, NEW S \in SUBSET (Tasks \ {cur, Main}), KillTasks(S), cur' = cur
    PROVE  /\ TasksTyped' /\ QueueInv'
           /\ \A t \in Tasks : /\ t \in S => task'[t] = UnusedTask
                               /\ t \notin S => task'[t] = task[t]
<1>0. /\ task' = [t \in Tasks |-> IF t \in S THEN UnusedTask ELSE task[t]]
      /\ runq' = Without(runq, S)
  BY DEF KillTasks
<1>1. UnusedTask \in TaskRecs /\ UnusedTask.state = "unused"
  BY DEF UnusedTask, TaskRecs
<1>2. \A t \in Tasks : /\ t \in S => task'[t] = UnusedTask
                       /\ t \notin S => task'[t] = task[t]
  BY <1>0
<1>3. task' \in [Tasks -> TaskRecs]
  BY <1>0, <1>1, QueueFacts
<1>4. /\ runq' \in Seq(Tasks) /\ \A i, k \in DOMAIN runq' : runq'[i] = runq'[k] => i = k
      /\ {runq'[i] : i \in DOMAIN runq'} = {runq[i] : i \in DOMAIN runq} \ S
  BY <1>0, QueueFacts, WithoutFacts, SMTT(60)
<1>5. {runq'[i] : i \in DOMAIN runq'} = {t \in Tasks : task'[t].state # "unused"}
  <2>1. \A t \in Tasks : task'[t].state # "unused" <=> (task[t].state # "unused" /\ t \notin S)
    BY <1>1, <1>2
  <2> QED  BY <1>4, <2>1, QueueFacts
<1>6. \A t \in Tasks : task'[t].state = "running" => t = cur
  BY <1>1, <1>2, QueueFacts
<1>7. /\ task'[cur].state \in {"running", "zombie"}
      /\ task'[Main].state \in {"ready", "running", "sleeping"} /\ task'[Main].space = 0
  BY <1>2, QueueFacts
<1>8. QueueInv'
  BY <1>4, <1>5, <1>6, <1>7 DEF QueueInv, QueueSound, Alive
<1>9. TasksTyped'
  BY <1>3, <1>4, QueueFacts DEF TasksTyped
<1> QED  BY <1>2, <1>8, <1>9

\* Waits of the tasks of S are gone, the others go on.
LEMMA WaitsLeft ==
    ASSUME IInv, NEW S, wait' = WaitsWithout(S)
    PROVE  /\ wait' \in [Tasks -> [slot : Procs \union {0}, pid : Names \union {0}]]
           /\ \A t \in Tasks : /\ t \in S => wait'[t] = NoWait
                               /\ t \notin S => wait'[t] = wait[t]
<1>1. NoWait \in [slot : Procs \union {0}, pid : Names \union {0}]
  BY DEF NoWait
<1>2. \A t \in Tasks : wait[t] \in [slot : Procs \union {0}, pid : Names \union {0}]
  BY ProcFacts
<1> HIDE DEF NoWait
<1> QED  BY <1>1, <1>2 DEF WaitsWithout

LEMMA DetachedFacts ==
    ASSUME IInv, NEW p \in Procs
    PROVE  /\ Detached(p) \in [Procs -> ProcRecs]
           /\ \A q \in Procs :
                 /\ Detached(p)[q].state = proc[q].state /\ Detached(p)[q].pid = proc[q].pid
                 /\ Detached(p)[q].thread = proc[q].thread /\ Detached(p)[q].space = proc[q].space
                 /\ Detached(p)[q].own = proc[q].own
           /\ Detached(p)[p].parent = 0 /\ Detached(p)[p].kids = {}
           /\ \A q \in Procs : q # p =>
                 /\ Detached(p)[q].parent = IF q \in proc[p].kids THEN 0 ELSE proc[q].parent
                 /\ Detached(p)[q].kids =
                       IF q = proc[p].parent THEN proc[q].kids \ {p} ELSE proc[q].kids
<1> DEFINE D == Detached(p)
<1>1. \A q \in Procs : D[q] =
        IF q = p THEN [proc[q] EXCEPT !.parent = 0, !.kids = {}]
        ELSE [proc[q] EXCEPT !.parent = IF q \in proc[p].kids THEN 0 ELSE @,
                             !.kids = IF q = proc[p].parent THEN @ \ {p} ELSE @]
  BY DEF Detached
<1>2. ASSUME NEW q \in Procs
      PROVE  /\ D[q] \in ProcRecs
             /\ D[q].state = proc[q].state /\ D[q].pid = proc[q].pid
             /\ D[q].thread = proc[q].thread /\ D[q].space = proc[q].space
             /\ D[q].own = proc[q].own
             /\ q = p => D[q].parent = 0 /\ D[q].kids = {}
             /\ q # p => /\ D[q].parent = IF q \in proc[p].kids THEN 0 ELSE proc[q].parent
                         /\ D[q].kids = IF q = proc[p].parent THEN proc[q].kids \ {p} ELSE proc[q].kids
  <2>1. proc[q] \in ProcRecs
    BY ProcFacts
  <2>2. CASE q = p
    <3>1. D[q] = [proc[q] EXCEPT !.parent = 0, !.kids = {}]
      BY <1>1, <2>2
    <3> HIDE DEF D
    <3> QED  BY <2>1, <2>2, <3>1 DEF ProcRecs
  <2>3. CASE q # p
    <3> DEFINE a == IF q \in proc[p].kids THEN 0 ELSE proc[q].parent
               b == IF q = proc[p].parent THEN proc[q].kids \ {p} ELSE proc[q].kids
    <3>1. D[q] = [proc[q] EXCEPT !.parent = a, !.kids = b]
      BY <1>1, <2>3
    <3>2. a \in Procs \union {0} /\ b \subseteq Procs
      BY ProcFacts
    <3> HIDE DEF D, a, b
    <3>3. /\ D[q] \in ProcRecs
          /\ D[q].state = proc[q].state /\ D[q].pid = proc[q].pid
          /\ D[q].thread = proc[q].thread /\ D[q].space = proc[q].space
          /\ D[q].own = proc[q].own /\ D[q].parent = a /\ D[q].kids = b
      BY <2>1, <3>1, <3>2 DEF ProcRecs
    <3> QED  BY <2>3, <3>3 DEF a, b
  <2> QED  BY <2>2, <2>3
<1>3. D \in [Procs -> ProcRecs]
  <2>1. \A q \in Procs : D[q] \in ProcRecs
    BY <1>2
  <2> QED  BY <2>1 DEF Detached
<1> HIDE DEF D
<1> QED  BY <1>2, <1>3 DEF D

\* What process_destroy does to the tables.
LEMMA DestroyFacts ==
    ASSUME IInv, NEW p \in Procs, Destroy(p), cur' = cur
    PROVE  /\ TasksTyped' /\ QueueInv' /\ spaces' = spaces \ {proc[p].space}
           /\ \A t \in Tasks : /\ t \in Victim(proc[p].thread) => task'[t] = UnusedTask
                               /\ t \notin Victim(proc[p].thread) => task'[t] = task[t]
           /\ proc' \in [Procs -> ProcRecs] /\ proc'[p] = UnusedProc
           /\ \A q \in Procs \ {p} :
                 /\ proc'[q].state = proc[q].state /\ proc'[q].pid = proc[q].pid
                 /\ proc'[q].thread = proc[q].thread /\ proc'[q].space = proc[q].space
                 /\ proc'[q].own = proc[q].own
                 /\ proc'[q].parent = IF q \in proc[p].kids THEN 0 ELSE proc[q].parent
                 /\ proc'[q].kids = IF q = proc[p].parent THEN proc[q].kids \ {p} ELSE proc[q].kids
<1> DEFINE V == Victim(proc[p].thread)
<1>0. /\ KillTasks(V) /\ spaces' = spaces \ {proc[p].space}
      /\ proc' = [Detached(p) EXCEPT ![p] = UnusedProc]
  BY DEF Destroy
<1>1. V \subseteq Tasks \ {cur, Main}
  BY VictimFacts
<1> HIDE DEF V
<1>2. /\ TasksTyped' /\ QueueInv'
      /\ \A t \in Tasks : /\ t \in V => task'[t] = UnusedTask
                          /\ t \notin V => task'[t] = task[t]
  BY <1>0, <1>1, KillStep
<1>3. UnusedProc \in ProcRecs
  BY DEF UnusedProc, ProcRecs
<1> DEFINE D == Detached(p)
<1>4. /\ proc' \in [Procs -> ProcRecs] /\ proc'[p] = UnusedProc
      /\ \A q \in Procs \ {p} : proc'[q] = D[q]
  <2> HIDE DEF UnusedProc
  <2> QED  BY <1>0, <1>3, DetachedFacts
<1>5. \A q \in Procs :
        /\ D[q].state = proc[q].state /\ D[q].pid = proc[q].pid
        /\ D[q].thread = proc[q].thread /\ D[q].space = proc[q].space
        /\ D[q].own = proc[q].own
  BY DetachedFacts
<1>6. \A q \in Procs : q # p =>
        /\ D[q].parent = IF q \in proc[p].kids THEN 0 ELSE proc[q].parent
        /\ D[q].kids = IF q = proc[p].parent THEN proc[q].kids \ {p} ELSE proc[q].kids
  BY DetachedFacts
<1> HIDE DEF D
<1>7. \A q \in Procs \ {p} :
        /\ proc'[q].state = proc[q].state /\ proc'[q].pid = proc[q].pid
        /\ proc'[q].thread = proc[q].thread /\ proc'[q].space = proc[q].space
        /\ proc'[q].own = proc[q].own
        /\ proc'[q].parent = IF q \in proc[p].kids THEN 0 ELSE proc[q].parent
        /\ proc'[q].kids = IF q = proc[p].parent THEN proc[q].kids \ {p} ELSE proc[q].kids
  BY <1>4, <1>5, <1>6, ZenonT(60)
<1> QED  BY <1>0, <1>2, <1>4, <1>7 DEF V

LEMMA UnusedFields ==
    /\ UnusedProc \in ProcRecs /\ UnusedProc.state = "unused" /\ UnusedProc.thread = 0
    /\ UnusedProc.space = 0 /\ UnusedProc.parent = 0 /\ UnusedProc.kids = {}
BY DEF UnusedProc, ProcRecs

\* process_destroy of a process nobody else waits for and the sweep is not at.
LEMMA DestroyStep ==
    ASSUME IInv, NEW p \in Procs, NEW W \in SUBSET {cur}, Destroy(p), UNCHANGED <<cur, sweep>>,
           wait' = WaitsWithout(W \union Victim(proc[p].thread)),
           \A t \in Tasks : wait[t] # NoWait /\ wait[t].slot = p => t \in W,
           sweep.step \in {"thread", "space", "free"} => sweep.i # p,
           proc[p].thread = cur => cur \in W /\ ~Active(p)
    PROVE  IInv'
<1> DEFINE V == Victim(proc[p].thread)
<1>0. spaces' = spaces \ {proc[p].space}
  BY DestroyFacts
<1>1. /\ V \subseteq Tasks \ {cur, Main} /\ \A t \in V : t = proc[p].thread
      /\ \A t \in Tasks : t = proc[p].thread => t \in V \/ t = cur \/ task[t].state = "unused"
  BY VictimFacts
<1>2. /\ TasksTyped' /\ QueueInv'
      /\ \A t \in Tasks : /\ t \in V => task'[t] = UnusedTask
                          /\ t \notin V => task'[t] = task[t]
  BY DestroyFacts
<1>3. /\ wait' \in [Tasks -> [slot : Procs \union {0}, pid : Names \union {0}]]
      /\ \A t \in Tasks : /\ t \in W \union V => wait'[t] = NoWait
                          /\ t \notin W \union V => wait'[t] = wait[t]
  BY WaitsLeft
<1> HIDE DEF V
<1>4. /\ UnusedProc \in ProcRecs /\ UnusedProc.state = "unused" /\ UnusedProc.thread = 0
      /\ UnusedProc.space = 0 /\ UnusedProc.parent = 0 /\ UnusedProc.kids = {}
  BY UnusedFields
<1>5. proc' \in [Procs -> ProcRecs] /\ proc'[p] = UnusedProc
  BY DestroyFacts
<1>6. \A q \in Procs \ {p} :
        /\ proc'[q].state = proc[q].state /\ proc'[q].pid = proc[q].pid
        /\ proc'[q].thread = proc[q].thread /\ proc'[q].space = proc[q].space
        /\ proc'[q].own = proc[q].own
        /\ proc'[q].parent = IF q \in proc[p].kids THEN 0 ELSE proc[q].parent
        /\ proc'[q].kids = IF q = proc[p].parent THEN proc[q].kids \ {p} ELSE proc[q].kids
  BY DestroyFacts
<1>7. TypeOK'
  <2>1. TypeOK
    BY DEF IInv
  <2>2. spaces' \subseteq Names
    BY <1>0, ProcFacts
  <2> QED  BY <1>2, <1>3, <1>5, <2>1, <2>2, TypedParts DEF TypeOK, TasksTyped, TaskRecs, ProcRecs
<1>8. SlotInv'
  <2> SUFFICES ASSUME NEW q \in Procs
               PROVE  /\ proc'[q].thread # Main
                      /\ proc'[q].state = "unused" =>
                             /\ proc'[q].thread = 0 /\ proc'[q].space = 0
                             /\ proc'[q].parent = 0 /\ proc'[q].kids = {}
    BY DEF SlotInv
  <2>1. CASE q = p
    BY <1>4, <1>5, <2>1, MainIsTask
  <2>2. CASE q # p
    BY <1>6, <2>2, ZenonT(60) DEF IInv, SlotInv
  <2> QED  BY <2>1, <2>2
<1>9. KidsInv'
  <2> SUFFICES ASSUME NEW q \in Procs, NEW c \in proc'[q].kids
               PROVE  proc'[c].parent = q /\ proc'[c].state # "unused"
    BY DEF KidsInv
  <2>1. q # p
    BY <1>4, <1>5
  <2>2. c \in proc[q].kids /\ (q = proc[p].parent => c # p)
    BY <1>6, <2>1
  <2>3. c \in Procs /\ proc[c].parent = q /\ proc[c].state # "unused"
    BY <2>2, ProcFacts DEF IInv, KidsInv
  <2>4. c # p /\ c \notin proc[p].kids
    BY <2>1, <2>2, <2>3 DEF IInv, KidsInv
  <2> QED  BY <1>6, <2>3, <2>4
<1>10. SpaceInv'
  <2>1. \A q \in Procs \ {p} : proc[q].space \in spaces' \union {0}
    BY <1>0 DEF IInv, SpaceInv
  <2>2. \A q \in Procs : proc'[q].space \in spaces' \union {0}
    BY <1>4, <1>5, <1>6, <2>1
  <2>3. \A q, r \in Procs : proc'[q].space = proc'[r].space => q = r \/ proc'[q].space = 0
    <3>1. \A q, r \in Procs : proc[q].space = proc[r].space => q = r \/ proc[q].space = 0
      BY DEF IInv, SpaceInv
    <3>2. proc'[p].space = 0 /\ \A q \in Procs \ {p} : proc'[q].space = proc[q].space
      BY <1>4, <1>5, <1>6
    <3> QED  BY <3>1, <3>2
  <2>4. SpacesOwned'
    <3>1. \A x \in spaces' : \E q \in Procs \ {p} : proc[q].space = x
      BY <1>0 DEF IInv, SpaceInv, SpacesOwned
    <3>2. \A q \in Procs \ {p} : proc'[q].space = proc[q].space
      BY <1>6
    <3>3. \A x \in spaces' : \E q \in Procs : proc'[q].space = x
      BY <3>1, <3>2
    <3> QED  BY <3>3 DEF SpacesOwned
  <2>5. \A t \in Tasks \ {Main} : Alive(t)' =>
           \E q \in Procs : proc'[q].thread = t /\ proc'[q].space = task'[t].space /\ proc'[q].space # 0
    <3> SUFFICES ASSUME NEW t \in Tasks \ {Main}, Alive(t)'
                 PROVE  \E q \in Procs : proc'[q].thread = t /\ proc'[q].space = task'[t].space /\ proc'[q].space # 0
      OBVIOUS
    <3>1. t \notin V /\ task'[t] = task[t] /\ Alive(t)
      BY <1>2 DEF Alive, UnusedTask
    <3>2. PICK q \in Procs : proc[q].thread = t /\ proc[q].space = task[t].space /\ proc[q].space # 0
      BY <3>1 DEF IInv, SpaceInv
    <3>3. CASE q # p
      BY <1>6, <3>1, <3>2, <3>3, ZenonT(60)
    <3>4. CASE q = p
      <4>1. t = cur
        BY <1>1, <3>1, <3>2, <3>4 DEF Alive
      <4> QED  BY <3>2, <3>4, <4>1 DEF Active
    <3> QED  BY <3>3, <3>4
  <2> QED  BY <2>2, <2>3, <2>4, <2>5 DEF SpaceInv
<1>11. SweepInv'
  <2>1. sweep.step \in {"thread", "space", "free"} =>
            /\ sweep.i \in Procs
            /\ proc'[sweep.i].state = proc[sweep.i].state
            /\ proc[sweep.i].parent = 0 => proc'[sweep.i].parent = 0
            /\ proc'[sweep.i].thread = proc[sweep.i].thread /\ proc'[sweep.i].space = proc[sweep.i].space
    BY <1>6 DEF IInv, SweepInv
  <2> QED  BY <2>1 DEF IInv, SweepInv
<1>12. WaitInv'
  <2> SUFFICES ASSUME NEW u \in Tasks, wait'[u] # NoWait
               PROVE  /\ task'[u].state \in {"ready", "running"}
                      /\ wait'[u].slot \in Procs
                      /\ proc'[wait'[u].slot].state # "unused" /\ proc'[wait'[u].slot].pid = wait'[u].pid
                      /\ \/ \E q \in Procs : proc'[q].thread = u /\ wait'[u].slot \in proc'[q].kids
                         \/ Parted(u)'
    BY DEF WaitInv
  <2>0. u \notin W /\ u \notin V /\ wait'[u] = wait[u] /\ task'[u] = task[u]
    BY <1>2, <1>3
  <2>1. /\ wait[u].slot \in Procs /\ wait[u].slot # p
        /\ task[u].state \in {"ready", "running"}
        /\ proc[wait[u].slot].state # "unused" /\ proc[wait[u].slot].pid = wait[u].pid
        /\ \/ \E q \in Procs : proc[q].thread = u /\ wait[u].slot \in proc[q].kids
           \/ Parted(u)
    BY <2>0 DEF IInv, WaitInv
  <2>2. CASE \E q \in Procs : proc[q].thread = u /\ wait[u].slot \in proc[q].kids
    <3>1. PICK q \in Procs : proc[q].thread = u /\ wait[u].slot \in proc[q].kids
      BY <2>2
    <3>2. q # p
      BY <1>1, <2>0, <2>1, <3>1
    <3>3. /\ proc'[wait[u].slot].state = proc[wait[u].slot].state
          /\ proc'[wait[u].slot].pid = proc[wait[u].slot].pid
      BY <1>6, <2>1
    <3>4. proc'[q].thread = u /\ wait[u].slot \in proc'[q].kids
      BY <1>6, <2>1, <3>1, <3>2
    <3> QED  BY <2>0, <2>1, <3>3, <3>4
  <2>3. CASE Parted(u)
    <3>1. sweep' = sweep /\ sweep.i \in Procs /\ sweep.i # p
      BY <2>3 DEF Parted, IInv, SweepInv
    <3>2. /\ proc'[sweep.i].thread = proc[sweep.i].thread
          /\ proc[wait[u].slot].parent = 0 => proc'[wait[u].slot].parent = 0
      BY <1>6, <2>1, <3>1
    <3>3. Parted(u)'
      BY <2>0, <2>3, <3>1, <3>2 DEF Parted
    <3>4. /\ proc'[wait[u].slot].state = proc[wait[u].slot].state
          /\ proc'[wait[u].slot].pid = proc[wait[u].slot].pid
      BY <1>6, <2>1
    <3> QED  BY <2>0, <2>1, <3>3, <3>4
  <2> QED  BY <2>1, <2>2, <2>3
<1> QED  BY <1>2, <1>7, <1>8, <1>9, <1>10, <1>11, <1>12 DEF IInv

\* A process is waited for by one task, and not while the sweep is at it.
LEMMA OneWaiter ==
    ASSUME IInv, NEW t \in Tasks, wait[t] # NoWait
    PROVE  /\ wait[t].slot \in Procs
           /\ \A u \in Tasks : wait[u] # NoWait /\ wait[u].slot = wait[t].slot => u = t
           /\ sweep.step \in {"thread", "space", "free"} => sweep.i # wait[t].slot
<1>1. \A u \in Tasks : wait[u] # NoWait =>
        /\ wait[u].slot \in Procs
        /\ \/ \E q \in Procs : /\ proc[q].thread = u /\ wait[u].slot \in proc[q].kids
                               /\ proc[wait[u].slot].parent = q
           \/ Parted(u)
  BY DEF IInv, WaitInv, KidsInv
<1>2. 0 \notin Procs
  BY MainIsTask
<1>3. \A u \in Tasks : wait[u] # NoWait /\ wait[u].slot = wait[t].slot => u = t
  BY <1>1, <1>2 DEF Parted
<1>4. sweep.step \in {"thread", "space", "free"} => sweep.i # wait[t].slot
  BY <1>1, <1>2 DEF Parted, IInv, SweepInv
<1> QED  BY <1>1, <1>3, <1>4

LEMMA WaitReapStep ==
    ASSUME IInv, WaitReap
    PROVE  IInv'
<1> DEFINE p == wait[cur].slot
<1>0. /\ cur \in Tasks /\ wait[cur] # NoWait /\ ~Active(p) /\ Destroy(p) /\ UNCHANGED <<cur, sweep>>
      /\ wait' = WaitsWithout({cur} \union Victim(proc[p].thread))
  BY QueueFacts DEF WaitReap
<1>1. /\ p \in Procs /\ \A t \in Tasks : wait[t] # NoWait /\ wait[t].slot = p => t \in {cur}
      /\ sweep.step \in {"thread", "space", "free"} => sweep.i # p
  BY <1>0, OneWaiter
<1> HIDE DEF p
<1> QED  BY <1>0, <1>1, DestroyStep

\* A process loses its thread, which has not got the processor: it is killed, or
\* the sweep is at it.
LEMMA ThreadGone ==
    ASSUME IInv, NEW p \in Procs, cur = Main, UNCHANGED <<cur, spaces>>,
           KillTasks(Victim(proc[p].thread)), wait' = WaitsWithout(Victim(proc[p].thread)),
           proc' \in [Procs -> ProcRecs],
           proc'[p].thread = 0, proc'[p].state # "unused",
           \A q \in Procs : /\ proc'[q].pid = proc[q].pid /\ proc'[q].space = proc[q].space
                            /\ proc'[q].own = proc[q].own /\ proc'[q].parent = proc[q].parent
                            /\ proc'[q].kids = proc[q].kids
                            /\ q # p => proc'[q].thread = proc[q].thread /\ proc'[q].state = proc[q].state,
           sweep.step = "thread" => sweep.i = p,
           sweep' \in [i : 0..(NP + 1), step : {"none", "look", "thread", "space", "free"},
                       goal : {"none", "poll", "spawn"}],
           SweepInv'
    PROVE  IInv'
<1> DEFINE V == Victim(proc[p].thread)
<1>1. /\ V \subseteq Tasks \ {cur, Main}
      /\ \A t \in Tasks : t = proc[p].thread => t \in V \/ task[t].state = "unused"
      /\ KillTasks(V) /\ wait' = WaitsWithout(V)
  BY VictimFacts DEF IInv, SlotInv
<1> HIDE DEF V
<1>2. /\ TasksTyped' /\ QueueInv'
      /\ \A t \in Tasks : /\ t \in V => task'[t] = UnusedTask
                          /\ t \notin V => task'[t] = task[t]
  BY <1>1, KillStep
<1>3. /\ wait' \in [Tasks -> [slot : Procs \union {0}, pid : Names \union {0}]]
      /\ \A t \in Tasks : /\ t \in V => wait'[t] = NoWait
                          /\ t \notin V => wait'[t] = wait[t]
  BY <1>1, WaitsLeft
<1>4. TypeOK'
  <2>1. TypeOK
    BY DEF IInv
  <2> QED  BY <1>2, <1>3, <2>1, TypedParts DEF TypeOK, TasksTyped, TaskRecs, ProcRecs
<1>5. SlotInv'
  BY MainIsTask DEF IInv, SlotInv
<1>6. KidsInv'
  BY ProcFacts DEF IInv, KidsInv
<1>7. SpaceInv'
  <2>1. \A q \in Procs : proc'[q].space = proc[q].space
    OBVIOUS
  <2>2. SpacesOwned'
    BY <2>1 DEF IInv, SpaceInv, SpacesOwned
  <2>3. \A t \in Tasks \ {Main} : Alive(t)' =>
           \E q \in Procs : proc'[q].thread = t /\ proc'[q].space = task'[t].space /\ proc'[q].space # 0
    <3> SUFFICES ASSUME NEW t \in Tasks \ {Main}, Alive(t)'
                 PROVE  \E q \in Procs : proc'[q].thread = t /\ proc'[q].space = task'[t].space /\ proc'[q].space # 0
      OBVIOUS
    <3>1. t \notin V /\ task'[t] = task[t] /\ Alive(t)
      BY <1>2 DEF Alive, UnusedTask
    <3>2. PICK q \in Procs : proc[q].thread = t /\ proc[q].space = task[t].space /\ proc[q].space # 0
      BY <3>1 DEF IInv, SpaceInv
    <3>3. q # p
      BY <1>1, <3>1, <3>2 DEF Alive
    <3> QED  BY <2>1, <3>1, <3>2, <3>3
  <2> QED  BY <2>1, <2>2, <2>3 DEF IInv, SpaceInv
<1>8. WaitInv'
  <2> SUFFICES ASSUME NEW u \in Tasks, wait'[u] # NoWait
               PROVE  /\ task'[u].state \in {"ready", "running"}
                      /\ wait'[u].slot \in Procs
                      /\ proc'[wait'[u].slot].state # "unused" /\ proc'[wait'[u].slot].pid = wait'[u].pid
                      /\ \E q \in Procs : proc'[q].thread = u /\ wait'[u].slot \in proc'[q].kids
    BY DEF WaitInv
  <2>1. u \notin V /\ wait'[u] = wait[u] /\ task'[u] = task[u]
    BY <1>2, <1>3
  <2>2. /\ wait[u].slot \in Procs
        /\ task[u].state \in {"ready", "running"}
        /\ proc[wait[u].slot].state # "unused" /\ proc[wait[u].slot].pid = wait[u].pid
        /\ \/ \E q \in Procs : proc[q].thread = u /\ wait[u].slot \in proc[q].kids
           \/ Parted(u)
    BY <2>1 DEF IInv, WaitInv
  <2>3. proc[p].thread # u
    BY <1>1, <2>1, <2>2
  <2>4. PICK q \in Procs : proc[q].thread = u /\ wait[u].slot \in proc[q].kids
    BY <2>2, <2>3 DEF Parted
  <2>5. proc'[q].thread = u /\ wait[u].slot \in proc'[q].kids
    BY <2>3, <2>4
  <2>6. /\ proc'[wait[u].slot].state # "unused" /\ proc'[wait[u].slot].pid = proc[wait[u].slot].pid
    BY <2>2
  <2> QED  BY <2>1, <2>2, <2>5, <2>6
<1> QED  BY <1>2, <1>4, <1>5, <1>6, <1>7, <1>8 DEF IInv

LEMMA KilledFields ==
    ASSUME IInv, NEW p \in Procs, proc' = [proc EXCEPT ![p].state = "zombie", ![p].thread = 0]
    PROVE  /\ proc' \in [Procs -> ProcRecs]
           /\ proc'[p].thread = 0 /\ proc'[p].state # "unused"
           /\ \A q \in Procs : /\ proc'[q].pid = proc[q].pid /\ proc'[q].space = proc[q].space
                               /\ proc'[q].own = proc[q].own /\ proc'[q].parent = proc[q].parent
                               /\ proc'[q].kids = proc[q].kids
                               /\ q # p => proc'[q].thread = proc[q].thread /\ proc'[q].state = proc[q].state
<1> DEFINE z == [proc[p] EXCEPT !.state = "zombie", !.thread = 0]
<1>1. /\ z \in ProcRecs /\ z.thread = 0 /\ z.state = "zombie" /\ z.pid = proc[p].pid
      /\ z.space = proc[p].space /\ z.own = proc[p].own /\ z.parent = proc[p].parent
      /\ z.kids = proc[p].kids
  <2>1. proc[p] \in ProcRecs
    BY ProcFacts
  <2> QED  BY <2>1 DEF ProcRecs
<1>2. proc' = [proc EXCEPT ![p] = z]
  BY ProcFacts
<1> HIDE DEF z
<1>3. proc'[p] = z /\ \A q \in Procs : q # p => proc'[q] = proc[q]
  BY <1>2, ProcFacts
<1>4. proc' \in [Procs -> ProcRecs]
  <2>1. \A q \in Procs : proc'[q] \in ProcRecs
    BY <1>1, <1>3, ProcFacts
  <2> QED  BY <1>2, <2>1, ProcFacts
<1> QED  BY <1>1, <1>3, <1>4

\* process_kill of the first live process.
LEMMA ProcessKillStep ==
    ASSUME IInv, NEW p \in Procs, Kill(p)
    PROVE  IInv'
<1>0. /\ cur = Main /\ sweep = NoSweep /\ sweep.step = "none" /\ UNCHANGED <<cur, sweep>>
      /\ wait' = WaitsWithout(Victim(proc[p].thread))
  BY DEF Kill, InKernel, NoSweep
<1>1. CASE proc[p].parent = 0
  <2>1. Destroy(p)
    BY <1>1 DEF Kill
  <2>2. \A t \in Tasks : wait[t] # NoWait => wait[t].slot # p
    BY <1>0, <1>1, MainIsTask DEF IInv, WaitInv, KidsInv, Parted
  <2>3. proc[p].thread # cur
    BY <1>0 DEF IInv, SlotInv
  <2> DEFINE W == {}
  <2>4. W \in SUBSET {cur} /\ W \union Victim(proc[p].thread) = Victim(proc[p].thread)
    OBVIOUS
  <2> HIDE DEF W
  <2>5. wait' = WaitsWithout(W \union Victim(proc[p].thread))
    BY <1>0, <2>4
  <2> QED  BY <1>0, <2>1, <2>2, <2>3, <2>4, <2>5, DestroyStep
<1>2. CASE proc[p].parent # 0
  <2>0. /\ KillTasks(Victim(proc[p].thread)) /\ spaces' = spaces
        /\ proc' = [proc EXCEPT ![p].state = "zombie", ![p].thread = 0]
    BY <1>2 DEF Kill
  <2>1. /\ proc' \in [Procs -> ProcRecs]
        /\ proc'[p].thread = 0 /\ proc'[p].state # "unused"
        /\ \A q \in Procs : /\ proc'[q].pid = proc[q].pid /\ proc'[q].space = proc[q].space
                            /\ proc'[q].own = proc[q].own /\ proc'[q].parent = proc[q].parent
                            /\ proc'[q].kids = proc[q].kids
                            /\ q # p => proc'[q].thread = proc[q].thread /\ proc'[q].state = proc[q].state
    BY <2>0, KilledFields
  <2>2. /\ sweep' \in [i : 0..(NP + 1), step : {"none", "look", "thread", "space", "free"},
                       goal : {"none", "poll", "spawn"}]
        /\ SweepInv'
    BY <1>0 DEF IInv, TypeOK, SweepInv
  <2> QED  BY <1>0, <2>0, <2>1, <2>2, ThreadGone
<1> QED  BY <1>1, <1>2

-----------------------------------------------------------------------------
(* The sweep of the kernel's thread *)

LEMMA NextSlotFacts ==
    ASSUME IInv, sweep.i \in Procs
    PROVE  /\ NextSlot \in [i : 0..(NP + 1), step : {"none", "look", "thread", "space", "free"},
                            goal : {"none", "poll", "spawn"}]
           /\ NextSlot.i > 0 /\ NextSlot.step = "look" /\ NextSlot # NoSweep
<1> DEFINE k == sweep.i + 1
<1>1. k \in 0..(NP + 1) /\ k > 0
  BY ProcessesAssumption DEF Procs
<1>2. NextSlot = [sweep EXCEPT !.i = k, !.step = "look"]
  BY DEF NextSlot
<1> HIDE DEF k
<1>3. NextSlot.i = k /\ NextSlot.step = "look" /\ NextSlot.goal = sweep.goal
      /\ NextSlot \in [i : 0..(NP + 1), step : {"none", "look", "thread", "space", "free"},
                       goal : {"none", "poll", "spawn"}]
  BY <1>1, <1>2 DEF IInv, TypeOK
<1> QED  BY <1>1, <1>3 DEF NoSweep

LEMMA SweepMoveSteps ==
    ASSUME IInv,
           SweepStart("poll") \/ SweepStart("spawn") \/ SweepSkip \/ SweepEnd
    PROVE  IInv'
<1> DEFINE R == [i : 0..(NP + 1), step : {"none", "look", "thread", "space", "free"},
                 goal : {"none", "poll", "spawn"}]
<1>0. UNCHANGED <<task, runq, cur, proc, spaces, wait>> /\ sweep \in R /\ NoSweep \in R
  BY ProcessesAssumption DEF SweepStart, SweepSkip, SweepEnd, IInv, TypeOK, NoSweep
<1>1. CASE SweepStart("poll") \/ SweepStart("spawn")
  <2>1. sweep.step = "none" /\ sweep'.step = "look" /\ sweep' \in R /\ sweep'.i > 0 /\ sweep' # NoSweep
    BY <1>1, ProcessesAssumption DEF SweepStart, InKernel, NoSweep
  <2> QED  BY <1>0, <2>1, SweepMoves
<1>2. CASE SweepSkip
  <2>1. sweep.step = "look" /\ sweep' = NextSlot /\ sweep.i \in Procs
    BY <1>2 DEF SweepSkip
  <2>2. sweep'.step = "look" /\ sweep' \in R /\ sweep'.i > 0 /\ sweep' # NoSweep
    BY <2>1, NextSlotFacts
  <2> QED  BY <1>0, <2>1, <2>2, SweepMoves
<1>3. CASE SweepEnd
  <2>1. sweep.i = NP + 1 /\ NP + 1 \notin Procs /\ NP + 1 # 0 /\ sweep' = NoSweep
    BY <1>3, ProcessesAssumption DEF SweepEnd, SweepDone, Procs
  <2>2. sweep.step = "look" /\ sweep'.step = "none"
    BY <1>0, <2>1 DEF IInv, SweepInv, NoSweep
  <2> QED  BY <1>0, <2>1, <2>2, SweepMoves
<1> QED  BY <1>1, <1>2, <1>3

\* Children are orphans now; if the thread waits for one of them, it is Parted.
LEMMA SweepDetachStep ==
    ASSUME IInv, SweepDetach
    PROVE  IInv'
<1> DEFINE p == sweep.i
           D == Detached(p)
<1>0. /\ p \in Procs /\ sweep.step = "look" /\ proc[p].state = "zombie" /\ proc[p].parent = 0
      /\ proc' = D /\ sweep' = [sweep EXCEPT !.step = "thread"]
      /\ UNCHANGED <<task, runq, cur, spaces, wait>>
  BY DEF SweepDetach, Orphan
<1>1. /\ sweep' \in [i : 0..(NP + 1), step : {"none", "look", "thread", "space", "free"},
                     goal : {"none", "poll", "spawn"}]
      /\ sweep'.i = sweep.i /\ sweep'.step = "thread"
  BY <1>0 DEF IInv, TypeOK
<1>2. /\ D \in [Procs -> ProcRecs]
      /\ \A q \in Procs :
            /\ D[q].state = proc[q].state /\ D[q].pid = proc[q].pid
            /\ D[q].thread = proc[q].thread /\ D[q].space = proc[q].space
            /\ D[q].own = proc[q].own
      /\ D[p].parent = 0 /\ D[p].kids = {}
  BY <1>0, DetachedFacts
<1>3. \A q \in Procs : q # p =>
            /\ D[q].parent = IF q \in proc[p].kids THEN 0 ELSE proc[q].parent
            /\ D[q].kids = IF q = proc[p].parent THEN proc[q].kids \ {p} ELSE proc[q].kids
  BY <1>0, DetachedFacts
<1> HIDE DEF D, p
<1>4. \A q \in Procs : q # p => proc'[q].kids = proc[q].kids
  BY <1>0, <1>3, MainIsTask
<1>5. /\ proc' \in [Procs -> ProcRecs]
      /\ \A q \in Procs :
            /\ proc'[q].state = proc[q].state /\ proc'[q].pid = proc[q].pid
            /\ proc'[q].thread = proc[q].thread /\ proc'[q].space = proc[q].space
            /\ proc[q].parent = 0 => proc'[q].parent = 0
      /\ proc'[p].kids = {}
  BY <1>0, <1>2, <1>3
<1>6. TypeOK'
  <2>1. TypeOK
    BY DEF IInv
  <2> QED  BY <1>0, <1>1, <1>5, <2>1, TypedParts DEF TypeOK, TasksTyped, TaskRecs, ProcRecs
<1>7. QueueInv'
  BY <1>0 DEF IInv, QueueInv, QueueSound, Alive
<1>8. SlotInv'
  BY <1>0, <1>4, <1>5 DEF IInv, SlotInv
<1>9. KidsInv'
  <2> SUFFICES ASSUME NEW q \in Procs, NEW c \in proc'[q].kids
               PROVE  proc'[c].parent = q /\ proc'[c].state # "unused"
    BY DEF KidsInv
  <2>1. q # p /\ c \in proc[q].kids
    BY <1>4, <1>5
  <2>2. c \in Procs /\ proc[c].parent = q /\ proc[c].state # "unused"
    BY <2>1, ProcFacts DEF IInv, KidsInv
  <2>3. c # p /\ c \notin proc[p].kids
    BY <1>0, <2>1, <2>2, MainIsTask DEF IInv, KidsInv
  <2> QED  BY <1>0, <1>3, <1>5, <2>2, <2>3
<1>10. SpaceInv'
  <2>1. \A q \in Procs : proc'[q].space = proc[q].space /\ proc'[q].thread = proc[q].thread
    BY <1>5
  <2> QED  BY <1>0, <2>1 DEF IInv, SpaceInv, SpacesOwned, Alive
<1>11. SweepInv'
  BY <1>0, <1>1, <1>5 DEF SweepInv, NoSweep, p
<1>12. WaitInv'
  <2> SUFFICES ASSUME NEW u \in Tasks, wait[u] # NoWait
               PROVE  /\ task[u].state \in {"ready", "running"}
                      /\ wait[u].slot \in Procs
                      /\ proc'[wait[u].slot].state # "unused" /\ proc'[wait[u].slot].pid = wait[u].pid
                      /\ \/ \E q \in Procs : proc'[q].thread = u /\ wait[u].slot \in proc'[q].kids
                         \/ Parted(u)'
    BY <1>0 DEF WaitInv
  <2>1. /\ wait[u].slot \in Procs
        /\ task[u].state \in {"ready", "running"}
        /\ proc[wait[u].slot].state # "unused" /\ proc[wait[u].slot].pid = wait[u].pid
        /\ \E q \in Procs : proc[q].thread = u /\ wait[u].slot \in proc[q].kids
    BY <1>0 DEF IInv, WaitInv, Parted
  <2>2. PICK q \in Procs : proc[q].thread = u /\ wait[u].slot \in proc[q].kids
    BY <2>1
  <2>3. proc'[wait[u].slot].state # "unused" /\ proc'[wait[u].slot].pid = wait[u].pid
    BY <1>5, <2>1
  <2>4. CASE q # p
    BY <1>4, <1>5, <2>1, <2>2, <2>3, <2>4
  <2>5. CASE q = p
    <3>1. wait[u].slot # p
      BY <1>0, <2>2, <2>5, MainIsTask DEF IInv, KidsInv
    <3>2. proc'[wait[u].slot].parent = 0
      BY <1>0, <1>3, <2>1, <2>2, <2>5, <3>1
    <3>3. Parted(u)'
      BY <1>0, <1>1, <1>5, <2>2, <2>5, <3>1, <3>2 DEF Parted, p
    <3> QED  BY <2>1, <2>3, <3>3
  <2> QED  BY <2>4, <2>5
<1> QED  BY <1>6, <1>7, <1>8, <1>9, <1>10, <1>11, <1>12 DEF IInv

LEMMA SweepThreadStep ==
    ASSUME IInv, SweepThread
    PROVE  IInv'
<1> DEFINE p == sweep.i
<1>0. /\ cur = Main /\ sweep.step = "thread" /\ UNCHANGED <<cur, spaces>>
      /\ KillTasks(Victim(proc[p].thread)) /\ wait' = WaitsWithout(Victim(proc[p].thread))
      /\ proc' = [proc EXCEPT ![p].thread = 0] /\ sweep' = [sweep EXCEPT !.step = "space"]
  BY DEF SweepThread
<1>1. p \in Procs /\ proc[p].state = "zombie" /\ proc[p].parent = 0
  BY <1>0 DEF IInv, SweepInv
<1>2. /\ proc' \in [Procs -> ProcRecs]
      /\ proc'[p].thread = 0 /\ proc'[p].state = "zombie"
      /\ \A q \in Procs : /\ proc'[q].pid = proc[q].pid /\ proc'[q].space = proc[q].space
                          /\ proc'[q].own = proc[q].own /\ proc'[q].parent = proc[q].parent
                          /\ proc'[q].kids = proc[q].kids
                          /\ q # p => proc'[q].thread = proc[q].thread /\ proc'[q].state = proc[q].state
  BY <1>0, <1>1, ProcFacts DEF ProcRecs
<1>3. /\ sweep' \in [i : 0..(NP + 1), step : {"none", "look", "thread", "space", "free"},
                     goal : {"none", "poll", "spawn"}]
      /\ sweep'.i = p /\ sweep'.step = "space"
  BY <1>0 DEF IInv, TypeOK
<1> HIDE DEF p
<1>4. SweepInv'
  BY <1>1, <1>2, <1>3 DEF SweepInv, NoSweep
<1> QED  BY <1>0, <1>1, <1>2, <1>3, <1>4, ThreadGone DEF p

\* The page tables of a process without a thread.
LEMMA SweepSpaceStep ==
    ASSUME IInv, SweepSpace
    PROVE  IInv'
<1> DEFINE p == sweep.i
<1>0. /\ sweep.step = "space" /\ UNCHANGED <<task, runq, cur, wait>>
      /\ spaces' = spaces \ {proc[p].space}
      /\ proc' = [proc EXCEPT ![p].space = 0] /\ sweep' = [sweep EXCEPT !.step = "free"]
  BY DEF SweepSpace
<1>1. p \in Procs /\ proc[p].state = "zombie" /\ proc[p].parent = 0 /\ proc[p].thread = 0
  BY <1>0 DEF IInv, SweepInv
<1>2. /\ proc' \in [Procs -> ProcRecs] /\ proc'[p].space = 0
      /\ \A q \in Procs : /\ proc'[q].pid = proc[q].pid /\ proc'[q].thread = proc[q].thread
                          /\ proc'[q].own = proc[q].own /\ proc'[q].parent = proc[q].parent
                          /\ proc'[q].kids = proc[q].kids /\ proc'[q].state = proc[q].state
                          /\ q # p => proc'[q].space = proc[q].space
  BY <1>0, <1>1, ProcFacts DEF ProcRecs
<1>3. /\ sweep' \in [i : 0..(NP + 1), step : {"none", "look", "thread", "space", "free"},
                     goal : {"none", "poll", "spawn"}]
      /\ sweep'.i = p /\ sweep'.step = "free"
  BY <1>0 DEF IInv, TypeOK
<1> HIDE DEF p
<1>4. TypeOK'
  <2>1. TypeOK
    BY DEF IInv
  <2>2. spaces' \subseteq Names
    BY <1>0, ProcFacts
  <2> QED  BY <1>0, <1>2, <1>3, <2>1, <2>2, TypedParts DEF TypeOK, TasksTyped, TaskRecs, ProcRecs
<1>5. QueueInv'
  BY <1>0 DEF IInv, QueueInv, QueueSound, Alive
<1>6. SlotInv' /\ SweepInv'
  BY <1>1, <1>2, <1>3 DEF IInv, SlotInv, SweepInv, NoSweep
<1>7. KidsInv'
  BY <1>2, ProcFacts DEF IInv, KidsInv
<1>8. SpaceInv'
  <2>1. \A q \in Procs \ {p} : proc[q].space \in spaces' \union {0}
    BY <1>0, <1>1 DEF IInv, SpaceInv
  <2>2. \A q \in Procs : proc'[q].space \in spaces' \union {0}
    BY <1>2, <2>1
  <2>3. \A q, r \in Procs : proc'[q].space = proc'[r].space => q = r \/ proc'[q].space = 0
    <3>1. \A q, r \in Procs : proc[q].space = proc[r].space => q = r \/ proc[q].space = 0
      BY DEF IInv, SpaceInv
    <3>2. proc'[p].space = 0 /\ \A q \in Procs \ {p} : proc'[q].space = proc[q].space
      BY <1>2
    <3> QED  BY <3>1, <3>2
  <2>4. SpacesOwned'
    <3>1. \A x \in spaces' : \E q \in Procs \ {p} : proc[q].space = x
      BY <1>0, <1>1 DEF IInv, SpaceInv, SpacesOwned
    <3>2. \A q \in Procs \ {p} : proc'[q].space = proc[q].space
      BY <1>2
    <3>3. \A x \in spaces' : \E q \in Procs : proc'[q].space = x
      BY <3>1, <3>2
    <3> QED  BY <3>3 DEF SpacesOwned
  <2>5. \A t \in Tasks \ {Main} : Alive(t)' =>
           \E q \in Procs : proc'[q].thread = t /\ proc'[q].space = task'[t].space /\ proc'[q].space # 0
    <3>1. \A t \in Tasks \ {Main} : Alive(t) =>
             \E q \in Procs : proc[q].thread = t /\ proc[q].space = task[t].space /\ proc[q].space # 0
      BY DEF IInv, SpaceInv
    <3>2. \A q \in Procs : proc[q].thread # 0 =>
            proc'[q].thread = proc[q].thread /\ proc'[q].space = proc[q].space
      BY <1>1, <1>2
    <3> QED  BY <1>0, <3>1, <3>2, MainIsTask DEF Alive
  <2> QED  BY <2>2, <2>3, <2>4, <2>5 DEF SpaceInv
<1>9. WaitInv'
  BY <1>0, <1>2, <1>3 DEF IInv, WaitInv, Parted
<1> QED  BY <1>4, <1>5, <1>6, <1>7, <1>8, <1>9 DEF IInv

\* The slot of a process that nobody knows any more.
LEMMA SweepFreeStep ==
    ASSUME IInv, SweepFree
    PROVE  IInv'
<1> DEFINE p == sweep.i
<1>0. /\ sweep.step = "free" /\ UNCHANGED <<task, runq, cur, spaces, wait>>
      /\ proc' = [proc EXCEPT ![p] = UnusedProc] /\ sweep' = NextSlot
  BY DEF SweepFree
<1>1. /\ p \in Procs /\ proc[p].state = "zombie" /\ proc[p].parent = 0
      /\ proc[p].thread = 0 /\ proc[p].space = 0
  BY <1>0 DEF IInv, SweepInv
<1>2. /\ UnusedProc \in ProcRecs /\ UnusedProc.state = "unused" /\ UnusedProc.thread = 0
      /\ UnusedProc.space = 0 /\ UnusedProc.parent = 0 /\ UnusedProc.kids = {}
  BY UnusedFields
<1>3. /\ proc' \in [Procs -> ProcRecs] /\ proc'[p] = UnusedProc
      /\ \A q \in Procs \ {p} : proc'[q] = proc[q]
  <2> HIDE DEF UnusedProc
  <2> QED  BY <1>0, <1>1, <1>2, ProcFacts
<1>4. /\ sweep' \in [i : 0..(NP + 1), step : {"none", "look", "thread", "space", "free"},
                     goal : {"none", "poll", "spawn"}]
      /\ sweep'.i > 0 /\ sweep'.step = "look" /\ sweep' # NoSweep
  BY <1>0, <1>1, NextSlotFacts
<1> HIDE DEF p, UnusedProc
<1>5. TypeOK'
  <2>1. TypeOK
    BY DEF IInv
  <2> QED  BY <1>0, <1>3, <1>4, <2>1, TypedParts DEF TypeOK, TasksTyped, TaskRecs, ProcRecs
<1>6. QueueInv'
  BY <1>0 DEF IInv, QueueInv, QueueSound, Alive
<1>7. SlotInv' /\ SweepInv'
  BY <1>2, <1>3, <1>4, MainIsTask DEF IInv, SlotInv, SweepInv
<1>8. \A q \in Procs : p \notin proc[q].kids
  BY <1>1, MainIsTask DEF IInv, KidsInv
<1>9. KidsInv'
  BY <1>2, <1>3, <1>8, ProcFacts DEF IInv, KidsInv
<1>10. SpaceInv'
  <2>1. \A q \in Procs : proc'[q].space = proc[q].space /\ proc'[q].thread = proc[q].thread
    BY <1>1, <1>2, <1>3
  <2> QED  BY <1>0, <2>1 DEF IInv, SpaceInv, SpacesOwned, Alive
<1>11. WaitInv'
  <2> SUFFICES ASSUME NEW u \in Tasks, wait[u] # NoWait
               PROVE  /\ task[u].state \in {"ready", "running"}
                      /\ wait[u].slot \in Procs
                      /\ proc'[wait[u].slot].state # "unused" /\ proc'[wait[u].slot].pid = wait[u].pid
                      /\ \E q \in Procs : proc'[q].thread = u /\ wait[u].slot \in proc'[q].kids
    BY <1>0 DEF WaitInv
  <2>1. /\ wait[u].slot \in Procs
        /\ task[u].state \in {"ready", "running"}
        /\ proc[wait[u].slot].state # "unused" /\ proc[wait[u].slot].pid = wait[u].pid
        /\ \E q \in Procs : proc[q].thread = u /\ wait[u].slot \in proc[q].kids
    BY <1>0 DEF IInv, WaitInv, Parted
  <2>2. PICK q \in Procs : proc[q].thread = u /\ wait[u].slot \in proc[q].kids
    BY <2>1
  <2>3. q # p /\ wait[u].slot # p
    BY <1>1, <1>8, <2>2, MainIsTask
  <2> QED  BY <1>3, <2>1, <2>2, <2>3
<1> QED  BY <1>5, <1>6, <1>7, <1>9, <1>10, <1>11 DEF IInv

-----------------------------------------------------------------------------
(* The theorems that hold with and without the timer *)

LEMMA InitIInv == Init => IInv
<1> SUFFICES ASSUME Init PROVE IInv
  OBVIOUS
<1>0. Main \in Tasks /\ Main # 0 /\ 0 \notin Tasks /\ 0 \notin Procs /\ 1 \in Names
  BY MainIsTask, ProcessesAssumption DEF Names
<1> DEFINE M == [state |-> "running", pid |-> 1, space |-> 0]
<1>1. /\ UnusedProc \in ProcRecs /\ UnusedProc.state = "unused" /\ UnusedProc.thread = 0
      /\ UnusedProc.space = 0 /\ UnusedProc.parent = 0 /\ UnusedProc.kids = {}
  BY UnusedFields
<1>2. /\ UnusedTask \in TaskRecs /\ UnusedTask.state = "unused"
      /\ M \in TaskRecs /\ M.state = "running" /\ M.space = 0
  BY <1>0 DEF UnusedTask, TaskRecs
<1>3. /\ task = [t \in Tasks |-> IF t = Main THEN M ELSE UnusedTask]
      /\ runq = <<Main>> /\ cur = Main /\ proc = [p \in Procs |-> UnusedProc]
      /\ spaces = {} /\ wait = [t \in Tasks |-> NoWait] /\ sweep = NoSweep
  BY DEF Init
<1> HIDE DEF M, UnusedTask, UnusedProc
<1>4. /\ task \in [Tasks -> TaskRecs] /\ task[Main] = M
      /\ \A t \in Tasks : t # Main => task[t] = UnusedTask
  BY <1>0, <1>2, <1>3
<1>5. /\ proc \in [Procs -> ProcRecs] /\ \A p \in Procs : proc[p] = UnusedProc
      /\ \A t \in Tasks : wait[t] = NoWait
  BY <1>1, <1>3
<1>6. /\ wait \in [Tasks -> [slot : Procs \union {0}, pid : Names \union {0}]]
      /\ sweep \in [i : 0..(NP + 1), step : {"none", "look", "thread", "space", "free"},
                    goal : {"none", "poll", "spawn"}]
  BY <1>3, ProcessesAssumption DEF NoWait, NoSweep
<1>7. TypeOK
  <2>1. TasksTyped /\ spaces \subseteq Names
    BY <1>0, <1>3, <1>4 DEF TasksTyped
  <2> QED  BY <1>5, <1>6, <2>1, TypedParts
<1>8. QueueInv
  <2>1. {runq[i] : i \in DOMAIN runq} = {Main} /\ \A i, k \in DOMAIN runq : i = k
    BY <1>3
  <2>2. {t \in Tasks : task[t].state # "unused"} = {Main}
    BY <1>0, <1>2, <1>4
  <2>3. \A t \in Tasks : task[t].state = "running" => t = cur
    BY <1>2, <1>3, <1>4
  <2>4. /\ task[cur].state = "running"
        /\ task[Main].state \in {"ready", "running"} /\ task[Main].space = 0
    BY <1>2, <1>3, <1>4
  <2> QED  BY <2>1, <2>2, <2>3, <2>4 DEF QueueInv, QueueSound, Alive
<1>9. SlotInv /\ KidsInv
  BY <1>0, <1>1, <1>5 DEF SlotInv, KidsInv
<1>10. SpaceInv
  <2>1. \A t \in Tasks \ {Main} : ~Alive(t)
    BY <1>2, <1>4 DEF Alive
  <2> QED  BY <1>1, <1>3, <1>5, <2>1 DEF SpaceInv, SpacesOwned
<1>11. WaitInv /\ SweepInv
  BY <1>3, <1>5 DEF WaitInv, SweepInv, NoSweep
<1> QED  BY <1>7, <1>8, <1>9, <1>10, <1>11 DEF IInv

LEMMA NextIInv ==
    ASSUME ~WaitAny, IInv, [Next]_vars
    PROVE  IInv'
<1>1. CASE UNCHANGED vars
  BY <1>1 DEF vars, IInv, TypeOK, QueueInv, QueueSound, SlotInv, KidsInv, SpaceInv, SpacesOwned,
              Alive, WaitInv, Parted, SweepInv
<1>2. ASSUME NEW woken \in SUBSET Sleeping,
             Tick(woken, TRUE) \/ Tick(woken, FALSE) \/ TickGuarded(woken)
      PROVE  IInv'
  BY <1>2, TickStep, TickGuardedStep
<1>3. CASE Yield \/ Sleep \/ WaitYield
  BY <1>3, YieldStep, SleepStep
<1>4. CASE Fork \/ Exec \/ Exit \/ WaitReap
  BY <1>4, ForkStep, ExecStep, ExitStep, WaitReapStep
<1>5. ASSUME NEW c \in Procs, Wait(c) \/ Kill(c)
      PROVE  IInv'
  BY <1>5, WaitStep, ProcessKillStep
<1>6. CASE SweepStart("poll") \/ SweepStart("spawn") \/ Sweep
  BY <1>6, SweepMoveSteps, SweepDetachStep, SweepThreadStep, SweepSpaceStep, SweepFreeStep DEF Sweep
<1>7. CASE Spawn
  BY <1>7, SpawnStep
<1> QED  BY <1>1, <1>2, <1>3, <1>4, <1>5, <1>6, <1>7 DEF Next

\* The tables and the queue agree however ticks, exits, kills and the sweep
\* interleave: schedule() never picks a task slot that was given back.
THEOREM TablesStaySound == ~WaitAny => (Spec => []TablesSound)
<1> SUFFICES ASSUME ~WaitAny PROVE Spec => []TablesSound
  OBVIOUS
<1>1. IInv /\ [Next]_vars => IInv'
  BY NextIInv
<1>2. IInv => TablesSound
  BY DEF IInv, QueueInv, TablesSound
<1> QED  BY <1>1, <1>2, InitIInv, PTL DEF Spec

\* process_destroy, process_kill, exec and the interruptible sweep neither free the
\* page tables of a task that may run nor leak an address space.
THEOREM SpacesStaySound == ~WaitAny => (Spec => []SpacesSound)
<1> SUFFICES ASSUME ~WaitAny PROVE Spec => []SpacesSound
  OBVIOUS
<1>1. IInv /\ [Next]_vars => IInv'
  BY NextIInv
<1>2. IInv => SpacesSound
  <2> SUFFICES ASSUME IInv PROVE SpacesLive /\ SpacesOwned
    BY DEF SpacesSound
  <2>1. SpacesOwned
    BY DEF IInv, SpaceInv
  <2>2. ASSUME NEW t \in Tasks, Alive(t)
        PROVE  task[t].space \in spaces \union {0}
    BY <2>2, QueueFacts DEF IInv, SpaceInv
  <2> QED  BY <2>1, <2>2 DEF SpacesLive, Alive
<1> QED  BY <1>1, <1>2, InitIInv, PTL DEF Spec

\* A slot that sys_wait looks at is not given to another process before the wait
\* ends or the waiting task is killed.
THEOREM WaitsKeepTheirName == ~WaitAny => (Spec => []WaitNamed)
<1> SUFFICES ASSUME ~WaitAny PROVE Spec => []WaitNamed
  OBVIOUS
<1>1. IInv /\ [Next]_vars => IInv'
  BY NextIInv
<1>2. IInv => WaitNamed
  BY DEF IInv, WaitInv, WaitNamed
<1> QED  BY <1>1, <1>2, InitIInv, PTL DEF Spec

\* A children list leads to processes in use that name its owner, whatever a tick
\* preempts and whichever task slots are reused.
THEOREM ListsStaySound == ~WaitAny => (Spec => []ListsSound)
<1> SUFFICES ASSUME ~WaitAny PROVE Spec => []ListsSound
  OBVIOUS
<1>1. IInv /\ [Next]_vars => IInv'
  BY NextIInv
<1>2. IInv => ListsSound
  BY DEF IInv, SlotInv, KidsInv, ListsSound
<1> QED  BY <1>1, <1>2, InitIInv, PTL DEF Spec

-----------------------------------------------------------------------------
(* While every thread is the process's own: the tree, and who calls *)

\* A process and its thread die together, a tick may give the task slot back
\* first, and no two processes have the same thread.
ThreadInv ==
    /\ \A p \in Procs : proc[p].thread # 0 =>
           \/ proc[p].state = "zombie" /\ task[proc[p].thread].state = "unused"
           \/ /\ task[proc[p].thread].state # "unused"
              /\ task[proc[p].thread].pid = proc[p].own
              /\ proc[p].state = "zombie" <=> task[proc[p].thread].state = "zombie"
    /\ \A p, q \in Procs : proc[p].thread = proc[q].thread => p = q \/ proc[p].thread = 0

\* Nobody forks on behalf of the process that the sweep is destroying.
StillInv == sweep.step \in {"thread", "space", "free"} => proc[sweep.i].kids = {}

TInv == TreeConsistent /\ ThreadInv /\ StillInv

\* The process of a task that runs has not exited.
LEMMA CallerLives ==
    ASSUME TInv, IInv, NEW p \in Procs, proc[p].thread = cur, task[cur].state = "running"
    PROVE  proc[p].state # "zombie" /\ proc[p].own = task[cur].pid
BY QueueFacts, MainIsTask DEF TInv, ThreadInv

\* The processes without p, which has neither a parent nor children.
LEMMA DetachedTree ==
    ASSUME IInv, TreeConsistent, NEW p \in Procs, NEW D,
           \A q \in Procs \ {p} :
                 /\ D[q].state = proc[q].state
                 /\ D[q].parent = IF q \in proc[p].kids THEN 0 ELSE proc[q].parent
                 /\ D[q].kids = IF q = proc[p].parent THEN proc[q].kids \ {p} ELSE proc[q].kids,
           D[p].parent = 0, D[p].kids = {}
    PROVE  \A r, q \in Procs :
                 /\ q \in D[r].kids <=> (D[q].parent = r /\ D[q].state # "unused")
                 /\ q \in D[r].kids => D[r].state # "unused"
<1> SUFFICES ASSUME NEW r \in Procs, NEW q \in Procs
             PROVE  /\ q \in D[r].kids <=> (D[q].parent = r /\ D[q].state # "unused")
                    /\ q \in D[r].kids => D[r].state # "unused"
  OBVIOUS
<1>0. 0 \notin Procs
  BY MainIsTask
<1>1. /\ q \in proc[r].kids <=> (proc[q].parent = r /\ proc[q].state # "unused")
      /\ q \in proc[r].kids => proc[r].state # "unused"
      /\ q \in proc[p].kids <=> (proc[q].parent = p /\ proc[q].state # "unused")
      /\ p \in proc[r].kids <=> (proc[p].parent = r /\ proc[p].state # "unused")
      /\ proc[q].state = "unused" => proc[q].parent = 0
  BY DEF TreeConsistent, IInv, SlotInv
<1>2. CASE r = p
  BY <1>0, <1>1, <1>2
<1>3. CASE r # p /\ q = p
  BY <1>0, <1>1, <1>3
<1>4. CASE r # p /\ q # p
  <2>1. /\ D[q].state = proc[q].state /\ D[r].state = proc[r].state
        /\ D[q].parent = IF q \in proc[p].kids THEN 0 ELSE proc[q].parent
        /\ q \in D[r].kids <=> q \in proc[r].kids
    BY <1>4
  <2> QED  BY <1>0, <1>1, <1>4, <2>1
<1> QED  BY <1>2, <1>3, <1>4

\* Steps that leave the processes and the sweep alone, end no task and free only
\* those that had exited.
LEMMA TInvTasksOnly ==
    ASSUME TInv, IInv, UNCHANGED <<proc, sweep>>,
           \A t \in Tasks :
               \/ task[t].state = "zombie" /\ task'[t].state = "unused"
               \/ /\ task'[t].pid = task[t].pid
                  /\ task'[t].state = "unused" <=> task[t].state = "unused"
                  /\ task'[t].state = "zombie" <=> task[t].state = "zombie"
    PROVE  TInv'
<1>1. TreeConsistent'
  BY DEF TInv, TreeConsistent
<1>2. ThreadInv'
  BY ProcFacts DEF TInv, ThreadInv
<1>3. StillInv'
  BY DEF TInv, StillInv
<1> QED  BY <1>1, <1>2, <1>3 DEF TInv

LEMMA TInvYield ==
    ASSUME TInv, IInv, Yield \/ WaitYield
    PROVE  TInv'
<1>1. Schedule(task, runq) /\ UNCHANGED <<runq, proc, spaces, wait, sweep>>
  BY DEF Yield, WaitYield
<1>2. \A t \in Tasks : /\ task'[t].pid = task[t].pid
                       /\ \/ task'[t].state = task[t].state
                          \/ {task'[t].state, task[t].state} \subseteq {"ready", "running"}
  BY <1>1, QueueFacts, ScheduleStep
<1> QED  BY <1>1, <1>2, TInvTasksOnly

LEMMA TInvSleep ==
    ASSUME TInv, IInv, Sleep
    PROVE  TInv'
<1> DEFINE T == [task EXCEPT ![cur].state = "sleeping"]
<1>1. /\ Schedule(T, runq) /\ UNCHANGED <<runq, proc, spaces, wait, sweep>>
      /\ task[cur].state = "running"
      /\ \E t \in Tasks \ {cur} : task[t].state = "ready"
  BY QueueFacts DEF Sleep, InUser, InKernel
<1>2. /\ T \in [Tasks -> TaskRecs] /\ T[cur].state = "sleeping" /\ T[cur].space = task[cur].space
      /\ T[cur].pid = task[cur].pid /\ \A t \in Tasks \ {cur} : T[t] = task[t]
  BY QueueFacts DEF TaskRecs
<1> HIDE DEF T
<1>3. {t \in Tasks : T[t].state # "unused"} = {t \in Tasks : task[t].state # "unused"}
  BY <1>1, <1>2, QueueFacts
<1>4. /\ T[Main].state \in {"ready", "running", "sleeping"} /\ T[Main].space = 0
      /\ \E t \in Tasks \ {cur} : T[t].state = "ready"
      /\ \A t \in Tasks : T[t].state = "running" => t = cur
  BY <1>1, <1>2, QueueFacts
<1>5. \A t \in Tasks : /\ task'[t].pid = T[t].pid
                       /\ \/ task'[t].state = T[t].state
                          \/ {task'[t].state, T[t].state} \subseteq {"ready", "running"}
  BY <1>1, <1>2, <1>3, <1>4, QueueFacts, ScheduleStep
<1>6. \A t \in Tasks : /\ task'[t].pid = task[t].pid
                       /\ task'[t].state = "unused" <=> task[t].state = "unused"
                       /\ task'[t].state = "zombie" <=> task[t].state = "zombie"
  BY <1>1, <1>2, <1>5
<1> QED  BY <1>1, <1>6, TInvTasksOnly

\* A tick frees tasks, all of them zombies.
LEMMA TInvTick ==
    ASSUME TInv, IInv, NEW woken \in SUBSET Sleeping, NEW expired \in BOOLEAN, Tick(woken, expired)
    PROVE  TInv'
<1> DEFINE T == [t \in Tasks |-> IF t \in Zombies THEN UnusedTask ELSE Wake(woken)[t]]
           q == Without(runq, Zombies)
<1>0. /\ UNCHANGED <<proc, spaces, wait, sweep>> /\ runq' = q
      /\ Schedule(T, q) \/ (task' = T /\ cur' = cur)
  BY DEF Tick
<1>1. \A t \in Tasks :
        \/ t \in Zombies /\ task[t].state = "zombie" /\ t # cur /\ T[t].state = "unused"
        \/ /\ T[t].pid = task[t].pid /\ T[t].state = task[t].state
           /\ T[t].space = task[t].space /\ t \notin Zombies
        \/ /\ task[t].state = "sleeping" /\ T[t].pid = task[t].pid /\ T[t].state = "ready"
           /\ T[t].space = task[t].space /\ t \notin Zombies
  <2> SUFFICES ASSUME NEW t \in Tasks
               PROVE  \/ t \in Zombies /\ task[t].state = "zombie" /\ t # cur /\ T[t].state = "unused"
                      \/ /\ T[t].pid = task[t].pid /\ T[t].state = task[t].state
                         /\ T[t].space = task[t].space /\ t \notin Zombies
                      \/ /\ task[t].state = "sleeping" /\ T[t].pid = task[t].pid /\ T[t].state = "ready"
                         /\ T[t].space = task[t].space /\ t \notin Zombies
    OBVIOUS
  <2>1. task[t] \in TaskRecs
    BY QueueFacts
  <2>2. CASE t \in Zombies
    BY <2>2 DEF Zombies, UnusedTask
  <2>3. CASE t \notin Zombies /\ t \in woken
    BY <2>1, <2>3 DEF Wake, Sleeping, TaskRecs
  <2>4. CASE t \notin Zombies /\ t \notin woken
    BY <2>4 DEF Wake
  <2> QED  BY <2>2, <2>3, <2>4
<1>2. T \in [Tasks -> TaskRecs]
  <2>1. UnusedTask \in TaskRecs
    BY DEF UnusedTask, TaskRecs
  <2>2. \A t \in Tasks : task[t] \in TaskRecs /\ [task[t] EXCEPT !.state = "ready"] \in TaskRecs
    BY QueueFacts DEF TaskRecs
  <2> HIDE DEF UnusedTask
  <2> QED  BY <2>1, <2>2 DEF Wake
<1>3. /\ q \in Seq(Tasks) /\ \A i, k \in DOMAIN q : q[i] = q[k] => i = k
      /\ {q[i] : i \in DOMAIN q} = {runq[i] : i \in DOMAIN runq} \ Zombies
  BY QueueFacts, WithoutFacts
<1>4. task[cur].state = "running"
  BY DEF Tick, Interruptible
<1> HIDE DEF T, q
<1>5. {q[i] : i \in DOMAIN q} = {t \in Tasks : T[t].state # "unused"}
  <2>1. \A t \in Tasks : T[t].state # "unused" <=> (task[t].state # "unused" /\ t \notin Zombies)
    BY <1>1
  <2> QED  BY <1>3, <2>1, QueueFacts
<1>6. /\ T[Main].state \in {"ready", "running", "sleeping"} /\ T[Main].space = 0
      /\ T[cur].state = "running" /\ \A t \in Tasks : T[t].state = "running" => t = cur
  BY <1>1, <1>4, QueueFacts
<1>7. \A t \in Tasks : /\ task'[t].pid = T[t].pid
                       /\ \/ task'[t].state = T[t].state
                          \/ {task'[t].state, T[t].state} \subseteq {"ready", "running"}
  <2>1. CASE Schedule(T, q)
    BY <1>0, <1>2, <1>3, <1>5, <1>6, <2>1, QueueFacts, ScheduleStep
  <2>2. CASE task' = T
    BY <2>2
  <2> QED  BY <1>0, <2>1, <2>2
<1>8. \A t \in Tasks :
          \/ task[t].state = "zombie" /\ task'[t].state = "unused"
          \/ /\ task'[t].pid = task[t].pid
             /\ task'[t].state = "unused" <=> task[t].state = "unused"
             /\ task'[t].state = "zombie" <=> task[t].state = "zombie"
  BY <1>1, <1>7
<1> QED  BY <1>0, <1>8, TInvTasksOnly

LEMMA TInvTickGuarded ==
    ASSUME TInv, IInv, NEW woken \in SUBSET Sleeping, TickGuarded(woken)
    PROVE  TInv'
<1>0. task' = Wake(woken) /\ UNCHANGED <<proc, sweep>>
  BY DEF TickGuarded
<1>1. \A t \in Tasks : /\ task'[t].pid = task[t].pid
                       /\ task'[t].state = "unused" <=> task[t].state = "unused"
                       /\ task'[t].state = "zombie" <=> task[t].state = "zombie"
  <2> SUFFICES ASSUME NEW t \in Tasks
               PROVE  /\ task'[t].pid = task[t].pid
                      /\ task'[t].state = "unused" <=> task[t].state = "unused"
                      /\ task'[t].state = "zombie" <=> task[t].state = "zombie"
    OBVIOUS
  <2>1. task[t] \in TaskRecs
    BY QueueFacts
  <2>2. CASE t \in woken
    BY <1>0, <2>1, <2>2 DEF Wake, Sleeping, TaskRecs
  <2>3. CASE t \notin woken
    BY <1>0, <2>3 DEF Wake
  <2> QED  BY <2>2, <2>3
<1> QED  BY <1>0, <1>1, TInvTasksOnly

\* fork and spawn, into a task slot that no process has as its thread.
LEMMA TInvCreate ==
    ASSUME TInv, IInv, OwnThread', NEW parent \in Procs \union {0}, Create(parent), cur' = cur,
           parent # 0 => proc[parent].state # "unused",
           sweep.step \in {"thread", "space", "free"} => parent # sweep.i,
           sweep' = sweep \/ sweep' = NoSweep
    PROVE  TInv'
<1>1. PICK t, p, s : Created(parent, t, p, s)
  BY CreateFacts
<1>2. /\ t \in Tasks /\ p \in Procs /\ p # parent
      /\ task[t].state = "unused" /\ proc[p].state = "unused" /\ proc[p].parent = 0
  BY <1>1, MainIsTask DEF Created, IInv, SlotInv
<1>3. /\ task'[t].state = "ready" /\ task'[t].pid = proc'[p].own
      /\ \A u \in Tasks \ {t} : task'[u] = task[u]
      /\ proc'[p].state = "live" /\ proc'[p].thread = t
      /\ proc'[p].parent = parent /\ proc'[p].kids = {}
  BY <1>1 DEF Created
<1>4. \A q \in Procs \ {p} :
          /\ proc'[q].state = proc[q].state
          /\ proc'[q].thread = proc[q].thread
          /\ proc'[q].own = proc[q].own /\ proc'[q].parent = proc[q].parent
          /\ proc'[q].kids = IF q = parent THEN proc[q].kids \union {p} ELSE proc[q].kids
  BY <1>1 DEF Created
<1>5. \A q \in Procs : proc[q].thread # t
  <2> SUFFICES ASSUME NEW q \in Procs, proc[q].thread = t PROVE FALSE
    OBVIOUS
  <2>1. q # p /\ proc[q].state # "unused" /\ t # 0
    BY <1>2, MainIsTask DEF IInv, SlotInv
  <2>2. /\ proc'[q].thread = t /\ proc'[q].state # "unused" /\ proc'[q].own = proc[q].own
        /\ proc[q].own # task'[t].pid
    BY <1>1, <1>4, <2>1 DEF Created
  <2> QED  BY <1>2, <1>3, <2>1, <2>2 DEF OwnThread
<1>6. ThreadInv'
  <2>1. ASSUME NEW q \in Procs, proc'[q].thread # 0
        PROVE  \/ proc'[q].state = "zombie" /\ task'[proc'[q].thread].state = "unused"
               \/ /\ task'[proc'[q].thread].state # "unused"
                  /\ task'[proc'[q].thread].pid = proc'[q].own
                  /\ proc'[q].state = "zombie" <=> task'[proc'[q].thread].state = "zombie"
    <3>1. CASE q = p
      BY <1>3, <3>1
    <3>2. CASE q # p
      <4>1. /\ proc'[q].thread = proc[q].thread /\ proc'[q].state = proc[q].state
            /\ proc'[q].own = proc[q].own
        BY <1>4, <3>2
      <4>2. task'[proc[q].thread] = task[proc[q].thread]
        BY <1>3, <1>5, <2>1, <4>1, ProcFacts
      <4> QED  BY <2>1, <4>1, <4>2 DEF TInv, ThreadInv
    <3> QED  BY <3>1, <3>2
  <2>2. \A q, r \in Procs : proc'[q].thread = proc'[r].thread => q = r \/ proc'[q].thread = 0
    <3>1. \A q, r \in Procs : proc[q].thread = proc[r].thread => q = r \/ proc[q].thread = 0
      BY DEF TInv, ThreadInv
    <3>2. proc'[p].thread = t /\ \A q \in Procs \ {p} : proc'[q].thread = proc[q].thread /\ proc[q].thread # t
      BY <1>3, <1>4, <1>5
    <3> QED  BY <3>1, <3>2
  <2> QED  BY <2>1, <2>2 DEF ThreadInv
<1>7. \A q \in Procs : p \notin proc[q].kids /\ (proc[q].parent = p => proc[q].state = "unused")
  BY <1>2 DEF TInv, TreeConsistent
<1>8. TreeConsistent'
  <2> SUFFICES ASSUME NEW r \in Procs, NEW q \in Procs
               PROVE  /\ q \in proc'[r].kids <=> (proc'[q].parent = r /\ proc'[q].state # "unused")
                      /\ q \in proc'[r].kids => proc'[r].state # "unused"
    BY DEF TreeConsistent
  <2>1. CASE r = p
    <3>1. CASE q = p
      BY <1>2, <1>3, <2>1, <3>1
    <3>2. CASE q # p
      BY <1>3, <1>4, <1>7, <2>1, <3>2, ZenonT(60)
    <3> QED  BY <3>1, <3>2
  <2>2. CASE r # p /\ q = p
    <3>1. p \in proc'[r].kids <=> r = parent
      BY <1>4, <1>7, <2>2
    <3>2. proc'[r].state = proc[r].state
      BY <1>4, <2>2
    <3> QED  BY <1>3, <2>2, <3>1, <3>2, MainIsTask
  <2>3. CASE r # p /\ q # p
    <3>1. /\ q \in proc'[r].kids <=> q \in proc[r].kids
          /\ proc'[q].parent = proc[q].parent /\ proc'[q].state = proc[q].state
          /\ proc'[r].state = proc[r].state
      BY <1>4, <2>3
    <3> QED  BY <3>1 DEF TInv, TreeConsistent
  <2> QED  BY <2>1, <2>2, <2>3
<1>9. StillInv'
  <2>1. sweep.step \in {"thread", "space", "free"} => sweep.i \in Procs \ {p} /\ sweep.i # parent
    BY <1>2 DEF IInv, SweepInv
  <2>2. CASE sweep' = sweep
    BY <1>4, <2>1, <2>2 DEF TInv, StillInv
  <2>3. CASE sweep' = NoSweep
    BY <2>3 DEF StillInv, NoSweep
  <2> QED  BY <2>2, <2>3
<1> QED  BY <1>6, <1>8, <1>9 DEF TInv

\* sys_exec changes spaces only.
LEMMA TInvExec ==
    ASSUME TInv, IInv, Exec
    PROVE  TInv'
<1> DEFINE s == Fresh(Spaces)
           p == Current
<1>0. /\ p # 0 /\ sweep' = sweep /\ cur' = cur
      /\ proc' = [proc EXCEPT ![p].space = s]
      /\ task' = [task EXCEPT ![cur].space = s]
  BY DEF Exec
<1>1. p \in Procs /\ cur \in Tasks
  BY <1>0, CurrentFacts, QueueFacts
<1> HIDE DEF p, s
<1>2. \A t \in Tasks : task'[t].state = task[t].state /\ task'[t].pid = task[t].pid
  BY <1>0, <1>1, QueueFacts DEF TaskRecs
<1>3. \A q \in Procs : /\ proc'[q].thread = proc[q].thread /\ proc'[q].own = proc[q].own
                       /\ proc'[q].state = proc[q].state
                       /\ proc'[q].parent = proc[q].parent /\ proc'[q].kids = proc[q].kids
  BY <1>0, <1>1, ProcFacts DEF ProcRecs
<1>4. TreeConsistent'
  BY <1>3 DEF TInv, TreeConsistent
<1>5. ThreadInv'
  BY <1>2, <1>3, ProcFacts DEF TInv, ThreadInv
<1>6. StillInv'
  BY <1>0, <1>3 DEF TInv, StillInv, IInv, SweepInv
<1> QED  BY <1>4, <1>5, <1>6 DEF TInv

LEMMA TInvExit ==
    ASSUME TInv, IInv, Exit
    PROVE  TInv'
<1> DEFINE T == [task EXCEPT ![cur].state = "zombie"]
           p == Current
<1>0. /\ cur # Main /\ p # 0 /\ task[cur].state = "running"
      /\ proc' = [proc EXCEPT ![p].state = "zombie"] /\ Schedule(T, runq)
      /\ UNCHANGED <<runq, spaces, wait, sweep>>
  BY DEF Exit, InUser
<1>1. p \in Procs /\ proc[p].state # "unused" /\ proc[p].thread = cur
  BY <1>0, CurrentFacts
<1> HIDE DEF p
<1>2. /\ T \in [Tasks -> TaskRecs] /\ T[cur].state = "zombie" /\ T[cur].pid = task[cur].pid
      /\ \A t \in Tasks \ {cur} : T[t] = task[t]
  BY QueueFacts DEF TaskRecs
<1> HIDE DEF T
<1>3. {t \in Tasks : T[t].state # "unused"} = {t \in Tasks : task[t].state # "unused"}
  BY <1>2, QueueFacts
<1>4. \A t \in Tasks : T[t].state = "running" => t = cur
  BY <1>2, QueueFacts
<1>5. T[Main].state \in {"ready", "running", "sleeping"} /\ T[Main].space = 0
  BY <1>0, <1>2, QueueFacts
<1>6. \A t \in Tasks : /\ task'[t].pid = T[t].pid
                       /\ \/ task'[t].state = T[t].state
                          \/ {task'[t].state, T[t].state} \subseteq {"ready", "running"}
  BY <1>0, <1>2, <1>3, <1>4, <1>5, QueueFacts, ScheduleStep
<1>7. /\ proc'[p].state = "zombie"
      /\ \A q \in Procs : /\ proc'[q].thread = proc[q].thread /\ proc'[q].own = proc[q].own
                          /\ proc'[q].parent = proc[q].parent /\ proc'[q].kids = proc[q].kids
                          /\ q # p => proc'[q].state = proc[q].state
  BY <1>0, <1>1, ProcFacts DEF ProcRecs
<1>8. TreeConsistent'
  BY <1>1, <1>7 DEF TInv, TreeConsistent
<1>9. ThreadInv'
  <2>1. \A q, r \in Procs : proc[q].thread = proc[r].thread => q = r \/ proc[q].thread = 0
    BY DEF TInv, ThreadInv
  <2>2. ASSUME NEW q \in Procs, proc'[q].thread # 0
        PROVE  \/ proc'[q].state = "zombie" /\ task'[proc'[q].thread].state = "unused"
               \/ /\ task'[proc'[q].thread].state # "unused"
                  /\ task'[proc'[q].thread].pid = proc'[q].own
                  /\ proc'[q].state = "zombie" <=> task'[proc'[q].thread].state = "zombie"
    <3> DEFINE t == proc[q].thread
    <3>0. /\ proc'[q].thread = t /\ t \in Tasks /\ proc'[q].own = proc[q].own
          /\ \/ proc[q].state = "zombie" /\ task[t].state = "unused"
             \/ /\ task[t].state # "unused" /\ task[t].pid = proc[q].own
                /\ proc[q].state = "zombie" <=> task[t].state = "zombie"
      BY <1>7, <2>2, ProcFacts DEF TInv, ThreadInv
    <3>1. CASE q = p
      BY <1>0, <1>1, <1>2, <1>6, <1>7, <3>0, <3>1
    <3>2. CASE q # p
      <4>1. t # cur
        BY <1>1, <2>1, <3>0, <3>2, MainIsTask
      <4> HIDE DEF t
      <4> QED  BY <1>2, <1>6, <1>7, <3>0, <3>2, <4>1
    <3> QED  BY <3>1, <3>2
  <2> QED  BY <1>7, <2>1, <2>2 DEF ThreadInv
<1>10. StillInv'
  BY <1>0, <1>7 DEF TInv, StillInv, IInv, SweepInv
<1> QED  BY <1>8, <1>9, <1>10 DEF TInv

\* Who loses its thread loses it to task_kill, whether the thread was alive or
\* had exited.
LEMMA ThreadsLeft ==
    ASSUME TInv, IInv, NEW p \in Procs, proc[p].thread # cur,
           \A t \in Tasks : /\ t \in Victim(proc[p].thread) => task'[t] = UnusedTask
                            /\ t \notin Victim(proc[p].thread) => task'[t] = task[t],
           proc'[p].thread = 0,
           \A q \in Procs \ {p} : /\ proc'[q].thread = proc[q].thread
                                  /\ proc'[q].own = proc[q].own /\ proc'[q].state = proc[q].state
    PROVE  ThreadInv'
<1>1. \A q, r \in Procs : proc[q].thread = proc[r].thread => q = r \/ proc[q].thread = 0
  BY DEF TInv, ThreadInv
<1>2. ASSUME NEW q \in Procs, proc'[q].thread # 0
      PROVE  \/ proc'[q].state = "zombie" /\ task'[proc'[q].thread].state = "unused"
             \/ /\ task'[proc'[q].thread].state # "unused"
                /\ task'[proc'[q].thread].pid = proc'[q].own
                /\ proc'[q].state = "zombie" <=> task'[proc'[q].thread].state = "zombie"
  <2>1. q # p
    BY <1>2
  <2>2. /\ proc'[q].thread = proc[q].thread /\ proc'[q].own = proc[q].own
        /\ proc'[q].state = proc[q].state
    BY <2>1
  <2>3. proc[q].thread # proc[p].thread /\ proc[q].thread \in Tasks
    BY <1>1, <1>2, <2>1, <2>2, ProcFacts
  <2>4. task'[proc[q].thread] = task[proc[q].thread]
    BY <2>3, VictimFacts
  <2> QED  BY <1>2, <2>2, <2>4 DEF TInv, ThreadInv
<1>3. \A q, r \in Procs : proc'[q].thread = proc'[r].thread => q = r \/ proc'[q].thread = 0
  <2>1. proc'[p].thread = 0 /\ \A q \in Procs \ {p} : proc'[q].thread = proc[q].thread
    OBVIOUS
  <2> QED  BY <1>1, <2>1
<1> QED  BY <1>2, <1>3 DEF ThreadInv

LEMMA TInvDestroy ==
    ASSUME TInv, IInv, NEW p \in Procs, Destroy(p), UNCHANGED <<cur, sweep>>,
           proc[p].thread # cur
    PROVE  TInv'
<1>1. /\ \A t \in Tasks : /\ t \in Victim(proc[p].thread) => task'[t] = UnusedTask
                          /\ t \notin Victim(proc[p].thread) => task'[t] = task[t]
      /\ proc'[p] = UnusedProc
  BY DestroyFacts
<1>2. \A q \in Procs \ {p} :
            /\ proc'[q].state = proc[q].state /\ proc'[q].pid = proc[q].pid
            /\ proc'[q].thread = proc[q].thread /\ proc'[q].space = proc[q].space
            /\ proc'[q].own = proc[q].own
            /\ proc'[q].parent = IF q \in proc[p].kids THEN 0 ELSE proc[q].parent
            /\ proc'[q].kids = IF q = proc[p].parent THEN proc[q].kids \ {p} ELSE proc[q].kids
  BY DestroyFacts
<1>3. proc'[p].thread = 0 /\ proc'[p].parent = 0 /\ proc'[p].kids = {}
  BY <1>1, UnusedFields
<1>4. ThreadInv'
  BY <1>1, <1>2, <1>3, ThreadsLeft
<1>5. TreeConsistent'
  <2>1. TreeConsistent
    BY DEF TInv
  <2>2. \A r, q \in Procs :
                 /\ q \in proc'[r].kids <=> (proc'[q].parent = r /\ proc'[q].state # "unused")
                 /\ q \in proc'[r].kids => proc'[r].state # "unused"
    <3>1. \A q \in Procs \ {p} :
                 /\ proc'[q].state = proc[q].state
                 /\ proc'[q].parent = IF q \in proc[p].kids THEN 0 ELSE proc[q].parent
                 /\ proc'[q].kids = IF q = proc[p].parent THEN proc[q].kids \ {p} ELSE proc[q].kids
      BY <1>2
    <3> QED  BY <1>3, <2>1, <3>1, DetachedTree
  <2> QED  BY <2>2 DEF TreeConsistent
<1>6. StillInv'
  BY <1>2, <1>3 DEF TInv, StillInv, IInv, SweepInv
<1> QED  BY <1>4, <1>5, <1>6 DEF TInv

\* The thread of a zombie that its parent reaps is another task than the parent's.
LEMMA TInvWaitReap ==
    ASSUME TInv, IInv, WaitReap
    PROVE  TInv'
<1> DEFINE p == wait[cur].slot
<1>0. /\ cur \in Tasks /\ wait[cur] # NoWait /\ proc[p].state = "zombie"
      /\ Destroy(p) /\ UNCHANGED <<cur, sweep>>
  BY QueueFacts DEF WaitReap
<1>1. p \in Procs
  BY <1>0, OneWaiter
<1> HIDE DEF p
<1>2. proc[p].thread # cur
  <2>1. task[cur].state = "running"
    BY DEF WaitReap
  <2> QED  BY <1>0, <1>1, <2>1, CallerLives
<1> QED  BY <1>0, <1>1, <1>2, TInvDestroy

LEMMA TInvThreadGone ==
    ASSUME TInv, IInv, NEW p \in Procs, cur = Main, cur' = cur,
           KillTasks(Victim(proc[p].thread)),
           proc[p].state # "unused", proc'[p].thread = 0, proc'[p].state # "unused",
           \A q \in Procs : /\ proc'[q].parent = proc[q].parent /\ proc'[q].kids = proc[q].kids
                            /\ proc'[q].own = proc[q].own
                            /\ q # p => proc'[q].thread = proc[q].thread /\ proc'[q].state = proc[q].state,
           sweep'.step \in {"thread", "space", "free"} =>
               sweep'.i = sweep.i /\ sweep.step \in {"thread", "space", "free"}
    PROVE  TInv'
<1>1. \A t \in Tasks : /\ t \in Victim(proc[p].thread) => task'[t] = UnusedTask
                       /\ t \notin Victim(proc[p].thread) => task'[t] = task[t]
  BY VictimFacts, KillStep
<1>2. proc[p].thread # cur
  BY DEF IInv, SlotInv
<1>3. ThreadInv'
  BY <1>1, <1>2, ThreadsLeft
<1>4. TreeConsistent'
  <2>1. \A q \in Procs : /\ proc'[q].parent = proc[q].parent /\ proc'[q].kids = proc[q].kids
                         /\ proc'[q].state = "unused" <=> proc[q].state = "unused"
    OBVIOUS
  <2> QED  BY <2>1 DEF TInv, TreeConsistent
<1>5. StillInv'
  BY DEF TInv, StillInv, IInv, SweepInv
<1> QED  BY <1>3, <1>4, <1>5 DEF TInv

LEMMA TInvKill ==
    ASSUME TInv, IInv, NEW p \in Procs, Kill(p)
    PROVE  TInv'
<1>0. /\ cur = Main /\ sweep = NoSweep /\ sweep.step = "none" /\ UNCHANGED <<cur, sweep>>
  BY DEF Kill, InKernel, NoSweep
<1>1. CASE proc[p].parent = 0
  <2>1. Destroy(p)
    BY <1>1 DEF Kill
  <2>2. proc[p].thread # cur
    BY <1>0 DEF IInv, SlotInv
  <2> QED  BY <1>0, <2>1, <2>2, TInvDestroy
<1>2. CASE proc[p].parent # 0
  <2>0. /\ KillTasks(Victim(proc[p].thread))
        /\ proc' = [proc EXCEPT ![p].state = "zombie", ![p].thread = 0]
    BY <1>2 DEF Kill
  <2>1. /\ proc'[p].thread = 0 /\ proc'[p].state # "unused"
        /\ \A q \in Procs : /\ proc'[q].own = proc[q].own /\ proc'[q].parent = proc[q].parent
                            /\ proc'[q].kids = proc[q].kids
                            /\ q # p => proc'[q].thread = proc[q].thread /\ proc'[q].state = proc[q].state
    BY <2>0, KilledFields
  <2>2. proc[p].state # "unused"
    BY <1>2 DEF IInv, SlotInv
  <2> QED  BY <1>0, <2>0, <2>1, <2>2, TInvThreadGone
<1> QED  BY <1>1, <1>2

LEMMA TInvSweep ==
    ASSUME TInv, IInv,
           SweepStart("poll") \/ SweepStart("spawn") \/ SweepSkip \/ SweepEnd
    PROVE  TInv'
<1>0. /\ UNCHANGED <<task, cur, proc>> /\ cur = Main
      /\ sweep'.step \notin {"thread", "space", "free"}
  <2>1. sweep'.step \notin {"thread", "space", "free"}
    <3>1. CASE SweepSkip
      BY <3>1, NextSlotFacts DEF SweepSkip
    <3>2. CASE SweepStart("poll") \/ SweepStart("spawn") \/ SweepEnd
      BY <3>2 DEF SweepStart, SweepEnd, NoSweep
    <3> QED  BY <3>1, <3>2
  <2> QED  BY <2>1 DEF SweepStart, SweepSkip, SweepEnd, SweepDone, InKernel
<1>1. TreeConsistent' /\ ThreadInv'
  BY <1>0 DEF TInv, TreeConsistent, ThreadInv
<1>2. StillInv'
  BY <1>0 DEF StillInv
<1> QED  BY <1>1, <1>2 DEF TInv

LEMMA TInvSweepDetach ==
    ASSUME TInv, IInv, SweepDetach
    PROVE  TInv'
<1> DEFINE p == sweep.i
           D == Detached(p)
<1>0. /\ p \in Procs /\ cur = Main /\ proc' = D /\ sweep' = [sweep EXCEPT !.step = "thread"]
      /\ UNCHANGED <<task, cur>>
  BY DEF SweepDetach
<1>1. sweep'.i = p
  BY <1>0 DEF IInv, TypeOK
<1>2. /\ \A q \in Procs : /\ D[q].state = proc[q].state /\ D[q].thread = proc[q].thread
                          /\ D[q].own = proc[q].own
      /\ D[p].parent = 0 /\ D[p].kids = {}
  BY <1>0, DetachedFacts
<1>3. \A q \in Procs : q # p =>
            /\ D[q].parent = IF q \in proc[p].kids THEN 0 ELSE proc[q].parent
            /\ D[q].kids = IF q = proc[p].parent THEN proc[q].kids \ {p} ELSE proc[q].kids
  BY <1>0, DetachedFacts
<1> HIDE DEF D, p
<1>4. TreeConsistent'
  <2>1. TreeConsistent
    BY DEF TInv
  <2>2. \A r, q \in Procs :
                 /\ q \in D[r].kids <=> (D[q].parent = r /\ D[q].state # "unused")
                 /\ q \in D[r].kids => D[r].state # "unused"
    <3>1. \A q \in Procs \ {p} :
                 /\ D[q].state = proc[q].state
                 /\ D[q].parent = IF q \in proc[p].kids THEN 0 ELSE proc[q].parent
                 /\ D[q].kids = IF q = proc[p].parent THEN proc[q].kids \ {p} ELSE proc[q].kids
      BY <1>2, <1>3
    <3> QED  BY <1>0, <1>2, <2>1, <3>1, DetachedTree
  <2> QED  BY <1>0, <2>2 DEF TreeConsistent
<1>5. ThreadInv'
  <2>1. \A q \in Procs : /\ proc'[q].state = proc[q].state /\ proc'[q].thread = proc[q].thread
                         /\ proc'[q].own = proc[q].own
    BY <1>0, <1>2
  <2> QED  BY <1>0, <2>1 DEF TInv, ThreadInv
<1>6. StillInv'
  BY <1>0, <1>1, <1>2 DEF StillInv
<1> QED  BY <1>4, <1>5, <1>6 DEF TInv

LEMMA TInvSweepThread ==
    ASSUME TInv, IInv, SweepThread
    PROVE  TInv'
<1> DEFINE p == sweep.i
<1>0. /\ cur = Main /\ cur' = cur /\ sweep.step = "thread"
      /\ KillTasks(Victim(proc[p].thread))
      /\ proc' = [proc EXCEPT ![p].thread = 0] /\ sweep' = [sweep EXCEPT !.step = "space"]
  BY DEF SweepThread
<1>1. p \in Procs /\ proc[p].state = "zombie"
  BY <1>0 DEF IInv, SweepInv
<1>2. /\ proc'[p].thread = 0 /\ proc'[p].state = "zombie"
      /\ \A q \in Procs : /\ proc'[q].own = proc[q].own /\ proc'[q].parent = proc[q].parent
                          /\ proc'[q].kids = proc[q].kids
                          /\ q # p => proc'[q].thread = proc[q].thread /\ proc'[q].state = proc[q].state
  BY <1>0, <1>1, ProcFacts DEF ProcRecs
<1>3. sweep'.i = p
  BY <1>0 DEF IInv, TypeOK
<1> HIDE DEF p
<1> QED  BY <1>0, <1>1, <1>2, <1>3, TInvThreadGone DEF p

LEMMA TInvSweepSpace ==
    ASSUME TInv, IInv, SweepSpace
    PROVE  TInv'
<1> DEFINE p == sweep.i
<1>0. /\ cur = Main /\ sweep.step = "space" /\ UNCHANGED <<task, cur>>
      /\ proc' = [proc EXCEPT ![p].space = 0] /\ sweep' = [sweep EXCEPT !.step = "free"]
  BY DEF SweepSpace
<1>1. p \in Procs
  BY <1>0 DEF IInv, SweepInv
<1>2. \A q \in Procs : /\ proc'[q].thread = proc[q].thread
                       /\ proc'[q].own = proc[q].own /\ proc'[q].parent = proc[q].parent
                       /\ proc'[q].kids = proc[q].kids /\ proc'[q].state = proc[q].state
  BY <1>0, <1>1, ProcFacts DEF ProcRecs
<1>3. sweep'.i = p
  BY <1>0 DEF IInv, TypeOK
<1>4. TreeConsistent' /\ ThreadInv'
  <2> HIDE DEF p
  <2> QED  BY <1>0, <1>2 DEF TInv, TreeConsistent, ThreadInv
<1>5. StillInv'
  BY <1>0, <1>1, <1>2, <1>3 DEF TInv, StillInv
<1> QED  BY <1>4, <1>5 DEF TInv

\* A slot is given back when nobody is its child any more.
LEMMA TInvSweepFree ==
    ASSUME TInv, IInv, SweepFree
    PROVE  TInv'
<1> DEFINE p == sweep.i
<1>0. /\ cur = Main /\ sweep.step = "free" /\ UNCHANGED <<task, cur>>
      /\ proc' = [proc EXCEPT ![p] = UnusedProc] /\ sweep' = NextSlot
  BY DEF SweepFree
<1>1. /\ p \in Procs /\ proc[p].state = "zombie" /\ proc[p].parent = 0 /\ proc[p].kids = {}
      /\ proc[p].thread = 0
  BY <1>0 DEF IInv, SweepInv, TInv, StillInv
<1>2. proc'[p] = UnusedProc /\ \A q \in Procs \ {p} : proc'[q] = proc[q]
  <2> HIDE DEF UnusedProc
  <2> QED  BY <1>0, <1>1, ProcFacts
<1>3. sweep'.step = "look"
  BY <1>0, <1>1, NextSlotFacts
<1> HIDE DEF p
<1>4. TreeConsistent'
  <2>1. \A q \in Procs \ {p} : p \notin proc[q].kids
    BY <1>1, MainIsTask DEF TInv, TreeConsistent
  <2>2. \A q \in Procs \ {p} : proc[q].parent = p => proc[q].state = "unused"
    BY <1>1 DEF TInv, TreeConsistent
  <2>3. proc'[p].state = "unused" /\ proc'[p].parent = 0 /\ proc'[p].kids = {}
    BY <1>2, UnusedFields
  <2> SUFFICES ASSUME NEW r \in Procs, NEW q \in Procs
               PROVE  /\ q \in proc'[r].kids <=> (proc'[q].parent = r /\ proc'[q].state # "unused")
                      /\ q \in proc'[r].kids => proc'[r].state # "unused"
    BY DEF TreeConsistent
  <2>4. CASE r = p
    BY <1>2, <2>2, <2>3, <2>4
  <2>5. CASE r # p /\ q = p
    BY <1>2, <2>1, <2>3, <2>5
  <2>6. CASE r # p /\ q # p
    BY <1>2, <2>6 DEF TInv, TreeConsistent
  <2> QED  BY <2>4, <2>5, <2>6
<1>5. ThreadInv'
  <2>1. proc'[p].thread = 0
    BY <1>2, UnusedFields
  <2>2. ASSUME NEW q \in Procs, proc'[q].thread # 0
        PROVE  q # p /\ proc'[q] = proc[q]
    BY <1>2, <2>1, <2>2
  <2>3. \A q \in Procs : proc'[q].thread = proc[q].thread
    BY <1>1, <1>2, <2>1
  <2> QED  BY <1>0, <2>2, <2>3 DEF TInv, ThreadInv
<1>6. StillInv'
  BY <1>0, <1>3 DEF StillInv
<1> QED  BY <1>4, <1>5, <1>6 DEF TInv

LEMMA InitTInv == Init => TInv
<1> SUFFICES ASSUME Init PROVE TInv
  OBVIOUS
<1>1. \A p \in Procs : proc[p] = UnusedProc
  <2> HIDE DEF UnusedProc
  <2> QED  BY DEF Init
<1>2. \A p \in Procs : /\ proc[p].state = "unused" /\ proc[p].thread = 0 /\ proc[p].kids = {}
  BY <1>1, UnusedFields
<1>3. sweep = NoSweep /\ sweep.step = "none"
  BY DEF Init, NoSweep
<1> QED  BY <1>2, <1>3 DEF TInv, TreeConsistent, ThreadInv, StillInv

LEMMA NextTInv ==
    ASSUME ~WaitAny, IInv, TInv, OwnThread', [Next]_vars
    PROVE  TInv'
<1>1. CASE UNCHANGED vars
  BY <1>1 DEF vars, TInv, TreeConsistent, ThreadInv, StillInv
<1>2. ASSUME NEW woken \in SUBSET Sleeping,
             Tick(woken, TRUE) \/ Tick(woken, FALSE) \/ TickGuarded(woken)
      PROVE  TInv'
  BY <1>2, TInvTick, TInvTickGuarded
<1>3. CASE Yield \/ WaitYield \/ Sleep
  BY <1>3, TInvYield, TInvSleep
<1>4. CASE Fork
  <2>1. /\ Current \in Procs /\ proc[Current].state # "unused" /\ proc[Current].thread = cur
        /\ task[cur].state = "running" /\ Create(Current) /\ cur' = cur /\ sweep' = sweep
    BY <1>4, CurrentFacts DEF Fork, InUser
  <2>2. proc[Current].state # "zombie"
    BY <2>1, CallerLives
  <2>3. sweep.step \in {"thread", "space", "free"} => Current # sweep.i
    BY <2>2 DEF IInv, SweepInv
  <2> QED  BY <2>1, <2>3, TInvCreate
<1>5. CASE Spawn
  <2>1. sweep.step \in {"thread", "space", "free"} => sweep.i # 0
    BY MainIsTask DEF IInv, SweepInv
  <2> QED  BY <1>5, <2>1, TInvCreate DEF Spawn
<1>6. CASE Exec \/ Exit \/ WaitReap
  BY <1>6, TInvExec, TInvExit, TInvWaitReap
<1>7. ASSUME NEW c \in Procs, Wait(c)
      PROVE  TInv'
  BY <1>7, TInvTasksOnly DEF Wait
<1>8. ASSUME NEW c \in Procs, Kill(c)
      PROVE  TInv'
  BY <1>8, TInvKill
<1>9. CASE SweepStart("poll") \/ SweepStart("spawn") \/ Sweep
  BY <1>9, TInvSweep, TInvSweepDetach, TInvSweepThread, TInvSweepSpace, TInvSweepFree DEF Sweep
<1> QED  BY <1>1, <1>2, <1>3, <1>4, <1>5, <1>6, <1>7, <1>8, <1>9 DEF Next

\* With or without the timer: until a task slot is reused while a process still has
\* it as its thread, children lists and parent pointers agree at every step, also
\* halfway through a sweep, and process_current finds the process of whoever calls.
THEOREM ReuseIsTheOnlyWay == ~WaitAny => (Spec => OwnThreadsSuffice)
<1> SUFFICES ASSUME ~WaitAny PROVE Spec => OwnThreadsSuffice
  OBVIOUS
<1>1. IInv /\ [Next]_vars => IInv'
  BY NextIInv
<1>2. IInv /\ TInv /\ OwnThread' /\ [Next]_vars => TInv'
  BY NextTInv
<1>3. IInv /\ TInv => TreeConsistent /\ CallerKnown
  <2> SUFFICES ASSUME IInv, TInv PROVE CallerKnown
    BY DEF TInv
  <2> SUFFICES ASSUME InUser PROVE Current # 0 /\ proc[Current].own = task[cur].pid
    BY DEF CallerKnown
  <2>1. cur \in Tasks \ {Main} /\ Alive(cur) /\ task[cur].state = "running"
    BY QueueFacts DEF InUser, Alive
  <2>2. PICK p \in Procs : proc[p].thread = cur
    BY <2>1 DEF IInv, SpaceInv
  <2> DEFINE mine == {q \in Procs : proc[q].state # "unused" /\ proc[q].thread = cur}
  <2>3. p \in mine
    BY <2>1, <2>2, MainIsTask DEF IInv, SlotInv
  <2>4. mine \subseteq Nat /\ mine # {} /\ Current = Least(mine)
    BY <2>3 DEF Current, Procs
  <2>5. Least(mine) \in mine
    <3> HIDE DEF mine
    <3> QED  BY <2>4, LeastIn
  <2>6. Current # 0
    BY <2>4, <2>5, MainIsTask
  <2> QED  BY <2>1, <2>6, CurrentFacts, CallerLives
<1> QED  BY <1>1, <1>2, <1>3, InitIInv, InitTInv, PTL DEF Spec, OwnThreadsSuffice

=============================================================================

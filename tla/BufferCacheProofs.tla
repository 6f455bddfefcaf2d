-------------------------- MODULE BufferCacheProofs --------------------------
(* For any number of buffers, blocks, devices and holders the buffer cache is  *)
(* coherent, what a successful sync made durable stays on the medium, and the  *)
(* LRU list holds exactly the buffers that nobody holds.                       *)
EXTENDS BufferCache, FiniteSetTheorems, TLAPS

-----------------------------------------------------------------------------
(* The inductive invariant *)

\* A block has one buffer.
OneBuffer == \A s, t \in Slots : key[s] # NoBlock /\ key[s] = key[t] => s = t

\* s holds changes the medium may not have.
Unsaved(s) == s \in dirty \/ \E h \in touched : held[h] = s

\* A buffer without unsaved changes is equal to its block.
CleanIsSaved ==
    \A s \in Slots : key[s] \in Blocks /\ ~Unsaved(s) => medium[key[s]] = data[s]

\* What a sync may write, or a later one promise, is among the contents the
\* block was given since the last sync.
SinceCovers ==
    /\ \A b \in Blocks : latest[b] \in since[b]
    /\ \A s \in Slots : key[s] \in Blocks => data[s] \in since[key[s]]

IInv == TypeOK /\ Coherent /\ CleanIsSaved /\ SinceCovers /\ SyncedSurvives

-----------------------------------------------------------------------------
(* Write-back *)

\* A written buffer's block gets the buffer's contents.
LEMMA WrittenHit ==
    ASSUME TypeOK, OneBuffer,
           NEW W \in SUBSET Slots, \A s \in W : key[s] \in Blocks,
           NEW s \in W
    PROVE  Written(W)[key[s]] = data[s]
<1>1. key[s] \in Blocks /\ key[s] # NoBlock
  BY CacheAssumption
<1>2. \A t \in W : key[t] = key[s] => t = s
  BY <1>1 DEF OneBuffer
<1>3. (CHOOSE t \in W : key[t] = key[s]) = s
  BY <1>2
<1> QED  BY <1>1, <1>3 DEF Written

\* A block none of whose buffers is written stays.
LEMMA WrittenMiss ==
    ASSUME NEW W \in SUBSET Slots, NEW b \in Blocks, \A s \in W : key[s] # b
    PROVE  Written(W)[b] = medium[b]
BY DEF Written

LEMMA WrittenType ==
    ASSUME TypeOK, NEW W \in SUBSET Slots
    PROVE  Written(W) \in [Blocks -> Values]
<1> SUFFICES ASSUME NEW b \in Blocks PROVE Written(W)[b] \in Values
  BY DEF Written
<1>1. CASE \E s \in W : key[s] = b
  <2>1. (CHOOSE s \in W : key[s] = b) \in W  BY <1>1
  <2> QED  BY <1>1, <2>1 DEF Written, TypeOK
<1>2. CASE ~\E s \in W : key[s] = b
  BY <1>2 DEF Written, TypeOK
<1> QED  BY <1>1, <1>2

LEMMA ToWriteType ==
    ASSUME TypeOK, NEW D
    PROVE  ToWrite(D) \subseteq Slots /\ \A s \in ToWrite(D) : key[s] \in Blocks
BY DEF ToWrite, TypeOK

\* What a write-back of W leaves on the medium: for a block with a buffer in W
\* the buffer's contents, which the block was given since the last sync.
LEMMA WriteBack ==
    ASSUME IInv, NEW W \in SUBSET Slots, \A s \in W : key[s] \in Blocks
    PROVE  /\ Written(W) \in [Blocks -> Values]
           /\ \A s \in W : Written(W)[key[s]] = data[s]
           /\ \A b \in Blocks : (\A s \in W : key[s] # b) => Written(W)[b] = medium[b]
           /\ \A b \in Blocks : Written(W)[b] \in since[b]
           /\ \A s \in Slots : key[s] \in Blocks /\ Written(W)[key[s]] # data[s]
                                => s \notin W /\ Written(W)[key[s]] = medium[key[s]]
<1>0. TypeOK /\ OneBuffer
  BY DEF IInv, Coherent, OneBuffer
<1>1. Written(W) \in [Blocks -> Values]
  BY <1>0, WrittenType
<1>2. \A s \in W : Written(W)[key[s]] = data[s]
  BY <1>0, WrittenHit
<1>3. \A b \in Blocks : (\A s \in W : key[s] # b) => Written(W)[b] = medium[b]
  BY WrittenMiss
<1>4. \A b \in Blocks : Written(W)[b] \in since[b]
  <2> SUFFICES ASSUME NEW b \in Blocks PROVE Written(W)[b] \in since[b]
    OBVIOUS
  <2>1. CASE \E s \in W : key[s] = b
    BY <2>1, <1>2 DEF IInv, SinceCovers
  <2>2. CASE \A s \in W : key[s] # b
    BY <2>2, <1>3 DEF IInv, SyncedSurvives
  <2> QED  BY <2>1, <2>2
<1>5. \A s \in Slots : key[s] \in Blocks /\ Written(W)[key[s]] # data[s]
                         => s \notin W /\ Written(W)[key[s]] = medium[key[s]]
  <2> SUFFICES ASSUME NEW s \in Slots, key[s] \in Blocks,
                      Written(W)[key[s]] # data[s]
               PROVE  s \notin W /\ Written(W)[key[s]] = medium[key[s]]
    OBVIOUS
  <2>1. s \notin W
    BY <1>2
  <2>2. \A t \in W : key[t] # key[s]
    BY <1>0, <2>1, CacheAssumption DEF OneBuffer
  <2> QED  BY <2>1, <2>2, <1>3
<1> QED  BY <1>1, <1>2, <1>3, <1>4, <1>5

-----------------------------------------------------------------------------
(* Each action preserves the invariant *)

LEMMA InitIInv == Init => IInv
<1> SUFFICES ASSUME Init PROVE IInv
  OBVIOUS
<1>1. TypeOK
  BY DEF Init, TypeOK
<1>2. \A s \in Slots : key[s] = NoBlock /\ NoBlock \notin Blocks
  BY CacheAssumption DEF Init
<1>3. Coherent /\ CleanIsSaved
  BY <1>2 DEF Init, Coherent, CleanIsSaved
<1>4. SinceCovers /\ SyncedSurvives
  BY <1>2 DEF Init, SinceCovers, SyncedSurvives
<1> QED  BY <1>1, <1>3, <1>4 DEF IInv

LEMMA HitStep ==
    ASSUME IInv, NEW h \in Holders, NEW b \in Blocks, NEW s \in Slots, GetHit(h, b, s)
    PROVE  IInv'
<1>1. TypeOK'
  BY DEF IInv, TypeOK, GetHit, history
<1>2. Coherent' /\ SinceCovers' /\ SyncedSurvives'
  BY DEF IInv, GetHit, history, Coherent, Cached, SinceCovers, SyncedSurvives
<1>3. \A g \in touched : held'[g] = held[g]
  BY DEF IInv, TypeOK, GetHit
<1>4. CleanIsSaved'
  BY <1>3 DEF IInv, GetHit, CleanIsSaved, Unsaved
<1> QED  BY <1>1, <1>2, <1>4 DEF IInv

\* What an eviction leaves: the victim, if it was dirty, is on the medium or
\* its block is lost; nothing else moved.
LEMMA EvictLeaves ==
    ASSUME IInv, NEW s \in Slots, Evict(s)
    PROVE  /\ medium' \in [Blocks -> Values]
           /\ lost' \subseteq Blocks /\ lost \subseteq lost'
           /\ \A b \in Blocks : medium'[b] \in since[b]
           /\ \A b \in Blocks : b # key[s] => medium'[b] = medium[b]
           /\ key[s] \in Blocks \ lost' => medium'[key[s]] = latest[key[s]]
           /\ \A h \in touched : held[h] # s
<1>0. /\ TypeOK /\ Coherent /\ CleanIsSaved
      /\ \A h \in touched : held[h] # s
  BY DEF IInv, Evict, Victim, Pinned, TypeOK
<1> DEFINE W == {s} \intersect ToWrite(Devices)
<1>1. W \in SUBSET Slots /\ \A t \in W : key[t] \in Blocks
  BY <1>0, ToWriteType
<1>2. /\ Written(W) \in [Blocks -> Values]
      /\ \A b \in Blocks : Written(W)[b] \in since[b]
      /\ \A t \in W : Written(W)[key[t]] = data[t]
      /\ \A b \in Blocks : (\A t \in W : key[t] # b) => Written(W)[b] = medium[b]
  BY <1>1, WriteBack
<1>3. s \notin ToWrite(Devices) /\ key[s] \in Blocks => medium[key[s]] = data[s]
  <2> SUFFICES ASSUME s \notin ToWrite(Devices), key[s] \in Blocks
               PROVE  medium[key[s]] = data[s]
    OBVIOUS
  <2>1. s \notin dirty
    BY CacheAssumption DEF ToWrite
  <2> QED  BY <1>0, <2>1 DEF CleanIsSaved, Unsaved
<1>4. CASE medium' = Written(W) /\ lost' = lost
  <2>1. \A b \in Blocks : b # key[s] => medium'[b] = medium[b]
    BY <1>2, <1>4
  <2>2. ASSUME key[s] \in Blocks \ lost PROVE medium'[key[s]] = latest[key[s]]
    <3>1. data[s] = latest[key[s]]
      BY <1>0, <2>2 DEF Coherent
    <3>2. CASE s \in ToWrite(Devices)
      BY <3>1, <3>2, <1>2, <1>4
    <3>3. CASE s \notin ToWrite(Devices)
      <4>1. W = {}  BY <3>3
      <4>2. Written(W)[key[s]] = medium[key[s]]  BY <4>1, <1>2, <2>2
      <4> QED  BY <3>1, <3>3, <4>2, <1>3, <1>4, <2>2
    <3> QED  BY <3>2, <3>3
  <2> QED  BY <1>0, <1>2, <1>4, <2>1, <2>2 DEF TypeOK
<1>5. CASE s \in ToWrite(Devices) /\ lost' = lost \union {key[s]} /\ medium' = medium
  <2>1. key[s] \in Blocks
    BY <1>0, <1>5, ToWriteType
  <2> QED  BY <1>0, <1>5, <2>1 DEF TypeOK, IInv, SyncedSurvives
<1> QED  BY <1>4, <1>5 DEF Evict

\* The buffer s now holds block b, which had none, or no block at all.
LEMMA MissStep ==
    ASSUME IInv, NEW h \in Holders, NEW b \in Blocks, NEW s \in Slots,
           GetMiss(h, b, s) \/ GetUnreadable(h, b, s)
    PROVE  IInv'
<1>0. /\ TypeOK /\ Coherent /\ CleanIsSaved /\ SinceCovers
      /\ Evict(s) /\ ~Cached(b) /\ NoBlock \notin Blocks
      /\ dirty' = dirty \ {s} /\ touched' = touched /\ latest' = latest /\ since' = since
  BY CacheAssumption DEF IInv, GetMiss, GetUnreadable
<1>1. /\ medium' \in [Blocks -> Values]
      /\ lost' \subseteq Blocks /\ lost \subseteq lost'
      /\ \A c \in Blocks : medium'[c] \in since[c]
      /\ \A c \in Blocks : c # key[s] => medium'[c] = medium[c]
      /\ key[s] \in Blocks \ lost' => medium'[key[s]] = latest[key[s]]
      /\ \A g \in touched : held[g] # s
  BY <1>0, EvictLeaves
<1>2. \A t \in Slots \ {s} : key'[t] = key[t] /\ data'[t] = data[t] /\ key[t] # b
  BY <1>0 DEF GetMiss, GetUnreadable, TypeOK, Cached
<1>3. \/ key'[s] = b /\ data'[s] = medium'[b]
      \/ key'[s] = NoBlock
  BY <1>0 DEF GetMiss, GetUnreadable, TypeOK
<1>4. \A g \in touched : held'[g] = held[g]
  BY <1>0 DEF GetMiss, GetUnreadable, TypeOK
<1>5. TypeOK'
  <2>1. /\ key' \in [Slots -> Blocks \union {NoBlock}]
        /\ data' \in [Slots -> Values]
        /\ held' \in [Holders -> Slots \union {NoSlot}]
    BY <1>0, <1>1 DEF GetMiss, GetUnreadable, TypeOK
  <2> QED  BY <1>0, <1>1, <1>4, <2>1 DEF TypeOK
<1>6. medium'[b] = latest[b] \/ b \in lost'
  <2>1. CASE b = key[s]
    BY <2>1, <1>1
  <2>2. CASE b # key[s]
    BY <2>2, <1>0, <1>1 DEF Coherent
  <2> QED  BY <2>1, <2>2
<1>7. Coherent'
  <2>1. \A t, u \in Slots : key'[t] # NoBlock /\ key'[t] = key'[u] => t = u
    BY <1>0, <1>2, <1>3 DEF Coherent
  <2>2. \A t \in Slots : key'[t] \in Blocks \ lost' => data'[t] = latest[key'[t]]
    BY <1>0, <1>1, <1>2, <1>3, <1>6 DEF Coherent
  <2>3. ASSUME NEW c \in Blocks \ lost', ~Cached(c)'
        PROVE  medium'[c] = latest[c]
    <3>1. CASE c = key[s]
      BY <3>1, <1>1
    <3>2. CASE c # key[s]
      <4>1. ~Cached(c)
        BY <2>3, <3>2, <1>2 DEF Cached
      <4> QED  BY <4>1, <3>2, <1>0, <1>1 DEF Coherent
    <3> QED  BY <3>1, <3>2
  <2> QED  BY <1>0, <2>1, <2>2, <2>3 DEF Coherent
<1>8. CleanIsSaved'
  <2> SUFFICES ASSUME NEW t \in Slots, key'[t] \in Blocks, ~Unsaved(t)'
               PROVE  medium'[key'[t]] = data'[t]
    BY DEF CleanIsSaved
  <2>1. CASE t = s
    BY <2>1, <1>0, <1>3
  <2>2. CASE t # s
    <3>1. ~Unsaved(t)
      BY <2>2, <1>0, <1>4 DEF Unsaved
    <3>2. medium[key[t]] = data[t]
      BY <2>2, <3>1, <1>0, <1>2 DEF CleanIsSaved
    <3>3. key[t] # key[s]
      BY <2>2, <1>0, <1>2 DEF Coherent
    <3> QED  BY <2>2, <3>2, <3>3, <1>1, <1>2
  <2> QED  BY <2>1, <2>2
<1>9. SinceCovers' /\ SyncedSurvives'
  BY <1>0, <1>1, <1>2, <1>3 DEF SinceCovers, SyncedSurvives
<1> QED  BY <1>5, <1>7, <1>8, <1>9 DEF IInv

LEMMA ModifyStep ==
    ASSUME IInv, NEW h \in Holders, NEW v \in Values, Modify(h, v)
    PROVE  IInv'
<1> DEFINE s == held[h]
           b == key[s]
<1>0. /\ TypeOK /\ Coherent /\ CleanIsSaved /\ SinceCovers /\ SyncedSurvives
      /\ s \in Slots /\ s # NoSlot /\ NoBlock \notin Blocks
      /\ data' = [data EXCEPT ![s] = v] /\ touched' = touched \union {h}
      /\ medium' = medium /\ key' = key /\ dirty' = dirty /\ held' = held
  BY CacheAssumption DEF IInv, Modify, TypeOK
<1>1. CleanIsSaved'
  <2> SUFFICES ASSUME NEW t \in Slots, key[t] \in Blocks, ~Unsaved(t)'
               PROVE  medium[key[t]] = data'[t]
    BY <1>0 DEF CleanIsSaved
  <2>1. t # s /\ ~Unsaved(t)
    BY <1>0 DEF Unsaved
  <2> QED  BY <2>1, <1>0 DEF CleanIsSaved, TypeOK
<1>2. CASE b = NoBlock /\ UNCHANGED history
  <2>1. TypeOK'
    BY <1>0, <1>2 DEF TypeOK, history
  <2>2. \A t \in Slots : key[t] \in Blocks => data'[t] = data[t]
    BY <1>0, <1>2 DEF TypeOK
  <2>3. Coherent' /\ SinceCovers' /\ SyncedSurvives'
    BY <1>0, <1>2, <2>2 DEF Coherent, Cached, SinceCovers, SyncedSurvives, history
  <2> QED  BY <1>1, <2>1, <2>3 DEF IInv
<1>3. CASE /\ b # NoBlock
           /\ latest' = [latest EXCEPT ![b] = v]
           /\ lost' = lost \ {b}
           /\ since' = [since EXCEPT ![b] = @ \union {v}]
  <2>0. b \in Blocks
    BY <1>0, <1>3 DEF TypeOK
  <2>1. TypeOK'
    BY <1>0, <1>3, <2>0 DEF TypeOK
  <2>2. /\ data'[s] = v /\ latest'[b] = v /\ v \in since'[b]
        /\ \A t \in Slots \ {s} : data'[t] = data[t]
        /\ \A c \in Blocks \ {b} : latest'[c] = latest[c]
        /\ \A c \in Blocks : since[c] \subseteq since'[c]
    BY <1>0, <1>3, <2>0 DEF TypeOK
  <2>3. \A t \in Slots : key[t] = b => t = s
    BY <1>0, <1>3 DEF Coherent
  <2>4. Coherent'
    <3>1. \A t \in Slots : key[t] \in Blocks \ lost' => data'[t] = latest'[key[t]]
      BY <1>0, <1>3, <2>2, <2>3 DEF Coherent
    <3>2. \A c \in Blocks \ lost' : ~Cached(c) => medium[c] = latest'[c]
      <4> SUFFICES ASSUME NEW c \in Blocks \ lost', ~Cached(c)
                   PROVE  medium[c] = latest'[c]
        OBVIOUS
      <4>1. c # b
        BY <1>0 DEF Cached
      <4> QED  BY <4>1, <1>0, <1>3, <2>2 DEF Coherent
    <3> QED  BY <1>0, <3>1, <3>2 DEF Coherent, Cached
  <2>5. SinceCovers' /\ SyncedSurvives'
    BY <1>0, <2>0, <2>2, <2>3 DEF SinceCovers, SyncedSurvives
  <2> QED  BY <1>1, <2>1, <2>4, <2>5 DEF IInv
<1> QED  BY <1>2, <1>3 DEF Modify

LEMMA HolderStep ==
    ASSUME IInv, NEW h \in Holders, MarkDirty(h) \/ Release(h)
    PROVE  IInv'
<1>1. TypeOK'
  BY DEF IInv, TypeOK, MarkDirty, Release, history
<1>2. Coherent' /\ SinceCovers' /\ SyncedSurvives'
  BY DEF IInv, MarkDirty, Release, history, Coherent, Cached, SinceCovers, SyncedSurvives
<1>3. CleanIsSaved'
  <2> SUFFICES ASSUME NEW s \in Slots, key[s] \in Blocks, ~Unsaved(s)'
               PROVE  medium[key[s]] = data[s]
    BY DEF MarkDirty, Release, CleanIsSaved
  <2>1. ~Unsaved(s)
    BY DEF IInv, TypeOK, MarkDirty, Release, Unsaved
  <2> QED  BY <2>1 DEF IInv, CleanIsSaved
<1> QED  BY <1>1, <1>2, <1>3 DEF IInv

\* A write-back of dirty buffers keeps everything but what since says.
LEMMA WriteBackKeeps ==
    ASSUME IInv, NEW D, NEW W \in SUBSET ToWrite(D),
           medium' = Written(W), dirty' = dirty \ W,
           UNCHANGED <<key, data, held, touched, latest, lost>>
    PROVE  /\ Coherent' /\ CleanIsSaved'
           /\ medium' \in [Blocks -> Values]
           /\ \A b \in Blocks : medium'[b] \in since[b]
<1>0. TypeOK /\ Coherent /\ CleanIsSaved
  BY DEF IInv
<1>1. W \in SUBSET Slots /\ \A s \in W : key[s] \in Blocks
  BY <1>0, ToWriteType
<1>2. /\ medium' \in [Blocks -> Values]
      /\ \A s \in W : medium'[key[s]] = data[s]
      /\ \A b \in Blocks : (\A s \in W : key[s] # b) => medium'[b] = medium[b]
      /\ \A b \in Blocks : medium'[b] \in since[b]
      /\ \A s \in Slots : key[s] \in Blocks /\ medium'[key[s]] # data[s]
                           => s \notin W /\ medium'[key[s]] = medium[key[s]]
  BY <1>1, WriteBack
<1>3. Coherent'
  <2>1. \A b \in Blocks : ~Cached(b) => medium'[b] = medium[b]
    BY <1>1, <1>2 DEF Cached
  <2> QED  BY <1>0, <2>1 DEF Coherent, Cached
<1>4. CleanIsSaved'
  <2> SUFFICES ASSUME NEW s \in Slots, key[s] \in Blocks, ~Unsaved(s)',
                      medium'[key[s]] # data[s]
               PROVE  FALSE
    BY DEF CleanIsSaved
  <2>1. s \notin W /\ medium'[key[s]] = medium[key[s]]
    BY <1>2
  <2>2. ~Unsaved(s)
    BY <2>1 DEF Unsaved
  <2> QED  BY <2>1, <2>2, <1>0 DEF CleanIsSaved
<1> QED  BY <1>2, <1>3, <1>4

LEMMA PassStep ==
    ASSUME IInv, NEW D, NEW W \in SUBSET Slots, WriteBackPass(D, W)
    PROVE  IInv'
<1>1. /\ Coherent' /\ CleanIsSaved' /\ medium' \in [Blocks -> Values]
      /\ \A b \in Blocks : medium'[b] \in since[b]
  BY WriteBackKeeps DEF WriteBackPass, history
<1>2. TypeOK'
  BY <1>1 DEF IInv, TypeOK, WriteBackPass, history
<1>3. SinceCovers' /\ SyncedSurvives'
  BY <1>1 DEF IInv, SinceCovers, SyncedSurvives, WriteBackPass, history
<1> QED  BY <1>1, <1>2, <1>3 DEF IInv

\* A sync that wrote everything leaves each settled block as last changed.
LEMMA SyncStep ==
    ASSUME IInv, NEW d \in Devices, NEW W \in SUBSET Slots, Sync(d, W)
    PROVE  IInv'
<1>0. /\ TypeOK /\ Coherent /\ CleanIsSaved /\ SinceCovers
      /\ W \in SUBSET ToWrite({d}) /\ medium' = Written(W) /\ dirty' = dirty \ W
      /\ UNCHANGED <<key, data, held, touched, latest, lost>>
  BY DEF IInv, Sync
<1>1. /\ Coherent' /\ CleanIsSaved' /\ medium' \in [Blocks -> Values]
      /\ \A b \in Blocks : medium'[b] \in since[b]
  BY <1>0, WriteBackKeeps
<1>2. CASE W # ToWrite({d}) /\ since' = since
  <2>1. TypeOK'
    BY <1>0, <1>1, <1>2 DEF TypeOK
  <2>2. SinceCovers' /\ SyncedSurvives'
    BY <1>0, <1>1, <1>2 DEF SinceCovers, SyncedSurvives
  <2> QED  BY <1>1, <2>1, <2>2 DEF IInv
<1>3. CASE /\ W = ToWrite({d})
           /\ since' = [b \in Blocks |-> IF b \in Settled(d) THEN {latest[b]} ELSE since[b]]
  <2>1. TypeOK'
    BY <1>0, <1>1, <1>3 DEF TypeOK
  <2>2. ASSUME NEW b \in Settled(d)
        PROVE  /\ medium'[b] = latest[b]
               /\ \A s \in Slots : key[s] = b => data[s] = latest[b]
    <3>0. b \in Blocks /\ DevOf[b] = d /\ b \notin lost
          /\ \A h \in touched : key[held[h]] # b
      BY DEF Settled
    <3>1. \A s \in Slots : key[s] = b => data[s] = latest[b]
      BY <3>0, <1>0 DEF Coherent
    <3>2. CASE Cached(b)
      <4>1. PICK s \in Slots : key[s] = b
        BY <3>2 DEF Cached
      <4>2. s \notin dirty'
        BY <3>0, <4>1, <1>0, <1>3, CacheAssumption DEF ToWrite
      <4>3. ~Unsaved(s)'
        BY <3>0, <4>1, <4>2, <1>0 DEF Unsaved
      <4>4. medium'[key'[s]] = data'[s]
        BY <3>0, <4>1, <4>3, <1>0, <1>1 DEF CleanIsSaved
      <4> QED  BY <3>1, <4>1, <4>4, <1>0
    <3>3. CASE ~Cached(b)
      BY <3>0, <3>1, <3>3, <1>0, <1>1 DEF Coherent, Cached
    <3> QED  BY <3>1, <3>2, <3>3
  <2>3. SyncedSurvives'
    BY <1>1, <1>3, <2>2 DEF SyncedSurvives
  <2>4. SinceCovers'
    BY <1>0, <1>3, <2>2 DEF SinceCovers
  <2> QED  BY <1>1, <2>1, <2>3, <2>4 DEF IInv
<1> QED  BY <1>2, <1>3 DEF Sync

\* What the cache forgets, the medium has: after an invalidation the contents
\* of a block are those of the medium.
LEMMA InvalidateStep ==
    ASSUME IInv, NEW d \in Devices, Invalidate(d)
    PROVE  IInv'
<1> DEFINE Gone(s) == key[s] # NoBlock /\ DevOf[key[s]] = d
<1>0. /\ TypeOK /\ Coherent /\ CleanIsSaved /\ SinceCovers /\ SyncedSurvives
      /\ NoBlock \notin Blocks
      /\ UNCHANGED <<medium, data, held, touched>>
  BY CacheAssumption DEF IInv, Invalidate
<1>1. /\ \A s \in Slots : Gone(s) => key'[s] = NoBlock
      /\ \A s \in Slots : ~Gone(s) => key'[s] = key[s]
      /\ \A s \in Slots : ~Gone(s) => (s \in dirty' <=> s \in dirty)
      /\ key' \in [Slots -> Blocks \union {NoBlock}] /\ dirty' \subseteq Slots
  BY <1>0 DEF Invalidate, TypeOK
<1>2. /\ \A b \in Blocks : DevOf[b] = d => latest'[b] = medium[b] /\ since'[b] = {medium[b]}
      /\ \A b \in Blocks : DevOf[b] # d => latest'[b] = latest[b] /\ since'[b] = since[b]
      /\ lost' = {b \in lost : DevOf[b] # d}
      /\ latest' \in [Blocks -> Values] /\ since' \in [Blocks -> SUBSET Values]
  BY <1>0 DEF Invalidate, TypeOK
<1>3. TypeOK'
  BY <1>0, <1>1, <1>2 DEF TypeOK
<1>4. \A s \in Slots : key'[s] \in Blocks => ~Gone(s) /\ key'[s] = key[s] /\ DevOf[key[s]] # d
  BY <1>0, <1>1
<1>5. Coherent'
  <2>1. \A s, t \in Slots : key'[s] # NoBlock /\ key'[s] = key'[t] => s = t
    BY <1>0, <1>1 DEF Coherent
  <2>2. \A s \in Slots : key'[s] \in Blocks \ lost' => data[s] = latest'[key'[s]]
    BY <1>0, <1>2, <1>4 DEF Coherent
  <2>3. ASSUME NEW b \in Blocks \ lost', ~Cached(b)' PROVE medium[b] = latest'[b]
    <3>1. CASE DevOf[b] = d
      BY <3>1, <1>2
    <3>2. CASE DevOf[b] # d
      <4>1. ~Cached(b)
        BY <2>3, <3>2, <1>1 DEF Cached
      <4> QED  BY <3>2, <4>1, <1>0, <1>2 DEF Coherent
    <3> QED  BY <3>1, <3>2
  <2> QED  BY <1>0, <2>1, <2>2, <2>3 DEF Coherent
<1>6. CleanIsSaved'
  <2> SUFFICES ASSUME NEW s \in Slots, key'[s] \in Blocks, ~Unsaved(s)'
               PROVE  medium[key'[s]] = data[s]
    BY <1>0 DEF CleanIsSaved
  <2>1. ~Unsaved(s)
    BY <1>0, <1>1, <1>4 DEF Unsaved
  <2> QED  BY <2>1, <1>0, <1>4 DEF CleanIsSaved
<1>7. SinceCovers' /\ SyncedSurvives'
  BY <1>0, <1>2, <1>4 DEF SinceCovers, SyncedSurvives
<1> QED  BY <1>3, <1>5, <1>6, <1>7 DEF IInv

LEMMA PowerCutStep ==
    ASSUME IInv, PowerCut
    PROVE  IInv'
<1>1. TypeOK'
  BY DEF IInv, TypeOK, PowerCut
<1>2. \A s \in Slots : key'[s] = NoBlock /\ NoBlock \notin Blocks
  BY CacheAssumption DEF PowerCut
<1>3. Coherent' /\ CleanIsSaved'
  BY <1>2 DEF PowerCut, Coherent, CleanIsSaved
<1>4. SinceCovers' /\ SyncedSurvives'
  BY <1>2 DEF PowerCut, SinceCovers, SyncedSurvives
<1> QED  BY <1>1, <1>3, <1>4 DEF IInv

LEMMA NextStep == IInv /\ [Next]_vars => IInv'
<1> SUFFICES ASSUME IInv, [Next]_vars PROVE IInv'
  OBVIOUS
<1>1. CASE \E h \in Holders, b \in Blocks, s \in Slots : GetHit(h, b, s)
  BY <1>1, HitStep
<1>2. CASE \E h \in Holders, b \in Blocks, s \in Slots :
             GetMiss(h, b, s) \/ GetUnreadable(h, b, s)
  BY <1>2, MissStep
<1>3. CASE \E h \in Holders, v \in Values : Modify(h, v)
  BY <1>3, ModifyStep
<1>4. CASE \E h \in Holders : MarkDirty(h) \/ Release(h)
  BY <1>4, HolderStep
<1>5. CASE \E d \in Devices, W \in SUBSET Slots : Sync(d, W)
  BY <1>5, SyncStep
<1>6. CASE \E D \in {{d} : d \in Devices} \union {Devices}, W \in SUBSET Slots :
             WriteBackPass(D, W)
  BY <1>6, PassStep
<1>7. CASE \E d \in Devices : Invalidate(d)
  BY <1>7, InvalidateStep
<1>8. CASE PowerCut
  BY <1>8, PowerCutStep
<1>9. CASE UNCHANGED vars
  BY <1>9 DEF IInv, TypeOK, Coherent, Cached, CleanIsSaved, Unsaved, SinceCovers,
              SyncedSurvives, vars
<1> QED  BY <1>1, <1>2, <1>3, <1>4, <1>5, <1>6, <1>7, <1>8, <1>9 DEF Next

-----------------------------------------------------------------------------
(* The LRU list *)

\* s is in the list q; q holds nothing twice.
Links(q, s) == \E i \in DOMAIN q : q[i] = s
Once(q) == \A i, j \in DOMAIN q : q[i] = q[j] => i = j

\* What is proved of the list: LruSound, in terms of the two.
ListInv ==
    /\ lru \in Seq(Slots) /\ Once(lru)
    /\ \A s \in Slots : Links(lru, s) <=> ~Pinned(s)

\* A list without repetition that is as long as L is large misses no buffer.
LEMMA ListsFacts ==
    ASSUME NEW L, IsFiniteSet(L), NEW q \in Lists(L)
    PROVE  /\ q \in Seq(L)
           /\ Once(q)
           /\ \A s : Links(q, s) <=> s \in L
<1> DEFINE n == Cardinality(L)
<1>1. n \in Nat
  BY FS_CardinalityType
<1>2. /\ q \in [1..n -> L] /\ Once(q)
  BY DEF Lists, Once
<1>3. q \in Injection(1..n, L)
  BY <1>2 DEF Injection, IsInjective, Once
<1>4. Cardinality(1..n) = Cardinality(L)
  BY <1>1, FS_Interval
<1>5. q \in Surjection(1..n, L)
  BY <1>3, <1>4, FS_Injection
<1>6. \A s \in L : \E i \in 1..n : q[i] = s
  BY <1>5 DEF Surjection
<1> HIDE DEF n
<1> QED  BY <1>1, <1>2, <1>6 DEF Links

LEMMA WithoutFacts ==
    ASSUME NEW q \in Seq(Slots), Once(q),
           NEW s, Links(q, s)
    PROVE  /\ Without(q, s) \in Seq(Slots)
           /\ Once(Without(q, s))
           /\ \A t : Links(Without(q, s), t)
                        <=> t # s /\ Links(q, t)
<1> DEFINE at == CHOOSE i \in DOMAIN q : q[i] = s
           w == [i \in 1..(Len(q) - 1) |-> IF i < at THEN q[i] ELSE q[i + 1]]
<1>1. at \in DOMAIN q /\ q[at] = s
  BY DEF Links
<1>2. w = Without(q, s)
  BY DEF Without
<1>3. Len(q) \in Nat /\ DOMAIN q = 1..Len(q) /\ at \in 1..Len(q)
  BY <1>1
<1> HIDE DEF at
<1>4. DOMAIN w = 1..(Len(q) - 1) /\ \A i \in DOMAIN w : w[i] = IF i < at THEN q[i] ELSE q[i + 1]
  OBVIOUS
<1>5. w \in Seq(Slots)
  <2>1. \A i \in 1..(Len(q) - 1) : (IF i < at THEN q[i] ELSE q[i + 1]) \in Slots
    BY <1>3
  <2>2. Len(q) - 1 \in Nat
    BY <1>3
  <2> QED  BY <2>1, <2>2
<1> HIDE DEF w
<1>6. Once(w)
  BY <1>3, <1>4 DEF Once
<1>7. ASSUME NEW t, NEW i \in DOMAIN w, w[i] = t
      PROVE  t # s /\ Links(q, t)
  BY <1>1, <1>3, <1>4, <1>7 DEF Once, Links
<1>8. ASSUME NEW t, t # s, NEW k \in DOMAIN q, q[k] = t
      PROVE  Links(w, t)
  <2>1. CASE k < at
    BY <1>3, <1>4, <1>8, <2>1 DEF Links
  <2>2. CASE k > at
    <3>1. k - 1 \in DOMAIN w /\ ~(k - 1 < at) /\ (k - 1) + 1 = k
      BY <1>3, <1>4, <2>2
    <3>2. w[k - 1] = t
      BY <1>4, <1>8, <3>1
    <3> QED  BY <3>1, <3>2 DEF Links
  <2> QED  BY <1>1, <1>3, <1>8, <2>1, <2>2
<1> QED  BY <1>2, <1>5, <1>6, <1>7, <1>8 DEF Links

LEMMA FrontFacts ==
    ASSUME NEW q \in Seq(Slots), Once(q),
           NEW s \in Slots, ~Links(q, s)
    PROVE  /\ Front(q, s) \in Seq(Slots)
           /\ Once(Front(q, s))
           /\ \A t : Links(Front(q, s), t)
                        <=> t = s \/ Links(q, t)
<1> DEFINE f == Front(q, s)
<1>1. /\ f \in Seq(Slots) /\ Len(f) = Len(q) + 1 /\ f[1] = s
      /\ \A i \in 1..Len(q) : f[i + 1] = q[i]
  BY DEF Front
<1>2. Len(q) \in Nat /\ DOMAIN q = 1..Len(q) /\ DOMAIN f = 1..(Len(q) + 1)
  BY <1>1
<1> HIDE DEF f
<1>3. \A i \in DOMAIN f : i = 1 \/ (i - 1 \in DOMAIN q /\ f[i] = q[i - 1])
  BY <1>1, <1>2
<1>4. \A i \in DOMAIN q : i + 1 \in DOMAIN f /\ f[i + 1] = q[i]
  BY <1>1, <1>2
<1>5. Once(f)
  <2> SUFFICES ASSUME NEW i \in DOMAIN f, NEW j \in DOMAIN f, f[i] = f[j] PROVE i = j
    BY DEF Once
  <2>1. CASE i = 1 \/ j = 1
    BY <1>1, <1>3, <2>1 DEF Links
  <2>2. CASE i # 1 /\ j # 1
    <3>1. i - 1 = j - 1
      BY <1>3, <2>2 DEF Once
    <3> QED  BY <1>2, <3>1
  <2> QED  BY <2>1, <2>2
<1>6. \A t : Links(f, t) <=> t = s \/ Links(q, t)
  <2>1. 1 \in DOMAIN f
    BY <1>2
  <2>2. ASSUME NEW t, Links(f, t) PROVE t = s \/ Links(q, t)
    BY <1>1, <1>3, <2>2 DEF Links
  <2>3. ASSUME NEW t, Links(q, t) PROVE Links(f, t)
    BY <1>4, <2>3 DEF Links
  <2>4. Links(f, s)
    BY <1>1, <2>1 DEF Links
  <2> QED  BY <2>2, <2>3, <2>4
<1> QED  BY <1>1, <1>5, <1>6 DEF f

LEMMA ListNext ==
    ASSUME TypeOK, ListInv, [Next]_vars
    PROVE  ListInv'
<1>0. /\ lru \in Seq(Slots) /\ Once(lru)
      /\ \A s \in Slots : Links(lru, s) <=> ~Pinned(s)
      /\ held \in [Holders -> Slots \union {NoSlot}] /\ NoSlot \notin Slots
  BY CacheAssumption DEF TypeOK, ListInv
<1>1. \A s : InLru(s) <=> Links(lru, s)
  BY DEF InLru, Links
<1>2. CASE UNCHANGED <<lru, held>>
  BY <1>2 DEF ListInv, Pinned
<1>3. ASSUME NEW h \in Holders, NEW b \in Blocks, NEW s \in Slots,
             GetHit(h, b, s) \/ GetMiss(h, b, s)
      PROVE  ListInv'
  <2>1. /\ held[h] = NoSlot /\ held' = [held EXCEPT ![h] = s]
        /\ lru' = IF Pinned(s) THEN lru ELSE Without(lru, s)
    BY <1>3 DEF GetHit, GetMiss, Evict, Victim
  <2>2. \A t \in Slots : (\E g \in Holders : held'[g] = t) <=> Pinned(t) \/ t = s
    BY <1>0, <2>1 DEF Pinned
  <2>3. CASE Pinned(s)
    BY <1>0, <2>1, <2>2, <2>3 DEF ListInv, Pinned
  <2>4. CASE ~Pinned(s)
    <3>1. Links(lru, s)
      BY <1>0, <2>4
    <3>2. /\ lru' \in Seq(Slots) /\ Once(lru')
          /\ \A t : Links(lru', t)
                       <=> t # s /\ Links(lru, t)
      <4>1. lru' = Without(lru, s)
        BY <2>1, <2>4
      <4> QED  BY ONLY <1>0, <3>1, <4>1, WithoutFacts
    <3> QED
      BY <1>0, <2>2, <3>2 DEF ListInv, Pinned
  <2> QED  BY <2>3, <2>4
<1>4. ASSUME NEW h \in Holders, NEW b \in Blocks, NEW s \in Slots, GetUnreadable(h, b, s)
      PROVE  ListInv'
  <2>1. held' = held /\ lru' = Front(Without(lru, s), s) /\ InLru(s)
    BY <1>4 DEF GetUnreadable, Evict, Victim
  <2> DEFINE w == Without(lru, s)
  <2>2. /\ w \in Seq(Slots) /\ Once(w)
        /\ \A t : Links(w, t) <=> t # s /\ Links(lru, t)
    BY <1>0, <1>1, <2>1, WithoutFacts
  <2> HIDE DEF w
  <2>3. /\ lru' \in Seq(Slots) /\ Once(lru')
        /\ \A t : Links(lru', t)
                     <=> t = s \/ Links(w, t)
    <3>1. lru' = Front(w, s)
      BY <2>1 DEF w
    <3>2. ~Links(w, s)
      BY <2>2
    <3> QED  BY ONLY <1>4, <2>2, <3>1, <3>2, FrontFacts
  <2>4. \A t : Links(lru', t) <=> Links(lru, t)
    BY <1>1, <2>1, <2>2, <2>3
  <2> QED
    BY <1>0, <2>1, <2>3, <2>4 DEF ListInv, Pinned
<1>5. ASSUME NEW h \in Holders, Release(h)
      PROVE  ListInv'
  <2>1. /\ held[h] \in Slots /\ held' = [held EXCEPT ![h] = NoSlot]
        /\ lru' = IF \E g \in Holders \ {h} : held[g] = held[h] THEN lru
                  ELSE Front(lru, held[h])
    BY <1>0, <1>5 DEF Release
  <2>2. \A t \in Slots : (\E g \in Holders : held'[g] = t)
                            <=> \E g \in Holders \ {h} : held[g] = t
    BY <1>0, <2>1
  <2>3. CASE \E g \in Holders \ {h} : held[g] = held[h]
    BY <1>0, <2>1, <2>2, <2>3 DEF ListInv, Pinned
  <2>4. CASE ~\E g \in Holders \ {h} : held[g] = held[h]
    <3>1. ~Links(lru, held[h])
      BY <1>0, <2>1 DEF Pinned
    <3>2. /\ lru' \in Seq(Slots) /\ Once(lru')
          /\ \A t : Links(lru', t)
                       <=> t = held[h] \/ Links(lru, t)
      <4>1. lru' = Front(lru, held[h])
        BY <2>1, <2>4
      <4> QED  BY ONLY <1>0, <2>1, <3>1, <4>1, FrontFacts
    <3> QED
      BY <1>0, <2>1, <2>2, <2>4, <3>2 DEF ListInv, Pinned
  <2> QED  BY <2>3, <2>4
<1>6. ASSUME NEW d \in Devices, Invalidate(d)
      PROVE  ListInv'
  <2> DEFINE I == {s \in Slots : key[s] # NoBlock /\ DevOf[key[s]] = d}
             L == {s \in Slots : InLru(s)} \union {s \in I : ~Pinned(s)}
  <2>1. held' = held /\ lru' \in Lists(L)
    BY <1>6 DEF Invalidate, Refronted
  <2>2. L \subseteq Slots /\ IsFiniteSet(L)
    BY CacheAssumption, FS_Subset
  <2>3. \A s \in Slots : s \in L <=> ~Pinned(s)
    BY <1>0, <1>1
  <2> HIDE DEF L
  <2>4. /\ lru' \in Seq(L) /\ Once(lru')
        /\ \A s : Links(lru', s) <=> s \in L
    BY <2>1, <2>2, ListsFacts
  <2>5. lru' \in Seq(Slots)
    BY <2>2, <2>4
  <2> QED
    BY <2>1, <2>3, <2>4, <2>5 DEF ListInv, Pinned
<1>7. CASE PowerCut
  <2>1. lru' \in Lists(Slots) /\ \A h \in Holders : held'[h] = NoSlot
    BY <1>7 DEF PowerCut, InitLists
  <2> QED
    BY <1>0, <2>1, CacheAssumption, ListsFacts DEF ListInv, Pinned
<1> QED
  BY <1>2, <1>3, <1>4, <1>5, <1>6, <1>7
     DEF Next, vars, Modify, MarkDirty, Sync, WriteBackPass, ListInv, LruSound, InLru, Pinned

LEMMA ListInit == Init => ListInv
<1> SUFFICES ASSUME Init PROVE ListInv
  OBVIOUS
<1>1. lru \in Lists(Slots) /\ \A h \in Holders : held[h] = NoSlot
  BY DEF Init, InitLists
<1> QED
  BY <1>1, CacheAssumption, ListsFacts DEF ListInv, Pinned

-----------------------------------------------------------------------------
(* The theorems *)

LEMMA CacheInductive == Spec => []IInv
BY InitIInv, NextStep, PTL DEF Spec

\* The fields of the buffer heads and what the holders have stay well formed;
\* no holder keeps an unmarked change of a buffer it has released.
THEOREM CacheTyped == Spec => []TypeOK
<1>1. IInv => TypeOK  BY DEF IInv
<1> QED  BY <1>1, CacheInductive, PTL

\* buffer_get hands out what was last written to the block, whatever was
\* evicted, invalidated or shared in between, and never two buffers of a block.
THEOREM CacheCoherent == Spec => []Coherent
<1>1. IInv => Coherent  BY DEF IInv
<1> QED  BY <1>1, CacheInductive, PTL

\* What buffer_cache_sync reported as written is on the medium until the block
\* is changed again, through failing writes, evictions and power cuts.
THEOREM SyncLasts == Spec => []SyncedSurvives
<1>1. IInv => SyncedSurvives  BY DEF IInv
<1> QED  BY <1>1, CacheInductive, PTL

\* The list of buffer_cache.c holds each buffer nobody holds once, for any number
\* of buffers: no failed read, shared release or invalidation loses a buffer or
\* links one twice.
THEOREM ListSound == Spec => []LruSound
<1>1. Init => IInv /\ ListInv
  BY InitIInv, ListInit
<1>2. IInv /\ ListInv /\ [Next]_vars => (IInv /\ ListInv)'
  BY NextStep, ListNext DEF IInv
<1>3. ListInv => LruSound
  BY DEF ListInv, LruSound, InLru, Links, Once
<1> QED  BY <1>1, <1>2, <1>3, PTL DEF Spec
=============================================================================

---------------------------- MODULE BufferCache ----------------------------
(***************************************************************************)
(* The block buffer cache of the file system (fs/cache/buffer_cache.c):    *)
(* buffer_get with eviction, the holders' changes, buffer_mark_dirty and   *)
(* buffer_release, buffer_cache_sync, buffer_cache_writeback_pass,         *)
(* buffer_cache_invalidate, and the loss of the cache when power fails.    *)
(*                                                                         *)
(* Every function of the cache is one step: the kernel calls them from one *)
(* thread at a time.  Any read or write of a block may fail.               *)
(*                                                                         *)
(* Abstractions.  A block is named by itself and lies on the device        *)
(* DevOf[b].  refcount is the number of holders.  valid is set exactly     *)
(* while dev is, so key stands for dev, block_no and valid, and the hash   *)
(* table, which holds the buffers that have a key, for a search of key.    *)
(* Statistics are left out.  buffer_cache_readahead is a get and a release *)
(* of each block.                                                          *)
(***************************************************************************)
EXTENDS Naturals, Sequences, FiniteSets

CONSTANTS
    Slots,          \* the buffer heads, in array order: 1..BUFFER_CACHE_MAX
    Blocks,         \* blocks of all devices
    Devices,        \* block devices
    DevOf,          \* DevOf[b]: the device of block b
    Values,         \* contents of a block
    Holders,        \* users of buffers, each of one at a time
    NoBlock, NoSlot \* NULL

ASSUME CacheAssumption ==
    /\ Slots \subseteq Nat /\ IsFiniteSet(Slots)
    /\ DevOf \in [Blocks -> Devices]
    /\ NoBlock \notin Blocks /\ NoSlot \notin Slots
    /\ Values # {}

VARIABLES
    medium,         \* what the devices hold
    key,            \* block a buffer holds
    data,           \* bh->data
    dirty,          \* buffers with bh->dirty
    lru,            \* the LRU list, most recently released first
    held,           \* buffer a holder has
    touched,        \* holders that changed data and did not mark it dirty yet
    latest,         \* history: contents of each block, as last changed
    lost,           \* history: blocks whose eviction could not write them
    since           \* history: contents a block had at or after the last sync

vars == <<medium, key, data, dirty, lru, held, touched, latest, lost, since>>
history == <<latest, lost, since>>

\* The orders in which a list can hold the buffers L, each once.
Lists(L) ==
    {q \in [1..Cardinality(L) -> L] : \A i, j \in DOMAIN q : q[i] = q[j] => i = j}

\* buffer_cache_init puts the buffers at the front one after the other.
InitLists == {q \in Lists(Slots) : \A i, j \in DOMAIN q : i < j => q[i] > q[j]}

Init ==
    /\ medium \in [Blocks -> Values]
    /\ key = [s \in Slots |-> NoBlock]
    /\ data \in [Slots -> Values]
    /\ dirty = {}
    /\ lru \in InitLists
    /\ held = [h \in Holders |-> NoSlot]
    /\ touched = {}
    /\ latest = medium
    /\ lost = {}
    /\ since = [b \in Blocks |-> {medium[b]}]

-----------------------------------------------------------------------------
(* Buffers *)

Pinned(s)  == \E h \in Holders : held[h] = s
Cached(b)  == \E s \in Slots : key[s] = b
\* Buffers a write-back of the devices D would write.
ToWrite(D) == {s \in dirty : key[s] # NoBlock /\ DevOf[key[s]] \in D}

\* lru_remove, of a buffer in the list, and lru_insert_front, of one that is not
Without(q, s) ==
    LET at == CHOOSE i \in DOMAIN q : q[i] = s
    IN  [i \in 1..(Len(q) - 1) |-> IF i < at THEN q[i] ELSE q[i + 1]]
Front(q, s) == <<s>> \o q

InLru(s) == \E i \in DOMAIN lru : lru[i] = s
\* s is nearer to the tail of the list than t.
Older(s, t) == \E i, j \in DOMAIN lru : i > j /\ lru[i] = s /\ lru[j] = t

\* buffer_evict takes the oldest buffer of the list that nobody holds.
Victim(s) ==
    /\ InLru(s) /\ ~Pinned(s)
    /\ \A t \in Slots : Older(t, s) => Pinned(t)

\* The medium once the buffers W are written back.
Written(W) ==
    [b \in Blocks |->
        IF \E s \in W : key[s] = b
        THEN data[CHOOSE s \in W : key[s] = b] ELSE medium[b]]

-----------------------------------------------------------------------------
(* buffer_get *)

GetHit(h, b, s) ==
    /\ held[h] = NoSlot
    /\ key[s] = b
    /\ held' = [held EXCEPT ![h] = s]
    /\ lru' = IF Pinned(s) THEN lru ELSE Without(lru, s)
    /\ UNCHANGED <<medium, key, data, dirty, touched, history>>

\* Mutant of Evict: the buffer goes without being written.
EvictDrops(s) ==
    /\ Victim(s)
    /\ UNCHANGED <<medium, lost>>

\* buffer_evict: a dirty victim is written first.  Whether that worked is not
\* asked, and the buffer is reused either way.
Evict(s) ==
    /\ Victim(s)
    /\ \/ medium' = Written({s} \intersect ToWrite(Devices)) /\ UNCHANGED lost
       \/ /\ s \in ToWrite(Devices)
          /\ lost' = lost \union {key[s]}
          /\ UNCHANGED medium

GetMiss(h, b, s) ==
    /\ held[h] = NoSlot
    /\ ~Cached(b)
    /\ Evict(s)
    /\ key' = [key EXCEPT ![s] = b]
    /\ data' = [data EXCEPT ![s] = medium'[b]]
    /\ dirty' = dirty \ {s}
    /\ held' = [held EXCEPT ![h] = s]
    /\ lru' = Without(lru, s)
    /\ UNCHANGED <<touched, latest, since>>

\* The victim is gone when the read of the new block fails.
GetUnreadable(h, b, s) ==
    /\ held[h] = NoSlot
    /\ ~Cached(b)
    /\ Evict(s)
    /\ key' = [key EXCEPT ![s] = NoBlock]
    /\ dirty' = dirty \ {s}
    /\ lru' = Front(Without(lru, s), s)
    /\ UNCHANGED <<data, held, touched, latest, since>>

-----------------------------------------------------------------------------
(* The holder *)

Modify(h, v) ==
    /\ held[h] # NoSlot
    /\ LET s == held[h]
           b == key[s]
       IN  /\ data' = [data EXCEPT ![s] = v]
           /\ IF b = NoBlock THEN UNCHANGED history
              ELSE /\ latest' = [latest EXCEPT ![b] = v]
                   /\ lost' = lost \ {b}
                   /\ since' = [since EXCEPT ![b] = @ \union {v}]
    /\ touched' = touched \union {h}
    /\ UNCHANGED <<medium, key, dirty, lru, held>>

\* buffer_mark_dirty
MarkDirty(h) ==
    /\ h \in touched
    /\ dirty' = dirty \union {held[h]}
    /\ touched' = touched \ {h}
    /\ UNCHANGED <<medium, key, data, lru, held, history>>

\* Mutant of Release: the list gets the buffer while others hold it.
ReleaseEarly(h) ==
    /\ held[h] # NoSlot /\ h \notin touched
    /\ held' = [held EXCEPT ![h] = NoSlot]
    /\ lru' = Front(lru, held[h])
    /\ UNCHANGED <<medium, key, data, dirty, touched, history>>

\* buffer_release: the file system marks what it changed before it releases.
Release(h) ==
    /\ held[h] # NoSlot /\ h \notin touched
    /\ held' = [held EXCEPT ![h] = NoSlot]
    /\ lru' = IF \E g \in Holders \ {h} : held[g] = held[h] THEN lru
              ELSE Front(lru, held[h])
    /\ UNCHANGED <<medium, key, data, dirty, touched, history>>

-----------------------------------------------------------------------------
(* Write-back *)

\* Blocks of device d that hold what they should once d is synced: the others
\* were lost before, or their holder has not marked its change yet.
Settled(d) ==
    {b \in Blocks : /\ DevOf[b] = d /\ b \notin lost
                    /\ \A h \in touched : key[held[h]] # b}

\* Mutant of Sync: a write that failed clears dirty too.
SyncClears(d, W) ==
    /\ W \subseteq ToWrite({d})
    /\ medium' = Written(W)
    /\ dirty' = dirty \ ToWrite({d})
    /\ since' = IF W = ToWrite({d})
                THEN [b \in Blocks |-> IF b \in Settled(d) THEN {latest[b]} ELSE since[b]]
                ELSE since
    /\ UNCHANGED <<key, data, lru, held, touched, latest, lost>>

\* buffer_cache_sync: of the dirty buffers of d, W could be written.  It returns
\* 0 when that is all of them.
Sync(d, W) ==
    /\ W \subseteq ToWrite({d})
    /\ medium' = Written(W)
    /\ dirty' = dirty \ W
    /\ since' = IF W = ToWrite({d})
                THEN [b \in Blocks |-> IF b \in Settled(d) THEN {latest[b]} ELSE since[b]]
                ELSE since
    /\ UNCHANGED <<key, data, lru, held, touched, latest, lost>>

\* buffer_cache_writeback_pass: from the tail of the list, until the budget is
\* spent or a write fails.
WriteBackPass(D, W) ==
    /\ W # {}
    /\ W \subseteq {s \in ToWrite(D) : InLru(s)}
    /\ \A s \in W : \A t \in ToWrite(D) : Older(t, s) => t \in W
    /\ medium' = Written(W)
    /\ dirty' = dirty \ W
    /\ UNCHANGED <<key, data, lru, held, touched, history>>

-----------------------------------------------------------------------------
(* Invalidation and power *)

\* The list after the free buffers among I went to its front, in array order.
Refronted(I) ==
    LET Free == {s \in I : ~Pinned(s)}
        Ahead(s, t) == IF s \in Free THEN t \in Free => s > t
                       ELSE t \notin Free /\ Older(t, s)
    IN  {q \in Lists({s \in Slots : InLru(s)} \union Free) :
            \A i, j \in DOMAIN q : i < j => Ahead(q[i], q[j])}

\* buffer_cache_invalidate: what was not written is discarded; a holder keeps
\* its buffer, which no longer is the buffer of any block.
Invalidate(d) ==
    LET I == {s \in Slots : key[s] # NoBlock /\ DevOf[key[s]] = d} IN
    /\ key' = [s \in Slots |-> IF s \in I THEN NoBlock ELSE key[s]]
    /\ dirty' = dirty \ I
    /\ lru' \in Refronted(I)
    /\ latest' = [b \in Blocks |-> IF DevOf[b] = d THEN medium[b] ELSE latest[b]]
    /\ lost' = {b \in lost : DevOf[b] # d}
    /\ since' = [b \in Blocks |-> IF DevOf[b] = d THEN {medium[b]} ELSE since[b]]
    /\ UNCHANGED <<medium, data, held, touched>>

\* Power fails and the machine starts again with an empty cache.
PowerCut ==
    /\ key' = [s \in Slots |-> NoBlock]
    /\ dirty' = {}
    /\ lru' \in InitLists
    /\ held' = [h \in Holders |-> NoSlot]
    /\ touched' = {}
    /\ latest' = medium
    /\ lost' = {}
    /\ since' = [b \in Blocks |-> {medium[b]}]
    /\ UNCHANGED <<medium, data>>

Next ==
    \/ \E h \in Holders, b \in Blocks, s \in Slots :
          GetHit(h, b, s) \/ GetMiss(h, b, s) \/ GetUnreadable(h, b, s)
    \/ \E h \in Holders, v \in Values : Modify(h, v)
    \/ \E h \in Holders : MarkDirty(h) \/ Release(h)
    \/ \E d \in Devices, W \in SUBSET Slots : Sync(d, W)
    \/ \E D \in {{d} : d \in Devices} \union {Devices}, W \in SUBSET Slots :
          WriteBackPass(D, W)
    \/ \E d \in Devices : Invalidate(d)
    \/ PowerCut

Spec == Init /\ [][Next]_vars

-----------------------------------------------------------------------------
(* Properties *)

TypeOK ==
    /\ medium \in [Blocks -> Values] /\ latest \in [Blocks -> Values]
    /\ key \in [Slots -> Blocks \union {NoBlock}]
    /\ data \in [Slots -> Values]
    /\ dirty \subseteq Slots
    /\ held \in [Holders -> Slots \union {NoSlot}]
    /\ touched \subseteq Holders
    /\ \A h \in touched : held[h] # NoSlot
    /\ lost \subseteq Blocks
    /\ since \in [Blocks -> SUBSET Values]

\* The list holds the buffers nobody holds, each once: none leaks out of the
\* cache through a failed read, an invalidation or a shared release.
LruSound ==
    /\ \A s \in Slots : InLru(s) <=> ~Pinned(s)
    /\ \A i, j \in DOMAIN lru : lru[i] = lru[j] => i = j

\* A block has one buffer, and a reader finds what was last written to the
\* block: in its buffer, or on the medium when it has none; except for blocks
\* an eviction lost to a write error.
Coherent ==
    /\ \A s, t \in Slots : key[s] # NoBlock /\ key[s] = key[t] => s = t
    /\ \A s \in Slots : key[s] \in Blocks \ lost => data[s] = latest[key[s]]
    /\ \A b \in Blocks \ lost : ~Cached(b) => medium[b] = latest[b]

\* When buffer_cache_sync returns 0 every block of the device is on the medium
\* as last changed (but for blocks lost before, and changes whose holder has
\* not called buffer_mark_dirty yet), and that stays so through evictions,
\* failed writes and pinned buffers: the medium only moves on to contents
\* given to the block since.
SyncedSurvives == \A b \in Blocks : medium[b] \in since[b]
=============================================================================

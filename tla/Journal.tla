------------------------------- MODULE Journal -------------------------------
(***************************************************************************)
(* The write-ahead log of CAPYFS: journal.c (ring of entries, commit,      *)
(* checkpoint, replay) as capyfs_journal_integration.c drives it (mount    *)
(* hook, metadata write, checkpoint on sync).                              *)
(*                                                                         *)
(* One block write is one step and power may fail between any two.  dsb,   *)
(* ring and home are the journal superblock, the ring of journal blocks    *)
(* and the metadata blocks on the medium; vsb, vring and vhome are what a  *)
(* read returns.  The journal never flushes, so with DeviceCache a written *)
(* block may be lost at the crash independently of the others; without it  *)
(* every write is durable when it returns.                                 *)
(*                                                                         *)
(* Abstractions.  A metadata block's contents is a member of Values.  The  *)
(* HMAC tag of a commit block is what it binds: sequence, refs, payload.   *)
(* The key is always available when Auth (the root secret is installed     *)
(* before the mount); memory allocation does not fail.                     *)
(***************************************************************************)
EXTENDS Naturals, Sequences, FiniteSets

CONSTANTS
    Targets,        \* home locations of metadata blocks
    Values,         \* contents of a metadata block
    NoValue,        \* contents of blocks that hold no metadata
    InitialValue,   \* what every metadata block holds at first
    RingSize,       \* sb.block_count: blocks of the ring
    MaxRefs,        \* JOURNAL_ENTRY_MAX_BLOCKS
    Auth,           \* JOURNAL_VERSION_AUTH?
    DeviceCache,    \* does the device cache writes?
    MaxSequence,    \* bound on current_sequence
    MaxCrashes,     \* bound on crashes
    MaxErrors       \* bound on failing block reads and writes

ASSUME JournalAssumption ==
    /\ InitialValue \in Values /\ NoValue \notin Values
    /\ RingSize \in Nat /\ RingSize >= 3
    /\ MaxRefs \in Nat \ {0}
    /\ Auth \in BOOLEAN /\ DeviceCache \in BOOLEAN
    /\ MaxSequence \in Nat /\ MaxCrashes \in Nat /\ MaxErrors \in Nat

VARIABLES
    dsb, ring, home,        \* the medium
    vsb, vring, vhome,      \* the medium as reads see it
    jsb,                    \* j->sb in RAM
    current,                \* j->current_sequence
    dirty,                  \* j->dirty
    pc,                     \* next step of the operation in progress
    txn,                    \* struct journal_transaction
    unsaved,                \* metadata blocks changed in memory, not written home
    rp,                     \* journal_replay's locals
    cause,                  \* g_journal_recovery_cause
    logical, inflight,      \* history: contents acknowledged; in-flight included
    issued,                 \* history: entries ever started (kept with Auth)
    crashes, errors         \* counters for the bounds

deviceVars  == <<dsb, ring, home, vsb, vring, vhome>>
ramVars     == <<jsb, current, dirty, txn, unsaved, rp, cause>>
historyVars == <<logical, inflight, issued>>
vars == <<deviceVars, ramVars, historyVars, pc, crashes, errors>>

Ring == 0..(RingSize - 1)
\* Mutant of Succ: the ring does not wrap.
SuccNoWrap(k) == k + 1

Succ(k) == (k + 1) % RingSize
\* Blocks from position a up to position b, b excluded.
Distance(a, b) == (b + RingSize - a) % RingSize

\* The blocks a transaction logs, each once, and their new contents.
RefsOf(n) == {r \in [1..n -> Targets] : \A i, k \in 1..n : r[i] = r[k] => i = k}
PayloadsOf(n) == [1..n -> Values]

\* The blocks of the ring.
Block(type, seq, refs, data) ==
    [type |-> type, seq |-> seq, refs |-> refs, data |-> data]
ZeroBlock == Block("zero", 0, <<>>, <<>>)
MetaBlock(t) == Block("meta", t.seq, t.refs, <<>>)
DataBlock(v) == Block("data", 0, <<>>, <<v>>)
\* With Auth the commit block carries the tag, i.e. what the tag binds.
CommitBlock(t) ==
    IF Auth THEN Block("commit", t.seq, t.refs, t.data)
    ELSE Block("commit", t.seq, <<>>, <<>>)

NoTxn    == [seq |-> 0, refs |-> <<>>, data |-> <<>>]
NoReplay == [pos |-> 0, seq |-> 0, refs |-> <<>>, data |-> <<>>, i |-> 1, ok |-> TRUE]
Unformatted == [magic |-> FALSE, head |-> 0, tail |-> 0, seq |-> 0]

\* The contents of the metadata blocks once a transaction is applied.
Apply(c, t) ==
    [x \in Targets |->
        LET hits == {i \in DOMAIN t.refs : t.refs[i] = x}
        IN  IF hits = {} THEN c[x]
            ELSE t.data[CHOOSE i \in hits : \A k \in hits : k <= i]]

Init ==
    /\ dsb = Unformatted /\ vsb = dsb
    /\ ring = [k \in Ring |-> ZeroBlock] /\ vring = ring
    /\ home = [t \in Targets |-> InitialValue] /\ vhome = home
    /\ jsb = Unformatted
    /\ current = 0
    /\ dirty = FALSE
    /\ pc = "off"
    /\ txn = NoTxn
    /\ unsaved = {}
    /\ rp = NoReplay
    /\ cause = "none"
    /\ logical = home /\ inflight = home
    /\ issued = {}
    /\ crashes = 0
    /\ errors = 0

-----------------------------------------------------------------------------
(* The block device *)

PutSb(s) ==
    /\ vsb' = s
    /\ dsb' = IF DeviceCache THEN dsb ELSE s
    /\ UNCHANGED <<ring, vring, home, vhome>>

PutRing(k, b) ==
    /\ vring' = [vring EXCEPT ![k] = b]
    /\ ring' = IF DeviceCache THEN ring ELSE vring'
    /\ UNCHANGED <<dsb, vsb, home, vhome>>

PutHome(t, v) ==
    /\ vhome' = [vhome EXCEPT ![t] = v]
    /\ home' = IF DeviceCache THEN home ELSE vhome'
    /\ UNCHANGED <<dsb, vsb, ring, vring>>

Error ==
    /\ errors < MaxErrors
    /\ errors' = errors + 1

\* The journal ignores the result of its block writes: the write is done, or it
\* failed and nobody notices.
Ignoring(write) ==
    \/ write /\ UNCHANGED errors
    \/ Error /\ UNCHANGED deviceVars

\* RAM is lost.
PowerOff ==
    /\ jsb' = Unformatted
    /\ current' = 0
    /\ dirty' = FALSE
    /\ pc' = "off"
    /\ txn' = NoTxn
    /\ unsaved' = {}
    /\ rp' = NoReplay
    /\ cause' = "none"
    /\ UNCHANGED <<historyVars, errors>>

\* The power fails: cached blocks survive independently of each other.
Crash ==
    /\ pc # "off"
    /\ crashes < MaxCrashes
    /\ crashes' = crashes + 1
    /\ dsb' \in {dsb, vsb} /\ vsb' = dsb'
    /\ \E lost \in SUBSET {k \in Ring : ring[k] # vring[k]} :
          /\ ring' = [k \in Ring |-> IF k \in lost THEN ring[k] ELSE vring[k]]
          /\ vring' = ring'
    /\ \E lost \in SUBSET {t \in Targets : home[t] # vhome[t]} :
          /\ home' = [t \in Targets |-> IF t \in lost THEN home[t] ELSE vhome[t]]
          /\ vhome' = home'
    /\ PowerOff

\* An orderly reboot, after a sync: the device keeps what it has cached.
Reboot ==
    /\ pc \in {"idle", "unjournaled"}
    /\ unsaved = {}
    /\ PowerOff
    /\ UNCHANGED <<deviceVars, crashes>>

-----------------------------------------------------------------------------
(* capyfs_journal_mount_hook and journal_init *)

\* An existing journal is opened; it is replayed if head and tail differ.
Mount ==
    /\ pc = "off"
    /\ vsb.magic
    /\ jsb' = vsb
    /\ current' = vsb.seq
    /\ IF vsb.head # vsb.tail
       THEN pc' = "scan" /\ rp' = [NoReplay EXCEPT !.pos = vsb.tail]
       ELSE pc' = "mounted" /\ rp' = NoReplay
    /\ cause' = "none"
    /\ UNCHANGED <<deviceVars, dirty, txn, unsaved, historyVars, crashes, errors>>

\* journal_init failed, because the superblock has no magic or because it
\* could not be read: the hook formats the journal.
MountFormat ==
    /\ pc = "off"
    /\ \/ ~vsb.magic /\ UNCHANGED errors
       \/ Error
    /\ jsb' = [magic |-> TRUE, head |-> 0, tail |-> 0, seq |-> 1]
    /\ cause' = "none"
    /\ pc' = "zero"
    /\ UNCHANGED <<deviceVars, current, dirty, txn, unsaved, rp, historyVars,
                   crashes>>

\* journal_format_with_version zeroes the region, the superblock first.
FormatZeroSb ==
    /\ pc = "zero"
    /\ Ignoring(PutSb(Unformatted))
    /\ rp' = NoReplay
    /\ pc' = "zeroring"
    /\ UNCHANGED <<jsb, current, dirty, txn, unsaved, cause, historyVars, crashes>>

FormatZero ==
    /\ pc = "zeroring"
    /\ Ignoring(PutRing(rp.pos, ZeroBlock))
    /\ rp' = [rp EXCEPT !.pos = Succ(@)]
    /\ pc' = IF Succ(rp.pos) = 0 THEN "format" ELSE "zeroring"
    /\ UNCHANGED <<jsb, current, dirty, txn, unsaved, cause, historyVars, crashes>>

FormatDone ==
    /\ pc = "format"
    /\ PutSb(jsb)
    /\ current' = jsb.seq
    /\ dirty' = FALSE
    /\ cause' = "format"
    /\ pc' = "mounted"
    /\ UNCHANGED <<jsb, txn, unsaved, rp, historyVars, crashes, errors>>

\* The superblock write is the one result the format looks at: the filesystem
\* goes on without a journal.
FormatFailed ==
    /\ pc = "format"
    /\ Error
    /\ pc' = "unjournaled"
    /\ UNCHANGED <<deviceVars, ramVars, historyVars, crashes>>

\* The filesystem is in use: what the medium holds now is what counts.
StartUse ==
    /\ pc = "mounted"
    /\ logical' = vhome /\ inflight' = vhome
    /\ pc' = "idle"
    /\ UNCHANGED <<deviceVars, ramVars, issued, crashes, errors>>

-----------------------------------------------------------------------------
(* journal_replay *)

\* What a block holds when it is copied to a metadata block's home.
Content(b) == IF b.type = "data" THEN b.data[1] ELSE NoValue

\* The payload that follows the entry header at position k, at most n blocks.
Staged(k, n) == [i \in 1..n |-> Content(vring[(k + i) % RingSize])]

Entry(seq, refs, data) == [seq |-> seq, refs |-> refs, data |-> data]

\* Mutant of Authentic: the tag of the commit block is not compared.
AuthenticUntagged(k) ==
    LET h == vring[k]
        n == Len(h.refs)
        c == vring[(k + n + 1) % RingSize]
    IN  /\ n < Distance(Succ(k), jsb.head)
        /\ c.type = "commit" /\ c.seq = h.seq

\* The entry at position k has its commit block before the head, with the same
\* sequence and a tag over this sequence, these refs and this payload.
Authentic(k) ==
    LET h == vring[k]
        n == Len(h.refs)
        c == vring[(k + n + 1) % RingSize]
    IN  /\ n < Distance(Succ(k), jsb.head)
        /\ c.type = "commit" /\ c.seq = h.seq
        /\ Entry(c.seq, c.refs, c.data) = Entry(h.seq, h.refs, Staged(k, n))

Scanning == pc = "scan" /\ rp.pos # jsb.head

\* Mutant of SkipCommit: the position does not move on.
SkipCommitStays ==
    /\ Scanning
    /\ vring[rp.pos].type = "commit"
    /\ rp' = rp
    /\ UNCHANGED <<deviceVars, jsb, current, dirty, txn, unsaved, cause,
                   historyVars, pc, crashes, errors>>

SkipCommit ==
    /\ Scanning
    /\ vring[rp.pos].type = "commit"
    /\ rp' = [rp EXCEPT !.pos = Succ(@)]
    /\ UNCHANGED <<deviceVars, jsb, current, dirty, txn, unsaved, cause,
                   historyVars, pc, crashes, errors>>

\* JOURNAL_VERSION: the payload before the head is applied as it is read.
ScanLegacy ==
    /\ Scanning
    /\ ~Auth
    /\ vring[rp.pos].type = "meta"
    /\ LET h == vring[rp.pos]
           a == Distance(Succ(rp.pos), jsb.head)
           n == IF Len(h.refs) < a THEN Len(h.refs) ELSE a
       IN  rp' = [pos |-> (rp.pos + n + 1) % RingSize, seq |-> h.seq,
                  refs |-> SubSeq(h.refs, 1, n), data |-> Staged(rp.pos, n),
                  i |-> 1, ok |-> rp.ok]
    /\ pc' = "apply"
    /\ UNCHANGED <<deviceVars, jsb, current, dirty, txn, unsaved, cause,
                   historyVars, crashes, errors>>

\* JOURNAL_VERSION_AUTH: the payload is staged and its tag verified first.
ScanAuth ==
    /\ Scanning
    /\ Auth
    /\ vring[rp.pos].type = "meta"
    /\ Authentic(rp.pos)
    /\ LET h == vring[rp.pos]
           n == Len(h.refs)
       IN  rp' = [pos |-> (rp.pos + n + 2) % RingSize, seq |-> h.seq,
                  refs |-> h.refs, data |-> Staged(rp.pos, n),
                  i |-> 1, ok |-> rp.ok]
    /\ pc' = "apply"
    /\ UNCHANGED <<deviceVars, jsb, current, dirty, txn, unsaved, cause,
                   historyVars, crashes, errors>>

\* One block of the entry goes home; a failed read or write is not noticed.
ApplyBlock ==
    /\ pc = "apply"
    /\ rp.i <= Len(rp.refs)
    /\ Ignoring(PutHome(rp.refs[rp.i], rp.data[rp.i]))
    /\ rp' = [rp EXCEPT !.i = @ + 1]
    /\ UNCHANGED <<jsb, current, dirty, txn, unsaved, cause, historyVars, pc,
                   crashes>>

EntryApplied ==
    /\ pc = "apply"
    /\ rp.i > Len(rp.refs)
    /\ pc' = "scan"
    /\ UNCHANGED <<deviceVars, ramVars, historyVars, crashes, errors>>

\* The scan stops before the head: at a block without the magic, at an entry
\* that does not verify, or at a block that cannot be read.
StopScan(ok) ==
    /\ rp' = [rp EXCEPT !.pos = jsb.head, !.ok = ok]
    /\ UNCHANGED <<deviceVars, jsb, current, dirty, txn, unsaved, cause,
                   historyVars, pc, crashes>>

ScanBreaks ==
    /\ Scanning
    /\ \/ /\ vring[rp.pos].type \in {"zero", "data"}
          /\ StopScan(rp.ok) /\ UNCHANGED errors
       \/ /\ Auth /\ vring[rp.pos].type = "meta" /\ ~Authentic(rp.pos)
          /\ StopScan(FALSE) /\ UNCHANGED errors
       \/ Error /\ StopScan(rp.ok)
       \/ Auth /\ vring[rp.pos].type = "meta" /\ Error /\ StopScan(FALSE)

ReplayDone ==
    /\ pc = "scan"
    /\ rp.pos = jsb.head
    /\ jsb' = [jsb EXCEPT !.tail = jsb.head, !.seq = @ + 1]
    /\ Ignoring(PutSb(jsb'))
    /\ current' = jsb'.seq
    /\ cause' = IF rp.ok THEN "replay" ELSE "failed"
    /\ rp' = NoReplay
    /\ pc' = "mounted"
    /\ UNCHANGED <<dirty, txn, unsaved, historyVars, crashes>>

-----------------------------------------------------------------------------
(* journal_begin, journal_log_block, journal_commit, journal_abort, and the  *)
(* write of the metadata blocks themselves                                   *)

\* Mutant of Fits: one block fewer is asked for.
FitsOffByOne(n) ==
    Distance(jsb.tail, jsb.head) + n + 1 <= RingSize - 1

\* Mutant of Fits: the space the live entries take is not counted.
FitsEmptyRing(n) == n + 2 <= RingSize - 1

\* The room journal_commit asks for: header, payload and commit block, with one
\* block of the ring always free.
Fits(n) ==
    Distance(jsb.tail, jsb.head) + n + 2 <= RingSize - 1

Begin(refs, data) ==
    /\ pc = "idle"
    /\ current < MaxSequence
    /\ Fits(Len(refs))
    /\ txn' = Entry(current, refs, data)
    /\ current' = current + 1
    /\ inflight' = Apply(logical, txn')
    /\ issued' = IF Auth THEN issued \union {txn'} ELSE issued
    /\ pc' = "meta"
    /\ UNCHANGED <<deviceVars, jsb, dirty, unsaved, rp, cause, logical, crashes,
                   errors>>

\* The transaction is aborted, or the ring is full and the commit refused: the
\* sequence number is used up.
Refused ==
    /\ pc = "idle"
    /\ current < MaxSequence
    /\ current' = current + 1
    /\ UNCHANGED <<deviceVars, jsb, dirty, txn, unsaved, rp, cause, historyVars,
                   pc, crashes, errors>>

\* Write one block of the entry at the head, which moves on.
AppendBlock(b, next) ==
    /\ Ignoring(PutRing(jsb.head, b))
    /\ jsb' = [jsb EXCEPT !.head = Succ(@)]
    /\ pc' = next
    /\ UNCHANGED <<current, dirty, txn, unsaved, cause, historyVars, crashes>>

CommitMeta ==
    /\ pc = "meta"
    /\ AppendBlock(MetaBlock(txn), "data")
    /\ rp' = NoReplay

CommitData ==
    /\ pc = "data"
    /\ AppendBlock(DataBlock(txn.data[rp.i]),
              IF rp.i < Len(txn.data) THEN "data" ELSE "commit")
    /\ rp' = [rp EXCEPT !.i = @ + 1]

CommitMark ==
    /\ pc = "commit"
    /\ AppendBlock(CommitBlock(txn), "sb")
    /\ rp' = NoReplay

\* The new head is persisted and the commit returns 0.
CommitDone ==
    /\ pc = "sb"
    /\ Ignoring(PutSb(jsb))
    /\ dirty' = TRUE
    /\ logical' = inflight
    /\ unsaved' = unsaved \union {txn.refs[i] : i \in DOMAIN txn.refs}
    /\ txn' = NoTxn
    /\ pc' = "idle"
    /\ UNCHANGED <<jsb, current, rp, cause, inflight, issued, crashes>>

\* A metadata block is written home: only after the journal has it.
WriteHome(t) ==
    /\ pc = "idle"
    /\ t \in unsaved
    /\ PutHome(t, logical[t])
    /\ unsaved' = unsaved \ {t}
    /\ UNCHANGED <<jsb, current, dirty, txn, rp, cause, historyVars, pc, crashes,
                   errors>>

\* journal_checkpoint, called at a sync: every block is home.
Checkpoint ==
    /\ pc = "idle"
    /\ dirty
    /\ unsaved = {}
    /\ jsb' = [jsb EXCEPT !.tail = jsb.head, !.seq = @ + 1]
    /\ Ignoring(PutSb(jsb'))
    /\ dirty' = FALSE
    /\ current' = jsb'.seq
    /\ UNCHANGED <<txn, unsaved, rp, cause, historyVars, pc, crashes>>

-----------------------------------------------------------------------------
Opening == Mount \/ MountFormat \/ FormatZeroSb \/ FormatZero \/ FormatDone \/ FormatFailed

Recovery ==
    \/ SkipCommit \/ ScanLegacy \/ ScanAuth \/ ApplyBlock \/ EntryApplied
    \/ ScanBreaks \/ ReplayDone

Committing == CommitMeta \/ CommitData \/ CommitMark \/ CommitDone

Next ==
    \/ Crash \/ Reboot
    \/ Opening \/ Recovery \/ StartUse
    \/ \E n \in 1..MaxRefs : \E refs \in RefsOf(n), data \in PayloadsOf(n) :
          Begin(refs, data)
    \/ Refused \/ Committing
    \/ \E t \in Targets : WriteHome(t)
    \/ Checkpoint

Spec == Init /\ [][Next]_vars

\* A machine that is off is switched on and mounts: the mount runs to its end in
\* one thread, with nothing to wait for.
FairSpec == Spec /\ WF_vars(Opening \/ Recovery)

-----------------------------------------------------------------------------
(* Properties *)

Blocks ==
    [type : {"zero", "meta", "data", "commit"}, seq : Nat,
     refs : UNION {RefsOf(n) : n \in 0..MaxRefs},
     data : UNION {PayloadsOf(n) : n \in 0..MaxRefs}]
Superblocks == [magic : BOOLEAN, head : Ring, tail : Ring, seq : Nat]
Contents == [Targets -> Values \union {NoValue}]

\* The ring positions, counters and cursors stay in range through commit,
\* checkpoint, wrap-around, replay and format.
TypeOK ==
    /\ dsb \in Superblocks /\ vsb \in Superblocks /\ jsb \in Superblocks
    /\ ring \in [Ring -> Blocks] /\ vring \in [Ring -> Blocks]
    /\ home \in Contents /\ vhome \in Contents
    /\ current \in Nat
    /\ dirty \in BOOLEAN
    /\ pc \in {"off", "zero", "zeroring", "format", "unjournaled", "scan", "apply", "mounted",
               "idle", "meta", "data", "commit", "sb"}
    /\ txn.refs \in UNION {RefsOf(n) : n \in 0..MaxRefs} /\ Len(txn.data) = Len(txn.refs)
    /\ unsaved \subseteq Targets
    /\ rp.pos \in Ring /\ Len(rp.data) = Len(rp.refs) /\ rp.i \in 1..(MaxRefs + 1)
    /\ cause \in {"none", "replay", "failed", "format"}
    /\ logical \in Contents /\ inflight \in Contents

\* The write-ahead guarantee of capyfs_journal_write_metadata: whatever crash
\* points the commits, home writes, checkpoints and earlier replays met, a mount
\* ends with every acknowledged transaction in place, and the one that was in
\* flight applied as a whole or not at all.
WalGuarantee == pc = "mounted" => vhome \in {logical, inflight}

\* The entries a replay would still need are never overwritten: an entry is
\* appended only into the part of the ring that the superblock on the medium
\* has released, wrap-around included.
LiveEntriesKept ==
    [][\A k \in Ring :
          Distance(dsb.tail, k) < Distance(dsb.tail, dsb.head)
          => vring'[k] = vring[k]]_vars

\* A replay that has started is brought to its end: the scan passes every block
\* of the ring between tail and head and stops, and when the power fails half
\* way a later mount takes it up again.
ReplayEnds == pc = "scan" ~> pc \in {"mounted", "unjournaled"}

\* With authentication a replay writes home only what some transaction logged,
\* as a whole: never a payload mixed from two entries, whatever cached blocks
\* the device lost and although sequence numbers are used again.
AppliesOnlyIssued == pc = "apply" => Entry(rp.seq, rp.refs, rp.data) \in issued

\* capyfs_journal_integration.c, line 161: a format means "Journal not formatted
\* yet": no journal with entries to replay is ever formatted.
FormatsOnlyFresh == pc = "zero" => vsb.head = vsb.tail

=============================================================================
